SPECIFICATION Spec
CONSTANTS
  Corrections = {c1, c2}
  Humans = {alice, bob}
  Errors = {"OSError", "GraphMemoryIntegrityError"}
  Nobody = Nobody
  NoCorrection = NoCorrection
INVARIANTS DecisionsStand JournalLeads
PROPERTY RestartDelivers
