SPECIFICATION Spec
CONSTANTS
  world = world
  otherWorld = otherWorld
  episode = episode
  Facts <- ThreeFacts
  Identity <- IdentityOf
  Needs <- NeedsOf
  Threads = {t1}
  AppendFaults <- TornFaults
  MaxLines = 2
  Torn = Torn
  Corrupt = Corrupt
  NoFact = NoFact
INVARIANTS MirroredIsDurable
\* A process whose cache file does not load stays down.
CHECK_DEADLOCK FALSE
