SPECIFICATION Spec
CONSTANTS
  Runs = {r1, r2}
  Reviewers = {c1, c2}
  p0 = p0
  p1 = p1
  p2 = p2
  p3 = p3
  Policies = {p0, p1, p2, p3}
  Plans <- MCPlans
  LastStep = 2
  NoRun = NoRun
  NoPlan = NoPlan
  NoPolicy = NoPolicy
  NoDecision = NoDecision
SYMMETRY GovernanceSymmetry
INVARIANTS AuthorityInOrder FinalStepApplied
PROPERTIES AliasLedger
