SPECIFICATION SideSpec
CONSTANTS
  None = None
  Jobs = {"j1", "j2"}
  Outputs <- SomeOutputs
  MaxBoots = 3
  SuccessCounts = {12, 16, 20}
  Collisions = {0, 1, 2, 3}
  Falls = {0, 1}
  Clearances = {24, 25}
  Efficiencies = {0, 80, 100}
  Situations <- SomeSituations
  Pairs = {"a", "b"}
  MaxSteps = 4
  SampleEvery = 2
  SettleSteps = 2
  PolicyEvery = 4
  SuperviseEvery = 2
  ControlEvery = 2
  Forwards <- SomeForwards
  Turnings <- SomeTurnings
  ForwardDeceleration = 2
  TurnDeceleration = 3
  MaxUpdates = 4
  Invocations = {i1, i2}
  Evaluations = {e1}
  ReviewRoots <- ReviewedRoots
  TrainedPolicies <- Trainings
  Seeds <- TwoSeeds
  Succeeds <- SuccessesOf
  MinimumWorlds = 2
  MinimumSeed = 6
  Robot = "mm01"
  DirectGoal = "direct"
  RootOrder <- TwoRoots
  Pids = {1, 2}
  MaxVersions = 1
  MaxTicks = 2
  MaxSnapshots = 2
  Steps = {1, 2}
  Outcomes <- SomeOutcomes
  MaxAttempts = 2
  Limit = 2
  Chunks = {0, 1, 3}
  Scopes = {"episodes:write", "training:write", "approvals:write", "workflows:write", "corrections:write"}
  Columns = 6
  GridRows = 4
  Margin = 1
  Gap = 0
  Boundary = 0
  Nearest = 5
  Anchors <- Corners
  Footprints <- SomeFootprints
  Places <- Middle
  ObjectCounts = {1, 2}
  MaxCandidates = 2
INVARIANTS
  JobsStand VerdictsAgree SuccessIsMeasured AccessEarnedOnce NeverHalfRestored
  OnlyTheApiIsStopped ControllerEarned ChangesEarned PathsEarned
PROPERTIES StopsOnTheRamp TrainedOnce
\* The calls, processes and events of the instances are used up.
CHECK_DEADLOCK FALSE
