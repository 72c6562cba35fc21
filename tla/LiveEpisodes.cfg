SPECIFICATION Spec
CONSTANTS
  Episodes = {e1, e2}
  MaxConcurrent = 1
  MaxRetained = 1
  PhysicsHz = 40
  TelemetryHz = 20
  VideoHz = 30
  MaxSteps = 3
  FrameBytes <- SomeFrameBytes
  MaxFrameSets = 3
  MaxBytes = 3
  MaxTotalBytes = 4
  NoReason = NoReason
INVARIANTS LiveTruthful CancelTakesEffect
PROPERTIES EveryRunEnds
\* The ids of the instance are used up.
CHECK_DEADLOCK FALSE
