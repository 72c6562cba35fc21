SPECIFICATION Spec
CONSTANTS
  Roles = {world, safety}
  LastStep = 3
  Gated = {2, 3}
  Outputs = {o1, o2}
  Callers = {c1, c2}
  MaxCalls = 4
  MaxFaults = 2
  NoReview = NoReview
  NoRun = NoRun
SYMMETRY PipelineSymmetry
INVARIANTS RunsStand HandledOnce
PROPERTIES PipelineOrder
\* The calls of the instance are used up.
CHECK_DEADLOCK FALSE
