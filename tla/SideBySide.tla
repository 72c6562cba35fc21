----------------------------- MODULE SideBySide -----------------------------
(***************************************************************************)
(* Training jobs and the components that share no state with another, in   *)
(* one specification: the subject, chosen at the start, takes the steps of *)
(* its own specification while the others are off, their variables None    *)
(* (those of TrainingJobs, which this module extends, in its Init).        *)
(***************************************************************************)
EXTENDS TrainingJobs, Integers, Sequences, FiniteSets

\* The constants of the components, as their modules declare them.
CONSTANTS SuccessCounts, Collisions, Falls, Clearances, Efficiencies, Situations, Pairs,
          MaxSteps, SampleEvery, SettleSteps, PolicyEvery, SuperviseEvery, ControlEvery,
          Forwards, Turnings, ForwardDeceleration, TurnDeceleration, MaxUpdates,
          Invocations, Evaluations, ReviewRoots, TrainedPolicies, Seeds, Succeeds,
          MinimumWorlds, MinimumSeed, Robot, DirectGoal, RootOrder, Pids, MaxVersions,
          MaxTicks, MaxSnapshots, Steps, Outcomes, MaxAttempts, Limit, Chunks, Scopes,
          Columns, GridRows, Margin, Gap, Boundary, Nearest, Anchors, Footprints, Places,
          ObjectCounts, MaxCandidates

\* An invocation's receipt is not the absence of one.
ASSUME HeldOutAssumption == None \notin Invocations

\* Lengths are numbers, and no answer is the absence of one.
ASSUME HttpAssumption ==
  /\ Limit \in Nat /\ Chunks \subseteq Nat
  /\ None \notin [status : Nat \cup {None}, by : {"http", "client", "backend"}]

\* What the physics may do is measured on the levels, a time limit is a number of
\* steps, and nothing measured or decided is the absence of it.
ASSUME DeliveryAssumption ==
  /\ Situations \subseteq
       [distance : -1..1, speed : -1..1, facing : -1..1 \cup {None}, fallen : BOOLEAN,
        contacts : SUBSET Pairs, clearance : -1..1, tilt : -1..1, slipped : BOOLEAN]
  /\ IsFiniteSet(Pairs) /\ MaxSteps \in Nat
  /\ None \notin BOOLEAN

\* The managed roots are a sequence of names, and the bounds are numbers.
ASSUME DeploymentAssumption ==
  RootOrder \in Seq(STRING) /\ {MaxVersions, MaxTicks, MaxSnapshots} \subseteq Nat

\* Of twenty worlds; the baseline never falls and keeps the clearance asked for.
ASSUME GateAssumption ==
  /\ SuccessCounts \subseteq 0..20 /\ Collisions \subseteq Nat
  /\ 0 \in Falls /\ 25 \in Clearances

\* Checkpoints are numbered by their training step, attempts from one.
ASSUME ControllerAssumption ==
  Steps \subseteq Nat /\ MaxAttempts \in Nat /\ None \notin Nat

\* A policy's speeds are within the robot's, and a supervisor tick takes off some.
ASSUME RampAssumption ==
  /\ Forwards \subseteq -20..20 /\ Turnings \subseteq -20..20
  /\ Forwards # {} /\ Turnings # {}
  /\ {ForwardDeceleration, TurnDeceleration} \subseteq Nat \ {0}

\* The room and its objects are measured in numbers, the robot with its clearance is
\* at least half a cell away from an obstacle, and no cell or path is the absence of one.
ASSUME WorldsAssumption ==
  /\ {Columns, GridRows} \subseteq Nat /\ Margin \in Nat \ {0}
  /\ Footprints \subseteq Nat \X Nat /\ Places \subseteq Int \X Int
  /\ None \notin (Nat \X Nat) \cup Seq(Nat \X Nat)

VARIABLE subject
VARIABLES pair, decision, imported, verdict
VARIABLES now, time, metrics, falls, wasFallen, reachedAt, result, accepted, happened
VARIABLES step, updates, pending, command, gaitPhase, stopping
VARIABLES root, trustedFiles, reviewed, developed, receipt, output, looked
VARIABLES tree, marker, volume, processes, ticks, record, supervisor, stopped
VARIABLES mode, quality, contract, attempts, onnx, evidence, manifest, job
VARIABLES runtime, request, changes, answer
VARIABLES generation, anchor, wanted, placed, candidates, issues, frontier, best_cost,
          came_from, path

gateVars == <<pair, decision, imported, verdict>>
deliveryVars == <<now, time, metrics, falls, wasFallen, reachedAt, result, accepted,
                  happened>>
commandVars == <<step, updates, pending, command, gaitPhase, stopping>>
heldoutVars == <<root, trustedFiles, reviewed, developed, receipt, output, looked>>
deploymentVars == <<tree, marker, volume, processes, ticks, record, supervisor, stopped>>
controllerVars == <<mode, quality, contract, attempts, onnx, evidence, manifest, job>>
httpVars == <<runtime, request, changes, answer>>
worldsVars == <<generation, anchor, wanted, placed, candidates, issues, frontier,
                best_cost, came_from, path>>

Gate == INSTANCE PromotionGate WITH Successes <- SuccessCounts
Delivery == INSTANCE DeliveryRun
Supervisor == INSTANCE CommandSupervisor WITH phase <- gaitPhase
HeldOut == INSTANCE HeldOutAccess WITH files <- trustedFiles, Missing <- None,
    Roots <- ReviewRoots, Trained <- TrainedPolicies
Sandbox == INSTANCE Deployment WITH Absent <- None
Controller == INSTANCE ControllerRuns
Http == INSTANCE HttpApi
Paths == INSTANCE WorldPaths WITH phase <- generation, Rows <- GridRows

-----------------------------------------------------------------------------
Subjects == {"training", "gate", "delivery", "command", "heldout", "deployment",
             "controller", "http", "worlds"}

\* A component starts when it is the subject and is off otherwise.
GateInit ==
  IF subject = "gate" THEN Gate!Init
  ELSE /\ pair = None /\ decision = None /\ imported = None /\ verdict = None
DeliveryInit ==
  IF subject = "delivery" THEN Delivery!Init
  ELSE /\ now = None /\ time = None /\ metrics = None /\ falls = None /\ wasFallen = None
       /\ reachedAt = None /\ result = None /\ accepted = None /\ happened = None
SupervisorInit ==
  IF subject = "command" THEN Supervisor!Init
  ELSE /\ step = None /\ updates = None /\ pending = None /\ command = None
       /\ gaitPhase = None /\ stopping = None
HeldOutInit ==
  IF subject = "heldout" THEN HeldOut!Init
  ELSE /\ root = None /\ trustedFiles = None /\ reviewed = None /\ developed = None
       /\ receipt = None /\ output = None /\ looked = None
SandboxInit ==
  IF subject = "deployment" THEN Sandbox!Init
  ELSE /\ tree = None /\ marker = None /\ volume = None /\ processes = None
       /\ ticks = None /\ record = None /\ supervisor = None /\ stopped = None
ControllerInit ==
  IF subject = "controller" THEN Controller!Init
  ELSE /\ mode = None /\ quality = None /\ contract = None /\ attempts = None
       /\ onnx = None /\ evidence = None /\ manifest = None /\ job = None
HttpInit ==
  IF subject = "http" THEN Http!Init
  ELSE /\ runtime = None /\ request = None /\ changes = None /\ answer = None
PathsInit ==
  IF subject = "worlds" THEN Paths!Init
  ELSE /\ generation = None /\ anchor = None /\ wanted = None /\ placed = None
       /\ candidates = None /\ issues = None /\ frontier = None /\ best_cost = None
       /\ came_from = None /\ path = None

SideInit ==
  /\ subject \in Subjects
  /\ Init
  /\ GateInit
  /\ DeliveryInit
  /\ SupervisorInit
  /\ HeldOutInit
  /\ SandboxInit
  /\ ControllerInit
  /\ HttpInit
  /\ PathsInit

\* What is off stays off.
TrainingStep ==
  /\ subject = "training" /\ Next
  /\ UNCHANGED <<subject, gateVars, deliveryVars, commandVars, heldoutVars, deploymentVars,
                 controllerVars, httpVars, worldsVars>>
GateStep ==
  /\ subject = "gate" /\ Gate!Next
  /\ UNCHANGED <<subject, trainingVars, deliveryVars, commandVars, heldoutVars,
                 deploymentVars, controllerVars, httpVars, worldsVars>>
DeliveryStep ==
  /\ subject = "delivery" /\ Delivery!Next
  /\ UNCHANGED <<subject, trainingVars, gateVars, commandVars, heldoutVars, deploymentVars,
                 controllerVars, httpVars, worldsVars>>
SupervisorStep ==
  /\ subject = "command" /\ Supervisor!Next
  /\ UNCHANGED <<subject, trainingVars, gateVars, deliveryVars, heldoutVars,
                 deploymentVars, controllerVars, httpVars, worldsVars>>
HeldOutStep ==
  /\ subject = "heldout" /\ HeldOut!Next
  /\ UNCHANGED <<subject, trainingVars, gateVars, deliveryVars, commandVars,
                 deploymentVars, controllerVars, httpVars, worldsVars>>
SandboxStep ==
  /\ subject = "deployment" /\ Sandbox!Next
  /\ UNCHANGED <<subject, trainingVars, gateVars, deliveryVars, commandVars, heldoutVars,
                 controllerVars, httpVars, worldsVars>>
ControllerStep ==
  /\ subject = "controller" /\ Controller!Next
  /\ UNCHANGED <<subject, trainingVars, gateVars, deliveryVars, commandVars, heldoutVars,
                 deploymentVars, httpVars, worldsVars>>
HttpStep ==
  /\ subject = "http" /\ Http!Next
  /\ UNCHANGED <<subject, trainingVars, gateVars, deliveryVars, commandVars, heldoutVars,
                 deploymentVars, controllerVars, worldsVars>>
PathsStep ==
  /\ subject = "worlds" /\ Paths!Next
  /\ UNCHANGED <<subject, trainingVars, gateVars, deliveryVars, commandVars, heldoutVars,
                 deploymentVars, controllerVars, httpVars>>

SideNext ==
  \/ TrainingStep
  \/ GateStep
  \/ DeliveryStep
  \/ SupervisorStep
  \/ HeldOutStep
  \/ SandboxStep
  \/ ControllerStep
  \/ HttpStep
  \/ PathsStep
sideVars == <<subject, trainingVars, gateVars, deliveryVars, commandVars, heldoutVars,
              deploymentVars, controllerVars, httpVars, worldsVars>>
SideSpec == SideInit /\ [][SideNext]_sideVars

-----------------------------------------------------------------------------
\* The components' properties, of the subject.
VerdictsAgree == subject = "gate" => (Gate!TypeOK /\ Gate!VerdictsAgree)
SuccessIsMeasured == subject = "delivery" => (Delivery!TypeOK /\ Delivery!SuccessIsMeasured)
AccessEarnedOnce == subject = "heldout" => HeldOut!AccessEarnedOnce
NeverHalfRestored == subject = "deployment" => (Sandbox!TypeOK /\ Sandbox!NeverHalfRestored)
OnlyTheApiIsStopped == subject = "deployment" => Sandbox!OnlyTheApiIsStopped
ControllerEarned == subject = "controller" => (Controller!TypeOK /\ Controller!ControllerEarned)
ChangesEarned == subject = "http" => Http!ChangesEarned
PathsEarned == subject = "worlds" => Paths!PathsEarned
StopsOnTheRamp == [][subject = "command" => Supervisor!RampStep]_commandVars
TrainedOnce == [][subject = "controller" => Controller!AttemptStep]_controllerVars

=============================================================================
