------------------------- MODULE CommandSupervisor -------------------------
(***************************************************************************)
(* The path of a task policy's command to the frozen walking controller    *)
(* (simulation/runtime.py, simulation/controller.py, robot/command.py).    *)
(*                                                                         *)
(* One step advances the physics once.  At their own rates, in this order, *)
(* the policy replaces the pending command, the supervisor turns the       *)
(* pending command into the controller's - a requested stop is a ramp of   *)
(* bounded decelerations, anything else passes - and the controller runs   *)
(* its gait.  Speeds are integers, in halves of the supervisor's           *)
(* deceleration per tick where they matter.                                *)
(***************************************************************************)
EXTENDS Integers

CONSTANTS PolicyEvery,        \* physics steps between two policy decisions
          SuperviseEvery,     \* ... between two supervisor ticks
          ControlEvery,       \* ... between two controller inferences
          Forwards, Turnings, \* the speeds the policy asks for
          ForwardDeceleration,
          TurnDeceleration,   \* what a supervisor tick takes off while stopping
          MaxUpdates          \* bound on the policy's decisions

VARIABLES step,          \* step_index
          updates,       \* task_policy_updates
          pending,       \* _pending_task_command
          command,       \* _controller_command
          phase,         \* the controller's gait phase: "standing" or "walking"
          stopping       \* supervisor ticks since the pending stop was asked for

vars == <<step, updates, pending, command, phase, stopping>>

Speeds == -20..20
Commands == [forward : Speeds, turning : Speeds, stop : BOOLEAN]
Standstill == [forward |-> 0, turning |-> 0, stop |-> TRUE]

TypeOK ==
  /\ step \in 0..PolicyEvery * MaxUpdates
  /\ updates \in 0..MaxUpdates
  /\ pending \in Commands /\ command \in Commands
  /\ phase \in {"standing", "walking"}
  /\ stopping \in 0..PolicyEvery * MaxUpdates

-----------------------------------------------------------------------------
Magnitude(s) == IF s < 0 THEN -s ELSE s

ApproachZero(s, delta) ==
  IF Magnitude(s) <= delta THEN 0 ELSE IF s < 0 THEN s + delta ELSE s - delta

\* Mutant: a requested stop is passed on at once.
SupervisedAtOnce(wanted, current) == IF ~wanted.stop THEN wanted ELSE Standstill
\* _supervise_command: the command the controller gets for a pending one.
Supervised(wanted, current) ==
  IF ~wanted.stop THEN wanted
  ELSE LET f == ApproachZero(current.forward, ForwardDeceleration)
           t == ApproachZero(current.turning, TurnDeceleration)
       IN  [forward |-> f, turning |-> t, stop |-> f = 0 /\ t = 0]

\* frozen_controller_command: a requested stop is zero whatever the speeds.
GaitCommand(c) == IF c.stop THEN <<0, 0>> ELSE <<c.forward, c.turning>>

\* _observation resets the phase of a standing gait and infer advances the
\* phase of a walking one.
Gait(c) == IF GaitCommand(c) = <<0, 0>> THEN "standing" ELSE "walking"

\* The command a policy may return: speeds within its range and a stop flag.
Decisions == [forward : Forwards, turning : Turnings, stop : BOOLEAN]

Due(every) == step % every = 0

Init ==
  /\ step = 0 /\ updates = 0
  /\ pending = Standstill /\ command = Standstill
  /\ phase = "standing"
  /\ stopping = 0

\* HeadlessG1Simulation.step.
Advance ==
  /\ updates < MaxUpdates \/ ~Due(PolicyEvery)
  /\ \E decided \in IF Due(PolicyEvery) THEN Decisions ELSE {pending} :
       /\ pending' = decided
       /\ updates' = IF Due(PolicyEvery) THEN updates + 1 ELSE updates
       /\ IF Due(SuperviseEvery)
          THEN /\ command' = Supervised(decided, command)
               /\ stopping' = IF decided.stop THEN stopping + 1 ELSE 0
          ELSE UNCHANGED <<command, stopping>>
  /\ phase' = IF Due(ControlEvery) THEN Gait(command') ELSE phase
  /\ step' = step + 1

Next == Advance

Spec == Init /\ [][Next]_vars

-----------------------------------------------------------------------------
\* The supervisor ticks the ramp needs from the fastest command.
RampTicks ==
  CHOOSE n \in 0..20 :
    LET Fits(m) == \A f \in Forwards, t \in Turnings :
                     m * ForwardDeceleration >= Magnitude(f) /\ m * TurnDeceleration >= Magnitude(t)
    IN  Fits(n) /\ \A m \in 0..(n - 1) : ~Fits(m)

\* A stop that stays requested over policy decisions that repeat it is
\* complete after the ramp's ticks, and until then no speed grows, changes
\* sign or is cut to zero early: the robot is never braked harder than the
\* supervisor's deceleration (simulation/runtime.py:83).
RampStep ==
  stopping' > 0 /\ Due(SuperviseEvery) =>
    /\ stopping' >= RampTicks => command' = Standstill
    /\ command'.stop => command'.forward = 0 /\ command'.turning = 0
    /\ Magnitude(command'.forward) >= Magnitude(command.forward) - ForwardDeceleration
    /\ Magnitude(command'.turning) >= Magnitude(command.turning) - TurnDeceleration
    /\ command'.forward * command.forward >= 0 /\ command'.turning * command.turning >= 0
    /\ Magnitude(command'.forward) <= Magnitude(command.forward)
    /\ Magnitude(command'.turning) <= Magnitude(command.turning)
StopsOnTheRamp == [][RampStep]_vars
=============================================================================
