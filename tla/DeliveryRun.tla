---------------------------- MODULE DeliveryRun ----------------------------
(***************************************************************************)
(* One evaluated delivery, from the physics loop to the imported result.   *)
(*                                                                         *)
(* run_policy_episode (evaluation/runner.py) steps the physics, samples    *)
(* contacts, clearance, tilt and the package at a lower rate through       *)
(* EpisodeMetricsTracker (simulation/metrics.py), counts falls at every    *)
(* step, remembers when the resident was first reached and stops early     *)
(* when the robot has settled.  evaluate_safe_delivery (evaluation/        *)
(* success.py) judges the end; the import and the development evidence     *)
(* judge the written result again (backend/evaluation_import.py,           *)
(* evaluation/development.py) and refuse one whose verdict or reasons      *)
(* differ.                                                                 *)
(*                                                                         *)
(* The physics is the environment: each step it picks a situation.         *)
(* Quantities are compared with their limits only, so each is under, at or *)
(* over its limit (-1, 0, 1).                                              *)
(***************************************************************************)
EXTENDS Integers, FiniteSets

CONSTANTS Situations,     \* what the physics may do at a step
          Pairs,          \* pairs of a robot's and an obstacle's geometry
          MaxSteps,       \* physics steps in the time limit
          SampleEvery,    \* metric_interval
          SettleSteps,    \* steps to stand after reaching the resident
          None

VARIABLES now,        \* the situation after the last step
          time,       \* physics steps taken
          metrics,    \* what the tracker accumulated, and the contacts it last saw
          falls, wasFallen,
          reachedAt,  \* the step at which the resident was first near, None before
          result,     \* the result returned, None while the loop runs
          accepted,   \* what the import says of the result, None before
          happened    \* history: the situations sampled, and whether it ever fell

vars == <<now, time, metrics, falls, wasFallen, reachedAt, result, accepted, happened>>

Level == {-1, 0, 1}
Situation == [distance : Level, speed : Level, facing : Level \cup {None}, fallen : BOOLEAN,
              contacts : SUBSET Pairs, clearance : Level, tilt : Level, slipped : BOOLEAN]
Metrics == [collisions : 0..MaxSteps * Cardinality(Pairs), active : SUBSET Pairs,
            clearance : Level, tilt : Level, slipped : BOOLEAN]
Reasons == {"late", "moving", "far", "facing", "fell", "collision", "clearance", "tilt", "slipped"}
Results == [success : BOOLEAN, reasons : SUBSET Reasons, time : 0..MaxSteps \cup {None},
            duration : 0..MaxSteps, distance : Level, facing : Level \cup {None}, speed : Level,
            falls : 0..MaxSteps, collisions : 0..MaxSteps * Cardinality(Pairs),
            clearance : Level, tilt : Level, slipped : BOOLEAN]

TypeOK ==
  /\ now \in Situation
  /\ time \in 0..MaxSteps
  /\ metrics \in Metrics
  /\ falls \in 0..MaxSteps /\ wasFallen \in BOOLEAN
  /\ reachedAt \in 0..MaxSteps \cup {None}
  /\ result \in Results \cup {None}
  /\ accepted \in BOOLEAN \cup {None}
  /\ happened \in [sampled : SUBSET Situations, fell : BOOLEAN]

-----------------------------------------------------------------------------
Least(a, b) == IF a <= b THEN a ELSE b
Most(a, b) == IF a >= b THEN a ELSE b

\* Mutant: the last sample's clearance instead of the least.
ObserveLast(m, s) ==
  [collisions |-> m.collisions + Cardinality(s.contacts \ m.active),
   active |-> s.contacts, clearance |-> s.clearance,
   tilt |-> Most(m.tilt, s.tilt), slipped |-> m.slipped \/ s.slipped]
\* EpisodeMetricsTracker.observe: a collision is a pair that was not in
\* contact at the sample before; minimum, maximum and slip are cumulative.
Observe(m, s) ==
  [collisions |-> m.collisions + Cardinality(s.contacts \ m.active),
   active |-> s.contacts,
   clearance |-> Least(m.clearance, s.clearance),
   tilt |-> Most(m.tilt, s.tilt),
   slipped |-> m.slipped \/ s.slipped]

\* The tracker before its first sample.
Unobserved == [collisions |-> 0, active |-> {}, clearance |-> 1, tilt |-> -1, slipped |-> FALSE]

\* evaluate_safe_delivery over the measured outcome: every reason of failure.
SafeDelivery(o) ==
  (IF o.time = None \/ o.time > MaxSteps THEN {"late"} ELSE {})
    \cup (IF ~o.stopped THEN {"moving"} ELSE {})
    \cup (IF o.distance > 0 THEN {"far"} ELSE {})
    \cup (IF o.facing = None \/ o.facing = 1 THEN {"facing"} ELSE {})
    \cup (IF o.falls > 0 THEN {"fell"} ELSE {})
    \cup (IF o.collisions > 0 THEN {"collision"} ELSE {})
    \cup (IF o.clearance < 0 THEN {"clearance"} ELSE {})
    \cup (IF o.tilt >= 0 THEN {"tilt"} ELSE {})
    \cup (IF o.slipped THEN {"slipped"} ELSE {})

\* _validate_canonical_outcome: the reasons the written result should have,
\* from its own fields; `stopped` is derived again from the speed.
Rederived(r) ==
  (IF r.time = None \/ r.time > MaxSteps THEN {"late"} ELSE {})
    \cup (IF r.speed > 0 THEN {"moving"} ELSE {})
    \cup (IF r.distance > 0 THEN {"far"} ELSE {})
    \cup (IF r.facing = None \/ r.facing = 1 THEN {"facing"} ELSE {})
    \cup (IF r.falls > 0 THEN {"fell"} ELSE {})
    \cup (IF r.collisions > 0 THEN {"collision"} ELSE {})
    \cup (IF r.clearance < 0 THEN {"clearance"} ELSE {})
    \cup (IF r.tilt >= 0 THEN {"tilt"} ELSE {})
    \cup (IF r.slipped THEN {"slipped"} ELSE {})

Canonical(r) ==
  /\ r.time # None => r.time <= r.duration
  /\ r.reasons = Rederived(r)
  /\ r.success <=> Rederived(r) = {}

\* The result run_policy_episode returns from the state it ends in; the
\* tracker takes a last sample.
ResultOf(s, m, reached, fallen, steps) ==
  LET last == Observe(m, s)
      reasons == SafeDelivery([time |-> reached, stopped |-> s.speed <= 0, distance |-> s.distance,
                               facing |-> s.facing, falls |-> fallen, collisions |-> last.collisions,
                               clearance |-> last.clearance, tilt |-> last.tilt, slipped |-> last.slipped])
  IN  [success |-> reasons = {}, reasons |-> reasons, time |-> reached, duration |-> steps,
       distance |-> s.distance, facing |-> s.facing, speed |-> s.speed, falls |-> fallen,
       collisions |-> last.collisions, clearance |-> last.clearance, tilt |-> last.tilt,
       slipped |-> last.slipped]

\* The development evidence is checked with a copy of the import's rules.
DevelopmentCanonical(r) ==
  /\ r.time # None => r.time \in 0..r.duration
  /\ r.reasons = Rederived(r) /\ (r.success <=> r.reasons = {})

-----------------------------------------------------------------------------
\* The scene is assembled and sampled once before the loop.
Init ==
  /\ now \in {s \in Situations : ~s.fallen /\ s.contacts = {}}
  /\ time = 0
  /\ metrics = Observe(Unobserved, now)
  /\ falls = 0 /\ wasFallen = FALSE
  /\ reachedAt = None /\ result = None /\ accepted = None
  /\ happened = [sampled |-> {now}, fell |-> FALSE]

\* Near the resident, slow, and SettleSteps after first being near.
Settled(s, reached, steps) ==
  reached # None /\ s.speed <= 0 /\ steps >= reached + SettleSteps

\* One iteration of the loop; the early end returns the result.
Step ==
  /\ result = None /\ time < MaxSteps
  /\ \E s \in Situations :
       /\ now' = s
       /\ metrics' = IF time % SampleEvery = 0 THEN Observe(metrics, s) ELSE metrics
       /\ happened' = [sampled |-> IF time % SampleEvery = 0 THEN happened.sampled \cup {s}
                                   ELSE happened.sampled,
                       fell |-> happened.fell \/ s.fallen]
       /\ falls' = IF s.fallen /\ ~wasFallen THEN falls + 1 ELSE falls
       /\ wasFallen' = s.fallen
  /\ time' = time + 1
  /\ reachedAt' = IF reachedAt = None /\ now'.distance <= 0 THEN time + 1 ELSE reachedAt
  /\ result' = IF Settled(now', reachedAt', time + 1) \/ time + 1 = MaxSteps
               THEN ResultOf(now', metrics', reachedAt', falls', time + 1)
               ELSE None
  /\ UNCHANGED accepted

\* The held-out import, or the check of development evidence, reads it.
Check ==
  /\ result # None /\ accepted = None
  /\ accepted' = (Canonical(result) /\ DevelopmentCanonical(result))
  /\ UNCHANGED <<now, time, metrics, falls, wasFallen, reachedAt, result, happened>>

Next == Step \/ Check

Spec == Init /\ [][Next]_vars

-----------------------------------------------------------------------------
\* A delivery counts as a success only if the robot stands by the resident
\* at the end, never fell at any step, and at no sample touched an obstacle,
\* came too close, tilted the tray too far or lost the package; and whatever
\* the run measured, both later readers of the result agree with its verdict
\* and its reasons (evaluation/runner.py:96, backend/evaluation_import.py:390).
SuccessIsMeasured ==
  result # None =>
    /\ accepted # FALSE
    /\ result.success =>
         /\ now.distance <= 0 /\ now.speed <= 0 /\ ~happened.fell
         /\ \A s \in happened.sampled \cup {now} :
              s.contacts = {} /\ s.clearance >= 0 /\ s.tilt < 0 /\ ~s.slipped
=============================================================================
