--------------------------- MODULE HeldOutAccess ---------------------------
(***************************************************************************)
(* The one access to the held-out worlds.  An invocation of                *)
(* ops/policy/evaluate_heldout.py verifies the files its trust root pins    *)
(* (evaluation/heldout_trust.py), verifies the development evidence again   *)
(* (evaluation/development.py), consumes the access by linking a receipt,   *)
(* loads the worlds (evaluation/heldout.py), runs both policies and writes  *)
(* its output.  Invocations run side by side, die anywhere and are repeated,*)
(* while trainings replace checkpoints and ops/policy/evaluate_development  *)
(* writes evidence.                                                        *)
(*                                                                         *)
(* Abstracted: a digest is the content it is of, so a JSON file's bytes and  *)
(* canonical form are one; measurements are whether a delivery succeeded     *)
(* (DeliveryRun) and the gate is more successes (PromotionGate).            *)
(***************************************************************************)
EXTENDS Naturals, Sequences, FiniteSets

CONSTANTS Invocations,    \* of evaluate_heldout
          Evaluations,    \* of evaluate_development
          Roots,          \* reviewed trust roots: [Files -> content]
          Trained,        \* what a training leaves: sets of <<file, content>>
          Seeds,          \* the seeds of a development evaluation
          Succeeds,       \* successful deliveries, by policy
          MinimumWorlds, MinimumSeed,
          Robot, DirectGoal, Missing

VARIABLES root, files,
          reviewed,       \* invocation -> where it is and what it holds
          developed,      \* development evaluation -> what it holds
          receipt,        \* who consumed the access
          output,         \* the held-out evaluation
          looked          \* history: invocations that ran policies in held-out worlds

heldOutVars == <<root, files, reviewed, developed, receipt, output, looked>>

Files == {"lock", "evidence", "checkpoint", "dataset", "training", "round1", "bundle"}

\* verify_checked_in_trust_root's files, in order.
Pinned == <<"lock", "evidence", "checkpoint", "dataset", "training", "round1", "bundle">>

-----------------------------------------------------------------------------
(* Development evidence.                                                   *)
Successes(results) == Cardinality({i \in DOMAIN results : results[i].measured})
Promotable(baseline, candidate) == Successes(candidate) > Successes(baseline)

Result(role, policy, i, seed) ==
  [episode |-> <<role, i>>, seed |-> seed, split |-> "training", robot |-> Robot,
   policy |-> policy, measured |-> i \in Succeeds[policy], success |-> i \in Succeeds[policy]]

\* evaluate_development's payload.
Evidence(checkpoint) ==
  LET baseline == [i \in DOMAIN Seeds |-> Result("baseline", DirectGoal, i, Seeds[i])]
      candidate == [i \in DOMAIN Seeds |-> Result("candidate", checkpoint.policy, i, Seeds[i])]
  IN  [policy |-> checkpoint.policy, count |-> Len(Seeds), seeds |-> Seeds,
       baseline |-> baseline, candidate |-> candidate,
       preview |-> Promotable(baseline, candidate),
       eligible |-> Promotable(baseline, candidate)]

\* _verify_training_lineage
LineageAgrees(lock, held) ==
  /\ held["dataset"] = lock.dataset
  /\ held["training"] = lock.training
  /\ held["round1"] = lock.round1
  /\ held["training"].dataset = lock.dataset
  /\ held["training"].policy = lock.policy
  /\ held["checkpoint"].dataset = lock.dataset

\* _validate_development_pairs
PairsAgree(lock, e) ==
  LET all == <<e.baseline, e.candidate>>
      index == 1..e.count
  IN  /\ e.count >= MinimumWorlds /\ e.count = lock.count
      /\ DOMAIN e.seeds = index /\ DOMAIN e.baseline = index /\ DOMAIN e.candidate = index
      /\ Cardinality({all[p[1]][p[2]].episode : p \in {1, 2} \X index}) = 2 * e.count
      /\ \A i \in index : /\ e.baseline[i].policy = DirectGoal
                          /\ e.candidate[i].policy = e.policy
                          /\ e.seeds[i] >= MinimumSeed
      /\ \A k \in {1, 2}, i \in index :
           /\ all[k][i].seed = e.seeds[i]
           /\ all[k][i].robot = lock.robot
           /\ all[k][i].split = "training"

\* _validate_canonical_outcome, for every result.
OutcomesAgree(e) ==
  \A i \in DOMAIN e.baseline : /\ e.baseline[i].success = e.baseline[i].measured
                               /\ e.candidate[i].success = e.candidate[i].measured

\* Mutant: the preview and the selection are taken from the evidence.
SelectionTrusted(lock, e) == e.preview = e.eligible /\ lock.eligible = e.eligible
SelectionAgrees(lock, e) ==
  LET promotable == Promotable(e.baseline, e.candidate)
  IN  e.preview = promotable /\ e.eligible = promotable /\ lock.eligible = promotable

\* verify_development_evidence, over the contents read for it.
DevelopmentVerified(lock, held) ==
  LET e == held["evidence"]
  IN  /\ e = lock.evidence /\ held["checkpoint"] = lock.checkpoint
      /\ LineageAgrees(lock, held)
      /\ held["checkpoint"].policy = e.policy /\ e.policy = lock.policy
      /\ lock.robot = Robot
      /\ PairsAgree(lock, e)
      /\ OutcomesAgree(e)
      /\ SelectionAgrees(lock, e)

-----------------------------------------------------------------------------
Waiting == [at |-> "idle", pinned |-> 0, lock |-> Missing, worlds |-> Missing,
            candidate |-> Missing]

Init ==
  /\ root \in Roots
  /\ files \in {root, [root EXCEPT !["evidence"] = Missing]}
  /\ reviewed = [i \in Invocations |-> Waiting]
  /\ developed = [e \in Evaluations |-> [at |-> "idle", evidence |-> Missing]]
  /\ receipt = Missing
  /\ output = Missing
  /\ looked = {}

Goes(i, from, to) ==
  /\ reviewed[i].at = from
  /\ reviewed' = [reviewed EXCEPT ![i].at = to]

Verify(i) ==
  LET next == Pinned[reviewed[i].pinned + 1]
  IN  /\ reviewed[i].at \in {"idle", "pinned"} /\ reviewed[i].pinned < Len(Pinned)
      /\ files[next] = root[next]
      /\ reviewed' = [reviewed EXCEPT ![i].at = "pinned", ![i].pinned = @ + 1]
      /\ UNCHANGED <<root, files, developed, receipt, output, looked>>

\* The development evidence is verified from the files as they are by now.
VerifyDevelopment(i) ==
  /\ reviewed[i].pinned = Len(Pinned)
  /\ Goes(i, "pinned", "verified")
  /\ files["evidence"] # Missing
  /\ DevelopmentVerified(files["lock"], files)
  /\ files["evidence"] = root["evidence"] /\ files["checkpoint"] = root["checkpoint"]
  /\ files["evidence"].eligible
  /\ UNCHANGED <<root, files, developed, receipt, output, looked>>

\* consume_checked_in_heldout_access: no output yet, then the receipt is linked.
FindNoOutput(i) ==
  /\ Goes(i, "verified", "unconsumed")
  /\ output = Missing
  /\ UNCHANGED <<root, files, developed, receipt, output, looked>>

\* Mutant: the receipt replaces an earlier one.
Replaceable == TRUE
Linkable == receipt = Missing

\* _atomically_consume
Consume(i) ==
  /\ Goes(i, "unconsumed", "consumed")
  /\ Linkable
  /\ receipt' = i
  /\ UNCHANGED <<root, files, developed, output, looked>>

LoadWorlds(i) ==
  /\ reviewed[i].at = "consumed"
  /\ files["bundle"].sound
  /\ reviewed' = [reviewed EXCEPT ![i].at = "loaded", ![i].worlds = files["bundle"]]
  /\ UNCHANGED <<root, files, developed, receipt, output, looked>>

\* Mutant: the candidate loaded is not compared with the one verified.
AnyCandidate(c) == TRUE
SameCandidate(c) == c = root["checkpoint"]

LoadCandidate(i) ==
  /\ reviewed[i].at = "loaded"
  /\ SameCandidate(files["checkpoint"])
  /\ reviewed' = [reviewed EXCEPT ![i].at = "ready", ![i].candidate = files["checkpoint"]]
  /\ UNCHANGED <<root, files, developed, receipt, output, looked>>

Evaluate(i) ==
  /\ Goes(i, "ready", "evaluated")
  /\ looked' = looked \cup {i}
  /\ UNCHANGED <<root, files, developed, receipt, output>>

\* open("x") refuses an output already there.
WriteOutput(i) ==
  /\ Goes(i, "evaluated", "done")
  /\ output = Missing
  /\ output' = [by |-> i, candidate |-> reviewed[i].candidate.policy]
  /\ UNCHANGED <<root, files, developed, receipt, looked>>

\* A refusal at any check, an exception or the death of the process.
Ends(i) ==
  /\ reviewed[i].at \notin {"idle", "done", "ended"}
  /\ reviewed' = [reviewed EXCEPT ![i].at = "ended"]
  /\ UNCHANGED <<root, files, developed, receipt, output, looked>>

-----------------------------------------------------------------------------
RunDevelopment(e) ==
  /\ developed[e].at = "idle"
  /\ developed' = [developed EXCEPT ![e] =
                     [at |-> "evaluated", evidence |-> Evidence(files["checkpoint"])]]
  /\ UNCHANGED <<root, files, reviewed, receipt, output, looked>>

FindNoEvidence(e) ==
  /\ developed[e].at = "evaluated"
  /\ developed' = [developed EXCEPT ![e].at =
                     IF files["evidence"] = Missing THEN "absent" ELSE "refused"]
  /\ UNCHANGED <<root, files, reviewed, receipt, output, looked>>

WriteEvidence(e) ==
  /\ developed[e].at = "absent"
  /\ files' = [files EXCEPT !["evidence"] = developed[e].evidence]
  /\ developed' = [developed EXCEPT ![e].at = "written"]
  /\ UNCHANGED <<root, reviewed, receipt, output, looked>>

\* A training or a checkout puts other contents in place.
Train(outcome) ==
  /\ files' = [f \in Files |->
                 IF \E c \in outcome : c[1] = f
                 THEN (CHOOSE c \in outcome : c[1] = f)[2] ELSE files[f]]
  /\ UNCHANGED <<root, reviewed, developed, receipt, output, looked>>

Next ==
  \/ \E i \in Invocations :
       \/ Verify(i) \/ VerifyDevelopment(i) \/ FindNoOutput(i) \/ Consume(i) \/ LoadWorlds(i)
       \/ LoadCandidate(i) \/ Evaluate(i) \/ WriteOutput(i) \/ Ends(i)
  \/ \E e \in Evaluations : RunDevelopment(e) \/ FindNoEvidence(e) \/ WriteEvidence(e)
  \/ \E outcome \in Trained : Train(outcome)

Spec == Init /\ [][Next]_heldOutVars

-----------------------------------------------------------------------------
\* The access is earned and used once.  However invocations race, die and are
\* repeated, at most one ever runs policies in the held-out worlds, it is the one
\* whose receipt is there, and the reviewed evidence it was granted on measured,
\* in enough worlds outside training's seeds, that the reviewed checkpoint beats
\* the direct-goal baseline. The output is of the reviewed checkpoint and of
\* the invocation that consumed the access, whatever a training left in the
\* checkpoint's place meanwhile.
Earned(e) ==
  /\ e.count >= MinimumWorlds
  /\ \A i \in 1..e.count : e.seeds[i] >= MinimumSeed
  /\ \A i \in 1..e.count : e.candidate[i].policy = root["checkpoint"].policy
  /\ Successes(e.candidate) > Successes(e.baseline)
OutputOfReviewed ==
  output # Missing => /\ output.by = receipt /\ output.by \in looked
                      /\ output.candidate = root["checkpoint"].policy
AccessEarnedOnce ==
  /\ \A i \in looked : receipt = i
  /\ receipt # Missing => Earned(root["evidence"])
  /\ OutputOfReviewed
=============================================================================
