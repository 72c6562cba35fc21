--------------------------- MODULE FixedPipeline ---------------------------
(***************************************************************************)
(* What orchestration promises for one workflow run: three specialists      *)
(* review it once, people decide its gated steps once, and only a run that  *)
(* all of them let proceed is executed, step by step, each step once, in    *)
(* the fixed order and not past a gate that nobody approved.                *)
(* PipelineExecution implements it.                                         *)
(***************************************************************************)
EXTENDS Naturals, Sequences, FiniteSets

CONSTANTS Roles,     \* EXACT_GUILD_ROLES
          LastStep,  \* the number of steps of FIXED_PIPELINE
          Gated,     \* the steps with an approval requirement
          Outputs,   \* what a step may put out
          NoReview

VARIABLES review,   \* workflow_reviews: what each specialist recommended
          verdict,  \* human_decisions of the gated steps
          results   \* rocketride_callback_results

vars == <<review, verdict, results>>

Recommendations == {"proceed", "revise", "block"}
ReviewSets == [Roles -> Recommendations]

Executable(set) == set \in ReviewSets /\ \A r \in Roles : set[r] = "proceed"

Init ==
  /\ review = NoReview
  /\ verdict = [s \in Gated |-> "none"]
  /\ results = <<>>

Record(set) ==
  /\ review = NoReview
  /\ review' = set
  /\ UNCHANGED <<verdict, results>>

Decide(s, v) ==
  /\ Executable(review)
  /\ verdict[s] = "none"
  /\ verdict' = [verdict EXCEPT ![s] = v]
  /\ UNCHANGED <<review, results>>

Approved(s) == s \in Gated => verdict[s] = "approve"

Complete(o) ==
  /\ Executable(review)
  /\ Len(results) < LastStep
  /\ Approved(Len(results) + 1)
  /\ results' = Append(results, o)
  /\ UNCHANGED <<review, verdict>>

Next ==
  \/ \E set \in ReviewSets : Record(set)
  \/ \E s \in Gated, v \in {"approve", "reject"} : Decide(s, v)
  \/ \E o \in Outputs : Complete(o)

Spec == Init /\ [][Next]_vars
=============================================================================
