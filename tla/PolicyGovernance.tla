--------------------------- MODULE PolicyGovernance ---------------------------
(***************************************************************************)
(* How a workflow run comes to move the stable policy alias: review_workflow *)
(* and submit_approval_decision (backend/api_backend.py), the numeric        *)
(* decision (backend/policy_decisions.py), the RocketRide callbacks          *)
(* (backend/rocketride_callback.py) and the coordinator's ledgers            *)
(* (coordinator/store.py).                                                   *)
(*                                                                           *)
(* Reviews are coroutines of one event loop: between awaits a coroutine runs *)
(* alone, and its transactions are separate steps, because callbacks are     *)
(* dispatched in worker threads (api/app.py) and interleave with them.  The  *)
(* dispatcher's lock lets one callback run at a time.  The process may crash *)
(* and restart anywhere; the backend then reloads the durable reviews.       *)
(*                                                                           *)
(* Abstracted: a plan is its two policies, its final action, its gated steps *)
(* and the outcome of the numeric gate on its admitted paired artifact; a    *)
(* step is its index in FIXED_PIPELINE; the three Guild roles give one       *)
(* verdict.  A callback envelope is determined by run, plan and step, so a   *)
(* repeated one is the identical request and replays the stored result.      *)
(***************************************************************************)
EXTENDS Naturals, Sequences, FiniteSets

CONSTANTS Runs,       \* workflow run identities
          Reviewers,  \* concurrent POSTs of a workflow review
          Policies,   \* evaluated checkpoints
          Plans,      \* plans that clients submit
          LastStep,   \* promote_or_roll_back, the last of the fixed pipeline
          NoRun, NoPlan, NoPolicy, NoDecision

PlanType == [baseline : Policies, candidate : Policies,
             action : {"promote", "roll_back"}, promotable : BOOLEAN,
             gated : SUBSET (1 .. LastStep)]

\* The final step always requires a human approval.
ASSUME GovernanceAssumption ==
  /\ LastStep \in Nat \ {0}
  /\ Plans \subseteq PlanType
  /\ \A p \in Plans : LastStep \in p.gated /\ p.baseline # p.candidate
  /\ NoRun \notin Runs
  /\ NoPlan \notin Plans
  /\ NoPolicy \notin Policies
  /\ NoDecision \notin [from : Policies, target : Policies]

VARIABLES plan,      \* workflow_runs: the immutable plan of each run
          evidence,  \* workflow_guild_evidence is recorded
          review,    \* workflow_reviews: verdict of the Guild review
          decision,  \* numeric_policy_decisions of the run
          verdict,   \* human_decisions, by run and gated step
          results,   \* rocketride_callback_results: completed steps
          alias,     \* policy_alias_events of the stable alias
          reviewed,  \* ApiBackend._reviewed
          task,      \* the review coroutines
          callback   \* the callback holding the dispatcher's lock

ledgers == <<plan, evidence, review, decision, verdict, results, alias>>
vars == <<plan, evidence, review, decision, verdict, results, alias, reviewed,
          task, callback>>

-----------------------------------------------------------------------------
Steps == 1 .. LastStep
Decisions == [from : Policies, target : Policies]
Events == [run : Runs \cup {NoRun}, target : Policies]
Tasks == [step : {"idle", "evidence", "guild", "decide", "initialize",
                  "decision", "review"},
          run : Runs \cup {NoRun}, proceed : BOOLEAN, kept : BOOLEAN,
          from : Policies \cup {NoPolicy}]
Callbacks == [step : {"idle", "apply", "record"}, run : Runs \cup {NoRun},
              index : 0 .. LastStep]
NoTask == [step |-> "idle", run |-> NoRun, proceed |-> FALSE, kept |-> FALSE,
           from |-> NoPolicy]
NoCallback == [step |-> "idle", run |-> NoRun, index |-> 0]

Ledger == INSTANCE PolicyAlias
Current == Ledger!Current
Moved(r) == Ledger!Moved(r)

\* No coroutine is between two awaits.
LoopFree == \A t \in Reviewers : task[t].step \in {"idle", "guild"}
Goto(t, step) == task' = [task EXCEPT ![t].step = step]
End(t) == task' = [task EXCEPT ![t] = NoTask]

\* _validate_numeric_decision_evidence on a decision of run r.
ValidDecision(r, from) == from \in Ledger!Sources(plan[r])

Init ==
  /\ plan = [r \in Runs |-> NoPlan]
  /\ evidence = [r \in Runs |-> FALSE]
  /\ review = [r \in Runs |-> "none"]
  /\ decision = [r \in Runs |-> NoDecision]
  /\ verdict = [r \in Runs |-> [s \in Steps |-> "none"]]
  /\ results = [r \in Runs |-> {}]
  /\ alias = <<>>
  /\ reviewed = [r \in Runs |-> "none"]
  /\ task = [t \in Reviewers |-> NoTask]
  /\ callback = NoCallback

-----------------------------------------------------------------------------
\* review_workflow: the plan is registered, or equals the registered one.
RequestReview(t, r, p) ==
  /\ LoopFree
  /\ task[t].step = "idle"
  /\ plan[r] \in {NoPlan, p}
  /\ plan' = [plan EXCEPT ![r] = p]
  /\ task' = [task EXCEPT ![t] = [NoTask EXCEPT !.step = "evidence", !.run = r]]
  /\ UNCHANGED <<evidence, review, decision, verdict, results, alias, reviewed,
                 callback>>

\* The evidence is admitted; a run reviewed before only ensures its numeric
\* decision, any other awaits the Guild.
AdmitEvidence(t) ==
  /\ task[t].step = "evidence"
  /\ evidence' = [evidence EXCEPT ![task[t].run] = TRUE]
  /\ CASE reviewed[task[t].run] = "none" -> Goto(t, "guild")
       [] reviewed[task[t].run] = "revise" -> End(t)
       [] OTHER -> task' = [task EXCEPT ![t].step = "decide", ![t].kept = TRUE]
  /\ UNCHANGED <<plan, review, decision, verdict, results, alias, reviewed,
                 callback>>

GuildReviews(t, proceed) ==
  /\ LoopFree
  /\ task[t].step = "guild"
  /\ task' = [task EXCEPT ![t].proceed = proceed,
                          ![t].step = IF proceed THEN "decide" ELSE "review"]
  /\ UNCHANGED <<ledgers, reviewed, callback>>

\* Mutant: any reviewed action will do.
GateAgreesUnchecked(r) == TRUE

\* The policy the decision starts from; the recomputed gate gives the action.
SourcePolicy(r) == IF alias = <<>> THEN plan[r].baseline ELSE Current
GateAgrees(r) == plan[r].action = Ledger!GateAction(plan[r])

\* record_reviewed_numeric_decision: an existing decision stands; otherwise
\* the reviewed action must be the one the recomputed gate gives, and the
\* decision starts from the alias as it is read now.
Decide(t) ==
  /\ task[t].step = "decide"
  /\ LET r == task[t].run IN
       CASE decision[r] # NoDecision ->
              IF task[t].kept THEN End(t) ELSE Goto(t, "review")
         [] decision[r] = NoDecision /\ ~GateAgrees(r) -> End(t)
         [] OTHER ->
              task' = [task EXCEPT
                ![t].step = IF alias = <<>> THEN "initialize" ELSE "decision",
                ![t].from = SourcePolicy(r)]
  /\ UNCHANGED <<ledgers, reviewed, callback>>

\* initialize_policy_alias
InitializeAlias(t) ==
  /\ task[t].step = "initialize"
  /\ IF alias = <<>>
     THEN /\ alias' = <<[run |-> NoRun, target |-> task[t].from]>>
          /\ Goto(t, "decision")
     ELSE End(t) /\ UNCHANGED alias
  /\ UNCHANGED <<plan, evidence, review, decision, verdict, results, reviewed,
                 callback>>

\* record_numeric_policy_decision validates the evidence, finds no other
\* decision and compares the alias again, all inside its transaction.
RecordDecision(t) ==
  /\ task[t].step = "decision"
  /\ LET r == task[t].run IN
       IF /\ ValidDecision(r, task[t].from)
          /\ decision[r] = NoDecision
          /\ Current = task[t].from
       THEN /\ decision' = [decision EXCEPT ![r] =
                 [from |-> Current, target |-> Ledger!Target(plan[r])]]
            /\ IF task[t].kept THEN End(t) ELSE Goto(t, "review")
       ELSE End(t) /\ UNCHANGED decision
  /\ UNCHANGED <<plan, evidence, review, verdict, results, alias, reviewed,
                 callback>>

ReviewRecorded(r) == review[r] # "none"

\* record_workflow_review is immutable per run: a concurrent review that ends
\* second fails, and _reviewed keeps the recorded one.
RecordReview(t) ==
  /\ task[t].step = "review"
  /\ LET r == task[t].run
         outcome == IF task[t].proceed THEN "proceed" ELSE "revise" IN
       IF ReviewRecorded(r)
       THEN UNCHANGED <<review, reviewed>>
       ELSE /\ review' = [review EXCEPT ![r] = outcome]
            /\ reviewed' = [reviewed EXCEPT ![r] = outcome]
  /\ End(t)
  /\ UNCHANGED <<plan, evidence, decision, verdict, results, alias, callback>>

\* Admission, the Guild or a transaction raises, or the client goes away.
ReviewFails(t) ==
  /\ task[t].step # "idle"
  /\ End(t)
  /\ UNCHANGED <<ledgers, reviewed, callback>>

\* Mutant: admitted evidence is enough to ask a human.
ApprovalIsExecutableUnreviewed(r, s) ==
  evidence[r] /\ (s = LastStep => decision[r] # NoDecision)

\* _approval_is_executable
ApprovalIsExecutable(r, s) ==
  /\ reviewed[r] = "proceed"
  /\ evidence[r]
  /\ s = LastStep => decision[r] # NoDecision

\* submit_approval_decision answers a pending requirement, once.
SubmitApprovalDecision(r, s, answer) ==
  /\ LoopFree
  /\ plan[r] # NoPlan
  /\ s \in plan[r].gated
  /\ verdict[r][s] = "none"
  /\ ApprovalIsExecutable(r, s)
  /\ verdict' = [verdict EXCEPT ![r][s] = answer]
  /\ UNCHANGED <<plan, evidence, review, decision, results, alias, reviewed,
                 task, callback>>

-----------------------------------------------------------------------------
\* Mutants: the gate is left to the final handler; a decision whose target is already current needs no alias event.
ApprovedLast(r, s) == s = LastStep => verdict[r][s] = "approve"
HandlerSkipsNoop(r, s) ==
  IF s = LastStep /\ decision[r].target # Current THEN "apply" ELSE "record"

InOrder(r, s) == s = Cardinality(results[r]) + 1
\* _verify_approval
Approved(r, s) == s \in plan[r].gated => verdict[r][s] = "approve"
\* Only the final handler changes what is modelled here.
Handler(r, s) == IF s = LastStep THEN "apply" ELSE "record"

\* dispatch: the callback must be the next step of the fixed pipeline, of a
\* run whose durable review is executable, with its approval if it is gated.
\* An earlier step replays its stored result and changes nothing.
DispatchCallback(r, s) ==
  /\ callback.step = "idle"
  /\ plan[r] # NoPlan
  /\ review[r] = "proceed"
  /\ Approved(r, s)
  /\ InOrder(r, s)
  /\ s = LastStep => decision[r] # NoDecision
  /\ callback' = [step |-> Handler(r, s), run |-> r, index |-> s]
  /\ UNCHANGED <<ledgers, reviewed, task>>

AlreadyApplied(r) == Moved(r)
MayApply(r) ==
  /\ ValidDecision(r, decision[r].from)
  /\ verdict[r][LastStep] = "approve"
  /\ Current = decision[r].from

\* apply_policy_action: a retry finds its own event; the alias must still be
\* where the decision was measured from.
ApplyPolicyAction ==
  /\ callback.step = "apply"
  /\ LET r == callback.run IN
       IF AlreadyApplied(r)
       THEN callback' = [callback EXCEPT !.step = "record"] /\ UNCHANGED alias
       ELSE IF MayApply(r)
       THEN /\ alias' = Append(alias, [run |-> r,
                                       target |-> decision[r].target])
            /\ callback' = [callback EXCEPT !.step = "record"]
       ELSE callback' = NoCallback /\ UNCHANGED alias
  /\ UNCHANGED <<plan, evidence, review, decision, verdict, results, reviewed,
                 task>>

\* record_rocketride_callback_result
RecordCallbackResult ==
  /\ callback.step = "record"
  /\ results' = [results EXCEPT ![callback.run] = @ \cup {callback.index}]
  /\ callback' = NoCallback
  /\ UNCHANGED <<plan, evidence, review, decision, verdict, alias, reviewed,
                 task>>

\* The domain handler or a transaction raises.
CallbackFails ==
  /\ callback.step # "idle"
  /\ callback' = NoCallback
  /\ UNCHANGED <<ledgers, reviewed, task>>

\* The process dies and starts again: _restore_workflows.
CrashRestart ==
  /\ reviewed' = review
  /\ task' = [t \in Reviewers |-> NoTask]
  /\ callback' = NoCallback
  /\ UNCHANGED ledgers

Next ==
  \/ \E t \in Reviewers :
       \/ \E r \in Runs, p \in Plans : RequestReview(t, r, p)
       \/ \E proceed \in BOOLEAN : GuildReviews(t, proceed)
       \/ AdmitEvidence(t) \/ Decide(t) \/ InitializeAlias(t)
       \/ RecordDecision(t) \/ RecordReview(t) \/ ReviewFails(t)
  \/ \E r \in Runs, s \in Steps :
       \/ \E answer \in {"approve", "reject"} : SubmitApprovalDecision(r, s, answer)
       \/ DispatchCallback(r, s)
  \/ ApplyPolicyAction \/ RecordCallbackResult \/ CallbackFails
  \/ CrashRestart

Spec == Init /\ [][Next]_vars

-----------------------------------------------------------------------------
\* Every variable has its type; a busy task or callback concerns a run.
TypeOK ==
  /\ plan \in [Runs -> Plans \cup {NoPlan}]
  /\ evidence \in [Runs -> BOOLEAN]
  /\ review \in [Runs -> {"none", "proceed", "revise"}]
  /\ decision \in [Runs -> Decisions \cup {NoDecision}]
  /\ verdict \in [Runs -> [Steps -> {"none", "approve", "reject"}]]
  /\ results \in [Runs -> SUBSET Steps]
  /\ alias \in Seq(Events)
  /\ reviewed \in [Runs -> {"none", "proceed", "revise"}]
  /\ task \in [Reviewers -> Tasks]
  /\ callback \in Callbacks
  /\ \A t \in Reviewers : task[t].step # "idle" => task[t].run \in Runs
  /\ callback.step # "idle" => callback.run \in Runs /\ callback.index \in Steps

\* The alias moved for a run only after the whole fixed pipeline before the
\* final step completed, the durable Guild review was executable, and a human
\* approved the measured action; each step that needed approval had it.
MovedWithAuthority ==
  \A r \in Runs : Moved(r) =>
    /\ review[r] = "proceed"
    /\ 1 .. (LastStep - 1) \subseteq results[r]
    /\ \A s \in plan[r].gated : verdict[r][s] = "approve"

\* A promotion replaces exactly the policy its candidate was measured against,
\* past the gate; a rollback ends at the baseline: every move of the alias goes
\* from where its decision was measured to the decision's target.
MovesAreMeasured ==
  \A i \in 2 .. Len(alias) :
    LET r == alias[i].run IN
    /\ decision[r] = [from |-> alias[i - 1].target, target |-> alias[i].target]
    /\ plan[r].action = Ledger!GateAction(plan[r])
    /\ plan[r].promotable => /\ alias[i - 1].target = plan[r].baseline
                             /\ alias[i].target = plan[r].candidate
    /\ ~plan[r].promotable => alias[i].target = plan[r].baseline

\* A decision is applied at most once, also when the process died after the
\* alias moved and before the callback result was recorded.
AppliedOnce ==
  \A i, j \in DOMAIN alias : alias[i].run = alias[j].run => i = j

\* A recorded final step is true: the alias ledger holds the event of the run.
FinalStepApplied == \A r \in Runs : LastStep \in results[r] => Moved(r)

\* The durable callback results are a prefix of the fixed pipeline whatever
\* crashes and repeated callbacks there were; the store refuses to read others.
ResultsArePrefix ==
  \A r \in Runs : results[r] = 1 .. Cardinality(results[r])

\* A human answers the policy action only when its numeric decision is durable,
\* and any gated step only when the durable review of the run is executable.
AnsweredAfterMeasured ==
  \A r \in Runs, s \in Steps : verdict[r][s] # "none" =>
    /\ review[r] = "proceed"
    /\ s = LastStep => decision[r] # NoDecision

LedgersExtend ==
  /\ \A r \in Runs :
       /\ plan[r] # NoPlan => plan'[r] = plan[r]
       /\ review[r] # "none" => review'[r] = review[r]
       /\ decision[r] # NoDecision => decision'[r] = decision[r]
       /\ \A s \in Steps : verdict[r][s] # "none" => verdict'[r][s] = verdict[r][s]
       /\ results[r] \subseteq results'[r]
  /\ \E n \in 0 .. Len(alias') : SubSeq(alias', 1, n) = alias

\* Plans, reviews, decisions and answers are immutable once recorded, and
\* callback results and the alias ledger only grow, whichever coroutines and
\* callbacks race to write them.
LedgersAreFinal == [][LedgersExtend]_ledgers

\* The governed workflow implements the alias ledger.
AliasLedger == Ledger!Spec

\* Authority comes in order: measured and reviewed, answered by a human, and only
\* then does the alias move (backend/rocketride_callback.py:282).
AuthorityInOrder == MovedWithAuthority /\ AnsweredAfterMeasured
=============================================================================
