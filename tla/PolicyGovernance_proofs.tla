----------------------- MODULE PolicyGovernance_proofs -----------------------
(***************************************************************************)
(* Proofs about PolicyGovernance for every set of runs, plans, reviewers and *)
(* policies and every pipeline length: the alias ledger moves only with      *)
(* authority, as measured and once per run, and the whole governed workflow  *)
(* implements PolicyAlias.  The argument first shows that every ledger only  *)
(* grows (Grows), so that whatever a coroutine or a callback has checked     *)
(* stays true while the others run, and then that Inv is inductive.          *)
(***************************************************************************)
EXTENDS PolicyGovernance, FiniteSetTheorems, SequenceTheorems, TLAPS

-----------------------------------------------------------------------------
(* The inductive invariant.                                                *)

\* What a review coroutine has established at each of its steps.
TaskSound(t) ==
  /\ task[t].step # "idle" => plan[task[t].run] \in Plans
  /\ task[t].step \in {"initialize", "decision"} =>
       GateAgrees(task[t].run) /\ task[t].from \in Policies
  /\ task[t].step = "initialize" => task[t].from = plan[task[t].run].baseline
  /\ task[t].step = "decision" => alias # <<>>
  /\ task[t].step = "review" /\ task[t].proceed =>
       decision[task[t].run] # NoDecision
TasksSound == \A t \in Reviewers : TaskSound(t)

\* Memory agrees with the ledger; an executable review has its decision.
ReviewsSound ==
  \A r \in Runs :
    /\ reviewed[r] = review[r]
    /\ review[r] = "proceed" => plan[r] \in Plans /\ decision[r] # NoDecision

DecisionsSound ==
  \A r \in Runs : decision[r] # NoDecision =>
    /\ plan[r] \in Plans
    /\ GateAgrees(r)
    /\ ValidDecision(r, decision[r].from)
    /\ decision[r].target = Ledger!Target(plan[r])
    /\ alias # <<>>

\* A completed step had its authority, and the final one moved the alias.
Authorised(r, s) == review[r] = "proceed" /\ Approved(r, s)
ResultsSound == \A r \in Runs : \A s \in results[r] : Authorised(r, s)

CallbackSound ==
  /\ callback.step # "idle" =>
       /\ Authorised(callback.run, callback.index)
       /\ InOrder(callback.run, callback.index)
  /\ callback.step = "apply" => callback.index = LastStep
  /\ callback.step = "record" /\ callback.index = LastStep => Moved(callback.run)

\* Every event but the first moves the alias as the decision of its run says.
EventsSound ==
  \A i \in DOMAIN alias :
    /\ i = 1 => alias[i].run = NoRun
    /\ i > 1 => /\ alias[i].run \in Runs
                /\ decision[alias[i].run] =
                     [from |-> alias[i - 1].target, target |-> alias[i].target]

Inv ==
  /\ TypeOK
  /\ TasksSound
  /\ ReviewsSound
  /\ DecisionsSound
  /\ AnsweredAfterMeasured
  /\ ResultsArePrefix
  /\ ResultsSound
  /\ FinalStepApplied
  /\ CallbackSound
  /\ EventsSound
  /\ AppliedOnce
  /\ MovedWithAuthority

-----------------------------------------------------------------------------
(* Every ledger only grows.                                                *)

Grows ==
  /\ \A r \in Runs :
       /\ plan[r] # NoPlan => plan'[r] = plan[r]
       /\ evidence[r] => evidence'[r]
       /\ review[r] # "none" => review'[r] = review[r]
       /\ decision[r] # NoDecision => decision'[r] = decision[r]
       /\ \A s \in Steps : verdict[r][s] # "none" => verdict'[r][s] = verdict[r][s]
       /\ results[r] \subseteq results'[r]
  /\ \/ alias' = alias
     \/ \E e \in Events : alias' = Append(alias, e)

LEMMA NoTaskType == NoTask \in Tasks /\ NoCallback \in Callbacks
BY GovernanceAssumption DEF NoTask, NoCallback, Tasks, Callbacks

\* Where the alias is, once it is anywhere.
LEMMA CurrentType ==
  ASSUME alias \in Seq(Events), alias # <<>>
  PROVE  Len(alias) \in DOMAIN alias /\ Current \in Policies
<1>1. Len(alias) \in 1 .. Len(alias) /\ DOMAIN alias = 1 .. Len(alias)
  BY EmptySeq, LenProperties
<1>2. alias[Len(alias)] \in Events
  BY <1>1, ElementOfSeq
<1> QED
  BY <1>1, <1>2 DEF Current, Ledger!Current, Events

\* The effect of the two ways a step moves a coroutine on.
TasksHaveRuns == \A t \in Reviewers : task[t].step # "idle" => task[t].run \in Runs

LEMMA EndTask ==
  ASSUME task \in [Reviewers -> Tasks], NEW t \in Reviewers, End(t)
  PROVE  /\ task' \in [Reviewers -> Tasks]
         /\ TasksHaveRuns => TasksHaveRuns'
         /\ task'[t] = NoTask
         /\ \A u \in Reviewers \ {t} : task'[u] = task[u]
BY NoTaskType DEF End, TasksHaveRuns, NoTask

LEMMA GotoTask ==
  ASSUME task \in [Reviewers -> Tasks], NEW t \in Reviewers,
         NEW step \in {"guild", "decide", "decision", "review"}, Goto(t, step)
  PROVE  /\ task' \in [Reviewers -> Tasks]
         /\ TasksHaveRuns /\ task[t].run \in Runs => TasksHaveRuns'
         /\ task'[t] = [task[t] EXCEPT !.step = step]
         /\ task'[t].step = step
         /\ task'[t].run = task[t].run
         /\ task'[t].proceed = task[t].proceed
         /\ task'[t].from = task[t].from
         /\ \A u \in Reviewers \ {t} : task'[u] = task[u]
<1>1. task[t] \in Tasks
  OBVIOUS
<1>2. [task[t] EXCEPT !.step = step] \in Tasks
  BY <1>1 DEF Tasks
<1>3. task' = [task EXCEPT ![t] = [task[t] EXCEPT !.step = step]]
  BY DEF Goto
<1>4. /\ [task[t] EXCEPT !.step = step].step = step
      /\ [task[t] EXCEPT !.step = step].run = task[t].run
      /\ [task[t] EXCEPT !.step = step].proceed = task[t].proceed
      /\ [task[t] EXCEPT !.step = step].from = task[t].from
  BY <1>1 DEF Tasks
<1>5. /\ task' \in [Reviewers -> Tasks]
      /\ task'[t] = [task[t] EXCEPT !.step = step]
      /\ \A u \in Reviewers \ {t} : task'[u] = task[u]
  BY <1>2, <1>3
<1>6. TasksHaveRuns /\ task[t].run \in Runs => TasksHaveRuns'
  BY <1>4, <1>5 DEF TasksHaveRuns
<1> QED
  BY <1>4, <1>5, <1>6

\* A one-element ledger.
LEMMA SingletonEvents ==
  ASSUME NEW e \in Events
  PROVE  /\ <<e>> \in Seq(Events) /\ Len(<<e>>) = 1 /\ <<e>>[1] = e
         /\ <<e>> = Append(<<>>, e)
OBVIOUS

\* Plans name policies.
LEMMA PlanFacts ==
  ASSUME NEW p \in Plans
  PROVE  /\ p.baseline \in Policies /\ p.candidate \in Policies
         /\ p.action \in {"promote", "roll_back"} /\ p.promotable \in BOOLEAN
         /\ p.gated \subseteq Steps /\ LastStep \in p.gated
         /\ Ledger!Target(p) \in Policies
         /\ p # NoPlan
BY GovernanceAssumption DEF PlanType, Ledger!Target, Steps

LEMMA TypeNext ==
  ASSUME Inv, Next
  PROVE  TypeOK'
<1>0. TypeOK /\ TasksSound /\ ReviewsSound /\ DecisionsSound /\ CallbackSound
  BY DEF Inv
<1> USE <1>0, NoTaskType DEF TypeOK
<1>runs. TasksHaveRuns
  BY DEF TasksHaveRuns
<1>1. ASSUME NEW t \in Reviewers, NEW r \in Runs, NEW p \in Plans,
             RequestReview(t, r, p)
      PROVE  TypeOK'
  BY <1>1 DEF RequestReview, NoTask, Tasks
<1>2. ASSUME NEW t \in Reviewers, NEW proceed \in BOOLEAN, GuildReviews(t, proceed)
      PROVE  TypeOK'
  <2> DEFINE x == [task[t] EXCEPT !.proceed = proceed,
                                  !.step = IF proceed THEN "decide" ELSE "review"]
  <2>1. task' = [task EXCEPT ![t] = x]
    BY <1>2 DEF GuildReviews
  <2>2. x \in Tasks /\ x.run = task[t].run /\ task[t].run \in Runs
    BY <1>2 DEF GuildReviews, Tasks
  <2> HIDE DEF x
  <2>3. task' \in [Reviewers -> Tasks]
    BY <2>1, <2>2
  <2>4. TasksHaveRuns'
    BY <1>runs, <2>1, <2>2 DEF TasksHaveRuns
  <2> QED
    BY <1>2, <2>3, <2>4 DEF GuildReviews, ledgers, TasksHaveRuns
<1>3. ASSUME NEW t \in Reviewers, AdmitEvidence(t)
      PROVE  TypeOK'
  <2>1. /\ task' \in [Reviewers -> Tasks]
        /\ TasksHaveRuns'
    <3>1. CASE End(t)
      BY <1>runs, <3>1, EndTask
    <3>2. CASE Goto(t, "guild")
      BY <1>3, <1>runs, <3>2, GotoTask DEF AdmitEvidence
    <3>3. CASE task' = [task EXCEPT ![t].step = "decide", ![t].kept = TRUE]
      BY <1>3, <3>3 DEF AdmitEvidence, Tasks, TasksHaveRuns
    <3> QED
      BY <1>3, <3>1, <3>2, <3>3 DEF AdmitEvidence
  <2> QED
    BY <1>3, <2>1 DEF AdmitEvidence, TasksHaveRuns
<1>4. ASSUME NEW t \in Reviewers, Decide(t)
      PROVE  TypeOK'
  <2>1. CASE UNCHANGED task
    BY <1>4, <2>1 DEF Decide, ledgers
  <2>2. CASE End(t)
    BY <1>4, <2>2 DEF Decide, End, ledgers, NoTask
  <2>3. CASE Goto(t, "review")
    BY <1>4, <2>3 DEF Decide, Goto, ledgers, Tasks
  <2>4. CASE task' = [task EXCEPT
                ![t].step = IF alias = <<>> THEN "initialize" ELSE "decision",
                ![t].from = SourcePolicy(task[t].run)]
    <3>1. SourcePolicy(task[t].run) \in Policies
      BY <1>4, CurrentType, PlanFacts DEF Decide, TasksSound, TaskSound, SourcePolicy
    <3> DEFINE x == [task[t] EXCEPT
                      !.step = IF alias = <<>> THEN "initialize" ELSE "decision",
                      !.from = SourcePolicy(task[t].run)]
    <3>2. task' = [task EXCEPT ![t] = x]
      BY <2>4
    <3>3. x \in Tasks /\ x.run = task[t].run /\ task[t].run \in Runs
      BY <1>4, <3>1 DEF Decide, Tasks
    <3> HIDE DEF x
    <3>4. task' \in [Reviewers -> Tasks]
      BY <3>2, <3>3
    <3>5. TasksHaveRuns'
      BY <1>runs, <3>2, <3>3 DEF TasksHaveRuns
    <3> QED
      BY <1>4, <3>4, <3>5 DEF Decide, ledgers, TasksHaveRuns
  <2> QED
    BY <1>4, <2>2, <2>3, <2>4 DEF Decide
<1>5. ASSUME NEW t \in Reviewers, InitializeAlias(t)
      PROVE  TypeOK'
  <2>1. CASE alias = <<>>
    <3>1. [run |-> NoRun, target |-> task[t].from] \in Events
      BY <1>5 DEF InitializeAlias, TasksSound, TaskSound, Events
    <3> QED
      <4>1. Goto(t, "decision") /\ task[t].run \in Runs
        BY <1>5, <2>1 DEF InitializeAlias
      <4>2. /\ task' \in [Reviewers -> Tasks]
            /\ TasksHaveRuns'
        BY <4>1, <1>runs, GotoTask
      <4>3. alias' \in Seq(Events)
        BY <1>5, <2>1, <3>1, SingletonEvents DEF InitializeAlias
      <4> QED
        BY <1>5, <4>2, <4>3 DEF InitializeAlias, TasksHaveRuns
  <2>2. CASE alias # <<>>
    BY <1>5, <2>2, EndTask DEF InitializeAlias, NoTask
  <2> QED
    BY <2>1, <2>2
<1>6. ASSUME NEW t \in Reviewers, RecordDecision(t)
      PROVE  TypeOK'
  <2>1. CASE End(t) /\ UNCHANGED decision
    BY <1>6, <2>1 DEF RecordDecision, End, NoTask
  <2>2. CASE ~(End(t) /\ UNCHANGED decision)
    <3>1. Current \in Policies /\ Ledger!Target(plan[task[t].run]) \in Policies
      BY <1>6, CurrentType, PlanFacts DEF RecordDecision, TasksSound, TaskSound
    <3>2. decision' \in [Runs -> Decisions \cup {NoDecision}]
      <4> DEFINE d == [from |-> Current, target |-> Ledger!Target(plan[task[t].run])]
      <4>1. decision' = [decision EXCEPT ![task[t].run] = d]
        BY <1>6, <2>2 DEF RecordDecision
      <4>2. d \in Decisions
        BY <3>1 DEF Decisions
      <4> HIDE DEF d
      <4> QED
        BY <4>1, <4>2
    <3>3. End(t) \/ Goto(t, "review")
      BY <1>6, <2>2 DEF RecordDecision
    <3>4. task' \in [Reviewers -> Tasks]
      BY <3>3, EndTask, GotoTask
    <3>5. TasksHaveRuns'
      <4>1. task[t].run \in Runs
        BY <1>6 DEF RecordDecision
      <4>2. CASE End(t)
        BY <1>runs, <4>2, EndTask
      <4>3. CASE Goto(t, "review")
        BY <1>runs, <4>1, <4>3, GotoTask
      <4> QED
        BY <3>3, <4>2, <4>3
    <3> QED
      BY <1>6, <3>2, <3>4, <3>5 DEF RecordDecision, TasksHaveRuns
  <2> QED
    BY <2>1, <2>2
<1>7. ASSUME NEW t \in Reviewers, RecordReview(t)
      PROVE  TypeOK'
  BY <1>7 DEF RecordReview, End, NoTask
<1>8. ASSUME NEW t \in Reviewers, ReviewFails(t)
      PROVE  TypeOK'
  BY <1>8 DEF ReviewFails, End, NoTask, ledgers
<1>9. ASSUME NEW r \in Runs, NEW s \in Steps, NEW answer \in {"approve", "reject"},
             SubmitApprovalDecision(r, s, answer)
      PROVE  TypeOK'
  BY <1>9 DEF SubmitApprovalDecision
<1>10. ASSUME NEW r \in Runs, NEW s \in Steps, DispatchCallback(r, s)
       PROVE  TypeOK'
  BY <1>10 DEF DispatchCallback, Handler, Callbacks, Steps, ledgers
<1>11. CASE ApplyPolicyAction
  <2>1. CASE callback' = NoCallback /\ UNCHANGED alias
    BY <1>11, <2>1 DEF ApplyPolicyAction, NoCallback
  <2>2. CASE callback' = [callback EXCEPT !.step = "record"] /\ UNCHANGED alias
    BY <1>11, <2>2 DEF ApplyPolicyAction, Callbacks
  <2>3. CASE /\ MayApply(callback.run)
             /\ alias' = Append(alias, [run |-> callback.run,
                                        target |-> decision[callback.run].target])
             /\ callback' = [callback EXCEPT !.step = "record"]
    <3>1. callback.run \in Runs
      BY <1>11 DEF ApplyPolicyAction
    <3>2. decision[callback.run].target \in Policies
      BY <1>11, <3>1 DEF ApplyPolicyAction, CallbackSound, Authorised, ReviewsSound,
         Decisions
    <3>3. [run |-> callback.run, target |-> decision[callback.run].target] \in Events
      BY <3>1, <3>2 DEF Events
    <3>4. callback' \in Callbacks /\ callback'.run \in Runs /\ callback'.index \in Steps
      BY <1>11, <2>3, <3>1 DEF ApplyPolicyAction, Callbacks
    <3> QED
      BY <1>11, <2>3, <3>3, <3>4 DEF ApplyPolicyAction
  <2> QED
    BY <1>11, <2>1, <2>2, <2>3 DEF ApplyPolicyAction
<1>12. CASE RecordCallbackResult
  BY <1>12 DEF RecordCallbackResult, NoCallback
<1>13. CASE CallbackFails
  BY <1>13 DEF CallbackFails, NoCallback, ledgers
<1>14. CASE CrashRestart
  BY <1>14 DEF CrashRestart, NoTask, NoCallback, ledgers
<1> QED
  BY <1>1, <1>2, <1>3, <1>4, <1>5, <1>6, <1>7, <1>8, <1>9, <1>10, <1>11, <1>12,
     <1>13, <1>14 DEF Next

\* Every step keeps what the ledgers hold.
LEMMA GrowsNext ==
  ASSUME Inv, Next
  PROVE  Grows
<1>0. TypeOK /\ TasksSound /\ ReviewsSound /\ CallbackSound
  BY DEF Inv
<1> USE <1>0 DEF TypeOK, Grows
<1>1. ASSUME NEW t \in Reviewers, NEW r \in Runs, NEW p \in Plans,
             RequestReview(t, r, p)
      PROVE  Grows
  BY <1>1 DEF RequestReview
<1>2. ASSUME NEW t \in Reviewers, NEW proceed \in BOOLEAN, GuildReviews(t, proceed)
      PROVE  Grows
  BY <1>2 DEF GuildReviews, ledgers
<1>3. ASSUME NEW t \in Reviewers, AdmitEvidence(t)
      PROVE  Grows
  BY <1>3 DEF AdmitEvidence
<1>4. ASSUME NEW t \in Reviewers, Decide(t)
      PROVE  Grows
  BY <1>4 DEF Decide, ledgers
<1>5. ASSUME NEW t \in Reviewers, InitializeAlias(t)
      PROVE  Grows
  <2>1. [run |-> NoRun, target |-> task[t].from] \in Events
    BY <1>5 DEF InitializeAlias, TasksSound, TaskSound, Events
  <2>2. alias' = alias \/ \E e \in Events : alias' = Append(alias, e)
    BY <1>5, <2>1, SingletonEvents DEF InitializeAlias
  <2> QED
    BY <1>5, <2>2 DEF InitializeAlias
<1>6. ASSUME NEW t \in Reviewers, RecordDecision(t)
      PROVE  Grows
  <2>1. \A r \in Runs : decision[r] # NoDecision => decision'[r] = decision[r]
    BY <1>6 DEF RecordDecision
  <2> QED
    BY <1>6, <2>1 DEF RecordDecision
<1>7. ASSUME NEW t \in Reviewers, RecordReview(t)
      PROVE  Grows
  <2>1. \A r \in Runs : review[r] # "none" => review'[r] = review[r]
    BY <1>7 DEF RecordReview, ReviewRecorded
  <2> QED
    BY <1>7, <2>1 DEF RecordReview
<1>8. ASSUME NEW t \in Reviewers, ReviewFails(t)
      PROVE  Grows
  BY <1>8 DEF ReviewFails, ledgers
<1>9. ASSUME NEW r \in Runs, NEW s \in Steps, NEW answer \in {"approve", "reject"},
             SubmitApprovalDecision(r, s, answer)
      PROVE  Grows
  <2>1. \A q \in Runs, u \in Steps :
          verdict[q][u] # "none" => verdict'[q][u] = verdict[q][u]
    BY <1>9 DEF SubmitApprovalDecision
  <2> QED
    BY <1>9, <2>1 DEF SubmitApprovalDecision
<1>10. ASSUME NEW r \in Runs, NEW s \in Steps, DispatchCallback(r, s)
       PROVE  Grows
  BY <1>10 DEF DispatchCallback, ledgers
<1>11. CASE ApplyPolicyAction
  <2>1. callback.run \in Runs
    BY <1>11 DEF ApplyPolicyAction
  <2>2. decision[callback.run].target \in Policies
    BY <1>11, <2>1 DEF ApplyPolicyAction, CallbackSound, Authorised, ReviewsSound,
       Decisions
  <2>3. [run |-> callback.run, target |-> decision[callback.run].target] \in Events
    BY <2>1, <2>2 DEF Events
  <2>4. alias' = alias \/ \E e \in Events : alias' = Append(alias, e)
    BY <1>11, <2>3 DEF ApplyPolicyAction
  <2> QED
    BY <1>11, <2>4 DEF ApplyPolicyAction
<1>12. CASE RecordCallbackResult
  <2>1. \A r \in Runs : results[r] \subseteq results'[r]
    BY <1>12 DEF RecordCallbackResult
  <2> QED
    BY <1>12, <2>1 DEF RecordCallbackResult
<1>13. CASE CallbackFails
  BY <1>13 DEF CallbackFails, ledgers
<1>14. CASE CrashRestart
  BY <1>14 DEF CrashRestart, ledgers
<1> QED
  BY <1>1, <1>2, <1>3, <1>4, <1>5, <1>6, <1>7, <1>8, <1>9, <1>10, <1>11, <1>12,
     <1>13, <1>14 DEF Next

\* What growing ledgers keep true: an event once in the alias stays there, and a
\* run that moved it has moved it.
LEMMA AliasKept ==
  ASSUME alias \in Seq(Events), Grows
  PROVE  /\ alias' \in Seq(Events)
         /\ Len(alias) \in Nat /\ DOMAIN alias = 1 .. Len(alias)
         /\ Len(alias') \in {Len(alias), Len(alias) + 1}
         /\ DOMAIN alias' = 1 .. Len(alias')
         /\ \A i \in DOMAIN alias : i \in DOMAIN alias' /\ alias'[i] = alias[i]
         /\ alias # <<>> => alias' # <<>>
         /\ \A r : Moved(r) => Moved(r)'
<1>1. CASE alias' = alias
  BY <1>1, LenProperties DEF Moved, Ledger!Moved
<1>2. ASSUME NEW e \in Events, alias' = Append(alias, e)
      PROVE  /\ alias' \in Seq(Events)
             /\ Len(alias) \in Nat /\ DOMAIN alias = 1 .. Len(alias)
             /\ Len(alias') = Len(alias) + 1
             /\ DOMAIN alias' = 1 .. Len(alias')
             /\ \A i \in DOMAIN alias : i \in DOMAIN alias' /\ alias'[i] = alias[i]
             /\ alias' # <<>>
  <2>1. Len(alias) \in Nat /\ DOMAIN alias = 1 .. Len(alias)
    BY LenProperties
  <2>2. /\ alias' \in Seq(Events) /\ Len(alias') = Len(alias) + 1 /\ alias' # <<>>
        /\ \A i \in 1 .. Len(alias) : alias'[i] = alias[i]
    BY <1>2, AppendProperties
  <2>3. DOMAIN alias' = 1 .. Len(alias')
    BY <2>2, LenProperties
  <2> QED
    BY <2>1, <2>2, <2>3
<1>3. ASSUME NEW e \in Events, alias' = Append(alias, e), NEW r, Moved(r)
      PROVE  Moved(r)'
  BY <1>2, <1>3 DEF Moved, Ledger!Moved
<1> QED
  BY <1>1, <1>2, <1>3 DEF Grows

-----------------------------------------------------------------------------
(* Every step keeps each part of the invariant.                            *)

\* A coroutine that did not move keeps what it had established.
LEMMA TaskKept ==
  ASSUME Inv, Grows, NEW u \in Reviewers, task'[u] = task[u]
  PROVE  TaskSound(u)'
<1>1. TypeOK /\ TaskSound(u)
  BY DEF Inv, TasksSound
<1>2. CASE task[u].step = "idle"
  BY <1>2 DEF TaskSound
<1>3. CASE task[u].step # "idle"
  <2>1. task[u].run \in Runs /\ plan[task[u].run] \in Plans
    BY <1>1, <1>3 DEF TypeOK, TaskSound
  <2>2. plan'[task[u].run] = plan[task[u].run]
    BY <2>1, PlanFacts DEF Grows
  <2>3. /\ decision[task[u].run] # NoDecision => decision'[task[u].run] # NoDecision
        /\ alias # <<>> => alias' # <<>>
    BY <1>1, <2>1, AliasKept DEF Grows, TypeOK
  <2> QED
    BY <1>1, <2>1, <2>2, <2>3 DEF TaskSound, GateAgrees
<1> QED
  BY <1>2, <1>3

LEMMA TasksNext ==
  ASSUME Inv, Next, Grows, TypeOK'
  PROVE  TasksSound'
<1>0. TypeOK /\ TasksSound /\ task \in [Reviewers -> Tasks]
  BY DEF Inv, TypeOK
<1>1. ASSUME UNCHANGED task
      PROVE  TasksSound'
  BY <1>1, TaskKept DEF TasksSound
<1>2. ASSUME NEW t \in Reviewers, TaskSound(t)',
             \A u \in Reviewers \ {t} : task'[u] = task[u]
      PROVE  TasksSound'
  BY <1>2, TaskKept DEF TasksSound
<1>3. ASSUME NEW t \in Reviewers, End(t)
      PROVE  TasksSound'
  BY <1>0, <1>2, <1>3, EndTask DEF TaskSound, NoTask
<1>4. ASSUME NEW t \in Reviewers, NEW r \in Runs, NEW p \in Plans,
             RequestReview(t, r, p)
      PROVE  TasksSound'
  <2>1. /\ task'[t].step = "evidence" /\ task'[t].run = r
        /\ \A u \in Reviewers \ {t} : task'[u] = task[u]
    BY <1>0, <1>4 DEF RequestReview, NoTask
  <2>2. plan'[r] = p
    BY <1>0, <1>4 DEF RequestReview, TypeOK
  <2> QED
    BY <1>2, <2>1, <2>2 DEF TaskSound
<1>5. ASSUME NEW t \in Reviewers, NEW proceed \in BOOLEAN, GuildReviews(t, proceed)
      PROVE  TasksSound'
  <2>1. /\ task'[t].step \in {"decide", "review"} /\ task'[t].run = task[t].run
        /\ task'[t].step = "review" => ~task'[t].proceed
        /\ \A u \in Reviewers \ {t} : task'[u] = task[u]
    BY <1>0, <1>5 DEF GuildReviews, Tasks
  <2>2. plan'[task[t].run] \in Plans
    BY <1>0, <1>5 DEF GuildReviews, ledgers, TasksSound, TaskSound
  <2> QED
    BY <1>2, <2>1, <2>2 DEF TaskSound
<1>6. ASSUME NEW t \in Reviewers, AdmitEvidence(t)
      PROVE  TasksSound'
  <2>1. CASE End(t)
    BY <1>3, <2>1
  <2>2. CASE \/ Goto(t, "guild")
             \/ task' = [task EXCEPT ![t].step = "decide", ![t].kept = TRUE]
    <3>1. /\ task'[t].step \in {"guild", "decide"} /\ task'[t].run = task[t].run
          /\ \A u \in Reviewers \ {t} : task'[u] = task[u]
      BY <1>0, <2>2 DEF Goto, Tasks
    <3>2. plan'[task[t].run] \in Plans
      BY <1>0, <1>6 DEF AdmitEvidence, TasksSound, TaskSound
    <3> QED
      BY <1>2, <3>1, <3>2 DEF TaskSound
  <2> QED
    BY <1>6, <2>1, <2>2 DEF AdmitEvidence
<1>7. ASSUME NEW t \in Reviewers, Decide(t)
      PROVE  TasksSound'
  <2> DEFINE r == task[t].run
  <2>1. r \in Runs /\ plan[r] \in Plans /\ UNCHANGED <<plan, decision, alias>>
    BY <1>0, <1>7 DEF Decide, ledgers, TasksSound, TaskSound, TypeOK
  <2>2. CASE End(t)
    BY <1>3, <2>2
  <2>3. CASE Goto(t, "review") /\ decision[r] # NoDecision
    BY <1>0, <1>2, <2>1, <2>3, GotoTask DEF TaskSound
  <2>4. CASE /\ GateAgrees(r)
             /\ task' = [task EXCEPT
                  ![t].step = IF alias = <<>> THEN "initialize" ELSE "decision",
                  ![t].from = SourcePolicy(r)]
    <3>1. /\ task'[t].step = IF alias = <<>> THEN "initialize" ELSE "decision"
          /\ task'[t].run = r /\ task'[t].from = SourcePolicy(r)
          /\ \A u \in Reviewers \ {t} : task'[u] = task[u]
      BY <1>0, <2>4 DEF Tasks
    <3>2. /\ SourcePolicy(r) \in Policies
          /\ alias = <<>> => SourcePolicy(r) = plan[r].baseline
      BY <1>0, <2>1, CurrentType, PlanFacts DEF SourcePolicy, TypeOK
    <3>3. GateAgrees(r)'
      BY <2>1, <2>4, <3>1 DEF GateAgrees
    <3>4. TaskSound(t)'
      BY <2>1, <3>1, <3>2, <3>3 DEF TaskSound
    <3> QED
      BY <1>2, <3>1, <3>4
  <2> QED
    BY <1>7, <2>2, <2>3, <2>4 DEF Decide
<1>8. ASSUME NEW t \in Reviewers, InitializeAlias(t)
      PROVE  TasksSound'
  <2>1. CASE alias # <<>>
    BY <1>3, <1>8, <2>1 DEF InitializeAlias
  <2>2. CASE alias = <<>>
    <3>1. Goto(t, "decision") /\ alias' # <<>> /\ UNCHANGED plan
      BY <1>8, <2>2 DEF InitializeAlias
    <3>2. /\ plan[task[t].run] \in Plans /\ GateAgrees(task[t].run)
          /\ task[t].from \in Policies
      BY <1>8 , <1>0 DEF InitializeAlias, TasksSound, TaskSound
    <3> QED
      BY <1>0, <1>2, <3>1, <3>2, GotoTask DEF TaskSound, GateAgrees
  <2> QED
    BY <2>1, <2>2
<1>9. ASSUME NEW t \in Reviewers, RecordDecision(t)
      PROVE  TasksSound'
  <2>1. CASE End(t)
    BY <1>3, <2>1
  <2>2. CASE ~End(t)
    <3>1. /\ Goto(t, "review") /\ UNCHANGED plan
          /\ decision' = [decision EXCEPT ![task[t].run] =
               [from |-> Current, target |-> Ledger!Target(plan[task[t].run])]]
      BY <1>9, <2>2 DEF RecordDecision
    <3>2. task[t].run \in Runs /\ plan[task[t].run] \in Plans
      BY <1>0, <1>9 DEF RecordDecision, TasksSound, TaskSound, TypeOK
    <3>3. [from |-> Current, target |-> Ledger!Target(plan[task[t].run])] \in Decisions
      BY <1>0, <1>9, <3>2, CurrentType, PlanFacts
      DEF RecordDecision, TasksSound, TaskSound, TypeOK, Decisions
    <3>4. decision'[task[t].run] # NoDecision
      BY <1>0, <3>1, <3>2, <3>3, GovernanceAssumption DEF TypeOK, Decisions
    <3> QED
      BY <1>0, <1>2, <3>1, <3>2, <3>4, GotoTask DEF TaskSound
  <2> QED
    BY <2>1, <2>2
<1>10. ASSUME NEW t \in Reviewers, RecordReview(t) \/ ReviewFails(t)
       PROVE  TasksSound'
  BY <1>3, <1>10 DEF RecordReview, ReviewFails
<1>11. CASE CrashRestart
  BY <1>11 DEF CrashRestart, TasksSound, TaskSound, NoTask
<1>12. ASSUME NEW r \in Runs, NEW s \in Steps,
              \/ \E answer \in {"approve", "reject"} :
                   SubmitApprovalDecision(r, s, answer)
              \/ DispatchCallback(r, s)
       PROVE  TasksSound'
  BY <1>1, <1>12 DEF SubmitApprovalDecision, DispatchCallback
<1>13. CASE ApplyPolicyAction \/ RecordCallbackResult \/ CallbackFails
  BY <1>1, <1>13 DEF ApplyPolicyAction, RecordCallbackResult, CallbackFails
<1> QED
  BY <1>4, <1>5, <1>6, <1>7, <1>8, <1>9, <1>10, <1>11, <1>12, <1>13 DEF Next


\* Reviews change only in RecordReview, where an executable one has a decision.
LEMMA ReviewsNext ==
  ASSUME Inv, Next, Grows, TypeOK'
  PROVE  ReviewsSound'
<1>0. TypeOK /\ TasksSound /\ ReviewsSound
  BY DEF Inv
<1>1. ASSUME UNCHANGED review, UNCHANGED reviewed
      PROVE  ReviewsSound'
  <2>1. \A r \in Runs : review[r] = "proceed" =>
          plan'[r] = plan[r] /\ decision'[r] = decision[r]
    BY <1>0, PlanFacts DEF ReviewsSound, Grows
  <2> QED
    BY <1>0, <1>1, <2>1 DEF ReviewsSound
<1>2. ASSUME NEW t \in Reviewers, RecordReview(t)
      PROVE  ReviewsSound'
  <2> DEFINE q == task[t].run
  <2>1. UNCHANGED <<plan, decision>> /\ q \in Runs
    BY <1>0, <1>2 DEF RecordReview, TypeOK
  <2>2. task[t].proceed => plan[q] \in Plans /\ decision[q] # NoDecision
    BY <1>0, <1>2 DEF RecordReview, TasksSound, TaskSound
  <2>3. CASE ReviewRecorded(q)
    BY <1>1, <1>2, <2>3 DEF RecordReview
  <2>4. CASE ~ReviewRecorded(q)
    <3> DEFINE outcome == IF task[t].proceed THEN "proceed" ELSE "revise"
    <3>1. review' = [review EXCEPT ![q] = outcome] /\ reviewed' = [reviewed EXCEPT ![q] = outcome]
      BY <1>2, <2>4 DEF RecordReview
    <3>2. \A r \in Runs : reviewed'[r] = review'[r]
      BY <1>0, <2>1, <3>1 DEF ReviewsSound, TypeOK
    <3>3. \A r \in Runs : review'[r] = "proceed" => plan[r] \in Plans /\ decision[r] # NoDecision
      BY <1>0, <2>1, <2>2, <3>1 DEF ReviewsSound, TypeOK
    <3> QED
      BY <2>1, <3>2, <3>3 DEF ReviewsSound
  <2> QED
    BY <2>3, <2>4
<1>3. CASE CrashRestart
  BY <1>0, <1>1, <1>3 DEF CrashRestart, ledgers, ReviewsSound
<1> QED
  BY <1>1, <1>2, <1>3
  DEF Next, RequestReview, GuildReviews, AdmitEvidence, Decide, InitializeAlias,
      RecordDecision, ReviewFails, SubmitApprovalDecision, DispatchCallback,
      ApplyPolicyAction, RecordCallbackResult, CallbackFails, ledgers

\* A decision is recorded with its gate, its source and its target in order.
LEMMA DecisionsNext ==
  ASSUME Inv, Next, Grows, TypeOK'
  PROVE  DecisionsSound'
<1>0. TypeOK /\ TasksSound /\ DecisionsSound
  BY DEF Inv
<1>1. ASSUME NEW r \in Runs, decision'[r] = decision[r], decision'[r] # NoDecision
      PROVE  /\ plan'[r] \in Plans /\ GateAgrees(r)' /\ ValidDecision(r, decision[r].from)'
             /\ decision'[r].target = Ledger!Target(plan'[r]) /\ alias' # <<>>
  <2>1. plan'[r] = plan[r] /\ alias' # <<>>
    BY <1>0, <1>1, AliasKept, PlanFacts DEF DecisionsSound, Grows, TypeOK
  <2> QED
    BY <1>0, <1>1, <2>1 DEF DecisionsSound, GateAgrees, ValidDecision
<1>2. ASSUME UNCHANGED decision
      PROVE  DecisionsSound'
  BY <1>1, <1>2 DEF DecisionsSound
<1>3. ASSUME NEW t \in Reviewers, RecordDecision(t)
      PROVE  DecisionsSound'
  <2>1. CASE UNCHANGED decision
    BY <1>2, <2>1
  <2>2. CASE ~UNCHANGED decision
    <3>1. PICK q \in Runs : q = task[t].run
      BY <1>0, <1>3 DEF RecordDecision, TypeOK
    <3>2. /\ decision' = [decision EXCEPT ![q] =
               [from |-> Current, target |-> Ledger!Target(plan[q])]]
          /\ ValidDecision(q, Current)
          /\ UNCHANGED <<plan, alias>>
      BY <1>3, <2>2, <3>1 DEF RecordDecision
    <3>3. plan[q] \in Plans /\ GateAgrees(q) /\ alias # <<>>
      BY <1>0, <1>3, <3>1 DEF RecordDecision, TasksSound, TaskSound
    <3>4. \A r \in Runs \ {q} : decision'[r] = decision[r]
      BY <1>0, <3>2 DEF TypeOK
    <3>5. decision'[q] = [from |-> Current, target |-> Ledger!Target(plan[q])]
      BY <1>0, <3>2 DEF TypeOK
    <3>6. /\ plan'[q] \in Plans /\ GateAgrees(q)' /\ ValidDecision(q, decision[q].from)'
          /\ decision'[q].target = Ledger!Target(plan'[q]) /\ alias' # <<>>
      BY <3>2, <3>3, <3>5 DEF GateAgrees, ValidDecision
    <3> QED
      BY <1>1, <3>4, <3>6 DEF DecisionsSound
  <2> QED
    BY <2>1, <2>2
<1> QED
  BY <1>2, <1>3
  DEF Next, RequestReview, GuildReviews, AdmitEvidence, Decide, InitializeAlias,
      RecordReview, ReviewFails, SubmitApprovalDecision, DispatchCallback,
      ApplyPolicyAction, RecordCallbackResult, CallbackFails, CrashRestart, ledgers

LEMMA AnswersNext ==
  ASSUME Inv, Next, Grows, TypeOK'
  PROVE  AnsweredAfterMeasured'
<1>0. TypeOK /\ ReviewsSound /\ AnsweredAfterMeasured
  BY DEF Inv
<1>1. \A r \in Runs : /\ review[r] = "proceed" => review'[r] = "proceed"
                      /\ decision[r] # NoDecision => decision'[r] # NoDecision
  BY DEF Grows
<1>2. ASSUME UNCHANGED verdict
      PROVE  AnsweredAfterMeasured'
  BY <1>0, <1>1, <1>2 DEF AnsweredAfterMeasured
<1>3. ASSUME NEW r \in Runs, NEW s \in Steps, NEW answer \in {"approve", "reject"},
             SubmitApprovalDecision(r, s, answer)
      PROVE  AnsweredAfterMeasured'
  <2>1. review[r] = "proceed" /\ (s = LastStep => decision[r] # NoDecision)
    BY <1>0, <1>3 DEF SubmitApprovalDecision, ApprovalIsExecutable, ReviewsSound
  <2>2. \A q \in Runs, u \in Steps : verdict'[q][u] # verdict[q][u] => q = r /\ u = s
    BY <1>0, <1>3 DEF SubmitApprovalDecision, TypeOK
  <2> QED
    BY <1>0, <1>1, <2>1, <2>2 DEF AnsweredAfterMeasured
<1> QED
  BY <1>2, <1>3
  DEF Next, RequestReview, GuildReviews, AdmitEvidence, Decide, InitializeAlias,
      RecordDecision, RecordReview, ReviewFails, DispatchCallback,
      ApplyPolicyAction, RecordCallbackResult, CallbackFails, CrashRestart, ledgers

\* What authorised a step stays.
LEMMA AuthorityKept ==
  ASSUME Inv, Grows, NEW r \in Runs, NEW s \in Steps, Authorised(r, s)
  PROVE  Authorised(r, s)' /\ plan'[r] = plan[r]
<1>1. plan'[r] = plan[r] /\ review'[r] = "proceed"
  BY PlanFacts DEF Inv, ReviewsSound, Authorised, Grows
<1>2. verdict[r][s] = "approve" => verdict'[r][s] = "approve"
  BY DEF Grows
<1> QED
  BY <1>1, <1>2 DEF Authorised, Approved


\* The lock keeps the results as the callback found them.
LEMMA CallbackNext ==
  ASSUME Inv, Next, Grows, TypeOK'
  PROVE  CallbackSound'
<1>0. TypeOK /\ CallbackSound /\ alias \in Seq(Events)
  BY DEF Inv, TypeOK
<1>1. ASSUME callback' = NoCallback
      PROVE  CallbackSound'
  BY <1>1 DEF CallbackSound, NoCallback
<1>2. ASSUME UNCHANGED <<callback, results>>
      PROVE  CallbackSound'
  <2>1. CASE callback.step = "idle"
    BY <1>2, <2>1 DEF CallbackSound
  <2>2. CASE callback.step # "idle"
    <3>1. callback.run \in Runs /\ callback.index \in Steps
      BY <1>0, <2>2 DEF TypeOK
    <3>2. Authorised(callback.run, callback.index)'
      BY <1>0, <1>2, <2>2, <3>1, AuthorityKept DEF CallbackSound
    <3>3. Moved(callback.run) => Moved(callback.run)'
      BY <1>0, <1>2, AliasKept
    <3> QED
      BY <1>0, <1>2, <3>2, <3>3 DEF CallbackSound, InOrder
  <2> QED
    BY <2>1, <2>2
<1>3. ASSUME NEW r \in Runs, NEW s \in Steps, DispatchCallback(r, s)
      PROVE  CallbackSound'
  BY <1>3 DEF DispatchCallback, CallbackSound, Authorised, Approved, InOrder, Handler,
     ledgers
<1>4. CASE ApplyPolicyAction
  <2>1. CASE callback' = NoCallback
    BY <1>1, <2>1
  <2>2. CASE callback' # NoCallback
    <3>1. /\ callback.step = "apply" /\ callback.run \in Runs /\ callback.index \in Steps
          /\ callback' = [callback EXCEPT !.step = "record"]
          /\ UNCHANGED <<results, plan, review, verdict>>
      BY <1>0, <1>4, <2>2 DEF ApplyPolicyAction, TypeOK
    <3>2. /\ callback'.step = "record" /\ callback'.run = callback.run
          /\ callback'.index = callback.index
      BY <1>0, <3>1 DEF TypeOK, Callbacks
    <3>3. Moved(callback.run)'
      <4>1. CASE Moved(callback.run) /\ UNCHANGED alias
        BY <3>2, <4>1 DEF Moved, Ledger!Moved
      <4>2. CASE alias' = Append(alias, [run |-> callback.run,
                                        target |-> decision[callback.run].target])
        <5>1. Len(alias) \in Nat
          BY <1>0, LenProperties
        <5>2. /\ Len(alias) + 1 \in DOMAIN alias'
              /\ alias'[Len(alias) + 1].run = callback.run
          BY <1>0, <4>2, <5>1
        <5> QED
          BY <3>2, <5>2 DEF Moved, Ledger!Moved
      <4> QED
        BY <1>4, <2>2, <4>1, <4>2 DEF ApplyPolicyAction, AlreadyApplied
    <3> QED
      BY <1>0, <3>1, <3>2, <3>3
      DEF CallbackSound, Authorised, Approved, InOrder
  <2> QED
    BY <2>1, <2>2
<1> QED
  BY <1>1, <1>2, <1>3, <1>4
  DEF Next, RequestReview, GuildReviews, AdmitEvidence, Decide, InitializeAlias,
      RecordDecision, RecordReview, ReviewFails, SubmitApprovalDecision,
      RecordCallbackResult, CallbackFails, CrashRestart, ledgers

\* A result extends the prefix by the step that was authorised.
LEMMA ResultsNext ==
  ASSUME Inv, Next, Grows, TypeOK'
  PROVE  ResultsSound' /\ FinalStepApplied' /\ ResultsArePrefix'
<1>0. /\ TypeOK /\ CallbackSound /\ ResultsSound /\ FinalStepApplied /\ ResultsArePrefix
      /\ alias \in Seq(Events)
  BY DEF Inv, TypeOK
<1>1. ASSUME NEW r \in Runs, NEW s \in results[r]
      PROVE  Authorised(r, s)' /\ (s = LastStep => Moved(r)')
  BY <1>0, <1>1, AuthorityKept, AliasKept DEF ResultsSound, FinalStepApplied, TypeOK
<1>2. ASSUME UNCHANGED results
      PROVE  ResultsSound' /\ FinalStepApplied' /\ ResultsArePrefix'
  BY <1>0, <1>1, <1>2 DEF ResultsSound, FinalStepApplied, ResultsArePrefix
<1>3. CASE RecordCallbackResult
  <2>1. PICK q \in Runs, n \in Steps : q = callback.run /\ n = callback.index
    BY <1>0, <1>3 DEF RecordCallbackResult, TypeOK
  <2>2. /\ results'[q] = results[q] \cup {n}
        /\ \A r \in Runs \ {q} : results'[r] = results[r]
    BY <1>0, <1>3, <2>1 DEF RecordCallbackResult, TypeOK
  <2>3. /\ Authorised(q, n) /\ n = Cardinality(results[q]) + 1
        /\ n = LastStep => Moved(q)
    BY <1>0, <1>3, <2>1 DEF RecordCallbackResult, CallbackSound, InOrder
  <2>4. Authorised(q, n)' /\ (n = LastStep => Moved(q)')
    BY <1>0, <2>3, AuthorityKept, AliasKept
  <2>5. Cardinality(results[q]) \in Nat /\ results[q] = 1 .. Cardinality(results[q])
    <3>1. IsFiniteSet(results[q])
      <4>1. IsFiniteSet(Steps)
        BY FS_Interval, GovernanceAssumption DEF Steps
      <4>2. results[q] \subseteq Steps
        BY <1>0, <2>1 DEF TypeOK
      <4> QED
        BY <4>1, <4>2, FS_Subset
    <3> QED
      BY <1>0, <3>1, FS_CardinalityType DEF ResultsArePrefix
  <2>6. results'[q] = 1 .. n
    BY <2>2, <2>3, <2>5
  <2>7. Cardinality(1 .. n) = n
    BY FS_Interval, <2>3, <2>5
  <2>8. ResultsArePrefix'
    BY <1>0, <2>2, <2>6, <2>7 DEF ResultsArePrefix
  <2> QED
    BY <1>1, <2>2, <2>4, <2>8 DEF ResultsSound, FinalStepApplied
<1> QED
  BY <1>2, <1>3
  DEF Next, RequestReview, GuildReviews, AdmitEvidence, Decide, InitializeAlias,
      RecordDecision, RecordReview, ReviewFails, SubmitApprovalDecision,
      DispatchCallback, ApplyPolicyAction, CallbackFails, CrashRestart, ledgers


\* What holds when a callback moves the alias: the run has not moved it yet, the
\* decision starts from the current policy, and all authority is there.
LEMMA ApplyFacts ==
  ASSUME Inv, ApplyPolicyAction, alias' # alias, NEW r, r = callback.run
  PROVE  /\ r \in Runs /\ ~Moved(r) /\ alias # <<>>
         /\ plan[r] \in Plans /\ GateAgrees(r)
         /\ Current = decision[r].from
         /\ decision[r] = [from |-> Current, target |-> Ledger!Target(plan[r])]
         /\ Current \in Ledger!Sources(plan[r])
         /\ alias' = Append(alias, [run |-> r, target |-> Ledger!Target(plan[r])])
         /\ [run |-> r, target |-> Ledger!Target(plan[r])] \in Events
         /\ review[r] = "proceed"
         /\ 1 .. (LastStep - 1) \subseteq results[r]
         /\ \A s \in plan[r].gated : verdict[r][s] = "approve"
<1>0. /\ TypeOK /\ CallbackSound /\ ReviewsSound /\ DecisionsSound /\ ResultsSound
      /\ ResultsArePrefix
  BY DEF Inv
<1>1. /\ r \in Runs /\ callback.step = "apply" /\ callback.index = LastStep
      /\ Authorised(r, LastStep) /\ InOrder(r, LastStep)
  BY <1>0 DEF ApplyPolicyAction, TypeOK, CallbackSound
<1>2. decision[r] \in Decisions /\ decision[r] # NoDecision /\ plan[r] \in Plans
  BY <1>0, <1>1 DEF TypeOK, ReviewsSound, Authorised
<1>3. ~Moved(r) /\ MayApply(r)
      /\ alias' = Append(alias, [run |-> r, target |-> decision[r].target])
  BY DEF ApplyPolicyAction, AlreadyApplied
<1>4. /\ GateAgrees(r) /\ ValidDecision(r, decision[r].from) /\ alias # <<>>
      /\ decision[r].target = Ledger!Target(plan[r])
  BY <1>0, <1>1, <1>2 DEF DecisionsSound
<1>5. decision[r] = [from |-> decision[r].from, target |-> decision[r].target]
  BY <1>2 DEF Decisions
<1>6. 1 .. (LastStep - 1) \subseteq results[r]
  <2>1. IsFiniteSet(results[r])
    BY <1>0, <1>1, FS_Interval, FS_Subset, GovernanceAssumption DEF TypeOK, Steps
  <2> QED
    BY <1>0, <1>1, <2>1, FS_CardinalityType, GovernanceAssumption
    DEF ResultsArePrefix, InOrder
<1>7. ASSUME NEW s \in plan[r].gated
      PROVE  verdict[r][s] = "approve"
  <2>1. s \in 1 .. (LastStep - 1) \/ s = LastStep
    BY <1>2, PlanFacts, GovernanceAssumption DEF Steps
  <2> QED
    BY <1>0, <1>1, <1>6, <2>1 DEF ResultsSound, Authorised, Approved
<1>8. [run |-> r, target |-> Ledger!Target(plan[r])] \in Events
  BY <1>1, <1>2, PlanFacts DEF Events
<1> QED
  BY <1>1, <1>2, <1>3, <1>4, <1>5, <1>6, <1>7, <1>8 DEF MayApply, ValidDecision, Authorised

\* The alias starts with one event that belongs to no run.
LEMMA InitializeFacts ==
  ASSUME Inv, NEW t \in Reviewers, InitializeAlias(t), alias' # alias
  PROVE  /\ alias = <<>> /\ task[t].run \in Runs /\ plan[task[t].run] \in Plans
         /\ alias' = <<[run |-> NoRun, target |-> plan[task[t].run].baseline]>>
         /\ [run |-> NoRun, target |-> plan[task[t].run].baseline] \in Events
<1>0. TypeOK /\ TaskSound(t)
  BY DEF Inv, TasksSound
<1> QED
  BY <1>0, PlanFacts DEF InitializeAlias, TypeOK, TaskSound, Events

\* Only these two actions write the alias ledger.
LEMMA AliasWriters ==
  ASSUME Next, alias' # alias
  PROVE  ApplyPolicyAction \/ \E t \in Reviewers : InitializeAlias(t)
BY DEF Next, RequestReview, GuildReviews, AdmitEvidence, Decide, RecordDecision,
       RecordReview, ReviewFails, SubmitApprovalDecision, DispatchCallback,
       RecordCallbackResult, CallbackFails, CrashRestart, ledgers

LEMMA EventsNext ==
  ASSUME Inv, Next, Grows, TypeOK'
  PROVE  EventsSound' /\ AppliedOnce' /\ MovedWithAuthority'
<1>0. /\ TypeOK /\ EventsSound /\ AppliedOnce /\ MovedWithAuthority /\ ReviewsSound
      /\ alias \in Seq(Events)
  BY DEF Inv, TypeOK
<1>1. ASSUME NEW r \in Runs, Moved(r)
      PROVE  /\ review'[r] = "proceed"
             /\ 1 .. (LastStep - 1) \subseteq results'[r]
             /\ \A s \in plan'[r].gated : verdict'[r][s] = "approve"
  <2>1. /\ review[r] = "proceed" /\ plan[r] \in Plans
        /\ 1 .. (LastStep - 1) \subseteq results[r]
        /\ \A s \in plan[r].gated : verdict[r][s] = "approve"
    BY <1>0, <1>1 DEF MovedWithAuthority, ReviewsSound
  <2>2. plan'[r] = plan[r] /\ plan[r].gated \subseteq Steps
    BY <2>1, PlanFacts DEF Grows
  <2> QED
    BY <2>1, <2>2 DEF Grows
<1>2. \A i \in DOMAIN alias : i > 1 =>
        alias[i].run \in Runs /\ decision[alias[i].run] # NoDecision
  <2>1. ASSUME NEW i \in DOMAIN alias, i > 1
        PROVE  alias[i].run \in Runs /\ decision[alias[i].run] \in Decisions
    <3>1. i \in 1 .. Len(alias) /\ i - 1 \in 1 .. Len(alias)
      BY <1>0, <2>1, LenProperties
    <3>2. alias[i] \in Events /\ alias[i - 1] \in Events
      BY <1>0, <3>1, ElementOfSeq
    <3>3. alias[i].target \in Policies /\ alias[i - 1].target \in Policies
      BY <3>2 DEF Events
    <3>4. /\ alias[i].run \in Runs
          /\ decision[alias[i].run] =
               [from |-> alias[i - 1].target, target |-> alias[i].target]
      BY <1>0, <2>1 DEF EventsSound
    <3> QED
      BY <3>3, <3>4 DEF Decisions
  <2> QED
    BY <2>1, GovernanceAssumption DEF Decisions
<1>3. CASE alias' = alias
  <2>1. EventsSound'
    BY <1>0, <1>2, <1>3 DEF EventsSound, Grows
  <2>2. AppliedOnce' /\ MovedWithAuthority'
    BY <1>0, <1>1, <1>3 DEF AppliedOnce, MovedWithAuthority, Moved, Ledger!Moved
  <2> QED
    BY <2>1, <2>2
<1>4. ASSUME NEW t \in Reviewers, InitializeAlias(t), alias' # alias
      PROVE  EventsSound' /\ AppliedOnce' /\ MovedWithAuthority'
  <2>1. Len(alias') = 1 /\ DOMAIN alias' = 1 .. 1 /\ alias'[1].run = NoRun
    <3>1. PICK e \in Events : e.run = NoRun /\ alias' = <<e>>
      BY <1>4, InitializeFacts
    <3> QED
      BY <3>1, SingletonEvents, LenProperties
  <2>2. \A r \in Runs : ~Moved(r)'
    BY <2>1, GovernanceAssumption DEF Moved, Ledger!Moved
  <2> QED
    BY <2>1, <2>2 DEF EventsSound, AppliedOnce, MovedWithAuthority
<1>5. CASE ApplyPolicyAction /\ alias' # alias
  <2> DEFINE r == callback.run
             e == [run |-> callback.run, target |-> Ledger!Target(plan[callback.run])]
             n == Len(alias)
  <2>1. /\ r \in Runs /\ ~Moved(r) /\ alias # <<>> /\ plan[r] \in Plans
        /\ decision[r] = [from |-> Current, target |-> Ledger!Target(plan[r])]
        /\ alias' = Append(alias, e) /\ e \in Events
        /\ review[r] = "proceed" /\ 1 .. (LastStep - 1) \subseteq results[r]
        /\ \A s \in plan[r].gated : verdict[r][s] = "approve"
    BY <1>5, ApplyFacts
  <2>2. /\ n \in Nat \ {0} /\ DOMAIN alias = 1 .. n /\ DOMAIN alias' = 1 .. (n + 1)
        /\ \A i \in 1 .. n : alias'[i] = alias[i]
        /\ alias'[n + 1] = e
    BY <1>0, <2>1, EmptySeq, LenProperties, AppendProperties
  <2>3. UNCHANGED <<decision, plan, review, results, verdict>>
    BY <1>5 DEF ApplyPolicyAction
  <2>4. EventsSound'
    <3>1. ASSUME NEW i \in 1 .. n
          PROVE  /\ i = 1 => alias'[i].run = NoRun
                 /\ i > 1 => /\ alias'[i].run \in Runs
                             /\ decision[alias'[i].run] =
                                  [from |-> alias'[i - 1].target, target |-> alias'[i].target]
      <4>1. i \in DOMAIN alias /\ alias'[i] = alias[i]
        BY <2>2
      <4>2. i > 1 => i - 1 \in 1 .. n /\ alias'[i - 1] = alias[i - 1]
        BY <2>2
      <4> QED
        BY <1>0, <4>1, <4>2 DEF EventsSound
    <3>2. /\ alias'[n + 1].run \in Runs
          /\ decision[alias'[n + 1].run] =
               [from |-> alias'[n].target, target |-> alias'[n + 1].target]
      <4>1. alias'[n + 1].run = r /\ alias'[n + 1].target = Ledger!Target(plan[r])
        BY <2>2
      <4>2. alias'[n].target = Current
        BY <2>2 DEF Current, Ledger!Current
      <4> QED
        BY <2>1, <4>1, <4>2
    <3> QED
      BY <2>2, <2>3, <3>1, <3>2 DEF EventsSound
  <2>5. AppliedOnce'
    <3>1. \A i \in 1 .. n : alias'[i].run # r
      BY <2>1, <2>2 DEF Moved, Ledger!Moved
    <3> QED
      BY <1>0, <2>2, <3>1 DEF AppliedOnce
  <2>6. MovedWithAuthority'
    <3>1. \A q : Moved(q)' => Moved(q) \/ q = r
      BY <2>2 DEF Moved, Ledger!Moved
    <3> QED
      BY <1>0, <2>1, <2>3, <3>1 DEF MovedWithAuthority
  <2> QED
    BY <2>4, <2>5, <2>6
<1> QED
  BY <1>3, <1>4, <1>5, AliasWriters

-----------------------------------------------------------------------------
(* The theorems.                                                           *)

LEMMA InitInv == Init => Inv
<1> SUFFICES ASSUME Init PROVE Inv
  OBVIOUS
<1>1. TypeOK
  BY NoTaskType, EmptySeq DEF Init, TypeOK, NoTask, NoCallback
<1>2. TasksSound /\ CallbackSound
  BY DEF Init, TasksSound, TaskSound, CallbackSound, NoTask, NoCallback
<1>3. ReviewsSound /\ DecisionsSound /\ AnsweredAfterMeasured
  BY DEF Init, ReviewsSound, DecisionsSound, AnsweredAfterMeasured
<1>4. ResultsSound /\ FinalStepApplied
  BY DEF Init, ResultsSound, FinalStepApplied
<1>5. ResultsArePrefix
  BY FS_EmptySet DEF Init, ResultsArePrefix
<1>6. EventsSound /\ AppliedOnce /\ MovedWithAuthority
  BY DEF Init, EventsSound, AppliedOnce, MovedWithAuthority, Moved, Ledger!Moved
<1> QED
  BY <1>1, <1>2, <1>3, <1>4, <1>5, <1>6 DEF Inv

LEMMA NextInv == Inv /\ [Next]_vars => Inv'
<1>1. ASSUME Inv, Next
      PROVE  Inv'
  <2>1. TypeOK' /\ Grows
    BY <1>1, TypeNext, GrowsNext
  <2> QED
    BY <1>1, <2>1, TasksNext, ReviewsNext, DecisionsNext, AnswersNext, CallbackNext,
       ResultsNext, EventsNext DEF Inv
<1>2. ASSUME Inv, UNCHANGED vars
      PROVE  Inv'
  <2>1. UNCHANGED <<plan, evidence, review, decision, verdict, results, alias,
                    reviewed, task, callback>>
    BY <1>2 DEF vars
  <2>2. TypeOK' /\ TasksSound' /\ ReviewsSound' /\ DecisionsSound'
    BY <1>2, <2>1 DEF Inv, TypeOK, TasksSound, TaskSound, ReviewsSound, DecisionsSound,
       GateAgrees, ValidDecision
  <2>3. AnsweredAfterMeasured' /\ ResultsArePrefix' /\ ResultsSound' /\ FinalStepApplied'
    BY <1>2, <2>1 DEF Inv, AnsweredAfterMeasured, ResultsArePrefix, ResultsSound,
       FinalStepApplied, Authorised, Approved, Moved, Ledger!Moved
  <2>4. CallbackSound' /\ EventsSound' /\ AppliedOnce' /\ MovedWithAuthority'
    BY <1>2, <2>1 DEF Inv, CallbackSound, Authorised, Approved, InOrder, EventsSound,
       AppliedOnce, MovedWithAuthority, Moved, Ledger!Moved
  <2> QED
    BY <2>2, <2>3, <2>4 DEF Inv
<1> QED
  BY <1>1, <1>2

\* The inductive invariant holds in every reachable state.
THEOREM InductiveInvariant == Spec => []Inv
BY InitInv, NextInv, PTL DEF Spec

\* Types: every reachable state is well typed.
THEOREM TypeCorrect == Spec => []TypeOK
<1>1. Inv => TypeOK
  BY DEF Inv
<1> QED
  BY <1>1, InductiveInvariant, PTL

\* The alias never moves without an executable review, the completed pipeline
\* and the human approvals of the run.
THEOREM AliasMovesWithAuthority == Spec => []MovedWithAuthority
<1>1. Inv => MovedWithAuthority
  BY DEF Inv
<1> QED
  BY <1>1, InductiveInvariant, PTL

\* Every move goes from the policy the decision was measured against to the
\* target that the gate gives.
THEOREM AliasMovesAsMeasured == Spec => []MovesAreMeasured
<1>1. ASSUME Inv
      PROVE  MovesAreMeasured
  <2>0. TypeOK /\ EventsSound /\ DecisionsSound /\ alias \in Seq(Events)
    BY <1>1 DEF Inv, TypeOK
  <2>1. SUFFICES ASSUME NEW i \in 2 .. Len(alias), NEW r, r = alias[i].run
                 PROVE  /\ decision[r] = [from |-> alias[i - 1].target,
                                          target |-> alias[i].target]
                        /\ plan[r].action = Ledger!GateAction(plan[r])
                        /\ plan[r].promotable =>
                             /\ alias[i - 1].target = plan[r].baseline
                             /\ alias[i].target = plan[r].candidate
                        /\ ~plan[r].promotable => alias[i].target = plan[r].baseline
    BY DEF MovesAreMeasured
  <2>2. i \in DOMAIN alias /\ i - 1 \in 1 .. Len(alias) /\ i > 1
    BY <2>0, LenProperties
  <2>3. r \in Runs /\ decision[r] = [from |-> alias[i - 1].target, target |-> alias[i].target]
    BY <2>0, <2>1, <2>2 DEF EventsSound
  <2>4. alias[i] \in Events /\ alias[i - 1] \in Events
    BY <2>0, <2>2, ElementOfSeq
  <2>5. decision[r] # NoDecision
    BY <2>3, <2>4, GovernanceAssumption DEF Events
  <2>6. /\ plan[r] \in Plans /\ GateAgrees(r) /\ ValidDecision(r, decision[r].from)
        /\ decision[r].target = Ledger!Target(plan[r])
    BY <2>0, <2>3, <2>5 DEF DecisionsSound
  <2> QED
    BY <2>3, <2>6, PlanFacts
    DEF GateAgrees, ValidDecision, Ledger!GateAction, Ledger!Target, Ledger!Sources
<1> QED
  BY <1>1, InductiveInvariant, PTL

\* No crash, retry or duplicate applies a decision twice.
THEOREM DecisionsAppliedOnce == Spec => []AppliedOnce
<1>1. Inv => AppliedOnce
  BY DEF Inv
<1> QED
  BY <1>1, InductiveInvariant, PTL

\* The final callback result never claims an alias event that is not there, and
\* the results are a prefix of the fixed pipeline.
THEOREM CallbackResultsTrue == Spec => [](FinalStepApplied /\ ResultsArePrefix)
<1>1. Inv => FinalStepApplied /\ ResultsArePrefix
  BY DEF Inv
<1> QED
  BY <1>1, InductiveInvariant, PTL

\* Humans answer only measured and reviewed actions.
THEOREM HumansAnswerMeasured == Spec => []AnsweredAfterMeasured
<1>1. Inv => AnsweredAfterMeasured
  BY DEF Inv
<1> QED
  BY <1>1, InductiveInvariant, PTL

\* Nothing recorded is ever changed or removed.
THEOREM LedgersNeverRewritten == Spec => LedgersAreFinal
<1>1. ASSUME Inv, Next
      PROVE  LedgersExtend
  <2>1. Grows /\ alias \in Seq(Events)
    BY <1>1, GrowsNext DEF Inv, TypeOK
  <2>2. /\ alias' \in Seq(Events) /\ Len(alias) \in Nat
        /\ Len(alias') \in {Len(alias), Len(alias) + 1}
        /\ DOMAIN alias = 1 .. Len(alias)
        /\ \A i \in DOMAIN alias : alias'[i] = alias[i]
    BY <2>1, AliasKept
  <2>3. Len(alias) \in 0 .. Len(alias')
    BY <2>2
  <2>4. SubSeq(alias', 1, Len(alias)) = alias
    BY <2>1, <2>2
  <2> QED
    BY <2>1, <2>3, <2>4 DEF Grows, LedgersExtend
<1>2. Inv /\ [Next]_vars => [LedgersExtend]_ledgers
  BY <1>1 DEF vars, ledgers
<1> QED
  BY <1>2, InductiveInvariant, PTL DEF Spec, LedgersAreFinal

\* The governed workflow implements the abstract alias ledger.
THEOREM ImplementsAliasLedger == Spec => AliasLedger
<1>1. Init => Ledger!Init
  BY DEF Init, Ledger!Init
<1>2. Inv /\ [Next]_vars => [Ledger!Next]_alias
  <2>1. ASSUME Inv, Next, alias' # alias
        PROVE  Ledger!Next
    <3>1. ASSUME NEW t \in Reviewers, InitializeAlias(t)
          PROVE  Ledger!Next
      BY <2>1, <3>1, InitializeFacts DEF Ledger!Next, Ledger!Initialize
    <3>2. CASE ApplyPolicyAction
      <4>1. PICK r \in Runs :
              /\ ~Moved(r) /\ alias # <<>> /\ plan[r] \in Plans /\ GateAgrees(r)
              /\ Current \in Ledger!Sources(plan[r])
              /\ alias' = Append(alias, [run |-> r, target |-> Ledger!Target(plan[r])])
        BY <2>1, <3>2, ApplyFacts
      <4>2. Ledger!Move(r, plan[r])
        BY <4>1 DEF Ledger!Move, GateAgrees, Moved, Current
      <4> QED
        BY <4>1, <4>2 DEF Ledger!Next
    <3> QED
      BY <2>1, <3>1, <3>2, AliasWriters
  <2> QED
    BY <2>1 DEF vars
<1> QED
  BY <1>1, <1>2, InductiveInvariant, PTL DEF Spec, AliasLedger, Ledger!Spec

\* The alias never moves ahead of its authority, nor a human ahead of the measure.
THEOREM AuthorityIsInOrder == Spec => []AuthorityInOrder
BY AliasMovesWithAuthority, HumansAnswerMeasured, PTL DEF AuthorityInOrder
=============================================================================
