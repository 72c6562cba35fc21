---------------------- MODULE PipelineExecution_proofs ----------------------
(***************************************************************************)
(* Proofs about PipelineExecution for every number of steps, callers, roles  *)
(* and gates: runs are backed by the records, overlapping calls never take   *)
(* one back, handlers run once, and the records are those of FixedPipeline.  *)
(* The records only grow, so that what a call in flight or a callback has    *)
(* checked stays true until it is used (IInv).                               *)
(***************************************************************************)
EXTENDS PipelineExecution, SequenceTheorems, TLAPS

USE PipelineAssumption

-----------------------------------------------------------------------------
(* The inductive invariant.                                                *)

\* Steps are done as far as the records say.
Done(steps) ==
  /\ Len(steps) <= Len(results)
  /\ \A s \in 1 .. Len(steps) : steps[s] = results[s]

\* Nothing is on record beyond an open gate or without an executable review.
ResultsSound ==
  /\ results # <<>> => Executable(review)
  /\ \A s \in 1 .. Len(results) : Approved(s)

\* The callback at work passed every check, and the checks still hold.
CallbackSound ==
  callback # NoCallback =>
    /\ callback.step = Len(results) + 1
    /\ Executable(review)
    /\ Approved(callback.step)

\* A call waits for a step that follows recorded ones.
CallersSound ==
  \A c \in Callers : caller[c].step \in {"use", "send"} =>
    /\ Len(caller[c].steps) + 1 \in Steps
    /\ Done(caller[c].steps)

\* The step of a result, or of the callback at work, accounts for one handling;
\* any other is a fault's.
Accounted(s) == s <= Len(results) \/ callback.step = s
Handling ==
  \A s \in Steps : /\ handled[s] \in Nat
                   /\ Accounted(s) => handled[s] \in 1 .. 1 + faults
                   /\ ~Accounted(s) => handled[s] <= faults

\* Only whole runs are cached.
CachedWhole == runCache # NoRun => Len(runCache.steps) = LastStep

IInv == /\ TypeOK /\ ResultsSound /\ CallbackSound /\ CallersSound /\ Handling
        /\ RunsBacked /\ RunNeverRegresses /\ CachedWhole

-----------------------------------------------------------------------------
(* Types.                                                                  *)

LEMMA IdleType == Idle \in CallerType
<1>1. <<>> \in [{} -> Plan!Recommendations]
  OBVIOUS
<1>2. <<>> \in Given
  BY <1>1 DEF Given
<1>3. <<>> \in Seq(Outputs)
  OBVIOUS
<1>4. QED
  BY <1>2, <1>3 DEF Idle, CallerType

LEMMA RunsType ==
  ASSUME NEW state \in Outcomes, NEW steps \in Seq(Outputs)
  PROVE  Ends(state, steps) \in RunType
  BY DEF Ends, RunType

\* What a call keeps is a run, and the call is over.
LEMMA KeepType ==
  ASSUME TypeOK, NEW c \in Callers, NEW r \in RunType, Keep(c, r)
  PROVE  /\ run' \in RunType
         /\ snapshots' \in Seq(RunType)
         /\ caller' \in [Callers -> CallerType]
         /\ \A d \in Callers : caller'[d] = IF d = c THEN Idle ELSE caller[d]
<1>1. run' = r /\ snapshots' \in {snapshots, Append(snapshots, r)}
  BY DEF Keep
<1>2. snapshots \in Seq(RunType) /\ Append(snapshots, r) \in Seq(RunType)
  BY DEF TypeOK
<1>3. caller' = [caller EXCEPT ![c] = Idle] /\ caller \in [Callers -> CallerType]
  BY DEF Keep, TypeOK
<1>4. QED
  BY <1>1, <1>2, <1>3, IdleType

-----------------------------------------------------------------------------
(* Records grow.                                                           *)

\* What the records say of a run stays true.
LEMMA BackedStays ==
  ASSUME results \in Seq(Outputs), results' \in Seq(Outputs),
         Len(results) <= Len(results'),
         \A s \in 1 .. Len(results) : results'[s] = results[s],
         \A s \in Gated : verdict[s] # "none" => verdict'[s] = verdict[s],
         NEW r \in RunType, Backed(r)
  PROVE  Backed(r)'
<1>1. \A s : Approved(s) => Approved(s)'
  BY DEF Approved, Plan!Approved
<1>2. \A s \in DOMAIN r.steps : s \in 1 .. Len(results)
  BY DEF Backed, RunType
<1>3. Len(r.steps) \in Nat
  BY DEF RunType
<1>4. /\ Len(r.steps) <= Len(results')
      /\ \A s \in DOMAIN r.steps : r.steps[s] = results'[s] /\ Approved(s)'
  BY <1>1, <1>2, <1>3 DEF Backed
<1>5. r.state = "blocked" /\ r.state # "awaiting_human_approval" =>
        Len(r.steps) + 1 \in Gated /\ verdict'[Len(r.steps) + 1] = "reject"
  BY DEF Backed
<1>6. QED
  BY <1>4, <1>5 DEF Backed

\* A run that is kept at the end of the records takes nothing back.
LEMMA KeepSound ==
  ASSUME IInv, NEW c \in Callers, NEW r \in RunType, Keep(c, r),
         Backed(r), Len(r.steps) >= Len(results),
         UNCHANGED <<results, verdict>>
  PROVE  /\ Backed(run)'
         /\ \A n \in DOMAIN snapshots' : Backed(snapshots[n])'
         /\ RunNeverRegresses'
<1>1. run' = r /\ r # NoRun
  BY DEF Keep
<1>2. Backed(run)'
  BY <1>1 DEF Backed, Approved, Plan!Approved
<1>3. snapshots \in Seq(RunType) /\ NoRun \notin RunType
  BY DEF IInv, TypeOK
<1>4. \A n \in DOMAIN snapshots : Progress(snapshots[n]) <= Len(r.steps)
  BY <1>3 DEF IInv, TypeOK, RunsBacked, Backed, Progress, RunType
<1>5. CASE snapshots' = snapshots
  <2>1. \A n \in DOMAIN snapshots' : Backed(snapshots[n])'
    BY <1>5 DEF IInv, RunsBacked, Backed, Approved, Plan!Approved
  <2>2. RunNeverRegresses'
    BY <1>1, <1>3, <1>4, <1>5 DEF IInv, RunNeverRegresses, Progress
  <2>3. QED
    BY <1>2, <2>1, <2>2
<1>6. CASE snapshots' = Append(snapshots, r)
  <2>1. /\ DOMAIN snapshots' = 1 .. Len(snapshots) + 1
        /\ Len(snapshots') = Len(snapshots) + 1
        /\ snapshots'[Len(snapshots) + 1] = r
        /\ \A n \in 1 .. Len(snapshots) : snapshots'[n] = snapshots[n]
        /\ DOMAIN snapshots = 1 .. Len(snapshots)
        /\ Len(snapshots) \in Nat
    BY <1>3, <1>6
  <2>2. \A n \in DOMAIN snapshots' : n = Len(snapshots) + 1 \/ n \in DOMAIN snapshots
    BY <2>1
  <2>3. \A n \in DOMAIN snapshots' : Backed(snapshots[n])'
    BY <1>1, <2>1, <2>2 DEF IInv, RunsBacked, Backed, Approved, Plan!Approved
  <2>4. Len(r.steps) \in Nat
    BY DEF RunType
  <2>5. \A m, n \in DOMAIN snapshots' : m <= n =>
          Progress(snapshots'[m]) <= Progress(snapshots'[n])
    <3>1. Progress(r) = Len(r.steps)
      BY <1>1 DEF Progress
    <3>2. \A m, n \in DOMAIN snapshots : m <= n =>
            Progress(snapshots[m]) <= Progress(snapshots[n])
      BY DEF IInv, RunNeverRegresses
    <3>3. QED
      BY <2>1, <2>2, <2>4, <3>1, <3>2, <1>4
  <2>6. Progress(snapshots'[Len(snapshots')]) <= Progress(run')
    BY <1>1, <2>1, <2>4 DEF Progress
  <2>7. QED
    BY <1>2, <2>3, <2>5, <2>6 DEF RunNeverRegresses
<1>7. QED
  BY <1>5, <1>6 DEF Keep

-----------------------------------------------------------------------------
(* The executor.                                                           *)

\* Done steps are a run's backing.
LEMMA DoneBacked ==
  ASSUME IInv, NEW state \in Outcomes, NEW steps \in Seq(Outputs), Done(steps),
         CASE state = "awaiting_human_approval" -> Len(steps) + 1 \in Gated
           [] state = "blocked" -> /\ Len(steps) + 1 \in Gated
                                   /\ verdict[Len(steps) + 1] = "reject"
           [] OTHER -> Len(steps) = LastStep
  PROVE  Backed(Ends(state, steps))
<1>1. Len(steps) \in Nat /\ DOMAIN steps = 1 .. Len(steps)
  OBVIOUS
<1>2. Len(results) \in Nat
  BY DEF IInv, TypeOK
<1>3. \A s \in DOMAIN steps : steps[s] = results[s] /\ Approved(s)
  BY <1>1, <1>2 DEF Done, IInv, ResultsSound
<1>4. QED
  BY <1>3 DEF Backed, Ends, Done

\* Wherever the executor stops, no result lies beyond.
LEMMA AdvanceStops ==
  ASSUME IInv, NEW c \in Callers, NEW steps \in Seq(Outputs), Done(steps),
         Advance(c, steps)
  PROVE  \/ \E state \in Outcomes :
              /\ Keep(c, Ends(state, steps))
              /\ Backed(Ends(state, steps))
              /\ Len(steps) >= Len(results)
              /\ \/ UNCHANGED runCache
                 \/ /\ state = "completed"
                    /\ runCache' = Ends(state, steps)
         \/ /\ caller' = [caller EXCEPT ![c] = [Idle EXCEPT !.step = "use", !.steps = steps]]
            /\ Len(steps) + 1 \in Steps
            /\ UNCHANGED <<snapshots, run, runCache>>
<1>1. /\ Len(steps) \in Nat /\ Len(results) \in Nat
      /\ Len(steps) <= Len(results) /\ Len(results) <= LastStep
  BY DEF IInv, TypeOK, Done
<1> DEFINE s == Len(steps) + 1
<1>2. s \in Gated /\ verdict[s] # "approve" => Len(steps) >= Len(results)
  <2>1. ASSUME s \in Gated, verdict[s] # "approve", s <= Len(results) PROVE FALSE
    <3>1. s \in 1 .. Len(results)
      BY <1>1, <2>1
    <3>2. Approved(s)
      BY <3>1 DEF IInv, ResultsSound
    <3>3. QED
      BY <2>1, <3>2 DEF Approved, Plan!Approved
  <2>2. QED
    BY <1>1, <2>1
<1>3. CASE /\ s > LastStep
           /\ Keep(c, Ends("completed", steps))
           /\ runCache' = IF runCache = NoRun THEN Ends("completed", steps) ELSE runCache
  <2>1. Len(steps) = LastStep
    BY <1>1, <1>3
  <2>2. Backed(Ends("completed", steps))
    BY <2>1, DoneBacked DEF Outcomes
  <2>3. QED
    BY <1>1, <1>3, <2>1, <2>2 DEF Outcomes
<1>4. CASE /\ s \in Gated
           /\ verdict[s] = "none"
           /\ Keep(c, Ends("awaiting_human_approval", steps))
           /\ UNCHANGED runCache
  <2>1. Backed(Ends("awaiting_human_approval", steps))
    BY <1>4, DoneBacked DEF Outcomes
  <2>2. QED
    BY <1>2, <1>4, <2>1 DEF Outcomes
<1>5. CASE /\ s \in Gated
           /\ verdict[s] = "reject"
           /\ Keep(c, Ends("blocked", steps))
           /\ UNCHANGED runCache
  <2>1. Backed(Ends("blocked", steps))
    BY <1>5, DoneBacked DEF Outcomes
  <2>2. QED
    BY <1>2, <1>5, <2>1 DEF Outcomes
<1>6. QED
  BY <1>3, <1>4, <1>5 DEF Advance

\* What holds of the runs, the cache and the calls after the executor went on.
LEMMA AdvanceSound ==
  ASSUME IInv, NEW c \in Callers, NEW steps \in Seq(Outputs), Done(steps),
         Advance(c, steps)
  PROVE  /\ run' \in RunType \cup {NoRun}
         /\ snapshots' \in Seq(RunType)
         /\ runCache' \in RunType \cup {NoRun}
         /\ caller' \in [Callers -> CallerType]
         /\ CallersSound'
         /\ RunsBacked'
         /\ RunNeverRegresses'
         /\ CachedWhole'
<1>1. /\ snapshots \in Seq(RunType) /\ caller \in [Callers -> CallerType]
      /\ run \in RunType \cup {NoRun} /\ runCache \in RunType \cup {NoRun}
  BY DEF IInv, TypeOK
<1>2. UNCHANGED <<results, verdict>>
  BY DEF Advance
<1>3. \A r : Backed(r) => Backed(r)'
  BY <1>2 DEF Backed, Approved, Plan!Approved
<1>4. CASE \E state \in Outcomes :
             /\ Keep(c, Ends(state, steps))
             /\ Backed(Ends(state, steps))
             /\ Len(steps) >= Len(results)
             /\ \/ UNCHANGED runCache
                \/ /\ state = "completed"
                   /\ runCache' = Ends(state, steps)
  <2>1. PICK state \in Outcomes :
             /\ Keep(c, Ends(state, steps))
             /\ Backed(Ends(state, steps))
             /\ Len(steps) >= Len(results)
             /\ \/ UNCHANGED runCache
                \/ state = "completed" /\ runCache' = Ends(state, steps)
    BY <1>4
  <2> DEFINE r == Ends(state, steps)
  <2>2. r \in RunType /\ r.steps = steps
    BY RunsType DEF Ends
  <2> HIDE DEF r
  <2>3. /\ run' \in RunType
        /\ snapshots' \in Seq(RunType)
        /\ caller' \in [Callers -> CallerType]
        /\ \A d \in Callers : caller'[d] = IF d = c THEN Idle ELSE caller[d]
    BY <2>1, <2>2, KeepType DEF IInv, r
  <2>4. /\ Backed(run)'
        /\ \A n \in DOMAIN snapshots' : Backed(snapshots[n])'
        /\ RunNeverRegresses'
    BY <1>2, <2>1, <2>2, KeepSound DEF r
  <2>5. runCache' \in RunType \cup {NoRun} /\ (runCache' # NoRun => Backed(runCache)')
    BY <1>1, <1>2, <2>1, <2>2 DEF r, IInv, RunsBacked, Backed, Approved, Plan!Approved
  <2>6. CallersSound'
    BY <1>2, <2>3 DEF IInv, CallersSound, Done, Idle
  <2>7. CachedWhole'
    <3>1. state = "completed" => Len(steps) = LastStep
      BY <2>1 DEF Ends, Backed
    <3>2. QED
      BY <2>1, <2>2, <3>1 DEF r, IInv, CachedWhole
  <2>8. QED
    BY <2>3, <2>4, <2>5, <2>6, <2>7 DEF RunsBacked
<1>5. CASE /\ caller' = [caller EXCEPT ![c] = [Idle EXCEPT !.step = "use", !.steps = steps]]
           /\ Len(steps) + 1 \in Steps
           /\ UNCHANGED <<snapshots, run, runCache>>
  <2> DEFINE w == [Idle EXCEPT !.step = "use", !.steps = steps]
  <2>1. w \in CallerType /\ w.steps = steps
    BY IdleType DEF CallerType, Idle
  <2> HIDE DEF w
  <2>2. /\ caller' \in [Callers -> CallerType]
        /\ \A d \in Callers : caller'[d] = IF d = c THEN w ELSE caller[d]
    BY <1>1, <1>5, <2>1 DEF w
  <2>3. CallersSound'
    BY <1>2, <1>5, <2>1, <2>2 DEF IInv, CallersSound, Done
  <2>4. RunsBacked' /\ RunNeverRegresses'
    BY <1>2, <1>5 DEF IInv, RunsBacked, RunNeverRegresses, Backed, Approved, Plan!Approved
  <2>5. CachedWhole'
    BY <1>5 DEF IInv, CachedWhole
  <2>6. QED
    BY <1>1, <1>5, <2>2, <2>3, <2>4, <2>5
<1>6. QED
  BY <1>4, <1>5, AdvanceStops

-----------------------------------------------------------------------------
(* The invariant is inductive.                                             *)

LEMMA InvInit == Init => IInv
<1> SUFFICES ASSUME Init PROVE IInv
  OBVIOUS
<1>1. TypeOK
  <2>1. caller \in [Callers -> CallerType]
    BY IdleType DEF Init
  <2>2. results = <<>> /\ snapshots = <<>> /\ Len(results) = 0
    BY DEF Init, Plan!Init
  <2>3. handled \in [Steps -> 0 .. 1 + MaxFaults]
    BY DEF Init
  <2>4. QED
    BY <2>1, <2>2, <2>3 DEF Init, Plan!Init, TypeOK
<1>2. results = <<>> /\ Len(results) = 0 /\ callback = NoCallback
  BY DEF Init, Plan!Init
<1>3. ResultsSound /\ CallbackSound
  BY <1>2 DEF ResultsSound, CallbackSound
<1>4. CallersSound
  BY DEF Init, CallersSound, Idle
<1>5. Handling
  BY <1>2 DEF Init, Handling, Accounted, NoCallback, Steps
<1>6. RunsBacked /\ RunNeverRegresses /\ CachedWhole
  BY DEF Init, RunsBacked, RunNeverRegresses, CachedWhole
<1>7. QED
  BY <1>1, <1>3, <1>4, <1>5, <1>6 DEF IInv

\* A call that goes on without the executor, or ends, waits for no other step.
LEMMA QuietCalls ==
  ASSUME IInv, UNCHANGED results,
         \A d \in Callers : caller'[d].step \in {"use", "send"} =>
           caller[d].step \in {"use", "send"} /\ caller'[d].steps = caller[d].steps
  PROVE  CallersSound'
  BY DEF IInv, CallersSound, Done

\* The runs are as sound as the records they are about.
LEMMA QuietRuns ==
  ASSUME IInv, UNCHANGED <<results, verdict, run, runCache, snapshots>>
  PROVE  RunsBacked' /\ RunNeverRegresses' /\ CachedWhole'
  BY DEF IInv, CachedWhole, RunsBacked, RunNeverRegresses, Backed, Approved, Plan!Approved

\* The first review is the only one.
LEMMA QuietRecords ==
  ASSUME IInv, UNCHANGED <<results, verdict, callback, handled, faults>>,
         review' = review \/ review = NoReview
  PROVE  ResultsSound' /\ CallbackSound' /\ Handling'
<1>1. Executable(review) => review' = review
  BY DEF Executable, Plan!Executable
<1>2. ResultsSound'
  BY <1>1 DEF IInv, ResultsSound, Executable, Plan!Executable, Approved, Plan!Approved
<1>3. CallbackSound'
  BY <1>1 DEF IInv, CallbackSound, Executable, Plan!Executable, Approved, Plan!Approved
<1>4. Handling'
  BY DEF IInv, Handling, Accounted
<1>5. QED
  BY <1>2, <1>3, <1>4

\* A review is recorded once, and of a set that all specialists gave.
LEMMA RecordReviewSound ==
  ASSUME IInv, NEW c \in Callers, NEW set \in Plan!ReviewSets, RecordReview(c, set)
  PROVE  /\ review' \in Plan!ReviewSets \cup {NoReview}
         /\ review' = review \/ review = NoReview
         /\ caller' \in [Callers -> CallerType]
         /\ CallersSound'
         /\ UNCHANGED <<verdict, results, snapshots>>
<1>1. caller \in [Callers -> CallerType] /\ review \in Plan!ReviewSets \cup {NoReview}
  BY DEF IInv, TypeOK
<1>2. /\ caller' \in [Callers -> CallerType]
      /\ \A d \in Callers : caller'[d] = IF d = c THEN Idle ELSE caller[d]
  BY <1>1, IdleType DEF RecordReview
<1>3. CallersSound'
  BY <1>2, QuietCalls DEF RecordReview, Idle
<1>4. QED
  BY <1>1, <1>2, <1>3 DEF RecordReview

LEMMA InvReviews ==
  ASSUME IInv, NEW c \in Callers,
         \/ AskReview(c) \/ GuildFails(c)
         \/ \E r \in Roles, x \in Plan!Recommendations : RoleReviews(c, r, x)
  PROVE  IInv'
<1>1. /\ TypeOK /\ caller \in [Callers -> CallerType]
      /\ guildCache \in Plan!ReviewSets \cup {NoReview}
  BY DEF IInv, TypeOK
<1>2. CASE AskReview(c)
  <2> DEFINE w == [Idle EXCEPT !.step = "role"]
  <2>1. w \in CallerType /\ w.step = "role"
    BY IdleType DEF CallerType, Idle
  <2> HIDE DEF w
  <2>2. /\ caller' \in [Callers -> CallerType]
        /\ \A d \in Callers : caller'[d] = IF d = c THEN w ELSE caller[d]
    BY <1>1, <1>2, <2>1 DEF AskReview, w
  <2>3. CallersSound'
    BY <1>2, <2>1, <2>2, QuietCalls DEF AskReview, durable
  <2>4. calls' \in 0 .. MaxCalls
    BY <1>1, <1>2 DEF AskReview, TypeOK
  <2>5. TypeOK'
    BY <1>1, <1>2, <2>2, <2>4 DEF AskReview, TypeOK, durable
  <2>6. QED
    BY <1>2, <2>3, <2>5, QuietRuns, QuietRecords DEF AskReview, durable, IInv
<1>3. CASE GuildFails(c)
  <2>1. CASE guildCache # NoReview
    <3>1. RecordReview(c, guildCache) /\ guildCache \in Plan!ReviewSets
      BY <1>1, <1>3, <2>1 DEF GuildFails
    <3>2. TypeOK' /\ CallersSound'
      BY <1>1, <1>3, <3>1, RecordReviewSound DEF GuildFails, TypeOK
    <3>3. QED
      BY <1>3, <3>1, <3>2, RecordReviewSound, QuietRuns, QuietRecords DEF GuildFails, IInv
  <2>2. CASE guildCache = NoReview
    <3>1. /\ caller' \in [Callers -> CallerType]
          /\ \A d \in Callers : caller'[d] = IF d = c THEN Idle ELSE caller[d]
      BY <1>1, <1>3, <2>2, IdleType DEF GuildFails
    <3>2. CallersSound'
      BY <1>3, <2>2, <3>1, QuietCalls DEF GuildFails, durable, Idle
    <3>3. TypeOK'
      BY <1>1, <1>3, <2>2, <3>1 DEF GuildFails, TypeOK, durable
    <3>4. QED
      BY <1>3, <2>2, <3>2, <3>3, QuietRuns, QuietRecords DEF GuildFails, durable, IInv
  <2>3. QED
    BY <2>1, <2>2
<1>4. ASSUME NEW r \in Roles, NEW x \in Plan!Recommendations, RoleReviews(c, r, x)
      PROVE  IInv'
  <2> DEFINE given == [y \in DOMAIN caller[c].given \cup {r} |->
                         IF y = r THEN x ELSE caller[c].given[y]]
  <2>1. /\ given \in Given
        /\ DOMAIN given = Roles => given \in Plan!ReviewSets
    <3>0. caller[c].given \in Given
      BY <1>1 DEF CallerType
    <3>1. PICK done \in SUBSET Roles : caller[c].given \in [done -> Plan!Recommendations]
      BY <3>0 DEF Given
    <3>2. given \in [done \cup {r} -> Plan!Recommendations]
      BY <1>4, <3>1
    <3>3. QED
      BY <3>2 DEF Given, Plan!ReviewSets
  <2>2. CASE DOMAIN given = Roles
    <3>1. /\ RecordReview(c, given)
          /\ guildCache' = IF guildCache = NoReview THEN given ELSE guildCache
          /\ UNCHANGED <<run, runCache, tasks, callback, handled, calls, faults>>
      BY <1>4, <2>2 DEF RoleReviews
    <3> HIDE DEF given
    <3>2. TypeOK' /\ CallersSound'
      BY <1>1, <2>1, <2>2, <3>1, RecordReviewSound DEF TypeOK
    <3>3. QED
      BY <2>1, <2>2, <3>1, <3>2, RecordReviewSound, QuietRuns, QuietRecords DEF IInv
  <2>3. CASE DOMAIN given # Roles
    <3>1. /\ caller' = [caller EXCEPT ![c].given = given]
          /\ UNCHANGED <<durable, guildCache, run, runCache, tasks, callback, handled,
                         calls, faults>>
      BY <1>4, <2>3 DEF RoleReviews
    <3> HIDE DEF given
    <3>2. /\ caller' \in [Callers -> CallerType]
          /\ \A d \in Callers : /\ caller'[d].step = caller[d].step
                                /\ caller'[d].steps = caller[d].steps
      BY <1>1, <2>1, <3>1 DEF CallerType
    <3>3. CallersSound'
      BY <3>1, <3>2, QuietCalls DEF durable
    <3>4. TypeOK'
      BY <1>1, <3>1, <3>2 DEF TypeOK, durable
    <3>5. QED
      BY <3>1, <3>3, <3>4, QuietRuns, QuietRecords DEF durable, IInv
  <2>4. QED
    BY <2>2, <2>3
<1>5. QED
  BY <1>2, <1>3, <1>4

\* A decision is made once, and so opens or closes a gate for good.
LEMMA InvDecide ==
  ASSUME IInv, NEW s \in Gated, NEW v \in {"approve", "reject"}, Decide(s, v)
  PROVE  IInv'
<1>1. /\ TypeOK /\ results \in Seq(Outputs) /\ verdict \in [Gated -> {"none", "approve", "reject"}]
      /\ verdict[s] = "none"
      /\ verdict' = [verdict EXCEPT ![s] = v]
      /\ UNCHANGED <<review, results, snapshots, run, guildCache, runCache, caller,
                     tasks, callback, handled, calls, faults>>
  BY DEF IInv, TypeOK, Decide
<1>2. /\ verdict' \in [Gated -> {"none", "approve", "reject"}]
      /\ \A t \in Gated : verdict[t] # "none" => verdict'[t] = verdict[t]
  BY <1>1
<1>3. TypeOK'
  BY <1>1, <1>2 DEF TypeOK
<1>4. \A t : Approved(t) => Approved(t)'
  BY <1>2 DEF Approved, Plan!Approved
<1>5. ResultsSound' /\ CallbackSound' /\ CallersSound' /\ Handling'
  BY <1>1, <1>4 DEF IInv, ResultsSound, CallbackSound, CallersSound, Done, Handling,
                    Accounted, Executable, Plan!Executable
<1>6. \A r \in RunType : Backed(r) => Backed(r)'
  BY <1>1, <1>2, BackedStays
<1>7. RunsBacked'
  BY <1>1, <1>6 DEF IInv, TypeOK, RunsBacked
<1>8. RunNeverRegresses' /\ CachedWhole'
  BY <1>1 DEF IInv, RunNeverRegresses, Progress, CachedWhole
<1>9. QED
  BY <1>3, <1>5, <1>7, <1>8 DEF IInv

\* A call is made, resumed or answered, and the executor goes on.
LEMMA InvAdvance ==
  ASSUME IInv, NEW c \in Callers, NEW steps \in Seq(Outputs), Done(steps),
         Advance(c, steps), UNCHANGED tasks, calls' \in 0 .. MaxCalls
  PROVE  IInv'
<1>1. TypeOK'
  BY AdvanceSound DEF IInv, TypeOK, Advance
<1>2. ResultsSound' /\ CallbackSound' /\ Handling'
  BY QuietRecords DEF Advance
<1>3. QED
  BY <1>1, <1>2, AdvanceSound DEF IInv

LEMMA InvCalls ==
  ASSUME IInv, NEW c \in Callers,
         Execute(c) \/ Resume(c) \/ Send(c) \/ Answered(c) \/ RocketRideFails(c)
  PROVE  IInv'
<1>1. /\ TypeOK /\ caller \in [Callers -> CallerType] /\ results \in Seq(Outputs)
      /\ runCache \in RunType \cup {NoRun} /\ run \in RunType \cup {NoRun}
      /\ caller[c].steps \in Seq(Outputs)
  BY DEF IInv, TypeOK, CallerType
<1>2. ASSUME Execute(c) \/ Resume(c) PROVE calls' \in 0 .. MaxCalls
  BY <1>1, <1>2 DEF Execute, Resume, TypeOK
<1>3. CASE Execute(c)
  <2>1. <<>> \in Seq(Outputs) /\ Len(<<>>) = 0
    OBVIOUS
  <2>2. Done(<<>>)
    BY <1>1, <2>1 DEF Done
  <2>3. QED
    BY <1>2, <1>3, <2>1, <2>2, InvAdvance DEF Execute
<1>4. CASE Resume(c)
  <2>1. run \in RunType /\ Backed(run)
    BY <1>1, <1>4 DEF Resume, IInv, RunsBacked
  <2>2. run.steps \in Seq(Outputs) /\ Done(run.steps)
    BY <2>1 DEF Backed, Done, RunType
  <2>3. QED
    BY <1>2, <1>4, <2>2, InvAdvance DEF Resume
<1>5. CASE Send(c)
  <2>1. Len(caller[c].steps) + 1 \in Steps
    BY <1>5 DEF Send, IInv, CallersSound
  <2>2. /\ caller' \in [Callers -> CallerType]
        /\ \A d \in Callers : /\ caller'[d].step = IF d = c THEN "send" ELSE caller[d].step
                              /\ caller'[d].steps = caller[d].steps
    BY <1>1, <1>5 DEF Send, CallerType
  <2>3. CallersSound'
    BY <1>5, <2>2, QuietCalls DEF Send, durable
  <2>4. TypeOK'
    BY <1>1, <1>5, <2>1, <2>2 DEF Send, TypeOK, durable
  <2>5. QED
    BY <1>5, <2>3, <2>4, QuietRuns, QuietRecords DEF Send, durable, IInv
<1>6. CASE Answered(c)
  <2>1. PICK o \in Answer(Len(caller[c].steps) + 1) : Advance(c, Append(caller[c].steps, o))
    BY <1>6 DEF Answered
  <2>2. /\ Len(caller[c].steps) + 1 <= Len(results)
        /\ o = results[Len(caller[c].steps) + 1]
        /\ Len(caller[c].steps) \in Nat /\ Len(results) \in Nat
    BY <1>1, <2>1 DEF Answer
  <2>3. Done(caller[c].steps)
    BY <1>6 DEF Answered, IInv, CallersSound
  <2>4. Append(caller[c].steps, o) \in Seq(Outputs) /\ Done(Append(caller[c].steps, o))
    BY <1>1, <2>2, <2>3 DEF Done
  <2>5. calls' \in 0 .. MaxCalls /\ UNCHANGED tasks
    BY <1>1, <1>6 DEF Answered, TypeOK
  <2>6. QED
    BY <2>1, <2>4, <2>5, InvAdvance
<1>7. CASE RocketRideFails(c)
  <2>1. CASE runCache # NoRun
    <3> DEFINE r == Ends("cached", runCache.steps)
    <3>1. /\ Keep(c, r)
          /\ UNCHANGED <<review, verdict, results, guildCache, runCache, tasks, callback,
                         handled, calls, faults>>
      BY <1>7, <2>1 DEF RocketRideFails, Unavailable
    <3>2. runCache \in RunType /\ Backed(runCache) /\ runCache.steps \in Seq(Outputs)
      BY <1>1, <2>1 DEF IInv, RunsBacked, RunType
    <3>3. r \in RunType
      BY <3>2, RunsType DEF Outcomes
    <3>4. r.steps = runCache.steps /\ r.state = "cached"
      BY DEF Ends
    <3>5. Len(runCache.steps) = LastStep
      BY <3>2 DEF IInv, CachedWhole
    <3>6. Backed(r) /\ Len(r.steps) >= Len(results)
      BY <1>1, <3>2, <3>4, <3>5 DEF Backed, TypeOK
    <3> HIDE DEF r
    <3>7. /\ run' \in RunType /\ snapshots' \in Seq(RunType)
          /\ caller' \in [Callers -> CallerType]
          /\ \A d \in Callers : caller'[d] = IF d = c THEN Idle ELSE caller[d]
      BY <1>1, <3>1, <3>3, KeepType
    <3>8. RunNeverRegresses' /\ RunsBacked'
      <4>1. Backed(run)' /\ RunNeverRegresses' /\ \A n \in DOMAIN snapshots' : Backed(snapshots[n])'
        BY <3>1, <3>3, <3>6, KeepSound
      <4>2. Backed(runCache)'
        BY <3>1, <3>2 DEF Backed, Approved, Plan!Approved
      <4>3. QED
        BY <4>1, <4>2 DEF RunsBacked
    <3>9. CallersSound'
      BY <3>1, <3>7, QuietCalls DEF Idle
    <3>10. TypeOK'
      BY <1>1, <3>1, <3>7 DEF TypeOK
    <3>11. CachedWhole'
      BY <3>1 DEF IInv, CachedWhole
    <3>12. QED
      BY <3>1, <3>8, <3>9, <3>10, <3>11, QuietRecords DEF IInv
  <2>2. CASE runCache = NoRun
    <3>1. /\ caller' = [caller EXCEPT ![c] = Idle]
          /\ UNCHANGED <<durable, run, guildCache, runCache, tasks, callback, handled,
                         calls, faults>>
      BY <1>7, <2>2 DEF RocketRideFails, Unavailable
    <3>2. /\ caller' \in [Callers -> CallerType]
          /\ \A d \in Callers : caller'[d] = IF d = c THEN Idle ELSE caller[d]
      BY <1>1, <3>1, IdleType
    <3>3. CallersSound'
      BY <3>1, <3>2, QuietCalls DEF durable, Idle
    <3>4. TypeOK'
      BY <1>1, <3>1, <3>2 DEF TypeOK, durable
    <3>5. QED
      BY <3>1, <3>3, <3>4, QuietRuns, QuietRecords DEF durable, IInv
  <2>3. QED
    BY <2>1, <2>2
<1>8. QED
  BY <1>3, <1>4, <1>5, <1>6, <1>7

\* The lock keeps a second handler out; the result is one longer than before.
LEMMA InvCallbacks ==
  ASSUME IInv, \/ \E s \in Steps, o \in Outputs : Handle(s, o)
               \/ RecordResult \/ HandlerFails
  PROVE  IInv'
<1>0. TypeOK
  BY DEF IInv
<1>1. /\ TypeOK /\ results \in Seq(Outputs) /\ Len(results) \in Nat
      /\ callback \in [step : Steps, output : Outputs] \cup {NoCallback}
      /\ NoCallback.step = 0
      /\ \A s \in Steps : s \in Nat /\ s # 0
      /\ handled \in [Steps -> 0 .. 1 + MaxFaults] /\ faults \in 0 .. MaxFaults
      /\ MaxFaults \in Nat /\ LastStep \in Nat
  <2>1. /\ TypeOK /\ results \in Seq(Outputs) /\ faults \in 0 .. MaxFaults
        /\ callback \in [step : Steps, output : Outputs] \cup {NoCallback}
        /\ handled \in [Steps -> 0 .. 1 + MaxFaults]
    BY <1>0 DEF TypeOK
  <2>2. NoCallback.step = 0
    BY DEF NoCallback
  <2>3. MaxFaults \in Nat /\ LastStep \in Nat /\ \A s \in Steps : s \in Nat /\ s # 0
    BY DEF Steps
  <2>4. QED
    BY <2>1, <2>2, <2>3
<1>2. ASSUME NEW s \in Steps, NEW o \in Outputs, Handle(s, o)
      PROVE  IInv'
  <2> DEFINE w == [step |-> s, output |-> o]
  <2>1. /\ callback = NoCallback /\ callback' = w
        /\ Executable(review) /\ Approved(s) /\ s = Len(results) + 1
        /\ handled' = [handled EXCEPT ![s] = @ + 1]
        /\ UNCHANGED <<durable, run, guildCache, runCache, caller, tasks, calls, faults>>
    BY <1>2 DEF Handle, InOrder
  <2>2. w \in [step : Steps, output : Outputs] /\ w.step = s
    OBVIOUS
  <2> HIDE DEF w
  <2>3. ~Accounted(s)
    BY <1>1, <2>1 DEF Accounted
  <2>4. handled[s] <= faults /\ handled[s] \in Nat
    BY <2>3 DEF IInv, Handling
  <2>5. /\ handled' \in [Steps -> 0 .. 1 + MaxFaults]
        /\ handled'[s] \in 1 .. 1 + faults
        /\ \A t \in Steps : t # s => handled'[t] = handled[t]
    BY <1>1, <2>1, <2>4
  <2>6. Handling'
    <3>1. \A t \in Steps : t # s => (Accounted(t)' <=> Accounted(t))
      BY <1>1, <2>1, <2>2 DEF Accounted, durable
    <3>2. Accounted(s)'
      BY <2>1, <2>2 DEF Accounted
    <3>3. faults' = faults
      BY <2>1
    <3>4. QED
      BY <1>1, <2>5, <3>1, <3>2, <3>3 DEF IInv, Handling
  <2>7. TypeOK'
    BY <1>1, <2>1, <2>2, <2>5 DEF TypeOK, durable
  <2>8. ResultsSound' /\ CallbackSound' /\ CallersSound'
    BY <2>1, <2>2 DEF IInv, ResultsSound, CallbackSound, CallersSound, Done, Executable,
                      Plan!Executable, Approved, Plan!Approved, durable
  <2>9. QED
    BY <2>1, <2>6, <2>7, <2>8, QuietRuns DEF IInv, durable
<1>3. CASE RecordResult
  <2>1. /\ callback \in [step : Steps, output : Outputs]
        /\ callback.step = Len(results) + 1
        /\ Executable(review) /\ Approved(callback.step)
        /\ results' = Append(results, callback.output)
        /\ callback' = NoCallback
        /\ UNCHANGED <<review, verdict, snapshots, run, guildCache, runCache, caller,
                       tasks, handled, calls, faults>>
    BY <1>1, <1>3 DEF RecordResult, IInv, CallbackSound
  <2>2. /\ results' \in Seq(Outputs) /\ Len(results') = Len(results) + 1
        /\ \A s \in 1 .. Len(results) : results'[s] = results[s]
        /\ Len(results') <= LastStep
    BY <1>1, <2>1 DEF Steps
  <2>3. TypeOK'
    BY <1>1, <2>1, <2>2 DEF TypeOK
  <2>4. ResultsSound' /\ CallbackSound'
    <3>1. \A s \in 1 .. Len(results') : Approved(s)
      BY <1>1, <2>1, <2>2 DEF IInv, ResultsSound
    <3>2. QED
      BY <2>1, <3>1 DEF ResultsSound, CallbackSound, Executable, Plan!Executable,
                        Approved, Plan!Approved
  <2>5. CallersSound'
    <3>1. \A c \in Callers : Done(caller[c].steps) => Done(caller[c].steps)'
      <4>1. \A c \in Callers : Len(caller[c].steps) \in Nat
        BY <1>1 DEF TypeOK, CallerType
      <4>2. QED
        BY <1>1, <2>1, <2>2, <4>1 DEF Done
    <3>2. QED
      BY <2>1, <3>1 DEF IInv, CallersSound
  <2>6. Handling'
    <3>1. \A s \in Steps : Accounted(s)' <=> Accounted(s)
      BY <1>1, <2>1, <2>2 DEF Accounted
    <3>2. QED
      BY <2>1, <3>1 DEF IInv, Handling
  <2>7. \A r \in RunType : Backed(r) => Backed(r)'
    BY <1>1, <2>1, <2>2, BackedStays
  <2>8. RunsBacked'
    BY <1>1, <2>1, <2>7 DEF IInv, TypeOK, RunsBacked
  <2>9. RunNeverRegresses' /\ CachedWhole'
    BY <2>1 DEF IInv, RunNeverRegresses, Progress, CachedWhole
  <2>10. QED
    BY <2>3, <2>4, <2>5, <2>6, <2>8, <2>9 DEF IInv
<1>4. CASE HandlerFails
  <2>1. /\ callback \in [step : Steps, output : Outputs]
        /\ faults < MaxFaults /\ faults' = faults + 1
        /\ callback' = NoCallback
        /\ UNCHANGED <<durable, run, guildCache, runCache, caller, tasks, handled, calls>>
    BY <1>1, <1>4 DEF HandlerFails
  <2>2. TypeOK'
    BY <1>1, <2>1 DEF TypeOK, durable
  <2>3. Handling'
    <3>1. \A s \in Steps : handled'[s] \in Nat
                           /\ (Accounted(s) => handled'[s] \in 1 .. 1 + faults)
                           /\ (~Accounted(s) => handled'[s] <= faults)
      BY <2>1 DEF IInv, Handling
    <3>2. \A s \in Steps : Accounted(s)' => Accounted(s)
      BY <1>1, <2>1 DEF Accounted, durable
    <3>3. QED
      BY <1>1, <2>1, <3>1, <3>2 DEF Handling
  <2>4. ResultsSound' /\ CallbackSound' /\ CallersSound'
    BY <2>1 DEF IInv, ResultsSound, CallbackSound, CallersSound, Done, Executable,
                Plan!Executable, Approved, Plan!Approved, durable
  <2>5. QED
    BY <2>1, <2>2, <2>3, <2>4, QuietRuns DEF IInv, durable
<1>5. QED
  BY <1>2, <1>3, <1>4

\* A restart goes back to the latest snapshot.
LEMMA InvCrash == ASSUME IInv, Crash PROVE IInv'
<1>1. /\ TypeOK /\ snapshots \in Seq(RunType)
      /\ callback \in [step : Steps, output : Outputs] \cup {NoCallback}
      /\ faults \in 0 .. MaxFaults /\ MaxFaults \in Nat
      /\ faults' = faults + 1 /\ faults < MaxFaults
      /\ run' = Restored /\ runCache' = NoRun /\ guildCache' = NoReview
      /\ caller' = [c \in Callers |-> Idle]
      /\ callback' = NoCallback
      /\ UNCHANGED <<durable, tasks, handled, calls>>
  BY DEF Crash, IInv, TypeOK
<1>2. IF snapshots = <<>> THEN Restored = NoRun
      ELSE /\ Len(snapshots) \in DOMAIN snapshots
           /\ Restored = snapshots[Len(snapshots)]
           /\ Restored \in RunType
  BY <1>1 DEF Restored
<1>3. TypeOK'
  BY <1>1, <1>2, IdleType DEF TypeOK, durable
<1>4. CallersSound'
  BY <1>1 DEF CallersSound, Idle
<1>5. ResultsSound' /\ CallbackSound'
  BY <1>1 DEF IInv, ResultsSound, CallbackSound, Executable, Plan!Executable, Approved,
              Plan!Approved, durable
<1>6. Handling'
  <2>1. \A s \in Steps : handled'[s] \in Nat
                         /\ (Accounted(s) => handled'[s] \in 1 .. 1 + faults)
                         /\ (~Accounted(s) => handled'[s] <= faults)
    BY <1>1 DEF IInv, Handling
  <2>2. NoCallback.step = 0 /\ \A s \in Steps : s # 0
    BY DEF NoCallback, Steps
  <2>3. \A s \in Steps : Accounted(s)' => Accounted(s)
    BY <1>1, <2>2 DEF Accounted, durable
  <2>4. QED
    BY <1>1, <2>1, <2>3 DEF Handling
<1>7. \A r : Backed(r) => Backed(r)'
  BY <1>1 DEF Backed, Approved, Plan!Approved, durable
<1>8. RunsBacked'
  BY <1>1, <1>2, <1>7 DEF IInv, RunsBacked, durable
<1>9. RunNeverRegresses' /\ CachedWhole'
  <2>1. ASSUME snapshots # <<>> PROVE Progress(run') \in Nat /\
          Progress(snapshots[Len(snapshots)]) = Progress(run')
    BY <1>1, <1>2, <2>1 DEF Progress, RunType
  <2>2. QED
    BY <1>1, <2>1 DEF IInv, RunNeverRegresses, CachedWhole, durable, Progress
<1>10. QED
  BY <1>3, <1>4, <1>5, <1>6, <1>8, <1>9 DEF IInv

LEMMA InvStutter == ASSUME IInv, UNCHANGED vars PROVE IInv'
<1>1. TypeOK'
  BY DEF IInv, TypeOK, vars
<1>2. QED
  BY <1>1, QuietCalls, QuietRuns, QuietRecords DEF IInv, vars

LEMMA InvStep == IInv /\ [Next]_vars => IInv'
  BY InvReviews, InvDecide, InvCalls, InvCallbacks, InvCrash, InvStutter DEF Next

THEOREM Invariance == Spec => []IInv
  BY InvInit, InvStep, PTL DEF Spec

-----------------------------------------------------------------------------
(* What follows.                                                           *)

\* Every variable keeps its type.
THEOREM TypeCorrect == Spec => []TypeOK
  BY Invariance, PTL DEF IInv

\* What a run, its snapshots and the cached run say is on record, for any
\* interleaving of calls, callbacks, failures and restarts.
THEOREM RunsAreBacked == Spec => []RunsBacked
  BY Invariance, PTL DEF IInv

\* However calls overlap, no snapshot and no restart takes a run back.
THEOREM RunsNeverRegress == Spec => []RunNeverRegresses
  BY Invariance, PTL DEF IInv

\* The handler of a step runs once, but for faults.
THEOREM HandlersRunOnce == Spec => []HandledOnce
<1>1. IInv => HandledOnce
  <2> SUFFICES ASSUME IInv, NEW s \in Steps
               PROVE  /\ handled[s] <= 1 + faults
                      /\ s <= Len(results) => handled[s] > 0
    BY DEF HandledOnce
  <2>1. handled[s] \in Nat /\ faults \in Nat
    BY DEF IInv, TypeOK
  <2>2. QED
    BY <2>1 DEF IInv, Handling, Accounted
<1>2. QED
  BY <1>1, Invariance, PTL

\* Every step of the system is a step of FixedPipeline on the records, or none.
THEOREM ImplementsFixedPipeline == Spec => PipelineOrder
<1>1. Init => Plan!Init
  BY DEF Init
<1>2. IInv /\ [Next]_vars => [Plan!Next]_(Plan!vars)
  <2> SUFFICES ASSUME IInv, [Next]_vars PROVE [Plan!Next]_(Plan!vars)
    OBVIOUS
  <2>1. ASSUME NEW c \in Callers, NEW set \in Plan!ReviewSets, RecordReview(c, set)
        PROVE  [Plan!Next]_(Plan!vars)
    <3>1. CASE review' = review
      BY <2>1, <3>1 DEF RecordReview, Plan!vars
    <3>2. CASE review' # review
      <4>1. Plan!Record(set)
        BY <2>1, <3>2 DEF RecordReview, Plan!Record
      <4>2. QED
        BY <4>1 DEF Plan!Next
    <3>3. QED
      BY <3>1, <3>2
  <2>2. ASSUME NEW c \in Callers, GuildFails(c)
        PROVE  [Plan!Next]_(Plan!vars)
    <3>1. guildCache \in Plan!ReviewSets \cup {NoReview}
      BY DEF IInv, TypeOK
    <3>2. QED
      BY <2>1, <2>2, <3>1 DEF GuildFails, durable, Plan!vars
  <2>3. ASSUME NEW c \in Callers, NEW r \in Roles, NEW x \in Plan!Recommendations,
               RoleReviews(c, r, x)
        PROVE  [Plan!Next]_(Plan!vars)
    <3> DEFINE given == [y \in DOMAIN caller[c].given \cup {r} |->
                           IF y = r THEN x ELSE caller[c].given[y]]
    <3>1. caller[c].given \in Given
      BY DEF IInv, TypeOK, CallerType
    <3>2. PICK done \in SUBSET Roles : caller[c].given \in [done -> Plan!Recommendations]
      BY <3>1 DEF Given
    <3>3. DOMAIN given = Roles => given \in Plan!ReviewSets
      BY <3>2 DEF Plan!ReviewSets
    <3>4. \/ DOMAIN given = Roles /\ RecordReview(c, given)
          \/ UNCHANGED durable
      BY <2>3 DEF RoleReviews
    <3> HIDE DEF given
    <3>5. QED
      BY <2>1, <3>3, <3>4 DEF durable, Plan!vars
  <2>4. ASSUME NEW s \in Gated, NEW v \in {"approve", "reject"}, Decide(s, v)
        PROVE  [Plan!Next]_(Plan!vars)
    <3>1. Plan!Decide(s, v)
      BY <2>4 DEF Decide, Executable, Plan!Decide
    <3>2. QED
      BY <3>1 DEF Plan!Next
  <2>5. CASE RecordResult
    <3>1. /\ callback \in [step : Steps, output : Outputs]
          /\ callback.step = Len(results) + 1
          /\ Executable(review) /\ Approved(callback.step)
      BY <2>5 DEF RecordResult, IInv, TypeOK, CallbackSound
    <3>2. Len(results) \in Nat /\ LastStep \in Nat
      BY DEF IInv, TypeOK
    <3>3. Plan!Complete(callback.output)
      BY <2>5, <3>1, <3>2 DEF RecordResult, Plan!Complete, Executable, Approved, Steps
    <3>4. QED
      BY <3>1, <3>3 DEF Plan!Next
  <2>6. ASSUME NEW c \in Callers,
               \/ AskReview(c) \/ Execute(c) \/ Resume(c)
               \/ Send(c) \/ Answered(c) \/ RocketRideFails(c)
        PROVE  UNCHANGED <<review, verdict, results>>
    BY <2>6 DEF AskReview, Execute, Resume, Send, Answered, RocketRideFails, Unavailable,
                Advance, durable
  <2>7. ASSUME \/ \E s \in Steps, o \in Outputs : Handle(s, o)
               \/ HandlerFails \/ Crash \/ UNCHANGED vars
        PROVE  UNCHANGED <<review, verdict, results>>
    BY <2>7 DEF Handle, HandlerFails, Crash, durable, vars
  <2>8. QED
    BY <2>2, <2>3, <2>4, <2>5, <2>6, <2>7 DEF Next, Plan!vars
<1>3. QED
  BY <1>1, <1>2, Invariance, PTL DEF Spec, PipelineOrder, Plan!Spec

\* Runs are backed and never regress.
THEOREM RunsAlwaysStand == Spec => []RunsStand
BY RunsAreBacked, RunsNeverRegress, PTL DEF RunsStand
=============================================================================
