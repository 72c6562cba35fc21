------------------------- MODULE PipelineExecution -------------------------
(***************************************************************************)
(* The execution of one workflow run: GuildApiCoordinator and its cached     *)
(* fallback (orchestration/guild.py), FixedPipelineExecutor over RocketRide  *)
(* and its cached fallback (orchestration/rocketride.py), the API's review,  *)
(* execute and resume calls (backend/api_backend.py), the callbacks that do  *)
(* the steps (backend/rocketride_callback.py) and what survives a restart    *)
(* (coordinator/store.py).                                                   *)
(*                                                                           *)
(* Calls are coroutines of one event loop: each runs alone from one await to *)
(* the next.  RocketRide keeps what it was sent and may call back at any     *)
(* time, late or repeatedly; the dispatcher's lock makes callbacks take      *)
(* turns.  Any request may fail or time out, and the process may crash.      *)
(*                                                                           *)
(* Abstracted: the plan is fixed and its evidence admitted (see              *)
(* PolicyGovernance); an envelope is its step, since the plan and the        *)
(* recorded decision determine it; an output is one of a few values.         *)
(***************************************************************************)
EXTENDS Naturals, Sequences, FiniteSets

CONSTANTS Roles, LastStep, Gated, Outputs, NoReview,
          Callers,    \* concurrent calls of the API
          MaxCalls,   \* bound on calls
          MaxFaults,  \* bound on crashes and unrecorded results
          NoRun

VARIABLES review,      \* workflow_reviews, and _reviewed, which mirrors it
          verdict,     \* human_decisions of the gated steps
          results,     \* rocketride_callback_results
          snapshots,   \* workflow_run_snapshots, of which the latest counts
          run,         \* _runs
          guildCache,  \* InMemoryGuildReviewCache
          runCache,    \* InMemoryPipelineRunCache: the steps of the run
          caller,      \* the calls under way
          tasks,       \* RocketRide: steps whose envelope it was sent
          callback,    \* the callback that holds the dispatcher's lock
          handled,     \* history: how often the handler of each step ran
          calls,       \* history: calls made
          faults       \* history: crashes, and handlers without a result

durable == <<review, verdict, results, snapshots>>
vars == <<review, verdict, results, snapshots, run, guildCache, runCache, caller,
          tasks, callback, handled, calls, faults>>

Plan == INSTANCE FixedPipeline
Steps == 1 .. LastStep
\* The states a run can end in: the SDK transport never yields a failed one.
Outcomes == {"awaiting_human_approval", "blocked", "completed", "cached"}
RunType == [state : Outcomes, steps : Seq(Outputs)]
Given == UNION {[done -> Plan!Recommendations] : done \in SUBSET Roles}
CallerType == [step : {"idle", "role", "use", "send"}, steps : Seq(Outputs),
               given : Given]
Idle == [step |-> "idle", steps |-> <<>>, given |-> <<>>]
NoCallback == [step |-> 0, output |-> {}]

ASSUME PipelineAssumption ==
  /\ LastStep \in Nat \ {0}
  /\ Gated \subseteq Steps
  /\ {MaxCalls, MaxFaults} \subseteq Nat
  /\ NoRun \notin RunType
  /\ NoReview \notin Plan!ReviewSets

\* Mutant: only a blocked review is refused.
ExecutableUnblocked(set) ==
  set \in Plan!ReviewSets /\ \A r \in Roles : set[r] # "block"
\* GuildReviewSet.executable
Executable(set) == Plan!Executable(set)
\* The gates of FixedPipelineExecutor and of _verify_approval.
Approved(s) == Plan!Approved(s)

Init ==
  /\ Plan!Init
  /\ snapshots = <<>>
  /\ run = NoRun
  /\ guildCache = NoReview
  /\ runCache = NoRun
  /\ caller = [c \in Callers |-> Idle]
  /\ tasks = {}
  /\ callback = NoCallback
  /\ handled = [s \in Steps |-> 0]
  /\ calls = 0
  /\ faults = 0

-----------------------------------------------------------------------------
\* review_workflow, of a run that is not reviewed yet.
AskReview(c) ==
  /\ caller[c].step = "idle"
  /\ review = NoReview
  /\ calls < MaxCalls
  /\ calls' = calls + 1
  /\ caller' = [caller EXCEPT ![c] = [Idle EXCEPT !.step = "role"]]
  /\ UNCHANGED <<durable, run, guildCache, runCache, tasks, callback, handled, faults>>

\* record_workflow_review refuses a second review; without a numeric decision,
\* or when its transaction fails, nothing is recorded.
RecordReview(c, set) ==
  /\ caller' = [caller EXCEPT ![c] = Idle]
  /\ review' \in IF review = NoReview THEN {NoReview, set} ELSE {review}
  /\ UNCHANGED <<verdict, results, snapshots>>

\* The session of one specialist ends with its review: the next is asked, or
\* the set is complete.
RoleReviews(c, r, recommendation) ==
  /\ caller[c].step = "role"
  /\ r \notin DOMAIN caller[c].given
  /\ LET given == [x \in DOMAIN caller[c].given \cup {r} |->
                     IF x = r THEN recommendation ELSE caller[c].given[x]]
     IN IF DOMAIN given = Roles
        THEN /\ guildCache' = IF guildCache = NoReview THEN given ELSE guildCache
             /\ RecordReview(c, given)
        ELSE /\ caller' = [caller EXCEPT ![c].given = given]
             /\ UNCHANGED <<durable, guildCache>>
  /\ UNCHANGED <<run, runCache, tasks, callback, handled, calls, faults>>

\* A session failed, timed out or gave no valid review: the exact plan's cached
\* set takes its place, if there is one.
GuildFails(c) ==
  /\ caller[c].step = "role"
  /\ IF guildCache # NoReview
     THEN RecordReview(c, guildCache)
     ELSE caller' = [caller EXCEPT ![c] = Idle] /\ UNCHANGED durable
  /\ UNCHANGED <<run, guildCache, runCache, tasks, callback, handled, calls, faults>>

\* submit_approval_decision
Decide(s, v) ==
  /\ Executable(review)
  /\ verdict[s] = "none"
  /\ verdict' = [verdict EXCEPT ![s] = v]
  /\ UNCHANGED <<review, results, snapshots, run, guildCache, runCache, caller,
                 tasks, callback, handled, calls, faults>>

-----------------------------------------------------------------------------
\* The API keeps the run and records its snapshot, unless the transaction fails
\* or an equal snapshot exists.
Keep(c, r) ==
  /\ run' = r
  /\ snapshots' \in {snapshots, Append(snapshots, r)}
  /\ caller' = [caller EXCEPT ![c] = Idle]

Ends(state, steps) == [state |-> state, steps |-> steps]

\* The executor goes on from its completed steps to its next await or its end.
Advance(c, steps) ==
  LET s == Len(steps) + 1 IN
  /\ \/ /\ s > LastStep
        /\ Keep(c, Ends("completed", steps))
        /\ runCache' = IF runCache = NoRun THEN Ends("completed", steps) ELSE runCache
     \/ /\ s \in Gated
        /\ verdict[s] = "none"
        /\ Keep(c, Ends("awaiting_human_approval", steps))
        /\ UNCHANGED runCache
     \/ /\ s \in Gated
        /\ verdict[s] = "reject"
        /\ Keep(c, Ends("blocked", steps))
        /\ UNCHANGED runCache
     \/ /\ s \in Steps
        /\ Approved(s)
        /\ caller' = [caller EXCEPT ![c] = [Idle EXCEPT !.step = "use", !.steps = steps]]
        /\ UNCHANGED <<snapshots, run, runCache>>
  /\ UNCHANGED <<review, verdict, results, guildCache, callback, handled, faults>>

\* execute_workflow starts from the first step, whatever was done before.
Execute(c) ==
  /\ caller[c].step = "idle"
  /\ Executable(review)
  /\ calls < MaxCalls
  /\ calls' = calls + 1
  /\ Advance(c, <<>>)
  /\ UNCHANGED tasks

\* resume_workflow: only an incomplete run may be resumed.
Resume(c) ==
  /\ caller[c].step = "idle"
  /\ Executable(review)
  /\ run # NoRun
  /\ run.state \in {"awaiting_human_approval", "blocked"}
  /\ calls < MaxCalls
  /\ calls' = calls + 1
  /\ Advance(c, run.steps)
  /\ UNCHANGED tasks

\* The task token arrived: the envelope is sent.
Send(c) ==
  /\ caller[c].step = "use"
  /\ tasks' = tasks \cup {Len(caller[c].steps) + 1}
  /\ caller' = [caller EXCEPT ![c].step = "send"]
  /\ UNCHANGED <<durable, run, guildCache, runCache, callback, handled, calls, faults>>

\* Mutant: the answer is taken before its result is recorded.
AnswerEarly(s) ==
  IF s <= Len(results) THEN {results[s]}
  ELSE IF callback.step = s THEN {callback.output} ELSE {}
\* The callback's result, as RocketRide passes it back.
Answer(s) == IF s <= Len(results) THEN {results[s]} ELSE {}

\* A verified response completes the step.
Answered(c) ==
  /\ caller[c].step = "send"
  /\ \E output \in Answer(Len(caller[c].steps) + 1) :
       Advance(c, Append(caller[c].steps, output))
  /\ UNCHANGED <<tasks, calls>>

\* Mutant: the run is kept as far as it came.
UnavailableKeeps(c) ==
  /\ Keep(c, Ends("blocked", caller[c].steps))
  /\ UNCHANGED <<review, verdict, results>>
\* Without a cached run of the exact plan the call fails.
Unavailable(c) ==
  IF runCache # NoRun
  THEN Keep(c, Ends("cached", runCache.steps)) /\ UNCHANGED <<review, verdict, results>>
  ELSE caller' = [caller EXCEPT ![c] = Idle] /\ UNCHANGED <<durable, run>>

\* RocketRide fails, times out or answers something else.
RocketRideFails(c) ==
  /\ caller[c].step \in {"use", "send"}
  /\ Unavailable(c)
  /\ UNCHANGED <<guildCache, runCache, tasks, callback, handled, calls, faults>>

-----------------------------------------------------------------------------
\* Mutant: a step that has its result is done again.
InOrderOrDone(s) == s <= Len(results) + 1
\* dispatch: a step that has its result only replays it, which changes nothing.
InOrder(s) == s = Len(results) + 1

\* RocketRide calls back and the handler of the step does its work.
Handle(s, output) ==
  /\ callback = NoCallback
  /\ s \in tasks
  /\ Executable(review)
  /\ Approved(s)
  /\ InOrder(s)
  /\ callback' = [step |-> s, output |-> output]
  /\ handled' = [handled EXCEPT ![s] = @ + 1]
  /\ UNCHANGED <<durable, run, guildCache, runCache, caller, tasks, calls, faults>>

\* record_rocketride_callback_result
RecordResult ==
  /\ callback # NoCallback
  /\ results' = Append(results, callback.output)
  /\ callback' = NoCallback
  /\ UNCHANGED <<review, verdict, snapshots, run, guildCache, runCache, caller,
                 tasks, handled, calls, faults>>

\* The handler raises after part of its work, or its result is not recorded.
HandlerFails ==
  /\ callback # NoCallback
  /\ faults < MaxFaults
  /\ faults' = faults + 1
  /\ callback' = NoCallback
  /\ UNCHANGED <<durable, run, guildCache, runCache, caller, tasks, handled, calls>>

\* _restore_workflows
Restored == IF snapshots = <<>> THEN NoRun ELSE snapshots[Len(snapshots)]

\* The process crashes and restarts; RocketRide does not.
Crash ==
  /\ faults < MaxFaults
  /\ faults' = faults + 1
  /\ run' = Restored
  /\ guildCache' = NoReview
  /\ runCache' = NoRun
  /\ caller' = [c \in Callers |-> Idle]
  /\ callback' = NoCallback
  /\ UNCHANGED <<durable, tasks, handled, calls>>

Next ==
  \/ \E c \in Callers :
       \/ AskReview(c) \/ GuildFails(c) \/ Execute(c) \/ Resume(c)
       \/ Send(c) \/ Answered(c) \/ RocketRideFails(c)
       \/ \E r \in Roles, x \in Plan!Recommendations : RoleReviews(c, r, x)
  \/ \E s \in Gated, v \in {"approve", "reject"} : Decide(s, v)
  \/ \E s \in Steps, o \in Outputs : Handle(s, o)
  \/ RecordResult \/ HandlerFails \/ Crash

Spec == Init /\ [][Next]_vars

-----------------------------------------------------------------------------
\* Every variable has its type.
TypeOK ==
  /\ review \in Plan!ReviewSets \cup {NoReview}
  /\ verdict \in [Gated -> {"none", "approve", "reject"}]
  /\ results \in Seq(Outputs) /\ Len(results) <= LastStep
  /\ snapshots \in Seq(RunType)
  /\ run \in RunType \cup {NoRun}
  /\ guildCache \in Plan!ReviewSets \cup {NoReview}
  /\ runCache \in RunType \cup {NoRun}
  /\ caller \in [Callers -> CallerType]
  /\ tasks \subseteq Steps
  /\ callback \in [step : Steps, output : Outputs] \cup {NoCallback}
  /\ handled \in [Steps -> 0 .. 1 + MaxFaults]
  /\ calls \in 0 .. MaxCalls
  /\ faults \in 0 .. MaxFaults

\* What a run says of itself is on record, after any failures, late callbacks
\* and restarts: its outputs are the recorded results of the first steps, no gate
\* among them is open, it waits or is blocked where it says, and a run that is
\* completed or cached has every step.
Backed(r) ==
  /\ Len(r.steps) <= Len(results)
  /\ \A s \in DOMAIN r.steps : r.steps[s] = results[s] /\ Approved(s)
  /\ CASE r.state = "awaiting_human_approval" -> Len(r.steps) + 1 \in Gated
       [] r.state = "blocked" -> /\ Len(r.steps) + 1 \in Gated
                                 /\ verdict[Len(r.steps) + 1] = "reject"
       [] OTHER -> Len(r.steps) = LastStep

RunsBacked ==
  /\ run # NoRun => Backed(run)
  /\ runCache # NoRun => Backed(runCache)
  /\ \A n \in DOMAIN snapshots : Backed(snapshots[n])

\* Overlapping calls never take a run back: each snapshot has at least the steps
\* of those before it, and the run in memory those of the latest.
Progress(r) == IF r = NoRun THEN 0 ELSE Len(r.steps)
RunNeverRegresses ==
  /\ \A m, n \in DOMAIN snapshots : m <= n => Progress(snapshots[m]) <= Progress(snapshots[n])
  /\ snapshots # <<>> => Progress(snapshots[Len(snapshots)]) <= Progress(run)

\* The handler of a step runs once, and once more only for a crash or a result
\* that could not be recorded, however often calls are repeated and callbacks
\* delivered.
HandledOnce ==
  \A s \in Steps : /\ handled[s] <= 1 + faults
                   /\ s <= Len(results) => handled[s] > 0

\* The records of reviews, decisions and results are those of FixedPipeline.
PipelineOrder == Plan!Spec

\* What calls were answered with stands: it is backed by the records and is never
\* taken back by an overlapping call or a restart (backend/api_backend.py:874).
RunsStand == RunsBacked /\ RunNeverRegresses
=============================================================================
