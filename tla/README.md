# Muscle Memory: TLA+ verification development

This directory holds TLA+ models of Muscle Memory (`src/`), the TLC
configurations that check them on small instances, and TLAPS proofs of the
properties that matter most. Every definition is translated from the Python
under `src/src/muscle_memory/` and `src/ops/`; `PROJECT.json` maps each definition
to the lines it stands for. Paths below are relative to `src/src/muscle_memory/`,
those that begin with `ops/`, `docs/` or `README.md` to `src/`.

    tlc -workers 2 -config EpisodeFaults.cfg MCEpisodeLifecycle   # check a run
    tlapm EpisodeLifecycle_proofs.tla                             # check proofs

## 1. Inventory

Muscle Memory trains and evaluates simulated robot policies. A single backend
process (FastAPI on one asyncio event loop, plus worker threads) owns all the
state. External providers are LaserData (telemetry), FalkorDB (graph memory),
Guild (three-role plan review) and RocketRide (runs a fixed eight-step pipeline
and calls the backend back, once per step). Every durable fact sits in one
SQLite file, the coordinator; a second SQLite file is the telemetry spool, and a
JSONL file is the local graph cache.

| Component | State | Operations | Hard part | What makes it correct |
|---|---|---|---|---|
| Coordinator store (`coordinator/store.py`) | append-only tables of transitions, receipts, closures, deliveries, reviews, decisions, alias events, callback results | one `BEGIN IMMEDIATE` transaction per method | calls above it span several transactions | histories are append-only, and a retried call finds its own row |
| Episode service and journal (`episodes/service.py`, `backend/episode_journal.py`) | one session per episode under an `asyncio.Lock`, rebuilt from the journal at start | open, append, close, abort, restore, reconcile, retry graph delivery, corrections | crashes and cancellations between commits and awaits, multi-transaction calls | any crash leaves a journal that startup accepts; closure, graph memory and session agree |
| Telemetry (`telemetry/laserdata.py`, `telemetry/durable.py`) | durable spool with publish state; provider sink that may be down | append, publish with timeout, flush, recover the outbox, verify | a timed-out publish may have arrived | a receipt never claims more than the provider accepted; order is kept |
| Graph memory (`graph_memory/`) | append-only JSONL cache, remote graph, "needs reconciliation" flag | write, query, synchronize, replay at load | remote failure after a local append, torn last line | remote content is always a replay of the cache |
| Policy governance (`backend/api_backend.py`, `backend/policy_decisions.py`, `orchestration/approvals.py`) | plan, evidence, review, numeric decision, human decision and alias ledgers | review a workflow, decide, answer an approval | concurrent reviews await Guild while callbacks run in threads | the alias moves only as measured, reviewed and approved |
| RocketRide callbacks (`backend/rocketride_callback.py`) | stored callback results | dispatch one step of the fixed pipeline | repeated, out-of-order, crashed callbacks | results are a prefix of the pipeline; a decision is applied once |
| Pipeline execution (`orchestration/rocketride.py`, `orchestration/service.py`) | run snapshots | execute, resume, cached fallback | provider dies mid-run, overlapping calls | steps run in order, none twice, approvals never skipped |
| Evidence admission, held-out import (`backend/evidence_admission.py`, `backend/evaluation_import.py`) | immutable rows of a held-out comparison, provider references | import an artifact at startup, admit a review's evidence, write the policy's lineage | an import is some tens of transactions, references hold an observation time | a cut-off import resumes; admitted evidence stays backed |
| Held-out access (`evaluation/heldout*.py`, `evaluation/development.py`, `ops/policy/`) | files: lock, evidence, receipt, output | select in development, consume the one access, evaluate | processes race and die, files change under them | one access, for the selected checkpoint |
| Promotion gate and success (`evaluation/promotion.py`, `success.py`, `runner.py`) | none | measure a delivery, summarise, decide | zero baselines, exact thresholds, two formulas, events in the last step | all readers of a result come to one verdict |
| Live episodes (`live/`, `runtime.py`) | job table, worker threads, video frame slots | start, cancel, wait, shut down, prune | cancel races start, failure in failure handling | every job ends, the cap holds, no closed job restarts |
| Training jobs (`training/jobs.py`) | one active job, a manifest per job | start, run a child, persist, restore, shut down | crash or failing write while active | what was told of a job stands; one job at a time |
| Asset pipeline (`assets/`) | write-once cache files, approval ledger | generate, approve, refresh | torn file pairs, concurrent generations | an answer stands; nothing unapproved is served |
| Event streaming (`api/streaming.py`) | bounded queue per subscriber | publish, subscribe, unsubscribe, close | slow subscribers, publishers in other threads | a client can tell what it missed |
| HTTP API (`api/app.py`, `api/auth.py`) | none of its own | route, limit, authorize, validate, map outcomes | bodies of unknown length, requests that end anywhere | a change is earned: limit, scope, model |
| Worlds (`worlds/`) | none | generate, validate, find paths | grid search and geometry corner cases | a reported path is walkable and shortest |
| Robot command and supervisor (`simulation/runtime.py`, `simulation/controller.py`, `robot/command.py`) | command in force, pending command | replace, supervise, control, each at its own rate | a stop ramped across rates | no brake harder than the ramp |
| Deployment (`ops/deployment/`) | sandbox state tree, snapshots, pid file | start, stop, recover, snapshot | cut-off recoveries, reused pids | never a half tree; only the API is stopped |
| Controller runs (`ops/controller/`) | run directory: contract, attempts, evidence, manifest | train, recover, export, qualify, select | interrupted attempts, NaN measures | qualified means measured; nothing complete is trained twice |
| Robot identity, physics and sensors, behaviour cloning, frontend, verification scripts | static or numeric | | | see section 6 |

Interactions: the API calls the episode service and the review, approval and
execution methods on the event loop. RocketRide's callbacks arrive over HTTP and
are dispatched with `asyncio.to_thread` (`api/app.py:1095`), so they run in
threads beside the event loop, one at a time under the dispatcher's lock. The
episode service calls telemetry and graph memory with awaits inside its lock.
The live manager runs episodes in worker threads that call the service through
its own loop. All of them meet in the coordinator store. Training jobs, the asset
cache, the event hub, held-out access, deployment, controller runs, world
generation, a delivery's loop and the stop ramp share no state with them or with
each other, beyond files that one writes before another begins.

The hazards found in this survey are listed, each at its line, under `hazards`
in `PROJECT.json`.

## 2. Modules

### EpisodeLifecycle

`EpisodeService` over `CoordinatorEpisodeJournal` over the store. A variable per
table (`coordState` is the latest row of `episode_transitions`, `sessionRow`,
`receiptRows`, `closureRow`, `graphRows`), `spool` and `graphMemory` for the two
other durable stores, and `service`, `todo`, `mem`, `op` for what a crash loses.
`EpisodeService._lock` admits one call, so one record `op` says where the call in
progress is; every durable commit and every await is a step of its own, and
`Crash` may come between any two.

| Code | Actions |
|---|---|
| `restore_sessions` and the journal's `recover` | `Start`, `RecoverTransition`, `BeginRestore`, `RestoreSession`, `Refill` |
| `reconcile_provider_state` | `ReconcileProviderState`, `ReconcileSession`, `Refill` |
| `_retry_incomplete_graph_deliveries` | `BeginRetry`, `RetryDelivery`, `WriteParents`, `WriteEpisode`, `WriteFailures`, `RecordDelivery`, `Serve` |
| `open_episode` and `record_identity` | `OpenEpisode`, `RegisterEpisode`, `RecordSession`, `EnterRunning` |
| `append_telemetry` | `AppendTelemetry`, `PublishReturns`, `CancelAppend`, `JournalReceipt`, `RetryAppend`, `Refill` |
| `abort_episode` | `AbortEpisode` |
| `close_episode`, `_persist_closed_episode` | `CloseEpisode`, `Refill`, `RejectClose`, `MarkClosed`, `CommitClosure`, `ClosureConflict`, `CommitTerminal`, then the graph steps |
| a commit that raises | `TransactionFails` |

A session is closed in memory before its closure is committed and opened again when
the commit raises (`service.py:383`). Whoever reads it without the lock
(`episode_state` from `api_backend.py:713` and `:1186`) sees it ahead of the journal
while the commit runs, so `SessionMirrorsJournal` leaves out the session being
committed. The failure facts of an unsuccessful episode are one fact, `Failures`,
written after the episode's: each is a graph write like the one before it, and a
delivery is complete with all of them or incomplete.

Runs on `MCEpisodeLifecycle`:

* `episode_faults` (two episodes, two records each, commits may raise): the
  journal any interrupted call leaves passes every check startup makes
  (`JournalRestorable`); graph memory never holds an episode before its measured
  terminal fact, and a complete delivery report is true and the last one
  (`GraphFollowsJournal`, of `GraphOnlyAfterTerminal` and `DeliveryReportTrue`);
  sessions agree with the journal (`SessionMirrorsJournal`); histories, aborts
  included, are final (`HistoryIsFinal`).
* `episode_liveness` (commits do not raise): a durable closure's digest covers
  all telemetry (`ClosureCoversTelemetry`), and if crashes end, a durable closure
  becomes terminal (`ClosureBecomesTerminal`).
* `episode_retry_refused` and `episode_post_close_append` reproduce two findings
  of section 5.

Bounds: two episodes are enough for everything two episodes share (the unique
hash of delivery reports and the parent records in graph memory); two records
give a receipt gap, a second record after a lost first receipt, and a record
after a closure; one error type gives failing, repeated and recovered
deliveries. Episodes are symmetric in the safety runs.

Fairness: `WF(Startup)` because a supervised process is started again and its
startup is straight-line code; `WF(Progress)` because a call that has begun runs
on by itself. Clients, failures, cancellations and crashes are not fair, and
`ClosureBecomesTerminal` only promises something if crashes eventually stop.

### PolicyAlias and PolicyGovernance

`PolicyAlias` is the abstract promise: a ledger of alias events that starts at a
measured baseline and moves at most once per run, from the policy the move was
measured against, and to a candidate only past the numeric gate.
`PolicyGovernance` is how the code gets there. One variable per ledger (`plan`,
`evidence`, `review`, `decision`, `verdict`, `results`, `alias`), the in-memory
`_reviewed`, one record per review coroutine (`task`) and the callback that
holds the dispatcher's lock (`callback`).

| Code | Actions |
|---|---|
| `ApiBackend.review_workflow` | `RequestReview`, `AdmitEvidence`, `GuildReviews`, `Decide`, `InitializeAlias`, `RecordDecision`, `RecordReview`, `ReviewFails` |
| `submit_approval_decision` | `SubmitApprovalDecision` |
| `FixedStepDispatcher.dispatch` | `DispatchCallback`, `ApplyPolicyAction`, `RecordCallbackResult`, `CallbackFails` |
| process restart, `_restore_workflows` | `CrashRestart` |

A review coroutine only lets other coroutines run while Guild is awaited
(`LoopFree`), but callbacks run in threads, so each of its transactions is a
separate step.

Run `policy_governance`: two runs, two concurrent reviews, five plans (two
promotions racing out of the same baseline, a rollback possible from two
policies, a promotion starting elsewhere, one whose action the gate does not
give), a pipeline of two steps. It checks that authority comes in order: the alias
moves only with it (`MovedWithAuthority`) and humans answer only measured actions
(`AnsweredAfterMeasured`), together `AuthorityInOrder`; that recorded final results
are true (`FinalStepApplied`), and the refinement `AliasLedger`. That moves are as
measured (`MovesAreMeasured`) and happen once per decision (`AppliedOnce`), and that
ledgers are never rewritten (`LedgersAreFinal`), is proved for every instance.

Bounds: two runs are what it takes for one decision to go stale; a third would
only repeat it. Two steps are a non-final one, gated or not, and the final one;
the intermediate handlers do not change what is modelled.

### TelemetryOutbox and TelemetryDelivery

`TelemetryOutbox` is the abstract promise: records are spooled and reach the
provider's log once each, in recording order. `TelemetryDelivery` is
`LaserDataTelemetryBackend` over the durable spool, with the delivery receipts
the episode service keeps of it: `spool`, `accepted`, `verified` are the spool's
tables, `base` and `upgrades` the coordinator's receipts, `provider` the external
log, `connected`, `state`, `session` what a crash loses. The backend's lock lets
one operation (`op`) run at a time; it is cut at every await and every commit.

| Code | Actions |
|---|---|
| process start, `_restore_journal`, `_reconcile_unjournaled_receipts` | `Start`, `Refill`, `Refilled` |
| `initialize`, `_flush_pending_locked`, `_recover_pending_locked` | `Connect`, `FlushPending`, `Confirm`, `Publish`, `Accept`, `Flushed` |
| `append`, `_publish_locked`, the service's receipt | `AppendRecord`, `Publish`, `Accept`, `JournalReceipt`, `AppendRaises` |
| `verify_event` | `VerifyEvent` |
| `_reconcile_provider_receipts` | `ReconcileReceipt`, `Serve` |

Run `telemetry_delivery` (two records of one or two episodes): receipts, durable,
in memory and superseded, never claim what the provider does not have
(`ReceiptsTruthful`) and after a start they claim all it has (`ClaimsComplete`),
together `DeliveryTruthful`; nothing acknowledged is withdrawn (`NeverDowngraded`)
and delivery implements the outbox (`OrderedOutbox`), together `DeliveryOrdered`.
Two records are a pending one and a newer one behind it; `DeliveryTruthful` and the
invariant of its proof hold with three as well (13.5 million states).
Assumptions: a publish that raised has reached the provider by the time its
transport is closed or never does, since the transport is closed on failure and
a later one reads the log before it publishes; `initialize` is called at startup
only, as `api_backend.startup` does; and no task awaiting an append is cancelled, since
`_publish_locked` handles a publish that raised an `Exception` and a cancellation is none
(`telemetry/laserdata.py:480`). After a cancelled publish the connection would stay and
the next record could overtake the one in doubt. No caller in the repository cancels an
append; `EpisodeLifecycle` allows it all the same (`CancelAppend`), as its properties do
not depend on the provider's order.

### GraphLedger, GraphMemory and GraphViews

`GraphLedger` is a growing set of facts in which an identity keeps its content
and a fact follows those it refers to. `GraphMemory` is `ResilientGraphMemory`
over the append-only cache and FalkorDB: `file` is the JSONL file with torn and
glued lines, `events` what the process has loaded, `remote` FalkorDB,
`reconciled` the cursor of the last replay, `call` each thread's call. Appends
are atomic under the cache's lock; a replay is one request per fact under the
reconciliation lock, and appends go on meanwhile.

| Code | Actions |
|---|---|
| `AppendOnlyGraphCache._load`, `_record`, `_append` | `Start`, `Write`, `AppendFails` |
| `_write`, `_reconcile_if_needed`, `replay_to_with_cursor` | `Write`, `Reconcile`, `ReplayFact`, `Replayed`, `Receipt` |
| `query_curriculum`, `health`, `synchronize_local_cache` | `Ask`, `Reconcile`, `ReplayFact`, `QueryFails`, `Answered` |
| the process dies | `Crash` |

In run `records_side_by_side` (two threads, three facts of two identities, one
referring to another) it is the subject of which `MemoryTruthful` is checked: nothing
acknowledged or sent to FalkorDB is forgotten, by a process that is up or by a file that
loads (`NothingForgotten`); the file can be loaded unless an append that raised damaged
it (`CacheLoadable`, `Damaged`); FalkorDB is never sent a fact it would refuse and a
receipt that names it is true (`RemoteWellFormed`); a query misses nothing acknowledged
before it (`QueriesComplete`). `FactLedger`: FalkorDB always holds a ledger of facts, the
file until it is damaged. An append that raises leaves no line, the whole line or a torn
one, whatever is appended next, so that a file may also come to hold two contents of one
identity. `Damaged` says exactly what such an append can do, and `graph_torn_append`
that the damage is a finding: a fact acknowledged as mirrored is then in no file
(`MirroredIsDurable`). A line whole but for its newline counts as torn: the start after
it would load it, but the next append is glued to either. FalkorDB is assumed to keep what
it stored. In `GraphMemory` the process may always die and start again (`Crash`, `Start`),
so a deadlock check would say nothing.

`GraphViews` has the answers: the curriculum query as the local cache computes it
and as FalkorDB evaluates the Cypher text, and the operational projection. As a subject
of the same run it records a small experience graph in every admissible order and
asks every query: held-out experience reaches no curriculum (`TrainingOnly`,
`HeldOutIsInert`) and no projection, which is closed (`ProjectionClosed`), and
the two stores agree on the unfiltered query (`StoresAgree`); the three state
predicates are `ViewsAgree`. The graph has each
way a lesson can be tainted (held-out, mislabelled, unapproved), two lessons with
one signature, and a lesson trained into one, two and no policies. Query limits
are not reached.

### LiveVideo and LiveEpisodes

`LiveVideo` is the bounded frame store as operators; `LiveEpisodes` composes it
with the manager and the runner: `statuses`, `phase`, `cancelled` are the
manager's tables, `worker` where each worker thread is, `run` its locals,
`session` the episode in the service, `video` the store.

| Code | Actions |
|---|---|
| `start_episode`, `wait`, `cancel`, `shutdown` | `StartEpisode`, `StartRefused`, `Wait`, `Cancel`, `Shutdown` |
| `_run_worker` | `WorkerStarts`, `RunRaises`, `Abort`, `FinishVideo`, `Update`, `Return` |
| `LiveEpisodeRunner._run_async` | `Open`, `Capture`, `CheckCancel`, `RecordTick`, `Report`, `Physics`, `Close`, `FinishVideo` |
| `_prune_terminal_episodes_locked` | part of every action that calls it |

Run `live_episodes`: two episodes on one worker, as `runtime.py:186` deploys it,
with physics at 40 Hz, ticks at 20 Hz and frames at 30 Hz, so that frames fall
between ticks, and a time limit of three steps, which falls between two ticks.
What clients are shown is so (`LiveTruthful`): statuses are true (`StatusTruthful`),
telemetry is whole (`TelemetryWhole`), bytes are accounted for under limits that
force both ways of dropping frames (`VideoAccounted`). A cancellation is late for
one tick at most (`CancelTakesEffect`), and every run ends (`EveryRunEnds`). Fairness is weak fairness
of each worker's own steps: threads keep running; clients owe nothing.

### FixedPipeline and PipelineExecution

`FixedPipeline` is the abstract promise for one workflow run: one review, one
decision per gated step, results in the fixed order, none past an open gate.
`PipelineExecution` is the review with its three sequential sessions and cached
fallback, the execute and resume calls as coroutines (`caller`), RocketRide, which
keeps what it was sent (`tasks`) and calls back late or repeatedly, the
dispatcher's lock (`callback`), and the run in memory, in the cache and as
snapshots.

| Code | Actions |
|---|---|
| `review_workflow`, `review_plan` and its fallback | `AskReview`, `RoleReviews`, `GuildFails` |
| `submit_approval_decision` | `Decide` |
| `execute_workflow`, `resume_workflow`, `FixedPipelineExecutor.execute` | `Execute`, `Resume`, `Advance` in each of them and in `Answered` |
| `RocketRideSdkTransport.execute` and its fallback | `Send`, `Answered`, `RocketRideFails` |
| `FixedStepDispatcher.dispatch` | `Handle`, `RecordResult`, `HandlerFails` |
| restart, `_restore_workflows` | `Crash` |

Run `pipeline_execution` (two callers, four calls, two faults, three steps of
which two are gated, two of the three roles): what a run says is on record
(`RunsBacked`) and overlapping calls never take it back (`RunNeverRegresses`),
together `RunsStand`; handlers run once but for faults (`HandledOnce`), and the records implement
`FixedPipeline` (`PipelineOrder`). Three steps give an ungated first step, a gate
in the middle and the gated last one; four calls give a review each and two
overlapping executions, or an execution and a resume. An output stands for what
the handler returned; the receipt of the task that the transport adds to it is
left out. Runs that end `failed` (`orchestration/rocketride.py:167`, `:176`) are left out
too: the SDK transport turns every error into `RocketRideUnavailableError` (`:443`), and
the callback raises instead of answering that a world is not valid
(`backend/rocketride_callback.py:345`).

### CorrectionReview

Human corrections between the API, the episode service, the coordinator's tables
and graph memory: `submitted`, `approvedBy`, `rejected` and `attempts` are the
tables, `failures`, `correctionFact` and `lessonFact` what graph memory holds,
`corrections` and `approvals` the service's dictionaries, `call` what holds the
service's lock, `waiting` the requests that wait for it, and `answers` what humans
were told. An approval that has the lock does not await, so nothing runs beside it,
but the process may die between its transaction, its two facts and the record of
the delivery.

| Code | Actions |
|---|---|
| `_restore_journal`, `reconcile_provider_state`, `startup` | `Start`, `Reconcile`, `RetryDelivery`, `Serve` |
| `submit_correction` | `RequestSubmission`, `Submit`, `SubmissionFails` |
| `decide_correction` | `RequestApproval`, `Reject`, `RepeatDecision` |
| `approve_correction` | `Approve`, `RefuseApproval`, `RecordApproval`, `ApprovalRefused`, `TransactionFails` |
| `_deliver_correction`, `record_approval_delivery` | `WriteFact`, `WriteRaises`, `RecordDelivery`, `TransactionFails` |
| an append holds the lock; the process dies | `BeginAppend`, `EndAppend`; `Crash` |

Run `correction_review` (two corrections, two humans, two errors): a correction is
decided once and what anyone was told holds, although a rejection overtakes an
approval that waits for the lock (`DecisionsStand`); the journal leads
(`JournalLeads`): graph memory names the human on record and a recorded receipt is
true and final (`GraphBacked`), and training is fed what is approved on record
(`FeedMirrorsJournal`). `RestartDelivers` says that
restarts deliver an approval whose failure graph memory holds. The specification
has no fairness: the property assumes of a behaviour that the process goes down
and serves again for ever and that graph memory and the journal work from some
time on, and concludes delivery. Two errors are what it takes for an attempt to
be unlike the one before and like an earlier one. Failures appear in graph memory
with the closure's own delivery, at a start, and never leave it.

### Components that share no state: SideBySide and RecordsSideBySide

Twelve further modules, `GraphViews` and `GraphMemory` model components that share no
variable with another. Two modules put them side by side: `RecordsSideBySide` those that
keep records or answer from them (`GraphMemory`, which it extends, `GraphViews`,
`AssetPipeline`, `EventStreaming`, `WorkflowEvidence`), `SideBySide` the others
(`TrainingJobs`, which it extends, `PromotionGate`, `DeliveryRun`, `CommandSupervisor`,
`HeldOutAccess`, `Deployment`, `ControllerRuns`, `HttpApi`, `WorldPaths`). The variable
`subject` is chosen in the initial state and never changes, the subject takes the steps
of its own specification, and the variables of the others are `None` (those of the
extended module stay as they begin). A state of such a run is a state of one component,
so the run explores the disjoint union of their state graphs, and every property, stated
as `subject = ... => ...`, says of a component exactly what a run of that component
alone would say. Nothing about how these components interact is claimed by it.
`MCSideBySide` (run `side_by_side`) and `MCRecordsSideBySide` (run
`records_side_by_side`) give the small instances. The runs do not look for deadlocks,
since each instance stops when its calls, events or processes are used up. No
fairness is assumed and no liveness stated. Where two components have constants of one
name, one is renamed: `AssetBoots` and `EvidenceBoots` bound the startups of
`AssetPipeline` and `WorkflowEvidence`.

#### WorkflowEvidence

The rows of one held-out comparison in the coordinator (`store`), the startup that
imports it one transaction at a time (`server`, `tried`), the source episodes that
close and the lessons that are approved meanwhile, a client's bundle of evidence
and its review (`client`, `references`, `bundle`, `decision`) and what graph memory
is told of the candidate (`lineage`).

| Code | Actions |
|---|---|
| `admit_held_out_evaluation_from_env`, `admit_held_out_evaluation` | `Start`, `Admit`, `Crash` |
| `close_episode` of a source and its graph handoff, an approval that becomes a lesson | `CloseSource`, `HandOver`, `ApproveLesson` |
| `TrustedWorkflowEvidenceAdmitter.reproduce`, `review_workflow` | `Reproduce`, `Review`, `Observe` |
| `record_provider_evidence`, `record_workflow_guild_evidence`, `record_reviewed_numeric_decision` | `RecordReference`, `RecordBundle`, `RecordDecision` |
| the callbacks' lineage | `TrainCandidate`, `EvaluateCandidate` |

What was admitted stays backed by the stored rows and graph memory tells only of it
(`AdmittedEvidenceStands`); an import cut off at any transaction never blocks the
same import (`CutOffAdmissionResumes`). References are immutable under the ids the client
chooses, and a repeated review is refused one only because the client has given its id to
another kind of evidence, or because since the review that recorded it a source episode
was closed or a correction of a recurring failure approved; evidence whose facts did not
change is always admitted again (`RefusedOnlyByNews`).

Bounds: three artifacts (one of them fails a check), four configurations, which include
two evaluation times of one artifact, two startups, three source episodes with one
recurring failure, two lessons of one group, and two choices of ids, of which the second
uses an id of the first for another kind. An approval and its lesson are one step here
(`CorrectionReview` has the steps between them), each failure has one correction, and
whether an episode has been handed to graph memory is asked of the planned one only
(`evidence_admission.py:193`).

#### HeldOutAccess

The trust root and the files it pins, processes of `evaluate_heldout.py`
(`reviewed`) and `evaluate_development.py` (`developed`), the receipt of the access,
the output, and trainings that replace files under them. The file system's exclusive
creation and linking are the only synchronisation.

| Code | Actions |
|---|---|
| `verify_checked_in_trust_root` | `Verify`, `VerifyDevelopment` |
| `consume_checked_in_heldout_access`, `_atomically_consume` | `FindNoOutput`, `Consume` |
| `load_heldout_worlds`, `evaluate_heldout.main` | `LoadWorlds`, `LoadCandidate`, `Evaluate`, `WriteOutput`, `Ends` |
| `evaluate_development.main` | `RunDevelopment`, `FindNoEvidence`, `WriteEvidence` |
| training commands | `Train` |

`AccessEarnedOnce`: at most one invocation looks into the held-out worlds, it holds
the receipt, the evidence it was granted on was measured in development and favours
the selected checkpoint, and its output is of that checkpoint. Two racing
invocations, one development evaluation, six reviewed roots of which five are wrong
in one way each.

#### PromotionGate and DeliveryRun

`PromotionGate` measures one pair of policies over twenty worlds (`pair`) and
follows it through `evaluate_promotion`, the import and the review (`Decide`,
`Import`, `Review`), each of which computes the verdict with formulas of its own.
Rates are IEEE doubles; the module represents a number near k/20 as the record
`[k, e]` of its numerator and its rounding error in units of 2^-57/20, so that
thresholds are met, missed and rounded past as in the code. `VerdictsAgree`: the
three never disagree, and none promotes what `README.md` would refuse. `DeliveryRun`
is the loop of one evaluated delivery, `Step`, in which physics picks a situation and
the runner counts falls at every step and samples contacts, clearance, tilt and the
package at a lower rate, and `Check`, the outcome derived again at the import.
`SuccessIsMeasured`: a success is one, and the later readers agree. Four steps with
two between samples let a fall, a contact and the time limit come in the settling
step, between samples, or at a sample.

#### CommandSupervisor

The command in force, the pending one, and one action, `Advance`, for a physics step
in which policy, supervisor and controller run when due. `StopsOnTheRamp`: a stop
takes at most the ramp's ticks, and no step of it brakes harder than the ramp, grows
or overshoots. Speeds are three forward and three turning values, not multiples of the
decelerations, so that the last step of a ramp is a partial one.

#### AssetPipeline

The files of the cache and of the approval ledger (`files`, each absent, torn or
whole), what every caller and the startup are about to write (`work`), and what
`generate` has answered (`answers`).

| Code | Actions |
|---|---|
| `AssetGenerationPipeline.__init__`, `seed_verified_fallback` | `Boot`, `Seeded` |
| `generate` and its providers | `Generate`, `FromCache`, `Ask`, `Store`, `Stored`, `FallBack`, `Answer` |
| `refresh_admission`, `record_human_decision` | `Refresh`, `Decide`, `Decided` |
| `_write_once`, `_write_verified_pair` | `Create`, `Fill`, `FindWritten`, `WriteFails` |
| the process dies, also inside a write | `Crash` |

`AnswersStand`: a request is never answered with two bundles unless one is the
fallback, and what needs a human is served only with that human's approval on file. A write that raises
leaves its file absent, torn or whole; while a bundle is stored `generate` then falls
back, elsewhere the call raises. Decisions carry their time, so that no two are the same
record. Two callers, one human, two artifacts for one request, two boots.

#### TrainingJobs

The manager's lock (`lock`), its table (`jobs`, `active`), the threads and children of
the jobs, the manifests (`disk`), and what clients were told (`told`).

| Code | Actions |
|---|---|
| `from_env`, `_restore_jobs` | `Boot`, `Restore`, `Open` |
| `start`, `_run` | `Start`, `Begin`, `ChildEnds`, `Finish` |
| `_persist_job` | `Persist`, `PersistFails` |
| `get`, `list`; `shutdown` | `Tell`; `Shutdown`, `Exit` |
| the process dies, a child perhaps lives on | `Crash` |

`JobsStand`: what was told of an ended job stands through restarts unless its
manifest could not be written, completed means verified, and a process runs one job
at a time. Two jobs, four kinds of output, three processes. Proved in general.

#### EventStreaming

The hub's subscriptions and queues (`client`), events made durable by the workers and
published on the API's loop, and the shutdown that joins the workers, closes the hub
and stops the backend.

| Code | Actions |
|---|---|
| `OperationalEpisodeRuntime` | `OpenEpisode`, `AppendEvent` |
| `LiveTelemetryHub` | `Publish`, `Subscribe`, `CloseHub` |
| `live_episode`, `LiveSubscription.receive` | `Receive`, `Disconnect` |
| the application's lifespan | `Serve`, `StartupFails`, `Stop`, `Join`, `StopBackend` |

`StreamsAccountForLoss`: every event published since a client subscribed has reached
it, is queued, or is in a count of lost ones it will be given. Queues of two and five
events per episode make a queue overflow more than once.

#### HttpApi

One request of any route: headers and chunks against the body limit, JSON, the
credential and its scope, the request model, the optional service, and the status an
outcome of the backend is mapped to; `Callback` is the route that does all this
itself. `ChangesEarned`: state changes at most once, only for a body within the limit
however it was declared and sent, a valid model and a credential with the route's
scope, and a success of a changing route has changed it. Chunks of 0, 1 and 3 units
against a limit of 2.

#### Deployment and ControllerRuns

`Deployment` is the supervisor command of the sandbox (`supervisor`), its state tree,
the recovery marker, the snapshots on the volume, and processes with pids that are
handed out again.

| Code | Actions |
|---|---|
| `daytona_process.main`, `stop_process`, `start_process` | `Begin`, `StopProcess`, `Launch`, `RecordIdentity` |
| `recover_latest` | `Recover`, `Install`, `RecoveryFails` |
| `export_snapshot` | `OpenSnapshot`, `CopyFiles`, `WriteManifest` |
| what happens to it | `Crash`, `LoseSandbox`, `Write`, `ProcessEnds`, `OtherProcess` |

A start goes on only with a whole tree (`NeverHalfRestored`), and only an API process
is ever killed (`OnlyTheApiIsStopped`). The look at a process and the signals that
follow it (`daytona_process.py:64`, `:76`, `:85`) are one step: a pid that ends and is
handed out again between them is left out, as no check of the code's could exclude
it. `ControllerRuns` is a run directory and the
command working on it, with `RunTraining`, `RecoverAttempts`, the writes of an attempt
(`MakeAttempt` to `FailAttempt`), `ExportRun` and its writes, `MeasureController`,
`QualifyRun`, `SelectCheckpoint`, `CopyEvidence` and `Crash` between any two. What is
called qualified was measured on that controller, and what is selected is the latest
that passed (`ControllerEarned`); a training that completed is not run again
(`TrainedOnce`). Two state roots with one version each, two pids and two snapshots;
two attempts of two checkpoints.

#### WorldPaths

`Place`, `GiveUp`, `Validate`, `Accept`, `Refuse` are the generator and its gate,
`Expand` and `EndSearch` one pop of the A* heap and the end of the search, on a grid of
6 by 4 cells with lengths in half cells. `PathsEarned` compares with a breadth-first
reference: a path is found if there is one, is as short as any, keeps its distance
from every obstacle along every move, and an accepted world has its objects in the
room and apart. A path is of cells: the legs from the exact start to its cell's centre
and from the last one to the destination (`pathfinding.py:127`) are within a cell
and nothing is claimed of them. Objects touch, stand at inclusive edges, and wall the room off.

## 3. Proofs

All proofs are by an inductive invariant, found by TLC first, with one step per
action; the temporal conclusion is one PTL step. They hold for every value of
the constants allowed by the named assumptions of the modules. A run of a proved
module states its type invariant, if at all, as a conjunct of another property.

`EpisodeLifecycle_proofs` assumes `EpisodesAssumption`. The properties are not
inductive alone: they need what each step of `op` knows (a `closure` step has
complete receipts, what a delivery has written so far is in graph memory at every
step, a `terminal` step has its closure committed), that receipts are always a
gap-free prefix of the spool, and that during startup every session not in
`todo` has passed its check. `InductiveInvariant` proves that conjunction;
`TypeCorrect`, `JournalAlwaysRestorable`, `GraphNeverAhead`,
`DeliveryReportsTrue`, `GraphAlwaysFollows` and `SessionsMirrorJournal` follow.
`HistoryAlwaysFinal` is the action property: under the invariant every step only
extends what the tables say of an episode (`HistoryStep`, one step per action that
changes them). `DigestsCoverTelemetry` assumes `TxMayFail = FALSE` and adds
`DigestInvariant`: the records an operation closes over stay all there are, because the
session of a closure row is not open and so no second closure is ever under way. With failing commits that is false, and
`episode_post_close_append` shows how.

`PolicyGovernance_proofs` assumes `GovernanceAssumption`. Its first lemmas show
that each step only grows the ledgers; facts about a ledger that were once true
therefore stay true, and the invariant is the conjunction of what each actor
knows: `TasksSound` (a coroutine past its read has a valid source policy),
`ReviewsSound`, `DecisionsSound`, `ResultsSound`, `CallbackSound` and
`EventsSound` (each alias event is backed by its decision, review, answers and
results). `AuthorityIsInOrder`, `AliasMovesAsMeasured`, `DecisionsAppliedOnce`,
`CallbackResultsTrue` and `LedgersNeverRewritten` follow from it, and
`ImplementsAliasLedger`: initial states map to initial states and every step is
an `Initialize`, a `Move` or a stutter of `PolicyAlias`.

`PipelineExecution_proofs` assumes `PipelineAssumption`. The invariant `IInv` adds
to the checked properties what each actor has seen: `CallersSound` (the steps a
call holds are the first results), `CallbackSound` (the handler at work passed
its checks and is next in order), `ResultsSound` (no result without an executable
review and its approval), `Handling` (each handling is accounted for by a result,
the callback at work or a fault) and `CachedWhole`. It is inductive because the
records only grow: `BackedStays` carries a run's backing across any step, and
`AdvanceStops` shows that wherever the executor stops no result lies beyond, so
that what it keeps is at least as far as everything kept before (`KeepSound`).
`RunsAlwaysStand`, `HandlersRunOnce` and `ImplementsFixedPipeline` follow.

`CorrectionReview_proofs` assumes `CorrectionAssumption`. `IInv` adds to the tables'
properties that the service's approvals are those on record (`MemorySound`), that
what startup still has to deliver has no receipt (`TodoSound`), and what each step
of the call under way has established (`CallSound`): its approval is durable from
the `correction` step on, its correction is stored at the `lesson` step, and a
receipt it is about to record is true. `RecordedAttempts` is the lemma that makes
it inductive: an attempt that is not kept again cannot be a receipt, since only
approvals without one are delivered. `DecisionsAreFinal` and `JournalAlwaysLeads`
follow.

`TelemetryDelivery_proofs` assumes `TelemetryAssumption`. `LogSound` says that the
provider's log is the spool's first records in order, each once, and that what is
accepted is in it; `OpSound` what the operation that holds the backend's lock knows
(what is about to be published comes next in the log, what is about to be accepted is
in it); `CaughtUp` that with an active provider and nothing left to publish the log is
the whole spool; `ReconcileSound` and `ReceiptSound` relate receipts in memory, durable
and superseded. That the first pending record is the next of the log rests on
`LeastElement`, a set of numbers has a least one, from the library's well-founded sets.
`DeliveryAlwaysTruthful` and `DeliveryIsOrdered`, which contains the refinement of
`TelemetryOutbox`, follow.

`LiveEpisodes_proofs` assumes `VideoAssumption`, `LiveAssumption` and `FramesAssumption`
and has three invariants, one upon the other.

* `ClockInv` is about the locals of a run and where its worker is. `RunGood` relates
  four counters that advance at different times: what was captured was due (`Captured`),
  what waits to be joined is what was captured since the latest tick (`PendingGood`), and
  each record has the frames of its tick, the last one alone being perhaps the completed
  one (`RecordsGood`). `Placed` says how far a run is at each place of the loop: the n-th
  tick is recorded at step `n * Ratio` and at no other, all the frames due by then
  captured, and time is not up before it. That a frame's tick, a quotient rounded up,
  is the one that follows it is `Assigned`; that a tick comes after the frames it is
  joined to, `FrameTime`. Nothing is left to join when an episode is closed, since no
  frame was captured after the last tick.
* `IInv` is about what the actors share. `PhaseSound`, `SessionSound`, `VideoSound` and
  `LateSound` say, for each place of a worker, which phases its episode may show, what has
  become of its session, whether its video is closed and how many frames it was given (as
  many as the run has captured, so that the next index is never refused), and how late a
  cancellation is; `Shape` that the tables have their domains and that the video store is
  good (`StoreGood` and `Limits`): a buffer holds consecutive frames up to its latest, the
  order lists the frames of an episode in the order they came, every buffered one among
  them, and the byte count is a sum over the buffers. Pushing out the oldest frame of any
  episode (`DropGlobalKeeps`) is where the parts need each other: the first entry of an
  episode in the order is its oldest frame or is stale. Sums over finite sets are a
  recursive function of the community modules; `SumWithout` and `SumOfSame` are what is
  used of them, each by the least counterexample. The `...Keeps` lemmas say what every
  operation of the store preserves.
* `TableInv`: the table lists the episodes that have a phase.

`LiveAlwaysTruthful` follows, with its parts `StatusAlwaysTruthful`,
`TelemetryAlwaysWhole` and `VideoAlwaysAccounted`, and `CancelAlwaysTakesEffect`.

`SideBySide_proofs` and `RecordsSideBySide_proofs` have one section per component. Its
invariant is `subject = ... => ...Sound`; a lemma (`...Frame`) says that every step is one
of the subject or leaves the component's variables alone, so that the argument is about
the component's own `Next`, and the theorem is of the run's specification; graph
memory, whose module the run extends, has its theorems of its own specification.

`SideBySide_proofs`:

* Training jobs (`TrainingAssumption`). `LockSound`, `ThreadSound`, `DiskSound`,
  `CompleteSound`, `AnswerSound` and `ServiceSound` say what a step that holds the lock has
  already changed in memory and not yet on disk, which jobs may have a thread, and what
  disk and memory say of a job once a client has been told. `JobsAlwaysStand` follows.
* Held-out access (`HeldOutAssumption`). `AccessSound` and `ReviewSound`: what each
  invocation has read and verified, and that the receipt is of a reviewed root.
  `AccessAlwaysEarned` follows.
* HTTP requests (`HttpAssumption`). `RequestSound` ties each stage of a request to the
  checks behind it and `ChangesSound` each change to such a request. `ChangesAlwaysEarned`
  follows.
* Delivery runs (`DeliveryAssumption`). `RunSound`, `Measured` and `Bounds`: the run's
  counters never leave what its steps can have measured, and what was seen happen is
  what the metrics say. `SuccessAlwaysMeasured` follows.
* The command supervisor (`RampAssumption`). `RampSound` bounds the command at every
  control step of a stop by what the deceleration leaves of the largest speed; with
  `RampTicks` of them it is zero. `AlwaysStopsOnTheRamp` is an action property.
* Deployment (`DeploymentAssumption`). `RestoringSound` says what a cut-off recovery leaves
  behind its marker, `IdentitySound` which process a pid record may name, `CommandTyped`
  where the command is. `NeverHalfRestoredAlways` and `OnlyTheApiAlwaysStopped` follow.
* Controller runs (`ControllerAssumption`). `AttemptsSound`, `ContractSound`,
  `SelectedSound`, `ManifestSound` and `WorkSound`: which checkpoints each attempt has, what
  the contract says of them, and what the step under way has chosen from them.
  `ControllerAlwaysEarned` and the action property `CompleteNeverTrainedAgain` follow.
* The promotion gate (`GateAssumption`). `OneGate` shows that the artifact's and the
  review's formula are the same condition on the counts, `RatesCount` that a rounded rate
  or difference not below another has not the lower count, since rounding never moves a
  rate to another count's. `VerdictsAlwaysAgree` follows.
* World generation (`WorldsAssumption`). `CostsSound`: a cell's best cost is at least one
  more than that of the cell it was reached from; `HeapSound`: no entry of the heap is
  cheaper than its cell's best cost; `ExpandedSound`: a cell whose best cost is no longer
  in the heap was expanded, so that its free neighbours cost at most one more.
  `LayersSearched` shows from these that a cell the reference reaches within n moves has
  at most that cost, or a heap entry leads to it within as many, so that an empty
  heap, or the goal on top of it, says what the reference says. `LayersClose` counts
  cells to show that the reference's layers stop growing within its bound, `ChainsWalk`
  that the chain of predecessors is a walk of that length, and `MovesKeepClear` that a
  move between traversable cells keeps its distance. The inductions on lengths take the
  least counterexample. `PathsAlwaysEarned` follows.

`RecordsSideBySide_proofs`:

* Graph memory (`GraphAssumption`), with every append allowed to raise and to leave no
  line, a whole or a torn one. `FileSound` says that the file has at least the lines in
  memory, that it loads or is damaged, and that as long as it loads it holds everything
  acknowledged, everything FalkorDB was sent and everything in memory; `MemorySound` that
  facts in memory have one content per identity, follow those they refer to and include
  the acknowledged; `Mirrored` that FalkorDB holds the facts up to a cursor; `CallSound`
  what each call has established. The lemmas `StaysLoadable` and `DamageStays` say what an
  append does to a file that loads and to a damaged one. `MemoryAlwaysTruthful` and
  `FactsAreLedger` follow, of `GraphMemory`'s specification.
* Workflow evidence (`EvidenceAssumption`). `RowsPart` relates the rows of a startup's
  transactions to each other, `ServerPart` an admission under way to the rows it has
  written, `ClosedPart` the sources closed, `ReferencesPart` and `ClientPart` what was sent
  and answered to what was stored and to the facts of the review that recorded it, `BundlePart` the bundle under review.
  `AdmittedEvidenceAlwaysStands`, `CutOffAdmissionAlwaysResumes` and `AlwaysRefusedByNews`
  follow.
* Assets (`AssetAssumption`). Files are created once: an open file is torn and nobody
  else has it open (`OpenApart`), a whole file stays as it is (`FilesSound`), and what
  a caller has in hand is on record (`CallerSound`, `AnswerSound`). `AnswersAlwaysStand`
  follows.
* Live streams (`StreamAssumption`). `WorkersPart` says that one event waits to be
  published exactly while its worker publishes it, `ShutdownPart` that the workers end
  before the hub closes, `ClientsPart` that a queue is numbered upwards (`Rising`) and
  that received, lost and queued are everything published (`Whole`). The total of a queue
  is a recursive function; that it grows and shrinks by one item (`TotalOfMore`,
  `TotalOfRest`) is proved from `LeastElement` by looking at the least index at which two
  totals would differ. `StreamsAlwaysAccount` follows.
* Graph views (`ViewAssumption`). `FactsSound`: what a recorded fact refers to is recorded
  and an episode has its world's split. `ViewsAlwaysAgree` follows; for the action property
  `HeldOutIsAlwaysInert`, recording anything keeps every traversal (`TraversalStays`), and
  a lesson from a held-out world is not eligible (`HeldOutIneligible`), so that
  the curriculum and both answers stay (`Steady`, `SameCurricula`).

The assumptions on constants, and what in the code justifies them: `None`, `Torn` and the
like are no values of the data they stand beside (`HeldOutAssumption`, part of the
others); counts, sizes and limits are numbers in the ranges the code checks or builds
(`DeliveryAssumption`, `DeploymentAssumption`, `ControllerAssumption`, `StreamAssumption`);
a policy's speeds are the robot's and decelerations are positive (`RampAssumption`); the
gate compares counts over twenty worlds (`GateAssumption`); a room, its objects and a
world's ends have numbers for sizes and places, and the robot keeps half a cell or more
from an obstacle, 0.53 m by the shipped rules against 0.1 m (`WorldsAssumption`); a fact is immutable, so that
an identity has one content (`GraphAssumption`, `ViewAssumption`); two verified
comparisons measured the same baseline alike, as it is deterministic
(`EvidenceAssumption`); a tick of a live run is a whole number of physics steps, as
`live/runner.py:624` divides them (`LiveAssumption`), and every frame has a size
(`VideoAssumption`, `FramesAssumption`). TLC evaluates each on the instance of its run.

Every safety property that a passing run checks, and every action property, is proved.
Only model-checked is liveness: `ClosureBecomesTerminal`, `EveryRunEnds` and
`RestartDelivers` stay with TLC, since temporal reasoning under fairness and `ENABLED`
is out of the prover's reach. The library's induction theorems take an operator as a
parameter, which the provers cannot instantiate; the proofs that need induction over
numbers take the least counterexample instead. No RECURSIVE operator can be used in a
module with a proof.

## 4. State of the plan

Modelled, checked and proved: `EpisodeLifecycle`, `PolicyGovernance` over
`PolicyAlias`, `PipelineExecution` over `FixedPipeline`, `CorrectionReview`,
`TelemetryDelivery` over `TelemetryOutbox`, `GraphMemory` over `GraphLedger`,
`GraphViews`, `WorkflowEvidence`, `AssetPipeline`, `EventStreaming`, `TrainingJobs`,
`HeldOutAccess`, `PromotionGate`, `DeliveryRun`, `CommandSupervisor`, `HttpApi`,
`Deployment`, `ControllerRuns`, `WorldPaths`, and `LiveEpisodes` over `LiveVideo`.

Left: the composition of `EpisodeLifecycle` with `CorrectionReview`, which share the
service's lock and are related today by the failures the one writes and the other
reads at a start.

## 5. Findings

With a run:

* `episode_retry_refused`: a second failed startup retry can stop the backend for
  good, since graph delivery rows have a table-wide unique content hash but the
  code compares with the episode's latest row only.
* `episode_post_close_append`: when the terminal transition fails after the
  closure is durable, the session is reopened and accepts telemetry its digest
  does not cover.
* `graph_torn_append`: an append behind a torn line is glued to it; its fact is
  acknowledged and the file no longer loads.

Observed, without a run:

* The `WHERE` of the Cypher curriculum query (`graph_memory/falkordb.py:259`) follows
  an `OPTIONAL MATCH` and so belongs to that optional pattern: with filters,
  FalkorDB returns lessons the local cache leaves out, with a null trained policy.
  `GraphViews` models both queries as they are; `StoresAgree` is stated for the
  unfiltered query, which is the one training lineage asks.
* A reconciled receipt is compared with all earlier upgrades of the record
  (`coordinator/store.py:772`), so one that returns to an earlier value is not
  recorded, and the durable receipt is not the one in the session until another
  value is reconciled. `TelemetryDelivery` models the comparison as it is.
* The lineage of a trained policy links the lessons it admitted that are still in
  the answer of a curriculum query (`episodes/service.py:580`), which keeps one
  lesson per group and at most 100. A lesson approved since may displace an
  admitted one, whose link is then silently left out.
* Evidence admission keeps one approval per failure
  (`backend/evidence_admission.py:295`), while several corrections of one failure
  may be approved.
* An append's receipt reports the backend's provider state
  (`telemetry/laserdata.py:440`), which may be `end_to_end_verified` because of an
  earlier record, although this one has not been read back.
* The episode service's `asyncio.Lock` (`episodes/service.py:153`) is shared by the
  API's event loop and the loops of live workers; a contended acquire from a
  second loop raises. The models take the lock to exclude.
* Run snapshots (`coordinator/store.py:1589`), like receipt upgrades, are compared
  with every earlier snapshot. Runs carry a time of check, so that equal ones do
  not come up; `RunNeverRegresses` holds whether they do or not.
* With the exact counts, 13 successes of the baseline and 17 of the candidate are the
  twenty percentage points `README.md:251` asks for; in doubles 0.85 - 0.65 is below
  0.2, and `evaluation/promotion.py:135` holds the candidate back. `VerdictsAgree`
  therefore says that rounding lets nothing through, not that it holds nothing back.
* A torn file of the built-in fallback asset, left by a crash in its first seeding,
  makes every later startup raise. An alias whose checksum was not written blocks its
  request, and a decision of which a crash left only the checksum can neither be read
  nor taken again.
* A training child outlives a killed process, and the next process, which marks its
  job interrupted, may start another: two trainings then run. A job whose beginning
  could not be persisted stays active in that process for ever.
* A crash between the receipt of the held-out access and the output burns the access;
  the bundle of worlds is loaded after it was verified, and
  `ops/policy/evaluate_development.py:117` looks whether its output exists before it
  writes it, so two evaluations may both write.
* `ops/deployment/daytona_process.py` with `--stop` after a cut-off recovery exports the
  partial tree as the newest complete snapshot, since only `recover_latest`
  (`ops/deployment/daytona_state.py:114`) looks at the marker; the next empty sandbox
  recovers it. `docs/daytona-deployment.md:36` only promises complete manifests. A crash
  between the launch and the pid file leaves an API process no record names.
* A crash between an attempt's directory and the contract's entry for it
  (`ops/controller/remote_job.py:337`) makes every retry raise `FileExistsError`.
  Export and qualification may be of the checkpoint of an interrupted attempt, although
  the contract asks that one attempt finish the plan (`ops/controller/remote_job.py:184`).
  A training run repeated after a selection exports the latest checkpoint again,
  unqualified.
* The search of `worlds/generation/pathfinding.py` never meets a stale heap entry, as
  its heuristic is consistent. Rounding to three decimals may move a drawn object
  outside the room; the gate finds it.
* A graph append that raised with its line durable, followed by another content of that
  identity, leaves a file that no start loads (`graph_memory/cache.py:379`). It is part of
  `Damaged` in `GraphMemory`.

## 6. Not modelled

Physics, sensors, scene building, policy networks, behaviour cloning, datasets and
experts are floating-point numerics without state that outlives a call; what becomes
of their results is in `DeliveryRun`, `PromotionGate`, `TrainingJobs` and
`HeldOutAccess`. The robot's identity bundle is checked against a static list of
hashes. The frontend is presentation. The sponsors' verification scripts talk to
providers and write a report. The view models and the redaction of the API, the
schema and row decoding of the store, and read-only queries hold no state. The frozen
world bundles and the ranges of physical parameters are data. Hashes and signatures
are assumed collision-free and unforgeable. Wall-clock time appears only as "a timeout
may fire", and as observation times where they are compared.
