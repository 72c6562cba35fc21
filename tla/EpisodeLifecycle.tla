------------------------- MODULE EpisodeLifecycle -------------------------
(***************************************************************************)
(* The lifecycle of training episodes: EpisodeService (episodes/service.py) *)
(* over CoordinatorEpisodeJournal (backend/episode_journal.py), which spans *)
(* several CoordinatorStore transactions per call (coordinator/store.py),   *)
(* the durable telemetry spool (telemetry/durable.py) and graph memory.     *)
(*                                                                         *)
(* One process serves the episodes.  asyncio.Lock lets one service call run *)
(* at a time, so at most one operation op is in flight; it is cut at every  *)
(* durable commit and every await, and the process may crash between any    *)
(* two of them.  A restart replays the journal: recovering finishes coordi- *)
(* nator transitions, restoring rebuilds the sessions and refills receipts, *)
(* retrying redelivers incomplete graph reports.                            *)
(*                                                                         *)
(* Abstracted: a record is its sequence number; receipts carry no content   *)
(* (see TelemetryDelivery); a closure is how many records its digest covers *)
(* and the measured outcome; the world, obstacle and policy facts that      *)
(* precede an episode in graph memory are one record, Parents, the same for *)
(* all episodes run in that world with that policy, and the failures of an  *)
(* unsuccessful one, which follow it, are one record.                       *)
(***************************************************************************)
EXTENDS Integers, Sequences, FiniteSets

CONSTANTS Episodes,     \* episode identities the clients open
          MaxRecords,   \* bound: telemetry records per episode
          GraphErrors,  \* exception types a graph-memory write can raise
          Parents,      \* the graph facts an episode record refers to
          NoError,      \* GraphPersistenceReport.error_type is None
          NoEpisode,    \* no operation is under way
          NoClosure,    \* no closure row / no closure under way
          TxMayFail     \* TRUE: a coordinator commit may raise (disk full, locked)

\* The failures of an unsuccessful episode, as facts of graph memory.
Failures(e) == <<"failures", e>>

ASSUME EpisodesAssumption ==
  /\ MaxRecords \in Nat
  /\ TxMayFail \in BOOLEAN
  /\ Parents \notin Episodes
  /\ \A e \in Episodes : Failures(e) \notin Episodes \cup {Parents}
  /\ NoError \notin GraphErrors

VARIABLES coordState,   \* latest episode_transitions state of each episode
          sessionRow,   \* training_episode_sessions has the identity
          receiptRows,  \* sequences in training_episode_receipts
          closureRow,   \* training_episode_closures
          graphRows,    \* training_episode_graph_deliveries, in order
          spool,        \* number of records in the durable telemetry spool
          graphMemory,  \* facts present in graph memory
          service,      \* phase of the process
          todo,         \* episodes the current startup phase has left
          mem,          \* EpisodeService._sessions[e].state
          op            \* the operation holding EpisodeService._lock

durable == <<coordState, sessionRow, receiptRows, closureRow, graphRows,
             spool, graphMemory>>
vars == <<coordState, sessionRow, receiptRows, closureRow, graphRows, spool,
          graphMemory, service, todo, mem, op>>

-----------------------------------------------------------------------------
Terminal == {"succeeded", "failed", "aborted"}
CoordStates == {"none", "created", "running"} \cup Terminal
Closures == [records : 1..MaxRecords, success : BOOLEAN]
Facts == {Parents} \cup Episodes \cup {Failures(e) : e \in Episodes}
\* A delivery as it goes, and as it is recorded: with the number of facts that
\* were expected.
Attempts == [receipts : SUBSET Facts, error : GraphErrors \cup {NoError}]
Reports == [receipts : SUBSET Facts, error : GraphErrors \cup {NoError}, expected : {2, 3}]
Steps == {"idle", "register", "session", "running", "publish", "receipt",
          "refill", "closure", "terminal", "parents", "episode", "failures",
          "deliver"}
NoReport == [receipts |-> {}, error |-> NoError]

\* Each running step of an operation carries the episode, the closure it is
\* recording and the graph report it is assembling.
Ops == [step : Steps, ep : Episodes \cup {NoEpisode}, closure : Closures \cup {NoClosure},
        report : Attempts]

Outcome(c) == IF c.success THEN "succeeded" ELSE "failed"
ReceiptCount(e) == Cardinality(receiptRows[e])
Idle == [step |-> "idle", ep |-> NoEpisode, closure |-> NoClosure,
         report |-> NoReport]
Begin(step, e) == [Idle EXCEPT !.step = step, !.ep = e]
Goto(step) == op' = [op EXCEPT !.step = step]

\* The facts a closed episode leads to, and how many.
Expected(e) == IF closureRow[e].success THEN 2 ELSE 3
FactsOf(e, expected) == {Parents, e} \cup IF expected = 2 THEN {} ELSE {Failures(e)}

\* GraphPersistenceReport.complete: every expected write has its receipt.
Complete(e, r) == r.error = NoError /\ r.receipts = FactsOf(e, r.expected)
\* The graph report of the session's closure: the last delivery row, else the
\* pending report stored with the closure, which is never complete.
Latest(e) == graphRows[e][Len(graphRows[e])]
DeliveryComplete(e) == graphRows[e] # <<>> /\ Complete(e, Latest(e))

Free == service = "up" /\ op.step = "idle"
At(step) == op.step = step

Init ==
  /\ coordState = [e \in Episodes |-> "none"]
  /\ sessionRow = [e \in Episodes |-> FALSE]
  /\ receiptRows = [e \in Episodes |-> {}]
  /\ closureRow = [e \in Episodes |-> NoClosure]
  /\ graphRows = [e \in Episodes |-> <<>>]
  /\ spool = [e \in Episodes |-> 0]
  /\ graphMemory = {}
  /\ service = "down"
  /\ todo = {}
  /\ mem = [e \in Episodes |-> "absent"]
  /\ op = Idle

-----------------------------------------------------------------------------
\* The process ends, by a crash or because startup raised: only SQLite, the
\* spool and graph memory keep their contents.
Die(phase) ==
  /\ service' = phase
  /\ todo' = {}
  /\ mem' = [e \in Episodes |-> "absent"]
  /\ op' = Idle

Crash ==
  /\ service \notin {"down", "refused"}
  /\ Die("down")
  /\ UNCHANGED durable

Journaled == {e \in Episodes : sessionRow[e]}
Sessions == {e \in Episodes : mem[e] # "absent"}

Start ==
  /\ service \in {"down", "refused"}
  /\ service' = "recovering"
  /\ todo' = Journaled
  /\ UNCHANGED <<durable, mem, op>>

\* The states _recover_transitions raises on.
RecoverRefuses(e) ==
  IF closureRow[e] = NoClosure
  THEN coordState[e] \notin {"created", "running", "aborted"}
  ELSE coordState[e] \notin {"running", Outcome(closureRow[e])}

\* Mutant: startup leaves the transition of a durable closure unfinished.
RecoveredSkipsClosure(e) ==
  IF coordState[e] = "created" THEN "running" ELSE coordState[e]

Recovered(e) ==
  IF closureRow[e] # NoClosure THEN Outcome(closureRow[e])
  ELSE IF coordState[e] = "created" THEN "running" ELSE coordState[e]

RecoverTransition(e) ==
  /\ service = "recovering"
  /\ e \in todo
  /\ \/ /\ RecoverRefuses(e)
        /\ Die("refused")
        /\ UNCHANGED durable
     \/ /\ ~RecoverRefuses(e)
        /\ coordState' = [coordState EXCEPT ![e] = Recovered(e)]
        /\ todo' = todo \ {e}
        /\ UNCHANGED <<sessionRow, receiptRows, closureRow, graphRows, spool,
                       graphMemory, service, mem, op>>

BeginRestore ==
  /\ service = "recovering"
  /\ todo = {}
  /\ service' = "restoring"
  /\ todo' = Journaled
  /\ UNCHANGED <<durable, mem, op>>

\* The journal contents _restore_journal raises on.
RestoreRefuses(e) ==
  \/ ReceiptCount(e) > spool[e]
  \/ receiptRows[e] # 0 .. (ReceiptCount(e) - 1)
  \/ closureRow[e] # NoClosure /\ coordState[e] = "aborted"
  \/ closureRow[e] # NoClosure /\ spool[e] = 0

\* Mutant: the restored session ignores the closure row.
RestoredForgetsClosure(e) ==
  IF coordState[e] = "aborted" THEN "aborted" ELSE "open"

Restored(e) ==
  IF closureRow[e] # NoClosure THEN "closed"
  ELSE IF coordState[e] = "aborted" THEN "aborted" ELSE "open"

RestoreSession(e) ==
  /\ service = "restoring"
  /\ At("idle")
  /\ e \in todo
  /\ \/ /\ RestoreRefuses(e)
        /\ Die("refused")
     \/ /\ ~RestoreRefuses(e)
        /\ mem' = [mem EXCEPT ![e] = Restored(e)]
        /\ todo' = todo \ {e}
        /\ op' = Begin("refill", e)
        /\ UNCHANGED service
  /\ UNCHANGED durable

\* reconcile_provider_state, run again after the provider has started.
ReconcileProviderState ==
  /\ Free
  /\ service' = "reconciling"
  /\ todo' = Sessions
  /\ UNCHANGED <<durable, mem, op>>

ReconcileSession(e) ==
  /\ service = "reconciling"
  /\ At("idle")
  /\ e \in todo
  /\ todo' = todo \ {e}
  /\ op' = Begin("refill", e)
  /\ UNCHANGED <<durable, service, mem>>

\* _retry_incomplete_graph_deliveries visits every session in memory.
BeginRetry ==
  /\ service \in {"restoring", "reconciling"}
  /\ At("idle")
  /\ todo = {}
  /\ service' = "retrying"
  /\ todo' = Sessions
  /\ UNCHANGED <<durable, mem, op>>

RetryDelivery(e) ==
  /\ service = "retrying"
  /\ At("idle")
  /\ e \in todo
  /\ todo' = todo \ {e}
  /\ op' = IF mem[e] = "closed" /\ ~DeliveryComplete(e)
           THEN Begin("parents", e) ELSE Idle
  /\ UNCHANGED <<durable, service, mem>>

Serve ==
  /\ service = "retrying"
  /\ At("idle")
  /\ todo = {}
  /\ service' = "up"
  /\ UNCHANGED <<durable, todo, mem, op>>

-----------------------------------------------------------------------------
\* open_episode: record_identity is three transactions.
OpenEpisode(e) ==
  /\ Free
  /\ mem[e] = "absent"
  /\ spool[e] = 0
  /\ op' = Begin("register", e)
  /\ UNCHANGED <<durable, service, todo, mem>>

\* register_training_episode: a repeated identity finds its own row.
RegisterEpisode ==
  /\ At("register")
  /\ coordState' = [coordState EXCEPT ![op.ep] =
                      IF @ = "none" THEN "created" ELSE @]
  /\ Goto("session")
  /\ UNCHANGED <<sessionRow, receiptRows, closureRow, graphRows, spool,
                 graphMemory, service, todo, mem>>

RecordSession ==
  /\ At("session")
  /\ sessionRow' = [sessionRow EXCEPT ![op.ep] = TRUE]
  /\ Goto("running")
  /\ UNCHANGED <<coordState, receiptRows, closureRow, graphRows, spool,
                 graphMemory, service, todo, mem>>

EnterRunning ==
  /\ At("running")
  /\ \/ /\ coordState[op.ep] \in {"created", "running"}
        /\ coordState' = [coordState EXCEPT ![op.ep] = "running"]
        /\ mem' = [mem EXCEPT ![op.ep] = "open"]
     \/ /\ coordState[op.ep] \in Terminal
        /\ UNCHANGED <<coordState, mem>>
  /\ op' = Idle
  /\ UNCHANGED <<sessionRow, receiptRows, closureRow, graphRows, spool,
                 graphMemory, service, todo>>

\* append_telemetry: the next record is durable in the spool before the
\* backend awaits the provider; sequences other than the next are rejected.
AppendTelemetry(e) ==
  /\ Free
  /\ mem[e] = "open"
  /\ spool[e] < MaxRecords
  /\ spool' = [spool EXCEPT ![e] = @ + 1]
  /\ op' = Begin("publish", e)
  /\ UNCHANGED <<coordState, sessionRow, receiptRows, closureRow, graphRows,
                 graphMemory, service, todo, mem>>

\* The await ends with a provider result, or the call ends in it: the spool
\* cannot record the acceptance, or the task is cancelled.
PublishReturns ==
  /\ At("publish")
  /\ Goto("receipt")
  /\ UNCHANGED <<durable, service, todo, mem>>

CancelAppend ==
  /\ At("publish")
  /\ op' = Idle
  /\ UNCHANGED <<durable, service, todo, mem>>

\* Mutant: no contiguity check.
RecordReceiptUnchecked(e, seq) ==
  receiptRows' = [receiptRows EXCEPT ![e] = @ \cup {seq}]

\* record_training_episode_receipt inserts only the next contiguous receipt
\* and raises otherwise.
RecordReceipt(e, seq) ==
  receiptRows' = [receiptRows EXCEPT ![e] =
                   IF ReceiptCount(e) = seq THEN @ \cup {seq} ELSE @]

JournalReceipt ==
  /\ At("receipt")
  /\ RecordReceipt(op.ep, spool[op.ep] - 1)
  /\ op' = Idle
  /\ UNCHANGED <<coordState, sessionRow, closureRow, graphRows, spool,
                 graphMemory, service, todo, mem>>

\* append_telemetry with a record that is durable but has no receipt yet.
RetryAppend(e) ==
  /\ Free
  /\ mem[e] = "open"
  /\ ReceiptCount(e) < spool[e]
  /\ op' = Begin("refill", e)
  /\ UNCHANGED <<durable, service, todo, mem>>

\* _reconcile_unjournaled_receipts, one transaction per missing receipt.
Refill ==
  /\ At("refill")
  /\ \/ /\ ReceiptCount(op.ep) < spool[op.ep]
        /\ RecordReceipt(op.ep, ReceiptCount(op.ep))
        /\ UNCHANGED op
     \/ /\ ReceiptCount(op.ep) >= spool[op.ep] /\ op.closure = NoClosure
        /\ op' = Idle
        /\ UNCHANGED receiptRows
  /\ UNCHANGED <<coordState, sessionRow, closureRow, graphRows, spool,
                 graphMemory, service, todo, mem>>

\* Mutant: record_abort does not look for a closure.
AbortDespiteClosure(e) ==
  /\ Free
  /\ mem[e] = "open"
  /\ coordState[e] = "running"
  /\ coordState' = [coordState EXCEPT ![e] = "aborted"]
  /\ mem' = [mem EXCEPT ![e] = "aborted"]
  /\ UNCHANGED <<sessionRow, receiptRows, closureRow, graphRows, spool,
                 graphMemory, service, todo, op>>

\* abort_episode, one transaction: the journal refuses an episode that has a
\* closure or is not running.
AbortEpisode(e) ==
  /\ Free
  /\ mem[e] = "open"
  /\ closureRow[e] = NoClosure
  /\ coordState[e] = "running"
  /\ coordState' = [coordState EXCEPT ![e] = "aborted"]
  /\ mem' = [mem EXCEPT ![e] = "aborted"]
  /\ UNCHANGED <<sessionRow, receiptRows, closureRow, graphRows, spool,
                 graphMemory, service, todo, op>>

-----------------------------------------------------------------------------
\* close_episode: the digest covers the records durable when the call starts.
CloseEpisode(e, success) ==
  /\ Free
  /\ mem[e] = "open"
  /\ spool[e] > 0
  /\ op' = [Begin("refill", e) EXCEPT
             !.closure = [records |-> spool[e], success |-> success]]
  /\ UNCHANGED <<durable, service, todo, mem>>

ReadyToClose ==
  At("refill") /\ op.closure # NoClosure /\ ReceiptCount(op.ep) >= spool[op.ep]

\* The graph prerequisites or the failure facts are refused before any commit.
RejectClose ==
  /\ ReadyToClose
  /\ op' = Idle
  /\ UNCHANGED <<durable, service, todo, mem>>

\* The session is closed before its closure is committed, and open again when
\* the commit raises.
MarkClosed ==
  /\ ReadyToClose
  /\ mem' = [mem EXCEPT ![op.ep] = "closed"]
  /\ Goto("closure")
  /\ UNCHANGED <<durable, service, todo>>

Committing == op.step \in {"closure", "terminal"}
Reopened == IF Committing THEN [mem EXCEPT ![op.ep] = "open"] ELSE mem

\* Mutants: a second closure replaces the first; graph delivery starts before
\* the transition.
CommitClosureOverwrites ==
  /\ At("closure")
  /\ closureRow' = [closureRow EXCEPT ![op.ep] = op.closure]
  /\ Goto("terminal")
  /\ UNCHANGED <<coordState, sessionRow, receiptRows, graphRows, spool,
                 graphMemory, service, todo, mem>>
CommitClosureThenDeliver ==
  /\ At("closure")
  /\ closureRow[op.ep] \in {NoClosure, op.closure}
  /\ closureRow' = [closureRow EXCEPT ![op.ep] = op.closure]
  /\ Goto("parents")
  /\ UNCHANGED <<coordState, sessionRow, receiptRows, graphRows, spool,
                 graphMemory, service, todo, mem>>

\* record_training_episode_closure: an equal payload is accepted again (a
\* caller may pass the same closed_at), any other is an integrity error.
CommitClosure ==
  /\ At("closure")
  /\ closureRow[op.ep] \in {NoClosure, op.closure}
  /\ closureRow' = [closureRow EXCEPT ![op.ep] = op.closure]
  /\ Goto("terminal")
  /\ UNCHANGED <<coordState, sessionRow, receiptRows, graphRows, spool,
                 graphMemory, service, todo, mem>>

ClosureConflict ==
  /\ At("closure")
  /\ closureRow[op.ep] # NoClosure
  /\ mem' = Reopened
  /\ op' = Idle
  /\ UNCHANGED <<durable, service, todo>>

\* The second transaction of record_closure.
CommitTerminal ==
  /\ At("terminal")
  /\ coordState[op.ep] \in {"running", Outcome(op.closure)}
  /\ coordState' = [coordState EXCEPT ![op.ep] = Outcome(op.closure)]
  /\ Goto("parents")
  /\ UNCHANGED <<sessionRow, receiptRows, closureRow, graphRows, spool,
                 graphMemory, service, todo, mem>>

\* Mutant: the receipt is taken before the write is known to have succeeded.
GraphWriteAssumed(step, record, next) ==
  /\ At(step)
  /\ \E cached \in SUBSET {record} : graphMemory' = graphMemory \cup cached
  /\ op' = [op EXCEPT !.step = next, !.report.receipts = @ \cup {record}]
  /\ UNCHANGED <<coordState, sessionRow, receiptRows, closureRow, graphRows,
                 spool, service, todo, mem>>

\* _persist_closed_episode: each write is acknowledged or raises, possibly
\* after the local cache already has the record.
GraphWrite(step, record, next) ==
  /\ At(step)
  /\ \/ /\ graphMemory' = graphMemory \cup {record}
        /\ op' = [op EXCEPT !.step = next,
                           !.report.receipts = @ \cup {record}]
     \/ \E error \in GraphErrors, cached \in SUBSET {record} :
          /\ graphMemory' = graphMemory \cup cached
          /\ op' = [op EXCEPT !.step = "deliver", !.report.error = error]
  /\ UNCHANGED <<coordState, sessionRow, receiptRows, closureRow, graphRows,
                 spool, service, todo, mem>>

WriteParents == GraphWrite("parents", Parents, "episode")
WriteEpisode ==
  GraphWrite("episode", op.ep, IF closureRow[op.ep].success THEN "deliver" ELSE "failures")
WriteFailures == GraphWrite("failures", Failures(op.ep), "deliver")

\* content_hash is UNIQUE in the whole table and a report does not name its
\* episode, so equal reports of two episodes collide.
Collides(report) ==
  \E e \in Episodes : \E i \in DOMAIN graphRows[e] : graphRows[e][i] = report
SameAsLatest(e, report) == graphRows[e] # <<>> /\ Latest(e) = report

\* GraphPersistenceReport: what the attempt wrote of what the episode expects.
Report == [receipts |-> op.report.receipts, error |-> op.report.error,
           expected |-> Expected(op.ep)]

\* record_graph_delivery; startup does not survive the IntegrityError.
RecordDelivery ==
  /\ At("deliver")
  /\ \/ /\ SameAsLatest(op.ep, Report)
        /\ op' = Idle
        /\ UNCHANGED <<graphRows, service, todo, mem>>
     \/ /\ ~Collides(Report)
        /\ graphRows' = [graphRows EXCEPT ![op.ep] = Append(@, Report)]
        /\ op' = Idle
        /\ UNCHANGED <<service, todo, mem>>
     \/ /\ ~SameAsLatest(op.ep, Report)
        /\ Collides(Report)
        /\ IF service = "up"
           THEN op' = Idle /\ UNCHANGED <<service, todo, mem>>
           ELSE Die("refused")
        /\ UNCHANGED graphRows
  /\ UNCHANGED <<coordState, sessionRow, receiptRows, closureRow, spool,
                 graphMemory>>

\* A coordinator transaction raises: the call fails, or startup does.
TransactionFails ==
  /\ TxMayFail
  /\ op.step \in {"register", "session", "running", "receipt", "refill",
                  "closure", "terminal", "deliver"}
  /\ IF service = "up"
     THEN op' = Idle /\ mem' = Reopened /\ UNCHANGED <<service, todo>>
     ELSE Die("refused")
  /\ UNCHANGED durable

-----------------------------------------------------------------------------
Startup ==
  \/ Start \/ BeginRestore \/ BeginRetry \/ Serve
  \/ \E e \in Episodes :
       \/ RecoverTransition(e) \/ RestoreSession(e)
       \/ ReconcileSession(e) \/ RetryDelivery(e)

Progress ==
  \/ RegisterEpisode \/ RecordSession \/ EnterRunning
  \/ PublishReturns \/ JournalReceipt \/ Refill
  \/ MarkClosed \/ CommitClosure \/ ClosureConflict \/ CommitTerminal
  \/ WriteParents \/ WriteEpisode \/ WriteFailures \/ RecordDelivery

Request ==
  \/ ReconcileProviderState
  \/ \E e \in Episodes :
       \/ OpenEpisode(e) \/ AppendTelemetry(e) \/ RetryAppend(e)
       \/ AbortEpisode(e)
       \/ \E success \in BOOLEAN : CloseEpisode(e, success)

Disturbance == CancelAppend \/ RejectClose \/ TransactionFails \/ Crash

Next == Startup \/ Progress \/ Request \/ Disturbance

Spec == Init /\ [][Next]_vars

\* A supervised process is started again and its calls run on; clients and
\* disturbances are not obliged to do anything.
LiveSpec == Spec /\ WF_vars(Startup) /\ WF_vars(Progress)

-----------------------------------------------------------------------------
\* Every variable has its type; an operation under way concerns an episode.
TypeOK ==
  /\ coordState \in [Episodes -> CoordStates]
  /\ sessionRow \in [Episodes -> BOOLEAN]
  /\ receiptRows \in [Episodes -> SUBSET (0 .. MaxRecords - 1)]
  /\ closureRow \in [Episodes -> Closures \cup {NoClosure}]
  /\ graphRows \in [Episodes -> Seq(Reports)]
  /\ spool \in [Episodes -> 0 .. MaxRecords]
  /\ graphMemory \in SUBSET Facts
  /\ service \in {"down", "refused", "recovering", "restoring", "reconciling",
                  "retrying", "up"}
  /\ todo \in SUBSET Episodes
  /\ mem \in [Episodes -> {"absent", "open", "closed", "aborted"}]
  /\ op \in Ops
  /\ op.step # "idle" => op.ep \in Episodes

\* Whatever call was cut short by whatever crash, failed transaction or
\* cancellation, the journal and the spool it leaves behind pass every check
\* that _recover_transitions and _restore_journal make before serving again.
JournalRestorable ==
  \A e \in Episodes :
    sessionRow[e] => ~RecoverRefuses(e) /\ ~RestoreRefuses(e)

\* Graph memory holds an episode, or its failures, only when its measured
\* closure is durable and the coordinator episode is already terminal with the
\* measured outcome (close_episode: "Commit the measured terminal fact before
\* any external graph side effect").
GraphOnlyAfterTerminal ==
  \A e \in Episodes : e \in graphMemory \/ Failures(e) \in graphMemory =>
    /\ closureRow[e] # NoClosure
    /\ coordState[e] = Outcome(closureRow[e])

\* A delivery report recorded as complete is true of graph memory, and no
\* attempt was recorded before it that was complete already.
DeliveryReportTrue ==
  \A e \in Episodes : \A i \in DOMAIN graphRows[e] :
    Complete(e, graphRows[e][i]) =>
      /\ FactsOf(e, Expected(e)) \subseteq graphMemory
      /\ i = Len(graphRows[e])

\* The session a client sees agrees with the journal: closed sessions have a
\* terminal closure, aborted ones an abort, open ones a running episode.  Only
\* the one whose closure is being committed is ahead of it.
SessionMirrorsJournal ==
  \A e \in Episodes :
    /\ mem[e] # "absent" => sessionRow[e]
    /\ mem[e] = "open" => coordState[e] = "running"
    /\ mem[e] = "aborted" => coordState[e] = "aborted" /\ closureRow[e] = NoClosure
    /\ mem[e] = "closed" /\ ~(Committing /\ op.ep = e) =>
         closureRow[e] # NoClosure /\ coordState[e] = Outcome(closureRow[e])

\* The digest of a durable closure covers all the telemetry of its episode.
\* It needs coordinator commits that do not raise: see ClosedRejectsAppends.
ClosureCoversTelemetry ==
  \A e \in Episodes :
    closureRow[e] # NoClosure => closureRow[e].records = spool[e]

\* A failed startup can always be repeated with success: every incomplete graph
\* delivery is retried after a restart rather than stopping it.
StartupNeverRefused == service # "refused"

HistoryExtends(e) ==
  /\ receiptRows[e] \subseteq receiptRows'[e]
  /\ closureRow[e] # NoClosure => closureRow'[e] = closureRow[e]
  /\ coordState[e] \in Terminal => coordState'[e] = coordState[e]
  /\ SubSeq(graphRows'[e], 1, Len(graphRows[e])) = graphRows[e]
  /\ DeliveryComplete(e) => graphRows'[e] = graphRows[e]
  /\ coordState[e] = "aborted" => spool'[e] = spool[e] /\ closureRow'[e] = NoClosure

\* History is append-only: receipts and delivery reports extend, a closure and
\* a terminal state are final, nothing is delivered after a complete report, and
\* an aborted episode never receives another telemetry record or a closure.
HistoryIsFinal == [][\A e \in Episodes : HistoryExtends(e)]_durable

\* An episode whose closure is durable accepts no further telemetry.
ClosedRejectsAppends ==
  [][\A e \in Episodes : closureRow[e] # NoClosure => spool'[e] = spool[e]]_spool

\* A closure cut off between its two transactions is finished: if the process
\* crashes only finitely often, the coordinator episode becomes terminal.
ClosureBecomesTerminal ==
  <>[][~Crash]_vars =>
    \A e \in Episodes :
      closureRow[e] # NoClosure ~> coordState[e] \in Terminal

\* Graph memory follows the journal: it is written after the measured closure is
\* terminal, and a delivery is reported complete only when it is
\* (episodes/service.py:390).
GraphFollowsJournal == GraphOnlyAfterTerminal /\ DeliveryReportTrue
=============================================================================
