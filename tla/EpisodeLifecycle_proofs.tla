---------------------- MODULE EpisodeLifecycle_proofs ----------------------
(***************************************************************************)
(* Proofs about EpisodeLifecycle for every set of episodes, every number of *)
(* records and every set of graph errors.  Inv is the inductive invariant:  *)
(* what the journal, the operation under way and the startup phase owe one  *)
(* another between any two steps.  The safety invariants follow from it.    *)
(***************************************************************************)
EXTENDS EpisodeLifecycle, FiniteSetTheorems, TLAPS

-----------------------------------------------------------------------------
(* The inductive invariant.                                                *)

\* Receipts are a contiguous prefix of the durable telemetry.
ReceiptsArePrefix ==
  \A e \in Episodes : \E n \in 0 .. spool[e] : receiptRows[e] = 0 .. (n - 1)

\* Coordinator state, session row and closure row agree.
JournalAgrees ==
  \A e \in Episodes :
    /\ sessionRow[e] => coordState[e] # "none"
    /\ coordState[e] \in {"succeeded", "failed"} => closureRow[e] # NoClosure
    /\ closureRow[e] # NoClosure =>
         /\ coordState[e] \in {"running", Outcome(closureRow[e])}
         /\ spool[e] > 0

\* Delivered(e): the state an episode must be in to have graph side effects.
Delivered(e) ==
  closureRow[e] # NoClosure /\ coordState[e] = Outcome(closureRow[e])

GraphAfterClosure ==
  /\ \A e \in Episodes : e \in graphMemory \/ Failures(e) \in graphMemory => Delivered(e)
  /\ \A e \in Episodes : graphRows[e] # <<>> => Delivered(e)
  /\ \A e \in Episodes : \A i \in DOMAIN graphRows[e] : graphRows[e][i].expected = Expected(e)

\* The steps that may run in each phase of the process.
OpMatchesPhase ==
  /\ service \in {"down", "refused", "recovering"} => op = Idle
  /\ service \in {"restoring", "reconciling"} =>
       op.step \in {"idle", "refill"} /\ op.closure = NoClosure
  /\ service = "retrying" => op.step \in {"idle", "parents", "episode", "failures", "deliver"}

\* What the steps of each operation have established before they run.
OpInvariant ==
  /\ op.step = "idle" => op = Idle
  /\ op.step \in {"session", "running"} => coordState[op.ep] # "none"
  /\ op.step = "running" => sessionRow[op.ep]
  /\ op.step = "refill" /\ op.closure # NoClosure =>
       mem[op.ep] = "open" /\ spool[op.ep] > 0
  /\ op.step \in {"closure", "terminal"} =>
       /\ op.closure # NoClosure /\ mem[op.ep] = "closed" /\ spool[op.ep] > 0
       /\ coordState[op.ep] = "running"
  /\ op.step = "terminal" => closureRow[op.ep] = op.closure
  /\ op.step \in {"parents", "episode", "failures", "deliver"} =>
       Delivered(op.ep) /\ ~DeliveryComplete(op.ep)
  /\ op.report.receipts \subseteq graphMemory

\* _recover_transitions leaves nothing half done for the sessions it passed.
Settled(e) ==
  coordState[e] # "created" /\ (closureRow[e] # NoClosure => Delivered(e))

StartupInvariant ==
  /\ service \in {"down", "refused", "recovering"} => Sessions = {}
  /\ service = "recovering" =>
       todo \subseteq Journaled /\ \A e \in Journaled \ todo : Settled(e)
  /\ service = "restoring" => todo \subseteq Journaled /\ \A e \in todo : Settled(e)

Inv ==
  /\ TypeOK
  /\ ReceiptsArePrefix
  /\ JournalAgrees
  /\ GraphAfterClosure
  /\ DeliveryReportTrue
  /\ SessionMirrorsJournal
  /\ OpMatchesPhase
  /\ OpInvariant
  /\ StartupInvariant

-----------------------------------------------------------------------------
(* Facts used in several places.                                           *)

\* A contiguous prefix of length n has n elements.
LEMMA PrefixCardinality ==
  ASSUME NEW n \in Nat
  PROVE  Cardinality(0 .. (n - 1)) = n
BY FS_Interval

\* The number of receipts is the sequence of the next one.
LEMMA ReceiptsCounted ==
  ASSUME TypeOK, ReceiptsArePrefix, NEW e \in Episodes
  PROVE  /\ ReceiptCount(e) \in 0 .. spool[e]
         /\ receiptRows[e] = 0 .. (ReceiptCount(e) - 1)
<1>1. PICK n \in 0 .. spool[e] : receiptRows[e] = 0 .. (n - 1)
  BY DEF ReceiptsArePrefix
<1>2. n \in Nat
  BY <1>1 DEF TypeOK
<1>3. Cardinality(receiptRows[e]) = n
  BY <1>1, <1>2, PrefixCardinality
<1> QED
  BY <1>1, <1>3 DEF ReceiptCount

\* A step that keeps the durable state keeps what is said of it alone.
LEMMA DurableFrame ==
  ASSUME Inv, UNCHANGED durable
  PROVE  /\ ReceiptsArePrefix' /\ JournalAgrees'
         /\ GraphAfterClosure' /\ DeliveryReportTrue'
  <1>1. ReceiptsArePrefix'
    BY DEF Inv, durable, ReceiptsArePrefix
  <1>2. JournalAgrees'
    BY DEF Inv, durable, JournalAgrees, Outcome
  <1>3. GraphAfterClosure'
    BY DEF Inv, durable, GraphAfterClosure, Delivered, Outcome, Expected
  <1>4. DeliveryReportTrue'
    BY DEF Inv, durable, DeliveryReportTrue, Complete, Expected, FactsOf
  <1> QED
    BY <1>1, <1>2, <1>3, <1>4

\* A dead process leaves a journal that satisfies the invariant.
LEMMA DieInv ==
  ASSUME Inv, UNCHANGED durable, NEW phase \in {"down", "refused"}, Die(phase)
  PROVE  Inv'
<1>1. TypeOK'
  BY DEF Inv, TypeOK, Die, Idle, Ops, Steps, NoReport, Attempts, durable
<1>2. SessionMirrorsJournal'
  BY DEF Die, SessionMirrorsJournal, Committing, Idle
<1>3. OpMatchesPhase'
  BY DEF Die, OpMatchesPhase, Idle, durable
<1>4. OpInvariant'
  BY DEF Die, OpInvariant, Idle, NoReport
<1>5. StartupInvariant'
  BY DEF Die, StartupInvariant, Sessions
<1> QED
  BY DurableFrame, <1>1, <1>2, <1>3, <1>4, <1>5 DEF Inv

-----------------------------------------------------------------------------
(* Startup.                                                                *)

\* Under the invariant neither check of a journaled episode ever fails.
LEMMA JournalAccepted ==
  ASSUME Inv, NEW e \in Episodes, sessionRow[e]
  PROVE  ~RecoverRefuses(e) /\ ~RestoreRefuses(e)
<1>1. ReceiptCount(e) \in 0 .. spool[e] /\ receiptRows[e] = 0 .. (ReceiptCount(e) - 1)
  BY ReceiptsCounted DEF Inv
<1>2. spool[e] \in Nat /\ coordState[e] \in CoordStates
  BY DEF Inv, TypeOK
<1>3. ~RecoverRefuses(e)
  BY <1>2 DEF Inv, JournalAgrees, RecoverRefuses, CoordStates, Terminal
<1>4. ~RestoreRefuses(e)
  BY <1>1, <1>2 DEF Inv, JournalAgrees, RestoreRefuses, Outcome
<1> QED
  BY <1>3, <1>4

\* The startup actions that only move the process from phase to phase.
LEMMA PhaseInv ==
  ASSUME Inv, Start \/ BeginRestore \/ BeginRetry \/ Serve \/ ReconcileProviderState
  PROVE  Inv'
<1>1. TypeOK'
  BY DEF Inv, TypeOK, Start, BeginRestore, BeginRetry, Serve,
         ReconcileProviderState, Journaled, Sessions, durable
<1>2. SessionMirrorsJournal'
  BY DEF Inv, SessionMirrorsJournal, Start, BeginRestore, BeginRetry, Serve,
         ReconcileProviderState, durable, Outcome, Committing, Idle
<1>3. OpMatchesPhase'
  BY DEF Inv, OpMatchesPhase, Start, BeginRestore, BeginRetry, Serve, Free, At,
         ReconcileProviderState, durable, Idle, OpInvariant
<1>4. OpInvariant'
  BY DEF Inv, OpInvariant, Start, BeginRestore, BeginRetry, Serve,
         ReconcileProviderState, durable, Delivered, DeliveryComplete, Complete,
         Latest, Outcome, Expected, FactsOf
<1>5. StartupInvariant'
  BY DEF Inv, StartupInvariant, Start, BeginRestore, BeginRetry, Serve, Free,
         ReconcileProviderState, durable, Sessions, Journaled, Settled, Delivered,
         Outcome
<1>6. UNCHANGED durable
  BY DEF Start, BeginRestore, BeginRetry, Serve, ReconcileProviderState
<1> QED
  BY DurableFrame, <1>1, <1>2, <1>3, <1>4, <1>5, <1>6 DEF Inv

\* _recover_transitions: it never refuses, and settles the episode.
LEMMA RecoverTransitionInv ==
  ASSUME Inv, NEW e \in Episodes, RecoverTransition(e)
  PROVE  Inv'
<1> USE DEF Inv
<1>1. sessionRow[e] /\ op = Idle /\ Sessions = {}
  BY DEF RecoverTransition, StartupInvariant, Journaled, OpMatchesPhase
<1>2. /\ coordState' = [coordState EXCEPT ![e] = Recovered(e)]
      /\ todo' = todo \ {e}
      /\ UNCHANGED <<sessionRow, receiptRows, closureRow, graphRows, spool,
                     graphMemory, service, mem, op>>
  BY <1>1, JournalAccepted DEF RecoverTransition
<1>3. coordState[e] \in CoordStates /\ coordState[e] # "none"
  BY <1>1 DEF TypeOK, JournalAgrees
<1>4. TypeOK'
  BY <1>2, <1>3 DEF TypeOK, Recovered, Outcome, CoordStates, Terminal
<1>5. ReceiptsArePrefix'
  BY <1>2 DEF ReceiptsArePrefix
<1>6. JournalAgrees'
  BY <1>2, <1>3 DEF JournalAgrees, TypeOK, Recovered, Outcome
<1>7. GraphAfterClosure'
  BY <1>2 DEF GraphAfterClosure, Delivered, TypeOK, Recovered, Outcome, Expected
<1>8. DeliveryReportTrue'
  BY <1>2 DEF DeliveryReportTrue, Complete, Expected, FactsOf
<1>9. SessionMirrorsJournal'
  BY <1>1, <1>2 DEF SessionMirrorsJournal, Sessions, Committing, Idle
<1>10. OpMatchesPhase' /\ OpInvariant'
  BY <1>1, <1>2 DEF OpMatchesPhase, OpInvariant, Idle, NoReport
<1>11. StartupInvariant'
  BY <1>1, <1>2, <1>3 DEF StartupInvariant, Sessions, Journaled, Settled, Delivered,
         TypeOK, Recovered, Outcome, RecoverTransition
<1> QED
  BY <1>4, <1>5, <1>6, <1>7, <1>8, <1>9, <1>10, <1>11

\* _restore_journal: it never refuses, and the session it builds is the journal's.
LEMMA RestoreSessionInv ==
  ASSUME Inv, NEW e \in Episodes, RestoreSession(e)
  PROVE  Inv'
<1> USE DEF Inv
<1>1. sessionRow[e] /\ Settled(e) /\ op = Idle
  BY DEF RestoreSession, StartupInvariant, Journaled, OpInvariant, At
<1>2. /\ mem' = [mem EXCEPT ![e] = Restored(e)]
      /\ todo' = todo \ {e}
      /\ op' = Begin("refill", e)
      /\ service = "restoring" /\ UNCHANGED <<service, durable>>
  BY <1>1, JournalAccepted DEF RestoreSession
<1>3. TypeOK'
  BY <1>2 DEF TypeOK, Restored, Begin, Idle, Ops, Steps, NoReport, Attempts, durable
<1>4. coordState[e] \in CoordStates /\ coordState[e] # "none"
  BY <1>1 DEF TypeOK, JournalAgrees
<1>5. SessionMirrorsJournal'
  BY <1>1, <1>2, <1>4 DEF SessionMirrorsJournal, Restored, Settled, Delivered, durable,
         TypeOK, JournalAgrees, CoordStates, Terminal, Outcome, Committing, Idle
<1>6. OpMatchesPhase' /\ OpInvariant'
  BY <1>2 DEF OpMatchesPhase, OpInvariant, Begin, Idle, NoReport
<1>7. StartupInvariant'
  BY <1>2 DEF StartupInvariant, Journaled, Settled, Delivered, Outcome, durable
<1> QED
  BY <1>2, <1>3, <1>5, <1>6, <1>7, DurableFrame

-----------------------------------------------------------------------------
(* Steps that change neither the durable state nor a session.              *)

\* An operation that starts: the lock was free, or startup visits a session.
LEMMA BeginInv ==
  ASSUME Inv, NEW e \in Episodes, NEW success \in BOOLEAN,
         \/ ReconcileSession(e) \/ RetryDelivery(e) \/ OpenEpisode(e)
         \/ RetryAppend(e) \/ CloseEpisode(e, success)
  PROVE  Inv'
<1> USE DEF Inv
<1>1. UNCHANGED <<durable, service, mem>> /\ op = Idle
  BY DEF ReconcileSession, RetryDelivery, OpenEpisode, RetryAppend, CloseEpisode,
         At, Free, OpInvariant
<1>2. CASE ReconcileSession(e) \/ OpenEpisode(e) \/ RetryAppend(e)
  <2>1. PICK step \in {"refill", "register"} :
          /\ op' = Begin(step, e)
          /\ step = "register" => service = "up"
    BY <1>2 DEF ReconcileSession, OpenEpisode, RetryAppend, Free
  <2>2. todo' \subseteq todo /\ service \in {"up", "reconciling"}
    BY <1>2 DEF ReconcileSession, OpenEpisode, RetryAppend, Free
  <2>3. TypeOK'
    BY <1>1, <2>1, <2>2 DEF TypeOK, durable, Begin, Idle, Ops, Steps, NoReport, Attempts
  <2>4. OpMatchesPhase' /\ OpInvariant'
    BY <1>1, <2>1, <2>2 DEF OpMatchesPhase, OpInvariant, Begin, Idle, NoReport
  <2>5. StartupInvariant'
    BY <1>1, <2>2 DEF StartupInvariant
  <2>6. SessionMirrorsJournal'
    BY <1>1 DEF SessionMirrorsJournal, durable, Outcome, Committing, Idle
  <2> QED
    BY <1>1, <2>3, <2>4, <2>5, <2>6, DurableFrame
<1>3. CASE RetryDelivery(e)
  <2>1. /\ op' \in {Begin("parents", e), Idle}
        /\ op' # Idle => Delivered(e) /\ ~DeliveryComplete(e)
    BY <1>1, <1>3 DEF RetryDelivery, SessionMirrorsJournal, Delivered, Committing, Idle
  <2>2. todo' \subseteq todo /\ service = "retrying"
    BY <1>3 DEF RetryDelivery
  <2>3. TypeOK'
    BY <1>1, <2>1, <2>2 DEF TypeOK, durable, Begin, Idle, Ops, Steps, NoReport, Attempts
  <2>4. OpMatchesPhase'
    BY <1>1, <2>1, <2>2 DEF OpMatchesPhase, Begin, Idle
  <2>5. OpInvariant'
    <3>1. CASE op' = Idle
      BY <3>1 DEF OpInvariant, Idle, NoReport
    <3>2. CASE op' = Begin("parents", e)
      BY <1>1, <2>1, <3>2 DEF OpInvariant, Begin, Idle, NoReport, Delivered,
             DeliveryComplete, Complete, Latest, Outcome, durable, Expected, FactsOf
    <3> QED
      BY <2>1, <3>1, <3>2
  <2>6. StartupInvariant'
    BY <1>1, <2>2 DEF StartupInvariant
  <2>7. SessionMirrorsJournal'
    BY <1>1 DEF SessionMirrorsJournal, durable, Outcome, Committing, Idle
  <2> QED
    BY <1>1, <2>3, <2>4, <2>5, <2>6, <2>7, DurableFrame
<1>4. CASE CloseEpisode(e, success)
  <2> DEFINE c == [records |-> spool[e], success |-> success]
  <2>1. c \in Closures /\ op' = [Begin("refill", e) EXCEPT !.closure = c]
    <3>1. spool[e] \in 1 .. MaxRecords
      BY <1>4 DEF CloseEpisode, TypeOK
    <3> QED
      BY <1>4, <3>1 DEF CloseEpisode, Closures
  <2>2. mem[e] = "open" /\ spool[e] > 0 /\ service = "up" /\ UNCHANGED todo
    BY <1>4 DEF CloseEpisode, Free
  <2> HIDE DEF c
  <2>3. TypeOK'
    BY <1>1, <2>1, <2>2 DEF TypeOK, durable, Begin, Idle, Ops, Steps, NoReport, Attempts
  <2>4. OpMatchesPhase' /\ OpInvariant'
    BY <1>1, <2>1, <2>2 DEF OpMatchesPhase, OpInvariant, Begin, Idle, NoReport, durable
  <2>5. StartupInvariant'
    BY <1>1, <2>2 DEF StartupInvariant
  <2>6. SessionMirrorsJournal'
    BY <1>1 DEF SessionMirrorsJournal, durable, Outcome, Committing, Idle
  <2> QED
    BY <1>1, <2>3, <2>4, <2>5, <2>6, DurableFrame
<1> QED
  BY <1>2, <1>3, <1>4

\* The lock is released and nothing else changes.
LEMMA ReleaseInv ==
  ASSUME Inv, UNCHANGED <<durable, service, todo, mem>>, op' = Idle, ~Committing
  PROVE  Inv'
<1> USE DEF Inv
<1>1. TypeOK'
  BY DEF TypeOK, durable, Idle, Ops, Steps, NoReport, Attempts
<1>2. OpMatchesPhase' /\ OpInvariant'
  BY DEF OpMatchesPhase, OpInvariant, Idle, NoReport, durable
<1>3. SessionMirrorsJournal'
  BY DEF SessionMirrorsJournal, durable, Outcome, Committing, Idle
<1>4. StartupInvariant'
  BY DEF StartupInvariant, Sessions, Journaled, Settled, Delivered, Outcome, durable
<1> QED
  BY <1>1, <1>2, <1>3, <1>4, DurableFrame

\* The lock is released by a commit that raised: its session is open again.
LEMMA ReopenInv ==
  ASSUME Inv, Committing, UNCHANGED <<durable, service, todo>>, op' = Idle, mem' = Reopened
  PROVE  Inv'
<1> USE DEF Inv
<1>1. /\ op.ep \in Episodes /\ coordState[op.ep] = "running" /\ service = "up"
      /\ mem[op.ep] = "closed" /\ mem' = [mem EXCEPT ![op.ep] = "open"]
  BY DEF Committing, Reopened, OpInvariant, OpMatchesPhase, TypeOK, Idle
<1>2. sessionRow[op.ep]
  BY <1>1 DEF SessionMirrorsJournal
<1>3. TypeOK'
  BY <1>1 DEF TypeOK, durable, Idle, Ops, Steps, NoReport, Attempts
<1>4. OpMatchesPhase' /\ OpInvariant'
  BY <1>1 DEF OpMatchesPhase, OpInvariant, Idle, NoReport, durable
<1>5. SessionMirrorsJournal'
  BY <1>1, <1>2 DEF SessionMirrorsJournal, TypeOK, durable, Outcome, Committing, Idle
<1>6. StartupInvariant'
  BY <1>1 DEF StartupInvariant
<1> QED
  BY <1>3, <1>4, <1>5, <1>6, DurableFrame

LEMMA PublishReturnsInv ==
  ASSUME Inv, PublishReturns
  PROVE  Inv'
<1> USE DEF Inv
<1>1. /\ op.step = "publish" /\ op' = [op EXCEPT !.step = "receipt"] /\ op \in Ops
      /\ UNCHANGED <<durable, service, todo, mem>> /\ service = "up"
  BY DEF PublishReturns, At, Goto, OpMatchesPhase, Idle, TypeOK
<1>2. TypeOK'
  BY <1>1 DEF TypeOK, durable, Ops, Steps
<1>3. OpMatchesPhase' /\ OpInvariant'
  BY <1>1 DEF OpMatchesPhase, OpInvariant, Ops, durable
<1>4. SessionMirrorsJournal'
  BY <1>1 DEF SessionMirrorsJournal, durable, Outcome, Committing, Idle
<1>5. StartupInvariant'
  BY <1>1 DEF StartupInvariant
<1> QED
  BY <1>1, <1>2, <1>3, <1>4, <1>5, DurableFrame

-----------------------------------------------------------------------------
(* The transactions of open_episode and append_telemetry.                  *)

LEMMA RegisterEpisodeInv ==
  ASSUME Inv, RegisterEpisode
  PROVE  Inv'
<1> USE DEF Inv
<1>1. /\ op.step = "register" /\ op' = [op EXCEPT !.step = "session"]
      /\ op \in Ops /\ op.ep \in Episodes /\ service = "up"
      /\ UNCHANGED <<sessionRow, receiptRows, closureRow, graphRows, spool,
                     graphMemory, service, todo, mem>>
  BY DEF RegisterEpisode, At, Goto, OpMatchesPhase, Idle, TypeOK
<1>2. coordState' = [coordState EXCEPT ![op.ep] = IF @ = "none" THEN "created" ELSE @]
  BY DEF RegisterEpisode
<1>3. TypeOK'
  BY <1>1, <1>2 DEF TypeOK, Ops, Steps, CoordStates
<1>4. ReceiptsArePrefix' /\ DeliveryReportTrue'
  BY <1>1 DEF ReceiptsArePrefix, DeliveryReportTrue, Complete, Expected, FactsOf
<1>5. JournalAgrees'
  BY <1>1, <1>2 DEF JournalAgrees, TypeOK, Outcome
<1>6. GraphAfterClosure' /\ SessionMirrorsJournal'
  BY <1>1, <1>2 DEF GraphAfterClosure, Delivered, SessionMirrorsJournal, TypeOK, Outcome,
       Expected, Committing, Idle
<1>7. OpMatchesPhase' /\ OpInvariant' /\ StartupInvariant'
  BY <1>1, <1>2 DEF OpMatchesPhase, OpInvariant, StartupInvariant, Ops, TypeOK
<1> QED
  BY <1>3, <1>4, <1>5, <1>6, <1>7

LEMMA RecordSessionInv ==
  ASSUME Inv, RecordSession
  PROVE  Inv'
<1> USE DEF Inv
<1>1. /\ op.step = "session" /\ op' = [op EXCEPT !.step = "running"]
      /\ op \in Ops /\ op.ep \in Episodes /\ service = "up"
      /\ sessionRow' = [sessionRow EXCEPT ![op.ep] = TRUE]
      /\ UNCHANGED <<coordState, receiptRows, closureRow, graphRows, spool,
                     graphMemory, service, todo, mem>>
  BY DEF RecordSession, At, Goto, OpMatchesPhase, Idle, TypeOK
<1>2. TypeOK'
  BY <1>1 DEF TypeOK, Ops, Steps
<1>3. ReceiptsArePrefix' /\ DeliveryReportTrue'
  BY <1>1 DEF ReceiptsArePrefix, DeliveryReportTrue, Complete, Expected, FactsOf
<1>4. JournalAgrees'
  BY <1>1 DEF JournalAgrees, TypeOK, Outcome, OpInvariant
<1>5. GraphAfterClosure' /\ SessionMirrorsJournal'
  BY <1>1 DEF GraphAfterClosure, Delivered, SessionMirrorsJournal, TypeOK, Outcome,
       Expected, Committing, Idle
<1>6. OpMatchesPhase' /\ OpInvariant' /\ StartupInvariant'
  BY <1>1 DEF OpMatchesPhase, OpInvariant, StartupInvariant, Ops, TypeOK
<1> QED
  BY <1>2, <1>3, <1>4, <1>5, <1>6

LEMMA EnterRunningInv ==
  ASSUME Inv, EnterRunning
  PROVE  Inv'
<1> USE DEF Inv
<1>1. /\ op.step = "running" /\ op' = Idle /\ op.ep \in Episodes /\ service = "up"
      /\ UNCHANGED <<sessionRow, receiptRows, closureRow, graphRows, spool,
                     graphMemory, service, todo>>
      /\ sessionRow[op.ep]
  BY DEF EnterRunning, At, OpMatchesPhase, Idle, TypeOK, OpInvariant
<1>2. CASE coordState[op.ep] \in {"created", "running"}
  <2>1. /\ coordState' = [coordState EXCEPT ![op.ep] = "running"]
        /\ mem' = [mem EXCEPT ![op.ep] = "open"]
    BY <1>2 DEF EnterRunning, Terminal
  <2>2. TypeOK'
    BY <1>1, <2>1 DEF TypeOK, Ops, Steps, Idle, NoReport, Attempts, CoordStates
  <2>3. ReceiptsArePrefix' /\ DeliveryReportTrue'
    BY <1>1 DEF ReceiptsArePrefix, DeliveryReportTrue, Complete, Expected, FactsOf
  <2>4. JournalAgrees'
    BY <1>1, <1>2, <2>1 DEF JournalAgrees, TypeOK, Outcome
  <2>5. GraphAfterClosure'
    BY <1>1, <1>2, <2>1 DEF GraphAfterClosure, Delivered, TypeOK, Outcome, Expected
  <2>6. SessionMirrorsJournal'
    BY <1>1, <1>2, <2>1 DEF SessionMirrorsJournal, TypeOK, Outcome, Committing, Idle
  <2>7. OpMatchesPhase' /\ OpInvariant' /\ StartupInvariant'
    BY <1>1 DEF OpMatchesPhase, OpInvariant, StartupInvariant, Idle, NoReport
  <2> QED
    BY <2>2, <2>3, <2>4, <2>5, <2>6, <2>7
<1>3. CASE coordState[op.ep] \in Terminal
  BY <1>1, <1>3, ReleaseInv DEF EnterRunning, Terminal, durable, Committing
<1> QED
  BY <1>2, <1>3 DEF EnterRunning

LEMMA AppendTelemetryInv ==
  ASSUME Inv, NEW e \in Episodes, AppendTelemetry(e)
  PROVE  Inv'
<1> USE DEF Inv
<1>1. /\ op = Idle /\ op' = Begin("publish", e) /\ service = "up"
      /\ spool' = [spool EXCEPT ![e] = @ + 1] /\ spool[e] < MaxRecords
      /\ UNCHANGED <<coordState, sessionRow, receiptRows, closureRow, graphRows,
                     graphMemory, service, todo, mem>>
  BY DEF AppendTelemetry, At, Free, OpInvariant
<1>2. TypeOK'
  <2>1. spool[e] + 1 \in 0 .. MaxRecords
    BY <1>1, EpisodesAssumption DEF TypeOK
  <2>2. spool' \in [Episodes -> 0 .. MaxRecords]
    BY <1>1, <2>1 DEF TypeOK
  <2> QED
    BY <1>1, <2>2 DEF TypeOK, Begin, Idle, Ops, Steps, NoReport, Attempts
<1>3. ReceiptsArePrefix'
  BY <1>1 DEF ReceiptsArePrefix, TypeOK
<1>4. DeliveryReportTrue' /\ SessionMirrorsJournal'
  BY <1>1 DEF DeliveryReportTrue, Complete, SessionMirrorsJournal, Outcome,
       Expected, FactsOf, Committing, Idle
<1>5. JournalAgrees' /\ GraphAfterClosure'
  BY <1>1 DEF JournalAgrees, GraphAfterClosure, Delivered, TypeOK, Outcome, Expected
<1>6. OpMatchesPhase' /\ OpInvariant' /\ StartupInvariant'
  BY <1>1 DEF OpMatchesPhase, OpInvariant, StartupInvariant, Begin, Idle
<1> QED
  BY <1>2, <1>3, <1>4, <1>5, <1>6

\* A journaled receipt extends the prefix by one.
LEMMA RecordReceiptPrefix ==
  ASSUME Inv, NEW e \in Episodes, NEW seq \in Int, seq < spool[e],
         RecordReceipt(e, seq), UNCHANGED spool
  PROVE  /\ ReceiptsArePrefix'
         /\ receiptRows' \in [Episodes -> SUBSET (0 .. MaxRecords - 1)]
<1> USE DEF Inv
<1>1. /\ ReceiptCount(e) \in 0 .. spool[e] /\ spool[e] \in 0 .. MaxRecords
      /\ receiptRows[e] = 0 .. (ReceiptCount(e) - 1)
  BY ReceiptsCounted DEF TypeOK
<1>2. CASE ReceiptCount(e) = seq
  <2>1. receiptRows' = [receiptRows EXCEPT ![e] = 0 .. seq]
    <3>1. (0 .. (seq - 1)) \cup {seq} = 0 .. seq
      BY <1>1, <1>2
    <3> QED
      BY <1>1, <1>2, <3>1 DEF RecordReceipt
  <2>2. seq + 1 \in 0 .. spool[e] /\ 0 .. seq = 0 .. ((seq + 1) - 1)
    BY <1>1, <1>2
  <2>3. 0 .. seq \subseteq 0 .. MaxRecords - 1
    BY <1>1, <1>2, EpisodesAssumption
  <2>4. ReceiptsArePrefix'
    BY <2>1, <2>2 DEF ReceiptsArePrefix, TypeOK
  <2> QED
    BY <2>1, <2>3, <2>4 DEF TypeOK
<1>3. CASE ReceiptCount(e) # seq
  BY <1>3 DEF RecordReceipt, TypeOK, ReceiptsArePrefix
<1> QED
  BY <1>2, <1>3

LEMMA JournalReceiptInv ==
  ASSUME Inv, JournalReceipt
  PROVE  Inv'
<1> USE DEF Inv
<1>1. /\ op.step = "receipt" /\ op' = Idle /\ op.ep \in Episodes /\ service = "up"
      /\ RecordReceipt(op.ep, spool[op.ep] - 1)
      /\ UNCHANGED <<coordState, sessionRow, closureRow, graphRows, spool,
                     graphMemory, service, todo, mem>>
  BY DEF JournalReceipt, At, OpMatchesPhase, Idle, TypeOK
<1>2. spool[op.ep] - 1 \in Int /\ spool[op.ep] - 1 < spool[op.ep]
  BY <1>1 DEF TypeOK
<1>3. ReceiptsArePrefix' /\ receiptRows' \in [Episodes -> SUBSET (0 .. MaxRecords - 1)]
  BY <1>1, <1>2, RecordReceiptPrefix
<1>4. TypeOK'
  BY <1>1, <1>3 DEF TypeOK, Idle, Ops, Steps, NoReport, Attempts
<1>5. DeliveryReportTrue' /\ SessionMirrorsJournal'
  BY <1>1 DEF DeliveryReportTrue, Complete, SessionMirrorsJournal, Outcome,
       Expected, FactsOf, Committing, Idle
<1>6. JournalAgrees' /\ GraphAfterClosure'
  BY <1>1 DEF JournalAgrees, GraphAfterClosure, Delivered, Outcome, Expected
<1>7. OpMatchesPhase' /\ OpInvariant' /\ StartupInvariant'
  BY <1>1 DEF OpMatchesPhase, OpInvariant, StartupInvariant, Idle, NoReport
<1> QED
  BY <1>3, <1>4, <1>5, <1>6, <1>7

LEMMA RefillInv ==
  ASSUME Inv, Refill
  PROVE  Inv'
<1> USE DEF Inv
<1>1. /\ op.step = "refill" /\ op \in Ops /\ op.ep \in Episodes
      /\ UNCHANGED <<coordState, sessionRow, closureRow, graphRows, spool,
                     graphMemory, service, todo, mem>>
  BY DEF Refill, At, TypeOK
<1>2. CASE ReceiptCount(op.ep) < spool[op.ep] /\ RecordReceipt(op.ep, ReceiptCount(op.ep))
           /\ UNCHANGED op
  <2>1. ReceiptCount(op.ep) \in Int
    BY <1>1, ReceiptsCounted DEF TypeOK
  <2>2. ReceiptsArePrefix' /\ receiptRows' \in [Episodes -> SUBSET (0 .. MaxRecords - 1)]
    BY <1>1, <1>2, <2>1, RecordReceiptPrefix
  <2>3. TypeOK'
    BY <1>1, <1>2, <2>2 DEF TypeOK
  <2>4. DeliveryReportTrue' /\ SessionMirrorsJournal'
    BY <1>1 DEF DeliveryReportTrue, Complete, SessionMirrorsJournal, Outcome,
         Expected, FactsOf, Committing, Idle
  <2>5. JournalAgrees' /\ GraphAfterClosure'
    BY <1>1 DEF JournalAgrees, GraphAfterClosure, Delivered, Outcome, Expected
  <2>6. OpMatchesPhase' /\ OpInvariant'
    BY <1>1, <1>2 DEF OpMatchesPhase, OpInvariant, Idle
  <2>7. StartupInvariant'
    BY <1>1, <1>2 DEF StartupInvariant, Sessions, Journaled, Settled, Delivered, Outcome
  <2> QED
    BY <2>2, <2>3, <2>4, <2>5, <2>6, <2>7
<1>3. CASE op.closure = NoClosure /\ op' = Idle /\ UNCHANGED receiptRows
  BY <1>1, <1>3, ReleaseInv DEF durable, Committing
<1> QED
  BY <1>2, <1>3 DEF Refill

-----------------------------------------------------------------------------
(* Abort and the transactions of close_episode.                            *)

LEMMA AbortEpisodeInv ==
  ASSUME Inv, NEW e \in Episodes, AbortEpisode(e)
  PROVE  Inv'
<1> USE DEF Inv
<1>1. /\ op = Idle /\ op' = op /\ service = "up" /\ mem[e] = "open"
      /\ closureRow[e] = NoClosure /\ coordState[e] = "running"
      /\ coordState' = [coordState EXCEPT ![e] = "aborted"]
      /\ mem' = [mem EXCEPT ![e] = "aborted"]
      /\ UNCHANGED <<sessionRow, receiptRows, closureRow, graphRows, spool,
                     graphMemory, service, todo>>
  BY DEF AbortEpisode, At, Free, OpInvariant
<1>2. TypeOK'
  BY <1>1 DEF TypeOK, CoordStates, Terminal
<1>3. ReceiptsArePrefix' /\ DeliveryReportTrue'
  BY <1>1 DEF ReceiptsArePrefix, DeliveryReportTrue, Complete, Expected, FactsOf
<1>4. JournalAgrees'
  BY <1>1 DEF JournalAgrees, TypeOK, Outcome
<1>5. GraphAfterClosure'
  BY <1>1 DEF GraphAfterClosure, Delivered, TypeOK, Outcome, Expected
<1>6. SessionMirrorsJournal'
  BY <1>1 DEF SessionMirrorsJournal, TypeOK, Outcome, Committing, Idle
<1>7. OpMatchesPhase' /\ OpInvariant' /\ StartupInvariant'
  BY <1>1 DEF OpMatchesPhase, OpInvariant, StartupInvariant, Idle
<1> QED
  BY <1>2, <1>3, <1>4, <1>5, <1>6, <1>7

\* The session is closed while its episode is still running.
LEMMA MarkClosedInv ==
  ASSUME Inv, MarkClosed
  PROVE  Inv'
<1> USE DEF Inv
<1>1. /\ op.step = "refill" /\ op' = [op EXCEPT !.step = "closure"] /\ op \in Ops
      /\ op.ep \in Episodes /\ op.closure # NoClosure
      /\ mem[op.ep] = "open" /\ mem' = [mem EXCEPT ![op.ep] = "closed"]
      /\ spool[op.ep] > 0 /\ service = "up" /\ UNCHANGED <<durable, service, todo>>
  BY DEF MarkClosed, ReadyToClose, At, Goto, OpInvariant, OpMatchesPhase, TypeOK, Idle
<1>2. coordState[op.ep] = "running" /\ sessionRow[op.ep]
  BY <1>1 DEF SessionMirrorsJournal
<1>3. TypeOK'
  BY <1>1 DEF TypeOK, durable, Ops, Steps
<1>4. OpMatchesPhase' /\ OpInvariant'
  BY <1>1, <1>2 DEF OpMatchesPhase, OpInvariant, Ops, TypeOK, durable
<1>5. SessionMirrorsJournal'
  BY <1>1, <1>2 DEF SessionMirrorsJournal, TypeOK, durable, Outcome, Committing, Ops
<1>6. StartupInvariant'
  BY <1>1 DEF StartupInvariant
<1> QED
  BY <1>1, <1>3, <1>4, <1>5, <1>6, DurableFrame

\* The closure row appears while the coordinator episode is still running.
LEMMA CommitClosureInv ==
  ASSUME Inv, CommitClosure
  PROVE  Inv'
<1> USE DEF Inv
<1>1. /\ op.step = "closure" /\ op' = [op EXCEPT !.step = "terminal"]
      /\ op \in Ops /\ op.ep \in Episodes /\ op.closure \in Closures
      /\ op.closure # NoClosure /\ mem[op.ep] = "closed" /\ spool[op.ep] > 0
      /\ coordState[op.ep] = "running" /\ closureRow[op.ep] \in {NoClosure, op.closure}
      /\ closureRow' = [closureRow EXCEPT ![op.ep] = op.closure]
      /\ UNCHANGED <<coordState, sessionRow, receiptRows, graphRows, spool,
                     graphMemory, service, todo, mem>>
  BY DEF CommitClosure, At, Goto, TypeOK, OpInvariant, Ops
<1>2. /\ service = "up" /\ graphRows[op.ep] = <<>>
      /\ op.ep \notin graphMemory /\ Failures(op.ep) \notin graphMemory
  <2>1. service = "up"
    BY <1>1 DEF OpMatchesPhase, Idle, TypeOK
  <2>2. ~Delivered(op.ep)
    BY <1>1 DEF Delivered, Outcome
  <2> QED
    BY <1>1, <2>1, <2>2 DEF GraphAfterClosure
<1>3. TypeOK'
  BY <1>1 DEF TypeOK, Ops, Steps
<1>4. ReceiptsArePrefix' /\ DeliveryReportTrue'
  BY <1>1, <1>2 DEF ReceiptsArePrefix, DeliveryReportTrue, Complete, Expected, FactsOf,
       TypeOK
<1>5. JournalAgrees'
  BY <1>1, <1>2 DEF JournalAgrees, TypeOK, Outcome
<1>6. GraphAfterClosure'
  BY <1>1, <1>2 DEF GraphAfterClosure, Delivered, TypeOK, Outcome, Expected
<1>7. SessionMirrorsJournal'
  BY <1>1, <1>2 DEF SessionMirrorsJournal, TypeOK, Outcome, Committing, Idle
<1>8. OpMatchesPhase' /\ OpInvariant' /\ StartupInvariant'
  BY <1>1, <1>2 DEF OpMatchesPhase, OpInvariant, StartupInvariant, Ops, TypeOK
<1> QED
  BY <1>3, <1>4, <1>5, <1>6, <1>7, <1>8

\* The measured outcome becomes the coordinator state; nothing was delivered yet.
LEMMA CommitTerminalInv ==
  ASSUME Inv, CommitTerminal
  PROVE  Inv'
<1> USE DEF Inv
<1>1. /\ op.step = "terminal" /\ op' = [op EXCEPT !.step = "parents"]
      /\ op \in Ops /\ op.ep \in Episodes /\ op.closure # NoClosure
      /\ closureRow[op.ep] = op.closure /\ mem[op.ep] = "closed"
      /\ coordState[op.ep] = "running"
      /\ coordState' = [coordState EXCEPT ![op.ep] = Outcome(op.closure)]
      /\ UNCHANGED <<sessionRow, receiptRows, closureRow, graphRows, spool,
                     graphMemory, service, todo, mem>>
  BY DEF CommitTerminal, At, Goto, TypeOK, OpInvariant
<1>2. service = "up" /\ sessionRow[op.ep]
  BY <1>1 DEF SessionMirrorsJournal, OpMatchesPhase, Idle, TypeOK
<1>3. graphRows[op.ep] = <<>>
  BY <1>1, <1>2 DEF GraphAfterClosure, Delivered, Outcome, Expected
<1>4. TypeOK'
  BY <1>1 DEF TypeOK, Ops, Steps, CoordStates, Terminal, Outcome
<1>5. ReceiptsArePrefix' /\ DeliveryReportTrue'
  BY <1>1 DEF ReceiptsArePrefix, DeliveryReportTrue, Complete, Expected, FactsOf
<1>6. JournalAgrees'
  BY <1>1, <1>2 DEF JournalAgrees, TypeOK, Outcome
<1>7. GraphAfterClosure'
  BY <1>1, <1>2 DEF GraphAfterClosure, Delivered, TypeOK, Outcome, Expected
<1>8. SessionMirrorsJournal'
  BY <1>1, <1>2 DEF SessionMirrorsJournal, TypeOK, Outcome, Committing, Idle
<1>9. OpMatchesPhase' /\ StartupInvariant'
  BY <1>1, <1>2 DEF OpMatchesPhase, StartupInvariant
<1>10. OpInvariant'
  BY <1>1, <1>2, <1>3 DEF OpInvariant, Ops, TypeOK, Delivered, DeliveryComplete, Outcome
<1> QED
  BY <1>4, <1>5, <1>6, <1>7, <1>8, <1>9, <1>10

-----------------------------------------------------------------------------
(* Graph delivery.                                                         *)

\* A graph write, acknowledged or not, is made for a delivered episode only.
LEMMA GraphWriteInv ==
  ASSUME Inv, WriteParents \/ WriteEpisode \/ WriteFailures
  PROVE  Inv'
<1> USE DEF Inv
<1> DEFINE written == {Parents, op.ep, Failures(op.ep)}
           Sound ==
             /\ graphMemory \subseteq graphMemory'
             /\ graphMemory' \subseteq graphMemory \cup written
             /\ op' \in Ops /\ op'.ep = op.ep /\ op'.closure = op.closure
             /\ op'.step \in {"episode", "failures", "deliver"}
             /\ op'.report.receipts \subseteq graphMemory'
<1>1. /\ op.step \in {"parents", "episode", "failures"} /\ op \in Ops /\ op.ep \in Episodes
      /\ UNCHANGED <<coordState, sessionRow, receiptRows, closureRow, graphRows,
                     spool, service, todo, mem>>
  BY DEF WriteParents, WriteEpisode, WriteFailures, GraphWrite, At, TypeOK
<1>2. /\ Delivered(op.ep) /\ ~DeliveryComplete(op.ep) /\ op.report.receipts \subseteq graphMemory
      /\ service \in {"up", "retrying"}
  BY <1>1 DEF OpInvariant, OpMatchesPhase, Idle, TypeOK
<1>3. op.report \in Attempts /\ written \subseteq Facts
  BY <1>1 DEF Ops, Facts
<1>4. Sound
  <2>1. ASSUME NEW record \in written, NEW next \in {"episode", "failures", "deliver"},
               graphMemory' = graphMemory \cup {record},
               op' = [op EXCEPT !.step = next, !.report.receipts = @ \cup {record}]
        PROVE  Sound
    <3>1. op' = [op EXCEPT !.step = next,
                   !.report = [@ EXCEPT !.receipts = op.report.receipts \cup {record}]]
      BY <1>1, <1>3, <2>1 DEF Ops, Attempts
    <3>2. op.report.receipts \cup {record} \subseteq Facts
      BY <1>3 DEF Attempts
    <3>3. op' \in Ops
      BY <1>1, <1>3, <3>1, <3>2 DEF Ops, Steps, Attempts
    <3>4. /\ op'.ep = op.ep /\ op'.closure = op.closure /\ op'.step = next
          /\ op'.report.receipts = op.report.receipts \cup {record}
      BY <1>1, <1>3, <3>1 DEF Ops, Attempts
    <3> QED
      BY <1>2, <2>1, <3>3, <3>4
  <2>2. ASSUME NEW error \in GraphErrors, NEW cached \in SUBSET written,
               graphMemory' = graphMemory \cup cached,
               op' = [op EXCEPT !.step = "deliver", !.report.error = error]
        PROVE  Sound
    <3>1. op' = [op EXCEPT !.step = "deliver", !.report = [@ EXCEPT !.error = error]]
      BY <1>1, <1>3, <2>2 DEF Ops, Attempts
    <3>2. op' \in Ops
      BY <1>1, <1>3, <3>1 DEF Ops, Steps, Attempts
    <3>3. /\ op'.ep = op.ep /\ op'.closure = op.closure /\ op'.step = "deliver"
          /\ op'.report.receipts = op.report.receipts
      BY <1>1, <1>3, <3>1 DEF Ops, Attempts
    <3> QED
      BY <1>2, <2>2, <3>2, <3>3
  <2>3. CASE WriteParents
    BY <2>1, <2>2, <2>3 DEF WriteParents, GraphWrite
  <2>4. CASE WriteEpisode
    BY <2>1, <2>2, <2>4 DEF WriteEpisode, GraphWrite
  <2>5. CASE WriteFailures
    BY <2>1, <2>2, <2>5 DEF WriteFailures, GraphWrite
  <2> QED
    BY <2>3, <2>4, <2>5
<1>5. TypeOK'
  BY <1>1, <1>3, <1>4 DEF TypeOK
<1>6. ReceiptsArePrefix' /\ JournalAgrees' /\ SessionMirrorsJournal'
  BY <1>1 DEF ReceiptsArePrefix, JournalAgrees, SessionMirrorsJournal, Outcome,
       Committing, Idle
<1>7. GraphAfterClosure'
  BY <1>1, <1>2, <1>4, EpisodesAssumption
     DEF GraphAfterClosure, Delivered, Outcome, Expected, Failures
<1>8. DeliveryReportTrue'
  BY <1>1, <1>4 DEF DeliveryReportTrue, Complete, Expected, FactsOf
<1>9. OpMatchesPhase' /\ StartupInvariant'
  BY <1>1, <1>2, <1>4 DEF OpMatchesPhase, StartupInvariant
<1>10. OpInvariant'
  <2>1. \A e \in Episodes : /\ Delivered(e)' <=> Delivered(e)
                            /\ DeliveryComplete(e)' <=> DeliveryComplete(e)
    BY <1>1 DEF Delivered, DeliveryComplete, Complete, Latest, Outcome,
         Expected, FactsOf
  <2> QED
    BY <1>1, <1>2, <1>4, <2>1 DEF OpInvariant, Complete, Expected, FactsOf
<1> QED
  BY <1>5, <1>6, <1>7, <1>8, <1>9, <1>10

\* A complete report is appended only after incomplete ones, and only when true.
LEMMA RecordDeliveryInv ==
  ASSUME Inv, RecordDelivery
  PROVE  Inv'
<1> USE DEF Inv
<1>1. /\ op.step = "deliver" /\ op \in Ops /\ op.ep \in Episodes
      /\ Delivered(op.ep) /\ ~DeliveryComplete(op.ep)
      /\ op.report.receipts \subseteq graphMemory
      /\ UNCHANGED <<coordState, sessionRow, receiptRows, closureRow, spool,
                     graphMemory>>
  BY DEF RecordDelivery, At, TypeOK, OpInvariant
<1>2. CASE UNCHANGED graphRows
  <2>1. UNCHANGED durable
    BY <1>1, <1>2 DEF durable
  <2>2. CASE op' = Idle /\ UNCHANGED <<service, todo, mem>>
    BY <1>1, <2>1, <2>2, ReleaseInv DEF Committing
  <2>3. CASE Die("refused")
    BY <2>1, <2>3, DieInv
  <2> QED
    BY <1>2, <2>2, <2>3 DEF RecordDelivery
<1>3. CASE /\ graphRows' = [graphRows EXCEPT ![op.ep] = Append(@, Report)]
           /\ op' = Idle /\ UNCHANGED <<service, todo, mem>>
  <2> DEFINE rows == graphRows[op.ep]
  <2>0. Report \in Reports /\ Report.expected = Expected(op.ep)
    BY <1>1 DEF Report, Reports, Expected, Ops, Attempts
  <2> HIDE DEF Report
  <2>1. /\ rows \in Seq(Reports)
        /\ graphRows'[op.ep] = Append(rows, Report)
        /\ \A e \in Episodes : e # op.ep => graphRows'[e] = graphRows[e]
    BY <1>1, <1>3 DEF TypeOK
  <2>2. TypeOK'
    <3>1. Append(rows, Report) \in Seq(Reports)
      BY <2>0, <2>1
    <3>2. graphRows' \in [Episodes -> Seq(Reports)]
      BY <1>1, <1>3, <3>1 DEF TypeOK
    <3>3. Idle \in Ops
      BY DEF Idle, Ops, Steps, NoReport, Attempts
    <3> QED
      BY <1>1, <1>3, <3>2, <3>3 DEF TypeOK, Idle
  <2>3. ReceiptsArePrefix' /\ JournalAgrees' /\ SessionMirrorsJournal'
    BY <1>1, <1>3 DEF ReceiptsArePrefix, JournalAgrees, SessionMirrorsJournal, Outcome,
         Committing, Idle
  <2>4. GraphAfterClosure'
    <3>1. \A e \in Episodes : \A i \in DOMAIN graphRows'[e] :
             graphRows'[e][i].expected = Expected(e)
      <4> SUFFICES ASSUME NEW e \in Episodes, NEW i \in DOMAIN graphRows'[e]
                   PROVE  graphRows'[e][i].expected = Expected(e)
        OBVIOUS
      <4>1. CASE e # op.ep
        BY <2>1, <4>1 DEF GraphAfterClosure
      <4>2. CASE e = op.ep /\ i \in 1 .. Len(rows)
        BY <2>0, <2>1, <4>2 DEF GraphAfterClosure
      <4>3. CASE e = op.ep /\ i = Len(rows) + 1
        BY <2>0, <2>1, <4>3
      <4> QED
        BY <2>0, <2>1, <4>1, <4>2, <4>3
    <3> QED
      BY <1>1, <2>1, <3>1 DEF GraphAfterClosure, Delivered, Outcome, Expected
  <2>5. \A i \in DOMAIN rows : ~Complete(op.ep, rows[i])
    BY <1>1, <2>1 DEF DeliveryReportTrue, DeliveryComplete, Latest, Expected, FactsOf
  <2>6. DeliveryReportTrue'
    <3> SUFFICES ASSUME NEW e \in Episodes, NEW i \in DOMAIN graphRows'[e],
                        Complete(e, graphRows'[e][i])
                 PROVE  /\ FactsOf(e, Expected(e)) \subseteq graphMemory
                        /\ i = Len(graphRows'[e])
      BY <1>1 DEF DeliveryReportTrue, Complete, Expected, FactsOf
    <3>1. CASE e # op.ep
      BY <2>1, <3>1 DEF DeliveryReportTrue, Expected, FactsOf
    <3>2. CASE e = op.ep
      <4>1. i \in 1 .. Len(rows) + 1 /\ Len(graphRows'[e]) = Len(rows) + 1
        BY <2>1, <3>2
      <4>2. CASE i \in 1 .. Len(rows)
        BY <2>1, <2>5, <3>2, <4>2
      <4>3. CASE i = Len(rows) + 1
        <5>1. graphRows'[e][i] = Report
          BY <2>0, <2>1, <3>2, <4>3
        <5>2. op.report.receipts = FactsOf(e, Expected(e))
          BY <2>0, <3>2, <5>1 DEF Complete, Report
        <5> QED
          BY <1>1, <4>1, <4>3, <5>2
      <4> QED
        BY <2>1, <4>1, <4>2, <4>3
    <3> QED
      BY <3>1, <3>2
  <2>7. OpMatchesPhase' /\ OpInvariant'
    BY <1>1, <1>3 DEF OpMatchesPhase, OpInvariant, Idle, NoReport
  <2>8. StartupInvariant'
    BY <1>1, <1>3 DEF StartupInvariant, Sessions, Journaled, Settled, Delivered, Outcome
  <2> QED
    BY <2>2, <2>3, <2>4, <2>6, <2>7, <2>8
<1> QED
  BY <1>2, <1>3 DEF RecordDelivery

-----------------------------------------------------------------------------
(* The theorems.                                                           *)

LEMMA InitInv == Init => Inv
<1> SUFFICES ASSUME Init PROVE Inv
  OBVIOUS
<1>1. TypeOK
  BY EpisodesAssumption DEF Init, TypeOK, CoordStates, Idle, Ops, Steps, NoReport, Attempts
<1>2. ReceiptsArePrefix
  <2>1. 0 \in 0 .. 0 /\ {} = 0 .. (0 - 1)
    OBVIOUS
  <2> QED
    BY <2>1 DEF Init, ReceiptsArePrefix
<1>3. JournalAgrees /\ GraphAfterClosure /\ DeliveryReportTrue /\ SessionMirrorsJournal
  BY DEF Init, JournalAgrees, GraphAfterClosure, DeliveryReportTrue, SessionMirrorsJournal,
       Expected, FactsOf, Committing, Idle
<1>4. OpMatchesPhase /\ OpInvariant /\ StartupInvariant
  BY DEF Init, OpMatchesPhase, OpInvariant, StartupInvariant, Idle, Sessions,
     NoReport
<1> QED
  BY <1>1, <1>2, <1>3, <1>4 DEF Inv

LEMMA NextInv ==
  ASSUME Inv, [Next]_vars
  PROVE  Inv'
<1>1. CASE Startup
  <2>1. CASE Start \/ BeginRestore \/ BeginRetry \/ Serve
    BY <2>1, PhaseInv
  <2>2. ASSUME NEW e \in Episodes, RecoverTransition(e) PROVE Inv'
    BY <2>2, RecoverTransitionInv
  <2>3. ASSUME NEW e \in Episodes, RestoreSession(e) PROVE Inv'
    BY <2>3, RestoreSessionInv
  <2>4. ASSUME NEW e \in Episodes, ReconcileSession(e) \/ RetryDelivery(e) PROVE Inv'
    BY <2>4, BeginInv
  <2> QED
    BY <1>1, <2>1, <2>2, <2>3, <2>4 DEF Startup
<1>2. CASE Progress
  <2>1. CASE ClosureConflict
    BY <2>1, ReopenInv DEF ClosureConflict, Committing, At
  <2> QED
    BY <1>2, <2>1, RegisterEpisodeInv, RecordSessionInv, EnterRunningInv,
       PublishReturnsInv, JournalReceiptInv, RefillInv, MarkClosedInv, CommitClosureInv,
       CommitTerminalInv, GraphWriteInv, RecordDeliveryInv DEF Progress
<1>3. CASE Request
  <2>1. CASE ReconcileProviderState
    BY <2>1, PhaseInv
  <2>2. ASSUME NEW e \in Episodes, AppendTelemetry(e) PROVE Inv'
    BY <2>2, AppendTelemetryInv
  <2>3. ASSUME NEW e \in Episodes, AbortEpisode(e) PROVE Inv'
    BY <2>3, AbortEpisodeInv
  <2>4. ASSUME NEW e \in Episodes, OpenEpisode(e) \/ RetryAppend(e) PROVE Inv'
    BY <2>4, BeginInv
  <2>5. ASSUME NEW e \in Episodes, NEW success \in BOOLEAN, CloseEpisode(e, success)
        PROVE  Inv'
    BY <2>5, BeginInv
  <2> QED
    BY <1>3, <2>1, <2>2, <2>3, <2>4, <2>5 DEF Request
<1>4. CASE Disturbance
  <2>1. CASE CancelAppend \/ RejectClose
    BY <2>1, ReleaseInv DEF CancelAppend, RejectClose, ReadyToClose, At, Committing
  <2>2. CASE Crash
    BY <2>2, DieInv DEF Crash
  <2>3. CASE TransactionFails
    BY <2>3, DieInv, ReleaseInv, ReopenInv DEF TransactionFails, Reopened
  <2> QED
    BY <1>4, <2>1, <2>2, <2>3 DEF Disturbance
<1>5. CASE UNCHANGED vars
  <2>1. UNCHANGED durable /\ UNCHANGED <<service, todo, mem, op>>
    BY <1>5 DEF vars, durable
  <2>2. TypeOK' /\ SessionMirrorsJournal' /\ OpMatchesPhase' /\ StartupInvariant'
    BY <2>1 DEF Inv, TypeOK, SessionMirrorsJournal, OpMatchesPhase, StartupInvariant,
       Sessions, Journaled, Settled, Delivered, Outcome, Idle, durable, Committing
  <2>3. OpInvariant'
    BY <2>1 DEF Inv, OpInvariant, Delivered, DeliveryComplete, Complete, Latest,
       Outcome, Idle, NoReport, durable, Expected, FactsOf
  <2> QED
    BY <2>1, <2>2, <2>3, DurableFrame DEF Inv
<1> QED
  BY <1>1, <1>2, <1>3, <1>4, <1>5 DEF Next

\* The inductive invariant holds in every reachable state.
THEOREM InductiveInvariant == Spec => []Inv
BY InitInv, NextInv, PTL DEF Spec

\* Types: every reachable state is well typed.
THEOREM TypeCorrect == Spec => []TypeOK
<1>1. Inv => TypeOK
  BY DEF Inv
<1> QED
  BY <1>1, InductiveInvariant, PTL

\* Crash anywhere, restart always: no interleaving of crashes, failed commits and
\* cancelled appends leaves a journal that startup would refuse.
THEOREM JournalAlwaysRestorable == Spec => []JournalRestorable
<1>1. Inv => JournalRestorable
  BY JournalAccepted DEF JournalRestorable
<1> QED
  BY <1>1, InductiveInvariant, PTL

\* Graph memory never learns of an episode before its closure is terminal.
THEOREM GraphNeverAhead == Spec => []GraphOnlyAfterTerminal
<1>1. Inv => GraphOnlyAfterTerminal
  BY DEF Inv, GraphAfterClosure, Delivered, GraphOnlyAfterTerminal, Expected
<1> QED
  BY <1>1, InductiveInvariant, PTL

\* A complete delivery report tells the truth and is the last one.
THEOREM DeliveryReportsTrue == Spec => []DeliveryReportTrue
<1>1. Inv => DeliveryReportTrue
  BY DEF Inv
<1> QED
  BY <1>1, InductiveInvariant, PTL

\* What clients are told about a session is what the journal says.
THEOREM SessionsMirrorJournal == Spec => []SessionMirrorsJournal
<1>1. Inv => SessionMirrorsJournal
  BY DEF Inv
<1> QED
  BY <1>1, InductiveInvariant, PTL

\* Whatever fails, is retried or restarted, graph memory follows the journal.
THEOREM GraphAlwaysFollows == Spec => []GraphFollowsJournal
BY GraphNeverAhead, DeliveryReportsTrue, PTL DEF GraphFollowsJournal

-----------------------------------------------------------------------------
(* History.                                                                *)

\* What an episode's tables are when a step begins.
LEMMA HistoryFacts ==
  ASSUME Inv, NEW e \in Episodes
  PROVE  /\ graphRows[e] \in Seq(Reports)
         /\ SubSeq(graphRows[e], 1, Len(graphRows[e])) = graphRows[e]
         /\ coordState[e] = "aborted" => closureRow[e] = NoClosure
<1>1. graphRows[e] \in Seq(Reports)
  BY DEF Inv, TypeOK
<1>2. SubSeq(graphRows[e], 1, Len(graphRows[e])) = graphRows[e]
  BY <1>1
<1>3. coordState[e] = "aborted" => closureRow[e] = NoClosure
  BY DEF Inv, JournalAgrees, Outcome
<1> QED
  BY <1>1, <1>2, <1>3

\* Steps that leave the reports alone.
LEMMA HistoryWithoutReports ==
  ASSUME Inv, [Next]_vars, UNCHANGED graphRows, NEW e \in Episodes,
         receiptRows[e] \subseteq receiptRows'[e],
         closureRow[e] # NoClosure => closureRow'[e] = closureRow[e],
         coordState[e] \in Terminal => coordState'[e] = coordState[e],
         coordState[e] = "aborted" => spool'[e] = spool[e] /\ closureRow'[e] = closureRow[e]
  PROVE  HistoryExtends(e)
BY HistoryFacts DEF HistoryExtends

LEMMA HistoryStep == Inv /\ [Next]_vars => [\A e \in Episodes : HistoryExtends(e)]_durable
<1> SUFFICES ASSUME Inv, Next, ~UNCHANGED durable, NEW e \in Episodes
             PROVE  HistoryExtends(e)
  BY DEF vars, durable
<1> USE DEF Inv
<1>1. [Next]_vars
  OBVIOUS
<1>2. ASSUME NEW x \in Episodes, RecoverTransition(x) PROVE HistoryExtends(e)
  <2>1. CASE RecoverRefuses(x) /\ UNCHANGED durable
    BY <2>1
  <2>2. CASE /\ ~RecoverRefuses(x)
             /\ coordState' = [coordState EXCEPT ![x] = Recovered(x)]
             /\ UNCHANGED <<receiptRows, closureRow, graphRows, spool>>
    <3>1. coordState[e] \in Terminal => coordState'[e] = coordState[e]
      BY <2>2 DEF TypeOK, JournalAgrees, Recovered, Terminal
    <3> QED
      BY <1>1, <2>2, <3>1, HistoryWithoutReports
  <2> QED
    BY <1>2, <2>1, <2>2 DEF RecoverTransition
<1>3. CASE RegisterEpisode \/ RecordSession \/ EnterRunning
  <2>1. UNCHANGED <<receiptRows, closureRow, graphRows, spool>>
    BY <1>3 DEF RegisterEpisode, RecordSession, EnterRunning
  <2>2. coordState[e] \in Terminal => coordState'[e] = coordState[e]
    BY <1>3 DEF RegisterEpisode, RecordSession, EnterRunning, TypeOK, Terminal
  <2> QED
    BY <1>1, <2>1, <2>2, HistoryWithoutReports
<1>4. CASE JournalReceipt \/ Refill
  <2>1. UNCHANGED <<coordState, closureRow, graphRows, spool>>
    BY <1>4 DEF JournalReceipt, Refill
  <2>2. receiptRows[e] \subseteq receiptRows'[e]
    <3>1. UNCHANGED receiptRows \/ \E seq : RecordReceipt(op.ep, seq)
      BY <1>4 DEF JournalReceipt, Refill
    <3>2. ASSUME NEW seq, RecordReceipt(op.ep, seq) PROVE receiptRows[e] \subseteq receiptRows'[e]
      <4>1. receiptRows'[e] \in {receiptRows[e], receiptRows[e] \cup {seq}}
        BY <3>2 DEF RecordReceipt, TypeOK
      <4> QED
        BY <4>1
    <3> QED
      BY <3>1, <3>2
  <2> QED
    BY <1>1, <2>1, <2>2, HistoryWithoutReports
<1>5. CASE CommitClosure
  <2>1. UNCHANGED <<coordState, receiptRows, graphRows, spool>>
    BY <1>5 DEF CommitClosure
  <2>2. /\ closureRow[e] # NoClosure => closureRow'[e] = closureRow[e]
        /\ e # op.ep => closureRow'[e] = closureRow[e]
    BY <1>5 DEF CommitClosure, TypeOK
  <2>3. coordState[op.ep] = "running"
    BY <1>5 DEF CommitClosure, At, OpInvariant
  <2> QED
    BY <1>1, <2>1, <2>2, <2>3, HistoryWithoutReports
<1>6. CASE CommitTerminal
  <2>1. UNCHANGED <<closureRow, receiptRows, graphRows, spool>>
    BY <1>6 DEF CommitTerminal
  <2>2. coordState[e] \in Terminal => coordState'[e] = coordState[e]
    BY <1>6 DEF CommitTerminal, TypeOK, Terminal
  <2> QED
    BY <1>1, <2>1, <2>2, HistoryWithoutReports
<1>7. CASE WriteParents \/ WriteEpisode \/ WriteFailures
  <2>1. UNCHANGED <<coordState, closureRow, receiptRows, graphRows, spool>>
    BY <1>7 DEF WriteParents, WriteEpisode, WriteFailures, GraphWrite
  <2> QED
    BY <1>1, <2>1, HistoryWithoutReports
<1>8. CASE RecordDelivery
  <2>1. /\ UNCHANGED <<coordState, closureRow, receiptRows, spool>>
        /\ \/ UNCHANGED graphRows
           \/ graphRows' = [graphRows EXCEPT ![op.ep] = Append(@, Report)]
    BY <1>8 DEF RecordDelivery
  <2>2. op.ep \in Episodes /\ Report \in Reports /\ ~DeliveryComplete(op.ep)
    BY <1>8 DEF RecordDelivery, At, OpInvariant, TypeOK, Ops, Report, Reports, Attempts, Expected
  <2>3. CASE graphRows'[e] = graphRows[e]
    BY <2>1, <2>3, HistoryFacts DEF HistoryExtends
  <2>4. CASE e = op.ep /\ graphRows'[e] = Append(graphRows[e], Report)
    <3>1. SubSeq(Append(graphRows[e], Report), 1, Len(graphRows[e])) = graphRows[e]
      BY <2>2, HistoryFacts
    <3> QED
      BY <2>1, <2>2, <2>4, <3>1, HistoryFacts DEF HistoryExtends
  <2> QED
    BY <2>1, <2>2, <2>3, <2>4 DEF TypeOK
<1>9. ASSUME NEW x \in Episodes, AppendTelemetry(x) PROVE HistoryExtends(e)
  <2>1. UNCHANGED <<coordState, closureRow, receiptRows, graphRows>> /\ coordState[x] = "running"
    BY <1>9 DEF AppendTelemetry, SessionMirrorsJournal, Committing, Idle
  <2>2. coordState[e] = "aborted" => spool'[e] = spool[e]
    BY <1>9, <2>1 DEF AppendTelemetry, TypeOK
  <2> QED
    BY <1>1, <2>1, <2>2, HistoryWithoutReports
<1>10. ASSUME NEW x \in Episodes, AbortEpisode(x) PROVE HistoryExtends(e)
  <2>1. UNCHANGED <<spool, closureRow, receiptRows, graphRows>>
    BY <1>10 DEF AbortEpisode
  <2>2. coordState[e] \in Terminal => coordState'[e] = coordState[e]
    BY <1>10 DEF AbortEpisode, TypeOK, Terminal
  <2> QED
    BY <1>1, <2>1, <2>2, HistoryWithoutReports
<1>11. CASE Startup
  <2>1. \E x \in Episodes : RecoverTransition(x)
    BY <1>11 DEF Startup, Start, BeginRestore, BeginRetry, Serve, RestoreSession,
       ReconcileSession, RetryDelivery
  <2> QED
    BY <1>2, <2>1
<1>12. CASE Progress
  BY <1>3, <1>4, <1>5, <1>6, <1>7, <1>8, <1>12 DEF Progress, PublishReturns, MarkClosed,
     ClosureConflict
<1>13. CASE Request
  <2>1. \E x \in Episodes : AppendTelemetry(x) \/ AbortEpisode(x)
    BY <1>13 DEF Request, ReconcileProviderState, OpenEpisode, RetryAppend, CloseEpisode
  <2> QED
    BY <1>9, <1>10, <2>1
<1>14. CASE Disturbance
  BY <1>14 DEF Disturbance, CancelAppend, RejectClose, TransactionFails, Crash
<1> QED
  BY <1>11, <1>12, <1>13, <1>14 DEF Next

\* What the journal says of an episode stays: rows are only added, an end is final
\* and an aborted episode gets nothing more, whatever is retried or restarted
\* (coordinator/store.py:835).
THEOREM HistoryAlwaysFinal == Spec => HistoryIsFinal
BY InductiveInvariant, HistoryStep, PTL DEF Spec, HistoryIsFinal

-----------------------------------------------------------------------------
(* The digest of a closure.                                                *)

\* Without failing commits: the records an operation is closing over stay all
\* there are until its closure is terminal, and the session of a closure row is
\* not open, so that no second closure is ever under way.
DigestInvariant ==
  /\ ClosureCoversTelemetry
  /\ op.closure # NoClosure => op.closure.records = spool[op.ep]
  /\ \A e \in Episodes : mem[e] = "open" => closureRow[e] = NoClosure
  /\ op.step = "closure" => closureRow[op.ep] = NoClosure
  /\ op.step \in {"register", "session", "running"} => spool[op.ep] = 0

\* A step that keeps the closures, the spool and the open sessions.
LEMMA DigestFrame ==
  ASSUME Inv, DigestInvariant, UNCHANGED <<closureRow, spool>>,
         \A e \in Episodes : mem'[e] = "open" => mem[e] = "open" \/ closureRow[e] = NoClosure,
         op'.step = "closure" => closureRow[op'.ep] = NoClosure,
         \/ op' = Idle
         \/ op'.closure = op.closure /\ op'.ep = op.ep /\ op'.step \notin {"register", "session", "running"}
         \/ op'.closure = op.closure /\ op'.ep = op.ep /\ op.step \in {"register", "session", "running"}
         \/ op'.closure = NoClosure /\ op'.step \notin {"register", "session", "running"}
  PROVE  DigestInvariant'
BY DEF DigestInvariant, ClosureCoversTelemetry, Idle

LEMMA DigestStep ==
  ASSUME TxMayFail = FALSE, Inv, DigestInvariant, [Next]_vars
  PROVE  DigestInvariant'
<1> USE DEF Inv
<1>1. CASE UNCHANGED vars
  BY <1>1 DEF vars, DigestInvariant, ClosureCoversTelemetry
<1>2. ASSUME NEW e \in Episodes, AppendTelemetry(e) PROVE DigestInvariant'
  <2>1. /\ op = Idle /\ op' = Begin("publish", e) /\ mem[e] = "open"
        /\ spool' = [spool EXCEPT ![e] = @ + 1]
        /\ UNCHANGED <<closureRow, mem>>
    BY <1>2 DEF AppendTelemetry, Free, At, OpInvariant
  <2>2. closureRow[e] = NoClosure
    BY <2>1 DEF DigestInvariant, Idle
  <2> QED
    BY <2>1, <2>2 DEF DigestInvariant, ClosureCoversTelemetry, Begin, Idle, TypeOK
<1>3. CASE CommitClosure
  <2>1. /\ op.step = "closure" /\ op.closure # NoClosure /\ op.ep \in Episodes
        /\ op' = [op EXCEPT !.step = "terminal"] /\ op \in Ops
        /\ closureRow' = [closureRow EXCEPT ![op.ep] = op.closure]
        /\ UNCHANGED <<spool, mem>> /\ mem[op.ep] = "closed"
    BY <1>3 DEF CommitClosure, At, Goto, OpInvariant, TypeOK
  <2> QED
    BY <2>1 DEF DigestInvariant, ClosureCoversTelemetry, TypeOK, Ops
<1>4. CASE CommitTerminal
  <2>1. /\ op' = [op EXCEPT !.step = "parents"] /\ op \in Ops
        /\ UNCHANGED <<spool, closureRow, mem>>
    BY <1>4 DEF CommitTerminal, At, Goto, TypeOK
  <2> QED
    BY <2>1 DEF DigestInvariant, ClosureCoversTelemetry, Ops
<1>5. ASSUME NEW e \in Episodes, NEW success \in BOOLEAN, CloseEpisode(e, success)
      PROVE  DigestInvariant'
  <2>1. /\ op = Idle /\ UNCHANGED <<spool, closureRow, mem>>
        /\ op' = [Begin("refill", e) EXCEPT
                    !.closure = [records |-> spool[e], success |-> success]]
    BY <1>5 DEF CloseEpisode, Free, At, OpInvariant, durable
  <2>2. op'.step = "refill" /\ op'.ep = e /\ op'.closure.records = spool[e]
    BY <2>1 DEF Begin, Idle
  <2> QED
    BY <2>1, <2>2 DEF DigestInvariant, ClosureCoversTelemetry, Idle
<1>6. CASE EnterRunning
  <2>1. /\ op.step = "running" /\ op.ep \in Episodes /\ op' = Idle
        /\ UNCHANGED <<closureRow, spool>>
        /\ \A e \in Episodes : e # op.ep => mem'[e] = mem[e]
    BY <1>6 DEF EnterRunning, At, TypeOK
  <2>2. closureRow[op.ep] = NoClosure
    BY <2>1 DEF DigestInvariant, JournalAgrees
  <2> QED
    BY <2>1, <2>2, DigestFrame DEF Idle
<1>7. ASSUME NEW e \in Episodes, OpenEpisode(e) PROVE DigestInvariant'
  BY <1>7 DEF OpenEpisode, Free, At, OpInvariant, Begin, Idle, durable,
     DigestInvariant, ClosureCoversTelemetry
<1>8. ASSUME NEW e \in Episodes, RestoreSession(e) PROVE DigestInvariant'
  <2>1. /\ op = Idle /\ UNCHANGED <<closureRow, spool>>
        /\ op' = Begin("refill", e) /\ mem' = [mem EXCEPT ![e] = Restored(e)]
    BY <1>8, JournalAccepted DEF RestoreSession, StartupInvariant, Journaled, At,
       OpInvariant, durable
  <2>2. Restored(e) = "open" => closureRow[e] = NoClosure
    BY DEF Restored
  <2> QED
    BY <2>1, <2>2, DigestFrame DEF Begin, Idle, TypeOK
<1>9. ASSUME UNCHANGED <<closureRow, spool>>, op' = Idle,
             \A e \in Episodes : mem'[e] = "absent"
      PROVE  DigestInvariant'
  BY <1>9 DEF DigestInvariant, ClosureCoversTelemetry, Idle
<1>10. CASE Startup
  <2>1. CASE Start \/ BeginRestore \/ BeginRetry \/ Serve
    BY <2>1 DEF Start, BeginRestore, BeginRetry, Serve, durable, DigestInvariant,
       ClosureCoversTelemetry
  <2>2. ASSUME NEW e \in Episodes, RecoverTransition(e) PROVE DigestInvariant'
    <3>1. UNCHANGED <<closureRow, spool, mem, op>>
      BY <2>2, JournalAccepted DEF RecoverTransition, StartupInvariant, Journaled
    <3> QED
      BY <3>1 DEF DigestInvariant, ClosureCoversTelemetry
  <2>3. ASSUME NEW e \in Episodes, ReconcileSession(e) \/ RetryDelivery(e)
        PROVE  DigestInvariant'
    <3>1. /\ op = Idle /\ UNCHANGED <<closureRow, spool, mem>>
          /\ op' \in {Begin("refill", e), Begin("parents", e), Idle}
      BY <2>3 DEF ReconcileSession, RetryDelivery, At, OpInvariant, durable
    <3>2. op'.closure = NoClosure /\ op'.step \in {"refill", "parents", "idle"}
      <4>1. ASSUME NEW step PROVE Begin(step, e).closure = NoClosure /\ Begin(step, e).step = step
        BY DEF Begin, Idle
      <4>2. Idle.closure = NoClosure /\ Idle.step = "idle"
        BY DEF Idle
      <4> QED
        BY <3>1, <4>1, <4>2
    <3> QED
      BY <3>1, <3>2, DigestFrame
  <2> QED
    BY <1>8, <1>10, <2>1, <2>2, <2>3 DEF Startup
<1>11. CASE Progress
  <2>1. CASE RegisterEpisode \/ RecordSession
    BY <2>1, DigestFrame DEF RegisterEpisode, RecordSession, At, Goto, TypeOK, Ops
  <2>2. CASE PublishReturns \/ JournalReceipt \/ Refill
    BY <2>2, DigestFrame DEF PublishReturns, JournalReceipt, Refill, At, Goto, durable, Idle,
       TypeOK, Ops
  <2>3. CASE ClosureConflict
    BY <2>3 DEF ClosureConflict, At, DigestInvariant
  <2>4. CASE WriteParents \/ WriteEpisode \/ WriteFailures
    <3>1. /\ op.step \in {"parents", "episode", "failures"} /\ op \in Ops
          /\ UNCHANGED <<closureRow, spool, mem>>
          /\ op'.closure = op.closure /\ op'.ep = op.ep
          /\ op'.step \in {"episode", "failures", "deliver"}
      BY <2>4 DEF WriteParents, WriteEpisode, WriteFailures, GraphWrite, At, TypeOK, Ops, Attempts
    <3> QED
      BY <3>1, DigestFrame DEF Idle
  <2>5. CASE RecordDelivery
    <3>1. op.step = "deliver" /\ UNCHANGED <<closureRow, spool>> /\ op' = Idle
      BY <2>5 DEF RecordDelivery, At, Die
    <3>2. UNCHANGED mem \/ \A e \in Episodes : mem'[e] = "absent"
      BY <2>5 DEF RecordDelivery, Die
    <3> QED
      BY <3>1, <3>2, DigestFrame DEF Idle
  <2>6. CASE MarkClosed
    <3>1. /\ op.step = "refill" /\ op.closure # NoClosure /\ op.ep \in Episodes
          /\ op' = [op EXCEPT !.step = "closure"] /\ op \in Ops
          /\ mem' = [mem EXCEPT ![op.ep] = "closed"] /\ UNCHANGED <<closureRow, spool>>
      BY <2>6 DEF MarkClosed, ReadyToClose, At, Goto, TypeOK, durable
    <3>2. closureRow[op.ep] = NoClosure
      BY <3>1 DEF DigestInvariant, OpInvariant
    <3> QED
      BY <3>1, <3>2, DigestFrame DEF TypeOK, Ops
  <2> QED
    BY <1>3, <1>4, <1>6, <1>11, <2>1, <2>2, <2>3, <2>4, <2>5, <2>6 DEF Progress
<1>12. CASE Request
  <2>1. CASE ReconcileProviderState
    BY <2>1 DEF ReconcileProviderState, durable, DigestInvariant, ClosureCoversTelemetry
  <2>2. ASSUME NEW e \in Episodes, RetryAppend(e) PROVE DigestInvariant'
    <3>1. /\ op = Idle /\ op' = Begin("refill", e)
          /\ UNCHANGED <<closureRow, spool, mem>>
      BY <2>2 DEF RetryAppend, Free, At, OpInvariant, durable
    <3> QED
      BY <3>1, DigestFrame DEF Begin, Idle
  <2>3. ASSUME NEW e \in Episodes, AbortEpisode(e) PROVE DigestInvariant'
    <3>1. /\ op = Idle /\ op' = Idle /\ UNCHANGED <<closureRow, spool>>
          /\ mem' = [mem EXCEPT ![e] = "aborted"]
      BY <2>3 DEF AbortEpisode, Free, At, OpInvariant
    <3> QED
      BY <3>1, DigestFrame DEF Idle, TypeOK
  <2> QED
    BY <1>2, <1>5, <1>7, <1>12, <2>1, <2>2, <2>3 DEF Request
<1>13. CASE Disturbance
  <2>1. CASE CancelAppend \/ RejectClose
    BY <2>1, DigestFrame DEF CancelAppend, RejectClose, ReadyToClose, At, durable, Idle
  <2>2. CASE Crash
    BY <1>9, <2>2 DEF Crash, Die, durable
  <2> QED
    BY <1>13, <2>1, <2>2 DEF Disturbance, TransactionFails
<1> QED
  BY <1>1, <1>10, <1>11, <1>12, <1>13 DEF Next

\* A durable closure's digest covers all the telemetry of its episode, as long as
\* coordinator commits do not raise; ClosedRejectsAppends is violated when they
\* do (episodes/service.py:390).
THEOREM DigestsCoverTelemetry ==
  ASSUME TxMayFail = FALSE
  PROVE  Spec => []ClosureCoversTelemetry
<1>1. Init => DigestInvariant
  BY DEF Init, DigestInvariant, ClosureCoversTelemetry, Idle
<1>2. Inv /\ DigestInvariant /\ [Next]_vars => DigestInvariant'
  BY DigestStep
<1>3. DigestInvariant => ClosureCoversTelemetry
  BY DEF DigestInvariant
<1> QED
  BY <1>1, <1>2, <1>3, InductiveInvariant, PTL DEF Spec
=============================================================================
