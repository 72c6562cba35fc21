--------------------------- MODULE CorrectionReview ---------------------------
(***************************************************************************)
(* Human corrections: submitted for a closed training episode, approved or  *)
(* rejected once, delivered to graph memory as a correction and a lesson,   *)
(* and fed to training (EpisodeService.approve_correction and its neighbours,*)
(* api_backend.decide_correction, the coordinator's correction tables).      *)
(*                                                                         *)
(* Handlers run on one event loop.  A request waits only for the service's  *)
(* lock, which an append holds while it awaits telemetry; a rejection takes *)
(* no lock.  An approval, once it has the lock, runs without awaiting: its  *)
(* steps are apart because the process may die between any two.             *)
(*                                                                         *)
(* Abstracted: Corrections are those of failures of closed training episodes *)
(* (a submission for another is refused before anything is written); an     *)
(* approval is the human it names; graph memory is the facts its cache holds,*)
(* and where a receipt says they are is its own affair (GraphMemory).        *)
(***************************************************************************)
EXTENDS Naturals, Sequences, SequencesExt

CONSTANTS Corrections, Humans,
          Errors,           \* exceptions a graph write may raise
          Nobody, NoCorrection

ASSUME CorrectionAssumption ==
  /\ Nobody \notin Humans
  /\ NoCorrection \notin Corrections
  /\ Errors \cap {"falkordb", "local_cache", "none"} = {}

VARIABLES submitted,       \* training_correction_submissions
          approvedBy,      \* training_correction_approvals
          rejected,        \* training_correction_rejections
          attempts,        \* training_correction_graph_delivery_attempts
          failures,        \* the corrections whose failure graph memory holds
          correctionFact,  \* the approval in graph memory's correction,
          lessonFact,      \* and in its lesson
          phase,           \* of the process
          corrections,     \* EpisodeService._corrections
          approvals,       \* EpisodeService._approvals
          todo,            \* deliveries startup has yet to retry
          call,            \* what holds EpisodeService._lock
          waiting,         \* the request each human has waiting for it
          answers          \* history: the decisions humans were told of

tables == <<submitted, approvedBy, rejected, attempts>>
graph == <<failures, correctionFact, lessonFact>>
memory == <<corrections, approvals, todo>>
vars == <<tables, graph, phase, memory, call, waiting, answers>>

-----------------------------------------------------------------------------
Receipts == {"falkordb", "local_cache"}
Outcomes == Receipts \cup Errors
Approvals == [by : Humans \cup {Nobody}, delivery : Outcomes \cup {"none"}]
Calls == [step : {"free", "append", "approval", "correction", "lesson", "delivery"},
          correction : Corrections \cup {NoCorrection}, by : Humans \cup {Nobody},
          outcome : Outcomes \cup {"none"}]
NoRequest == [kind |-> "none", correction |-> NoCorrection]
Requests == [kind : {"submit", "approve"}, correction : Corrections] \cup {NoRequest}
Free == [step |-> "free", correction |-> NoCorrection, by |-> Nobody, outcome |-> "none"]
NoApproval == [by |-> Nobody, delivery |-> "none"]

Starting == phase \in {"starting", "reconciling"}
Serving == phase = "serving"
LockFree == call.step = "free"
LoopFree == call.step \in {"free", "append"}
Undecided(c) == approvedBy[c] = Nobody /\ c \notin rejected

\* Mutant: the approval's transaction does not look for a rejection.
ApprovableAnyway(c) == c \in submitted /\ approvedBy[c] = Nobody
\* record_training_correction_approval
Approvable(c) == c \in submitted /\ Undecided(c)

\* Mutant: the deliveries are not read back.
JournaledBase(c) == [by |-> approvedBy[c], delivery |-> "none"]
\* CoordinatorEpisodeJournal.approvals: the latest attempt stands for the approval.
Journaled(c) == [by |-> approvedBy[c],
                 delivery |-> IF attempts[c] = <<>> THEN "none" ELSE Last(attempts[c])]

\* Mutant: an attempt that failed counts as made.
IncompleteUntried(a) == a.by # Nobody /\ a.delivery = "none"
\* graph_receipt is None
Incomplete(a) == a.by # Nobody /\ a.delivery \notin Receipts

\* What _restore_journal and the journal's approvals() refuse.
Restorable ==
  \A c \in Corrections : /\ approvedBy[c] # Nobody => c \in submitted
                         /\ attempts[c] # <<>> => approvedBy[c] # Nobody

Init ==
  /\ submitted = {}
  /\ approvedBy = [c \in Corrections |-> Nobody]
  /\ rejected = {}
  /\ attempts = [c \in Corrections |-> <<>>]
  /\ failures \in SUBSET Corrections
  /\ correctionFact = [c \in Corrections |-> Nobody]
  /\ lessonFact = [c \in Corrections |-> Nobody]
  /\ phase = "down"
  /\ corrections = {}
  /\ approvals = [c \in Corrections |-> NoApproval]
  /\ todo = {}
  /\ call = Free
  /\ waiting = [h \in Humans |-> NoRequest]
  /\ answers = [c \in Corrections |-> {}]

-----------------------------------------------------------------------------
\* The journal is restored and the graph deliveries of closures are retried,
\* which may bring failures that were missing.
Start ==
  /\ phase = "down"
  /\ Restorable
  /\ phase' = "starting"
  /\ \E found \in SUBSET Corrections : failures' = failures \cup found
  /\ corrections' = submitted
  /\ approvals' = [c \in Corrections |-> Journaled(c)]
  /\ todo' = {c \in Corrections : Incomplete(Journaled(c))}
  /\ UNCHANGED <<tables, correctionFact, lessonFact, call, waiting, answers>>

\* _retry_incomplete_correction_deliveries
RetryDelivery(c) ==
  /\ Starting
  /\ LockFree
  /\ c \in todo
  /\ todo' = todo \ {c}
  /\ call' = [step |-> "correction", correction |-> c, by |-> approvals[c].by,
              outcome |-> "none"]
  /\ UNCHANGED <<tables, graph, phase, corrections, approvals, waiting, answers>>

\* reconcile_provider_state: once the providers are connected, the deliveries of
\* closures and of approvals that failed again are retried a second time.
Reconcile ==
  /\ phase = "starting"
  /\ LockFree
  /\ todo = {}
  /\ phase' = "reconciling"
  /\ \E found \in SUBSET Corrections : failures' = failures \cup found
  /\ todo' = {c \in Corrections : Incomplete(approvals[c])}
  /\ UNCHANGED <<tables, correctionFact, lessonFact, corrections, approvals, call, waiting, answers>>

Serve ==
  /\ phase = "reconciling"
  /\ LockFree
  /\ todo = {}
  /\ phase' = "serving"
  /\ UNCHANGED <<tables, graph, memory, call, waiting, answers>>

\* The process dies and forgets everything but the tables and the graph.
Dies ==
  /\ phase' = "down"
  /\ corrections' = {}
  /\ approvals' = [c \in Corrections |-> NoApproval]
  /\ todo' = {}
  /\ call' = Free
  /\ waiting' = [h \in Humans |-> NoRequest]

Crash ==
  /\ phase # "down"
  /\ Dies
  /\ UNCHANGED <<tables, graph, answers>>

-----------------------------------------------------------------------------
\* An append of some episode holds the lock while it awaits telemetry.
BeginAppend ==
  /\ Serving
  /\ LockFree
  /\ call' = [Free EXCEPT !.step = "append"]
  /\ UNCHANGED <<tables, graph, phase, memory, waiting, answers>>

EndAppend ==
  /\ call.step = "append"
  /\ call' = Free
  /\ UNCHANGED <<tables, graph, phase, memory, waiting, answers>>

\* submit_correction waits for the lock at once.
RequestSubmission(h, c) ==
  /\ Serving
  /\ LoopFree
  /\ waiting[h] = NoRequest
  /\ waiting' = [waiting EXCEPT ![h] = [kind |-> "submit", correction |-> c]]
  /\ UNCHANGED <<tables, graph, phase, memory, call, answers>>

\* _submit_correction: a submission made before is returned, a new one recorded.
Submit(h) ==
  /\ Serving
  /\ LockFree
  /\ waiting[h].kind = "submit"
  /\ submitted' = submitted \cup {waiting[h].correction}
  /\ corrections' = corrections \cup {waiting[h].correction}
  /\ waiting' = [waiting EXCEPT ![h] = NoRequest]
  /\ UNCHANGED <<approvedBy, rejected, attempts, graph, phase, approvals, todo, call, answers>>

\* Its transaction raises.
SubmissionFails(h) ==
  /\ Serving
  /\ LockFree
  /\ waiting[h].kind = "submit"
  /\ waiting[h].correction \notin corrections
  /\ waiting' = [waiting EXCEPT ![h] = NoRequest]
  /\ UNCHANGED <<tables, graph, phase, memory, call, answers>>

\* decide_correction, asked to approve: nothing is decided yet, and the service's
\* lock has to be awaited.
RequestApproval(h, c) ==
  /\ Serving
  /\ LoopFree
  /\ waiting[h] = NoRequest
  /\ c \in submitted
  /\ Undecided(c)
  /\ waiting' = [waiting EXCEPT ![h] = [kind |-> "approve", correction |-> c]]
  /\ UNCHANGED <<tables, graph, phase, memory, call, answers>>

\* decide_correction, asked to reject what is not decided yet.
Reject(c) ==
  /\ Serving
  /\ LoopFree
  /\ c \in submitted
  /\ Undecided(c)
  /\ rejected' = rejected \cup {c}
  /\ answers' = [answers EXCEPT ![c] = @ \cup {"rejected"}]
  /\ UNCHANGED <<submitted, approvedBy, attempts, graph, phase, memory, call, waiting>>

\* decide_correction, asked for the decision already made.
RepeatDecision(c) ==
  /\ Serving
  /\ LoopFree
  /\ ~Undecided(c)
  /\ answers' = [answers EXCEPT
       ![c] = @ \cup {IF approvedBy[c] # Nobody THEN "approved" ELSE "rejected"}]
  /\ UNCHANGED <<tables, graph, phase, memory, call, waiting>>

\* approve_correction has the lock.
Approve(h) ==
  /\ Serving
  /\ LockFree
  /\ waiting[h].kind = "approve"
  /\ waiting[h].correction \in corrections
  /\ approvals[waiting[h].correction].by = Nobody
  /\ call' = [step |-> "approval", correction |-> waiting[h].correction,
              by |-> h, outcome |-> "none"]
  /\ waiting' = [waiting EXCEPT ![h] = NoRequest]
  /\ UNCHANGED <<tables, graph, phase, memory, answers>>

\* CorrectionAlreadyApprovedError
RefuseApproval(h) ==
  /\ Serving
  /\ LockFree
  /\ waiting[h].kind = "approve"
  /\ \/ waiting[h].correction \notin corrections
     \/ approvals[waiting[h].correction].by # Nobody
  /\ waiting' = [waiting EXCEPT ![h] = NoRequest]
  /\ UNCHANGED <<tables, graph, phase, memory, call, answers>>

\* The approval is durable before graph memory is asked.
RecordApproval ==
  LET c == call.correction IN
  /\ call.step = "approval"
  /\ Approvable(c)
  /\ approvedBy' = [approvedBy EXCEPT ![c] = call.by]
  /\ approvals' = [approvals EXCEPT ![c] = [by |-> call.by, delivery |-> "none"]]
  /\ call' = [call EXCEPT !.step = "correction"]
  /\ UNCHANGED <<submitted, rejected, attempts, graph, phase, corrections, todo, waiting, answers>>

\* CoordinatorStateError: it was rejected while the lock was awaited.
ApprovalRefused ==
  /\ call.step = "approval"
  /\ ~Approvable(call.correction)
  /\ call' = Free
  /\ UNCHANGED <<tables, graph, phase, memory, waiting, answers>>

-----------------------------------------------------------------------------
\* _deliver_correction: a fact is stored if what it refers to is, and if what
\* is stored under its identity is the same.
Storable ==
  LET c == call.correction IN
  \/ call.step = "correction" /\ c \in failures /\ correctionFact[c] \in {Nobody, call.by}
  \/ call.step = "lesson" /\ correctionFact[c] # Nobody /\ lessonFact[c] \in {Nobody, call.by}

Stored ==
  LET c == call.correction IN
  IF call.step = "correction"
  THEN correctionFact' = [correctionFact EXCEPT ![c] = call.by] /\ UNCHANGED lessonFact
  ELSE lessonFact' = [lessonFact EXCEPT ![c] = call.by] /\ UNCHANGED correctionFact

\* The approval's receipt is the correction's.
WriteFact ==
  /\ call.step \in {"correction", "lesson"}
  /\ Storable
  /\ Stored
  /\ IF call.step = "correction"
     THEN \E r \in Receipts : call' = [call EXCEPT !.step = "lesson", !.outcome = r]
     ELSE call' = [call EXCEPT !.step = "delivery"]
  /\ UNCHANGED <<tables, failures, phase, memory, waiting, answers>>

\* Mutant: the exception of a lesson is swallowed.
RaisedSwallowed(e) == IF call.step = "lesson" THEN call.outcome ELSE e
Raised(e) == e

\* A write raises, and what it wrote may be durable nonetheless.
WriteRaises ==
  /\ call.step \in {"correction", "lesson"}
  /\ \/ UNCHANGED <<correctionFact, lessonFact>>
     \/ Storable /\ Stored
  /\ \E e \in Errors : call' = [call EXCEPT !.step = "delivery", !.outcome = Raised(e)]
  /\ UNCHANGED <<tables, failures, phase, memory, waiting, answers>>

\* record_approval_delivery: an attempt like an earlier one is not kept again.
RecordDelivery ==
  LET c == call.correction IN
  /\ call.step = "delivery"
  /\ approvedBy[c] # Nobody
  /\ attempts' = IF Contains(attempts[c], call.outcome) THEN attempts
                 ELSE [attempts EXCEPT ![c] = Append(@, call.outcome)]
  /\ approvals' = [approvals EXCEPT ![c].delivery = call.outcome]
  /\ answers' = IF Serving THEN [answers EXCEPT ![c] = @ \cup {"approved"}] ELSE answers
  /\ call' = Free
  /\ UNCHANGED <<submitted, approvedBy, rejected, graph, phase, corrections, todo, waiting>>

\* A transaction raises and leaves nothing: an approval or a delivery that is not
\* recorded ends its request, or the startup it is part of.
TransactionFails ==
  /\ call.step \in {"approval", "delivery"}
  /\ \/ Serving /\ call' = Free /\ UNCHANGED <<phase, memory, waiting>>
     \/ Starting /\ Dies
  /\ UNCHANGED <<tables, graph, answers>>

Request(h) ==
  \/ Submit(h) \/ SubmissionFails(h) \/ Approve(h) \/ RefuseApproval(h)
  \/ \E c \in Corrections : RequestSubmission(h, c) \/ RequestApproval(h, c)

Next ==
  \/ Start \/ Reconcile \/ Serve \/ Crash
  \/ BeginAppend \/ EndAppend
  \/ \E h \in Humans : Request(h)
  \/ \E c \in Corrections : RetryDelivery(c) \/ Reject(c) \/ RepeatDecision(c)
  \/ RecordApproval \/ ApprovalRefused
  \/ WriteFact \/ WriteRaises
  \/ RecordDelivery \/ TransactionFails

Spec == Init /\ [][Next]_vars

-----------------------------------------------------------------------------
TypeOK ==
  /\ submitted \subseteq Corrections /\ rejected \subseteq Corrections
  /\ failures \subseteq Corrections /\ corrections \subseteq Corrections
  /\ todo \subseteq Corrections
  /\ approvedBy \in [Corrections -> Humans \cup {Nobody}]
  /\ attempts \in [Corrections -> Seq(Outcomes)]
  /\ correctionFact \in [Corrections -> Humans \cup {Nobody}]
  /\ lessonFact \in [Corrections -> Humans \cup {Nobody}]
  /\ phase \in {"down", "starting", "reconciling", "serving"}
  /\ approvals \in [Corrections -> Approvals]
  /\ call \in Calls
  /\ waiting \in [Humans -> Requests]
  /\ answers \in [Corrections -> SUBSET {"approved", "rejected"}]

\* However approvals, rejections, repeated requests and restarts race, a
\* correction is decided once, and what anyone was told of it holds.
DecisionsStand ==
  \A c \in Corrections :
    /\ ~(approvedBy[c] # Nobody /\ c \in rejected)
    /\ "approved" \in answers[c] => approvedBy[c] # Nobody
    /\ "rejected" \in answers[c] => c \in rejected

\* Graph memory never runs ahead of an approval: its correction and lesson name
\* the human on record.  A receipt on record is the last attempt, and both facts
\* are there.
GraphBacked ==
  \A c \in Corrections :
    /\ correctionFact[c] \in {Nobody, approvedBy[c]}
    /\ lessonFact[c] \in {Nobody, correctionFact[c]}
    /\ \A n \in DOMAIN attempts[c] : attempts[c][n] \in Receipts =>
         n = Len(attempts[c]) /\ lessonFact[c] # Nobody

\* What the service feeds to training is what is approved on record, and while no
\* call is under way it knows of a receipt exactly if the journal does.
Feed == {c \in Corrections : approvals[c].by # Nobody}
FeedMirrorsJournal ==
  Serving =>
    /\ Feed = {c \in Corrections : approvedBy[c] # Nobody}
    /\ LoopFree => \A c \in Corrections :
         approvals[c].delivery \in Receipts <=> Journaled(c).delivery \in Receipts

\* A delivery that failed is tried again by every startup: if graph memory and
\* the journal work from some time on and the process keeps being restarted, an
\* approval whose failure graph memory holds gets its receipt.
Fault == (Storable /\ WriteRaises) \/ TransactionFails
Delivered(c) == \E n \in DOMAIN attempts[c] : attempts[c][n] \in Receipts
RestartDelivers ==
  (/\ []<>(phase = "down") /\ []<>Serving
   /\ <>[][~Fault]_vars)
    => \A c \in Corrections : (approvedBy[c] # Nobody /\ c \in failures) ~> Delivered(c)

\* The journal of decisions leads: graph memory and the training feed hold what it
\* approved and nothing else (episodes/service.py:521).
JournalLeads == GraphBacked /\ FeedMirrorsJournal
=============================================================================
