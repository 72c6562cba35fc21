----------------------- MODULE CorrectionReview_proofs -----------------------
(***************************************************************************)
(* Proofs about CorrectionReview for any corrections, humans and errors: a   *)
(* decision is final and what anyone was told of it holds, graph memory is   *)
(* never ahead of the approvals on record nor behind a receipt, and the      *)
(* training feed is what is approved on record.  The invariant adds what a   *)
(* call in progress has already established, so that a crash between any two *)
(* of its steps leaves nothing startup cannot finish (IInv).                 *)
(***************************************************************************)
EXTENDS CorrectionReview, TLAPS

USE CorrectionAssumption

-----------------------------------------------------------------------------
(* The inductive invariant.                                                *)

NoReceipt(c) == \A n \in DOMAIN attempts[c] : attempts[c][n] \notin Receipts

\* While the process is up, its approvals are those on record.
MemorySound ==
  phase # "down" => \A c \in Corrections :
    /\ approvals[c].by = approvedBy[c]
    /\ approvals[c].delivery \in Receipts <=> ~NoReceipt(c)

\* Startup has still to deliver approvals without a receipt, the one it is
\* delivering excepted.
TodoSound ==
  /\ ~Starting => todo = {}
  /\ \A c \in todo : approvedBy[c] # Nobody /\ NoReceipt(c) /\ call.correction # c

\* What holds the lock has come as far as its step says.
CallSound ==
  /\ call.step = "free" => call = Free
  /\ call.step # "free" => phase # "down"
  /\ call.step \in {"append", "approval"} => Serving
  /\ call.step = "approval" => call.correction \in Corrections /\ call.by \in Humans
  /\ call.step \in {"correction", "lesson", "delivery"} =>
       /\ call.correction \in Corrections
       /\ call.by \in Humans
       /\ approvedBy[call.correction] = call.by
       /\ NoReceipt(call.correction)
  /\ call.step = "lesson" =>
       correctionFact[call.correction] = call.by /\ call.outcome \in Receipts
  /\ call.step = "delivery" =>
       /\ call.outcome \in Outcomes
       /\ call.outcome \in Receipts => lessonFact[call.correction] # Nobody

IInv == /\ TypeOK /\ Restorable /\ DecisionsStand /\ GraphBacked
        /\ MemorySound /\ TodoSound /\ CallSound

-----------------------------------------------------------------------------
(* Attempts.                                                               *)

\* The journal's reading of an approval has a receipt if any attempt does.
LEMMA JournaledReceipt ==
  ASSUME TypeOK, GraphBacked, NEW c \in Corrections
  PROVE  /\ Journaled(c) \in Approvals
         /\ Journaled(c).delivery \in Receipts <=> ~NoReceipt(c)
<1>1. attempts[c] \in Seq(Outcomes) /\ approvedBy[c] \in Humans \cup {Nobody}
  BY DEF TypeOK
<1>2. CASE attempts[c] = <<>>
  BY <1>1, <1>2 DEF Journaled, NoReceipt, Approvals, Receipts
<1>3. CASE attempts[c] # <<>>
  <2>1. /\ Len(attempts[c]) \in DOMAIN attempts[c]
        /\ Last(attempts[c]) = attempts[c][Len(attempts[c])]
        /\ Last(attempts[c]) \in Outcomes
    BY <1>1, <1>3 DEF Last
  <2>2. Journaled(c).delivery = Last(attempts[c]) /\ Journaled(c).by = approvedBy[c]
    BY <1>3 DEF Journaled
  <2>3. Journaled(c) \in Approvals
    BY <1>1, <1>3, <2>1 DEF Journaled, Approvals
  <2>4. QED
    BY <2>1, <2>2, <2>3 DEF NoReceipt, GraphBacked
<1>4. QED
  BY <1>2, <1>3

\* Recording an outcome where no attempt has a receipt: it is the last attempt
\* if it is a receipt, and no attempt has one otherwise.
LEMMA RecordedAttempts ==
  ASSUME TypeOK, NEW c \in Corrections, NEW o \in Outcomes, NoReceipt(c),
         attempts' = IF Contains(attempts[c], o) THEN attempts
                     ELSE [attempts EXCEPT ![c] = Append(@, o)]
  PROVE  /\ attempts' \in [Corrections -> Seq(Outcomes)]
         /\ \A d \in Corrections : d # c => attempts'[d] = attempts[d]
         /\ \A n \in DOMAIN attempts'[c] : attempts'[c][n] \in Receipts =>
              n = Len(attempts'[c]) /\ o \in Receipts
         /\ o \in Receipts => \E n \in DOMAIN attempts'[c] : attempts'[c][n] \in Receipts
<1>1. attempts \in [Corrections -> Seq(Outcomes)] /\ attempts[c] \in Seq(Outcomes)
  BY DEF TypeOK
<1>2. CASE Contains(attempts[c], o)
  <2>1. PICK n \in DOMAIN attempts[c] : attempts[c][n] = o
    BY <1>1, <1>2 DEF Contains
  <2>2. o \notin Receipts
    BY <2>1 DEF NoReceipt
  <2>3. QED
    BY <1>1, <1>2, <2>2 DEF NoReceipt
<1>3. CASE ~Contains(attempts[c], o)
  <2>1. attempts'[c] = Append(attempts[c], o)
    BY <1>1, <1>3
  <2>2. /\ Len(attempts'[c]) = Len(attempts[c]) + 1
        /\ DOMAIN attempts'[c] = 1 .. Len(attempts[c]) + 1
        /\ DOMAIN attempts[c] = 1 .. Len(attempts[c])
        /\ attempts'[c][Len(attempts[c]) + 1] = o
        /\ \A n \in 1 .. Len(attempts[c]) : attempts'[c][n] = attempts[c][n]
        /\ Append(attempts[c], o) \in Seq(Outcomes)
        /\ Len(attempts[c]) \in Nat
    BY <1>1, <2>1
  <2>3. attempts' \in [Corrections -> Seq(Outcomes)]
    BY <1>1, <1>3, <2>2
  <2>4. \A d \in Corrections : d # c => attempts'[d] = attempts[d]
    BY <1>1, <1>3
  <2>5. \A n \in DOMAIN attempts'[c] : attempts'[c][n] \in Receipts =>
          n = Len(attempts[c]) + 1
    BY <2>2 DEF NoReceipt
  <2>6. Len(attempts[c]) + 1 \in DOMAIN attempts'[c]
    BY <2>2
  <2>7. QED
    BY <2>2, <2>3, <2>4, <2>5, <2>6
<1>4. QED
  BY <1>2, <1>3

-----------------------------------------------------------------------------
(* Initially.                                                              *)

LEMMA InitSound == Init => IInv
<1> SUFFICES ASSUME Init PROVE IInv
  OBVIOUS
<1>1. <<>> \in Seq(Outcomes) /\ NoApproval \in Approvals /\ Free \in Calls
      /\ NoRequest \in Requests
  BY DEF NoApproval, Approvals, Free, Calls, NoRequest, Requests
<1>2. TypeOK
  BY <1>1 DEF Init, TypeOK
<1>3. QED
  BY <1>2 DEF Init, IInv, Restorable, DecisionsStand, GraphBacked, MemorySound, TodoSound,
              CallSound, Free

-----------------------------------------------------------------------------
(* Steps that leave the tables and the graph alone.                        *)

\* What the invariant says of tables and graph.
Settled == tables' = tables /\ correctionFact' = correctionFact
           /\ lessonFact' = lessonFact /\ answers' = answers

LEMMA SettledSound ==
  ASSUME IInv, Settled
  PROVE  Restorable' /\ DecisionsStand' /\ GraphBacked'
         /\ \A c : NoReceipt(c)' = NoReceipt(c)
BY DEF IInv, Settled, tables, Restorable, DecisionsStand, GraphBacked, NoReceipt

LEMMA StartSound == IInv /\ Start => IInv'
<1> SUFFICES ASSUME IInv, Start PROVE IInv'
  OBVIOUS
<1>1. Settled
  BY DEF Start, Settled, tables
<1>2. \A c \in Corrections : /\ Journaled(c) \in Approvals
                             /\ Journaled(c).by = approvedBy[c]
                             /\ Journaled(c).delivery \in Receipts <=> ~NoReceipt(c)
  BY JournaledReceipt DEF IInv, Journaled
<1>3. TypeOK'
  BY <1>2 DEF IInv, TypeOK, Start, tables
<1>4. MemorySound'
  BY <1>1, <1>2, SettledSound DEF Start, MemorySound, tables
<1>5. call.step = "free"
  BY DEF IInv, CallSound, Start
<1>6. call = call' /\ phase' = "starting"
  BY DEF Start
<1>7. TodoSound'
  <2>1. call.correction = NoCorrection
    BY <1>5 DEF IInv, CallSound, Free
  <2>2. QED
    BY <1>1, <1>2, <2>1, SettledSound DEF Start, Starting, TodoSound, Incomplete, tables
<1>8. CallSound'
  BY <1>5, <1>6 DEF IInv, CallSound
<1>9. QED
  BY <1>1, <1>3, <1>4, <1>7, <1>8, SettledSound DEF IInv

LEMMA RetryDeliverySound == ASSUME NEW c \in Corrections, IInv, RetryDelivery(c) PROVE IInv'
<1>1. Settled
  BY DEF RetryDelivery, Settled, tables, graph
<1>2. /\ c \in todo /\ approvals[c].by = approvedBy[c] /\ approvedBy[c] # Nobody
      /\ NoReceipt(c) /\ approvedBy[c] \in Humans
  BY DEF RetryDelivery, IInv, TodoSound, Starting, MemorySound, TypeOK
<1>3. call' = [step |-> "correction", correction |-> c, by |-> approvals[c].by,
               outcome |-> "none"]
      /\ todo' = todo \ {c} /\ phase \in {"starting", "reconciling"} /\ phase' = phase
  BY DEF RetryDelivery, Starting
<1>4. call' \in Calls
  BY <1>2, <1>3 DEF Calls
<1>5. TypeOK'
  BY <1>3, <1>4 DEF IInv, TypeOK, RetryDelivery, tables, graph
<1>6. MemorySound' /\ TodoSound'
  BY <1>1, <1>3, SettledSound DEF IInv, MemorySound, TodoSound, Starting, RetryDelivery, tables
<1>7. CallSound'
  BY <1>1, <1>2, <1>3, SettledSound DEF CallSound, Settled, tables
<1>8. QED
  BY <1>1, <1>5, <1>6, <1>7, SettledSound DEF IInv

LEMMA ReconcileSound == IInv /\ Reconcile => IInv'
<1> SUFFICES ASSUME IInv, Reconcile PROVE IInv'
  OBVIOUS
<1>1. Settled
  BY DEF Reconcile, Settled, tables
<1>2. TypeOK'
  BY DEF IInv, TypeOK, Reconcile, tables
<1>3. phase # "down" /\ phase' = "reconciling" /\ call' = call /\ approvals' = approvals
      /\ todo' = {c \in Corrections : Incomplete(approvals[c])}
  BY DEF Reconcile
<1>4. MemorySound'
  BY <1>1, <1>3, SettledSound DEF IInv, MemorySound, Settled, tables
<1>5. call.step = "free" /\ call.correction = NoCorrection
  BY DEF Reconcile, IInv, CallSound, LockFree, Free
<1>6. TodoSound'
  <2>1. Starting'
    BY <1>3 DEF Starting
  <2>2. \A c \in Corrections : Incomplete(approvals[c]) => approvedBy[c] # Nobody /\ NoReceipt(c)
    BY <1>3 DEF Incomplete, IInv, MemorySound
  <2>3. QED
    BY <1>1, <1>3, <1>5, <2>1, <2>2, SettledSound DEF TodoSound, Settled, tables
<1>7. CallSound'
  BY <1>3, <1>5 DEF IInv, CallSound
<1>8. QED
  BY <1>1, <1>2, <1>4, <1>6, <1>7, SettledSound DEF IInv

LEMMA ServeSound == IInv /\ Serve => IInv'
<1> SUFFICES ASSUME IInv, Serve PROVE IInv'
  OBVIOUS
<1>1. Settled
  BY DEF Serve, Settled, tables, graph
<1>2. TypeOK'
  BY DEF IInv, TypeOK, Serve, tables, graph, memory
<1>3. MemorySound' /\ TodoSound'
  BY <1>1, SettledSound DEF IInv, MemorySound, TodoSound, Serve, Starting, tables, memory
<1>4. CallSound'
  BY DEF IInv, CallSound, Serve, LockFree
<1>5. QED
  BY <1>1, <1>2, <1>3, <1>4, SettledSound DEF IInv

\* A process that dies leaves nothing to be said of its memory.
LEMMA DiesSound ==
  ASSUME IInv, Dies, UNCHANGED <<tables, graph, answers>>
  PROVE  IInv'
<1>1. Settled
  BY DEF Settled, tables, graph
<1>2. Free \in Calls /\ NoRequest \in Requests /\ NoApproval \in Approvals
  BY DEF Free, Calls, NoRequest, Requests, NoApproval, Approvals
<1>3. TypeOK'
  BY <1>2 DEF IInv, TypeOK, Dies, tables, graph
<1>4. MemorySound' /\ TodoSound' /\ CallSound'
  BY DEF Dies, MemorySound, TodoSound, CallSound, Free, Serving, Starting
<1>5. QED
  BY <1>1, <1>3, <1>4, SettledSound DEF IInv

\* Nothing changes but who waits, and who holds the lock without a correction.
LEMMA QuietSound ==
  ASSUME IInv, UNCHANGED <<tables, graph, phase, memory, answers>>,
         waiting' \in [Humans -> Requests],
         \/ call' = call
         \/ call' = Free
         \/ Serving /\ call' = [Free EXCEPT !.step = "append"]
  PROVE  IInv'
<1>1. Settled
  BY DEF Settled, tables, graph
<1>2. Free \in Calls /\ [Free EXCEPT !.step = "append"] \in Calls
  BY DEF Free, Calls
<1>3. TypeOK'
  BY <1>2 DEF IInv, TypeOK, tables, graph, memory
<1>4. MemorySound'
  BY <1>1, SettledSound DEF IInv, MemorySound, tables, memory
<1>5. TodoSound'
  BY <1>1, SettledSound DEF IInv, TypeOK, TodoSound, Starting, Free, tables, memory
<1>6. CallSound'
  BY <1>1, SettledSound DEF IInv, CallSound, Free, Serving, Settled, tables
<1>7. QED
  BY <1>1, <1>3, <1>4, <1>5, <1>6, SettledSound DEF IInv

-----------------------------------------------------------------------------
(* Steps that record something.                                            *)

LEMMA SubmitSound == ASSUME NEW h \in Humans, IInv, Submit(h) PROVE IInv'
<1>1. NoRequest \in Requests
  BY DEF NoRequest, Requests
<1>2. waiting[h].correction \in Corrections
  BY DEF Submit, IInv, TypeOK, Requests, NoRequest
<1>3. TypeOK'
  BY <1>1, <1>2 DEF IInv, TypeOK, Submit, graph
<1>4. /\ UNCHANGED <<approvedBy, rejected, attempts, correctionFact, lessonFact, answers>>
      /\ UNCHANGED <<phase, approvals, todo, call>>
      /\ submitted \subseteq submitted'
  BY DEF Submit, graph
<1>5. Restorable' /\ DecisionsStand' /\ GraphBacked'
  BY <1>4 DEF IInv, Restorable, DecisionsStand, GraphBacked
<1>6. MemorySound' /\ TodoSound' /\ CallSound'
  BY <1>4 DEF IInv, MemorySound, TodoSound, Starting, CallSound, NoReceipt, Serving
<1>7. QED
  BY <1>3, <1>5, <1>6 DEF IInv

LEMMA RejectSound == ASSUME NEW c \in Corrections, IInv, Reject(c) PROVE IInv'
<1>1. /\ UNCHANGED <<submitted, approvedBy, attempts, correctionFact, lessonFact>>
      /\ UNCHANGED <<phase, corrections, approvals, todo, call, waiting, failures>>
      /\ rejected' = rejected \cup {c} /\ approvedBy[c] = Nobody
      /\ answers' = [answers EXCEPT ![c] = @ \cup {"rejected"}]
  BY DEF Reject, graph, memory, Undecided
<1>2. TypeOK'
  BY <1>1 DEF IInv, TypeOK
<1>3. DecisionsStand'
  BY <1>1 DEF IInv, TypeOK, DecisionsStand
<1>4. Restorable' /\ GraphBacked' /\ MemorySound' /\ TodoSound' /\ CallSound'
  BY <1>1 DEF IInv, Restorable, GraphBacked, MemorySound, TodoSound, Starting, CallSound, NoReceipt,
              Serving
<1>5. QED
  BY <1>2, <1>3, <1>4 DEF IInv

LEMMA RepeatDecisionSound ==
  ASSUME NEW c \in Corrections, IInv, RepeatDecision(c) PROVE IInv'
<1>1. /\ UNCHANGED <<submitted, approvedBy, rejected, attempts, correctionFact, lessonFact>>
      /\ UNCHANGED <<phase, corrections, approvals, todo, call, waiting, failures>>
      /\ approvedBy[c] # Nobody \/ c \in rejected
      /\ answers' = [answers EXCEPT ![c] = @ \cup
           {IF approvedBy[c] # Nobody THEN "approved" ELSE "rejected"}]
  BY DEF RepeatDecision, tables, graph, memory, Undecided
<1>2. TypeOK'
  BY <1>1 DEF IInv, TypeOK
<1>3. DecisionsStand'
  BY <1>1 DEF IInv, TypeOK, DecisionsStand
<1>4. Restorable' /\ GraphBacked' /\ MemorySound' /\ TodoSound' /\ CallSound'
  BY <1>1 DEF IInv, Restorable, GraphBacked, MemorySound, TodoSound, Starting, CallSound, NoReceipt,
              Serving
<1>5. QED
  BY <1>2, <1>3, <1>4 DEF IInv

\* The request that gets the lock is one to approve something.
LEMMA ApproveSound == ASSUME NEW h \in Humans, IInv, Approve(h) PROVE IInv'
<1>1. Settled
  BY DEF Approve, Settled, tables, graph
<1>2. waiting[h].correction \in Corrections /\ NoRequest \in Requests
  BY DEF Approve, IInv, TypeOK, NoRequest, Requests
<1>3. call' = [step |-> "approval", correction |-> waiting[h].correction, by |-> h,
               outcome |-> "none"]
      /\ Serving /\ UNCHANGED <<phase, corrections, approvals, todo, failures>>
      /\ waiting' = [waiting EXCEPT ![h] = NoRequest]
  BY DEF Approve, memory, graph
<1>4. call' \in Calls
  BY <1>2, <1>3 DEF Calls
<1>5. TypeOK'
  BY <1>2, <1>3, <1>4 DEF IInv, TypeOK, Approve, tables, graph
<1>6. MemorySound' /\ TodoSound'
  BY <1>1, <1>3, SettledSound DEF IInv, MemorySound, TodoSound, Starting, Serving, Settled, tables
<1>7. CallSound'
  BY <1>2, <1>3 DEF CallSound, Serving
<1>8. QED
  BY <1>1, <1>5, <1>6, <1>7, SettledSound DEF IInv

LEMMA RecordApprovalSound == IInv /\ RecordApproval => IInv'
<1> SUFFICES ASSUME IInv, RecordApproval PROVE IInv'
  OBVIOUS
<1> DEFINE c == call.correction
<1>1. /\ c \in Corrections /\ call.by \in Humans /\ Serving
      /\ call.step = "approval" /\ call \in Calls
  BY DEF IInv, TypeOK, CallSound, RecordApproval
<1>2. /\ UNCHANGED <<submitted, rejected, attempts, correctionFact, lessonFact>>
      /\ UNCHANGED <<failures, phase, corrections, todo, waiting, answers>>
      /\ approvedBy' = [approvedBy EXCEPT ![c] = call.by]
      /\ approvals' = [approvals EXCEPT ![c] = [by |-> call.by, delivery |-> "none"]]
      /\ call' = [call EXCEPT !.step = "correction"]
  BY DEF RecordApproval, graph
<1>3. c \in submitted /\ approvedBy[c] = Nobody /\ c \notin rejected
  BY DEF RecordApproval, Approvable, Undecided
<1>4. attempts[c] = <<>> /\ correctionFact[c] = Nobody /\ lessonFact[c] = Nobody
  BY <1>1, <1>3 DEF IInv, Restorable, GraphBacked
<1>5. call' \in Calls /\ [by |-> call.by, delivery |-> "none"] \in Approvals
  BY <1>1, <1>2 DEF Calls, Approvals
<1>6. TypeOK'
  BY <1>1, <1>2, <1>5 DEF IInv, TypeOK
<1>7. Restorable' /\ DecisionsStand'
  BY <1>1, <1>2, <1>3 DEF IInv, TypeOK, Restorable, DecisionsStand
<1>8. GraphBacked'
  BY <1>1, <1>2, <1>4 DEF IInv, TypeOK, GraphBacked
<1>9. NoReceipt(c)' /\ \A d \in Corrections : NoReceipt(d)' = NoReceipt(d)
  BY <1>2, <1>4 DEF NoReceipt
<1>10. MemorySound'
  BY <1>1, <1>2, <1>9 DEF IInv, TypeOK, MemorySound, Serving, Receipts
<1>11. TodoSound'
  BY <1>1, <1>2 DEF IInv, TodoSound, Serving, Starting
<1>12. CallSound'
  BY <1>1, <1>2, <1>9 DEF IInv, TypeOK, CallSound, Serving, Calls
<1>13. QED
  BY <1>6, <1>7, <1>8, <1>10, <1>11, <1>12 DEF IInv

-----------------------------------------------------------------------------
(* Delivery.                                                               *)

\* A fact that is stored names the approval on record.
LEMMA StoredSound ==
  ASSUME IInv, call.step \in {"correction", "lesson"}, Storable, Stored,
         UNCHANGED <<tables, failures>>
  PROVE  /\ GraphBacked'
         /\ correctionFact' \in [Corrections -> Humans \cup {Nobody}]
         /\ lessonFact' \in [Corrections -> Humans \cup {Nobody}]
         /\ call.step = "correction" => correctionFact'[call.correction] = call.by
         /\ call.step = "lesson" => lessonFact'[call.correction] = call.by
<1> DEFINE c == call.correction
<1>1. /\ c \in Corrections /\ call.by \in Humans /\ approvedBy[c] = call.by /\ NoReceipt(c)
      /\ call.step = "lesson" => correctionFact[c] = call.by
  BY DEF IInv, CallSound
<1>2. /\ correctionFact \in [Corrections -> Humans \cup {Nobody}]
      /\ lessonFact \in [Corrections -> Humans \cup {Nobody}]
  BY DEF IInv, TypeOK
<1>3. UNCHANGED <<approvedBy, attempts>>
  BY DEF tables
<1>4. CASE call.step = "correction"
  <2>1. correctionFact' = [correctionFact EXCEPT ![c] = call.by] /\ lessonFact' = lessonFact
    BY <1>4 DEF Stored
  <2>2. correctionFact[c] \in {Nobody, call.by} /\ lessonFact[c] \in {Nobody, call.by}
    BY <1>1 DEF IInv, GraphBacked
  <2>3. \A d \in Corrections : correctionFact'[d] = IF d = c THEN call.by ELSE correctionFact[d]
    BY <1>2, <2>1
  <2> HIDE DEF c
  <2>4. GraphBacked'
    BY <1>1, <1>3, <2>1, <2>2, <2>3 DEF IInv, GraphBacked
  <2> USE DEF c
  <2>5. QED
    BY <1>1, <1>2, <1>4, <2>1, <2>4
<1>5. CASE call.step = "lesson"
  <2>1. lessonFact' = [lessonFact EXCEPT ![c] = call.by] /\ correctionFact' = correctionFact
    BY <1>5 DEF Stored
  <2>2. \A d \in Corrections : lessonFact'[d] = IF d = c THEN call.by ELSE lessonFact[d]
    BY <1>2, <2>1
  <2>3. correctionFact[c] = call.by /\ call.by # Nobody
    BY <1>1, <1>5
  <2> HIDE DEF c
  <2>4. GraphBacked'
    BY <1>1, <1>3, <2>1, <2>2, <2>3 DEF IInv, GraphBacked
  <2> USE DEF c
  <2>5. QED
    BY <1>1, <1>2, <1>5, <2>1, <2>4
<1>6. QED
  BY <1>4, <1>5

\* A delivery that goes on, towards its record, with facts that are backed.
LEMMA DeliveringSound ==
  ASSUME IInv, call.step \in {"correction", "lesson"},
         GraphBacked', UNCHANGED <<tables, failures, phase, memory, waiting, answers>>,
         correctionFact' \in [Corrections -> Humans \cup {Nobody}],
         lessonFact' \in [Corrections -> Humans \cup {Nobody}],
         NEW s \in {"lesson", "delivery"}, NEW o \in Outcomes,
         call' = [call EXCEPT !.step = s, !.outcome = o],
         s = "lesson" => o \in Receipts /\ correctionFact'[call.correction] = call.by,
         s = "delivery" /\ o \in Receipts => lessonFact'[call.correction] # Nobody
  PROVE  IInv'
<1>1. /\ call \in Calls /\ call' \in Calls
      /\ call'.correction = call.correction /\ call'.by = call.by
      /\ call'.step = s /\ call'.outcome = o
  BY DEF IInv, TypeOK, Calls
<1>2. /\ UNCHANGED <<submitted, approvedBy, rejected, attempts>>
      /\ UNCHANGED <<corrections, approvals, todo>>
  BY DEF tables, memory
<1>3. TypeOK'
  BY <1>1, <1>2 DEF IInv, TypeOK
<1>4. Restorable' /\ DecisionsStand' /\ MemorySound' /\ TodoSound'
  BY <1>1, <1>2 DEF IInv, Restorable, DecisionsStand, MemorySound, TodoSound, Starting, NoReceipt
<1>5. CallSound'
  BY <1>1, <1>2 DEF IInv, CallSound, NoReceipt, Serving
<1>6. QED
  BY <1>3, <1>4, <1>5 DEF IInv

LEMMA WriteFactSound == IInv /\ WriteFact => IInv'
<1> SUFFICES ASSUME IInv, WriteFact PROVE IInv'
  OBVIOUS
<1>1. /\ call.step \in {"correction", "lesson"} /\ Storable /\ Stored /\ call \in Calls
      /\ UNCHANGED <<tables, failures>>
      /\ UNCHANGED <<tables, failures, phase, memory, waiting, answers>>
  BY DEF WriteFact, IInv, TypeOK
<1>2. /\ GraphBacked'
      /\ correctionFact' \in [Corrections -> Humans \cup {Nobody}]
      /\ lessonFact' \in [Corrections -> Humans \cup {Nobody}]
      /\ call.step = "correction" => correctionFact'[call.correction] = call.by
      /\ call.step = "lesson" => lessonFact'[call.correction] = call.by
  BY <1>1, StoredSound
<1>3. CASE call.step = "correction"
  <2>1. PICK r \in Receipts : call' = [call EXCEPT !.step = "lesson", !.outcome = r]
    BY <1>3 DEF WriteFact
  <2>2. r \in Outcomes
    BY DEF Outcomes
  <2>3. QED
    BY <1>1, <1>2, <1>3, <2>1, <2>2, DeliveringSound
<1>4. CASE call.step = "lesson"
  <2>1. /\ call' = [call EXCEPT !.step = "delivery"]
        /\ call.outcome \in Outcomes /\ call.by # Nobody
    BY <1>4 DEF WriteFact, IInv, CallSound, Outcomes
  <2>2. call' = [call EXCEPT !.step = "delivery", !.outcome = call.outcome]
    BY <1>1, <2>1 DEF Calls
  <2>3. QED
    BY <1>1, <1>2, <1>4, <2>1, <2>2, DeliveringSound
<1>5. QED
  BY <1>1, <1>3, <1>4

LEMMA WriteRaisesSound == IInv /\ WriteRaises => IInv'
<1> SUFFICES ASSUME IInv, WriteRaises PROVE IInv'
  OBVIOUS
<1>1. /\ call.step \in {"correction", "lesson"}
      /\ UNCHANGED <<tables, failures>>
      /\ UNCHANGED <<tables, failures, phase, memory, waiting, answers>>
  BY DEF WriteRaises
<1>2. /\ GraphBacked'
      /\ correctionFact' \in [Corrections -> Humans \cup {Nobody}]
      /\ lessonFact' \in [Corrections -> Humans \cup {Nobody}]
  <2>1. CASE Storable /\ Stored
    BY <1>1, <2>1, StoredSound
  <2>2. CASE UNCHANGED <<correctionFact, lessonFact>>
    BY <1>1, <2>2 DEF IInv, TypeOK, GraphBacked, tables
  <2>3. QED
    BY <2>1, <2>2 DEF WriteRaises
<1>3. PICK e \in Errors : call' = [call EXCEPT !.step = "delivery", !.outcome = e]
  BY DEF WriteRaises, Raised
<1>4. e \in Outcomes /\ e \notin Receipts
  BY DEF Outcomes, Receipts
<1>5. QED
  BY <1>1, <1>2, <1>3, <1>4, DeliveringSound

LEMMA RecordDeliverySound == IInv /\ RecordDelivery => IInv'
<1> SUFFICES ASSUME IInv, RecordDelivery PROVE IInv'
  OBVIOUS
<1> PICK c \in Corrections, o \in Outcomes : c = call.correction /\ o = call.outcome
  BY DEF IInv, CallSound, RecordDelivery
<1>1. /\ NoReceipt(c)
      /\ o \in Receipts => lessonFact[c] # Nobody
      /\ call.step = "delivery" /\ approvedBy[c] # Nobody /\ phase # "down"
  BY DEF IInv, CallSound, RecordDelivery
<1>2. /\ UNCHANGED <<submitted, approvedBy, rejected, correctionFact, lessonFact>>
      /\ UNCHANGED <<failures, phase, corrections, todo, waiting>>
      /\ approvals' = [approvals EXCEPT ![c].delivery = o]
      /\ answers' \in {answers, [answers EXCEPT ![c] = @ \cup {"approved"}]}
      /\ call' = Free
  BY DEF RecordDelivery, graph
<1>3. attempts' = IF Contains(attempts[c], o) THEN attempts
                  ELSE [attempts EXCEPT ![c] = Append(@, o)]
  BY DEF RecordDelivery
<1>4. TypeOK
  BY DEF IInv
<1>5. /\ attempts' \in [Corrections -> Seq(Outcomes)]
      /\ \A d \in Corrections : d # c => attempts'[d] = attempts[d]
      /\ \A n \in DOMAIN attempts'[c] : attempts'[c][n] \in Receipts =>
           n = Len(attempts'[c]) /\ o \in Receipts
      /\ o \in Receipts => \E n \in DOMAIN attempts'[c] : attempts'[c][n] \in Receipts
  BY <1>1, <1>3, <1>4, RecordedAttempts
<1>6. /\ approvals' \in [Corrections -> Approvals]
      /\ \A d \in Corrections : approvals'[d].by = approvals[d].by
      /\ \A d \in Corrections :
           approvals'[d].delivery = IF d = c THEN o ELSE approvals[d].delivery
  <2>1. approvals \in [Corrections -> Approvals] /\ approvals[c] \in Approvals
    BY <1>4 DEF TypeOK
  <2>2. [approvals[c] EXCEPT !.delivery = o] \in Approvals
    BY <2>1 DEF Approvals
  <2>3. approvals' = [approvals EXCEPT ![c] = [approvals[c] EXCEPT !.delivery = o]]
    BY <1>2
  <2>4. QED
    BY <2>1, <2>2, <2>3 DEF Approvals
<1>7. Free \in Calls
  BY DEF Free, Calls
<1>8. TypeOK'
  <2>1. answers' \in [Corrections -> SUBSET {"approved", "rejected"}]
    <3>1. answers \in [Corrections -> SUBSET {"approved", "rejected"}]
      BY <1>4 DEF TypeOK
    <3>2. answers[c] \cup {"approved"} \in SUBSET {"approved", "rejected"}
      BY <3>1
    <3>3. QED
      BY <1>2, <3>1, <3>2
  <2>2. QED
    BY <1>2, <1>4, <1>5, <1>6, <1>7, <2>1 DEF TypeOK
<1>9. Restorable' /\ DecisionsStand'
  BY <1>1, <1>2, <1>4, <1>5 DEF IInv, TypeOK, Restorable, DecisionsStand
<1>10. GraphBacked'
  BY <1>1, <1>2, <1>5 DEF IInv, GraphBacked
<1>11. /\ NoReceipt(c)' <=> o \notin Receipts
       /\ \A d \in Corrections : d # c => NoReceipt(d)' = NoReceipt(d)
  BY <1>5 DEF NoReceipt
<1>12. MemorySound'
  BY <1>1, <1>2, <1>6, <1>11 DEF IInv, MemorySound
<1>13. TodoSound'
  BY <1>1, <1>2, <1>4, <1>11 DEF IInv, TypeOK, TodoSound, Starting, Free
<1>14. CallSound'
  BY <1>2 DEF CallSound, Free
<1>15. QED
  BY <1>8, <1>9, <1>10, <1>12, <1>13, <1>14 DEF IInv

-----------------------------------------------------------------------------
(* The invariant, and what follows from it.                                *)

LEMMA NextSound == IInv /\ [Next]_vars => IInv'
<1> SUFFICES ASSUME IInv, [Next]_vars PROVE IInv'
  OBVIOUS
<1>1. CASE Start
  BY <1>1, StartSound
<1>2. CASE Reconcile \/ Serve
  BY <1>2, ReconcileSound, ServeSound
<1>3. CASE Crash
  BY <1>3, DiesSound DEF Crash
<1>4. CASE BeginAppend \/ EndAppend \/ ApprovalRefused
  <2>1. waiting' \in [Humans -> Requests]
    BY <1>4 DEF IInv, TypeOK, BeginAppend, EndAppend, ApprovalRefused
  <2>2. QED
    BY <1>4, <2>1, QuietSound DEF BeginAppend, EndAppend, ApprovalRefused
<1>5. ASSUME NEW h \in Humans, Request(h)
      PROVE  IInv'
  <2>1. CASE Submit(h)
    BY <2>1, SubmitSound
  <2>2. CASE Approve(h)
    BY <2>2, ApproveSound
  <2>3. CASE SubmissionFails(h) \/ RefuseApproval(h)
    <3>1. waiting' \in [Humans -> Requests]
      BY <2>3 DEF IInv, TypeOK, SubmissionFails, RefuseApproval, Requests
    <3>2. QED
      BY <2>3, <3>1, QuietSound DEF SubmissionFails, RefuseApproval
  <2>4. ASSUME NEW c \in Corrections, RequestSubmission(h, c) \/ RequestApproval(h, c)
        PROVE  IInv'
    <3>1. waiting' \in [Humans -> Requests]
      <4>1. waiting \in [Humans -> Requests]
        BY DEF IInv, TypeOK
      <4>2. \E kind \in {"submit", "approve"} :
              waiting' = [waiting EXCEPT ![h] = [kind |-> kind, correction |-> c]]
        BY <2>4 DEF RequestSubmission, RequestApproval
      <4>3. \A kind \in {"submit", "approve"} : [kind |-> kind, correction |-> c] \in Requests
        BY DEF Requests
      <4>4. QED
        BY <4>1, <4>2, <4>3
    <3>2. QED
      BY <2>4, <3>1, QuietSound DEF RequestSubmission, RequestApproval
  <2>5. QED
    BY <1>5, <2>1, <2>2, <2>3, <2>4 DEF Request
<1>6. ASSUME NEW c \in Corrections, RetryDelivery(c) \/ Reject(c) \/ RepeatDecision(c)
      PROVE  IInv'
  BY <1>6, RetryDeliverySound, RejectSound, RepeatDecisionSound
<1>7. CASE RecordApproval
  BY <1>7, RecordApprovalSound
<1>8. CASE WriteFact \/ WriteRaises
  BY <1>8, WriteFactSound, WriteRaisesSound
<1>9. CASE RecordDelivery
  BY <1>9, RecordDeliverySound
<1>10. CASE TransactionFails
  <2>1. CASE Dies
    BY <1>10, <2>1, DiesSound DEF TransactionFails
  <2>2. CASE call' = Free /\ UNCHANGED <<phase, memory, waiting>>
    <3>1. waiting' \in [Humans -> Requests]
      BY <2>2 DEF IInv, TypeOK
    <3>2. QED
      BY <1>10, <2>2, <3>1, QuietSound DEF TransactionFails
  <2>3. QED
    BY <1>10, <2>1, <2>2 DEF TransactionFails
<1>11. CASE UNCHANGED vars
  <2>1. waiting' \in [Humans -> Requests]
    BY <1>11 DEF IInv, TypeOK, vars
  <2>2. QED
    BY <1>11, <2>1, QuietSound DEF vars
<1>12. QED
  BY <1>1, <1>2, <1>3, <1>4, <1>5, <1>6, <1>7, <1>8, <1>9, <1>10, <1>11 DEF Next

LEMMA Invariance == Spec => []IInv
BY InitSound, NextSound, PTL DEF Spec

\* Every variable of the review of corrections keeps its type.
THEOREM TypeCorrect == Spec => []TypeOK
<1>1. IInv => TypeOK
  BY DEF IInv
<1>2. QED
  BY <1>1, Invariance, PTL

\* No race between approving, rejecting, restarting and asking again decides a
\* correction twice or contradicts what someone was told.
THEOREM DecisionsAreFinal == Spec => []DecisionsStand
<1>1. IInv => DecisionsStand
  BY DEF IInv
<1>2. QED
  BY <1>1, Invariance, PTL

\* Graph memory holds approved corrections and their lessons only, and all that a
\* receipt claims.
THEOREM GraphNeverAheadOfApproval == Spec => []GraphBacked
<1>1. IInv => GraphBacked
  BY DEF IInv
<1>2. QED
  BY <1>1, Invariance, PTL

\* Training is fed what is approved on record, and nothing else.
THEOREM FeedIsTheRecord == Spec => []FeedMirrorsJournal
<1>1. IInv => FeedMirrorsJournal
  <2> SUFFICES ASSUME IInv, Serving PROVE FeedMirrorsJournal
    BY DEF FeedMirrorsJournal
  <2>1. \A c \in Corrections : /\ approvals[c].by = approvedBy[c]
                               /\ approvals[c].delivery \in Receipts <=> ~NoReceipt(c)
    BY DEF IInv, MemorySound, Serving
  <2>2. \A c \in Corrections : Journaled(c).delivery \in Receipts <=> ~NoReceipt(c)
    BY JournaledReceipt DEF IInv
  <2>3. QED
    BY <2>1, <2>2 DEF FeedMirrorsJournal, Feed
<1>2. QED
  BY <1>1, Invariance, PTL

\* Neither graph memory nor training is ever ahead of the journal.
THEOREM JournalAlwaysLeads == Spec => []JournalLeads
BY GraphNeverAheadOfApproval, FeedIsTheRecord, PTL DEF JournalLeads
=============================================================================
