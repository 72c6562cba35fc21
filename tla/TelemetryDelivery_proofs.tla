----------------------- MODULE TelemetryDelivery_proofs -----------------------
(***************************************************************************)
(* Proofs about TelemetryDelivery for any episodes, settings and length of   *)
(* the spool: receipts tell the truth about delivery, acceptance is for      *)
(* good, and the provider's log is the spool in order, each record once.     *)
(* The invariant says what lets a record be published at all: while the      *)
(* provider is active and no operation is at work, its log is the whole      *)
(* spool; and the first record not accepted is either in the log or the next *)
(* of it (IInv).                                                             *)
(***************************************************************************)
EXTENDS TelemetryDelivery, TLAPS, FiniteSetTheorems, WellFoundedInduction

USE TelemetryAssumption

-----------------------------------------------------------------------------
(* The inductive invariant.                                                *)

\* The provider's log is the beginning of the spool, and what is accepted is in
\* the log.
LogSound ==
  /\ Len(provider) <= Len(spool)
  /\ \A n \in 1 .. Len(provider) : provider[n] = n
  /\ accepted \subseteq 1 .. Len(provider)
  /\ verified \subseteq accepted

\* What the operation at work has established.
OpSound ==
  /\ op.step \in {"down", "refill", "connect"} => ~connected
  /\ op.step \in {"down", "idle", "receipt"} => ~op.startup
  /\ op.step \in {"refill", "connect", "flush", "confirm", "reconcile"} => op.startup
  /\ At("confirm") => op.at \in accepted
  /\ At("publish") => op.at = Len(provider) + 1 /\ op.at \in Spooled
  /\ At("accept") => op.at \in 1 .. Len(provider)
  /\ op.step \in {"publish", "accept", "receipt"} /\ ~op.startup =>
       /\ op.at = Len(spool) /\ op.at \in Spooled /\ base[op.at] = NoReceipt
  /\ At("reconcile") => op.at >= 1

\* With nothing left to publish, an active provider has the whole spool.
CaughtUp ==
  Active /\ (op.step \in {"idle", "receipt", "reconcile"} \/ (At("accept") /\ ~op.startup)) =>
    Len(provider) = Len(spool)

\* A record's receipts: none before its turn, none that claims too much, and
\* none that claims less than an earlier one.
Claimed(r) == r # NoReceipt /\ r.claims
ReceiptSound(i) ==
  /\ \A r \in ReceiptsOf(i) : r.claims => i \in accepted
  /\ i \notin Spooled => base[i] = NoReceipt
  /\ base[i] = NoReceipt => upgrades[i] = <<>> /\ session[i] = NoReceipt
  /\ \A m, n \in DOMAIN upgrades[i] :
       m <= n /\ upgrades[i][m].claims => upgrades[i][n].claims
  /\ Claimed(base[i]) => \A n \in DOMAIN upgrades[i] : upgrades[i][n].claims
  /\ ~At("down") /\ base[i] # NoReceipt =>
       session[i] # NoReceipt /\ (session[i].claims <=> Durable(i).claims)

\* A receipt in memory claims what is accepted.
Told(i) == session[i] # NoReceipt /\ (session[i].claims <=> i \in accepted)

\* A start has refilled, and then reconciled so many.
ReconcileSound ==
  /\ op.startup /\ ~At("refill") => \A i \in Spooled : base[i] # NoReceipt
  /\ At("reconcile") => \A i \in Spooled : i < op.at => Told(i)
  /\ ~op.startup /\ ~At("down") => \A i \in Spooled : base[i] # NoReceipt => Told(i)

IInv == /\ TypeOK /\ LogSound /\ OpSound /\ CaughtUp /\ ReconcileSound
        /\ \A i \in Records : ReceiptSound(i)

-----------------------------------------------------------------------------
(* Numbers and receipts.                                                   *)

LEMMA LeastElement ==
  ASSUME NEW S, S \subseteq Nat, S # {}
  PROVE  Min(S) \in S /\ \A y \in S : Min(S) <= y
<1> DEFINE R == {ss \in Nat \X Nat : ss[1] < ss[2]}
<1>1. IsWellFoundedOn(R, Nat)
  BY NatLessThanWellFounded DEF OpToRel
<1>2. PICK x \in S : \A y \in S : <<y, x>> \notin R
  BY <1>1, WFMin
<1>3. \A y \in S : ~(y < x)
  BY <1>2
<1>4. \A y \in S : x <= y
  BY <1>2, <1>3
<1>5. QED
  BY <1>2, <1>4 DEF Min

LEMMA Counting ==
  ASSUME NEW n \in Nat, NEW S, S \subseteq 1 .. n
  PROVE  Cardinality(S) \in 0 .. n
<1>1. IsFiniteSet(1 .. n) /\ Cardinality(1 .. n) = n
  BY FS_Interval
<1>2. Cardinality(S) \in Nat /\ Cardinality(S) <= n
  BY <1>1, FS_Subset, FS_CardinalityType
<1>3. QED
  BY <1>2

\* The operation at rest, and the process that is down.
LEMMA AtRest ==
  /\ Idle \in Ops /\ Idle.step = "idle" /\ Idle.at = 0 /\ ~Idle.startup
  /\ Down \in Ops /\ Down.step = "down" /\ Down.at = 0 /\ ~Down.startup
<1>1. ASSUME NEW x, NEW step \in {"idle", "down"}, x = [step |-> step, at |-> 0, startup |-> FALSE]
      PROVE  x \in Ops /\ x.step = step /\ x.at = 0 /\ ~x.startup
  BY <1>1 DEF Ops
<1>2. Idle = [step |-> "idle", at |-> 0, startup |-> FALSE]
  BY Zenon DEF Idle
<1>3. Down = [step |-> "down", at |-> 0, startup |-> FALSE]
  BY Zenon DEF Down
<1>4. QED
  BY <1>1, <1>2, <1>3

LEMMA Going ==
  ASSUME op \in Ops, NEW step, NEW i \in 0 .. MaxRecords + 1, Goto(step, i),
         step \in {"connect", "flush", "confirm", "publish", "accept", "receipt", "reconcile"}
  PROVE  op' \in Ops /\ op'.step = step /\ op'.at = i /\ (op'.startup <=> op.startup)
BY DEF Goto, Ops

\* What the spool says of a record is a receipt.
LEMMA PendingType ==
  ASSUME TypeOK
  PROVE  /\ Spooled = 1 .. Len(spool) /\ Spooled \subseteq Records
         /\ Pending \in 0 .. MaxRecords
         /\ \A i : Recovered(i) \in Receipts /\ Recovered(i).claims = (i \in accepted)
<1>1. Len(spool) \in Nat /\ Len(spool) <= MaxRecords /\ Spooled = 1 .. Len(spool)
  BY DEF TypeOK, Spooled
<1>2. Cardinality(accepted) \in 0 .. Len(spool)
  BY <1>1, Counting DEF TypeOK
<1>5. Pending \in 0 .. MaxRecords
  BY <1>1, <1>2 DEF Pending
<1>6. ASSUME NEW i PROVE Recovered(i) \in Receipts /\ Recovered(i).claims = (i \in accepted)
  BY <1>5 DEF Recovered, Receipts, TypeOK, States
<1>7. QED
  BY <1>1, <1>5, <1>6 DEF Records

LEMMA DurableType ==
  ASSUME TypeOK, NEW i \in Records
  PROVE  /\ Durable(i) \in Receipts \cup {NoReceipt}
         /\ upgrades[i] # <<>> => Durable(i) # NoReceipt
         /\ Durable(i) # NoReceipt => Durable(i) \in ReceiptsOf(i)
<1>1. upgrades[i] \in Seq(Receipts) /\ base[i] \in Receipts \cup {NoReceipt}
  BY DEF TypeOK
<1>2. CASE upgrades[i] = <<>>
  BY <1>1, <1>2 DEF Durable, ReceiptsOf
<1>3. CASE upgrades[i] # <<>>
  <2>1. Len(upgrades[i]) \in DOMAIN upgrades[i]
    BY <1>1, <1>3
  <2>2. upgrades[i][Len(upgrades[i])] \in Receipts /\ NoReceipt \notin Receipts
    BY <1>1, <2>1
  <2>3. upgrades[i][Len(upgrades[i])] \in Range(upgrades[i])
    BY <2>1 DEF Range
  <2>4. QED
    BY <1>3, <2>2, <2>3 DEF Durable, ReceiptsOf
<1>4. QED
  BY <1>2, <1>3

-----------------------------------------------------------------------------
LEMMA InitSound == Init => IInv
<1> SUFFICES ASSUME Init PROVE IInv
  OBVIOUS
<1>1. /\ spool = <<>> /\ accepted = {} /\ verified = {} /\ provider = <<>> /\ connected = FALSE
      /\ state = "configured" /\ op = Down
      /\ base = [i \in Records |-> NoReceipt] /\ upgrades = [i \in Records |-> <<>>]
      /\ session = [i \in Records |-> NoReceipt]
  BY DEF Init
<1>2. op \in Ops /\ op.step = "down" /\ ~op.startup
  BY <1>1, AtRest
<1>3. TypeOK
  <2>1. spool \in Seq(Episodes) /\ Len(spool) = 0 /\ provider \in Seq(Records)
    BY <1>1
  <2>2. base \in [Records -> Receipts \cup {NoReceipt}]
    BY <1>1
  <2>3. session \in [Records -> Receipts \cup {NoReceipt}]
    BY <1>1
  <2>4. upgrades \in [Records -> Seq(Receipts)]
    <3>1. <<>> \in Seq(Receipts)
      OBVIOUS
    <3>2. QED
      BY <1>1, <3>1
  <2>5. QED
    <3>1. accepted \subseteq Spooled /\ verified \subseteq Spooled
      BY <1>1
    <3>2. Len(spool) \in 0 .. MaxRecords
      BY <2>1
    <3>3. connected \in BOOLEAN /\ state \in States
      BY <1>1 DEF States
    <3>4. QED
      BY <1>2, <2>1, <2>2, <2>3, <2>4, <3>1, <3>2, <3>3 DEF TypeOK
<1>4. LogSound /\ OpSound /\ CaughtUp
  BY <1>1, <1>2 DEF LogSound, OpSound, CaughtUp, At
<1>5. ReconcileSound
  BY <1>1, <1>2 DEF ReconcileSound, At
<1>6. ASSUME NEW i \in Records PROVE ReceiptSound(i)
  <2>1. base[i] = NoReceipt /\ upgrades[i] = <<>> /\ session[i] = NoReceipt
    BY <1>1
  <2>2. ReceiptsOf(i) = {}
    BY <2>1 DEF ReceiptsOf, Range
  <2>3. QED
    BY <2>1, <2>2 DEF ReceiptSound, Claimed
<1>7. QED
  BY <1>3, <1>4, <1>5, <1>6 DEF IInv

-----------------------------------------------------------------------------
(* What the steps share.                                                   *)

LEMMA Facts ==
  ASSUME IInv
  PROVE  /\ TypeOK /\ LogSound /\ OpSound /\ CaughtUp /\ ReconcileSound
         /\ \A i \in Records : ReceiptSound(i)
         /\ Len(spool) \in Nat /\ Len(spool) <= MaxRecords
         /\ Spooled = 1 .. Len(spool) /\ Spooled \subseteq Records
         /\ Len(provider) \in Nat /\ Range(provider) = 1 .. Len(provider)
         /\ op \in Ops /\ op.at \in 0 .. MaxRecords + 1
         /\ accepted \subseteq Spooled
<1>1. /\ TypeOK /\ LogSound /\ OpSound /\ CaughtUp /\ ReconcileSound
      /\ \A i \in Records : ReceiptSound(i)
  BY DEF IInv
<1>2. /\ Len(spool) \in Nat /\ Len(spool) <= MaxRecords
      /\ Spooled = 1 .. Len(spool) /\ Spooled \subseteq Records
  BY <1>1, PendingType DEF TypeOK
<1>3. Len(provider) \in Nat /\ DOMAIN provider = 1 .. Len(provider)
  BY <1>1 DEF TypeOK
<1>4. Range(provider) = 1 .. Len(provider)
  BY <1>1, <1>3 DEF Range, LogSound
<1>5. op \in Ops /\ op.at \in 0 .. MaxRecords + 1
  BY <1>1 DEF TypeOK, Ops
<1>6. QED
  BY <1>1, <1>2, <1>3, <1>4, <1>5 DEF TypeOK

\* Steps that leave a record's receipts alone leave them sound.
LEMMA ReceiptKept ==
  ASSUME NEW i \in Records, ReceiptSound(i),
         base'[i] = base[i], upgrades'[i] = upgrades[i], session'[i] = session[i],
         accepted \subseteq accepted', Spooled \subseteq Spooled', ~At("down")
  PROVE  ReceiptSound(i)'
<1>1. ReceiptsOf(i)' = ReceiptsOf(i)
  BY DEF ReceiptsOf
<1>2. Durable(i)' = Durable(i)
  BY DEF Durable
<1>3. QED
  BY <1>1, <1>2 DEF ReceiptSound, Claimed, Spooled

LEMMA ReceiptsKept ==
  ASSUME IInv, UNCHANGED <<base, upgrades, session>>,
         accepted \subseteq accepted', Spooled \subseteq Spooled', ~At("down")
  PROVE  \A i \in Records : ReceiptSound(i)'
BY ReceiptKept DEF IInv

\* Publishing to the provider appends the record its log lacks next.
LEMMA Published ==
  ASSUME NEW s \in Seq(Records), NEW i \in Records, i = Len(s) + 1,
         \A n \in 1 .. Len(s) : s[n] = n
  PROVE  /\ Append(s, i) \in Seq(Records) /\ Len(Append(s, i)) = Len(s) + 1
         /\ \A n \in 1 .. Len(Append(s, i)) : Append(s, i)[n] = n
OBVIOUS

-----------------------------------------------------------------------------
(* One lemma for each action.                                              *)

LEMMA CrashSound == IInv /\ Crash => IInv'
<1> SUFFICES ASSUME IInv, Crash PROVE IInv'
  OBVIOUS
<1>1. /\ op' = Down /\ ~connected' /\ connected' = FALSE /\ state' = "configured"
      /\ session' = [i \in Records |-> NoReceipt]
      /\ UNCHANGED <<spool, accepted, verified, base, upgrades, provider>>
  BY DEF Crash, durable
<1>2. op' \in Ops /\ op'.step = "down" /\ ~op'.startup
  BY <1>1, AtRest
<1>3. TypeOK'
  <2>1. session' \in [Records -> Receipts \cup {NoReceipt}]
    BY <1>1
  <2>2. connected' \in BOOLEAN /\ state' \in States
    BY <1>1 DEF States
  <2>3. QED
    BY <1>1, <1>2, <2>1, <2>2, Facts DEF TypeOK, Spooled
<1>4. LogSound'
  BY <1>1, Facts DEF LogSound
<1>5. OpSound' /\ CaughtUp' /\ ReconcileSound'
  BY <1>1, <1>2 DEF OpSound, CaughtUp, ReconcileSound, At, Active
<1>6. ASSUME NEW i \in Records PROVE ReceiptSound(i)'
  <2>1. ReceiptSound(i) /\ session'[i] = NoReceipt
    BY <1>1, Facts
  <2>2. ReceiptsOf(i)' \subseteq ReceiptsOf(i)
    BY <1>1, <2>1 DEF ReceiptsOf
  <2>3. QED
    BY <1>1, <1>2, <2>1, <2>2 DEF ReceiptSound, Claimed, Spooled, At
<1>7. QED
  BY <1>3, <1>4, <1>5, <1>6 DEF IInv

LEMMA StartSound == IInv /\ Start => IInv'
<1> SUFFICES ASSUME IInv, Start PROVE IInv'
  OBVIOUS
<1>1. /\ op' = [step |-> "refill", at |-> 0, startup |-> TRUE]
      /\ state' \in Settings /\ session' = [i \in Records |-> Durable(i)]
      /\ UNCHANGED <<spool, accepted, verified, base, upgrades, provider, connected>>
      /\ op.step = "down"
  BY DEF Start, durable, At
<1>2. op' \in Ops /\ op'.step = "refill" /\ op'.startup
  BY <1>1 DEF Ops
<1>3. TypeOK'
  <2>1. session' \in [Records -> Receipts \cup {NoReceipt}]
    BY <1>1, DurableType, Facts
  <2>2. state' \in States
    BY <1>1 DEF States
  <2>3. QED
    BY <1>1, <1>2, <2>1, <2>2, Facts DEF TypeOK, Spooled
<1>4. LogSound'
  BY <1>1, Facts DEF LogSound
<1>5. ~connected /\ OpSound'
  BY <1>1, <1>2, Facts DEF OpSound, At
<1>6. CaughtUp' /\ ReconcileSound'
  BY <1>1, <1>2, <1>5 DEF CaughtUp, ReconcileSound, At, Active
<1>7. ASSUME NEW i \in Records PROVE ReceiptSound(i)'
  <2>1. ReceiptSound(i) /\ session'[i] = Durable(i) /\ TypeOK
    BY <1>1, Facts
  <2>2. Durable(i)' = Durable(i)
    BY <1>1 DEF Durable
  <2>3. Durable(i) # NoReceipt => Durable(i) \in ReceiptsOf(i)
    BY <2>1, DurableType
  <2>4. ReceiptsOf(i)' \subseteq ReceiptsOf(i)
    BY <1>1, <2>1, <2>3 DEF ReceiptsOf
  <2>5. base[i] # NoReceipt => Durable(i) # NoReceipt
    BY <2>1, DurableType DEF Durable
  <2>6. base[i] = NoReceipt => Durable(i) = NoReceipt
    BY <2>1 DEF ReceiptSound, Durable
  <2>7. QED
    BY <1>1, <2>1, <2>2, <2>4, <2>5, <2>6 DEF ReceiptSound, Claimed, Spooled
<1>8. QED
  BY <1>3, <1>4, <1>5, <1>6, <1>7 DEF IInv

\* A receipt written for a record that has none.
LEMMA FirstReceipt ==
  ASSUME IInv, NEW i \in Spooled, base[i] = NoReceipt, NEW r \in Receipts,
         r.claims <=> i \in accepted,
         base' = [base EXCEPT ![i] = r], session' = [session EXCEPT ![i] = r],
         UNCHANGED <<spool, accepted, upgrades>>, ~At("down")
  PROVE  /\ base' \in [Records -> Receipts \cup {NoReceipt}]
         /\ session' \in [Records -> Receipts \cup {NoReceipt}]
         /\ \A k \in Records : ReceiptSound(k)'
         /\ \A k \in Spooled : (base[k] # NoReceipt => Told(k)) => (base'[k] # NoReceipt => Told(k)')
<1>1. /\ base \in [Records -> Receipts \cup {NoReceipt}] /\ i \in Records
      /\ session \in [Records -> Receipts \cup {NoReceipt}] /\ r # NoReceipt
  BY Facts DEF TypeOK
<1>2. /\ base' \in [Records -> Receipts \cup {NoReceipt}]
      /\ session' \in [Records -> Receipts \cup {NoReceipt}]
      /\ base'[i] = r /\ session'[i] = r
      /\ \A k \in Records : k # i => base'[k] = base[k] /\ session'[k] = session[k]
  BY <1>1
<1>3. ASSUME NEW k \in Records PROVE ReceiptSound(k)'
  <2>1. CASE k # i
    <3>1. ReceiptSound(k) /\ Spooled \subseteq Spooled' /\ accepted \subseteq accepted'
      BY Facts DEF Spooled
    <3>2. base'[k] = base[k] /\ upgrades'[k] = upgrades[k] /\ session'[k] = session[k]
      BY <1>2, <2>1
    <3>3. QED
      BY <3>1, <3>2, ReceiptKept
  <2>2. CASE k = i
    <3>1. upgrades[k] = <<>>
      BY <2>2, Facts DEF ReceiptSound
    <3>2. ReceiptsOf(k)' = {r} /\ Durable(k)' = r
      BY <1>1, <1>2, <2>2, <3>1 DEF ReceiptsOf, Durable, Range
    <3>3. QED
      BY <1>1, <1>2, <2>2, <3>1, <3>2 DEF ReceiptSound, Claimed, Spooled
  <2>3. QED
    BY <2>1, <2>2
<1>4. ASSUME NEW k \in Spooled, base[k] # NoReceipt => Told(k), base'[k] # NoReceipt
      PROVE  Told(k)'
  <2>1. CASE k = i
    BY <1>1, <1>2, <2>1 DEF Told
  <2>2. CASE k # i
    BY <1>2, <1>4, <2>2, Facts DEF Told
  <2>3. QED
    BY <2>1, <2>2
<1>5. QED
  BY <1>2, <1>3, <1>4

LEMMA RefillSound == ASSUME NEW i \in Records PROVE IInv /\ Refill(i) => IInv'
<1> SUFFICES ASSUME IInv, Refill(i) PROVE IInv'
  OBVIOUS
<1>1. /\ op.step \in {"refill", "idle"} /\ i \in Spooled /\ base[i] = NoReceipt
      /\ base' = [base EXCEPT ![i] = Recovered(i)]
      /\ session' = [session EXCEPT ![i] = Recovered(i)]
      /\ UNCHANGED <<spool, accepted, verified, upgrades, provider, connected, state, op>>
  BY DEF Refill
<1>2. ~At("down") /\ op.step # "reconcile" /\ (op.step = "idle" => ~op.startup)
  BY <1>1, Facts DEF At, OpSound
<1>3. Recovered(i) \in Receipts /\ (Recovered(i).claims <=> i \in accepted)
  BY Facts, PendingType
<1>4. /\ base' \in [Records -> Receipts \cup {NoReceipt}]
      /\ session' \in [Records -> Receipts \cup {NoReceipt}]
      /\ \A k \in Records : ReceiptSound(k)'
      /\ \A k \in Spooled : (base[k] # NoReceipt => Told(k)) => (base'[k] # NoReceipt => Told(k)')
  BY <1>1, <1>2, <1>3, FirstReceipt
<1>5. TypeOK'
  BY <1>1, <1>4, Facts DEF TypeOK, Spooled
<1>6. LogSound' /\ CaughtUp'
  BY <1>1, Facts DEF LogSound, CaughtUp, Active, At
<1>7. OpSound'
  BY <1>1, Facts DEF OpSound, Spooled, At
<1>8. ReconcileSound'
  BY <1>1, <1>2, <1>4, Facts DEF ReconcileSound, At, Spooled
<1>9. QED
  BY <1>4, <1>5, <1>6, <1>7, <1>8 DEF IInv

LEMMA RefilledSound == IInv /\ Refilled => IInv'
<1> SUFFICES ASSUME IInv, Refilled PROVE IInv'
  OBVIOUS
<1>1. /\ op.step = "refill" /\ \A i \in Spooled : base[i] # NoReceipt
      /\ UNCHANGED <<spool, accepted, verified, base, upgrades, provider, connected, state, session>>
  BY DEF Refilled, durable, At
<1>2. PICK step \in {"reconcile", "connect"}, n \in {0, 1} :
        Goto(step, n) /\ (step = "reconcile" => n = 1)
  BY DEF Refilled
<1>3. /\ op' \in Ops /\ op'.step = step /\ op'.at = n /\ (op'.startup <=> op.startup)
  BY <1>2, Facts, Going
<1>4. op.startup /\ ~connected
  BY <1>1, Facts DEF OpSound
<1>5. TypeOK' /\ LogSound'
  BY <1>1, <1>3, Facts DEF TypeOK, LogSound, Spooled
<1>6. OpSound' /\ CaughtUp'
  BY <1>1, <1>2, <1>3, <1>4 DEF OpSound, CaughtUp, At, Active
<1>7. ReconcileSound'
  BY <1>1, <1>2, <1>3, <1>4, Facts DEF ReconcileSound, At, Spooled
<1>8. QED
  BY <1>1, <1>5, <1>6, <1>7, ReceiptsKept DEF IInv, At, Spooled

LEMMA ConnectSound == IInv /\ Connect => IInv'
<1> SUFFICES ASSUME IInv, Connect PROVE IInv'
  OBVIOUS
<1>1. /\ op.step = "connect"
      /\ UNCHANGED <<spool, accepted, verified, base, upgrades, provider, session>>
  BY DEF Connect, durable, At
<1>2. op.startup
  BY <1>1, Facts DEF OpSound
<1>3. /\ op' \in Ops /\ op'.startup /\ connected' \in BOOLEAN /\ state' \in States
      /\ \/ op'.step = "flush"
         \/ op'.step = "reconcile" /\ op'.at = 1 /\ ~connected'
  <2>1. CASE connected' = TRUE /\ state' = "healthy" /\ Goto("flush", 0)
    BY <1>2, <2>1, Facts, Going DEF States
  <2>2. CASE Degrade /\ Goto("reconcile", 1)
    <3>1. 1 \in 0 .. MaxRecords + 1
      OBVIOUS
    <3>2. op' \in Ops /\ op'.step = "reconcile" /\ op'.at = 1 /\ op'.startup
      BY <1>2, <2>2, <3>1, Facts, Going
    <3>3. QED
      BY <2>2, <3>2 DEF States, Degrade
  <2>3. QED
    BY <2>1, <2>2 DEF Connect
<1>4. TypeOK' /\ LogSound'
  BY <1>1, <1>3, Facts DEF TypeOK, LogSound, Spooled
<1>5. OpSound' /\ CaughtUp'
  BY <1>1, <1>3 DEF OpSound, CaughtUp, At, Active
<1>6. ReconcileSound'
  BY <1>1, <1>2, <1>3, Facts DEF ReconcileSound, At, Spooled
<1>7. QED
  BY <1>1, <1>4, <1>5, <1>6, ReceiptsKept DEF IInv, At, Spooled

\* The first record not accepted is in the provider's log, or the next of it.
LEMMA NextIsNext ==
  ASSUME IInv, Spooled \ accepted # {}
  PROVE  /\ NextPending \in Spooled
         /\ Found(NextPending) => NextPending \in 1 .. Len(provider)
         /\ ~Found(NextPending) => NextPending = Len(provider) + 1
<1> DEFINE S == Spooled \ accepted
           m == Min(S)
<1>1. S \subseteq Nat /\ S \subseteq 1 .. Len(spool)
  BY Facts
<1>2. m \in S /\ \A y \in S : m <= y
  BY <1>1, LeastElement
<1>3. \A j \in 1 .. Len(spool) : j < m => j \in 1 .. Len(provider)
  <2>1. Spooled = 1 .. Len(spool) /\ Len(spool) \in Nat /\ accepted \subseteq 1 .. Len(provider)
    BY Facts DEF LogSound
  <2>2. ASSUME NEW j \in 1 .. Len(spool), j < m PROVE j \in accepted
    <3>1. m \in Nat /\ ~(m <= j)
      BY <1>1, <1>2, <2>1, <2>2
    <3>2. QED
      BY <1>2, <2>1, <3>1
  <2>3. QED
    BY <2>1, <2>2
<1>4. Found(m) <=> m \in 1 .. Len(provider)
  BY Facts DEF Found, InProvider
<1>5. ASSUME m \notin 1 .. Len(provider) PROVE m = Len(provider) + 1
  <2>1. m \in 1 .. Len(spool) /\ Len(spool) \in Nat /\ Len(provider) \in Nat
    BY <1>1, <1>2, Facts
  <2>2. m > Len(provider)
    BY <1>5, <2>1
  <2>3. m > Len(provider) + 1 => Len(provider) + 1 \in 1 .. Len(provider)
    BY <1>3, <2>1
  <2>4. QED
    BY <2>1, <2>2, <2>3
<1>6. QED
  BY <1>1, <1>2, <1>4, <1>5, Facts DEF NextPending

LEMMA FlushPendingSound == IInv /\ FlushPending => IInv'
<1> SUFFICES ASSUME IInv, FlushPending PROVE IInv'
  OBVIOUS
<1>1. /\ op.step = "flush" /\ Spooled \ accepted # {}
      /\ UNCHANGED <<spool, verified, base, upgrades, provider, session>>
  BY DEF FlushPending, At
<1>2. op.startup
  BY <1>1, Facts DEF OpSound
<1> DEFINE i == NextPending
<1>3. /\ i \in Spooled /\ i \in 0 .. MaxRecords + 1 /\ 1 \in 0 .. MaxRecords + 1
      /\ Found(i) => i \in 1 .. Len(provider)
      /\ ~Found(i) => i = Len(provider) + 1
  BY <1>1, NextIsNext, Facts
<1>4. /\ op' \in Ops /\ op'.startup /\ connected' \in BOOLEAN /\ state' \in States
      /\ accepted \subseteq accepted' /\ accepted' \subseteq Spooled
      /\ accepted' \subseteq 1 .. Len(provider)
      /\ \/ op'.step = "confirm" /\ op'.at \in accepted'
         \/ op'.step = "publish" /\ op'.at = Len(provider) + 1 /\ op'.at \in Spooled
         \/ op'.step = "reconcile" /\ op'.at = 1 /\ ~connected'
  <2>1. accepted \subseteq 1 .. Len(provider) /\ accepted \subseteq Spooled
        /\ connected \in BOOLEAN /\ state \in States
    BY Facts DEF LogSound, TypeOK
  <2> HIDE DEF i
  <2>2. CASE Found(i) /\ accepted' = accepted \cup {i} /\ Goto("confirm", i)
             /\ UNCHANGED <<connected, state>>
    BY <1>2, <1>3, <2>1, <2>2, Facts, Going
  <2>3. CASE ~Found(i) /\ Goto("publish", i) /\ UNCHANGED <<accepted, connected, state>>
    BY <1>2, <1>3, <2>1, <2>3, Facts, Going
  <2>4. CASE Degrade /\ Goto("reconcile", 1) /\ UNCHANGED accepted
    BY <1>2, <1>3, <2>1, <2>4, Facts, Going DEF Degrade, States
  <2>5. QED
    BY <2>2, <2>3, <2>4 DEF FlushPending, i
<1>5. TypeOK' /\ LogSound'
  BY <1>1, <1>4, Facts DEF TypeOK, LogSound, Spooled
<1>6. OpSound' /\ CaughtUp'
  BY <1>1, <1>4 DEF OpSound, CaughtUp, At, Active, Spooled
<1>7. ReconcileSound'
  BY <1>1, <1>2, <1>4, Facts DEF ReconcileSound, At, Spooled
<1>8. QED
  BY <1>1, <1>4, <1>5, <1>6, <1>7, ReceiptsKept DEF IInv, At, Spooled

LEMMA ConfirmSound == IInv /\ Confirm => IInv'
<1> SUFFICES ASSUME IInv, Confirm PROVE IInv'
  OBVIOUS
<1>1. /\ op.step = "confirm" /\ verified' = verified \cup {op.at} /\ state' = "verified"
      /\ UNCHANGED <<spool, accepted, base, upgrades, provider, connected, session>>
      /\ op' \in Ops /\ op'.step = "flush" /\ (op'.startup <=> op.startup)
  BY Facts, Going DEF Confirm, At
<1>2. op.startup /\ op.at \in accepted
  BY <1>1, Facts DEF OpSound, At
<1>3. TypeOK'
  BY <1>1, <1>2, Facts DEF TypeOK, Spooled, States
<1>4. LogSound'
  BY <1>1, <1>2, Facts DEF LogSound
<1>5. OpSound' /\ CaughtUp'
  BY <1>1, <1>2 DEF OpSound, CaughtUp, At, Active
<1>6. ReconcileSound'
  BY <1>1, <1>2, Facts DEF ReconcileSound, At, Spooled
<1>7. QED
  BY <1>1, <1>3, <1>4, <1>5, <1>6, ReceiptsKept DEF IInv, At, Spooled

LEMMA FlushedSound == IInv /\ Flushed => IInv'
<1> SUFFICES ASSUME IInv, Flushed PROVE IInv'
  OBVIOUS
<1>1. /\ op.step = "flush" /\ Spooled \subseteq accepted
      /\ UNCHANGED <<spool, accepted, verified, base, upgrades, provider, connected, state, session>>
      /\ op' \in Ops /\ op'.step = "reconcile" /\ op'.at = 1 /\ (op'.startup <=> op.startup)
  BY Facts, Going DEF Flushed, At, durable
<1>2. op.startup
  BY <1>1, Facts DEF OpSound
<1>3. Len(provider) = Len(spool)
  <2>1. 1 .. Len(spool) \subseteq 1 .. Len(provider) /\ Len(provider) <= Len(spool)
    BY <1>1, Facts DEF LogSound
  <2>2. QED
    BY <2>1, Facts
<1>4. TypeOK' /\ LogSound'
  BY <1>1, Facts DEF TypeOK, LogSound, Spooled
<1>5. OpSound' /\ CaughtUp'
  BY <1>1, <1>2, <1>3 DEF OpSound, CaughtUp, At
<1>6. ReconcileSound'
  BY <1>1, <1>2, Facts DEF ReconcileSound, At, Spooled
<1>7. QED
  BY <1>1, <1>4, <1>5, <1>6, ReceiptsKept DEF IInv, At, Spooled

LEMMA AppendRecordSound == ASSUME NEW e \in Episodes PROVE IInv /\ AppendRecord(e) => IInv'
<1> SUFFICES ASSUME IInv, AppendRecord(e) PROVE IInv'
  OBVIOUS
<1> DEFINE n == Len(spool) + 1
<1>1. /\ op.step = "idle" /\ Len(spool) < MaxRecords /\ spool' = Append(spool, e)
      /\ UNCHANGED <<accepted, verified, base, upgrades, provider, connected, state, session>>
  BY DEF AppendRecord, At
<1>2. n \in Nat /\ n \in 0 .. MaxRecords + 1 /\ n \in Records /\ spool \in Seq(Episodes)
  BY <1>1, Facts DEF Records, TypeOK
<1>3. /\ spool' \in Seq(Episodes) /\ Len(spool') = n /\ DOMAIN spool' = 1 .. n
  BY <1>1, <1>2
<1>4. Spooled' = 1 .. n /\ Spooled \subseteq Spooled' /\ n \in Spooled' /\ n \notin Spooled
      /\ \A i \in Spooled' : i = n \/ i \in Spooled
  BY <1>2, <1>3, Facts DEF Spooled
<1>5. /\ op' \in Ops /\ op'.at = n /\ ~op'.startup
      /\ IF Active THEN op'.step = "publish" ELSE op'.step = "receipt"
  <2>1. ~op.startup
    BY <1>1, Facts DEF OpSound
  <2> HIDE DEF n
  <2>2. Goto(IF Active THEN "publish" ELSE "receipt", n)
    BY DEF AppendRecord, n
  <2>3. QED
    BY <1>2, <2>1, <2>2, Facts, Going
<1>6. base[n] = NoReceipt
  BY <1>2, <1>4, Facts DEF ReceiptSound
<1>7. TypeOK'
  <2>1. accepted \subseteq Spooled' /\ verified \subseteq Spooled'
    BY <1>4, Facts DEF TypeOK
  <2>2. Len(spool') \in 0 .. MaxRecords
    BY <1>1, <1>2, <1>3, Facts
  <2>3. QED
    BY <1>1, <1>3, <1>5, <2>1, <2>2, Facts DEF TypeOK
<1>8. LogSound'
  BY <1>1, <1>2, <1>3, Facts DEF LogSound
<1>9. OpSound'
  <2>1. Active => Len(provider) = Len(spool)
    BY <1>1, Facts DEF CaughtUp
  <2>2. QED
    BY <1>1, <1>3, <1>4, <1>5, <1>6, <2>1 DEF OpSound, At
<1>10. CaughtUp'
  BY <1>1, <1>5 DEF CaughtUp, At, Active
<1>11. ReconcileSound'
  <2>1. ~op.startup /\ \A i \in Spooled : base[i] # NoReceipt => Told(i)
    BY <1>1, Facts DEF OpSound, ReconcileSound, At
  <2>2. \A i \in Spooled' : base'[i] # NoReceipt => Told(i)'
    BY <1>1, <1>4, <1>6, <2>1 DEF Told
  <2>3. QED
    BY <1>5, <2>2 DEF ReconcileSound, At
<1>12. QED
  BY <1>1, <1>4, <1>7, <1>8, <1>9, <1>10, <1>11, ReceiptsKept DEF IInv, At

LEMMA PublishSound == IInv /\ Publish => IInv'
<1> SUFFICES ASSUME IInv, Publish PROVE IInv'
  OBVIOUS
<1> DEFINE i == op.at
<1>1. /\ op.step = "publish"
      /\ UNCHANGED <<spool, accepted, verified, base, upgrades, session>>
  BY DEF Publish, durable, At
<1>2. /\ i = Len(provider) + 1 /\ i \in Spooled /\ i \in Records /\ provider \in Seq(Records)
      /\ i \in 0 .. MaxRecords + 1 /\ 1 \in 0 .. MaxRecords + 1
      /\ ~op.startup => i = Len(spool) /\ base[i] = NoReceipt
      /\ connected \in BOOLEAN /\ state \in States
  BY <1>1, Facts DEF OpSound, TypeOK, At
<1>3. /\ Append(provider, i) \in Seq(Records) /\ Len(Append(provider, i)) = i
      /\ \A n \in 1 .. i : Append(provider, i)[n] = n
  <2>1. \A n \in 1 .. Len(provider) : provider[n] = n
    BY Facts DEF LogSound
  <2> HIDE DEF i
  <2>2. QED
    BY <1>2, <2>1, Published
<1>4. /\ provider' \in Seq(Records) /\ Len(provider') <= Len(spool) /\ Len(provider') \in Nat
      /\ Len(provider') >= Len(provider) /\ \A n \in 1 .. Len(provider') : provider'[n] = n
  <2>1. provider' = provider \/ provider' = Append(provider, i)
    BY DEF Publish
  <2>2. CASE provider' = provider
    BY <1>2, <2>2, Facts DEF LogSound
  <2>3. CASE provider' = Append(provider, i)
    BY <1>2, <1>3, <2>3, Facts
  <2>4. QED
    BY <2>1, <2>2, <2>3
<1>5. /\ op' \in Ops /\ connected' \in BOOLEAN /\ state' \in States /\ (op'.startup <=> op.startup)
      /\ \/ op'.step = "accept" /\ op'.at = i /\ Len(provider') = i
         \/ op'.step = "reconcile" /\ op'.at = 1 /\ op'.startup /\ ~connected'
         \/ op'.step = "receipt" /\ op'.at = i /\ ~op'.startup /\ ~connected'
  <2> HIDE DEF i
  <2>1. CASE provider' = Append(provider, i) /\ Goto("accept", i) /\ UNCHANGED <<connected, state>>
    BY <1>2, <1>3, <2>1, Facts, Going
  <2>2. CASE Degrade /\ op.startup /\ Goto("reconcile", 1)
    BY <1>2, <2>2, Facts, Going DEF Degrade, States
  <2>3. CASE Degrade /\ ~op.startup /\ Goto("receipt", i)
    BY <1>2, <2>3, Facts, Going DEF Degrade, States
  <2>4. QED
    BY <2>1, <2>2, <2>3 DEF Publish, i
<1>6. TypeOK'
  BY <1>1, <1>4, <1>5, Facts DEF TypeOK, Spooled
<1>7. LogSound'
  BY <1>1, <1>4, Facts DEF LogSound
<1>8. OpSound'
  <2>1. i \in Spooled' /\ i >= 1 /\ i \in Nat
    <3>1. Spooled' = Spooled
      BY <1>1 DEF Spooled
    <3>2. i \in 1 .. Len(spool)
      BY <1>2, Facts
    <3>3. QED
      BY <1>2, <3>1, <3>2
  <2>2. Len(provider') = i => i \in 1 .. Len(provider')
    BY <2>1
  <2> HIDE DEF i
  <2>3. QED
    BY <1>1, <1>2, <1>5, <2>1, <2>2 DEF OpSound, At
<1>9. CaughtUp'
  BY <1>1, <1>2, <1>5 DEF CaughtUp, At, Active
<1>10. ReconcileSound'
  BY <1>1, <1>5, Facts DEF ReconcileSound, At, Spooled, Told
<1>11. QED
  BY <1>1, <1>6, <1>7, <1>8, <1>9, <1>10, ReceiptsKept DEF IInv, At, Spooled

LEMMA AcceptSound == IInv /\ Accept => IInv'
<1> SUFFICES ASSUME IInv, Accept PROVE IInv'
  OBVIOUS
<1>1. /\ op.step = "accept" /\ accepted' = accepted \cup {op.at}
      /\ UNCHANGED <<spool, verified, base, upgrades, provider, connected, state, session>>
  BY DEF Accept, At
<1>2. /\ op.at \in 1 .. Len(provider) /\ op.at \in Spooled /\ op.at \in 0 .. MaxRecords + 1
      /\ 0 \in 0 .. MaxRecords + 1
      /\ ~op.startup => op.at = Len(spool) /\ base[op.at] = NoReceipt
  BY <1>1, Facts DEF OpSound, LogSound, At
<1>3. /\ op' \in Ops
      /\ \/ op.startup /\ op'.startup /\ op'.step = "flush"
         \/ ~op.startup /\ ~op'.startup /\ op'.step = "receipt" /\ op'.at = op.at
  <2>1. CASE op.startup /\ Goto("flush", 0)
    BY <1>2, <2>1, Facts, Going
  <2>2. CASE ~op.startup /\ Goto("receipt", op.at)
    BY <1>2, <2>2, Facts, Going
  <2>3. QED
    BY <2>1, <2>2 DEF Accept
<1>4. TypeOK'
  BY <1>1, <1>2, <1>3, Facts DEF TypeOK, Spooled
<1>5. LogSound'
  BY <1>1, <1>2, Facts DEF LogSound
<1>6. OpSound'
  BY <1>1, <1>2, <1>3 DEF OpSound, At, Spooled
<1>7. CaughtUp'
  BY <1>1, <1>3, Facts DEF CaughtUp, At, Active
<1>8. ReconcileSound'
  <2>1. CASE op.startup
    BY <1>1, <1>3, <2>1, Facts DEF ReconcileSound, At, Spooled
  <2>2. CASE ~op.startup
    <3>1. \A i \in Spooled : base[i] # NoReceipt => Told(i) /\ i # op.at
      BY <1>1, <1>2, <2>2, Facts DEF ReconcileSound, At
    <3>2. \A i \in Spooled : base[i] # NoReceipt => Told(i)'
      BY <1>1, <3>1 DEF Told
    <3>3. QED
      BY <1>1, <1>3, <2>2, <3>2 DEF ReconcileSound, At, Spooled
  <2>3. QED
    BY <2>1, <2>2
<1>9. QED
  BY <1>1, <1>4, <1>5, <1>6, <1>7, <1>8, ReceiptsKept DEF IInv, At, Spooled

LEMMA AppendRaisesSound == IInv /\ AppendRaises => IInv'
<1> SUFFICES ASSUME IInv, AppendRaises PROVE IInv'
  OBVIOUS
<1>1. /\ op.step \in {"accept", "receipt"} /\ ~op.startup
      /\ UNCHANGED <<spool, accepted, verified, base, upgrades, provider, connected, state, session>>
      /\ op' \in Ops /\ op'.step = "idle" /\ ~op'.startup
  BY AtRest DEF AppendRaises, durable
<1>2. TypeOK' /\ LogSound'
  BY <1>1, Facts DEF TypeOK, LogSound, Spooled
<1>3. OpSound' /\ CaughtUp'
  BY <1>1, Facts DEF OpSound, CaughtUp, At, Active
<1>4. ReconcileSound'
  BY <1>1, Facts DEF ReconcileSound, At, Spooled, Told
<1>5. QED
  BY <1>1, <1>2, <1>3, <1>4, ReceiptsKept DEF IInv, At, Spooled

LEMMA VerifyEventSound == ASSUME NEW i \in Records PROVE IInv /\ VerifyEvent(i) => IInv'
<1> SUFFICES ASSUME IInv, VerifyEvent(i) PROVE IInv'
  OBVIOUS
<1>1. /\ op.step = "idle" /\ Active /\ i \in accepted
      /\ UNCHANGED <<spool, accepted, base, upgrades, provider, session, op>>
  BY DEF VerifyEvent, At
<1>2. /\ verified' \subseteq verified \cup {i} /\ connected' \in BOOLEAN /\ state' \in States
  BY <1>1, Facts DEF VerifyEvent, TypeOK, Degrade, States
<1>3. Len(provider) = Len(spool)
  BY <1>1, Facts DEF CaughtUp
<1>4. TypeOK'
  BY <1>1, <1>2, Facts DEF TypeOK, Spooled
<1>5. LogSound'
  BY <1>1, <1>2, Facts DEF LogSound
<1>6. OpSound' /\ CaughtUp'
  BY <1>1, <1>3, Facts DEF OpSound, CaughtUp, At, Spooled
<1>7. ReconcileSound'
  BY <1>1, Facts DEF ReconcileSound, At, Spooled, Told
<1>8. QED
  BY <1>1, <1>4, <1>5, <1>6, <1>7, ReceiptsKept DEF IInv, At, Spooled

LEMMA ServeSound == IInv /\ Serve => IInv'
<1> SUFFICES ASSUME IInv, Serve PROVE IInv'
  OBVIOUS
<1>1. /\ op.step = "reconcile" /\ op.at \notin Spooled
      /\ UNCHANGED <<spool, accepted, verified, base, upgrades, provider, connected, state, session>>
      /\ op' \in Ops /\ op'.step = "idle" /\ ~op'.startup
  BY AtRest DEF Serve, durable, At
<1>2. TypeOK' /\ LogSound'
  BY <1>1, Facts DEF TypeOK, LogSound, Spooled
<1>3. OpSound' /\ CaughtUp'
  BY <1>1, Facts DEF OpSound, CaughtUp, At, Active
<1>4. ReconcileSound'
  <2>1. \A i \in Spooled : i < op.at
    BY <1>1, Facts DEF OpSound, At
  <2>2. \A i \in Spooled : Told(i)
    BY <1>1, <2>1, Facts DEF ReconcileSound, At
  <2>3. QED
    BY <1>1, <2>2 DEF ReconcileSound, At, Spooled, Told
<1>5. QED
  BY <1>1, <1>2, <1>3, <1>4, ReceiptsKept DEF IInv, At, Spooled

LEMMA JournalReceiptSound == IInv /\ JournalReceipt => IInv'
<1> SUFFICES ASSUME IInv, JournalReceipt PROVE IInv'
  OBVIOUS
<1> DEFINE i == op.at
           receipt == [claims |-> i \in accepted, state |-> state, pending |-> Pending]
<1>1. /\ op.step = "receipt"
      /\ UNCHANGED <<spool, accepted, verified, upgrades, provider, connected, state>>
      /\ op' \in Ops /\ op'.step = "idle" /\ ~op'.startup
  BY AtRest DEF JournalReceipt, At
<1>2. ~op.startup /\ ~At("down") /\ i \in Spooled /\ base[i] = NoReceipt
  BY <1>1, Facts DEF OpSound, At
<1>3. LogSound' /\ OpSound' /\ CaughtUp'
  BY <1>1, Facts DEF LogSound, OpSound, CaughtUp, At, Active
<1>4. CASE UNCHANGED <<base, session>>
  <2>1. TypeOK'
    BY <1>1, <1>4, Facts DEF TypeOK, Spooled
  <2>2. ReconcileSound'
    BY <1>1, <1>2, <1>4, Facts DEF ReconcileSound, At, Spooled, Told
  <2>3. \A k \in Records : ReceiptSound(k)'
    BY <1>1, <1>2, <1>4, ReceiptsKept DEF Spooled
  <2>4. QED
    BY <1>3, <2>1, <2>2, <2>3 DEF IInv
<1>5. CASE base' = [base EXCEPT ![i] = receipt] /\ session' = [session EXCEPT ![i] = receipt]
  <2>1. receipt \in Receipts /\ (receipt.claims <=> i \in accepted)
    BY Facts, PendingType DEF Receipts, TypeOK
  <2> HIDE DEF receipt
  <2>2. /\ base' \in [Records -> Receipts \cup {NoReceipt}]
        /\ session' \in [Records -> Receipts \cup {NoReceipt}]
        /\ \A k \in Records : ReceiptSound(k)'
        /\ \A k \in Spooled : (base[k] # NoReceipt => Told(k)) => (base'[k] # NoReceipt => Told(k)')
    BY <1>1, <1>2, <1>5, <2>1, FirstReceipt
  <2>3. TypeOK'
    BY <1>1, <2>2, Facts DEF TypeOK, Spooled
  <2>4. ReconcileSound'
    BY <1>1, <1>2, <2>2, Facts DEF ReconcileSound, At, Spooled
  <2>5. QED
    BY <1>3, <2>2, <2>3, <2>4 DEF IInv
<1>6. QED
  BY <1>4, <1>5 DEF JournalReceipt

\* Reconciling a record brings its receipts, in memory and durable, up to date.
LEMMA Reconciled ==
  ASSUME IInv, NEW i \in Spooled, base[i] # NoReceipt, ~At("down"),
         UNCHANGED <<spool, accepted, base>>,
         IF Current(i) THEN UNCHANGED <<upgrades, session>>
         ELSE /\ upgrades' = [upgrades EXCEPT ![i] =
                               IF Recovered(i) \in Range(@) THEN @
                               ELSE Append(@, Recovered(i))]
              /\ session' = [session EXCEPT ![i] = Recovered(i)]
  PROVE  /\ upgrades' \in [Records -> Seq(Receipts)]
         /\ session' \in [Records -> Receipts \cup {NoReceipt}]
         /\ \A k \in Records : k # i => session'[k] = session[k] /\ upgrades'[k] = upgrades[k]
         /\ ReceiptSound(i)' /\ Told(i)'
         /\ Durable(i) # NoReceipt /\ Durable(i).claims => Durable(i)'.claims
<1> DEFINE r == Recovered(i)
<1>1. /\ r \in Receipts /\ r # NoReceipt /\ (r.claims <=> i \in accepted)
      /\ i \in Records /\ TypeOK /\ ReceiptSound(i)
      /\ upgrades \in [Records -> Seq(Receipts)]
      /\ session \in [Records -> Receipts \cup {NoReceipt}]
      /\ upgrades[i] \in Seq(Receipts)
  BY Facts, PendingType DEF TypeOK
<1> HIDE DEF r
<1> DEFINE u == upgrades[i]
<1>2. Durable(i) # NoReceipt /\ Durable(i) \in ReceiptsOf(i)
  BY <1>1, DurableType DEF Durable
<1>3. Durable(i).claims => i \in accepted
  BY <1>1, <1>2 DEF ReceiptSound
<1>4. CASE Current(i)
  <2>1. session[i] = r /\ UNCHANGED <<upgrades, session>>
    BY <1>4 DEF Current, r
  <2>2. ReceiptSound(i)'
    BY <1>1, <2>1, ReceiptKept DEF Spooled
  <2>3. Told(i)'
    BY <1>1, <2>1 DEF Told
  <2>4. Durable(i)' = Durable(i)
    BY <2>1 DEF Durable
  <2>5. QED
    BY <1>1, <2>1, <2>2, <2>3, <2>4
<1>5. CASE ~Current(i)
  <2>1. /\ upgrades' = [upgrades EXCEPT ![i] = IF r \in Range(u) THEN u ELSE Append(u, r)]
        /\ session' = [session EXCEPT ![i] = r]
    BY <1>5 DEF r
  <2>2. Append(u, r) \in Seq(Receipts) /\ Len(Append(u, r)) = Len(u) + 1 /\ Len(u) \in Nat
        /\ DOMAIN u = 1 .. Len(u) /\ DOMAIN Append(u, r) = 1 .. Len(u) + 1
        /\ Append(u, r)[Len(u) + 1] = r
        /\ \A n \in 1 .. Len(u) : Append(u, r)[n] = u[n]
    BY <1>1
  <2>3. /\ upgrades' \in [Records -> Seq(Receipts)]
        /\ session' \in [Records -> Receipts \cup {NoReceipt}]
        /\ session'[i] = r
        /\ \A k \in Records : k # i => session'[k] = session[k] /\ upgrades'[k] = upgrades[k]
        /\ upgrades'[i] = IF r \in Range(u) THEN u ELSE Append(u, r)
    BY <1>1, <2>1, <2>2
  <2>4. /\ \A n \in 1 .. Len(u) : u[n] \in ReceiptsOf(i) /\ u[n] # NoReceipt
        /\ \A n \in 1 .. Len(u) : u[n].claims => i \in accepted
    <3>1. \A n \in 1 .. Len(u) : u[n] \in Range(u) /\ u[n] \in Receipts
      BY <1>1, <2>2 DEF Range
    <3>2. \A n \in 1 .. Len(u) : u[n] \in ReceiptsOf(i)
      BY <3>1 DEF ReceiptsOf
    <3>3. QED
      BY <1>1, <3>1, <3>2 DEF ReceiptSound
  <2>5. Told(i)'
    BY <1>1, <2>3 DEF Told
  <2>6. ReceiptSound(i)' /\ (Durable(i).claims => Durable(i)'.claims)
    <3>1. CASE r \in Range(u)
      <4>1. PICK m \in 1 .. Len(u) : u[m] = r
        BY <2>2, <3>1 DEF Range
      <4>2. upgrades'[i] = u /\ u # <<>> /\ Durable(i)' = u[Len(u)] /\ Durable(i) = u[Len(u)]
        BY <2>2, <2>3, <3>1, <4>1 DEF Durable
      <4>3. u[Len(u)].claims <=> r.claims
        <5>1. r.claims => u[Len(u)].claims
          BY <1>1, <2>2, <4>1 DEF ReceiptSound
        <5>2. u[Len(u)].claims => i \in accepted
          BY <2>2, <2>4, <4>1
        <5>3. QED
          BY <1>1, <5>1, <5>2
      <4>4. ReceiptsOf(i)' \subseteq ReceiptsOf(i) \cup {r}
        BY <2>3, <4>2 DEF ReceiptsOf
      <4>5. \A q \in ReceiptsOf(i)' : q.claims => i \in accepted
        BY <1>1, <4>4 DEF ReceiptSound
      <4>6. session'[i] # NoReceipt /\ (session'[i].claims <=> Durable(i)'.claims)
        BY <1>1, <2>3, <4>2, <4>3
      <4>7. ReceiptSound(i)'
        <5>1. /\ i \notin Spooled' => base'[i] = NoReceipt
              /\ base'[i] = NoReceipt => upgrades'[i] = <<>> /\ session'[i] = NoReceipt
          BY DEF Spooled
        <5>2. /\ \A k, n \in DOMAIN upgrades'[i] :
                   k <= n /\ upgrades'[i][k].claims => upgrades'[i][n].claims
              /\ Claimed(base[i])' => \A n \in DOMAIN upgrades'[i] : upgrades'[i][n].claims
          BY <1>1, <4>2 DEF ReceiptSound, Claimed
        <5>3. QED
          BY <1>1, <4>5, <4>6, <5>1, <5>2 DEF ReceiptSound
      <4>8. QED
        BY <4>2, <4>7
    <3>2. CASE r \notin Range(u)
      <4>1. upgrades'[i] = Append(u, r) /\ Append(u, r) # <<>> /\ Durable(i)' = r
        <5>1. upgrades'[i] = Append(u, r) /\ Append(u, r) # <<>>
          BY <2>2, <2>3, <3>2
        <5>2. Durable(i)' = upgrades'[i][Len(upgrades'[i])]
          BY <5>1 DEF Durable
        <5>3. QED
          BY <2>2, <5>1, <5>2
      <4>2. Range(Append(u, r)) \subseteq Range(u) \cup {r}
        BY <2>2 DEF Range
      <4>3. ReceiptsOf(i)' \subseteq ReceiptsOf(i) \cup {r}
        BY <2>3, <4>1, <4>2 DEF ReceiptsOf
      <4>4. \A n \in 1 .. Len(u) + 1 :
              Append(u, r)[n].claims <=> (IF n \in 1 .. Len(u) THEN u[n].claims ELSE r.claims)
        BY <2>2
      <4>5. \A m, n \in 1 .. Len(u) + 1 :
              m <= n /\ Append(u, r)[m].claims => Append(u, r)[n].claims
        <5>1. \A m, n \in 1 .. Len(u) : m <= n /\ u[m].claims => u[n].claims
          BY <1>1, <2>2 DEF ReceiptSound
        <5>2. \A m \in 1 .. Len(u) : u[m].claims => r.claims
          BY <1>1, <2>4
        <5>3. ASSUME NEW m \in 1 .. Len(u) + 1, NEW n \in 1 .. Len(u) + 1,
                     m <= n, Append(u, r)[m].claims
              PROVE  Append(u, r)[n].claims
          <6>1. CASE n \in 1 .. Len(u)
            <7>1. m \in 1 .. Len(u)
              BY <2>2, <5>3, <6>1
            <7>2. QED
              BY <4>4, <5>1, <5>3, <6>1, <7>1
          <6>2. CASE n \notin 1 .. Len(u)
            BY <4>4, <5>2, <5>3, <6>2
          <6>3. QED
            BY <6>1, <6>2
        <5>4. QED
          BY <5>3
      <4>6. Claimed(base[i]) => \A n \in 1 .. Len(u) + 1 : Append(u, r)[n].claims
        <5>1. Claimed(base[i]) => r.claims /\ \A n \in 1 .. Len(u) : u[n].claims
          BY <1>1, <2>2 DEF ReceiptSound, Claimed, ReceiptsOf
        <5>2. QED
          BY <2>2, <4>4, <5>1
      <4>7. QED
        BY <1>1, <1>3, <2>2, <2>3, <4>1, <4>3, <4>5, <4>6 DEF ReceiptSound, Spooled
    <3>3. QED
      BY <3>1, <3>2
  <2>7. QED
    BY <1>2, <2>3, <2>5, <2>6
<1>6. QED
  BY <1>4, <1>5

LEMMA ReconcileReceiptSound == IInv /\ ReconcileReceipt => IInv'
<1> SUFFICES ASSUME IInv, ReconcileReceipt PROVE IInv'
  OBVIOUS
<1>0. PICK i \in Spooled : i = op.at
  BY DEF ReconcileReceipt
<1>1. /\ op.step = "reconcile" /\ Goto("reconcile", i + 1)
      /\ UNCHANGED <<spool, accepted, verified, base, provider, connected, state>>
      /\ IF Current(i) THEN UNCHANGED <<upgrades, session>>
         ELSE /\ upgrades' = [upgrades EXCEPT ![i] =
                               IF Recovered(i) \in Range(@) THEN @
                               ELSE Append(@, Recovered(i))]
              /\ session' = [session EXCEPT ![i] = Recovered(i)]
  BY <1>0 DEF ReconcileReceipt, At
<1>2. op.startup /\ ~At("down") /\ base[i] # NoReceipt /\ i \in Nat /\ i >= 1
      /\ i + 1 \in 0 .. MaxRecords + 1
  <2>1. i \in 1 .. Len(spool) /\ Len(spool) \in Nat /\ Len(spool) <= MaxRecords
    BY Facts
  <2>2. op.startup /\ ~At("down") /\ base[i] # NoReceipt
    BY <1>1, Facts DEF OpSound, ReconcileSound, At
  <2>3. QED
    BY <2>1, <2>2
<1>3. op' \in Ops /\ op'.step = "reconcile" /\ op'.at = i + 1 /\ op'.startup
  BY <1>1, <1>2, Facts, Going
<1>4. /\ upgrades' \in [Records -> Seq(Receipts)]
      /\ session' \in [Records -> Receipts \cup {NoReceipt}]
      /\ \A k \in Records : k # i => session'[k] = session[k] /\ upgrades'[k] = upgrades[k]
      /\ ReceiptSound(i)' /\ Told(i)'
  BY <1>1, <1>2, Reconciled
<1>5. TypeOK'
  BY <1>1, <1>3, <1>4, Facts DEF TypeOK, Spooled
<1>6. LogSound' /\ OpSound' /\ CaughtUp'
  BY <1>1, <1>2, <1>3, Facts DEF LogSound, OpSound, CaughtUp, At, Active
<1>7. ReconcileSound'
  <2>1. \A k \in Spooled : k < i => Told(k)
    BY <1>1, Facts, <1>0 DEF ReconcileSound, At
  <2>2. ASSUME NEW k \in Spooled, k < i + 1 PROVE Told(k)'
    <3>1. k \in Nat /\ k \in Records
      BY Facts
    <3>2. CASE k = i
      BY <1>4, <3>2
    <3>3. CASE k # i
      <4>1. k < i
        BY <1>2, <2>2, <3>1, <3>3
      <4>2. QED
        BY <1>1, <1>4, <2>1, <3>1, <3>3, <4>1 DEF Told
    <3>4. QED
      BY <3>2, <3>3
  <2>3. QED
    BY <1>1, <1>2, <1>3, <2>2, Facts DEF ReconcileSound, At, Spooled
<1>8. ASSUME NEW k \in Records PROVE ReceiptSound(k)'
  <2>1. CASE k = i
    BY <1>4, <2>1
  <2>2. CASE k # i
    <3>1. ReceiptSound(k) /\ Spooled \subseteq Spooled' /\ accepted \subseteq accepted'
      BY <1>1, Facts DEF Spooled
    <3>2. base'[k] = base[k] /\ upgrades'[k] = upgrades[k] /\ session'[k] = session[k]
      BY <1>1, <1>4, <2>2
    <3>3. QED
      BY <1>2, <3>1, <3>2, ReceiptKept
  <2>3. QED
    BY <2>1, <2>2
<1>9. QED
  BY <1>5, <1>6, <1>7, <1>8 DEF IInv

-----------------------------------------------------------------------------
LEMMA StepSound == IInv /\ [Next]_vars => IInv'
<1> SUFFICES ASSUME IInv, [Next]_vars PROVE IInv'
  OBVIOUS
<1>1. CASE UNCHANGED vars
  <2>1. UNCHANGED <<spool, accepted, verified, base, upgrades, provider, connected, state,
                    session, op>>
    BY <1>1 DEF vars
  <2>2. TypeOK' /\ LogSound' /\ OpSound' /\ CaughtUp' /\ ReconcileSound'
    BY <2>1, Facts DEF TypeOK, LogSound, OpSound, CaughtUp, ReconcileSound, Spooled, At,
                      Active, Told
  <2>3. ASSUME NEW i \in Records PROVE ReceiptSound(i)'
    BY <2>1, Facts DEF ReceiptSound, ReceiptsOf, Durable, Claimed, Spooled, At
  <2>4. QED
    BY <2>2, <2>3 DEF IInv
<1>2. CASE Next
  BY <1>2, CrashSound, StartSound, RefilledSound, ConnectSound, FlushPendingSound,
     ConfirmSound, FlushedSound, PublishSound, AcceptSound, JournalReceiptSound,
     AppendRaisesSound, ReconcileReceiptSound, ServeSound, RefillSound,
     VerifyEventSound, AppendRecordSound
     DEF Next
<1>3. QED
  BY <1>1, <1>2

LEMMA Invariance == Spec => []IInv
<1>1. Init => IInv
  BY InitSound
<1>2. IInv /\ [Next]_vars => IInv'
  BY StepSound
<1>3. QED
  BY <1>1, <1>2, PTL DEF Spec

\* Receipts, in memory and durable, current and superseded, claim only deliveries
\* the spool can prove, and all of them once a start has reconciled
\* (telemetry/laserdata.py:444).
THEOREM DeliveryAlwaysTruthful == Spec => []DeliveryTruthful
<1>1. IInv => DeliveryTruthful
  <2> SUFFICES ASSUME IInv PROVE DeliveryTruthful
    OBVIOUS
  <2>1. ReceiptsTruthful
    <3>1. verified \subseteq accepted /\ accepted \subseteq Range(provider)
      BY Facts DEF LogSound
    <3>2. \A i \in Records : \A r \in ReceiptsOf(i) : r.claims => i \in accepted
      BY Facts DEF ReceiptSound
    <3>3. QED
      BY <3>1, <3>2 DEF ReceiptsTruthful
  <2>2. ClaimsComplete
    <3>1. SUFFICES ASSUME At("idle"), NEW i \in Spooled, base[i] # NoReceipt
                   PROVE  /\ session[i].claims = (i \in accepted)
                          /\ Durable(i).claims = (i \in accepted)
      BY Zenon DEF ClaimsComplete
    <3>2. Told(i) /\ ReceiptSound(i) /\ TypeOK /\ i \in Records
      BY <3>1, Facts DEF ReconcileSound, OpSound, At
    <3>3. session[i] \in Receipts /\ Durable(i) \in Receipts
      BY <3>2, <3>1, DurableType DEF TypeOK, Told, Durable
    <3>4. /\ session[i].claims \in BOOLEAN /\ Durable(i).claims \in BOOLEAN
      BY <3>3 DEF Receipts
    <3>5. /\ session[i].claims <=> i \in accepted
          /\ Durable(i).claims <=> i \in accepted
      BY <3>1, <3>2 DEF Told, ReceiptSound, At
    <3>6. QED
      BY <3>4, <3>5
  <2>3. QED
    BY <2>1, <2>2, Facts DEF DeliveryTruthful
<1>2. QED
  BY <1>1, Invariance, PTL

\* Acceptances and verifications are for good, and what a record's durable receipt
\* claims with them.
LEMMA Kept ==
  ASSUME IInv, [Next]_vars
  PROVE  /\ \A i \in Records : Durable(i) # NoReceipt /\ Durable(i).claims => Durable(i)'.claims
         /\ accepted \subseteq accepted' /\ verified \subseteq verified'
<1>1. accepted \subseteq accepted' /\ verified \subseteq verified'
  BY DEF Next, Crash, Start, Refilled, Connect, FlushPending, Confirm, Flushed, Publish,
         Accept, JournalReceipt, AppendRaises, ReconcileReceipt, Serve, Refill, VerifyEvent,
         AppendRecord, vars, durable
<1>2. ASSUME NEW i \in Records, Durable(i) # NoReceipt, Durable(i).claims
      PROVE  Durable(i)'.claims
  <2>1. base[i] # NoReceipt
    BY <1>2, Facts DEF ReceiptSound, Durable
  <2>2. CASE UNCHANGED <<base, upgrades>>
    BY <1>2, <2>2 DEF Durable
  <2>3. CASE \E k \in Records : Refill(k)
    <3>1. PICK k \in Records : Refill(k)
      BY <2>3
    <3>2. upgrades' = upgrades /\ base' = [base EXCEPT ![k] = Recovered(k)] /\ k # i
      BY <2>1, <3>1 DEF Refill
    <3>3. base'[i] = base[i]
      BY <3>2, Facts DEF TypeOK
    <3>4. QED
      BY <1>2, <3>2, <3>3 DEF Durable
  <2>4. CASE JournalReceipt
    <3>1. upgrades' = upgrades /\ op.at \in Spooled /\ base[op.at] = NoReceipt
      BY <2>4, Facts DEF JournalReceipt, OpSound, At
    <3>2. base'[i] = base[i]
      BY <2>1, <2>4, <3>1, Facts DEF JournalReceipt, TypeOK
    <3>3. QED
      BY <1>2, <3>1, <3>2 DEF Durable
  <2>5. CASE ReconcileReceipt
    <3>1. PICK k \in Spooled : k = op.at
      BY <2>5 DEF ReconcileReceipt
    <3>2. base[k] # NoReceipt /\ ~At("down")
      BY <2>5, <3>1, Facts DEF ReconcileReceipt, OpSound, ReconcileSound, At
    <3>3. /\ \A j \in Records : j # k => upgrades'[j] = upgrades[j]
          /\ Durable(k) # NoReceipt /\ Durable(k).claims => Durable(k)'.claims
      BY <2>5, <3>1, <3>2, Reconciled DEF ReconcileReceipt
    <3>4. CASE i = k
      BY <1>2, <3>3, <3>4
    <3>5. CASE i # k
      <4>1. upgrades'[i] = upgrades[i] /\ base' = base
        BY <2>5, <3>3, <3>5 DEF ReconcileReceipt
      <4>2. QED
        BY <1>2, <4>1 DEF Durable
    <3>6. QED
      BY <3>4, <3>5
  <2>6. QED
    BY <2>2, <2>3, <2>4, <2>5
       DEF Next, Crash, Start, Refilled, Connect, FlushPending, Confirm, Flushed, Publish,
           Accept, AppendRaises, Serve, VerifyEvent, AppendRecord, vars, durable
<1>3. QED
  BY <1>1, <1>2

\* Every step appends to the spool, delivers the next record, or leaves both alone.
LEMMA Delivers == IInv /\ [Next]_vars => [Outbox!Next]_<<spool, provider>>
<1> SUFFICES ASSUME IInv, [Next]_vars, ~UNCHANGED <<spool, provider>>
             PROVE  Outbox!Next
  OBVIOUS
<1>1. CASE Publish
  <2>1. /\ op.at = Len(provider) + 1 /\ op.at \in Spooled /\ provider' = Append(provider, op.at)
        /\ spool' = spool
    BY <1>1, Facts DEF Publish, OpSound, At, durable
  <2>2. Len(provider) < Len(spool)
    BY <2>1, Facts
  <2>3. QED
    BY <2>1, <2>2 DEF Outbox!Next, Outbox!Deliver
<1>2. CASE \E e \in Episodes : AppendRecord(e)
  BY <1>2 DEF AppendRecord, Outbox!Next, Outbox!Record
<1>3. QED
  BY <1>1, <1>2
     DEF Next, Crash, Start, Refilled, Connect, FlushPending, Confirm, Flushed, Accept,
         JournalReceipt, AppendRaises, ReconcileReceipt, Serve, Refill, VerifyEvent, vars, durable

\* Acceptance is for good, and the provider's log is the spool in order, each
\* record once: delivery implements the ordered outbox (telemetry/laserdata.py:497).
THEOREM DeliveryIsOrdered == Spec => DeliveryOrdered
<1>1. Init => Outbox!Init
  BY DEF Init, Outbox!Init
<1>2. IInv /\ [Next]_vars =>
        [/\ \A i \in Records :
              Durable(i) # NoReceipt /\ Durable(i).claims => Durable(i)'.claims
         /\ accepted \subseteq accepted' /\ verified \subseteq verified']_durable
  BY Kept
<1>3. IInv /\ [Next]_vars => [Outbox!Next]_<<spool, provider>>
  BY Delivers
<1>4. QED
  BY <1>1, <1>2, <1>3, Invariance, PTL
     DEF Spec, DeliveryOrdered, NeverDowngraded, OrderedOutbox, Outbox!Spec
=============================================================================
