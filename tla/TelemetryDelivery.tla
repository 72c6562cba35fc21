-------------------------- MODULE TelemetryDelivery --------------------------
(***************************************************************************)
(* Telemetry on its way to LaserData: LaserDataTelemetryBackend             *)
(* (telemetry/laserdata.py) over the durable spool (telemetry/durable.py),  *)
(* and the delivery receipts that EpisodeService keeps of it in memory and  *)
(* in the coordinator (episodes/service.py, coordinator/store.py).          *)
(*                                                                         *)
(* The backend's lock, inside the episode service's, lets one operation run *)
(* at a time; it is cut at every await and every durable commit.  The       *)
(* process may crash anywhere.  A start restores the receipts, refills the  *)
(* missing ones, connects, flushes the outbox and reconciles the receipts.  *)
(*                                                                         *)
(* Abstracted: a record is its row in the spool and is known by its episode *)
(* only; its sequence is how many records of the episode precede it.  The   *)
(* provider is external: a publish that raises or times out may have reached*)
(* its log, and reading the log back may raise.                             *)
(***************************************************************************)
EXTENDS Integers, Sequences, FiniteSets, FiniteSetsExt, Functions

CONSTANTS Episodes,
          MaxRecords,  \* bound: rows in the spool
          Settings,    \* with or without a connection string, at each start
          NoReceipt

States == {"unconfigured", "configured", "healthy", "degraded", "verified"}
Records == 1 .. MaxRecords
\* EpisodeAppendReceipt: claims is delivery = laserdata_and_durable_cache.
Receipts == [claims : BOOLEAN, state : States, pending : 0 .. MaxRecords]

ASSUME TelemetryAssumption ==
  /\ MaxRecords \in Nat
  /\ Settings \subseteq {"configured", "unconfigured"}
  /\ NoReceipt \notin Receipts

VARIABLES spool,      \* telemetry_records: the episode of each row
          accepted,   \* provider_delivery_receipts
          verified,   \* provider_verifications
          base,       \* training_episode_receipts
          upgrades,   \* training_episode_receipt_deliveries
          provider,   \* the provider's log (external)
          connected,  \* LaserDataTelemetryBackend._transport is not None
          state,      \* LaserDataTelemetryBackend._state
          session,    \* the receipts of the in-memory sessions
          op          \* the operation holding the lock

durable == <<spool, accepted, verified, base, upgrades>>
vars == <<spool, accepted, verified, base, upgrades, provider, connected,
          state, session, op>>

-----------------------------------------------------------------------------
\* at is the record an operation works on, startup whether it is part of the
\* process start.
Ops == [step : {"down", "idle", "refill", "connect", "flush", "confirm",
                "publish", "accept", "receipt", "reconcile"},
        at : 0 .. MaxRecords + 1, startup : BOOLEAN]
Idle == [step |-> "idle", at |-> 0, startup |-> FALSE]
Down == [step |-> "down", at |-> 0, startup |-> FALSE]
At(step) == op.step = step
Goto(step, i) == op' = [op EXCEPT !.step = step, !.at = i]

Spooled == DOMAIN spool
InProvider(i) == i \in Range(provider)
Before(i) == {j \in Spooled : j < i /\ spool[j] = spool[i]}

\* Mutant: the record just appended is not counted.
PendingBefore == Len(spool) - Cardinality(accepted) - 1
Pending == Len(spool) - Cardinality(accepted)

Active == connected /\ state \in {"healthy", "verified"}

\* Mutants: acceptance is read off the provider's present state.
RecoveredOptimistic(i) ==
  [claims |-> i \in accepted \/ Active, state |-> state, pending |-> Pending]
RecoveredPessimistic(i) ==
  [claims |-> i \in accepted /\ Active, state |-> state, pending |-> Pending]

\* recover_append_result: the receipt the spool can vouch for.
Recovered(i) ==
  [claims  |-> i \in accepted,
   state   |-> IF i \notin accepted THEN state
               ELSE IF i \in verified THEN "verified" ELSE "healthy",
   pending |-> Pending]

\* training_episode_receipts: the latest upgrade, else the base receipt.
Durable(i) == IF upgrades[i] # <<>> THEN upgrades[i][Len(upgrades[i])] ELSE base[i]

Init ==
  /\ spool = <<>> /\ accepted = {} /\ verified = {}
  /\ base = [i \in Records |-> NoReceipt]
  /\ upgrades = [i \in Records |-> <<>>]
  /\ provider = <<>>
  /\ connected = FALSE
  /\ state = "configured"
  /\ session = [i \in Records |-> NoReceipt]
  /\ op = Down

-----------------------------------------------------------------------------
Crash ==
  /\ ~At("down")
  /\ op' = Down
  /\ connected' = FALSE
  /\ state' = "configured"
  /\ session' = [i \in Records |-> NoReceipt]
  /\ UNCHANGED <<durable, provider>>

\* The process starts and restores the receipts of its sessions.
Start ==
  /\ At("down")
  /\ state' \in Settings
  /\ session' = [i \in Records |-> Durable(i)]
  /\ op' = [step |-> "refill", at |-> 0, startup |-> TRUE]
  /\ UNCHANGED <<durable, provider, connected>>

\* _reconcile_unjournaled_receipts, one transaction per receipt, at start and
\* in the calls that find receipts missing.
Refill(i) ==
  /\ op.step \in {"refill", "idle"}
  /\ i \in Spooled
  /\ base[i] = NoReceipt
  /\ \A j \in Before(i) : base[j] # NoReceipt
  /\ base' = [base EXCEPT ![i] = Recovered(i)]
  /\ session' = [session EXCEPT ![i] = Recovered(i)]
  /\ UNCHANGED <<spool, accepted, verified, upgrades, provider, connected,
                 state, op>>

Refilled ==
  /\ At("refill")
  /\ \A i \in Spooled : base[i] # NoReceipt
  /\ IF state = "unconfigured" THEN Goto("reconcile", 1) ELSE Goto("connect", 0)
  /\ UNCHANGED <<durable, provider, connected, state, session>>

\* _mark_degraded and _close_transport_locked
Degrade == connected' = FALSE /\ state' = "degraded"

\* initialize
Connect ==
  /\ At("connect")
  /\ \/ /\ connected' = TRUE
        /\ state' = "healthy"
        /\ Goto("flush", 0)
     \/ Degrade /\ Goto("reconcile", 1)
  /\ UNCHANGED <<durable, provider, session>>

\* Mutant: the newest record first.
NextPendingNewest == Max(Spooled \ accepted)

\* pending_envelopes, in the order of their rows
NextPending == Min(Spooled \ accepted)
Found(i) == InProvider(i)

\* _flush_pending_locked and _recover_pending_locked: what the provider has is
\* marked instead of published again.
FlushPending ==
  /\ At("flush")
  /\ Spooled \ accepted # {}
  /\ LET i == NextPending IN
       \/ /\ Found(i)
          /\ accepted' = accepted \cup {i}
          /\ Goto("confirm", i)
          /\ UNCHANGED <<connected, state>>
       \/ /\ ~Found(i)
          /\ Goto("publish", i)
          /\ UNCHANGED <<accepted, connected, state>>
       \/ /\ Degrade
          /\ Goto("reconcile", 1)
          /\ UNCHANGED accepted
  /\ UNCHANGED <<spool, verified, base, upgrades, provider, session>>

Confirm ==
  /\ At("confirm")
  /\ verified' = verified \cup {op.at}
  /\ state' = "verified"
  /\ Goto("flush", 0)
  /\ UNCHANGED <<spool, accepted, base, upgrades, provider, connected, session>>

Flushed ==
  /\ At("flush")
  /\ Spooled \subseteq accepted
  /\ Goto("reconcile", 1)
  /\ UNCHANGED <<durable, provider, connected, state, session>>

\* append: the record is durable before the provider is called.
AppendRecord(e) ==
  /\ At("idle")
  /\ Len(spool) < MaxRecords
  /\ spool' = Append(spool, e)
  /\ Goto(IF Active THEN "publish" ELSE "receipt", Len(spool) + 1)
  /\ UNCHANGED <<accepted, verified, base, upgrades, provider, connected,
                 state, session>>

\* _publish_locked: the provider accepts, or the call raises or times out with
\* or without the record in the provider's log. It catches no cancellation: a
\* task cancelled here would leave the state healthy and the record unsent
\* behind later ones. No caller cancels an append; the process ending is Crash.
Publish ==
  /\ At("publish")
  /\ \/ /\ provider' = Append(provider, op.at)
        /\ Goto("accept", op.at)
        /\ UNCHANGED <<connected, state>>
     \/ /\ provider' \in {provider, Append(provider, op.at)}
        /\ Degrade
        /\ IF op.startup THEN Goto("reconcile", 1) ELSE Goto("receipt", op.at)
  /\ UNCHANGED <<durable, session>>

\* mark_provider_accepted
Accept ==
  /\ At("accept")
  /\ accepted' = accepted \cup {op.at}
  /\ IF op.startup THEN Goto("flush", 0) ELSE Goto("receipt", op.at)
  /\ UNCHANGED <<spool, verified, base, upgrades, provider, connected, state,
                 session>>

\* record_training_episode_receipt takes contiguous receipts only.
JournalReceipt ==
  /\ At("receipt")
  /\ IF \A j \in Before(op.at) : base[j] # NoReceipt
     THEN LET receipt == [claims |-> op.at \in accepted, state |-> state,
                          pending |-> Pending] IN
          /\ base' = [base EXCEPT ![op.at] = receipt]
          /\ session' = [session EXCEPT ![op.at] = receipt]
     ELSE UNCHANGED <<base, session>>
  /\ op' = Idle
  /\ UNCHANGED <<spool, accepted, verified, upgrades, provider, connected, state>>

\* The spool or the coordinator cannot commit: the append raises.  While the
\* process starts, it ends the process, see Crash.
AppendRaises ==
  /\ op.step \in {"accept", "receipt"}
  /\ ~op.startup
  /\ op' = Idle
  /\ UNCHANGED <<durable, provider, connected, state, session>>

\* verify_event: the exact event is read back.
VerifyEvent(i) ==
  /\ At("idle")
  /\ Active
  /\ i \in accepted
  /\ \/ Degrade /\ UNCHANGED verified
     \/ /\ IF InProvider(i)
           THEN verified' = verified \cup {i} /\ state' = "verified"
           ELSE UNCHANGED verified /\ state' = "healthy"
        /\ UNCHANGED connected
  /\ UNCHANGED <<spool, accepted, base, upgrades, provider, session, op>>

\* Mutant: receipts that differ in nothing but the provider's answer are equal.
CurrentCount(i) == session[i].pending = Recovered(i).pending
Current(i) == session[i] = Recovered(i)

\* _reconcile_provider_receipts, one transaction per record.  A receipt equal to
\* any earlier upgrade of the record is not appended again.
ReconcileReceipt ==
  /\ At("reconcile")
  /\ op.at \in Spooled
  /\ IF Current(op.at) THEN UNCHANGED <<upgrades, session>>
     ELSE /\ upgrades' = [upgrades EXCEPT ![op.at] =
                           IF Recovered(op.at) \in Range(@) THEN @
                           ELSE Append(@, Recovered(op.at))]
          /\ session' = [session EXCEPT ![op.at] = Recovered(op.at)]
  /\ Goto("reconcile", op.at + 1)
  /\ UNCHANGED <<spool, accepted, verified, base, provider, connected, state>>

Serve ==
  /\ At("reconcile")
  /\ op.at \notin Spooled
  /\ op' = Idle
  /\ UNCHANGED <<durable, provider, connected, state, session>>

Next ==
  \/ Crash \/ Start \/ Refilled \/ Connect \/ FlushPending \/ Confirm \/ Flushed
  \/ Publish \/ Accept \/ JournalReceipt \/ AppendRaises
  \/ ReconcileReceipt \/ Serve
  \/ \E i \in Records : Refill(i) \/ VerifyEvent(i)
  \/ \E e \in Episodes : AppendRecord(e)

Spec == Init /\ [][Next]_vars

-----------------------------------------------------------------------------
\* Every variable has its type.
TypeOK ==
  /\ spool \in Seq(Episodes) /\ Len(spool) \in 0 .. MaxRecords
  /\ accepted \subseteq Spooled /\ verified \subseteq Spooled
  /\ base \in [Records -> Receipts \cup {NoReceipt}]
  /\ upgrades \in [Records -> Seq(Receipts)]
  /\ provider \in Seq(Records)
  /\ connected \in BOOLEAN
  /\ state \in States
  /\ session \in [Records -> Receipts \cup {NoReceipt}]
  /\ op \in Ops

\* No receipt, in memory or durable, current or superseded, claims a delivery
\* the spool cannot prove, and the spool proves none the provider does not have.
ReceiptsOf(i) == ({base[i], session[i]} \cup Range(upgrades[i])) \ {NoReceipt}
ReceiptsTruthful ==
  /\ verified \subseteq accepted
  /\ accepted \subseteq Range(provider)
  /\ \A i \in Records : \A r \in ReceiptsOf(i) : r.claims => i \in accepted

\* Once a start has reconciled, and from then on, the sessions and the durable
\* receipts claim delivery for exactly the records known to be accepted.
ClaimsComplete ==
  At("idle") => \A i \in Spooled : base[i] # NoReceipt =>
    session[i].claims = (i \in accepted) /\ Durable(i).claims = (i \in accepted)

\* The durable receipt of a record never goes back from accepted to local only,
\* and acceptances and verifications are never withdrawn.
NeverDowngraded ==
  [][/\ \A i \in Records :
          Durable(i) # NoReceipt /\ Durable(i).claims => Durable(i)'.claims
     /\ accepted \subseteq accepted' /\ verified \subseteq verified']_durable

\* Delivery implements the ordered, exactly-once outbox.
Outbox == INSTANCE TelemetryOutbox
OrderedOutbox == Outbox!Spec

\* Receipts tell the truth about delivery: they claim what the spool can prove and,
\* once a start has reconciled, all of it (telemetry/laserdata.py:444).
DeliveryTruthful == TypeOK /\ ReceiptsTruthful /\ ClaimsComplete

\* Acceptance is for good, and delivery implements the ordered outbox
\* (telemetry/laserdata.py:497).
DeliveryOrdered == NeverDowngraded /\ OrderedOutbox
=============================================================================
