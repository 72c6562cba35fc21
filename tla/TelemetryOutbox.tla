--------------------------- MODULE TelemetryOutbox ---------------------------
(***************************************************************************)
(* What the telemetry outbox promises: episode records are appended to the  *)
(* durable spool and reach the provider's log exactly once and in the order *)
(* they were recorded, however late.  TelemetryDelivery implements it.      *)
(***************************************************************************)
EXTENDS Naturals, Sequences

CONSTANT Episodes

VARIABLES spool,    \* the episode of each record, in recording order
          provider  \* the provider's log: positions in the spool

Init == spool = <<>> /\ provider = <<>>

Record(e) == spool' = Append(spool, e) /\ UNCHANGED provider

Deliver ==
  /\ Len(provider) < Len(spool)
  /\ provider' = Append(provider, Len(provider) + 1)
  /\ UNCHANGED spool

Next == Deliver \/ \E e \in Episodes : Record(e)

Spec == Init /\ [][Next]_<<spool, provider>>
=============================================================================
