------------------------ MODULE MCTelemetryDelivery ------------------------
(* Finite instances of TelemetryDelivery.                                   *)
EXTENDS TelemetryDelivery, TLC

EpisodeSymmetry == Permutations(Episodes)
=============================================================================
