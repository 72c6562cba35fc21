---------------------------- MODULE MCGraphMemory ----------------------------
(* Finite instances of GraphMemory: a world, the same world with another      *)
(* content, and an episode in the world.                                      *)
EXTENDS GraphMemory, TLC

CONSTANTS world, otherWorld, episode

ThreeFacts == {world, otherWorld, episode}
IdentityOf == [f \in Facts |-> IF f = otherWorld THEN world ELSE f]
NeedsOf == [f \in Facts |-> IF f = episode THEN {world} ELSE {}]

\* An append that raises: with nothing written, with its line durable or with part
\* of its line written. Separately: only the last.
AnyFault == [f \in Facts |-> {"lost", "kept", "torn"}]
TornFaults == [f \in Facts |-> {"torn"}]

ThreadSymmetry == Permutations(Threads)
=============================================================================
