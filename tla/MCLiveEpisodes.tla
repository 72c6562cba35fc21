--------------------------- MODULE MCLiveEpisodes ---------------------------
(* A finite instance of LiveEpisodes: the second frame is the largest.        *)
EXTENDS LiveEpisodes

SomeFrameBytes == [i \in 0 .. 100 |-> IF i = 1 THEN 2 ELSE 1]
=============================================================================
