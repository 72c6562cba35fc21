------------------------ MODULE MCEpisodeLifecycle ------------------------
(* Episodes of one world, as interchangeable model values.                  *)
EXTENDS EpisodeLifecycle, TLC

EpisodeSymmetry == Permutations(Episodes)
=============================================================================
