--------------------------- MODULE MCTilePrefetch ---------------------------
(* TilePrefetch with a few tasks, which may be exchanged for one another.  *)
EXTENDS TilePrefetch, TLC

MCSymmetry == Permutations(Task)
=============================================================================
