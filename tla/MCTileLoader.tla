---------------------------- MODULE MCTileLoader ----------------------------
(* Instances of TileLoader for TLC: two providers, two coords, up to three *)
(* requests.                                                               *)
EXTENDS TileLoader, TLC

CONSTANTS t1, t2, t3, p1, p2, a, b

(* The map is moved; another provider is chosen.                           *)
MCView ==
  {[provider |-> p1, coords |-> {a, b}], [provider |-> p1, coords |-> {a}],
   [provider |-> p2, coords |-> {a}]}

(* The map is moved back and forth.                                        *)
MCPan ==
  {[provider |-> p1, coords |-> {a, b}], [provider |-> p1, coords |-> {a}]}

MCTask == {t1, t2, t3}
MCSymmetry == Permutations(MCTask)
=============================================================================
