---------------------------- MODULE MCTileCacher ----------------------------
(* Instances of TileCacher for TLC: three tiles, two loading threads.      *)
EXTENDS TileCacher, TLC

CONSTANTS t1, t2, t3, l1, l2

MCTile == {t1, t2, t3}
MCLoader == {l1, l2}
=============================================================================
