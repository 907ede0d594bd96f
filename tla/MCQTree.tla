------------------------------- MODULE MCQTree -------------------------------
EXTENDS QTree, TLC

Box(l, r, b, t) == [left |-> l, right |-> r, top |-> t, bottom |-> b]
Point(x, y) == Box(x, x, y, y)

(* In 0..16 x 0..16: two points of the same corner, one at the horizontal  *)
(* middle, one that crosses the vertical one; outside, to both sides.      *)
MCRect ==
  {Point(0, 0), Point(4, 12), Point(0, 8), Box(4, 12, 0, 4), Box(-8, 0, 16, 24),
   Point(24, 4)}

(* All of the boxes, and points between them.                              *)
MCQuery == MCRect \cup {Point(x, y) : x \in {-8, 8, 12}, y \in {4, 16}}

(* Of an empty shapefile, of one with one point, with a line, and others.  *)
MCFirstExtent == {Zero, Point(4, 12), Box(0, 16, 0, 0), Box(0, 16, 0, 16)}

Numbers == Permutations(Number)
=============================================================================
