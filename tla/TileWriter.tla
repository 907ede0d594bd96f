----------------------------- MODULE TileWriter -----------------------------
(* What the disk cacher of the tiles promises: it accepts each tile once   *)
(* and handles them in that order; a tile it handles is written to the     *)
(* database or given up.                                                   *)
EXTENDS Naturals, Sequences

CONSTANT Tile

VARIABLES
  accepted,  \* the tiles given to the cacher, in order
  handled,   \* those it is done with, in order
  written    \* those it has written

vars == <<accepted, handled, written>>

Init == accepted = <<>> /\ handled = <<>> /\ written = {}

Accept(t) ==
  /\ \A i \in 1..Len(accepted) : accepted[i] # t
  /\ accepted' = Append(accepted, t)
  /\ UNCHANGED <<handled, written>>

Handle ==
  /\ Len(handled) < Len(accepted)
  /\ LET t == accepted[Len(handled) + 1]
     IN /\ handled' = Append(handled, t)
        /\ written' \in {written, written \cup {t}}
  /\ UNCHANGED accepted

Next == (\E t \in Tile : Accept(t)) \/ Handle

Spec == Init /\ [][Next]_vars
=============================================================================
