----------------------------- MODULE ShapeIndex -----------------------------
(***************************************************************************)
(* What a spatial index of shapes promises: it has the nodes that were     *)
(* added and not removed, each as often as it was added.  ShapefileEdit    *)
(* has such an index; QTree implements it.                                 *)
(***************************************************************************)
EXTENDS Naturals, Bags

CONSTANTS Nodes \* nodes: an index and the box of a shape

VARIABLES
  content, \* the nodes of the index, a bag
  changes  \* the calls that changed it

indexVars == <<content, changes>>

Init == content = EmptyBag /\ changes = 0

With(c, n) == c (+) SetToBag({n})

(* Without one of the nodes with index i, if there is any.                 *)
Without(c, i) ==
  LET old == {n \in BagToSet(c) : n.index = i}
  IN IF old = {} THEN {c} ELSE {c (-) SetToBag({n}) : n \in old}

AddNode(n) == content' = With(content, n)
Reregister(n) == content' \in {With(c, n) : c \in Without(content, n.index)}

Next ==
  /\ \E n \in Nodes : AddNode(n) \/ Reregister(n)
  /\ changes' = changes + 1

Spec == Init /\ [][Next]_indexVars
=============================================================================
