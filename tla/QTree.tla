-------------------------------- MODULE QTree --------------------------------
(***************************************************************************)
(* The quadtree of bounding boxes (src/Processing/QTree.cpp), as a         *)
(* shapefile uses it while its shapes are edited.  A tree keeps up to      *)
(* MAX_LEAF_NODES nodes, then those that cross its middle; others go to    *)
(* one of its corners.  It grows to twice its extent when a node is        *)
(* outside.                                                                *)
(*                                                                         *)
(* The trees are numbered as they are made, the nodes as they are put in   *)
(* the vectors of trees; the first tree is m_qtree, and no tree is 0.      *)
(* AddNode calls itself: calls has those that have not returned, and a     *)
(* step is one of them.  Coordinates are integers; the sets chosen for TLC *)
(* are such that the middles are integers, too.                            *)
(***************************************************************************)
EXTENDS Integers, Sequences, SequencesExt, FiniteSets

CONSTANTS
  Number,         \* indices of shapes
  Rect,           \* their bounding boxes
  Query,          \* the boxes that are asked for
  FirstExtent,    \* extents of the shapefile when editing starts
  MAX_LEAF_NODES,
  MaxSteps        \* bound on the calls

Corners == {"LT", "RT", "LB", "RB"}
Extent == [left : Int, right : Int, top : Int, bottom : Int]
QNode  == [index : Number, box : Rect]
Tree   == [extent : Extent, isFull : BOOLEAN, at : [Corners -> Nat], in : SUBSET Nat]

IsBox(e) == e \in Extent /\ e.left <= e.right /\ e.bottom <= e.top

(* With fewer, nodes at the same place would be moved down for ever.       *)
ASSUME QTreeAssumption ==
  /\ MAX_LEAF_NODES \in Nat /\ MAX_LEAF_NODES >= 2 /\ MaxSteps \in Nat
  /\ \A e \in Rect \cup FirstExtent : IsBox(e)
  /\ Query \subseteq Extent

VARIABLES
  trees,  \* each with the trees at its corners, and those it is in, itself too
  nodes,  \* those in trees
  calls,  \* of AddNode, the innermost last
  made,   \* the number of nodes that have been put in vectors
  hung,   \* AddNode does not return
  steps,  \* the calls up to now
  origin  \* for the properties: a shape has been at the origin

treeVars == <<trees, nodes, calls, made, hung, steps, origin>>

Zero == [left |-> 0, right |-> 0, top |-> 0, bottom |-> 0]

NoCorners == [c \in Corners |-> 0]
NewTree(e, at, in) == [extent |-> e, isFull |-> FALSE, at |-> at, in |-> in]

TreeInit ==
  /\ \E e \in FirstExtent : trees = <<NewTree(e, NoCorners, {1})>>
  /\ nodes = {} /\ calls = <<>> /\ made = 0
  /\ hung = FALSE /\ steps = 0 /\ origin = FALSE

-----------------------------------------------------------------------------
(* Boxes.                                                                  *)

Contain(e, b) ==
  e.left <= b.left /\ e.right >= b.right /\ e.top >= b.top /\ e.bottom <= b.bottom

IntersectIn(e, q) ==
  q.right >= e.left /\ q.left <= e.right /\ q.top >= e.bottom /\ q.bottom <= e.top

middleX(e) == (e.left + e.right) \div 2
middleY(e) == (e.top + e.bottom) \div 2

(* b is in two corners of e.                                               *)
Crosses(e, b) ==
  \/ b.left <= middleX(e) /\ b.right > middleX(e)
  \/ b.top > middleY(e) /\ b.bottom <= middleY(e)

(* The corner of e for a box that does not cross.  One that only touches   *)
(* the horizontal middle from below goes to RB, and may be left of it.     *)
CornerOf(e, b) ==
  CASE b.right <= middleX(e) /\ b.bottom > middleY(e) -> "LT"
    [] b.left > middleX(e) /\ b.bottom > middleY(e) -> "RT"
    [] b.right <= middleX(e) /\ b.top < middleY(e) -> "LB"
    [] OTHER -> "RB"

(* Mutant of Quarter: RB is made without height.                           *)
QuarterFlat(e, c) ==
  [left   |-> IF c \in {"LT", "LB"} THEN e.left ELSE middleX(e),
   right  |-> IF c \in {"LT", "LB"} THEN middleX(e) ELSE e.right,
   top    |-> IF c \in {"LT", "RT"} THEN e.top ELSE middleY(e),
   bottom |-> IF c = "LB" THEN e.bottom ELSE middleY(e)]

Quarter(e, c) ==
  [left   |-> IF c \in {"LT", "LB"} THEN e.left ELSE middleX(e),
   right  |-> IF c \in {"LT", "LB"} THEN middleX(e) ELSE e.right,
   top    |-> IF c \in {"LT", "RT"} THEN e.top ELSE middleY(e),
   bottom |-> IF c \in {"LT", "RT"} THEN middleY(e) ELSE e.bottom]

(* The extent that is twice as wide and high, towards b.                   *)
Doubled(e, b) ==
  LET width == e.right - e.left
      height == e.top - e.bottom
      toLeft == b.left < e.left
      toTop == b.top > e.top
  IN [left   |-> IF toLeft THEN e.left - width ELSE e.left,
      right  |-> IF toLeft THEN e.right ELSE e.right + width,
      top    |-> IF toTop THEN e.top + height ELSE e.top,
      bottom |-> IF toTop THEN e.bottom ELSE e.bottom - height]

(* Nothing doubled is ever wide or high enough.                            *)
Endless(e, b) ==
  \/ e.left = e.right /\ (b.left < e.left \/ b.right > e.right)
  \/ e.top = e.bottom /\ (b.top > e.top \/ b.bottom < e.bottom)

-----------------------------------------------------------------------------
(* A call of AddNode: the node n is to be put in tree t.                   *)

Own(t) == {x \in nodes : x.tree = t}
LastOf(own) == CHOOSE x \in own : \A y \in own : y.nr <= x.nr

HasRoom(t) == ~trees[t].isFull /\ Cardinality(Own(t)) < MAX_LEAF_NODES
IsFilled(t) == ~trees[t].isFull /\ Cardinality(Own(t)) = MAX_LEAF_NODES

(* An extent of zeros is taken for that of an empty tree.                  *)
TakeExtent(t, n) ==
  /\ ~Contain(trees[t].extent, n.box) /\ trees[t].extent = Zero
  /\ trees' = [trees EXCEPT ![t].extent = n.box]
  /\ UNCHANGED <<nodes, calls, made, hung>>

(* The corner where what was in e is, when e has been doubled.             *)
OldCorner(e, b) ==
  LET toLeft == b.left < e.left
      toTop == b.top > e.top
  IN CASE toLeft /\ toTop -> "RB" [] toLeft /\ ~toTop -> "RT"
       [] ~toLeft /\ toTop -> "LB" [] OTHER -> "LT"

(* Mutant of Grow: the new tree is not given the corners.                  *)
GrowDropsCorners(t, n) ==
  LET e == trees[t].extent
      old == Len(trees) + 1
      Within(s) == IF t \in trees[s].in THEN [trees[s] EXCEPT !.in = @ \cup {old}] ELSE trees[s]
  IN /\ ~Contain(e, n.box) /\ e # Zero /\ ~Endless(e, n.box)
     /\ trees' = [s \in 1..old |->
          CASE s = t -> NewTree(Doubled(e, n.box),
                               [NoCorners EXCEPT ![OldCorner(e, n.box)] = old], trees[t].in)
            [] s = old -> [Within(t) EXCEPT !.at = NoCorners]
            [] OTHER -> Within(s)]
     /\ nodes' = {IF x.tree = t THEN [x EXCEPT !.tree = old] ELSE x : x \in nodes}
     /\ UNCHANGED <<calls, made, hung>>

(* All that is in t goes to a new tree, at a corner of t.                  *)
Grow(t, n) ==
  LET e == trees[t].extent
      old == Len(trees) + 1
      Within(s) == IF t \in trees[s].in THEN [trees[s] EXCEPT !.in = @ \cup {old}] ELSE trees[s]
  IN /\ ~Contain(e, n.box) /\ e # Zero /\ ~Endless(e, n.box)
     /\ trees' = [s \in 1..old |->
          CASE s = t -> NewTree(Doubled(e, n.box),
                               [NoCorners EXCEPT ![OldCorner(e, n.box)] = old], trees[t].in)
            [] s = old -> Within(t)
            [] OTHER -> Within(s)]
     /\ nodes' = {IF x.tree = t THEN [x EXCEPT !.tree = old] ELSE x : x \in nodes}
     /\ UNCHANGED <<calls, made, hung>>

Hang(t, n) ==
  /\ ~Contain(trees[t].extent, n.box) /\ trees[t].extent # Zero /\ Endless(trees[t].extent, n.box)
  /\ hung' = TRUE
  /\ UNCHANGED <<trees, nodes, calls, made>>

(* The node is put in the vector of t.                                     *)
Put(t, n) ==
  /\ Contain(trees[t].extent, n.box)
  /\ HasRoom(t) \/ (~IsFilled(t) /\ Crosses(trees[t].extent, n.box))
  /\ nodes' = nodes \cup {[node |-> n, tree |-> t, nr |-> made + 1]}
  /\ made' = made + 1 /\ calls' = Front(calls)
  /\ UNCHANGED <<trees, hung>>

(* Mutant of Regenerate: the node is moved down, but stays, too.           *)
RegenerateCopies(t, n) ==
  LET movable == {x \in Own(t) : ~Crosses(trees[t].extent, x.node.box)}
  IN /\ Contain(trees[t].extent, n.box) /\ IsFilled(t)
     /\ trees' = [trees EXCEPT ![t].isFull = TRUE]
     /\ UNCHANGED nodes
     /\ calls' = IF movable = {} THEN calls
                 ELSE Append(calls, [tree |-> t, node |-> LastOf(movable).node])
     /\ UNCHANGED <<made, hung>>

(* A tree with its first nodes is full from now on: the last one that can  *)
(* be is moved to a corner, and then it is tried again.                    *)
Regenerate(t, n) ==
  LET movable == {x \in Own(t) : ~Crosses(trees[t].extent, x.node.box)}
  IN /\ Contain(trees[t].extent, n.box) /\ IsFilled(t)
     /\ trees' = [trees EXCEPT ![t].isFull = TRUE]
     /\ IF movable = {} THEN UNCHANGED <<nodes, calls>>
        ELSE /\ nodes' = nodes \ {LastOf(movable)}
             /\ calls' = Append(calls, [tree |-> t, node |-> LastOf(movable).node])
     /\ UNCHANGED <<made, hung>>

(* The node goes to its corner, which is made if need be.                  *)
Down(t, n) ==
  LET e == trees[t].extent
      c == CornerOf(e, n.box)
      new == Len(trees) + 1
      corner == IF trees[t].at[c] = 0 THEN new ELSE trees[t].at[c]
  IN /\ Contain(e, n.box) /\ ~HasRoom(t) /\ ~IsFilled(t) /\ ~Crosses(e, n.box)
     /\ trees' = IF corner # new THEN trees
                 ELSE Append([trees EXCEPT ![t].at[c] = new],
                             NewTree(Quarter(e, c), NoCorners, trees[t].in \cup {new}))
     /\ calls' = [calls EXCEPT ![Len(calls)].tree = corner]
     /\ UNCHANGED <<nodes, made, hung>>

AddNode ==
  /\ calls # <<>> /\ ~hung
  /\ LET t == Last(calls).tree
         n == Last(calls).node
     IN TakeExtent(t, n) \/ Grow(t, n) \/ Hang(t, n) \/ Put(t, n) \/ Regenerate(t, n) \/ Down(t, n)
  /\ UNCHANGED <<steps, origin>>

(* Is tree t searched before s?  A tree is before those at its corners,    *)
(* and these are searched in turn.                                         *)
Before(t, s) ==
  LET order == <<"LT", "RT", "LB", "RB">>
  IN \/ t \in trees[s].in
     \/ \E u \in DOMAIN trees, i, j \in 1..4 :
          i < j /\ trees[u].at[order[i]] \in trees[t].in /\ trees[u].at[order[j]] \in trees[s].in

(* The first node with the index, if any, is removed: the last one of the  *)
(* tree that is searched first of those that have any.                     *)
RemoveNode(i) ==
  LET Found(t) == {x \in Own(t) : x.node.index = i}
      hosts == {t \in DOMAIN trees : Found(t) # {}}
      first == {t \in hosts : \A s \in hosts : Before(t, s)}
  IN IF hosts = {} THEN {nodes} ELSE {nodes \ {LastOf(Found(t))} : t \in first}

(* Mutant of GetNodes: what only touches the tree is not in it.            *)
GetNodesStrict(q) ==
  {x \in nodes :
    /\ \A t \in trees[x.tree].in :
         /\ q.right > trees[t].extent.left /\ q.left < trees[t].extent.right
         /\ q.top > trees[t].extent.bottom /\ q.bottom < trees[t].extent.top
    /\ IntersectIn(x.node.box, q)}

(* A tree is asked by the one at whose corner it is, if that is not out of *)
(* the query: thus, if none of the trees it is in are.                     *)
Asked(q) == {s \in DOMAIN trees : \A t \in trees[s].in : IntersectIn(trees[t].extent, q)}

(* The nodes whose indices GetNodes returns.                               *)
GetNodes(q) == {x \in nodes : x.tree \in Asked(q) /\ IntersectIn(x.node.box, q)}

-----------------------------------------------------------------------------
(* The calls of the shapefile.                                             *)

Call(n) ==
  /\ calls = <<>> /\ ~hung
  /\ steps < MaxSteps /\ steps' = steps + 1
  /\ calls' = <<[tree |-> 1, node |-> n]>>
  /\ origin' = (origin \/ n.box = Zero)
  /\ UNCHANGED <<trees, made, hung>>

(* StartEditingShapes, RegisterNewShape: the tree gets a node.             *)
Add(n) == Call(n) /\ UNCHANGED nodes

(* ReregisterShape: the old node is removed, if there is one.              *)
Reregister(n) == Call(n) /\ nodes' \in RemoveNode(n.index)

TreeNext ==
  \/ AddNode
  \/ \E n \in QNode : Add(n) \/ Reregister(n)

TreeSpec == TreeInit /\ [][TreeNext]_treeVars

-----------------------------------------------------------------------------
(* Type correctness.  A tree is split only when it is full, and keeps few  *)
(* nodes till then.                                                        *)
TreeTypeOK ==
  /\ trees \in Seq(Tree) /\ Len(trees) >= 1
  /\ \A t \in DOMAIN trees :
       /\ IsBox(trees[t].extent)
       /\ ~trees[t].isFull => Cardinality(Own(t)) <= MAX_LEAF_NODES
  /\ nodes \subseteq [node : QNode, tree : DOMAIN trees, nr : 1..made] /\ IsFiniteSet(nodes)
  /\ \A x, y \in nodes : x.nr = y.nr => x = y
  /\ calls \in Seq([tree : DOMAIN trees, node : QNode])
  /\ made \in Nat /\ hung \in BOOLEAN /\ origin \in BOOLEAN /\ steps \in 0..MaxSteps

(* The trees are one tree, however they were split and grown: each but the *)
(* first is at one corner of one tree, and in that and the trees this is   *)
(* in.                                                                     *)
Nested ==
  /\ trees[1].in = {1}
  /\ \A s \in DOMAIN trees \ {1} : \E t \in DOMAIN trees, c \in Corners : trees[t].at[c] = s
  /\ \A t \in DOMAIN trees, c \in Corners :
       LET s == trees[t].at[c]
       IN s # 0 =>
            /\ s \in DOMAIN trees \ trees[t].in /\ trees[s].in = trees[t].in \cup {s}
            /\ \A u \in DOMAIN trees, d \in Corners : trees[u].at[d] = s => u = t /\ d = c

(* A query finds each node that is there, wherever the trees have been     *)
(* split, grown and given up their nodes; but see OriginIsFound.           *)
QueriesAreExact ==
  \A q \in Query :
    {x \in GetNodes(q) : x.node.box # Zero}
      = {x \in nodes : x.node.box # Zero /\ IntersectIn(x.node.box, q)}

(* Nodes that are in a tree or on their way.                               *)
AllNodes == {x.node : x \in nodes} \cup {calls[k].node : k \in DOMAIN calls}

(* AddNode does not return only if all of the shapes that are there are on *)
(* one line that is parallel to an axis, or some were at the origin.       *)
HangsOnlyOnLine ==
  hung /\ ~origin =>
    \/ \A x, y \in nodes : x.node.box.left = y.node.box.right
    \/ \A x, y \in nodes : x.node.box.top = y.node.box.bottom

(* The tree implements an index that has the nodes it was given, less      *)
(* those that were replaced: a call changes it by its node and an old one, *)
(* and the steps of AddNode change nothing.                                *)
Copies(n) ==
  Cardinality({x \in nodes : x.node = n}) + Cardinality({k \in DOMAIN calls : calls[k].node = n})
Content == INSTANCE ShapeIndex WITH
  Nodes <- QNode, content <- [n \in AllNodes |-> Copies(n)], changes <- steps
ImplementsIndex == Content!Spec

-----------------------------------------------------------------------------
(* What a comment says and the code does not do.                           *)

(* "if the old qtree is empty" (QTree.cpp:76): only the extent is looked   *)
(* at, so that shapes at the origin are lost when it is replaced.          *)
OriginIsFound == \A x \in nodes : x \in GetNodes(x.node.box)
=============================================================================
