-------------------------- MODULE ShapefileProofs --------------------------
(***************************************************************************)
(* Proofs about ShapefileEdit: that the shapes, their rows, their labels,  *)
(* the quadtree and the three files keep together, as far as its           *)
(* properties say, for shapefiles of any size and any number of calls; and *)
(* about QTree: that trees stay one tree, that no query misses a shape,    *)
(* when AddNode returns, and that it implements ShapeIndex.                *)
(***************************************************************************)
EXTENDS ShapefileEdit, QTree, SequenceLemmas, TLAPS

(* The shapes that count: those in the memory, or those of the file.       *)
Kept == IF source = "disk" /\ ~editing THEN disk[name].shp ELSE shapeData

(* Has any of ls happened?                                                 *)
Lapsed(ls) == lapses \cap ls # {}

IsTree(q) == q \in [DOMAIN q -> Nat] /\ DOMAIN q \subseteq TreeNode

Typed ==
  /\ disk \in [Name -> Files]
  /\ name \in Name \cup {NULL} /\ source \in {"none", "memory", "disk"}
  /\ shapeData \in Seq(Shape \cup {NULL}) /\ Count <= MaxShapes /\ offsets \in 0..MaxShapes
  /\ dbf = [rows |-> dbf.rows, file |-> dbf.file, editing |-> dbf.editing]
  /\ dbf.rows \in Rows /\ labels \in Rows
  /\ qtree # NULL => IsTree(qtree)
  /\ lapses \subseteq {"failed", "split", "torn", "moved", "labels"}

Flags ==
  /\ editing \in BOOLEAN /\ handle \in BOOLEAN /\ synced \in BOOLEAN /\ useQTree \in BOOLEAN
  /\ dbf.editing \in BOOLEAN /\ fault \in {"none", "handle", "offset", "tree"}

Counters == edits \in 0..MaxEdits /\ writes \in 0..MaxWrites

(* The .shp and .shx that are open are whole.                              *)
Intact == disk[name].shp \in Seq(Shape) /\ disk[name].shx = Len(disk[name].shp)

(* Where a shapefile is in its life, and what can be relied on there.      *)
Unopened ==
  source = "none" =>
    /\ name = NULL /\ ~editing /\ ~handle /\ shapeData = <<>> /\ dbf = NoTable
    /\ labels = <<>> /\ qtree = NULL /\ lapses = {}
InMemory == source = "memory" => ~handle /\ (name # NULL => editing)
OnDisk ==
  source = "disk" =>
    /\ name # NULL
    /\ IF handle THEN Intact ELSE editing /\ "failed" \in lapses
    /\ dbf.file = NULL => "split" \in lapses
    /\ ~editing => /\ offsets <= Len(disk[name].shp)
                   /\ "torn" \in lapses \/ (Count = offsets /\ Count = Len(disk[name].shp))
Edited == editing => shapeData \in Seq(Shape)
Damage == name # NULL /\ Broken \in {disk[name].shp, disk[name].shx} => editing

(* The table shows what is in its file, unless it is being edited.         *)
Table ==
  dbf.file # NULL =>
    /\ dbf.file = name /\ disk[name].dbf \in Rows
    /\ ~dbf.editing => dbf.rows = disk[name].dbf

(* RowsFollow and LabelsFollow, whether or not the shapes can be read.     *)
(* Labels that are not synchronized may have stayed behind.                *)
RowsKept == Lapsed({"failed", "split", "torn"}) \/ Fids(Kept) = dbf.rows
LabelsKept ==
  \/ Lapsed({"labels", "torn"})
  \/ labels = <<>> \/ Len(labels) > Count \/ labels = Fids(Kept)

TreeKept == (~useQTree => qtree = NULL) /\ TreeFollows

Life == Unopened /\ InMemory /\ OnDisk /\ Edited /\ Damage

Core ==
  Typed /\ Flags /\ Life /\ Table /\ RowsKept /\ LabelsKept /\ TreeKept /\ FaultsHaveCauses

IInv == Core /\ Counters

-----------------------------------------------------------------------------
(* Sequences of shapes, and their numbers.                                 *)

LEMMA NoMarks ==
  /\ NULL # Broken /\ NULL \notin Name /\ NULL \notin Shape
  /\ \A s \in Seq(Shape) : s # NULL /\ s # Broken
  /\ \A r \in Rows : r # NULL /\ r # Broken
  /\ \A k \in Nat : k # NULL /\ k # Broken
  /\ MaxShapes \in Nat /\ MaxEdits \in Nat
  BY ShapefileAssumption

Fid == [x \in Shape |-> x.fid]

LEMMA FidsAre ==
  ASSUME NEW s \in Seq(Shape)
  PROVE  /\ Fids(s) = Mapped(Fid, s) /\ Fids(s) \in Rows /\ Len(Fids(s)) = Len(s)
         /\ \A i \in 1..Len(s) : Fid[s[i]] \in 1..MaxShapes + MaxEdits
         /\ s = <<>> <=> Len(s) = 0
  <1>1. Len(s) \in Nat /\ DOMAIN s = 1..Len(s) /\ \A i \in 1..Len(s) : s[i] \in Shape
    BY LenProperties, ElementOfSeq
  <1>2. \A i \in 1..Len(s) : Fid[s[i]] = s[i].fid /\ s[i].fid \in 1..MaxShapes + MaxEdits
    BY <1>1 DEF Fid, Shape
  <1>3. Fids(s) = Mapped(Fid, s)
    BY <1>1, <1>2 DEF Fids, Mapped
  <1>. DEFINE F == 1..MaxShapes + MaxEdits
  <1>4. \A i \in 1..Len(s) : Fid[s[i]] \in F
    BY <1>2
  <1>. HIDE DEF F
  <1>5. Mapped(Fid, s) \in Seq(F) /\ Len(Mapped(Fid, s)) = Len(s)
    BY <1>4, MappedSeq
  <1>6. s = <<>> <=> Len(s) = 0
    BY EmptySeq
  <1>. QED
    BY <1>2, <1>3, <1>5, <1>6 DEF Rows, F

LEMMA NoFids == Fids(<<>>) = <<>> /\ <<>> \in Rows /\ Len(<<>>) = 0 /\ \A S : <<>> \in Seq(S)
  BY EmptySeq DEF Fids, Rows

LEMMA FidsRemoved ==
  ASSUME NEW s \in Seq(Shape), NEW i \in 1..Len(s)
  PROVE  /\ RemoveAt(s, i) \in Seq(Shape) /\ Len(RemoveAt(s, i)) = Len(s) - 1
         /\ Fids(RemoveAt(s, i)) = RemoveAt(Fids(s), i)
  <1>1. RemoveAt(s, i) \in Seq(Shape) /\ Len(RemoveAt(s, i)) = Len(s) - 1
    BY RemovedAt
  <1>2. PICK r \in Seq(Shape) : r = RemoveAt(s, i)
    BY <1>1
  <1>. DEFINE F == 1..MaxShapes + MaxEdits
  <1>3. \A k \in 1..Len(s) : Fid[s[k]] \in F
    BY FidsAre
  <1>. HIDE DEF F
  <1>4. /\ Mapped(Fid, RemoveAt(s, i)) = RemoveAt(Mapped(Fid, s), i)
        /\ RemoveAt(Mapped(Fid, s), i) \in Seq(F)
    BY ONLY <1>3, s \in Seq(Shape), i \in 1..Len(s), MappedRemoved
  <1>5. Fids(r) = Mapped(Fid, r) /\ Fids(s) = Mapped(Fid, s)
    BY FidsAre
  <1>. QED
    BY <1>1, <1>2, <1>4, <1>5

LEMMA FidsInserted ==
  ASSUME NEW s \in Seq(Shape), NEW x \in Shape, NEW i \in 1..Len(s) + 1
  PROVE  /\ InsertAt(s, i, x) \in Seq(Shape) /\ Len(InsertAt(s, i, x)) = Len(s) + 1
         /\ IsWith(InsertAt(s, i, x), s, i, x)
         /\ Fids(InsertAt(s, i, x)) = InsertAt(Fids(s), i, x.fid)
  <1>1. PICK r \in Seq(Shape) : r = InsertAt(s, i, x) /\ IsWith(r, s, i, x)
    BY InsertedAt
  <1>2. Len(r) = Len(s) + 1
    BY <1>1 DEF IsWith
  <1>. DEFINE F == 1..MaxShapes + MaxEdits
  <1>3. (\A k \in 1..Len(s) : Fid[s[k]] \in F) /\ Fid[x] \in F /\ Fid[x] = x.fid
    BY FidsAre DEF Fid, Shape
  <1>. HIDE DEF F
  <1>4. /\ Mapped(Fid, r) \in Seq(F) /\ Mapped(Fid, s) \in Seq(F)
        /\ IsWith(Mapped(Fid, r), Mapped(Fid, s), i, Fid[x])
    BY <1>1, <1>3, MappedWith
  <1>5. Fids(r) = Mapped(Fid, r) /\ Fids(s) = Mapped(Fid, s) /\ Len(Mapped(Fid, s)) = Len(s)
    BY FidsAre
  <1>6. PICK f \in Seq(F), g \in Seq(F) : f = Mapped(Fid, s) /\ g = Mapped(Fid, r)
    BY <1>4
  <1>7. InsertAt(f, i, Fid[x]) \in Seq(F) /\ IsWith(InsertAt(f, i, Fid[x]), f, i, Fid[x])
    BY <1>3, <1>5, <1>6, InsertedAt
  <1>8. g = InsertAt(f, i, Fid[x])
    BY <1>4, <1>6, <1>7, IsWithUnique
  <1>. QED
    BY <1>1, <1>2, <1>3, <1>5, <1>6, <1>8

(* The box of a shape may change.                                          *)
LEMMA FidsStay ==
  ASSUME NEW s \in Seq(Shape), NEW i \in 1..Len(s), NEW b \in Box
  PROVE  LET t == [s EXCEPT ![i].box = b]
         IN  /\ t \in Seq(Shape) /\ Len(t) = Len(s) /\ Fids(t) = Fids(s)
             /\ t[i].box = b /\ \A k \in 1..Len(s) : k # i => t[k] = s[k]
  <1>. DEFINE n == Len(s)
             x == [s[i] EXCEPT !.box = b]
             t == [s EXCEPT ![i] = x]
  <1>1. n \in Nat /\ DOMAIN s = 1..n /\ s \in [1..n -> Shape] /\ s[i] \in Shape
    BY LenProperties, ElementOfSeq
  <1>2. x \in Shape /\ x.fid = s[i].fid /\ x.box = b
    BY <1>1 DEF Shape
  <1>. HIDE DEF x
  <1>3. t \in [1..n -> Shape] /\ t[i] = x /\ \A k \in 1..n : k # i => t[k] = s[k]
    BY <1>1, <1>2
  <1>4. t \in Seq(Shape) /\ Len(t) = n
    BY <1>1, <1>3, IsASeq
  <1>5. Fids(t) = Fids(s)
    BY <1>1, <1>2, <1>3 DEF Fids
  <1>6. t = [s EXCEPT ![i].box = b]
    BY DEF x
  <1>. QED
    BY <1>2, <1>3, <1>4, <1>5, <1>6

LEMMA FirstOnes ==
  ASSUME NEW S, NEW s \in Seq(S), NEW k \in 0..Len(s)
  PROVE  /\ SubSeq(s, 1, k) \in Seq(S) /\ Len(SubSeq(s, 1, k)) = k
         /\ k = Len(s) => SubSeq(s, 1, k) = s
  <1>1. Len(s) \in Nat /\ \A i \in 1..Len(s) : s[i] \in S
    BY LenProperties, ElementOfSeq
  <1>2. 1 \in Int /\ k \in Int /\ \A i \in 1..k : s[i] \in S
    BY <1>1
  <1>3. /\ SubSeq(s, 1, k) \in Seq(S)
        /\ Len(SubSeq(s, 1, k)) = IF 1 <= k THEN k - 1 + 1 ELSE 0
        /\ \A i \in 1..k - 1 + 1 : SubSeq(s, 1, k)[i] = s[1 + i - 1]
    BY <1>2, SubSeqProperties
  <1>4. Len(SubSeq(s, 1, k)) = k /\ \A i \in 1..k : SubSeq(s, 1, k)[i] = s[i]
    BY <1>1, <1>3
  <1>5. PICK t \in Seq(S) : t = SubSeq(s, 1, k)
    BY <1>3
  <1>6. k = Len(s) => t = s
    BY <1>4, <1>5, SeqEqual
  <1>. QED
    BY <1>4, <1>5, <1>6

-----------------------------------------------------------------------------
(* Trees, which are bags of nodes.                                         *)

LEMMA NotATree == ~IsTree(NULL)
  BY ShapefileAssumption DEF IsTree

LEMMA NodeIs ==
  ASSUME NEW i \in 1..MaxShapes, NEW b \in Box
  PROVE  Node(i, b) \in TreeNode
  BY DEF Node, TreeNode

(* The tree q with one node more, and with one less.                       *)
More(q, x) == [e \in DOMAIN q \cup {x} |->
                 (IF e \in DOMAIN q THEN q[e] ELSE 0) + (IF e = x THEN 1 ELSE 0)]
Fewer(q, x) == [e \in {d \in DOMAIN q : (IF d = x THEN q[d] - 1 ELSE q[d]) > 0} |->
                  IF e = x THEN q[e] - 1 ELSE q[e]]

LEMMA TreeWith ==
  ASSUME NEW q, IsTree(q), NEW x \in TreeNode
  PROVE  Index!With(q, x) = More(q, x) /\ IsTree(More(q, x)) /\ More(q, x) # NULL
  <1>. DEFINE r == More(q, x)
  <1>1. Index!With(q, x) = r
    BY DEF More, Index!With, Index!SetToBag, Index!\oplus
  <1>2. \A e \in DOMAIN q : q[e] \in Nat
    BY DEF IsTree
  <1>3. \A e \in DOMAIN q \cup {x} :
          (IF e \in DOMAIN q THEN q[e] ELSE 0) + (IF e = x THEN 1 ELSE 0) \in Nat
    BY <1>2
  <1>4. r \in [DOMAIN q \cup {x} -> Nat] /\ DOMAIN r = DOMAIN q \cup {x}
    BY <1>3 DEF More
  <1>5. DOMAIN q \cup {x} \subseteq TreeNode
    BY DEF IsTree
  <1>. HIDE DEF r
  <1>6. IsTree(r) /\ r # NULL
    BY <1>4, <1>5, NotATree DEF IsTree
  <1>. QED
    BY <1>1, <1>6 DEF r

LEMMA TreeWithout ==
  ASSUME NEW q, IsTree(q), NEW i, NEW c \in Index!Without(q, i)
  PROVE  /\ IsTree(c)
         /\ \/ c = q /\ \A x \in DOMAIN q : x.index # i
            \/ \E x \in DOMAIN q : x.index = i /\ c = Fewer(q, x)
  <1>. DEFINE old == {x \in DOMAIN q : x.index = i}
  <1>1. /\ old = {} => c = q
        /\ old # {} => \E x \in old : c = Index!\ominus(q, Index!SetToBag({x}))
    BY DEF Index!Without, Index!BagToSet
  <1>2. ASSUME NEW x \in old
        PROVE  Index!\ominus(q, Index!SetToBag({x})) = Fewer(q, x) /\ IsTree(Fewer(q, x))
    <2>1. Index!\ominus(q, Index!SetToBag({x})) = Fewer(q, x)
      BY DEF Fewer, Index!\ominus, Index!SetToBag
    <2>2. \A e \in DOMAIN q : q[e] \in Nat
      BY DEF IsTree
    <2>3. \A e \in DOMAIN Fewer(q, x) : Fewer(q, x)[e] \in Nat
      BY <2>2 DEF Fewer
    <2>4. /\ Fewer(q, x) = [e \in DOMAIN Fewer(q, x) |-> Fewer(q, x)[e]]
          /\ DOMAIN Fewer(q, x) \subseteq DOMAIN q
      BY DEF Fewer
    <2>5. IsTree(Fewer(q, x))
      BY <2>3, <2>4 DEF IsTree
    <2>. QED
      BY <2>1, <2>5
  <1>3. CASE old = {}
    BY <1>1, <1>3
  <1>4. CASE old # {}
    BY <1>1, <1>2, <1>4
  <1>. QED
    BY <1>3, <1>4

LEMMA IndexedIs ==
  ASSUME NEW s \in Seq(Shape), Len(s) <= MaxShapes
  PROVE  /\ DOMAIN Indexed(s) = {Node(i, s[i].box) : i \in 1..Len(s)}
         /\ Indexed(s) = [e \in {Node(i, s[i].box) : i \in 1..Len(s)} |-> 1]
         /\ IsTree(Indexed(s)) /\ Indexed(s) # NULL
         /\ \A i \in 1..Len(s) : s[i].box \in Box /\ i \in 1..MaxShapes
  <1>1. Len(s) \in Nat /\ DOMAIN s = 1..Len(s) /\ \A i \in 1..Len(s) : s[i] \in Shape
    BY LenProperties, ElementOfSeq
  <1>2. \A i \in 1..Len(s) : s[i].box \in Box /\ i \in 1..MaxShapes
    BY <1>1, NoMarks DEF Shape
  <1>. DEFINE N == {Node(i, s[i].box) : i \in 1..Len(s)}
  <1>3. Indexed(s) = [e \in N |-> 1]
    BY <1>1 DEF Indexed, SetToBag
  <1>4. N \subseteq TreeNode
    BY <1>2, NodeIs
  <1>. HIDE DEF N
  <1>5. DOMAIN Indexed(s) = N /\ IsTree(Indexed(s))
    BY <1>3, <1>4 DEF IsTree
  <1>. QED
    BY <1>2, <1>3, <1>5, NotATree DEF N

LEMMA NodesDiffer ==
  ASSUME NEW i, NEW j, NEW b, NEW c
  PROVE  /\ Node(i, b).index = i /\ Node(i, b).box = b
         /\ Node(i, b) = Node(j, c) <=> i = j /\ b = c
  <1>1. \A k, d : Node(k, d).index = k /\ Node(k, d).box = d
    BY DEF Node
  <1>. QED
    BY <1>1

(* A shape that is put at the end is added to the tree.                    *)
LEMMA IndexedAppended ==
  ASSUME NEW s \in Seq(Shape), NEW t \in Seq(Shape), NEW x \in Shape,
         Len(t) <= MaxShapes, IsWith(t, s, Len(s) + 1, x)
  PROVE  Index!With(Indexed(s), Node(Len(s) + 1, x.box)) = Indexed(t)
  <1>. DEFINE n == Len(s)
             y == Node(n + 1, x.box)
             N == {Node(i, s[i].box) : i \in 1..n}
             q == Indexed(s)
  <1>1. /\ n \in Nat /\ Len(t) = n + 1 /\ t[n + 1] = x /\ (\A i \in 1..n : t[i] = s[i])
        /\ n <= MaxShapes /\ n + 1 \in 1..MaxShapes
    BY LenProperties, NoMarks DEF IsWith
  <1>2. q = [e \in N |-> 1] /\ IsTree(q) /\ DOMAIN q = N
    BY <1>1, IndexedIs
  <1>3. Indexed(t) = [e \in {Node(i, t[i].box) : i \in 1..n + 1} |-> 1]
    BY <1>1, IndexedIs
  <1>4. y \notin N
    BY <1>1, NodesDiffer
  <1>5. {Node(i, t[i].box) : i \in 1..n + 1} = N \cup {y}
    <2>1. 1..n + 1 = 1..n \cup {n + 1}
      BY <1>1
    <2>. QED
      BY <1>1, <2>1
  <1>6. y \in TreeNode
    BY <1>1, NodeIs DEF Shape
  <1>7. Index!With(q, y) = More(q, y)
    BY <1>2, <1>6, TreeWith
  <1>. HIDE DEF N, y, q, n
  <1>8. \A e \in N \cup {y} : (IF e \in N THEN q[e] ELSE 0) + (IF e = y THEN 1 ELSE 0) = 1
    BY <1>2, <1>4
  <1>9. Index!With(q, y) = [e \in N \cup {y} |-> 1]
    BY <1>2, <1>7, <1>8 DEF More
  <1>10. Indexed(t) = [e \in N \cup {y} |-> 1]
    BY <1>3, <1>5
  <1>. QED
    BY <1>9, <1>10 DEF y, q, n

(* The node of a shape is replaced.                                        *)
LEMMA IndexedUpdated ==
  ASSUME NEW s \in Seq(Shape), NEW t \in Seq(Shape), NEW i \in 1..Len(s), NEW b \in Box,
         Len(s) <= MaxShapes, Len(t) = Len(s),
         t[i].box = b, \A k \in 1..Len(s) : k # i => t[k] = s[k],
         NEW c \in Index!Without(Indexed(s), i)
  PROVE  Index!With(c, Node(i, b)) = Indexed(t)
  <1>. DEFINE n == Len(s)
             q == Indexed(s)
             N == {Node(k, s[k].box) : k \in 1..n}
             x == Node(i, s[i].box)
             y == Node(i, b)
             M == N \ {x}
  <1>1. q = [e \in N |-> 1] /\ IsTree(q) /\ DOMAIN q = N /\ i \in 1..MaxShapes
    BY IndexedIs
  <1>2. Indexed(t) = [e \in {Node(k, t[k].box) : k \in 1..n} |-> 1]
    BY IndexedIs
  <1>3. x \in N /\ x.index = i /\ \A z \in N : z.index = i => z = x
    BY NodesDiffer
  <1>4. y \notin M /\ y \in TreeNode
    BY <1>1, NodeIs, NodesDiffer
  <1>5. {Node(k, t[k].box) : k \in 1..n} = M \cup {y}
    <2>1. \A k \in 1..n : k # i => Node(k, t[k].box) = Node(k, s[k].box) /\ Node(k, s[k].box) # x
      BY NodesDiffer
    <2>2. Node(i, t[i].box) = y
      OBVIOUS
    <2>. QED
      BY <2>1, <2>2
  <1>6. IsTree(c) /\ c = Fewer(q, x)
    <2>1. /\ IsTree(c)
          /\ \/ c = q /\ \A z \in DOMAIN q : z.index # i
             \/ \E z \in DOMAIN q : z.index = i /\ c = Fewer(q, z)
      BY <1>1, TreeWithout
    <2>. HIDE DEF N, x, q
    <2>. QED
      BY <1>1, <1>3, <2>1
  <1>. HIDE DEF N, x, y, q
  <1>7. {d \in N : (IF d = x THEN q[d] - 1 ELSE q[d]) > 0} = M
    BY <1>1
  <1>8. c = [e \in M |-> 1]
    BY <1>1, <1>6, <1>7 DEF Fewer
  <1>9. Index!With(c, y) = More(c, y)
    BY <1>4, <1>6, TreeWith
  <1>. HIDE DEF M
  <1>10. \A e \in M \cup {y} : (IF e \in M THEN c[e] ELSE 0) + (IF e = y THEN 1 ELSE 0) = 1
    BY <1>4, <1>8
  <1>11. Index!With(c, y) = [e \in M \cup {y} |-> 1]
    BY <1>8, <1>9, <1>10 DEF More
  <1>. QED
    BY <1>2, <1>5, <1>11 DEF y

-----------------------------------------------------------------------------
(* Files, tables and shapes.                                               *)

LEMMA FilesIs ==
  ASSUME NEW d \in [Name -> Files], NEW n \in Name
  PROVE  /\ d[n] = [shp |-> d[n].shp, shx |-> d[n].shx, dbf |-> d[n].dbf]
         /\ d[n].shp \in Seq(Shape) \cup {NULL, Broken}
         /\ d[n].shx \in (0..MaxShapes) \cup {NULL, Broken}
         /\ d[n].dbf \in Rows \cup {NULL}
  BY DEF Files

LEMMA Written ==
  ASSUME disk \in [Name -> Files], NEW n \in Name, NEW s \in Seq(Shape), Len(s) <= MaxShapes,
         NEW r \in Rows \cup {NULL}
  PROVE  LET d == WrittenTo(n, s, r)
         IN  /\ d \in [Name -> Files]
             /\ d[n].shp = s /\ d[n].shx = Len(s) /\ d[n].dbf = r
             /\ \A m \in Name : m # n => d[m] = disk[m]
  <1>. DEFINE f == [shp |-> s, shx |-> Len(s), dbf |-> r]
  <1>1. Len(s) \in 0..MaxShapes
    BY LenProperties, NoMarks
  <1>2. f \in Files /\ f.shp = s /\ f.shx = Len(s) /\ f.dbf = r
    BY <1>1 DEF Files
  <1>3. WrittenTo(n, s, r) = [disk EXCEPT ![n] = f]
    BY DEF WrittenTo
  <1>. HIDE DEF f
  <1>. QED
    BY <1>2, <1>3

LEMMA RowsPut ==
  ASSUME NEW d \in [Name -> Files], NEW n \in Name, NEW r \in Rows
  PROVE  LET e == [d EXCEPT ![n].dbf = r]
         IN  /\ e \in [Name -> Files]
             /\ e[n].shp = d[n].shp /\ e[n].shx = d[n].shx /\ e[n].dbf = r
             /\ \A m \in Name : m # n => e[m] = d[m]
  <1>. DEFINE f == [d[n] EXCEPT !.dbf = r]
  <1>1. f \in Files /\ f.shp = d[n].shp /\ f.shx = d[n].shx /\ f.dbf = r
    BY FilesIs DEF Files
  <1>2. [d EXCEPT ![n].dbf = r] = [d EXCEPT ![n] = f]
    OBVIOUS
  <1>. HIDE DEF f
  <1>. QED
    BY <1>1, <1>2

LEMMA DamagedIs ==
  ASSUME disk \in [Name -> Files], NEW n \in Name, NEW d \in Damaged(n)
  PROVE  /\ d \in [Name -> Files] /\ d[n].dbf = disk[n].dbf
         /\ \A m \in Name : m # n => d[m] = disk[m]
  <1>1. CASE d = disk
    BY <1>1
  <1>2. CASE d = [disk EXCEPT ![n].shp = Broken]
    BY <1>2 DEF Files
  <1>3. CASE d = [disk EXCEPT ![n].shx = Broken]
    BY <1>3 DEF Files
  <1>. QED
    BY <1>1, <1>2, <1>3 DEF Damaged

(* What the operations that read the shapes get.                           *)
LEMMA ShapesAre ==
  ASSUME Core, ReadFault = "none"
  PROVE  /\ Shapes \in Seq(Shape) /\ Len(Shapes) = Count /\ Count \in 0..MaxShapes
         /\ Fids(Shapes) \in Rows /\ Len(Fids(Shapes)) = Count
         /\ Lapsed({"torn"}) \/ Shapes = Kept
         /\ (editing \/ source # "disk") => Shapes = shapeData
         /\ Shapes = <<>> <=> Count = 0
  <1>1. /\ Count \in 0..MaxShapes /\ shapeData \in Seq(Shape \cup {NULL})
        /\ shapeData = <<>> <=> Count = 0
    <2>1. Len(shapeData) \in Nat
      BY LenProperties DEF Core, Typed
    <2>. QED
      BY <2>1, EmptySeq, NoMarks DEF Core, Typed, Count
  <1>2. /\ Shapes \in Seq(Shape) /\ Len(Shapes) = Count
        /\ Lapsed({"torn"}) \/ Shapes = Kept
        /\ (editing \/ source # "disk") => Shapes = shapeData
    <2>1. CASE editing
      BY <2>1 DEF Core, Life, Edited, Kept, Shapes, Count
    <2>2. CASE ~editing /\ Count = 0
      <3>1. Shapes = <<>> /\ shapeData = <<>>
        BY <1>1, <2>2 DEF Shapes
      <3>2. source = "disk" /\ ~Lapsed({"torn"}) => Kept = <<>>
        <4>1. SUFFICES ASSUME source = "disk", ~Lapsed({"torn"}) PROVE Kept = <<>>
          OBVIOUS
        <4>2. Kept \in Seq(Shape) /\ Len(Kept) = 0
          BY <2>2, <4>1 DEF Core, Life, OnDisk, Intact, Kept, Lapsed
        <4>. QED
          BY <4>2, FidsAre
      <3>. QED
        BY <2>2, <3>1, <3>2, NoFids DEF Kept
    <2>3. CASE ~editing /\ Count # 0
      <3>1. handle /\ Count <= offsets
        BY <1>1, <2>3 DEF ReadFault, Core, Typed
      <3>2. source = "disk"
        BY <3>1 DEF Core, Typed, Life, Unopened, InMemory
      <3>3. /\ disk[name].shp \in Seq(Shape) /\ offsets <= Len(disk[name].shp)
            /\ "torn" \in lapses \/ Count = Len(disk[name].shp)
            /\ offsets \in Nat
        BY <2>3, <3>1, <3>2 DEF Core, Typed, Life, OnDisk, Intact
      <3>4. Count \in 0..Len(disk[name].shp)
        BY <1>1, <3>1, <3>3, LenProperties
      <3>5. Shapes = SubSeq(disk[name].shp, 1, Count)
        BY <2>3 DEF Shapes
      <3>. QED
        BY <2>3, <3>2, <3>3, <3>4, <3>5, FirstOnes DEF Lapsed, Kept
    <2>. QED
      BY <2>1, <2>2, <2>3
  <1>. QED
    BY <1>1, <1>2, FidsAre

-----------------------------------------------------------------------------
(* Steps that leave the files and the shapes as they are.                  *)

LEMMA FileStays ==
  ASSUME Core, UNCHANGED <<disk, name, source, handle, offsets, editing, shapeData, dbf>>,
         lapses' \ {"moved"} = lapses \ {"moved"}
  PROVE  /\ InMemory' /\ OnDisk' /\ Edited' /\ Damage' /\ Table' /\ RowsKept' /\ Kept' = Kept
         /\ Count' = Count
  <1>1. Kept' = Kept /\ Count' = Count
    BY DEF Kept, Count
  <1>2. \A x : x # "moved" => (x \in lapses' <=> x \in lapses)
    OBVIOUS
  <1>3. RowsKept'
    BY <1>1, <1>2 DEF Core, RowsKept, Lapsed
  <1>. QED
    BY <1>1, <1>2, <1>3 DEF Core, Life, InMemory, OnDisk, Edited, Damage, Table, Intact

LEMMA FailKeeps ==
  ASSUME Core, NEW f \in {"handle", "offset", "tree"}, Fail(f),
         /\ f = "tree" => Count <= 1
         /\ f = "handle" => "failed" \in lapses \/ (source = "memory" /\ name = NULL)
         /\ f = "offset" => "torn" \in lapses
  PROVE  Core'
  <1>1. UNCHANGED <<disk, name, source, editing, handle, shapeData, offsets, dbf, labels,
                    synced, useQTree, qtree, lapses>> /\ fault' = f
    BY DEF Fail
  <1>2. /\ InMemory' /\ OnDisk' /\ Edited' /\ Damage' /\ Table' /\ RowsKept' /\ Kept' = Kept
        /\ Count' = Count
    BY <1>1, FileStays
  <1>3. Typed' /\ Flags' /\ Unopened' /\ LabelsKept'
    BY <1>1, <1>2 DEF Core, Typed, Flags, Life, Unopened, LabelsKept, Lapsed
  <1>4. TreeKept' /\ FaultsHaveCauses'
    BY <1>1, <1>2 DEF Core, TreeKept, TreeFollows, FaultsHaveCauses
  <1>. QED
    BY <1>2, <1>3, <1>4 DEF Core, Life

(* The ways in which the shapes cannot be read.                            *)
LEMMA ReadFails ==
  ASSUME Core, ReadFault # "none", Fail(ReadFault)
  PROVE  Core'
  <1>1. CASE ReadFault = "handle"
    <2>1. ~editing /\ ~handle /\ Count # 0
      BY <1>1 DEF ReadFault
    <2>2. source = "memory" /\ name = NULL
      <3>1. source # "none"
        BY <2>1, NoFids DEF Core, Life, Unopened, Count
      <3>. QED
        BY <2>1, <3>1 DEF Core, Typed, Life, InMemory, OnDisk
    <2>. QED
      BY <1>1, <2>2, FailKeeps
  <1>2. CASE ReadFault = "offset"
    <2>1. ~editing /\ handle /\ Count > offsets
      BY <1>2 DEF ReadFault
    <2>2. source = "disk"
      BY <2>1 DEF Core, Typed, Life, Unopened, InMemory
    <2>3. "torn" \in lapses
      BY <2>1, <2>2 DEF Core, Typed, Life, OnDisk
    <2>. QED
      BY <1>2, <2>3, FailKeeps
  <1>. QED
    BY <1>1, <1>2 DEF ReadFault

LEMMA TreeOfIs ==
  ASSUME NEW s \in Seq(Shape), Len(s) <= MaxShapes
  PROVE  /\ TreeOf(s) = NULL => s = <<>>
         /\ TreeOf(s) # NULL => TreeOf(s) = Indexed(s) /\ IsTree(TreeOf(s))
         /\ s = <<>> => TreeOf(s) = NULL
  BY IndexedIs DEF TreeOf

(* What depends on the labels, and on the lapses but "moved".              *)
LEMMA LabelsStay ==
  ASSUME Core, UNCHANGED labels, Kept' = Kept, Count' = Count,
         lapses' \ {"moved"} = lapses \ {"moved"}
  PROVE  LabelsKept'
  <1>1. \A x : x # "moved" => (x \in lapses' <=> x \in lapses)
    OBVIOUS
  <1>. QED
    BY <1>1 DEF Core, LabelsKept, Lapsed

LEMMA InitHolds == Init => IInv
  <1>. SUFFICES ASSUME Init PROVE IInv
    OBVIOUS
  <1>1. /\ disk \in [Name -> Files] /\ name = NULL /\ source = "none" /\ editing = FALSE
        /\ handle = FALSE /\ shapeData = <<>> /\ offsets = 0 /\ dbf = NoTable /\ labels = <<>>
        /\ synced = FALSE /\ useQTree = FALSE /\ qtree = NULL /\ fault = "none" /\ lapses = {}
        /\ edits = 0 /\ writes = 0
    BY ShapefileAssumption DEF Init
  <1>2. dbf.rows = <<>> /\ dbf.file = NULL /\ dbf.editing = FALSE
    BY <1>1 DEF NoTable
  <1>3. Count = 0 /\ Kept = <<>>
    BY <1>1, NoFids DEF Count, Kept
  <1>4. Typed
    BY <1>1, <1>2, <1>3, NoFids, NoMarks DEF Typed, NoTable
  <1>5. Flags /\ Life
    BY <1>1, <1>2 DEF Flags, Life, Unopened, InMemory, OnDisk, Edited, Damage
  <1>6. Table /\ RowsKept /\ LabelsKept /\ TreeKept /\ FaultsHaveCauses
    BY <1>1, <1>2, <1>3, NoFids
    DEF Table, RowsKept, LabelsKept, TreeKept, TreeFollows, FaultsHaveCauses
  <1>7. Counters
    BY <1>1, ShapefileAssumption DEF Counters
  <1>. QED
    BY <1>4, <1>5, <1>6, <1>7 DEF IInv, Core

-----------------------------------------------------------------------------
(* The quadtree, the labels and queries.                                   *)

LEMMA UseQTreeKeeps ==
  ASSUME Core, fault = "none", NEW on \in BOOLEAN, put_UseQTree(on)
  PROVE  Core'
  <1>1. CASE on /\ ReadFault # "none"
    BY <1>1, ReadFails DEF put_UseQTree, Reading
  <1>2. CASE ~(on /\ ReadFault # "none")
    <2>1. UNCHANGED <<disk, name, source, handle, offsets, labels, synced, editing,
                      shapeData, dbf, fault>>
      BY <1>2 DEF put_UseQTree, Reading, file
    <2>2. \/ qtree' = NULL /\ useQTree' = FALSE /\ lapses' = lapses
          \/ /\ qtree' = TreeOf(Shapes) /\ useQTree' = TRUE /\ lapses' = lapses \ {"moved"}
             /\ ReadFault = "none"
      BY <1>2 DEF put_UseQTree, Reading
    <2>3. lapses' \ {"moved"} = lapses \ {"moved"} /\ lapses' \subseteq lapses
      BY <2>2
    <2>4. /\ InMemory' /\ OnDisk' /\ Edited' /\ Damage' /\ Table' /\ RowsKept' /\ Kept' = Kept
          /\ Count' = Count
      BY <2>1, <2>3, FileStays
    <2>5. LabelsKept'
      BY <2>1, <2>3, <2>4, LabelsStay
    <2>6. /\ qtree' # NULL => IsTree(qtree')
          /\ useQTree' \in BOOLEAN
          /\ source = "none" => qtree' = NULL
          /\ (~useQTree => qtree = NULL)'
          /\ useQTree' /\ editing => /\ qtree' = NULL => shapeData = <<>>
                                     /\ qtree' # NULL => qtree' = Indexed(shapeData)
      <3>1. CASE qtree' = NULL /\ useQTree' = FALSE
        BY <3>1
      <3>2. CASE qtree' = TreeOf(Shapes) /\ useQTree' = TRUE /\ ReadFault = "none"
        <4>1. /\ Shapes \in Seq(Shape) /\ Len(Shapes) <= MaxShapes
              /\ (editing \/ source # "disk") => Shapes = shapeData
          BY <3>2, ShapesAre, NoMarks
        <4>2. /\ TreeOf(Shapes) = NULL => Shapes = <<>>
              /\ TreeOf(Shapes) # NULL => TreeOf(Shapes) = Indexed(Shapes) /\ IsTree(TreeOf(Shapes))
              /\ Shapes = <<>> => TreeOf(Shapes) = NULL
          BY <4>1, TreeOfIs
        <4>3. source = "none" => shapeData = <<>>
          BY DEF Core, Life, Unopened
        <4>. QED
          BY <3>2, <4>1, <4>2, <4>3
      <3>. QED
        BY <2>2, <3>1, <3>2
    <2>7. Typed' /\ Flags'
      BY <2>1, <2>3, <2>4, <2>6 DEF Core, Typed, Flags
    <2>8. Unopened' /\ TreeKept' /\ FaultsHaveCauses'
      BY <2>1, <2>3, <2>6 DEF Core, Life, Unopened, TreeKept, TreeFollows, FaultsHaveCauses
    <2>. QED
      BY <2>4, <2>5, <2>7, <2>8 DEF Core, Life
  <1>. QED
    BY <1>1, <1>2

LEMMA SynchronizedKeeps ==
  ASSUME Core, fault = "none", NEW on \in BOOLEAN, put_Synchronized(on)
  PROVE  Core'
  <1>1. /\ UNCHANGED <<disk, name, source, handle, offsets, labels, useQTree, qtree, editing,
                       shapeData, dbf, fault, lapses>>
        /\ synced' \in BOOLEAN
    BY DEF put_Synchronized, file
  <1>2. /\ InMemory' /\ OnDisk' /\ Edited' /\ Damage' /\ Table' /\ RowsKept' /\ Kept' = Kept
        /\ Count' = Count
    BY <1>1, FileStays
  <1>3. LabelsKept'
    BY <1>1, <1>2, LabelsStay
  <1>4. Typed' /\ Flags'
    BY <1>1, <1>2 DEF Core, Typed, Flags
  <1>5. Unopened' /\ TreeKept' /\ FaultsHaveCauses'
    BY <1>1 DEF Core, Life, Unopened, TreeKept, TreeFollows, FaultsHaveCauses
  <1>. QED
    BY <1>2, <1>3, <1>4, <1>5 DEF Core, Life

LEMMA LabelsAreGenerated ==
  ASSUME Core, fault = "none", GenerateLabels
  PROVE  Core'
  <1>1. CASE ReadFault # "none"
    BY <1>1, ReadFails DEF GenerateLabels, Reading
  <1>2. CASE ReadFault = "none"
    <2>1. /\ UNCHANGED <<disk, name, source, handle, offsets, useQTree, qtree, editing,
                         shapeData, dbf, fault>>
          /\ labels' = Fids(Shapes) /\ synced' = TRUE /\ lapses' = lapses \ {"labels"}
          /\ source # "none"
      BY <1>2 DEF GenerateLabels, Reading, file
    <2>2. \A x : x # "labels" => (x \in lapses' <=> x \in lapses)
      BY <2>1
    <2>3. Kept' = Kept /\ Count' = Count
      BY <2>1 DEF Kept, Count
    <2>4. Fids(Shapes) \in Rows /\ (Lapsed({"torn"}) \/ Shapes = Kept)
      BY <1>2, ShapesAre
    <2>5. LabelsKept'
      BY <2>1, <2>2, <2>3, <2>4 DEF LabelsKept, Lapsed
    <2>6. RowsKept'
      BY <2>1, <2>2, <2>3 DEF Core, RowsKept, Lapsed
    <2>7. Typed' /\ Flags'
      BY <2>1, <2>3, <2>4 DEF Core, Typed, Flags
    <2>8. Life' /\ Table'
      BY <2>1, <2>2, <2>3
      DEF Core, Life, Unopened, InMemory, OnDisk, Intact, Edited, Damage, Table
    <2>9. TreeKept' /\ FaultsHaveCauses'
      BY <2>1, <2>2 DEF Core, TreeKept, TreeFollows, FaultsHaveCauses
    <2>. QED
      BY <2>5, <2>6, <2>7, <2>8, <2>9 DEF Core
  <1>. QED
    BY <1>1, <1>2

LEMMA QueryKeeps ==
  ASSUME Core, fault = "none", QuickQueryInEditMode
  PROVE  Core'
  <1>1. shapeData = <<>>
    BY DEF QuickQueryInEditMode, Core, TreeKept, TreeFollows
  <1>2. Count <= 1
    BY <1>1, NoFids DEF Count
  <1>. QED
    BY <1>2, FailKeeps DEF QuickQueryInEditMode

-----------------------------------------------------------------------------
(* The table.                                                              *)

(* A table is a record.                                                    *)
IsTable(t) ==
  /\ t = [rows |-> t.rows, file |-> t.file, editing |-> t.editing]
  /\ t.rows \in Rows /\ t.editing \in BOOLEAN

LEMMA FileRowsAre ==
  ASSUME Core
  PROVE  /\ IsTable(dbf) /\ FileRows \in Rows
         /\ dbf.file # NULL => /\ dbf.file = name /\ name \in Name
                               /\ FileRows = disk[name].dbf
                               /\ ~dbf.editing => dbf.rows = FileRows
         /\ dbf.file = NULL => FileRows = <<>>
  BY NoFids, NoMarks DEF Core, Typed, Flags, IsTable, FileRows, Table

(* The tables StopTable may leave, and what is to be put into the file.    *)
LEMMA TablesLeft ==
  ASSUME Core, NEW apply \in BOOLEAN, NEW r \in StopTable(apply)
  PROVE  /\ IsTable(r[1]) /\ ~r[1].editing /\ r[2] \in Rows
         /\ r[1].file # NULL => /\ r[1].file = name /\ name \in Name
                                /\ r[2] = r[1].rows
         /\ r[1].file = NULL => dbf.file = NULL
         /\ ~apply => r[2] = FileRows /\ r[1].file = dbf.file
  <1>0. /\ IsTable(dbf) /\ FileRows \in Rows
        /\ dbf.file # NULL => /\ dbf.file = name /\ name \in Name
                              /\ ~dbf.editing => dbf.rows = FileRows
    BY FileRowsAre
  <1>1. CASE ~dbf.editing
    <2>1. r = <<dbf, FileRows>>
      BY <1>1 DEF StopTable
    <2>. QED
      BY <1>0, <1>1, <2>1
  <1>2. CASE dbf.editing /\ ~apply
    <2>1. r = <<[dbf EXCEPT !.rows = FileRows, !.editing = FALSE], FileRows>>
      BY <1>2 DEF StopTable
    <2>. QED
      BY <1>0, <1>2, <2>1 DEF IsTable
  <1>3. CASE dbf.editing /\ apply /\ dbf.file # NULL
    <2>1. PICK x \in {dbf.rows, FileRows} :
            r = <<[dbf EXCEPT !.rows = x, !.editing = FALSE], x>>
      BY <1>3 DEF StopTable
    <2>. QED
      BY <1>0, <1>3, <2>1 DEF IsTable
  <1>4. CASE dbf.editing /\ apply /\ dbf.file = NULL /\ CanSaveNew
    <2>1. r = <<[dbf EXCEPT !.file = name, !.editing = FALSE], dbf.rows>>
      BY <1>4 DEF StopTable
    <2>2. name \in Name
      BY <1>4 DEF CanSaveNew, Core, Typed
    <2>. QED
      BY <1>0, <1>4, <2>1, <2>2 DEF IsTable
  <1>5. CASE dbf.editing /\ apply /\ dbf.file = NULL /\ ~CanSaveNew
    <2>1. r = <<[dbf EXCEPT !.editing = FALSE], <<>>>>
      BY <1>5 DEF StopTable
    <2>. QED
      BY <1>0, <1>5, <2>1, NoFids DEF IsTable
  <1>. QED
    BY <1>1, <1>2, <1>3, <1>4, <1>5

LEMMA LapseIs ==
  ASSUME NEW t
  PROVE  /\ TableLapse(t) \subseteq {"split"}
         /\ t.file = NULL /\ ~t.editing => "split" \in TableLapse(t)
         /\ "split" \in TableLapse(t) \/ t.rows = dbf.rows
  BY DEF TableLapse

(* The rows are put into the file of the table.                            *)
LEMMA RowsArePut ==
  ASSUME NEW d \in [Name -> Files], NEW t, NEW rows \in Rows,
         t.file # NULL => t.file = name /\ name \in Name
  PROVE  LET e == PutRows(d, t, rows)
         IN  /\ e \in [Name -> Files]
             /\ \A m \in Name : /\ e[m].shp = d[m].shp /\ e[m].shx = d[m].shx
                                /\ e[m].dbf = IF t.file = m THEN rows ELSE d[m].dbf
  <1>1. CASE t.file = NULL
    BY <1>1, NoMarks DEF PutRows
  <1>2. CASE t.file # NULL
    <2>1. PutRows(d, t, rows) = [d EXCEPT ![name].dbf = rows] /\ name \in Name /\ t.file = name
      BY <1>2 DEF PutRows
    <2>2. PICK e : e = [d EXCEPT ![name].dbf = rows]
      OBVIOUS
    <2>3. /\ e \in [Name -> Files]
          /\ e[name].shp = d[name].shp /\ e[name].shx = d[name].shx /\ e[name].dbf = rows
          /\ \A m \in Name : m # name => e[m] = d[m]
      BY <2>1, <2>2, RowsPut
    <2>. QED
      BY <2>1, <2>2, <2>3
  <1>. QED
    BY <1>1, <1>2

(* Steps that change the table and the .dbf file only.                     *)
LEMMA ShapesStay ==
  ASSUME Core, UNCHANGED <<name, source, handle, offsets, editing, shapeData>>,
         \A m \in Name : disk'[m].shp = disk[m].shp /\ disk'[m].shx = disk[m].shx,
         lapses \subseteq lapses', dbf'.file = NULL => dbf.file = NULL
  PROVE  InMemory' /\ OnDisk' /\ Edited' /\ Damage' /\ Kept' = Kept /\ Count' = Count
  <1>1. name # NULL => disk'[name].shp = disk[name].shp /\ disk'[name].shx = disk[name].shx
    BY DEF Core, Typed
  <1>2. Count' = Count /\ InMemory' /\ Edited'
    BY DEF Core, Life, InMemory, Edited, Count
  <1>3. Kept' = Kept
    BY <1>1 DEF Kept, Core, Life, OnDisk
  <1>4. OnDisk'
    BY <1>1, <1>2 DEF Core, Life, OnDisk, Intact
  <1>5. Damage'
    BY <1>1 DEF Core, Life, Damage
  <1>. QED
    BY <1>2, <1>3, <1>4, <1>5

LEMMA TableStarts ==
  ASSUME Core, fault = "none", StartEditingTable
  PROVE  Core'
  <1>1. /\ UNCHANGED <<disk, name, source, handle, offsets, labels, synced, useQTree, qtree,
                       editing, shapeData, fault, lapses>>
        /\ dbf' = [dbf EXCEPT !.editing = TRUE] /\ source # "none"
    BY DEF StartEditingTable, file, aids
  <1>2. IsTable(dbf)
    BY FileRowsAre
  <1>3. IsTable(dbf') /\ dbf'.rows = dbf.rows /\ dbf'.file = dbf.file /\ dbf'.editing
    BY <1>1, <1>2 DEF IsTable
  <1>4. InMemory' /\ OnDisk' /\ Edited' /\ Damage' /\ Kept' = Kept /\ Count' = Count
    BY <1>1, <1>3, ShapesStay
  <1>5. Typed' /\ Flags'
    BY <1>1, <1>3, <1>4 DEF Core, Typed, Flags, IsTable
  <1>6. Unopened' /\ TreeKept' /\ FaultsHaveCauses'
    BY <1>1 DEF Core, Unopened, TreeKept, TreeFollows, FaultsHaveCauses
  <1>7. Table' /\ RowsKept' /\ LabelsKept'
    BY <1>1, <1>3, <1>4 DEF Core, Table, RowsKept, LabelsKept, Lapsed
  <1>. QED
    BY <1>4, <1>5, <1>6, <1>7 DEF Core, Life

LEMMA TableStops ==
  ASSUME Core, fault = "none", NEW apply \in BOOLEAN, StopEditingTable(apply)
  PROVE  Core'
  <1>1. /\ UNCHANGED <<name, source, handle, offsets, labels, synced, useQTree, qtree,
                       editing, shapeData, fault>>
        /\ source # "none"
    BY DEF StopEditingTable, aids
  <1>2. PICK r \in StopTable(apply) :
          /\ dbf' = r[1] /\ disk' = PutRows(disk, r[1], r[2])
          /\ lapses' = lapses \cup TableLapse(r[1])
    BY DEF StopEditingTable
  <1>3. /\ IsTable(dbf') /\ ~dbf'.editing /\ r[2] \in Rows
        /\ dbf'.file # NULL => dbf'.file = name /\ name \in Name /\ r[2] = dbf'.rows
        /\ dbf'.file = NULL => dbf.file = NULL
    BY <1>2, TablesLeft
  <1>4. /\ disk' \in [Name -> Files]
        /\ \A m \in Name : /\ disk'[m].shp = disk[m].shp /\ disk'[m].shx = disk[m].shx
                           /\ disk'[m].dbf = IF dbf'.file = m THEN r[2] ELSE disk[m].dbf
    <2>1. disk \in [Name -> Files]
      BY DEF Core, Typed
    <2>2. PICK t, d : t = r[1] /\ d = PutRows(disk, t, r[2])
      OBVIOUS
    <2>3. t.file # NULL => t.file = name /\ name \in Name
      BY <1>2, <1>3, <2>2
    <2>4. LET e == PutRows(disk, t, r[2])
          IN  /\ e \in [Name -> Files]
              /\ \A m \in Name : /\ e[m].shp = disk[m].shp /\ e[m].shx = disk[m].shx
                                 /\ e[m].dbf = IF t.file = m THEN r[2] ELSE disk[m].dbf
      BY <1>3, <2>1, <2>3, RowsArePut
    <2>. QED
      BY <1>2, <2>2, <2>4
  <1>5. lapses \subseteq lapses' /\ lapses' \subseteq lapses \cup {"split"}
        /\ ("split" \in lapses' \/ dbf'.rows = dbf.rows)
    BY <1>2, LapseIs
  <1>6. InMemory' /\ OnDisk' /\ Edited' /\ Damage' /\ Kept' = Kept /\ Count' = Count
    BY <1>1, <1>3, <1>4, <1>5, ShapesStay
  <1>7. Typed' /\ Flags'
    BY <1>1, <1>3, <1>4, <1>5, <1>6 DEF Core, Typed, Flags, IsTable
  <1>8. Unopened' /\ TreeKept' /\ FaultsHaveCauses'
    BY <1>1, <1>5 DEF Core, Unopened, TreeKept, TreeFollows, FaultsHaveCauses
  <1>9. Table'
    BY <1>1, <1>3, <1>4 DEF Table
  <1>10. RowsKept' /\ LabelsKept'
    BY <1>1, <1>5, <1>6 DEF Core, RowsKept, LabelsKept, Lapsed
  <1>. QED
    BY <1>6, <1>7, <1>8, <1>9, <1>10 DEF Core, Life

-----------------------------------------------------------------------------
(* Opening and closing.                                                    *)

(* The rows of a shapefile on the disk, if there are any.                  *)
LEMMA RowsThere ==
  ASSUME Core, NEW n \in Name
  PROVE  /\ disk \in [Name -> Files] /\ disk[n].dbf \in Rows \cup {NULL} /\ dbf.rows \in Rows
  BY FilesIs DEF Core, Typed

LEMMA CloseKeeps ==
  ASSUME Core, fault = "none", Close
  PROVE  Core'
  <1>1. CASE CloseFails
    <2>1. "failed" \in lapses
      BY <1>1 DEF CloseFails, Core, Life, OnDisk
    <2>. QED
      BY <1>1, <2>1, FailKeeps DEF Close
  <1>2. CASE ~CloseFails
    <2>1. /\ name' = NULL /\ source' = "none" /\ editing' = FALSE /\ handle' = FALSE
          /\ dbf' = NoTable /\ shapeData' = <<>> /\ offsets' = 0 /\ labels' = <<>>
          /\ qtree' = (IF useQTree THEN NULL ELSE qtree) /\ lapses' = {}
          /\ UNCHANGED <<synced, useQTree, fault>>
      BY <1>2 DEF Close, Closed, Forget, DropTree
    <2>2. disk' \in [Name -> Files]
      <3>1. CASE editing /\ source = "memory" /\ name # NULL
        <4>1. name \in Name /\ shapeData \in Seq(Shape) /\ Len(shapeData) <= MaxShapes
          BY <3>1 DEF Core, Typed, Life, Edited, Count
        <4>2. disk' \in Damaged(name) \cup
                {WrittenTo(name, shapeData, r) : r \in {dbf.rows, disk[name].dbf}}
          BY <1>2, <3>1 DEF Close
        <4>3. CASE disk' \in Damaged(name)
          <5>1. PICK d \in Damaged(name) : d = disk'
            BY <4>3
          <5>. QED
            BY <4>1, <5>1, RowsThere, DamagedIs
        <4>4. ASSUME NEW r \in {dbf.rows, disk[name].dbf}, disk' = WrittenTo(name, shapeData, r)
              PROVE  disk' \in [Name -> Files]
          <5>1. r \in Rows \cup {NULL} /\ disk \in [Name -> Files]
            BY <4>1, RowsThere
          <5>. QED
            BY <4>1, <4>4, <5>1, Written
        <4>. QED
          BY <4>2, <4>3, <4>4
      <3>2. CASE ~(editing /\ source = "memory" /\ name # NULL)
        BY <1>2, <3>2 DEF Close, Core, Typed
      <3>. QED
        BY <3>1, <3>2
    <2>3. qtree' = NULL
      BY <2>1 DEF Core, TreeKept, Flags
    <2>4. dbf'.rows = <<>> /\ dbf'.file = NULL /\ dbf'.editing = FALSE
      BY <2>1 DEF NoTable
    <2>5. Count' = 0 /\ Kept' = <<>>
      BY <2>1, NoFids DEF Count, Kept
    <2>6. Typed'
      BY <2>1, <2>2, <2>3, <2>4, <2>5, NoFids, NoMarks DEF Typed, NoTable
    <2>7. Flags' /\ Life'
      BY <2>1, <2>3, <2>4
      DEF Core, Flags, Life, Unopened, InMemory, OnDisk, Edited, Damage, NoTable
    <2>8. Table' /\ RowsKept' /\ LabelsKept' /\ TreeKept' /\ FaultsHaveCauses'
      BY <2>1, <2>3, <2>4, <2>5, NoFids
      DEF Table, RowsKept, LabelsKept, TreeKept, TreeFollows, FaultsHaveCauses
    <2>. QED
      BY <2>6, <2>7, <2>8 DEF Core
  <1>. QED
    BY <1>1, <1>2

LEMMA OpenKeeps ==
  ASSUME Core, fault = "none", NEW n \in Name, Open(n)
  PROVE  Core'
  <1>1. /\ source = "none" /\ Agree(disk[n])
        /\ name' = n /\ source' = "disk" /\ handle' = TRUE
        /\ shapeData' = [i \in 1..disk[n].shx |-> NULL] /\ offsets' = disk[n].shx
        /\ dbf' = [rows |-> disk[n].dbf, file |-> n, editing |-> FALSE]
        /\ UNCHANGED <<disk, editing, labels, synced, useQTree, qtree, fault, lapses>>
    BY DEF Open
  <1>2. ~editing /\ labels = <<>> /\ qtree = NULL /\ lapses = {}
    BY <1>1 DEF Core, Life, Unopened
  <1>3. /\ disk[n].shp \in Seq(Shape) /\ disk[n].dbf \in Rows /\ disk[n].shx \in 0..MaxShapes
        /\ disk[n].dbf = Fids(disk[n].shp) /\ disk[n].shx = Len(disk[n].shp)
    <2>1. disk \in [Name -> Files]
      BY DEF Core, Typed
    <2>. QED
      BY <1>1, <2>1, FilesIs, NoMarks DEF Agree
  <1>4. shapeData' \in Seq(Shape \cup {NULL}) /\ Len(shapeData') = disk[n].shx
    <2>1. PICK k \in 0..MaxShapes : k = disk[n].shx
      BY <1>3
    <2>2. PICK s : s = shapeData'
      OBVIOUS
    <2>3. s = [i \in 1..k |-> NULL] /\ k \in Nat
      BY <1>1, <2>1, <2>2, NoMarks
    <2>4. s \in [1..k -> Shape \cup {NULL}]
      BY <2>3
    <2>5. s \in Seq(Shape \cup {NULL}) /\ Len(s) = k
      BY <2>3, <2>4, IsASeq
    <2>. QED
      BY <2>1, <2>2, <2>5
  <1>5. dbf'.rows = disk[n].dbf /\ dbf'.file = n /\ dbf'.editing = FALSE
    BY <1>1
  <1>6. Count' = disk[n].shx /\ Kept' = disk[n].shp
    BY <1>1, <1>2, <1>4 DEF Count, Kept
  <1>7. Typed'
    BY <1>1, <1>2, <1>3, <1>4, <1>5, <1>6, NoFids, NoMarks DEF Core, Typed
  <1>8. Flags' /\ InMemory' /\ Edited' /\ Unopened'
    BY <1>1, <1>2, <1>5 DEF Core, Flags, InMemory, Edited, Unopened
  <1>9. OnDisk'
    BY <1>1, <1>2, <1>3, <1>5, <1>6, NoMarks DEF OnDisk, Intact
  <1>10. Damage'
    BY <1>1, <1>3, NoMarks DEF Damage
  <1>11. Table' /\ RowsKept' /\ LabelsKept' /\ TreeKept' /\ FaultsHaveCauses'
    BY <1>1, <1>2, <1>3, <1>5, <1>6
    DEF Table, RowsKept, LabelsKept, TreeKept, TreeFollows, FaultsHaveCauses
  <1>. QED
    BY <1>7, <1>8, <1>9, <1>10, <1>11 DEF Core, Life

LEMMA CreateKeeps ==
  ASSUME Core, fault = "none", NEW n \in Name \cup {NULL}, CreateNew(n)
  PROVE  Core'
  <1>1. /\ source = "none"
        /\ name' = n /\ source' = "memory" /\ editing' = TRUE
        /\ dbf' = [NoTable EXCEPT !.editing = TRUE]
        /\ UNCHANGED <<disk, handle, shapeData, offsets, labels, synced, useQTree, qtree,
                       fault, lapses>>
    BY DEF CreateNew
  <1>2. /\ ~handle /\ shapeData = <<>> /\ labels = <<>> /\ qtree = NULL /\ lapses = {}
    BY <1>1 DEF Core, Life, Unopened
  <1>3. /\ dbf' = [rows |-> <<>>, file |-> NULL, editing |-> TRUE]
        /\ dbf'.rows = <<>> /\ dbf'.file = NULL /\ dbf'.editing = TRUE
    BY <1>1 DEF NoTable
  <1>4. Count' = Count /\ Count = 0 /\ Kept' = <<>>
    BY <1>1, <1>2, NoFids DEF Count, Kept
  <1>5. Typed'
    BY <1>1, <1>2, <1>3, <1>4, NoFids, NoMarks DEF Core, Typed
  <1>6. Flags' /\ Life'
    BY <1>1, <1>2, <1>3, NoFids
    DEF Core, Flags, Life, Unopened, InMemory, OnDisk, Edited, Damage
  <1>7. Table' /\ RowsKept' /\ LabelsKept' /\ TreeKept' /\ FaultsHaveCauses'
    BY <1>1, <1>2, <1>3, <1>4, NoFids
    DEF Table, RowsKept, LabelsKept, TreeKept, TreeFollows, FaultsHaveCauses
  <1>. QED
    BY <1>5, <1>6, <1>7 DEF Core

-----------------------------------------------------------------------------
(* Starting and stopping to edit the shapes.                               *)

LEMMA EditingStarts ==
  ASSUME Core, fault = "none", NEW start \in BOOLEAN, StartEditingShapes(start)
  PROVE  Core'
  <1>0. source # "none" /\ ~editing
    BY DEF StartEditingShapes
  <1>1. CASE ReadFault # "none"
    BY <1>1, ReadFails DEF StartEditingShapes, Reading
  <1>2. CASE /\ ReadFault = "none"
             /\ DropTree
             /\ UNCHANGED <<file, labels, synced, useQTree, editing, shapeData, dbf, lapses,
                            fault>>
    <2>1. UNCHANGED <<disk, name, source, handle, offsets, labels, synced, useQTree, editing,
                      shapeData, dbf, lapses, fault>>
      BY <1>2 DEF file
    <2>2. qtree' = NULL
      BY <1>2 DEF DropTree, Core, TreeKept, Flags
    <2>3. /\ InMemory' /\ OnDisk' /\ Edited' /\ Damage' /\ Table' /\ RowsKept' /\ Kept' = Kept
          /\ Count' = Count
      BY <2>1, FileStays
    <2>4. LabelsKept'
      BY <2>1, <2>3, LabelsStay
    <2>5. Typed' /\ Flags'
      BY <2>1, <2>2, <2>3 DEF Core, Typed, Flags
    <2>6. Unopened' /\ TreeKept' /\ FaultsHaveCauses'
      BY <1>0, <2>1, <2>2 DEF Core, Unopened, TreeKept, TreeFollows, FaultsHaveCauses
    <2>. QED
      BY <2>3, <2>4, <2>5, <2>6 DEF Core, Life
  <1>3. CASE /\ ReadFault = "none"
             /\ editing' = TRUE /\ shapeData' = Shapes
             /\ dbf' = [dbf EXCEPT !.editing = @ \/ start]
             /\ IF useQTree THEN qtree' = Indexed(Shapes) /\ lapses' = lapses \ {"moved"}
                ELSE UNCHANGED <<qtree, lapses>>
             /\ UNCHANGED <<file, labels, synced, useQTree, fault>>
    <2>1. /\ UNCHANGED <<disk, name, source, handle, offsets, labels, synced, useQTree, fault>>
          /\ editing' = TRUE /\ shapeData' = Shapes
      BY <1>3 DEF file
    <2>2. IsTable(dbf') /\ dbf'.rows = dbf.rows /\ dbf'.file = dbf.file
          /\ (~dbf'.editing => ~dbf.editing)
      <3>1. IsTable(dbf)
        BY FileRowsAre
      <3>2. dbf' = [rows |-> dbf.rows, file |-> dbf.file, editing |-> dbf.editing \/ start]
        BY <1>3, <3>1 DEF IsTable
      <3>. QED
        BY <3>1, <3>2 DEF IsTable
    <2>3. /\ Shapes \in Seq(Shape) /\ Len(Shapes) = Count /\ Count \in 0..MaxShapes
          /\ Lapsed({"torn"}) \/ Shapes = Kept
      BY <1>3, ShapesAre
    <2>4. /\ useQTree => IsTree(qtree') /\ qtree' # NULL /\ qtree' = Indexed(shapeData')
          /\ ~useQTree => qtree' = qtree /\ qtree = NULL
          /\ \A x : x # "moved" => (x \in lapses' <=> x \in lapses)
          /\ lapses' \subseteq lapses
      <3>1. Len(Shapes) <= MaxShapes
        BY <2>3, NoMarks
      <3>2. IsTree(Indexed(Shapes)) /\ Indexed(Shapes) # NULL
        BY <2>3, <3>1, IndexedIs
      <3>. QED
        BY <1>3, <2>1, <3>2 DEF Core, TreeKept
    <2>5. Count' = Count /\ Kept' = Shapes
      BY <2>1, <2>3 DEF Count, Kept
    <2>6. source = "disk" => handle
      BY <1>0 DEF Core, Life, OnDisk
    <2>7. Typed'
      BY <2>1, <2>2, <2>3, <2>4, <2>5 DEF Core, Typed, IsTable
    <2>8. Flags' /\ Unopened' /\ InMemory' /\ Edited' /\ Damage'
      BY <1>0, <2>1, <2>2, <2>3
      DEF Core, Life, Flags, IsTable, Unopened, InMemory, Edited, Damage
    <2>9. OnDisk'
      BY <1>0, <2>1, <2>2, <2>4, <2>6 DEF Core, Life, OnDisk, Intact
    <2>10. Table'
      BY <2>1, <2>2 DEF Core, Table
    <2>11. RowsKept' /\ LabelsKept'
      BY <2>1, <2>2, <2>3, <2>4, <2>5 DEF Core, RowsKept, LabelsKept, Lapsed
    <2>12. TreeKept' /\ FaultsHaveCauses'
      BY <2>1, <2>4 DEF TreeKept, TreeFollows, FaultsHaveCauses
    <2>. QED
      BY <2>7, <2>8, <2>9, <2>10, <2>11, <2>12 DEF Core, Life
  <1>. QED
    BY <1>1, <1>2, <1>3 DEF StartEditingShapes, Reading

LEMMA WriteFailsKeeps ==
  ASSUME Core, fault = "none", editing, name # NULL,
         NEW tree, WriteFails(tree),
         tree = qtree \/ (useQTree /\ tree = TreeOf(shapeData))
  PROVE  Core'
  <1>0. /\ name \in Name /\ disk \in [Name -> Files] /\ shapeData \in Seq(Shape)
        /\ Len(shapeData) <= MaxShapes /\ Count \in 0..MaxShapes /\ source # "none"
        /\ disk[name].dbf \in Rows \cup {NULL}
    <2>1. name \in Name /\ disk \in [Name -> Files] /\ shapeData \in Seq(Shape)
          /\ Len(shapeData) <= MaxShapes /\ Count <= MaxShapes /\ source # "none"
      BY DEF Core, Typed, Life, Edited, Unopened, Count
    <2>2. Count \in Nat
      BY <2>1, LenProperties DEF Count
    <2>. QED
      BY <2>1, <2>2, RowsThere, NoMarks
  <1>1. /\ handle' = FALSE /\ lapses' = lapses \cup {"failed"}
        /\ UNCHANGED <<name, source, editing, shapeData, dbf, labels, synced, useQTree, fault>>
    BY DEF WriteFails
  <1>2. disk' \in [Name -> Files] /\ disk'[name].dbf = disk[name].dbf
    <2>1. CASE disk' \in Damaged(name)
      <3>1. PICK d \in Damaged(name) : d = disk'
        BY <2>1
      <3>. QED
        BY <1>0, <3>1, DamagedIs
    <2>2. CASE disk' = WrittenTo(name, shapeData, disk[name].dbf)
      BY <1>0, <2>2, Written
    <2>. QED
      BY <2>1, <2>2 DEF WriteFails
  <1>3. /\ offsets' \in 0..MaxShapes
        /\ qtree' = qtree \/ (useQTree /\ qtree' = TreeOf(shapeData))
    BY <1>0 DEF WriteFails, Core, Typed
  <1>4. /\ qtree' # NULL => IsTree(qtree')
        /\ ~useQTree => qtree' = NULL
        /\ useQTree => /\ qtree' = NULL => shapeData = <<>>
                       /\ qtree' # NULL /\ "moved" \notin lapses => qtree' = Indexed(shapeData)
    <2>1. /\ TreeOf(shapeData) = NULL => shapeData = <<>>
          /\ TreeOf(shapeData) # NULL =>
               TreeOf(shapeData) = Indexed(shapeData) /\ IsTree(TreeOf(shapeData))
      BY <1>0, TreeOfIs
    <2>. QED
      BY <1>3, <2>1 DEF Core, Typed, TreeKept, TreeFollows
  <1>5. Count' = Count /\ Kept' = Kept
    BY <1>1 DEF Count, Kept
  <1>6. Typed' /\ Flags'
    BY <1>0, <1>1, <1>2, <1>3, <1>4, <1>5 DEF Core, Typed, Flags
  <1>7. Life'
    BY <1>0, <1>1 DEF Core, Life, Unopened, InMemory, OnDisk, Edited, Damage
  <1>8. Table' /\ RowsKept' /\ LabelsKept'
    BY <1>1, <1>2, <1>5 DEF Core, Table, RowsKept, LabelsKept, Lapsed
  <1>9. TreeKept' /\ FaultsHaveCauses'
    BY <1>1, <1>4 DEF TreeKept, TreeFollows, FaultsHaveCauses
  <1>. QED
    BY <1>6, <1>7, <1>8, <1>9 DEF Core

(* The files that are left when the shapes have been written and then the  *)
(* rows of the table t.                                                    *)
LEMMA AllWritten ==
  ASSUME Core, editing, name # NULL, NEW t, NEW rows \in Rows,
         t.file # NULL => t.file = name
  PROVE  LET e == PutRows(WrittenTo(name, shapeData, disk[name].dbf), t, rows)
         IN  /\ e \in [Name -> Files]
             /\ e[name].shp = shapeData /\ e[name].shx = Count
             /\ t.file # NULL => e[name].dbf = rows
  <1>1. /\ name \in Name /\ disk \in [Name -> Files] /\ shapeData \in Seq(Shape)
        /\ Len(shapeData) <= MaxShapes
    BY DEF Core, Typed, Life, Edited, Count
  <1>2. disk[name].dbf \in Rows \cup {NULL}
    BY <1>1, RowsThere
  <1>3. PICK d : d = WrittenTo(name, shapeData, disk[name].dbf)
    OBVIOUS
  <1>4. d \in [Name -> Files] /\ d[name].shp = shapeData /\ d[name].shx = Len(shapeData)
    BY <1>1, <1>2, <1>3, Written
  <1>5. PICK e : e = PutRows(d, t, rows)
    OBVIOUS
  <1>6. /\ e \in [Name -> Files]
        /\ \A m \in Name : /\ e[m].shp = d[m].shp /\ e[m].shx = d[m].shx
                           /\ e[m].dbf = IF t.file = m THEN rows ELSE d[m].dbf
    BY <1>1, <1>4, <1>5, RowsArePut
  <1>. QED
    BY <1>1, <1>3, <1>4, <1>5, <1>6 DEF Count

(* What editing says of the shapes.                                        *)
LEMMA WhileEditing ==
  ASSUME Core, editing
  PROVE  /\ shapeData \in Seq(Shape) /\ Count \in 0..MaxShapes /\ Count = Len(shapeData)
         /\ Len(shapeData) <= MaxShapes
         /\ Kept = shapeData /\ source # "none"
         /\ name # NULL => name \in Name
         /\ disk \in [Name -> Files]
  <1>1. /\ shapeData \in Seq(Shape) /\ Len(shapeData) <= MaxShapes /\ source # "none"
        /\ name # NULL => name \in Name
        /\ disk \in [Name -> Files]
    BY DEF Core, Typed, Life, Edited, Unopened, Count
  <1>2. Len(shapeData) \in Nat
    BY <1>1, LenProperties
  <1>. QED
    BY <1>1, <1>2, NoMarks DEF Kept, Count

LEMMA SaveAndKeeps ==
  ASSUME Core, fault = "none", editing, name # NULL, NEW stop \in BOOLEAN, SaveAnd(stop)
  PROVE  Core'
  <1>1. CASE WriteFails(IF useQTree THEN TreeOf(shapeData) ELSE qtree)
    <2>1. PICK tree : /\ tree = IF useQTree THEN TreeOf(shapeData) ELSE qtree
                      /\ WriteFails(tree)
      BY <1>1
    <2>. QED
      BY <2>1, WriteFailsKeeps DEF Core, Flags
  <1>2. CASE ~WriteFails(IF useQTree THEN TreeOf(shapeData) ELSE qtree)
    <2>1. /\ offsets' = Count /\ handle' = TRUE /\ source' = "disk"
          /\ qtree' = IF useQTree THEN TreeOf(shapeData) ELSE qtree
          /\ editing' = ~stop
          /\ UNCHANGED <<name, shapeData, labels, synced, useQTree, fault>>
      BY <1>2 DEF SaveAnd
    <2>2. PICK r \in StopTable(TRUE) :
            /\ dbf' = [r[1] EXCEPT !.editing = r[1].file # NULL]
            /\ disk' = PutRows(WrittenTo(name, shapeData, disk[name].dbf), r[1], r[2])
            /\ lapses' = (lapses \ Cured) \cup TableLapse(r[1])
      BY <1>2 DEF SaveAnd
    <2>3. /\ IsTable(r[1]) /\ ~r[1].editing /\ r[2] \in Rows
          /\ r[1].file # NULL => r[1].file = name /\ name \in Name /\ r[2] = r[1].rows
      BY <2>2, TablesLeft
    <2>4. /\ IsTable(dbf') /\ dbf'.rows = r[1].rows /\ dbf'.file = r[1].file
      BY <2>2, <2>3 DEF IsTable
    <2>5. /\ disk' \in [Name -> Files] /\ disk'[name].shp = shapeData /\ disk'[name].shx = Count
          /\ dbf'.file # NULL => disk'[name].dbf = dbf'.rows
      <3>1. PICK t : t = r[1]
        OBVIOUS
      <3>2. LET e == PutRows(WrittenTo(name, shapeData, disk[name].dbf), t, r[2])
            IN  /\ e \in [Name -> Files]
                /\ e[name].shp = shapeData /\ e[name].shx = Count
                /\ t.file # NULL => e[name].dbf = r[2]
        BY <2>3, <3>1, AllWritten
      <3>. QED
        BY <2>2, <2>3, <2>4, <3>1, <3>2
    <2>6. /\ \A x : x \notin {"moved", "split"} => (x \in lapses' <=> x \in lapses)
          /\ "split" \in lapses => "split" \in lapses'
          /\ dbf'.file = NULL => "split" \in lapses'
          /\ "split" \in lapses' \/ dbf'.rows = dbf.rows
          /\ lapses' \subseteq lapses \cup {"split"}
      <3>1. PICK t : t = r[1]
        OBVIOUS
      <3>2. /\ TableLapse(t) \subseteq {"split"}
            /\ t.file = NULL /\ ~t.editing => "split" \in TableLapse(t)
            /\ "split" \in TableLapse(t) \/ t.rows = dbf.rows
        BY LapseIs
      <3>. QED
        BY <2>2, <2>3, <2>4, <3>1, <3>2 DEF Cured
    <2>7. /\ shapeData \in Seq(Shape) /\ Count \in 0..MaxShapes /\ Count = Len(shapeData)
          /\ Len(shapeData) <= MaxShapes /\ Kept = shapeData /\ name \in Name
      BY WhileEditing
    <2>8. Count' = Count /\ Kept' = shapeData
      BY <2>1, <2>5 DEF Count, Kept
    <2>9. /\ qtree' # NULL => IsTree(qtree')
          /\ ~useQTree => qtree' = NULL
          /\ useQTree => /\ qtree' = NULL => shapeData = <<>>
                         /\ qtree' # NULL => qtree' = Indexed(shapeData)
      <3>1. /\ TreeOf(shapeData) = NULL => shapeData = <<>>
            /\ TreeOf(shapeData) # NULL =>
                 TreeOf(shapeData) = Indexed(shapeData) /\ IsTree(TreeOf(shapeData))
        BY <2>7, TreeOfIs
      <3>. QED
        BY <2>1, <3>1 DEF Core, Typed, TreeKept
    <2>10. Typed'
      BY <2>1, <2>4, <2>5, <2>6, <2>7, <2>8, <2>9 DEF Core, Typed, IsTable
    <2>11. Flags' /\ Unopened' /\ InMemory' /\ Edited'
      BY <2>1, <2>4, <2>7 DEF Core, Flags, IsTable, Unopened, InMemory, Edited
    <2>12. OnDisk' /\ Damage'
      BY <2>1, <2>5, <2>6, <2>7, <2>8, NoMarks DEF OnDisk, Intact, Damage
    <2>13. Table'
      BY <2>1, <2>3, <2>4, <2>5 DEF Table, IsTable
    <2>14. RowsKept' /\ LabelsKept'
      BY <2>1, <2>6, <2>7, <2>8 DEF Core, RowsKept, LabelsKept, Lapsed
    <2>15. TreeKept' /\ FaultsHaveCauses'
      BY <2>1, <2>9 DEF TreeKept, TreeFollows, FaultsHaveCauses
    <2>. QED
      BY <2>10, <2>11, <2>12, <2>13, <2>14, <2>15 DEF Core, Life
  <1>. QED
    BY <1>1, <1>2

LEMMA ReleasedIs ==
  ASSUME Core, editing
  PROVE  Released \in Seq(Shape \cup {NULL}) /\ Len(Released) = Count
  <1>1. shapeData \in Seq(Shape) /\ Count \in Nat /\ Count = Len(shapeData)
    BY WhileEditing, NoMarks
  <1>2. DOMAIN shapeData = 1..Count
    BY <1>1, LenProperties
  <1>3. PICK s : s = Released
    OBVIOUS
  <1>4. s = [i \in 1..Count |-> NULL]
    BY <1>2, <1>3 DEF Released
  <1>5. s \in [1..Count -> Shape \cup {NULL}]
    BY <1>4
  <1>6. s \in Seq(Shape \cup {NULL}) /\ Len(s) = Count
    BY <1>1, <1>4, <1>5, IsASeq
  <1>. QED
    BY <1>3, <1>6

LEMMA ApplyKeeps ==
  ASSUME Core, fault = "none", editing, source = "disk", handle, NEW stopTable \in BOOLEAN,
         ApplyChanges(stopTable)
  PROVE  Core'
  <1>0. name # NULL
    BY DEF Core, Life, OnDisk
  <1>1. CASE WriteFails(qtree)
    BY <1>0, <1>1, WriteFailsKeeps
  <1>2. CASE ~WriteFails(qtree)
    <2>1. /\ offsets' = Count /\ shapeData' = Released /\ editing' = FALSE
          /\ qtree' = (IF useQTree THEN NULL ELSE qtree)
          /\ UNCHANGED <<name, source, handle, labels, synced, useQTree, fault>>
      BY <1>2 DEF ApplyChanges, DropTree
    <2>2. PICK r \in IF stopTable THEN StopTable(TRUE) ELSE {<<dbf, FileRows>>} :
            /\ dbf' = r[1]
            /\ disk' = PutRows(WrittenTo(name, shapeData, disk[name].dbf), r[1], r[2])
            /\ lapses' = lapses \cup TableLapse(r[1])
      BY <1>2 DEF ApplyChanges
    <2>3. /\ IsTable(dbf') /\ r[2] \in Rows
          /\ dbf'.file # NULL => /\ dbf'.file = name
                                 /\ ~dbf'.editing => r[2] = dbf'.rows
          /\ dbf'.file = NULL => dbf.file = NULL
      <3>1. CASE stopTable
        <4>1. r \in StopTable(TRUE)
          BY <2>2, <3>1
        <4>. QED
          BY <2>2, <4>1, TablesLeft
      <3>2. CASE ~stopTable
        <4>1. r[1] = dbf /\ r[2] = FileRows
          BY <2>2, <3>2
        <4>. QED
          BY <2>2, <4>1, FileRowsAre
      <3>. QED
        BY <3>1, <3>2
    <2>4. /\ disk' \in [Name -> Files] /\ disk'[name].shp = shapeData /\ disk'[name].shx = Count
          /\ dbf'.file # NULL => disk'[name].dbf = r[2]
      <3>1. PICK t : t = r[1]
        OBVIOUS
      <3>2. LET e == PutRows(WrittenTo(name, shapeData, disk[name].dbf), t, r[2])
            IN  /\ e \in [Name -> Files]
                /\ e[name].shp = shapeData /\ e[name].shx = Count
                /\ t.file # NULL => e[name].dbf = r[2]
        BY <1>0, <2>2, <2>3, <3>1, AllWritten
      <3>. QED
        BY <2>2, <3>1, <3>2
    <2>5. /\ lapses' \subseteq lapses \cup {"split"} /\ lapses \subseteq lapses'
          /\ "split" \in lapses' \/ dbf'.rows = dbf.rows
      BY <2>2, LapseIs
    <2>6. /\ shapeData \in Seq(Shape) /\ Count \in 0..MaxShapes /\ Count = Len(shapeData)
          /\ Kept = shapeData /\ name \in Name
      BY <1>0, WhileEditing
    <2>7. /\ shapeData' \in Seq(Shape \cup {NULL}) /\ Count' = Count /\ Kept' = shapeData
      BY <2>1, <2>4, ReleasedIs DEF Count, Kept
    <2>8. qtree' = NULL
      BY <2>1 DEF Core, TreeKept, Flags
    <2>9. Typed'
      BY <2>1, <2>3, <2>4, <2>5, <2>6, <2>7, <2>8 DEF Core, Typed, IsTable
    <2>10. Flags' /\ Unopened' /\ InMemory' /\ Edited'
      BY <2>1, <2>3 DEF Core, Flags, IsTable, Unopened, InMemory, Edited
    <2>11. dbf'.file = NULL => "split" \in lapses'
      BY <2>3, <2>5 DEF Core, Life, OnDisk
    <2>12. OnDisk' /\ Damage'
      BY <1>0, <2>1, <2>4, <2>6, <2>7, <2>11, NoMarks DEF OnDisk, Intact, Damage
    <2>13. Table'
      BY <2>1, <2>3, <2>4 DEF Table, IsTable
    <2>14. RowsKept' /\ LabelsKept'
      BY <2>1, <2>5, <2>6, <2>7 DEF Core, RowsKept, LabelsKept, Lapsed
    <2>15. TreeKept' /\ FaultsHaveCauses'
      BY <2>1, <2>8 DEF TreeKept, TreeFollows, FaultsHaveCauses
    <2>. QED
      BY <2>9, <2>10, <2>12, <2>13, <2>14, <2>15 DEF Core, Life
  <1>. QED
    BY <1>1, <1>2

LEMMA DiscardKeeps ==
  ASSUME Core, fault = "none", editing, source = "disk", handle, NEW stopTable \in BOOLEAN,
         DiscardChanges(stopTable)
  PROVE  Core'
  <1>1. /\ editing' = FALSE /\ shapeData' = Released /\ offsets' = disk[name].shx
        /\ qtree' = (IF useQTree THEN NULL ELSE qtree)
        /\ UNCHANGED <<disk, name, source, handle, labels, synced, useQTree, fault>>
    BY DEF DiscardChanges, DropTree
  <1>2. PICK r \in IF stopTable THEN StopTable(FALSE) ELSE {<<dbf, FileRows>>} :
          /\ dbf' = r[1]
          /\ lapses' = lapses \cup (IF Count # disk[name].shx THEN {"torn"} ELSE {})
                             \cup (IF r[1].rows # FileRows \/ ~Agree(disk[name])
                                     THEN {"split"} ELSE {})
                             \cup (IF Fids(shapeData) # Fids(disk[name].shp)
                                     THEN {"labels"} ELSE {})
    BY DEF DiscardChanges
  <1>3. /\ IsTable(dbf') /\ dbf'.file = dbf.file
        /\ dbf'.file # NULL /\ ~dbf'.editing => dbf'.rows = FileRows
    <2>1. CASE stopTable
      <3>1. r \in StopTable(FALSE)
        BY <1>2, <2>1
      <3>. QED
        BY <1>2, <3>1, TablesLeft
    <2>2. CASE ~stopTable
      <3>1. r[1] = dbf /\ r[2] = FileRows
        BY <1>2, <2>2
      <3>. QED
        BY <1>2, <3>1, FileRowsAre
    <2>. QED
      BY <2>1, <2>2
  <1>4. /\ lapses \subseteq lapses' /\ lapses' \subseteq lapses \cup {"torn", "split", "labels"}
        /\ "torn" \in lapses' \/ Count = disk[name].shx
        /\ "split" \in lapses' \/ (dbf'.rows = FileRows /\ Agree(disk[name]))
        /\ "labels" \in lapses' \/ Fids(shapeData) = Fids(disk[name].shp)
    BY <1>2
  <1>5. /\ name # NULL /\ Intact /\ (dbf.file = NULL => "split" \in lapses)
    BY DEF Core, Life, OnDisk
  <1>6. /\ Count \in 0..MaxShapes /\ Kept = shapeData /\ name \in Name
        /\ disk \in [Name -> Files]
    BY <1>5, WhileEditing
  <1>7. /\ disk[name].shp \in Seq(Shape) /\ disk[name].shx = Len(disk[name].shp)
        /\ disk[name].shx \in 0..MaxShapes
    <2>1. Len(disk[name].shp) \in Nat
      BY <1>5, LenProperties DEF Intact
    <2>2. disk[name].shx \in (0..MaxShapes) \cup {NULL, Broken}
      BY <1>6, FilesIs
    <2>. QED
      BY <1>5, <2>1, <2>2, NoMarks DEF Intact
  <1>8. shapeData' \in Seq(Shape \cup {NULL}) /\ Count' = Count /\ Kept' = disk[name].shp
    BY <1>1, ReleasedIs DEF Count, Kept
  <1>9. qtree' = NULL
    BY <1>1 DEF Core, TreeKept, Flags
  <1>10. Typed'
    BY <1>1, <1>3, <1>4, <1>6, <1>7, <1>8, <1>9 DEF Core, Typed, IsTable
  <1>11. Flags' /\ Unopened' /\ InMemory' /\ Edited'
    BY <1>1, <1>3 DEF Core, Flags, IsTable, Unopened, InMemory, Edited
  <1>12. OnDisk'
    <2>1. disk[name].shx <= Len(disk[name].shp)
      BY <1>7, NoMarks
    <2>. QED
      BY <1>1, <1>3, <1>4, <1>5, <1>7, <1>8, <2>1 DEF OnDisk, Intact
  <1>13. Damage'
    BY <1>1, <1>7, NoMarks DEF Damage
  <1>14. Table'
    BY <1>1, <1>3, FileRowsAre DEF Core, Table
  <1>15. RowsKept'
    <2>1. SUFFICES ASSUME ~Lapsed({"failed", "split", "torn"})' PROVE Fids(Kept') = dbf'.rows
      BY DEF RowsKept
    <2>2. "split" \notin lapses'
      BY <2>1 DEF Lapsed
    <2>3. dbf'.rows = FileRows /\ Agree(disk[name]) /\ dbf.file # NULL
      BY <1>4, <1>5, <2>2
    <2>4. FileRows = disk[name].dbf
      BY <2>3, FileRowsAre
    <2>. QED
      BY <1>8, <2>3, <2>4 DEF Agree
  <1>16. LabelsKept'
    BY <1>1, <1>4, <1>6, <1>8 DEF Core, LabelsKept, Lapsed
  <1>17. TreeKept' /\ FaultsHaveCauses'
    BY <1>1, <1>9 DEF TreeKept, TreeFollows, FaultsHaveCauses
  <1>. QED
    BY <1>10, <1>11, <1>12, <1>13, <1>14, <1>15, <1>16, <1>17 DEF Core, Life

LEMMA EditingStops ==
  ASSUME Core, fault = "none", NEW apply \in BOOLEAN, NEW stopTable \in BOOLEAN,
         StopEditingShapes(apply, stopTable)
  PROVE  Core'
  <1>0. editing /\ source \in {"memory", "disk"}
    BY DEF StopEditingShapes, Core, Typed, Life, Unopened
  <1>1. CASE source = "memory" /\ name # NULL
    <2>1. SaveAnd(TRUE)
      BY <1>1 DEF StopEditingShapes
    <2>. QED
      BY <1>0, <1>1, <2>1, SaveAndKeeps
  <1>2. CASE source = "memory" /\ name = NULL
    <2>1. /\ editing' = FALSE
          /\ UNCHANGED <<disk, name, source, handle, offsets, labels, synced, useQTree, qtree,
                         shapeData, dbf, fault, lapses>>
      BY <1>2 DEF StopEditingShapes, file, aids
    <2>2. Count' = Count /\ Kept' = Kept
      BY <1>2, <2>1 DEF Count, Kept
    <2>3. Typed' /\ Flags'
      BY <2>1, <2>2 DEF Core, Typed, Flags
    <2>4. Life'
      BY <1>2, <2>1 DEF Core, Life, Unopened, InMemory, OnDisk, Edited, Damage
    <2>5. Table' /\ RowsKept' /\ LabelsKept' /\ TreeKept' /\ FaultsHaveCauses'
      BY <2>1, <2>2
      DEF Core, Table, RowsKept, LabelsKept, Lapsed, TreeKept, TreeFollows, FaultsHaveCauses
    <2>. QED
      BY <2>3, <2>4, <2>5 DEF Core
  <1>3. CASE source = "disk" /\ ~handle
    <2>1. Fail("handle")
      BY <1>3 DEF StopEditingShapes
    <2>2. "failed" \in lapses
      BY <1>3 DEF Core, Life, OnDisk
    <2>. QED
      BY <2>1, <2>2, FailKeeps
  <1>4. CASE source = "disk" /\ handle /\ apply
    <2>1. ApplyChanges(stopTable)
      BY <1>4 DEF StopEditingShapes
    <2>. QED
      BY <1>0, <1>4, <2>1, ApplyKeeps
  <1>5. CASE source = "disk" /\ handle /\ ~apply
    <2>1. DiscardChanges(stopTable)
      BY <1>5 DEF StopEditingShapes
    <2>. QED
      BY <1>0, <1>5, <2>1, DiscardKeeps
  <1>. QED
    BY <1>0, <1>1, <1>2, <1>3, <1>4, <1>5

-----------------------------------------------------------------------------
(* Editing.                                                                *)

(* An edit changes no file; the table is being edited, or stays.           *)
LEMMA EditStays ==
  ASSUME Core, editing, UNCHANGED <<disk, name, source, handle, offsets, editing>>,
         lapses' \ {"moved", "labels", "split"} = lapses \ {"moved", "labels", "split"},
         "split" \in lapses => "split" \in lapses',
         dbf'.file = dbf.file, dbf' = dbf \/ dbf'.editing, shapeData' \in Seq(Shape)
  PROVE  Life' /\ Table' /\ Kept' = shapeData'
  <1>1. \A x : x \notin {"moved", "labels", "split"} => (x \in lapses' <=> x \in lapses)
    OBVIOUS
  <1>2. source # "none"
    BY WhileEditing
  <1>3. Unopened' /\ InMemory' /\ Edited' /\ Damage'
    BY <1>2 DEF Core, Life, Unopened, InMemory, Edited, Damage
  <1>4. OnDisk'
    BY <1>1 DEF Core, Life, OnDisk, Intact
  <1>5. Table'
    BY DEF Core, Table
  <1>. QED
    BY <1>3, <1>4, <1>5 DEF Life, Kept

LEMMA RowsInserted ==
  ASSUME NEW r \in Rows, NEW i \in 1..Len(r) + 1, NEW f \in 1..MaxShapes + MaxEdits
  PROVE  InsertAt(r, i, f) \in Rows
  BY InsertedAt DEF Rows

LEMMA RowsRemoved ==
  ASSUME NEW r \in Rows, NEW i \in 1..Len(r)
  PROVE  RemoveAt(r, i) \in Rows /\ Len(RemoveAt(r, i)) = Len(r) - 1
  BY RemovedAt DEF Rows

LEMMA InsertKeeps ==
  ASSUME Core, fault = "none", Counters, edits < MaxEdits,
         NEW i \in 1..Count + 1, NEW b \in Box, EditInsertShape(i, b)
  PROVE  Core'
  <1>1. /\ editing /\ dbf.editing /\ Count < MaxShapes /\ i <= Len(dbf.rows) + 1
        /\ UNCHANGED <<disk, name, source, handle, offsets, editing, synced, useQTree>>
        /\ dbf' = [dbf EXCEPT !.rows = InsertAt(@, i, NewFid)]
        /\ shapeData' = InsertAt(shapeData, i, [fid |-> NewFid, box |-> b])
        /\ labels' = WithLabel(NewFid, Count + 1)
        /\ fault' = IF useQTree /\ qtree = NULL THEN "tree" ELSE fault
        /\ qtree' = IF useQTree /\ qtree # NULL THEN Index!With(qtree, Node(i, b)) ELSE qtree
        /\ lapses' = lapses \cup {"labels"} \cup IF i <= Count THEN {"moved"} ELSE {}
    BY DEF EditInsertShape, Structure, file
  <1>2. /\ shapeData \in Seq(Shape) /\ Count \in 0..MaxShapes /\ Count = Len(shapeData)
        /\ Kept = shapeData
    BY <1>1, WhileEditing
  <1>3. NewFid \in 1..MaxShapes + MaxEdits /\ NewFid \in Nat
    BY NoMarks DEF NewFid, Counters
  <1>. DEFINE x == [fid |-> NewFid, box |-> b]
  <1>4. x \in Shape /\ x.fid = NewFid /\ x.box = b
    BY <1>3 DEF Shape
  <1>5. PICK t : t = shapeData'
    OBVIOUS
  <1>6. /\ t \in Seq(Shape) /\ Len(t) = Count + 1 /\ IsWith(t, shapeData, i, x)
        /\ Fids(t) = InsertAt(Fids(shapeData), i, NewFid)
    <2>1. t = InsertAt(shapeData, i, x)
      BY <1>1, <1>5
    <2>. HIDE DEF x
    <2>. QED
      BY <1>2, <1>4, <2>1, FidsInserted
  <1>7. IsTable(dbf)
    BY FileRowsAre
  <1>8. /\ IsTable(dbf') /\ dbf'.file = dbf.file /\ dbf'.editing
        /\ dbf'.rows = InsertAt(dbf.rows, i, NewFid)
    <2>1. dbf' = [rows |-> InsertAt(dbf.rows, i, NewFid), file |-> dbf.file, editing |-> dbf.editing]
      BY <1>1, <1>7 DEF IsTable
    <2>2. dbf.rows \in Rows /\ dbf.editing \in BOOLEAN
      BY <1>7 DEF IsTable
    <2>3. Len(dbf.rows) \in Nat
      BY <2>2, LenProperties DEF Rows
    <2>4. i \in 1..Len(dbf.rows) + 1
      BY <1>1, <1>2, <2>3, NoMarks
    <2>5. InsertAt(dbf.rows, i, NewFid) \in Rows
      BY <1>3, <2>2, <2>4, RowsInserted
    <2>. QED
      BY <1>1, <2>1, <2>2, <2>5 DEF IsTable
  <1>9. labels' \in Rows
    <2>1. labels \in Seq(1..MaxShapes + MaxEdits)
      BY DEF Core, Typed, Rows
    <2>2. Append(labels, NewFid) \in Seq(1..MaxShapes + MaxEdits)
      BY <1>3, <2>1, AppendProperties
    <2>. QED
      BY <1>1, <2>1, <2>2 DEF WithLabel, Rows
  <1>10. Count' = Count + 1
    BY <1>5, <1>6 DEF Count
  <1>11. i \in 1..MaxShapes /\ Node(i, b) \in TreeNode
    <2>1. i \in 1..MaxShapes
      BY <1>1, <1>2, NoMarks
    <2>. QED
      BY <2>1, NodeIs
  <1>12. /\ qtree' # NULL => IsTree(qtree')
         /\ ~useQTree => qtree' = NULL
         /\ useQTree /\ fault' = "none" => qtree' # NULL
         /\ useQTree /\ fault' = "none" /\ "moved" \notin lapses' => qtree' = Indexed(t)
    <2>1. CASE ~useQTree
      BY <1>1, <2>1 DEF Core, TreeKept
    <2>2. CASE useQTree /\ qtree = NULL
      BY <1>1, <2>2
    <2>3. CASE useQTree /\ qtree # NULL
      <3>1. qtree' = Index!With(qtree, Node(i, b)) /\ IsTree(qtree)
        BY <1>1, <2>3 DEF Core, Typed
      <3>2. IsTree(qtree') /\ qtree' # NULL
        BY <1>11, <3>1, TreeWith
      <3>3. ASSUME "moved" \notin lapses' PROVE qtree' = Indexed(t)
        <4>1. "moved" \notin lapses /\ i = Count + 1
          BY <1>1, <1>2, <3>3, NoMarks
        <4>2. qtree = Indexed(shapeData)
          BY <1>1, <2>3, <4>1 DEF Core, TreeKept, TreeFollows
        <4>3. Len(t) <= MaxShapes
          BY <1>1, <1>2, <1>6, NoMarks
        <4>4. IsWith(t, shapeData, Len(shapeData) + 1, x)
          BY <1>2, <1>6, <4>1
        <4>. HIDE DEF x
        <4>5. Index!With(Indexed(shapeData), Node(Len(shapeData) + 1, x.box)) = Indexed(t)
          BY ONLY <1>2, <1>4, <1>6, <4>3, <4>4, IndexedAppended
        <4>. QED
          BY <1>2, <1>4, <3>1, <4>1, <4>2, <4>5
      <3>. QED
        BY <2>3, <3>2, <3>3
    <2>. QED
      BY <2>1, <2>2, <2>3 DEF Core, Flags
  <1>13. Typed'
    <2>1. Count + 1 <= MaxShapes
      BY <1>1, <1>2, NoMarks
    <2>2. shapeData' \in Seq(Shape \cup {NULL})
      BY <1>5, <1>6
    <2>. HIDE DEF x
    <2>. QED
      BY <1>1, <1>8, <1>9, <1>10, <1>12, <2>1, <2>2 DEF Core, Typed, IsTable
  <1>14. Flags'
    BY <1>1, <1>8 DEF Core, Flags, IsTable
  <1>15. Life' /\ Table' /\ Kept' = shapeData'
    <2>1. shapeData' \in Seq(Shape)
      BY <1>5, <1>6
    <2>2. lapses' \ {"moved", "labels", "split"} = lapses \ {"moved", "labels", "split"}
          /\ ("split" \in lapses => "split" \in lapses')
      BY <1>1
    <2>. QED
      BY <1>1, <1>8, <2>1, <2>2, EditStays
  <1>16. RowsKept' /\ LabelsKept'
    BY <1>1, <1>2, <1>5, <1>6, <1>8, <1>15 DEF Core, RowsKept, LabelsKept, Lapsed
  <1>17. TreeKept'
    BY <1>1, <1>5, <1>12 DEF TreeKept, TreeFollows
  <1>18. FaultsHaveCauses'
    <2>1. CASE fault' = "none"
      BY <2>1 DEF FaultsHaveCauses
    <2>2. CASE fault' # "none"
      <3>1. fault' = "tree" /\ shapeData = <<>>
        BY <1>1, <2>2 DEF Core, TreeKept, TreeFollows
      <3>2. Count' <= 1
        BY <1>10, <3>1, NoFids DEF Count
      <3>. QED
        BY <3>1, <3>2 DEF FaultsHaveCauses
    <2>. QED
      BY <2>1, <2>2
  <1>. QED
    BY <1>13, <1>14, <1>15, <1>16, <1>17, <1>18 DEF Core

LEMMA UpdateKeeps ==
  ASSUME Core, fault = "none", NEW i \in 1..Count, NEW b \in Box, EditUpdateShape(i, b)
  PROVE  Core'
  <1>1. /\ editing
        /\ shapeData' = [shapeData EXCEPT ![i].box = b]
        /\ UNCHANGED <<disk, name, source, handle, offsets, labels, synced, useQTree, editing,
                       dbf, lapses>>
    BY DEF EditUpdateShape, file
  <1>2. /\ shapeData \in Seq(Shape) /\ Count \in 0..MaxShapes /\ Count = Len(shapeData)
        /\ Kept = shapeData
    BY <1>1, WhileEditing
  <1>3. PICK t : t = shapeData'
    OBVIOUS
  <1>4. /\ t \in Seq(Shape) /\ Len(t) = Count /\ Fids(t) = Fids(shapeData)
        /\ t[i].box = b /\ \A k \in 1..Count : k # i => t[k] = shapeData[k]
    <2>1. t = [shapeData EXCEPT ![i].box = b] /\ i \in 1..Len(shapeData)
      BY <1>1, <1>2, <1>3
    <2>2. LET u == [shapeData EXCEPT ![i].box = b]
          IN  /\ u \in Seq(Shape) /\ Len(u) = Len(shapeData) /\ Fids(u) = Fids(shapeData)
              /\ u[i].box = b /\ \A k \in 1..Len(shapeData) : k # i => u[k] = shapeData[k]
      <3>1. shapeData \in Seq(Shape) /\ i \in 1..Len(shapeData)
        BY <1>2, <2>1
      <3>. QED
        BY <3>1, FidsStay
    <2>. QED
      BY <1>2, <2>1, <2>2
  <1>5. Count' = Count /\ shapeData' \in Seq(Shape) /\ shapeData' \in Seq(Shape \cup {NULL})
    BY <1>3, <1>4 DEF Count
  <1>6. shapeData # <<>>
    BY <1>2, FidsAre
  <1>7. useQTree => qtree # NULL
    BY <1>1, <1>6 DEF Core, TreeKept, TreeFollows
  <1>8. /\ fault' = fault
        /\ ~useQTree => qtree' = qtree
        /\ useQTree => \E c \in Index!Without(qtree, i) : qtree' = Index!With(c, Node(i, b))
    BY <1>7 DEF EditUpdateShape
  <1>9. /\ qtree' # NULL => IsTree(qtree')
        /\ ~useQTree => qtree' = NULL
        /\ useQTree => qtree' # NULL /\ ("moved" \notin lapses => qtree' = Indexed(t))
    <2>1. CASE ~useQTree
      BY <1>8, <2>1 DEF Core, TreeKept
    <2>2. CASE useQTree
      <3>1. PICK c \in Index!Without(qtree, i) : qtree' = Index!With(c, Node(i, b))
        BY <1>8, <2>2
      <3>2. IsTree(qtree)
        BY <1>7, <2>2 DEF Core, Typed
      <3>3. IsTree(c)
        BY <3>2, TreeWithout
      <3>4. i \in 1..MaxShapes /\ Node(i, b) \in TreeNode
        <4>1. i \in 1..MaxShapes
          BY <1>2, NoMarks
        <4>. QED
          BY <4>1, NodeIs
      <3>5. IsTree(qtree') /\ qtree' # NULL
        BY <3>1, <3>3, <3>4, TreeWith
      <3>6. ASSUME "moved" \notin lapses PROVE qtree' = Indexed(t)
        <4>1. qtree = Indexed(shapeData)
          BY <1>1, <1>7, <2>2, <3>6 DEF Core, TreeKept, TreeFollows
        <4>2. c \in Index!Without(Indexed(shapeData), i)
          BY <3>1, <4>1
        <4>3. Len(shapeData) <= MaxShapes /\ Len(t) = Len(shapeData) /\ i \in 1..Len(shapeData)
              /\ \A k \in 1..Len(shapeData) : k # i => t[k] = shapeData[k]
          BY <1>2, <1>4, NoMarks
        <4>4. Index!With(c, Node(i, b)) = Indexed(t)
          BY ONLY <1>2, <1>4, <4>2, <4>3, b \in Box, IndexedUpdated
        <4>. QED
          BY <3>1, <4>4
      <3>. QED
        BY <2>2, <3>5, <3>6
    <2>. QED
      BY <2>1, <2>2 DEF Core, Flags
  <1>10. Typed' /\ Flags'
    BY <1>1, <1>5, <1>8, <1>9 DEF Core, Typed, Flags
  <1>11. Life' /\ Table' /\ Kept' = shapeData'
    BY <1>1, <1>5, EditStays
  <1>12. RowsKept' /\ LabelsKept'
    BY <1>1, <1>2, <1>3, <1>4, <1>5, <1>11 DEF Core, RowsKept, LabelsKept, Lapsed
  <1>13. TreeKept' /\ FaultsHaveCauses'
    BY <1>1, <1>3, <1>8, <1>9 DEF TreeKept, TreeFollows, FaultsHaveCauses
  <1>. QED
    BY <1>10, <1>11, <1>12, <1>13 DEF Core

LEMMA DeleteKeeps ==
  ASSUME Core, fault = "none", NEW i \in 1..Count, EditDeleteShape(i)
  PROVE  Core'
  <1>1. /\ editing /\ dbf.editing /\ i <= Len(dbf.rows)
        /\ UNCHANGED <<disk, name, source, handle, offsets, editing, synced, useQTree, qtree,
                       fault>>
        /\ dbf' = [dbf EXCEPT !.rows = RemoveAt(@, i)]
        /\ labels' = IF Synchronized(labels, Count) THEN RemoveAt(labels, i) ELSE labels
        /\ shapeData' = RemoveAt(shapeData, i)
        /\ lapses' = lapses \cup {"moved"}
    BY DEF EditDeleteShape, Structure, file
  <1>2. /\ shapeData \in Seq(Shape) /\ Count \in 0..MaxShapes /\ Count = Len(shapeData)
        /\ Kept = shapeData /\ Count \in Nat
    BY <1>1, WhileEditing, NoMarks
  <1>3. PICK t : t = shapeData'
    OBVIOUS
  <1>4. t \in Seq(Shape) /\ Len(t) = Count - 1 /\ Fids(t) = RemoveAt(Fids(shapeData), i)
    BY <1>1, <1>2, <1>3, FidsRemoved
  <1>5. Count' = Count - 1 /\ shapeData' \in Seq(Shape) /\ shapeData' \in Seq(Shape \cup {NULL})
    BY <1>3, <1>4 DEF Count
  <1>6. /\ IsTable(dbf') /\ dbf'.file = dbf.file /\ dbf'.editing
        /\ dbf'.rows = RemoveAt(dbf.rows, i)
    <2>1. IsTable(dbf)
      BY FileRowsAre
    <2>2. dbf' = [rows |-> RemoveAt(dbf.rows, i), file |-> dbf.file, editing |-> dbf.editing]
      BY <1>1, <2>1 DEF IsTable
    <2>3. dbf.rows \in Rows /\ dbf.editing \in BOOLEAN
      BY <2>1 DEF IsTable
    <2>4. Len(dbf.rows) \in Nat
      BY <2>3, LenProperties DEF Rows
    <2>5. RemoveAt(dbf.rows, i) \in Rows
      BY <1>1, <1>2, <2>3, <2>4, RowsRemoved
    <2>. QED
      BY <1>1, <2>2, <2>3, <2>5 DEF IsTable
  <1>7. /\ labels' \in Rows
        /\ Synchronized(labels, Count) => Len(labels) = Count
    <2>1. labels \in Rows
      BY DEF Core, Typed
    <2>2. CASE Synchronized(labels, Count)
      <3>1. i \in 1..Len(labels)
        BY <2>2 DEF Synchronized
      <3>. QED
        BY <1>1, <2>1, <2>2, <3>1, RowsRemoved DEF Synchronized
    <2>3. CASE ~Synchronized(labels, Count)
      BY <1>1, <2>1, <2>3
    <2>. QED
      BY <2>2, <2>3
  <1>8. shapeData # <<>>
    BY <1>2, FidsAre
  <1>9. useQTree => qtree # NULL
    BY <1>1, <1>8 DEF Core, TreeKept, TreeFollows
  <1>10. Typed'
    BY <1>1, <1>2, <1>5, <1>6, <1>7, NoMarks DEF Core, Typed, IsTable
  <1>11. Flags'
    BY <1>1, <1>6 DEF Core, Flags, IsTable
  <1>12. Life' /\ Table' /\ Kept' = shapeData'
    <2>1. lapses' \ {"moved", "labels", "split"} = lapses \ {"moved", "labels", "split"}
          /\ ("split" \in lapses => "split" \in lapses')
      BY <1>1
    <2>. QED
      BY <1>1, <1>5, <1>6, <2>1, EditStays
  <1>13. RowsKept'
    BY <1>1, <1>2, <1>3, <1>4, <1>6, <1>12 DEF Core, RowsKept, Lapsed
  <1>14. LabelsKept'
    <2>1. SUFFICES ASSUME ~Lapsed({"labels", "torn"})'
          PROVE (labels = <<>> \/ Len(labels) > Count \/ labels = Fids(Kept))'
      BY DEF LabelsKept
    <2>2. labels = <<>> \/ Len(labels) > Count \/ labels = Fids(shapeData)
      BY <1>1, <1>2, <2>1 DEF Core, LabelsKept, Lapsed
    <2>3. Len(Fids(shapeData)) = Count
      BY <1>2, FidsAre
    <2>4. CASE Synchronized(labels, Count)
      <3>1. labels = Fids(shapeData)
        BY <1>2, <1>7, <2>2, <2>4, NoFids
      <3>2. labels' = RemoveAt(labels, i)
        BY <1>1, <2>4
      <3>. QED
        BY <1>3, <1>4, <1>12, <3>1, <3>2
    <2>5. CASE ~Synchronized(labels, Count)
      <3>1. labels' = labels
        BY <1>1, <2>5
      <3>2. labels = <<>> \/ Len(labels) > Count - 1
        BY <1>2, <2>2, <2>3
      <3>. QED
        BY <1>5, <3>1, <3>2
    <2>. QED
      BY <2>4, <2>5
  <1>15. TreeKept' /\ FaultsHaveCauses'
    BY <1>1, <1>9 DEF Core, TreeKept, TreeFollows, FaultsHaveCauses
  <1>. QED
    BY <1>10, <1>11, <1>12, <1>13, <1>14, <1>15 DEF Core

LEMMA ClearKeeps ==
  ASSUME Core, fault = "none", EditClear
  PROVE  Core'
  <1>1. /\ editing /\ dbf.editing
        /\ UNCHANGED <<disk, name, source, handle, offsets, editing, synced, useQTree, fault>>
        /\ dbf' = [dbf EXCEPT !.rows = FileRows]
        /\ shapeData' = <<>>
        /\ labels' = IF Synchronized(labels, 0) THEN <<>> ELSE labels
        /\ qtree' = (IF useQTree THEN NULL ELSE qtree)
        /\ lapses' = (lapses \ {"moved"}) \cup {"labels"}
                        \cup IF FileRows # <<>> THEN {"split"} ELSE {}
    BY DEF EditClear, Structure, file, DropTree
  <1>2. /\ IsTable(dbf') /\ dbf'.file = dbf.file /\ dbf'.editing /\ dbf'.rows = FileRows
    <2>1. IsTable(dbf) /\ FileRows \in Rows
      BY FileRowsAre
    <2>2. dbf' = [rows |-> FileRows, file |-> dbf.file, editing |-> dbf.editing]
      BY <1>1, <2>1 DEF IsTable
    <2>. QED
      BY <1>1, <2>1, <2>2 DEF IsTable
  <1>3. Count' = 0 /\ shapeData' \in Seq(Shape)
    BY <1>1, NoFids DEF Count
  <1>4. Life' /\ Table' /\ Kept' = shapeData'
    <2>1. lapses' \ {"moved", "labels", "split"} = lapses \ {"moved", "labels", "split"}
          /\ ("split" \in lapses => "split" \in lapses')
      BY <1>1
    <2>. QED
      BY <1>1, <1>2, <1>3, <2>1, EditStays
  <1>5. qtree' = NULL
    BY <1>1 DEF Core, TreeKept, Flags
  <1>6. Typed'
    BY <1>1, <1>2, <1>3, <1>5, NoFids, NoMarks DEF Core, Typed, IsTable
  <1>7. Flags'
    BY <1>1, <1>2 DEF Core, Flags, IsTable
  <1>8. RowsKept' /\ LabelsKept'
    BY <1>1, <1>2, <1>4, NoFids DEF RowsKept, LabelsKept, Lapsed
  <1>9. TreeKept' /\ FaultsHaveCauses'
    BY <1>1, <1>5 DEF TreeKept, TreeFollows, FaultsHaveCauses
  <1>. QED
    BY <1>4, <1>6, <1>7, <1>8, <1>9 DEF Core

-----------------------------------------------------------------------------
(* Saving under another name.                                              *)

(* A shapefile that is read from the disk, or a table that is, has files.  *)
LEMMA OtherName ==
  ASSUME Core, source # "none", NEW n \in Name, disk[n] = NoFiles
  PROVE  /\ disk \in [Name -> Files] /\ disk[n].shp = NULL /\ disk[n].dbf = NULL
         /\ name = n => editing /\ ~(source = "disk" /\ handle) /\ dbf.file = NULL
  <1>1. disk \in [Name -> Files] /\ disk[n].shp = NULL /\ disk[n].dbf = NULL
    BY DEF Core, Typed, NoFiles
  <1>2. ASSUME name = n PROVE ~(source = "disk" /\ handle) /\ dbf.file = NULL
    BY <1>1, <1>2, NoMarks DEF Core, Life, OnDisk, Intact, Table
  <1>3. ASSUME name = n PROVE editing
    BY <1>2, <1>3, NoMarks DEF Core, Typed, Life, InMemory, OnDisk
  <1>. QED
    BY <1>1, <1>2, <1>3

(* The files of n are written, or damaged, but n is not opened.            *)
LEMMA OtherWritten ==
  ASSUME Core, fault = "none", source # "none", NEW n \in Name, disk[n] = NoFiles,
         ReadFault = "none",
         UNCHANGED <<name, source, handle, labels, synced, useQTree, qtree, editing,
                     shapeData, dbf, lapses, fault>>,
         disk' \in [Name -> Files], \A m \in Name : m # n => disk'[m] = disk[m],
         offsets' = offsets \/ offsets' = Count
  PROVE  Core'
  <1>1. name = n => editing /\ ~(source = "disk" /\ handle) /\ dbf.file = NULL
    BY OtherName
  <1>2. name # NULL /\ name # n => disk'[name] = disk[name]
    BY DEF Core, Typed
  <1>3. Count \in 0..MaxShapes
    BY ShapesAre
  <1>4. Count' = Count /\ Kept' = Kept
    <2>1. Count' = Count
      BY DEF Count
    <2>2. source = "disk" /\ ~editing => disk'[name] = disk[name]
      BY <1>1, <1>2 DEF Core, Life, OnDisk
    <2>. QED
      BY <2>1, <2>2 DEF Kept
  <1>5. Typed' /\ Flags'
    BY <1>3, <1>4 DEF Core, Typed, Flags
  <1>6. Unopened' /\ InMemory' /\ Edited' /\ Damage'
    BY <1>1, <1>2 DEF Core, Life, Unopened, InMemory, Edited, Damage
  <1>7. OnDisk'
    <2>1. SUFFICES ASSUME source = "disk" PROVE OnDisk'
      BY DEF OnDisk
    <2>2. /\ name # NULL
          /\ IF handle THEN Intact ELSE editing /\ "failed" \in lapses
          /\ dbf.file = NULL => "split" \in lapses
          /\ ~editing =>
               /\ offsets <= Len(disk[name].shp)
               /\ "torn" \in lapses \/ (Count = offsets /\ Count = Len(disk[name].shp))
      BY <2>1 DEF Core, Life, OnDisk
    <2>3. CASE ~handle
      BY <2>2, <2>3 DEF OnDisk
    <2>4. CASE handle
      <3>1. disk'[name] = disk[name] /\ Intact
        BY <1>1, <1>2, <2>1, <2>2, <2>4
      <3>2. Intact'
        BY <3>1 DEF Intact
      <3>3. ~editing => Count <= Len(disk[name].shp)
        <4>1. SUFFICES ASSUME ~editing PROVE Count <= Len(disk[name].shp)
          OBVIOUS
        <4>2. Len(disk[name].shp) \in Nat /\ offsets <= Len(disk[name].shp)
              /\ Count \in Nat /\ offsets \in Nat
          BY <1>3, <2>2, <3>1, <4>1, LenProperties, NoMarks DEF Intact, Core, Typed
        <4>3. Count = 0 \/ Count <= offsets
          BY <4>1, <4>2 DEF ReadFault
        <4>. QED
          BY <4>2, <4>3
      <3>. QED
        BY <1>4, <2>2, <2>4, <3>1, <3>2, <3>3 DEF OnDisk
    <2>. QED
      BY <2>3, <2>4 DEF Core, Flags
  <1>8. Table'
    BY <1>1, <1>2, NoMarks DEF Core, Typed, Table
  <1>9. RowsKept' /\ LabelsKept' /\ TreeKept' /\ FaultsHaveCauses'
    BY <1>4
    DEF Core, RowsKept, LabelsKept, Lapsed, TreeKept, TreeFollows, FaultsHaveCauses
  <1>. QED
    BY <1>5, <1>6, <1>7, <1>8, <1>9 DEF Core, Life

LEMMA ShpLeft ==
  ASSUME disk \in [Name -> Files], NEW n \in Name, LeavesShp(n)
  PROVE  /\ disk' \in [Name -> Files] /\ \A m \in Name : m # n => disk'[m] = disk[m]
         /\ offsets' = offsets
  <1>1. disk' \in Damaged(n) /\ offsets' = offsets
    BY DEF LeavesShp, Damaged
  <1>2. PICK d \in Damaged(n) : d = disk'
    BY <1>1
  <1>. QED
    BY <1>1, <1>2, DamagedIs

LEMMA DumpKeeps ==
  ASSUME Core, fault = "none", NEW n \in Name, Dump(n)
  PROVE  Core'
  <1>1. CASE ReadFault # "none"
    BY <1>1, ReadFails DEF Dump, Reading
  <1>2. CASE ReadFault = "none"
    <2>1. /\ source # "none" /\ disk[n] = NoFiles
          /\ UNCHANGED <<name, source, handle, labels, synced, useQTree, qtree, editing,
                         shapeData, dbf, lapses, fault>>
      BY <1>2 DEF Dump, Reading, aids
    <2>2. disk \in [Name -> Files] /\ Shapes \in Seq(Shape) /\ Len(Shapes) <= MaxShapes
      BY <1>2, ShapesAre, NoMarks DEF Core, Typed
    <2>3. /\ disk' \in [Name -> Files] /\ \A m \in Name : m # n => disk'[m] = disk[m]
          /\ offsets' = offsets \/ offsets' = Count
      <3>1. CASE LeavesShp(n)
        BY <2>2, <3>1, ShpLeft
      <3>2. CASE ~LeavesShp(n)
        <4>1. PICK rows \in {NULL} \cup (IF CanSaveTable THEN {dbf.rows} ELSE {}) :
                disk' = WrittenTo(n, Shapes, rows) /\ offsets' = Count
          BY <1>2, <3>2 DEF Dump, Reading
        <4>2. rows \in Rows \cup {NULL}
          BY <4>1 DEF Core, Typed
        <4>. QED
          BY <2>2, <4>1, <4>2, Written
      <3>. QED
        BY <3>1, <3>2
    <2>. QED
      BY <1>2, <2>1, <2>3, OtherWritten
  <1>. QED
    BY <1>1, <1>2

LEMMA SaveAsKeeps ==
  ASSUME Core, fault = "none", NEW n \in Name, SaveAs(n)
  PROVE  Core'
  <1>0. source # "none" /\ disk[n] = NoFiles
    BY DEF SaveAs
  <1>1. CASE ReadFault # "none"
    BY <1>1, ReadFails DEF SaveAs, Reading
  <1>2. CASE /\ ReadFault = "none"
             /\ LeavesShp(n) \/ (offsets' = Count /\ UNCHANGED disk)
             /\ UNCHANGED <<name, source, handle, aids, editing, shapeData, dbf, lapses, fault>>
    <2>1. UNCHANGED <<name, source, handle, labels, synced, useQTree, qtree, editing,
                      shapeData, dbf, lapses, fault>>
      BY <1>2 DEF aids
    <2>2. /\ disk' \in [Name -> Files] /\ \A m \in Name : m # n => disk'[m] = disk[m]
          /\ offsets' = offsets \/ offsets' = Count
      <3>1. disk \in [Name -> Files]
        BY DEF Core, Typed
      <3>. QED
        BY <1>2, <3>1, ShpLeft
    <2>. QED
      BY <1>0, <1>2, <2>1, <2>2, OtherWritten
  <1>3. CASE /\ ReadFault = "none"
             /\ disk' = WrittenTo(n, Shapes, dbf.rows)
             /\ name' = n /\ source' = "disk" /\ handle' = TRUE /\ offsets' = Count
             /\ dbf' = [dbf EXCEPT !.file = n]
             /\ qtree' = IF useQTree THEN TreeOf(Shapes) ELSE qtree
             /\ lapses' = lapses \ Cured
             /\ UNCHANGED <<labels, synced, useQTree, editing, shapeData, fault>>
    <2>1. /\ Shapes \in Seq(Shape) /\ Len(Shapes) = Count /\ Count \in 0..MaxShapes
          /\ Lapsed({"torn"}) \/ Shapes = Kept
          /\ (editing \/ source # "disk") => Shapes = shapeData
          /\ Len(Shapes) <= MaxShapes
      BY <1>3, ShapesAre, NoMarks
    <2>2. IsTable(dbf)
      BY FileRowsAre
    <2>3. IsTable(dbf') /\ dbf'.rows = dbf.rows /\ dbf'.file = n
      <3>1. dbf' = [rows |-> dbf.rows, file |-> n, editing |-> dbf.editing]
        BY <1>3, <2>2 DEF IsTable
      <3>. QED
        BY <2>2, <3>1 DEF IsTable
    <2>4. /\ disk' \in [Name -> Files]
          /\ disk'[n].shp = Shapes /\ disk'[n].shx = Count /\ disk'[n].dbf = dbf.rows
      <3>1. disk \in [Name -> Files] /\ dbf.rows \in Rows \cup {NULL}
        BY <2>2 DEF Core, Typed
      <3>. QED
        BY <1>3, <2>1, <3>1, Written
    <2>5. /\ qtree' # NULL => IsTree(qtree')
          /\ ~useQTree => qtree' = NULL
          /\ useQTree /\ editing => /\ qtree' = NULL => shapeData = <<>>
                                    /\ qtree' # NULL => qtree' = Indexed(shapeData)
      <3>1. /\ TreeOf(Shapes) = NULL => Shapes = <<>>
            /\ TreeOf(Shapes) # NULL => TreeOf(Shapes) = Indexed(Shapes) /\ IsTree(TreeOf(Shapes))
        BY <2>1, TreeOfIs
      <3>. QED
        BY <1>3, <2>1, <3>1 DEF Core, Typed, TreeKept
    <2>6. /\ \A x : x # "moved" => (x \in lapses' <=> x \in lapses)
          /\ lapses' \subseteq lapses
      BY <1>3 DEF Cured
    <2>7. Count' = Count /\ Kept' = Shapes
      BY <1>3, <2>1, <2>4 DEF Count, Kept
    <2>8. Typed'
      BY <1>3, <2>1, <2>3, <2>4, <2>5, <2>6, <2>7 DEF Core, Typed, IsTable
    <2>9. Flags' /\ Unopened' /\ InMemory' /\ Edited'
      BY <1>3, <2>3 DEF Core, Life, Flags, IsTable, Unopened, InMemory, Edited
    <2>10. OnDisk' /\ Damage'
      BY <1>3, <2>1, <2>3, <2>4, <2>7, NoMarks DEF OnDisk, Intact, Damage
    <2>11. Table'
      BY <1>3, <2>2, <2>3, <2>4 DEF Table, IsTable
    <2>12. RowsKept' /\ LabelsKept'
      BY <1>3, <2>1, <2>3, <2>6, <2>7 DEF Core, RowsKept, LabelsKept, Lapsed
    <2>13. TreeKept' /\ FaultsHaveCauses'
      BY <1>3, <2>5 DEF TreeKept, TreeFollows, FaultsHaveCauses
    <2>. QED
      BY <2>8, <2>9, <2>10, <2>11, <2>12, <2>13 DEF Core, Life
  <1>. QED
    BY <1>1, <1>2, <1>3 DEF SaveAs, Reading

-----------------------------------------------------------------------------
(* The inductive invariant.                                                *)

LEMMA CoreStep ==
  ASSUME Core, Counters, Next
  PROVE  Core'
  <1>0. fault = "none"
    BY DEF Next
  <1>1. ASSUME Edit, edits < MaxEdits PROVE Core'
    <2>1. CASE EditClear
      BY <1>0, <2>1, ClearKeeps
    <2>2. CASE GenerateLabels
      BY <1>0, <2>2, LabelsAreGenerated
    <2>3. ASSUME NEW b \in BOOLEAN, put_UseQTree(b) \/ put_Synchronized(b) PROVE Core'
      BY <1>0, <2>3, UseQTreeKeeps, SynchronizedKeeps
    <2>4. ASSUME NEW i \in 1..Count + 1, NEW b \in Box, EditInsertShape(i, b) PROVE Core'
      BY <1>0, <1>1, <2>4, InsertKeeps
    <2>5. ASSUME NEW i \in 1..Count, EditDeleteShape(i) PROVE Core'
      BY <1>0, <2>5, DeleteKeeps
    <2>6. ASSUME NEW i \in 1..Count, NEW b \in Box, EditUpdateShape(i, b) PROVE Core'
      BY <1>0, <2>6, UpdateKeeps
    <2>. QED
      BY <1>1, <2>1, <2>2, <2>3, <2>4, <2>5, <2>6 DEF Edit
  <1>2. ASSUME Write PROVE Core'
    <2>1. CASE Save
      BY <1>0, <2>1, SaveAndKeeps DEF Save
    <2>2. CASE StopEditingTable(TRUE)
      BY <1>0, <2>2, TableStops
    <2>3. CASE Close
      BY <1>0, <2>3, CloseKeeps
    <2>4. ASSUME NEW n \in Name, SaveAs(n) \/ Dump(n) PROVE Core'
      BY <1>0, <2>4, SaveAsKeeps, DumpKeeps
    <2>5. ASSUME NEW b \in BOOLEAN, StopEditingShapes(TRUE, b) PROVE Core'
      BY <1>0, <2>5, EditingStops
    <2>. QED
      BY <1>2, <2>1, <2>2, <2>3, <2>4, <2>5 DEF Write
  <1>3. ASSUME Other PROVE Core'
    <2>1. CASE CreateNew(NULL)
      BY <1>0, <2>1, CreateKeeps
    <2>2. ASSUME NEW n \in Name, Open(n) \/ CreateNew(n) PROVE Core'
      BY <1>0, <2>2, OpenKeeps, CreateKeeps
    <2>3. CASE StartEditingTable
      BY <1>0, <2>3, TableStarts
    <2>4. CASE StopEditingTable(FALSE)
      BY <1>0, <2>4, TableStops
    <2>5. CASE QuickQueryInEditMode
      BY <1>0, <2>5, QueryKeeps
    <2>6. ASSUME NEW b \in BOOLEAN, StartEditingShapes(b) \/ StopEditingShapes(FALSE, b)
          PROVE  Core'
      BY <1>0, <2>6, EditingStarts, EditingStops
    <2>. QED
      BY <1>3, <2>1, <2>2, <2>3, <2>4, <2>5, <2>6 DEF Other
  <1>. QED
    BY <1>1, <1>2, <1>3 DEF Next

LEMMA CountersStep ==
  ASSUME Counters, Next
  PROVE  Counters'
  BY ShapefileAssumption DEF Counters, Next

LEMMA IInvStutters ==
  ASSUME IInv, UNCHANGED vars
  PROVE  IInv'
  <1>1. UNCHANGED <<disk, name, source, editing, handle, shapeData, offsets, dbf, labels, synced,
                    useQTree, qtree, fault, lapses, edits, writes>>
    BY DEF vars
  <1>2. Kept' = Kept /\ Count' = Count /\ (Intact' <=> Intact)
    BY <1>1 DEF Kept, Count, Intact
  <1>3. Typed' /\ Flags' /\ Counters'
    BY <1>1, <1>2 DEF IInv, Core, Typed, Flags, Counters
  <1>4. Life'
    BY <1>1, <1>2 DEF IInv, Core, Life, Unopened, InMemory, OnDisk, Edited, Damage
  <1>5. Table' /\ RowsKept' /\ LabelsKept' /\ TreeKept' /\ FaultsHaveCauses'
    BY <1>1, <1>2
    DEF IInv, Core, Table, RowsKept, LabelsKept, Lapsed, TreeKept, TreeFollows, FaultsHaveCauses
  <1>. QED
    BY <1>3, <1>4, <1>5 DEF IInv, Core

LEMMA NextHolds == IInv /\ [Next]_vars => IInv'
  <1>. SUFFICES ASSUME IInv, [Next]_vars PROVE IInv'
    OBVIOUS
  <1>1. CASE Next
    BY <1>1, CoreStep, CountersStep DEF IInv
  <1>2. CASE UNCHANGED vars
    BY <1>2, IInvStutters
  <1>. QED
    BY <1>1, <1>2

(* What is kept of the life of a shapefile, of its table, rows, labels and *)
(* tree holds after any number of calls.                                   *)
THEOREM Inductive == Spec => []IInv
  BY InitHolds, NextHolds, PTL DEF Spec

LEMMA TypesHold == IInv => TypeOK
  <1>. SUFFICES ASSUME IInv PROVE TypeOK
    OBVIOUS
  <1>1. dbf.file \in {NULL, name}
    BY DEF IInv, Core, Table
  <1>2. {editing, handle, synced, useQTree, dbf.editing} \subseteq BOOLEAN
    BY DEF IInv, Core, Flags
  <1>3. qtree # NULL => BagToSet(qtree) \subseteq TreeNode
    BY DEF IInv, Core, Typed, IsTree, BagToSet
  <1>4. fault \in {"none", "handle", "offset", "tree"}
    BY DEF IInv, Core, Flags
  <1>. QED
    BY <1>1, <1>2, <1>3, <1>4 DEF IInv, Core, Typed, Counters, TypeOK

LEMMA RowsHold == IInv => RowsFollow
  <1>. SUFFICES ASSUME IInv, Sound({"failed", "split", "torn"}) PROVE Fids(Shapes) = dbf.rows
    BY DEF RowsFollow
  <1>1. Core /\ ReadFault = "none" /\ lapses \cap {"failed", "split", "torn"} = {}
    BY DEF IInv, Sound
  <1>2. ~Lapsed({"torn"}) /\ ~Lapsed({"failed", "split", "torn"})
    BY <1>1 DEF Lapsed
  <1>3. Shapes = Kept
    BY <1>1, <1>2, ShapesAre
  <1>4. Fids(Kept) = dbf.rows
    BY <1>1, <1>2 DEF Core, RowsKept
  <1>. QED
    BY <1>3, <1>4

LEMMA FilesHold == IInv => FilesAgree
  <1>. SUFFICES ASSUME IInv, Sound({"failed", "split", "torn"}), source = "disk", ~editing,
                       ~dbf.editing
                PROVE  Agree(disk[name])
    BY DEF FilesAgree
  <1>1. Core /\ lapses \cap {"failed", "split", "torn"} = {}
    BY DEF IInv, Sound
  <1>2. name # NULL /\ Intact /\ dbf.file # NULL
    BY <1>1 DEF Core, Life, OnDisk
  <1>3. /\ disk[name].shp \in Seq(Shape) /\ disk[name].shx = Len(disk[name].shp)
        /\ disk[name].dbf \in Rows /\ disk[name].dbf = dbf.rows
    BY <1>1, <1>2 DEF Core, Table, Intact
  <1>4. Fids(disk[name].shp) = dbf.rows
    BY <1>1 DEF Core, RowsKept, Lapsed, Kept
  <1>5. {disk[name].shp, disk[name].shx, disk[name].dbf} \cap {NULL, Broken} = {}
    <2>1. Len(disk[name].shp) \in Nat
      BY <1>3, LenProperties
    <2>. QED
      BY <1>3, <2>1, NoMarks
  <1>. QED
    BY <1>3, <1>4, <1>5 DEF Agree

LEMMA TreeHolds == IInv => TreeFollows
  BY DEF IInv, Core, TreeKept

LEMMA LabelsHold == IInv => LabelsFollow
  <1>. SUFFICES ASSUME IInv, Sound({"labels", "torn"}), Synchronized(labels, Count)
                PROVE  labels = Fids(Shapes)
    BY DEF LabelsFollow
  <1>1. Core /\ ReadFault = "none" /\ lapses \cap {"labels", "torn"} = {} /\ Len(labels) = Count
    BY DEF IInv, Sound, Synchronized
  <1>2. /\ Shapes = Kept /\ Count \in 0..MaxShapes
        /\ Shapes = <<>> <=> Count = 0
    BY <1>1, ShapesAre DEF Lapsed
  <1>3. labels = <<>> \/ Len(labels) > Count \/ labels = Fids(Kept)
    BY <1>1 DEF Core, LabelsKept, Lapsed
  <1>4. ~(Len(labels) > Count)
    BY <1>1, <1>2, NoMarks
  <1>5. labels = <<>> => Fids(Shapes) = <<>>
    BY <1>1, <1>2, NoFids
  <1>. QED
    BY <1>2, <1>3, <1>4, <1>5

LEMMA DamageHolds == IInv => DamageIsMendable
  <1>. SUFFICES ASSUME IInv, name # NULL, Broken \in {disk[name].shp, disk[name].shx}
                PROVE  editing /\ NULL \notin ToSet(shapeData)
    BY DEF DamageIsMendable
  <1>1. editing /\ shapeData \in Seq(Shape)
    BY DEF IInv, Core, Life, Damage, Edited
  <1>2. \A i \in DOMAIN shapeData : shapeData[i] \in Shape
    BY <1>1, LenProperties, ElementOfSeq
  <1>. QED
    BY <1>1, <1>2, NoMarks DEF ToSet

LEMMA CausesHold == IInv => FaultsHaveCauses
  BY DEF IInv, Core

-----------------------------------------------------------------------------
(* The theorems.                                                           *)

(* The variables keep their types: a shape that is in the memory or in a   *)
(* file is a shape, the table is that of the shapefile,                   *)
(* and the nodes of the tree are within the bounds.                       *)
THEOREM TypeCorrect == Spec => []TypeOK
  BY Inductive, TypesHold, PTL

(* Each shape has its own row (Shapefile_Edit.cpp, EditInsertShape and     *)
(* EditDeleteShape change both), however the shapes and the table are      *)
(* opened, saved and discarded, until one is without the other.            *)
THEOREM EachShapeHasItsRow == Spec => []RowsFollow
  BY Inductive, RowsHold, PTL

(* The .shp, .shx and .dbf files agree whenever nothing is being edited.   *)
THEOREM TheThreeFilesAgree == Spec => []FilesAgree
  BY Inductive, FilesHold, PTL

(* While shapes are edited, the quadtree has the shapes where they are;    *)
(* nothing but an insertion before the end and a deletion makes it lag.    *)
THEOREM TheTreeFollows == Spec => []TreeFollows
  BY Inductive, TreeHolds, PTL

(* Labels that count as synchronized are those of their shapes.            *)
THEOREM LabelsAreTheirs == Spec => []LabelsFollow
  BY Inductive, LabelsHold, PTL

(* A file that a failed save has truncated can be written again: its       *)
(* shapes are all in the memory.                                           *)
THEOREM NothingIsLostByAFailedSave == Spec => []DamageIsMendable
  BY Inductive, DamageHolds, PTL

(* No null pointer and no missing offset is used but for a stated cause.   *)
THEOREM NoOtherFaults == Spec => []FaultsHaveCauses
  BY Inductive, CausesHold, PTL

-----------------------------------------------------------------------------
(* Boxes.                                                                  *)

IntBox == {e \in Extent : IsBox(e)}

LEMMA BoxesAre ==
  /\ \A e : IsBox(e) <=> e \in IntBox
  /\ \A b \in Rect \cup FirstExtent : b \in IntBox
  /\ \A e \in IntBox : /\ e.left \in Int /\ e.right \in Int /\ e.top \in Int /\ e.bottom \in Int
                       /\ e.left <= e.right /\ e.bottom <= e.top
  /\ \A e \in Extent : e.left \in Int /\ e.right \in Int /\ e.top \in Int /\ e.bottom \in Int
  BY QTreeAssumption DEF IntBox, IsBox, Extent

LEMMA ExtentsEqual ==
  ASSUME NEW e \in Extent, NEW f \in Extent,
         e.left = f.left, e.right = f.right, e.top = f.top, e.bottom = f.bottom
  PROVE  e = f
  BY DEF Extent

LEMMA ZeroIs ==
  /\ Zero \in IntBox
  /\ Zero.left = 0 /\ Zero.right = 0 /\ Zero.top = 0 /\ Zero.bottom = 0
  BY DEF Zero, IntBox, IsBox, Extent

LEMMA ContainIsOrder ==
  /\ \A e \in Extent : Contain(e, e)
  /\ \A e, f, g \in Extent : Contain(e, f) /\ Contain(f, g) => Contain(e, g)
  BY BoxesAre DEF Contain

LEMMA ZeroHasOnlyZero ==
  ASSUME NEW b \in IntBox, Contain(Zero, b)
  PROVE  b = Zero
  <1>1. b.left = 0 /\ b.right = 0 /\ b.top = 0 /\ b.bottom = 0
    BY BoxesAre, ZeroIs DEF Contain
  <1>. QED
    BY <1>1, ZeroIs, ExtentsEqual DEF IntBox

LEMMA MiddleIs ==
  ASSUME NEW a \in Int, NEW b \in Int
  PROVE  /\ (a + b) \div 2 \in Int
         /\ a <= b => a <= (a + b) \div 2 /\ (a + b) \div 2 <= b
         /\ (a - (b - a) + b) \div 2 = a
         /\ (a + (b + (b - a))) \div 2 = b
  OBVIOUS

LEMMA QuarterIs ==
  ASSUME NEW e \in IntBox, NEW c \in Corners
  PROVE  Quarter(e, c) \in IntBox /\ Contain(e, Quarter(e, c))
  <1>1. /\ middleX(e) \in Int /\ middleY(e) \in Int
        /\ e.left <= middleX(e) /\ middleX(e) <= e.right
        /\ e.bottom <= middleY(e) /\ middleY(e) <= e.top
    BY BoxesAre, MiddleIs DEF middleX, middleY
  <1>. QED
    BY BoxesAre, <1>1 DEF Quarter, IntBox, IsBox, Extent, Contain

LEMMA DoubledIs ==
  ASSUME NEW e \in IntBox, NEW b \in IntBox
  PROVE  /\ Doubled(e, b) \in IntBox /\ Contain(Doubled(e, b), e)
         /\ OldCorner(e, b) \in Corners
         /\ Quarter(Doubled(e, b), OldCorner(e, b)) = e
         /\ ~Endless(e, b) => ~Endless(Doubled(e, b), b)
  <1>. DEFINE d == Doubled(e, b)
              c == OldCorner(e, b)
  <1>1. /\ e.left \in Int /\ e.right \in Int /\ e.top \in Int /\ e.bottom \in Int
        /\ e.left <= e.right /\ e.bottom <= e.top
        /\ b.left \in Int /\ b.right \in Int /\ b.top \in Int /\ b.bottom \in Int
    BY BoxesAre
  <1>2. /\ d.left = (IF b.left < e.left THEN e.left - (e.right - e.left) ELSE e.left)
        /\ d.right = (IF b.left < e.left THEN e.right ELSE e.right + (e.right - e.left))
        /\ d.top = (IF b.top > e.top THEN e.top + (e.top - e.bottom) ELSE e.top)
        /\ d.bottom = (IF b.top > e.top THEN e.bottom ELSE e.bottom - (e.top - e.bottom))
        /\ d = [left |-> d.left, right |-> d.right, top |-> d.top, bottom |-> d.bottom]
    BY DEF Doubled
  <1>3. c \in Corners
    BY DEF OldCorner, Corners
  <1>4. /\ c \in {"LT", "LB"} <=> ~(b.left < e.left)
        /\ c \in {"LT", "RT"} <=> ~(b.top > e.top)
    BY DEF OldCorner
  <1>. HIDE DEF d, c
  <1>5. d \in IntBox /\ Contain(d, e)
    BY <1>1, <1>2 DEF IntBox, IsBox, Extent, Contain
  <1>6. /\ middleX(d) = (IF b.left < e.left THEN e.left ELSE e.right)
        /\ middleY(d) = (IF b.top > e.top THEN e.top ELSE e.bottom)
    <2>1. /\ (e.left - (e.right - e.left) + e.right) \div 2 = e.left
          /\ (e.left + (e.right + (e.right - e.left))) \div 2 = e.right
          /\ (e.bottom + (e.top + (e.top - e.bottom))) \div 2 = e.top
          /\ (e.bottom - (e.top - e.bottom) + e.top) \div 2 = e.bottom
      BY <1>1, MiddleIs
    <2>2. /\ b.left < e.left => d.left + d.right = e.left - (e.right - e.left) + e.right
          /\ ~(b.left < e.left) => d.left + d.right = e.left + (e.right + (e.right - e.left))
          /\ b.top > e.top => d.top + d.bottom = e.bottom + (e.top + (e.top - e.bottom))
          /\ ~(b.top > e.top) => d.top + d.bottom = e.bottom - (e.top - e.bottom) + e.top
      BY <1>1, <1>2
    <2>3. middleX(d) = (d.left + d.right) \div 2 /\ middleY(d) = (d.top + d.bottom) \div 2
      BY DEF middleX, middleY
    <2>. QED
      BY <2>1, <2>2, <2>3
  <1>7. Quarter(d, c) = e
    <2>1. /\ Quarter(d, c).left = e.left /\ Quarter(d, c).right = e.right
          /\ Quarter(d, c).top = e.top /\ Quarter(d, c).bottom = e.bottom
      BY <1>1, <1>2, <1>4, <1>6 DEF Quarter
    <2>2. Quarter(d, c) \in Extent /\ e \in Extent
      BY <1>3, <1>5, QuarterIs DEF IntBox
    <2>. QED
      BY <2>1, <2>2, ExtentsEqual
  <1>8. ~Endless(e, b) => ~Endless(d, b)
    <2>1. /\ d.left = d.right => e.left = e.right /\ d.left = e.left /\ d.right = e.right
          /\ d.top = d.bottom => e.top = e.bottom /\ d.top = e.top /\ d.bottom = e.bottom
      BY <1>1, <1>2
    <2>. QED
      BY <2>1 DEF Endless
  <1>. QED
    BY <1>3, <1>5, <1>7, <1>8 DEF d, c

(* AddNode returns from a tree that can take the box, or grow to do so.    *)
CanTake(e, b) == ~Endless(e, b) /\ (Contain(e, b) \/ e # Zero)

LEMMA ContainedIsTaken ==
  ASSUME NEW e \in IntBox, NEW b \in IntBox, Contain(e, b)
  PROVE  CanTake(e, b)
  BY BoxesAre DEF CanTake, Endless, Contain

LEMMA CornerTakes ==
  ASSUME NEW e \in IntBox, NEW b \in IntBox, Contain(e, b), ~Crosses(e, b),
         NEW f \in IntBox, Contain(f, Quarter(e, CornerOf(e, b)))
  PROVE  CanTake(f, b)
  <1>. DEFINE c == CornerOf(e, b)
              q == Quarter(e, c)
  <1>1. /\ e.left \in Int /\ e.right \in Int /\ e.top \in Int /\ e.bottom \in Int
        /\ e.left <= e.right /\ e.bottom <= e.top
        /\ b.left \in Int /\ b.right \in Int /\ b.top \in Int /\ b.bottom \in Int
        /\ b.left <= b.right /\ b.bottom <= b.top
        /\ f.left \in Int /\ f.right \in Int /\ f.top \in Int /\ f.bottom \in Int
        /\ f.left <= f.right /\ f.bottom <= f.top
        /\ b.left >= e.left /\ b.right <= e.right /\ b.bottom >= e.bottom /\ b.top <= e.top
    BY BoxesAre DEF Contain
  <1>2. /\ middleX(e) \in Int /\ middleY(e) \in Int
        /\ e.left <= middleX(e) /\ middleX(e) <= e.right
        /\ e.bottom <= middleY(e) /\ middleY(e) <= e.top
    BY <1>1, MiddleIs DEF middleX, middleY
  <1>3. /\ b.left > middleX(e) \/ b.right <= middleX(e)
        /\ b.top <= middleY(e) \/ b.bottom > middleY(e)
    BY <1>1, <1>2 DEF Crosses
  <1>4. c \in Corners
    BY DEF CornerOf, Corners
  <1>5. q \in IntBox /\ q.left \in Int /\ q.right \in Int /\ q.top \in Int /\ q.bottom \in Int
    BY <1>4, QuarterIs, BoxesAre
  <1>6. /\ c \in {"LT", "LB"} => b.right <= middleX(e)
        /\ c \in {"LT", "RT"} <=> b.bottom > middleY(e)
    BY <1>1, <1>2, <1>3 DEF CornerOf
  <1>7. /\ q.left = q.right => q.left <= b.left /\ b.right <= q.right
        /\ q.bottom <= b.bottom /\ b.top <= q.top
    <2>1. /\ q.left = (IF c \in {"LT", "LB"} THEN e.left ELSE middleX(e))
          /\ q.right = (IF c \in {"LT", "LB"} THEN middleX(e) ELSE e.right)
          /\ q.top = (IF c \in {"LT", "RT"} THEN e.top ELSE middleY(e))
          /\ q.bottom = (IF c \in {"LT", "RT"} THEN middleY(e) ELSE e.bottom)
      BY DEF Quarter
    <2>2. middleX(e) = e.right => e.left = e.right
      BY <1>1 DEF middleX
    <2>. HIDE DEF q, c
    <2>. QED
      BY <1>1, <1>2, <1>3, <1>6, <2>1, <2>2
  <1>. HIDE DEF q, c
  <1>8. /\ f.left <= q.left /\ q.right <= f.right /\ f.bottom <= q.bottom /\ q.top <= f.top
        /\ q.left <= q.right /\ q.bottom <= q.top
    BY <1>5, BoxesAre DEF q, c, Contain
  <1>9. ~Endless(f, b)
    BY <1>1, <1>5, <1>7, <1>8 DEF Endless
  <1>10. f.left = f.right => Contain(f, b)
    BY <1>1, <1>5, <1>7, <1>8 DEF Contain
  <1>. QED
    BY <1>9, <1>10, ZeroIs DEF CanTake

-----------------------------------------------------------------------------
(* What the actions do to the trees.                                       *)

LEMMA TreesAre ==
  ASSUME TreeTypeOK
  PROVE  /\ Len(trees) \in Nat /\ DOMAIN trees = 1..Len(trees) /\ 1 \in DOMAIN trees
         /\ Len(trees) + 1 \notin DOMAIN trees
         /\ \A t \in DOMAIN trees :
              /\ trees[t] \in Tree /\ trees[t].extent \in IntBox /\ trees[t].extent \in Extent
              /\ trees[t].isFull \in BOOLEAN
              /\ trees[t].at \in [Corners -> Nat] /\ trees[t].in \in SUBSET Nat
         /\ \A x \in nodes :
              /\ x.node \in QNode /\ x.node.box \in IntBox /\ x.tree \in DOMAIN trees
              /\ x.nr \in 1..made
              /\ x = [node |-> x.node, tree |-> x.tree, nr |-> x.nr]
  <1>1. trees \in Seq(Tree) /\ Len(trees) >= 1
    BY DEF TreeTypeOK
  <1>2. Len(trees) \in Nat /\ DOMAIN trees = 1..Len(trees) /\ \A t \in 1..Len(trees) : trees[t] \in Tree
    BY <1>1, LenProperties, ElementOfSeq
  <1>3. \A x \in nodes : x \in [node : QNode, tree : DOMAIN trees, nr : 1..made]
    BY DEF TreeTypeOK
  <1>4. \A n \in QNode : n.box \in IntBox
    BY BoxesAre DEF QNode
  <1>5. \A t \in DOMAIN trees : trees[t].extent \in IntBox
    BY BoxesAre DEF TreeTypeOK
  <1>. QED
    BY <1>1, <1>2, <1>3, <1>4, <1>5 DEF Tree

LEMMA CallsAre ==
  ASSUME TreeTypeOK
  PROVE  /\ Len(calls) \in Nat /\ DOMAIN calls = 1..Len(calls)
         /\ \A k \in DOMAIN calls :
              /\ calls[k].tree \in DOMAIN trees /\ calls[k].node \in QNode
              /\ calls[k].node.box \in IntBox
              /\ calls[k] = [tree |-> calls[k].tree, node |-> calls[k].node]
         /\ calls # <<>> => Len(calls) \in DOMAIN calls /\ Last(calls) = calls[Len(calls)]
  <1>1. calls \in Seq([tree : DOMAIN trees, node : QNode])
    BY DEF TreeTypeOK
  <1>2. /\ Len(calls) \in Nat /\ DOMAIN calls = 1..Len(calls)
        /\ \A k \in 1..Len(calls) : calls[k] \in [tree : DOMAIN trees, node : QNode]
    BY <1>1, LenProperties, ElementOfSeq
  <1>3. \A n \in QNode : n.box \in IntBox
    BY BoxesAre DEF QNode
  <1>4. calls # <<>> => Len(calls) # 0
    BY <1>1, EmptySeq
  <1>. QED
    BY <1>2, <1>3, <1>4 DEF Last

(* The innermost call is that with node n to tree t.                       *)
Innermost(t, n) ==
  calls # <<>> /\ ~hung /\ t = Last(calls).tree /\ n = Last(calls).node

LEMMA InnermostIs ==
  ASSUME TreeTypeOK, NEW t, NEW n, Innermost(t, n)
  PROVE  /\ t \in DOMAIN trees /\ n \in QNode /\ n.box \in IntBox
         /\ Len(calls) \in DOMAIN calls /\ Len(calls) - 1 \in Nat
         /\ calls[Len(calls)].tree = t /\ calls[Len(calls)].node = n
  BY CallsAre DEF Innermost

LEMMA SeqOfTrees ==
  ASSUME NEW m \in Nat, NEW f, DOMAIN f = 1..m, f = [s \in 1..m |-> f[s]],
         \A s \in 1..m : /\ f[s].extent \in IntBox /\ f[s].isFull \in BOOLEAN
                         /\ f[s].at \in [Corners -> Nat] /\ f[s].in \in SUBSET Nat
                         /\ f[s] = [extent |-> f[s].extent, isFull |-> f[s].isFull,
                                    at |-> f[s].at, in |-> f[s].in]
  PROVE  f \in Seq(Tree) /\ Len(f) = m
  <1>1. \A s \in 1..m : f[s] \in Tree
    BY DEF Tree, IntBox
  <1>2. f \in [1..m -> Tree]
    BY <1>1
  <1>. QED
    BY <1>2

LEMMA TakeExtentIs ==
  ASSUME TreeTypeOK, NEW t \in DOMAIN trees, NEW n \in QNode, TakeExtent(t, n)
  PROVE  /\ trees' \in Seq(Tree) /\ Len(trees') = Len(trees) /\ DOMAIN trees' = DOMAIN trees
         /\ \A s \in DOMAIN trees :
              /\ trees'[s].extent = IF s = t THEN n.box ELSE trees[s].extent
              /\ trees'[s].isFull = trees[s].isFull
              /\ trees'[s].at = trees[s].at /\ trees'[s].in = trees[s].in
              /\ trees'[s].extent \in IntBox
  <1>1. trees' = [trees EXCEPT ![t].extent = n.box]
    BY DEF TakeExtent
  <1>2. n.box \in IntBox
    BY BoxesAre DEF QNode
  <1>3. \A u \in Tree : u = [extent |-> u.extent, isFull |-> u.isFull, at |-> u.at, in |-> u.in]
    BY DEF Tree
  <1>4. DOMAIN trees' = 1..Len(trees) /\ trees' = [s \in 1..Len(trees) |-> trees'[s]]
    BY <1>1, TreesAre
  <1>5. ASSUME NEW s \in DOMAIN trees
        PROVE  /\ trees'[s].extent = IF s = t THEN n.box ELSE trees[s].extent
               /\ trees'[s].isFull = trees[s].isFull
               /\ trees'[s].at = trees[s].at /\ trees'[s].in = trees[s].in
               /\ trees'[s] = [extent |-> trees'[s].extent, isFull |-> trees'[s].isFull,
                               at |-> trees'[s].at, in |-> trees'[s].in]
    <2>1. trees[s] \in Tree
      BY TreesAre
    <2>2. trees'[s] = IF s = t THEN [trees[s] EXCEPT !.extent = n.box] ELSE trees[s]
      BY <1>1
    <2>. QED
      BY <1>3, <2>1, <2>2 DEF Tree
  <1>6. \A s \in DOMAIN trees : trees'[s].extent \in IntBox
    BY <1>2, <1>5, TreesAre
  <1>7. trees' \in Seq(Tree) /\ Len(trees') = Len(trees)
    BY <1>4, <1>5, <1>6, TreesAre, SeqOfTrees
  <1>. QED
    BY <1>4, <1>5, <1>6, <1>7, TreesAre

(* What is in a tree that grows is, from then on, in one tree more.        *)
InMore(t, s) == IF t \in trees[s].in THEN trees[s].in \cup {Len(trees) + 1} ELSE trees[s].in

LEMMA GrowIs ==
  ASSUME TreeTypeOK, NEW t \in DOMAIN trees, NEW n \in QNode, Grow(t, n),
         t \in trees[t].in
  PROVE  LET e == trees[t].extent
             old == Len(trees) + 1
         IN /\ trees' \in Seq(Tree) /\ Len(trees') = old
            /\ DOMAIN trees' = DOMAIN trees \cup {old}
            /\ trees'[t].extent = Doubled(e, n.box) /\ ~trees'[t].isFull
            /\ \A c \in Corners : trees'[t].at[c] = IF c = OldCorner(e, n.box) THEN old ELSE 0
            /\ trees'[t].in = trees[t].in
            /\ trees'[old].extent = e /\ trees'[old].isFull = trees[t].isFull
            /\ trees'[old].at = trees[t].at /\ trees'[old].in = trees[t].in \cup {old}
            /\ \A s \in DOMAIN trees \ {t} :
                 /\ trees'[s].extent = trees[s].extent /\ trees'[s].isFull = trees[s].isFull
                 /\ trees'[s].at = trees[s].at /\ trees'[s].in = InMore(t, s)
            /\ \A s \in DOMAIN trees' : trees'[s].extent \in IntBox
  <1>. DEFINE e == trees[t].extent
              old == Len(trees) + 1
              co == OldCorner(e, n.box)
  <1>1. old \in Nat /\ DOMAIN trees = 1..Len(trees) /\ 1..old = DOMAIN trees \cup {old}
        /\ old \notin DOMAIN trees
    BY TreesAre
  <1>2. n.box \in IntBox /\ e \in IntBox
    BY BoxesAre, TreesAre DEF QNode
  <1>3. \A u \in Tree : u = [extent |-> u.extent, isFull |-> u.isFull, at |-> u.at, in |-> u.in]
    BY DEF Tree
  <1>. DEFINE Within(s) == IF t \in trees[s].in THEN [trees[s] EXCEPT !.in = @ \cup {old}] ELSE trees[s]
              top == NewTree(Doubled(e, n.box), [NoCorners EXCEPT ![co] = old], trees[t].in)
  <1>4. trees' = [s \in 1..old |-> CASE s = t -> top [] s = old -> Within(t) [] OTHER -> Within(s)]
    BY DEF Grow
  <1>5. ASSUME NEW s \in DOMAIN trees
        PROVE  /\ Within(s).extent = trees[s].extent /\ Within(s).isFull = trees[s].isFull
               /\ Within(s).at = trees[s].at /\ Within(s).in = InMore(t, s)
               /\ Within(s) = [extent |-> Within(s).extent, isFull |-> Within(s).isFull,
                               at |-> Within(s).at, in |-> Within(s).in]
    <2>1. trees[s] \in Tree
      BY TreesAre
    <2>. QED
      BY <1>3, <2>1 DEF InMore, Tree
  <1>6. /\ top.extent = Doubled(e, n.box) /\ top.isFull = FALSE /\ top.in = trees[t].in
        /\ top.at = [c \in Corners |-> IF c = co THEN old ELSE 0]
        /\ top = [extent |-> top.extent, isFull |-> top.isFull, at |-> top.at, in |-> top.in]
    <2>. DEFINE a == [NoCorners EXCEPT ![co] = old]
    <2>1. co \in Corners
      BY DEF co, OldCorner, Corners
    <2>2. a = [c \in Corners |-> IF c = co THEN old ELSE 0]
      BY <2>1 DEF NoCorners
    <2>3. top = [extent |-> Doubled(e, n.box), isFull |-> FALSE, at |-> a, in |-> trees[t].in]
      BY DEF NewTree
    <2>. HIDE DEF a, top
    <2>. QED
      BY <2>2, <2>3
  <1>. HIDE DEF top, Within, co
  <1>7. /\ DOMAIN trees' = 1..old /\ trees' = [s \in 1..old |-> trees'[s]]
        /\ trees'[t] = top /\ trees'[old] = Within(t)
        /\ \A s \in DOMAIN trees \ {t} : trees'[s] = Within(s)
    BY <1>1, <1>4
  <1>. HIDE DEF old, e
  <1>8. Doubled(e, n.box) \in IntBox
    BY <1>2, DoubledIs
  <1>9. ASSUME NEW s \in DOMAIN trees
        PROVE  /\ Within(s).extent \in IntBox /\ Within(s).isFull \in BOOLEAN
               /\ Within(s).at \in [Corners -> Nat] /\ Within(s).in \in SUBSET Nat
    BY <1>1, <1>5, TreesAre DEF InMore, old
  <1>10. /\ top.extent \in IntBox /\ top.isFull \in BOOLEAN
         /\ top.at \in [Corners -> Nat] /\ top.in \in SUBSET Nat
    <2>1. [c \in Corners |-> IF c = co THEN old ELSE 0] \in [Corners -> Nat]
      BY <1>1
    <2>2. trees[t].in \in SUBSET Nat
      BY TreesAre
    <2>. QED
      BY <1>6, <1>8, <2>1, <2>2
  <1>11. ASSUME NEW s \in 1..old
         PROVE  /\ trees'[s].extent \in IntBox /\ trees'[s].isFull \in BOOLEAN
                /\ trees'[s].at \in [Corners -> Nat] /\ trees'[s].in \in SUBSET Nat
                /\ trees'[s] = [extent |-> trees'[s].extent, isFull |-> trees'[s].isFull,
                                at |-> trees'[s].at, in |-> trees'[s].in]
    <2>1. trees'[s] = top \/ \E u \in DOMAIN trees : trees'[s] = Within(u)
      BY <1>1, <1>7
    <2>. QED
      BY <2>1, <1>5, <1>6, <1>9, <1>10
  <1>12. trees' \in Seq(Tree) /\ Len(trees') = old
    BY <1>1, <1>7, <1>11, SeqOfTrees
  <1>13. InMore(t, t) = trees[t].in \cup {old}
    BY DEF InMore, old
  <1>14. \A c \in Corners : trees'[t].at[c] = IF c = co THEN old ELSE 0
    BY <1>6, <1>7
  <1>. QED
    BY <1>1, <1>5, <1>6, <1>7, <1>11, <1>12, <1>13, <1>14 DEF e, old, co

LEMMA RegenerateIs ==
  ASSUME TreeTypeOK, NEW t \in DOMAIN trees, NEW n \in QNode, Regenerate(t, n)
  PROVE  /\ trees' \in Seq(Tree) /\ Len(trees') = Len(trees) /\ DOMAIN trees' = DOMAIN trees
         /\ \A s \in DOMAIN trees :
              /\ trees'[s].extent = trees[s].extent
              /\ trees'[s].isFull = (s = t \/ trees[s].isFull)
              /\ trees'[s].at = trees[s].at /\ trees'[s].in = trees[s].in
              /\ trees'[s].extent \in IntBox
  <1>1. trees' = [trees EXCEPT ![t].isFull = TRUE]
    BY DEF Regenerate
  <1>3. \A u \in Tree : u = [extent |-> u.extent, isFull |-> u.isFull, at |-> u.at, in |-> u.in]
    BY DEF Tree
  <1>4. DOMAIN trees' = 1..Len(trees) /\ trees' = [s \in 1..Len(trees) |-> trees'[s]]
    BY <1>1, TreesAre
  <1>5. ASSUME NEW s \in DOMAIN trees
        PROVE  /\ trees'[s].extent = trees[s].extent
               /\ trees'[s].isFull = (s = t \/ trees[s].isFull)
               /\ trees'[s].at = trees[s].at /\ trees'[s].in = trees[s].in
               /\ trees'[s] = [extent |-> trees'[s].extent, isFull |-> trees'[s].isFull,
                               at |-> trees'[s].at, in |-> trees'[s].in]
    <2>1. trees[s] \in Tree
      BY TreesAre
    <2>2. trees'[s] = IF s = t THEN [trees[s] EXCEPT !.isFull = TRUE] ELSE trees[s]
      BY <1>1
    <2>. QED
      BY <1>3, <2>1, <2>2 DEF Tree
  <1>6. \A s \in DOMAIN trees : trees'[s].extent \in IntBox
    BY <1>5, TreesAre
  <1>7. \A s \in DOMAIN trees : trees'[s].isFull \in BOOLEAN
    BY <1>5
  <1>8. trees' \in Seq(Tree) /\ Len(trees') = Len(trees)
    BY <1>4, <1>5, <1>6, <1>7, TreesAre, SeqOfTrees
  <1>. QED
    BY <1>4, <1>5, <1>6, <1>8, TreesAre

(* The corner of t that its box belongs to, as it is or as it is made.     *)
MadeCorner(t, c) ==
  /\ trees[t].at[c] = 0
  /\ trees' = Append([trees EXCEPT ![t].at[c] = Len(trees) + 1],
                     NewTree(Quarter(trees[t].extent, c), NoCorners, trees[t].in \cup {Len(trees) + 1}))

LEMMA MadeCornerIs ==
  ASSUME TreeTypeOK, NEW t \in DOMAIN trees, NEW c \in Corners, MadeCorner(t, c)
  PROVE  LET new == Len(trees) + 1
         IN /\ trees' \in Seq(Tree) /\ Len(trees') = new
            /\ DOMAIN trees' = DOMAIN trees \cup {new}
            /\ trees'[new].extent = Quarter(trees[t].extent, c) /\ ~trees'[new].isFull
            /\ \A d \in Corners : trees'[new].at[d] = 0
            /\ trees'[new].in = trees[t].in \cup {new}
            /\ \A s \in DOMAIN trees :
                 /\ trees'[s].extent = trees[s].extent /\ trees'[s].isFull = trees[s].isFull
                 /\ \A d \in Corners :
                      trees'[s].at[d] = IF s = t /\ d = c THEN new ELSE trees[s].at[d]
                 /\ trees'[s].in = trees[s].in
            /\ \A s \in DOMAIN trees' : trees'[s].extent \in IntBox
  <1>. DEFINE new == Len(trees) + 1
              kept == [trees EXCEPT ![t].at[c] = new]
              corner == NewTree(Quarter(trees[t].extent, c), NoCorners, trees[t].in \cup {new})
  <1>1. new \in Nat /\ DOMAIN trees = 1..Len(trees) /\ 1..new = DOMAIN trees \cup {new}
        /\ new \notin DOMAIN trees
    BY TreesAre
  <1>3. \A u \in Tree : u = [extent |-> u.extent, isFull |-> u.isFull, at |-> u.at, in |-> u.in]
    BY DEF Tree
  <1>4. DOMAIN kept = 1..Len(trees) /\ kept = [s \in 1..Len(trees) |-> kept[s]]
    BY <1>1
  <1>5. ASSUME NEW s \in DOMAIN trees
        PROVE  /\ kept[s].extent = trees[s].extent /\ kept[s].isFull = trees[s].isFull
               /\ kept[s].at \in [Corners -> Nat]
               /\ \A d \in Corners : kept[s].at[d] = IF s = t /\ d = c THEN new ELSE trees[s].at[d]
               /\ kept[s].in = trees[s].in
               /\ kept[s] = [extent |-> kept[s].extent, isFull |-> kept[s].isFull,
                             at |-> kept[s].at, in |-> kept[s].in]
    <2>1. trees[s] \in Tree /\ trees[s].at \in [Corners -> Nat]
      BY TreesAre
    <2>2. kept[s] = IF s = t THEN [trees[s] EXCEPT !.at = [trees[s].at EXCEPT ![c] = new]] ELSE trees[s]
      OBVIOUS
    <2>. HIDE DEF kept, new
    <2>3. CASE s = t
      <3>. DEFINE a == [trees[s].at EXCEPT ![c] = new]
      <3>1. a \in [Corners -> Nat] /\ \A d \in Corners : a[d] = IF d = c THEN new ELSE trees[s].at[d]
        BY <1>1, <2>1
      <3>. HIDE DEF a
      <3>2. kept[s] = [trees[s] EXCEPT !.at = a]
        BY <2>2, <2>3 DEF a
      <3>. QED
        BY <1>3, <2>1, <2>3, <3>1, <3>2 DEF Tree
    <2>4. CASE s # t
      BY <1>3, <2>1, <2>2, <2>4
    <2>. QED
      BY <2>3, <2>4
  <1>6. /\ corner.extent = Quarter(trees[t].extent, c) /\ corner.isFull = FALSE
        /\ corner.at = [d \in Corners |-> 0] /\ corner.in = trees[t].in \cup {new}
        /\ corner = [extent |-> corner.extent, isFull |-> corner.isFull, at |-> corner.at, in |-> corner.in]
    BY DEF NewTree, NoCorners
  <1>7. trees' = Append(kept, corner)
    BY DEF MadeCorner
  <1>8. Quarter(trees[t].extent, c) \in IntBox
    BY TreesAre, QuarterIs
  <1>. HIDE DEF kept, corner
  <1>9. kept \in Seq(Tree) /\ Len(kept) = Len(trees)
    <2>1. \A s \in DOMAIN trees : /\ kept[s].extent \in IntBox /\ kept[s].isFull \in BOOLEAN
                                  /\ kept[s].in \in SUBSET Nat
      BY <1>5, TreesAre
    <2>. QED
      BY <1>1, <1>4, <1>5, <2>1, TreesAre, SeqOfTrees
  <1>10. corner \in Tree
    <2>1. [d \in Corners |-> 0] \in [Corners -> Nat] /\ trees[t].in \cup {new} \in SUBSET Nat
      BY <1>1, TreesAre
    <2>. HIDE DEF new
    <2>. QED
      BY <1>6, <1>8, <2>1 DEF Tree, IntBox
  <1>11. /\ trees' \in Seq(Tree) /\ Len(trees') = new /\ trees'[new] = corner
         /\ \A s \in DOMAIN trees : trees'[s] = kept[s]
    BY <1>1, <1>7, <1>9, <1>10, AppendProperties
  <1>12. DOMAIN trees' = 1..new
    BY <1>11, LenProperties
  <1>. HIDE DEF new
  <1>13. \A s \in DOMAIN trees' : trees'[s].extent \in IntBox
    BY <1>1, <1>5, <1>6, <1>8, <1>11, <1>12, TreesAre
  <1>. QED
    <2>1. trees'[new].extent = Quarter(trees[t].extent, c) /\ ~trees'[new].isFull
          /\ \A d \in Corners : trees'[new].at[d] = 0
          /\ trees'[new].in = trees[t].in \cup {new}
      BY <1>6, <1>11
    <2>2. \A s \in DOMAIN trees :
            /\ trees'[s].extent = trees[s].extent /\ trees'[s].isFull = trees[s].isFull
            /\ \A d \in Corners : trees'[s].at[d] = IF s = t /\ d = c THEN new ELSE trees[s].at[d]
            /\ trees'[s].in = trees[s].in
      <3>. SUFFICES ASSUME NEW s \in DOMAIN trees
                    PROVE  /\ trees'[s].extent = trees[s].extent /\ trees'[s].isFull = trees[s].isFull
                           /\ \A d \in Corners :
                                trees'[s].at[d] = IF s = t /\ d = c THEN new ELSE trees[s].at[d]
                           /\ trees'[s].in = trees[s].in
        OBVIOUS
      <3>1. trees'[s] = kept[s]
        BY <1>11
      <3>. QED
        BY <1>5, <3>1
    <2>. QED
      BY <1>1, <1>11, <1>12, <1>13, <2>1, <2>2 DEF new

LEMMA DownIs ==
  ASSUME TreeTypeOK, NEW t \in DOMAIN trees, NEW n \in QNode, Down(t, n),
         trees[t].at[CornerOf(trees[t].extent, n.box)] # Len(trees) + 1
  PROVE  LET c == CornerOf(trees[t].extent, n.box)
             new == Len(trees) + 1
         IN /\ c \in Corners
            /\ \/ /\ MadeCorner(t, c) /\ calls' = [calls EXCEPT ![Len(calls)].tree = new]
               \/ /\ trees' = trees /\ trees[t].at[c] # 0
                  /\ calls' = [calls EXCEPT ![Len(calls)].tree = trees[t].at[c]]
  <1>. DEFINE c == CornerOf(trees[t].extent, n.box)
  <1>1. c \in Corners
    BY DEF CornerOf, Corners
  <1>. QED
    BY <1>1, TreesAre DEF Down, MadeCorner

-----------------------------------------------------------------------------
(* The inductive invariant.                                                *)

(* Each tree is in the first one and in itself.                            *)
Rooted ==
  \A t \in DOMAIN trees : 1 \in trees[t].in /\ t \in trees[t].in /\ trees[t].in \subseteq DOMAIN trees

EnclosedIn(b, S) == b # Zero => \A s \in S : Contain(trees[s].extent, b)

(* A box is in each tree that its node is in; that of a node on its way to *)
(* a tree is in those this one is in.                                      *)
Enclosed ==
  /\ \A x \in nodes : EnclosedIn(x.node.box, trees[x.tree].in)
  /\ \A k \in DOMAIN calls :
       EnclosedIn(calls[k].node.box, trees[calls[k].tree].in \ {calls[k].tree})

(* Nothing but Zero could be in a tree whose extent is taken for that of   *)
(* an empty one.                                                           *)
NoZero ==
  /\ \A x \in nodes : x.node.box # Zero
  /\ \A k \in DOMAIN calls : calls[k].node.box # Zero
  /\ \A t \in DOMAIN trees : trees[t].extent = Zero => trees[t].at = NoCorners

CornersFit ==
  \A t \in DOMAIN trees, c \in Corners :
    trees[t].at[c] # 0 => Contain(trees[trees[t].at[c]].extent, Quarter(trees[t].extent, c))

(* All calls but the first one, while it is at the root, will return.      *)
CallsReturn ==
  \A k \in DOMAIN calls :
    LET e == trees[calls[k].tree].extent
        b == calls[k].node.box
    IN /\ k < Len(calls) => Contain(e, b)
       /\ k # 1 \/ calls[k].tree # 1 => CanTake(e, b)

Flat(e) == e.left = e.right \/ e.top = e.bottom

Returning == ~origin => NoZero /\ CornersFit /\ CallsReturn /\ (hung => Flat(trees[1].extent))

TreeIInv == TreeTypeOK /\ Nested /\ Rooted /\ Enclosed /\ Returning

-----------------------------------------------------------------------------
(* Trees stay nested.                                                      *)

LEMMA LinksStay ==
  ASSUME TreeTypeOK, Nested, Rooted, DOMAIN trees' = DOMAIN trees,
         \A s \in DOMAIN trees : trees'[s].at = trees[s].at /\ trees'[s].in = trees[s].in
  PROVE  Nested' /\ Rooted'
  <1>0. 1 \in DOMAIN trees /\ \A t \in DOMAIN trees, c \in Corners : trees[t].at[c] \in Nat
    BY TreesAre
  <1>1. Nested'
    <2>1. trees'[1].in = {1}
      BY <1>0 DEF Nested
    <2>2. \A s \in DOMAIN trees' \ {1} : \E t \in DOMAIN trees', c \in Corners : trees'[t].at[c] = s
      BY DEF Nested
    <2>3. ASSUME NEW t \in DOMAIN trees, NEW c \in Corners, trees[t].at[c] # 0
          PROVE  LET s == trees[t].at[c]
                 IN /\ s \in DOMAIN trees \ trees[t].in /\ trees'[s].in = trees'[t].in \cup {s}
                    /\ \A u \in DOMAIN trees, d \in Corners : trees[u].at[d] = s => u = t /\ d = c
      BY <2>3 DEF Nested
    <2>. QED
      BY <2>1, <2>2, <2>3 DEF Nested
  <1>2. Rooted'
    BY DEF Rooted
  <1>. QED
    BY <1>1, <1>2

(* What Nested says about the tree at a corner.                            *)
Fits(s, t, c) ==
  /\ s \in DOMAIN trees \ trees[t].in /\ trees[s].in = trees[t].in \cup {s}
  /\ \A u \in DOMAIN trees, d \in Corners : trees[u].at[d] = s => u = t /\ d = c

LEMMA CornersAre ==
  /\ Nested <=> /\ trees[1].in = {1}
                /\ \A s \in DOMAIN trees \ {1} :
                     \E t \in DOMAIN trees, c \in Corners : trees[t].at[c] = s
                /\ \A t \in DOMAIN trees, c \in Corners :
                     trees[t].at[c] # 0 => Fits(trees[t].at[c], t, c)
  BY DEF Nested, Fits

LEMMA GrowNests ==
  ASSUME TreeTypeOK, Nested, Rooted, NEW t \in DOMAIN trees, NEW n \in QNode, Grow(t, n)
  PROVE  Nested' /\ Rooted'
  <1>. DEFINE old == Len(trees) + 1
              co == OldCorner(trees[t].extent, n.box)
  <1>1. old \in Nat /\ old # 0 /\ old \notin DOMAIN trees /\ 1 \in DOMAIN trees /\ 0 \notin DOMAIN trees
    BY TreesAre
  <1>2. t \in trees[t].in
    BY DEF Rooted
  <1>3. co \in Corners
    BY DEF OldCorner, Corners
  <1>4. /\ DOMAIN trees' = DOMAIN trees \cup {old}
        /\ \A c \in Corners : trees'[t].at[c] = IF c = co THEN old ELSE 0
        /\ trees'[t].in = trees[t].in
        /\ trees'[old].at = trees[t].at /\ trees'[old].in = trees[t].in \cup {old}
        /\ \A s \in DOMAIN trees \ {t} :
             trees'[s].at = trees[s].at /\ trees'[s].in = InMore(t, s)
    BY <1>2, GrowIs
  <1>. HIDE DEF old, co
  <1>5. \A s \in DOMAIN trees :
          InMore(t, s) = IF t \in trees[s].in THEN trees[s].in \cup {old} ELSE trees[s].in
    BY DEF InMore, old
  <1>6. /\ trees[1].in = {1}
        /\ \A s \in DOMAIN trees \ {1} :
             \E u \in DOMAIN trees, c \in Corners : trees[u].at[c] = s
        /\ \A u \in DOMAIN trees, c \in Corners :
             trees[u].at[c] # 0 => Fits(trees[u].at[c], u, c)
    BY CornersAre
  <1>7. \A u \in DOMAIN trees : 1 \in trees[u].in /\ u \in trees[u].in /\ trees[u].in \subseteq DOMAIN trees
    BY DEF Rooted
  <1>8. Rooted'
    <2>1. ASSUME NEW s \in DOMAIN trees'
          PROVE  1 \in trees'[s].in /\ s \in trees'[s].in /\ trees'[s].in \subseteq DOMAIN trees'
      BY <1>1, <1>4, <1>5, <1>7
    <2>. QED
      BY <2>1 DEF Rooted
  <1>9. trees'[1].in = {1}
    BY <1>1, <1>4, <1>5, <1>6
  <1>10. ASSUME NEW s \in DOMAIN trees' \ {1}
         PROVE  \E u \in DOMAIN trees', c \in Corners : trees'[u].at[c] = s
    <2>1. CASE s = old
      BY <1>3, <1>4, <2>1
    <2>2. CASE s # old
      <3>1. PICK u \in DOMAIN trees, c \in Corners : trees[u].at[c] = s
        BY <1>4, <1>6, <2>2
      <3>2. CASE u = t
        BY <1>4, <3>1, <3>2
      <3>3. CASE u # t
        BY <1>4, <3>1, <3>3
      <3>. QED
        BY <3>2, <3>3
    <2>. QED
      BY <2>1, <2>2
  (* Where a tree was and is.                                               *)
  <1>11. \A u \in DOMAIN trees', c \in Corners : trees'[u].at[c] # 0 =>
           IF u = t THEN c = co /\ trees'[u].at[c] = old
           ELSE LET v == IF u = old THEN t ELSE u IN v \in DOMAIN trees /\ trees'[u].at[c] = trees[v].at[c]
    BY <1>1, <1>4
  <1>12. ASSUME NEW u \in DOMAIN trees', NEW c \in Corners, trees'[u].at[c] # 0
         PROVE  LET s == trees'[u].at[c]
                IN /\ s \in DOMAIN trees' \ trees'[u].in /\ trees'[s].in = trees'[u].in \cup {s}
                   /\ \A v \in DOMAIN trees', d \in Corners : trees'[v].at[d] = s => v = u /\ d = c
    <2>. DEFINE s == trees'[u].at[c]
    <2>1. CASE u = t
      <3>1. c = co /\ s = old
        BY <1>11, <1>12, <2>1
      <3>2. old \notin trees'[t].in /\ trees'[old].in = trees'[t].in \cup {old}
        BY <1>1, <1>4, <1>7
      <3>3. ASSUME NEW v \in DOMAIN trees', NEW d \in Corners, trees'[v].at[d] = old
            PROVE  v = t /\ d = co
        <4>1. CASE v # t
          <5>1. PICK w \in DOMAIN trees : trees[w].at[d] = old
            BY <1>1, <1>11, <3>3, <4>1
          <5>. QED
            BY <1>1, <1>6, <5>1 DEF Fits
        <4>2. CASE v = t
          BY <1>1, <1>11, <3>3, <4>2
        <4>. QED
          BY <4>1, <4>2
      <3>. HIDE DEF s
      <3>. QED
        BY <1>4, <2>1, <3>1, <3>2, <3>3 DEF s
    <2>2. CASE u # t
      <3>. DEFINE v == IF u = old THEN t ELSE u
      <3>1. v \in DOMAIN trees /\ s = trees[v].at[c] /\ s # 0
        BY <1>11, <1>12, <2>2
      <3>. HIDE DEF s
      <3>2. Fits(s, v, c)
        BY <1>6, <3>1
      <3>3. s \in DOMAIN trees /\ s \notin trees[v].in /\ trees[s].in = trees[v].in \cup {s}
        BY <3>2 DEF Fits
      <3>4. s \in DOMAIN trees' /\ s \notin trees'[u].in /\ trees'[s].in = trees'[u].in \cup {s}
        <4>1. CASE u = old
          <5>1. s # t /\ t \in trees[s].in
            BY <1>7, <3>3, <4>1
          <5>. QED
            BY <1>1, <1>4, <1>5, <3>3, <4>1, <5>1
        <4>2. CASE u # old
          <5>1. u \in DOMAIN trees /\ v = u /\ trees'[u].in = InMore(t, u)
            BY <1>4, <2>2, <4>2
          <5>2. CASE s = t
            BY <1>1, <1>4, <1>5, <3>3, <5>1, <5>2
          <5>3. CASE s # t
            BY <1>1, <1>4, <1>5, <3>3, <5>1, <5>3
          <5>. QED
            BY <5>2, <5>3
        <4>. QED
          BY <4>1, <4>2
      <3>5. ASSUME NEW w \in DOMAIN trees', NEW d \in Corners, trees'[w].at[d] = s
            PROVE  w = u /\ d = c
        <4>1. w # t
          BY <1>1, <1>11, <3>1, <3>3, <3>5
        <4>. DEFINE y == IF w = old THEN t ELSE w
        <4>2. y \in DOMAIN trees /\ trees[y].at[d] = s
          BY <1>11, <3>1, <3>5, <4>1
        <4>. HIDE DEF y, v
        <4>3. y = v /\ d = c
          BY <3>2, <4>2 DEF Fits
        <4>. QED
          BY <1>1, <2>2, <4>1, <4>3 DEF y, v
      <3>. QED
        BY <3>4, <3>5 DEF s
    <2>. QED
      BY <2>1, <2>2
  <1>13. Nested'
    BY <1>9, <1>10, <1>12 DEF Nested
  <1>. QED
    BY <1>8, <1>13

LEMMA MadeCornerNests ==
  ASSUME TreeTypeOK, Nested, Rooted, NEW t \in DOMAIN trees, NEW c \in Corners, MadeCorner(t, c)
  PROVE  Nested' /\ Rooted'
  <1>. DEFINE new == Len(trees) + 1
  <1>1. new \in Nat /\ new # 0 /\ new \notin DOMAIN trees /\ 1 \in DOMAIN trees /\ 0 \notin DOMAIN trees
    BY TreesAre
  <1>2. trees[t].at[c] = 0
    BY DEF MadeCorner
  <1>4. /\ DOMAIN trees' = DOMAIN trees \cup {new}
        /\ \A d \in Corners : trees'[new].at[d] = 0
        /\ trees'[new].in = trees[t].in \cup {new}
        /\ \A s \in DOMAIN trees :
             /\ \A d \in Corners :
                  trees'[s].at[d] = IF s = t /\ d = c THEN new ELSE trees[s].at[d]
             /\ trees'[s].in = trees[s].in
    <2>1. /\ DOMAIN trees' = DOMAIN trees \cup {new}
          /\ \A d \in Corners : trees'[new].at[d] = 0
          /\ trees'[new].in = trees[t].in \cup {new}
      BY MadeCornerIs
    <2>2. \A s \in DOMAIN trees :
            /\ \A d \in Corners :
                 trees'[s].at[d] = IF s = t /\ d = c THEN new ELSE trees[s].at[d]
            /\ trees'[s].in = trees[s].in
      BY MadeCornerIs
    <2>. QED
      BY <2>1, <2>2
  <1>. HIDE DEF new
  <1>6. /\ trees[1].in = {1}
        /\ \A s \in DOMAIN trees \ {1} :
             \E u \in DOMAIN trees, d \in Corners : trees[u].at[d] = s
        /\ \A u \in DOMAIN trees, d \in Corners :
             trees[u].at[d] # 0 => Fits(trees[u].at[d], u, d)
    BY CornersAre
  <1>7. \A u \in DOMAIN trees : 1 \in trees[u].in /\ u \in trees[u].in /\ trees[u].in \subseteq DOMAIN trees
    BY DEF Rooted
  <1>8. Rooted'
    <2>1. ASSUME NEW s \in DOMAIN trees'
          PROVE  1 \in trees'[s].in /\ s \in trees'[s].in /\ trees'[s].in \subseteq DOMAIN trees'
      BY <1>1, <1>4, <1>7
    <2>. QED
      BY <2>1 DEF Rooted
  <1>9. trees'[1].in = {1}
    BY <1>1, <1>4, <1>6
  <1>10. ASSUME NEW s \in DOMAIN trees' \ {1}
         PROVE  \E u \in DOMAIN trees', d \in Corners : trees'[u].at[d] = s
    <2>1. CASE s = new
      BY <1>4, <2>1
    <2>2. CASE s # new
      <3>1. PICK u \in DOMAIN trees, d \in Corners : trees[u].at[d] = s
        BY <1>4, <1>6, <2>2
      <3>2. ~(u = t /\ d = c)
        BY <1>1, <1>2, <1>4, <2>2, <3>1
      <3>. QED
        BY <1>4, <3>1, <3>2
    <2>. QED
      BY <2>1, <2>2
  <1>11. \A u \in DOMAIN trees', d \in Corners : trees'[u].at[d] # 0 =>
           \/ u = t /\ d = c /\ trees'[u].at[d] = new
           \/ u \in DOMAIN trees /\ ~(u = t /\ d = c) /\ trees'[u].at[d] = trees[u].at[d]
    BY <1>1, <1>4
  <1>12. ASSUME NEW u \in DOMAIN trees', NEW d \in Corners, trees'[u].at[d] # 0
         PROVE  LET s == trees'[u].at[d]
                IN /\ s \in DOMAIN trees' \ trees'[u].in /\ trees'[s].in = trees'[u].in \cup {s}
                   /\ \A v \in DOMAIN trees', b \in Corners : trees'[v].at[b] = s => v = u /\ b = d
    <2>. DEFINE s == trees'[u].at[d]
    <2>1. CASE u = t /\ d = c
      <3>1. s = new
        BY <1>4, <2>1
      <3>2. new \notin trees'[t].in /\ trees'[new].in = trees'[t].in \cup {new}
        BY <1>1, <1>4, <1>7
      <3>3. ASSUME NEW v \in DOMAIN trees', NEW b \in Corners, trees'[v].at[b] = new
            PROVE  v = t /\ b = c
        <4>1. CASE v \in DOMAIN trees /\ trees[v].at[b] = new
          BY <1>1, <1>6, <4>1 DEF Fits
        <4>. QED
          BY <1>1, <1>11, <3>3, <4>1
      <3>. HIDE DEF s
      <3>. QED
        BY <1>4, <2>1, <3>1, <3>2, <3>3 DEF s
    <2>2. CASE ~(u = t /\ d = c)
      <3>1. u \in DOMAIN trees /\ s = trees[u].at[d] /\ s # 0
        BY <1>11, <1>12, <2>2
      <3>. HIDE DEF s
      <3>2. Fits(s, u, d)
        BY <1>6, <3>1
      <3>3. s \in DOMAIN trees /\ s \notin trees[u].in /\ trees[s].in = trees[u].in \cup {s}
        BY <3>2 DEF Fits
      <3>4. s \in DOMAIN trees' /\ s \notin trees'[u].in /\ trees'[s].in = trees'[u].in \cup {s}
        BY <1>4, <3>1, <3>3
      <3>5. ASSUME NEW w \in DOMAIN trees', NEW b \in Corners, trees'[w].at[b] = s
            PROVE  w = u /\ b = d
        <4>1. w \in DOMAIN trees /\ trees[w].at[b] = s
          BY <1>1, <1>11, <3>1, <3>3, <3>5
        <4>. QED
          BY <3>2, <4>1 DEF Fits
      <3>. QED
        BY <3>4, <3>5 DEF s
    <2>. QED
      BY <2>1, <2>2
  <1>13. Nested'
    BY <1>9, <1>10, <1>12 DEF Nested
  <1>. QED
    BY <1>8, <1>13

-----------------------------------------------------------------------------
(* What the actions do to the nodes and to the calls.                      *)

LEMMA LastOfIs ==
  ASSUME TreeTypeOK, NEW own, own \subseteq nodes, own # {}
  PROVE  LastOf(own) \in own
  <1>. DEFINE left == {made - x.nr : x \in own}
  <1>1. made \in Nat /\ \A x \in own : x.nr \in 1..made
    BY TreesAre DEF TreeTypeOK
  <1>2. left \subseteq Nat /\ left # {}
    BY <1>1
  <1>. HIDE DEF left
  <1>3. PICK m \in left : \A k \in left : m <= k
    BY <1>2, LeastOf
  <1>4. PICK x \in own : m = made - x.nr
    BY DEF left
  <1>5. \A y \in own : y.nr <= x.nr
    <2>1. ASSUME NEW y \in own
          PROVE  y.nr <= x.nr
      <3>1. made - x.nr <= made - y.nr
        BY <1>3, <1>4 DEF left
      <3>. QED
        BY <1>1, <3>1
    <2>. QED
      BY <2>1
  <1>. QED
    BY <1>5 DEF LastOf

LEMMA CallsFrom ==
  ASSUME NEW S, NEW s \in Seq(S), NEW T, \A k \in 1..Len(s) : s[k] \in T
  PROVE  s \in Seq(T)
  <1>1. ToSet(s) \subseteq T
    BY Elements
  <1>. QED
    BY <1>1, SeqOver

LEMMA PutIs ==
  ASSUME TreeTypeOK, NEW t, NEW n, Innermost(t, n), Put(t, n)
  PROVE  /\ trees' = trees /\ Len(calls') = Len(calls) - 1 /\ DOMAIN calls' = 1..Len(calls) - 1
         /\ calls' \in Seq([tree : DOMAIN trees, node : QNode])
         /\ \A k \in DOMAIN calls' : k \in DOMAIN calls /\ calls'[k] = calls[k]
         /\ \E y : /\ y = [node |-> n, tree |-> t, nr |-> made + 1]
                   /\ y.node = n /\ y.tree = t /\ y.nr = made + 1
                   /\ nodes' = nodes \cup {y} /\ y \notin nodes
  <1>1. calls \in Seq([tree : DOMAIN trees, node : QNode]) /\ made \in Nat
    BY DEF TreeTypeOK
  <1>2. Len(calls) \in Nat /\ DOMAIN calls = 1..Len(calls) /\ Len(calls) - 1 \in Nat
    BY CallsAre, InnermostIs
  <1>3. /\ calls' \in Seq([tree : DOMAIN trees, node : QNode])
        /\ Len(calls') = Len(calls) - 1 /\ DOMAIN calls' = 1..Len(calls) - 1
        /\ \A k \in 1..Len(calls) - 1 : calls'[k] = calls[k]
    <2>1. calls' = SubSeq(calls, 1, Len(calls) - 1)
      BY DEF Put, Front
    <2>2. \A k \in 1..Len(calls) - 1 : calls[k] \in [tree : DOMAIN trees, node : QNode]
      <3>1. \A k \in 1..Len(calls) : calls[k] \in [tree : DOMAIN trees, node : QNode]
        BY <1>2, CallsAre
      <3>. QED
        BY <1>2, <3>1
    <2>3. /\ calls' \in Seq([tree : DOMAIN trees, node : QNode])
          /\ Len(calls') = Len(calls) - 1
          /\ \A k \in 1..Len(calls) - 1 : calls'[k] = calls[1 + k - 1]
      BY <1>1, <1>2, <2>1, <2>2, SubSeqProperties
    <2>4. DOMAIN calls' = 1..Len(calls')
      BY <2>3, LenProperties
    <2>. QED
      BY <1>2, <2>3, <2>4
  <1>4. [node |-> n, tree |-> t, nr |-> made + 1] \notin nodes
    <2>1. \A x \in nodes : x.nr # made + 1
      BY <1>1, TreesAre
    <2>. QED
      BY <2>1
  <1>. QED
    BY <1>2, <1>3, <1>4 DEF Put

LEMMA RegenerateMoves ==
  ASSUME TreeTypeOK, NEW t, NEW n, Innermost(t, n), Regenerate(t, n)
  PROVE  \/ nodes' = nodes /\ calls' = calls
         \/ \E x \in nodes :
              /\ x.tree = t /\ ~Crosses(trees[t].extent, x.node.box) /\ nodes' = nodes \ {x}
              /\ calls' \in Seq([tree : DOMAIN trees, node : QNode])
              /\ Len(calls') = Len(calls) + 1 /\ DOMAIN calls' = DOMAIN calls \cup {Len(calls) + 1}
              /\ calls'[Len(calls) + 1] = [tree |-> t, node |-> x.node]
              /\ \A k \in DOMAIN calls : calls'[k] = calls[k]
  <1>. DEFINE movable == {x \in Own(t) : ~Crosses(trees[t].extent, x.node.box)}
  <1>1. CASE movable = {}
    BY <1>1 DEF Regenerate
  <1>2. CASE movable # {}
    <2>. DEFINE x == LastOf(movable)
    <2>1. x \in movable
      BY <1>2, LastOfIs DEF Own
    <2>2. nodes' = nodes \ {x} /\ calls' = Append(calls, [tree |-> t, node |-> x.node])
      BY <1>2 DEF Regenerate
    <2>3. x \in nodes /\ x.tree = t /\ ~Crosses(trees[t].extent, x.node.box)
      BY <2>1 DEF Own
    <2>. HIDE DEF x
    <2>4. /\ calls \in Seq([tree : DOMAIN trees, node : QNode])
          /\ [tree |-> t, node |-> x.node] \in [tree : DOMAIN trees, node : QNode]
      BY <2>3, TreesAre, InnermostIs DEF TreeTypeOK
    <2>5. Len(calls) \in Nat /\ DOMAIN calls = 1..Len(calls)
      BY CallsAre
    <2>6. /\ calls' \in Seq([tree : DOMAIN trees, node : QNode]) /\ Len(calls') = Len(calls) + 1
          /\ calls'[Len(calls) + 1] = [tree |-> t, node |-> x.node]
          /\ \A k \in 1..Len(calls) : calls'[k] = calls[k]
      BY <2>2, <2>4, AppendProperties
    <2>7. DOMAIN calls' = 1..Len(calls')
      BY <2>6, LenProperties
    <2>. QED
      <3>1. DOMAIN calls' = DOMAIN calls \cup {Len(calls) + 1}
        BY <2>5, <2>6, <2>7
      <3>. QED
        BY <2>2, <2>3, <2>5, <2>6, <3>1
  <1>. QED
    BY <1>1, <1>2

LEMMA DownMoves ==
  ASSUME TreeTypeOK, NEW t, NEW n, Innermost(t, n), NEW T, NEW s \in T,
         DOMAIN trees \subseteq T, calls' = [calls EXCEPT ![Len(calls)].tree = s]
  PROVE  /\ calls' \in Seq([tree : T, node : QNode])
         /\ Len(calls') = Len(calls) /\ DOMAIN calls' = DOMAIN calls
         /\ \A k \in DOMAIN calls :
              /\ calls'[k].node = calls[k].node
              /\ calls'[k].tree = IF k = Len(calls) THEN s ELSE calls[k].tree
  <1>. DEFINE l == Len(calls)
  <1>1. calls' = [calls EXCEPT ![l] = [calls[l] EXCEPT !.tree = s]]
    OBVIOUS
  <1>2. /\ calls[l] = [tree |-> t, node |-> n] /\ n \in QNode /\ l \in 1..l /\ l \in Nat
        /\ DOMAIN calls = 1..l
    BY CallsAre, InnermostIs
  <1>3. [calls[l] EXCEPT !.tree = s] = [tree |-> s, node |-> n]
    BY <1>2
  <1>4. \A k \in 1..l : /\ calls[k] \in [tree : T, node : QNode]
                        /\ calls[k] = [tree |-> calls[k].tree, node |-> calls[k].node]
    BY <1>2, CallsAre
  <1>. HIDE DEF l
  <1>5. calls \in Seq([tree : T, node : QNode])
    <2>1. calls \in Seq([tree : DOMAIN trees, node : QNode])
      BY DEF TreeTypeOK
    <2>. QED
      BY <1>2, <1>4, <2>1, CallsFrom DEF l
  <1>6. [tree |-> s, node |-> n] \in [tree : T, node : QNode]
    BY <1>2
  <1>7. /\ calls' \in Seq([tree : T, node : QNode]) /\ Len(calls') = l
        /\ \A k \in 1..l : calls'[k] = IF k = l THEN [tree |-> s, node |-> n] ELSE calls[k]
    <2>1. l = Len(calls) /\ calls' = [calls EXCEPT ![l] = [tree |-> s, node |-> n]]
      BY <1>1, <1>3 DEF l
    <2>. QED
      BY <1>2, <1>5, <1>6, <2>1, ExceptSeq
  <1>8. \A k \in DOMAIN calls : /\ calls'[k].node = calls[k].node
                                /\ calls'[k].tree = IF k = l THEN s ELSE calls[k].tree
    BY <1>2, <1>7
  <1>9. DOMAIN calls' = 1..l
    BY <1>7, LenProperties
  <1>. QED
    BY <1>2, <1>7, <1>8, <1>9 DEF l

-----------------------------------------------------------------------------
(* Types are kept.                                                         *)

Few == \A t \in DOMAIN trees : ~trees[t].isFull => Cardinality(Own(t)) <= MAX_LEAF_NODES

LEMMA Finite ==
  ASSUME TreeTypeOK
  PROVE  /\ \A S \in SUBSET nodes : IsFiniteSet(S) /\ Cardinality(S) \in Nat
         /\ \A t : Own(t) \in SUBSET nodes
         /\ MAX_LEAF_NODES \in Nat
  <1>1. IsFiniteSet(nodes)
    BY DEF TreeTypeOK
  <1>2. \A S \in SUBSET nodes : IsFiniteSet(S)
    BY <1>1, FS_Subset
  <1>. QED
    BY <1>2, FS_CardinalityType, QTreeAssumption DEF Own

LEMMA GrowMoves ==
  ASSUME TreeTypeOK, NEW t \in DOMAIN trees, NEW n, Grow(t, n)
  PROVE  \E M \in [nodes -> nodes'] :
           /\ nodes' = {M[x] : x \in nodes}
           /\ \A x \in nodes :
                /\ M[x].node = x.node /\ M[x].nr = x.nr
                /\ M[x].tree = IF x.tree = t THEN Len(trees) + 1 ELSE x.tree
                /\ M[x] = [node |-> M[x].node, tree |-> M[x].tree, nr |-> M[x].nr]
           /\ \A S \in SUBSET nodes :
                /\ IsFiniteSet({M[x] : x \in S}) /\ Cardinality({M[x] : x \in S}) = Cardinality(S)
  <1>. DEFINE old == Len(trees) + 1
              M == [x \in nodes |-> IF x.tree = t THEN [x EXCEPT !.tree = old] ELSE x]
  <1>1. nodes' = {M[x] : x \in nodes}
    BY DEF Grow
  <1>2. ASSUME NEW x \in nodes
        PROVE  /\ M[x].node = x.node /\ M[x].nr = x.nr
               /\ M[x].tree = IF x.tree = t THEN old ELSE x.tree
               /\ M[x] = [node |-> M[x].node, tree |-> M[x].tree, nr |-> M[x].nr]
    <2>1. x = [node |-> x.node, tree |-> x.tree, nr |-> x.nr]
      BY TreesAre
    <2>. QED
      BY <2>1
  <1>3. \A x, y \in nodes : x.nr = y.nr => x = y
    BY DEF TreeTypeOK
  <1>. HIDE DEF M
  <1>4. M \in [nodes -> nodes']
    BY <1>1 DEF M
  <1>5. ASSUME NEW S \in SUBSET nodes
        PROVE  IsFiniteSet({M[x] : x \in S}) /\ Cardinality({M[x] : x \in S}) = Cardinality(S)
    <2>. DEFINE T == {M[x] : x \in S}
                f == [x \in S |-> M[x]]
    <2>1. f \in [S -> T] /\ \A x \in S : f[x] = M[x]
      OBVIOUS
    <2>2. ASSUME NEW x \in S, NEW y \in S, f[x] = f[y]
          PROVE  x = y
      <3>1. M[x].nr = M[y].nr /\ x \in nodes /\ y \in nodes
        BY <2>1, <2>2
      <3>2. M[x].nr = x.nr /\ M[y].nr = y.nr
        BY <1>2, <3>1
      <3>. QED
        BY <1>3, <3>1, <3>2
    <2>3. \A z \in T : \E x \in S : f[x] = z
      BY <2>1
    <2>. HIDE DEF f, T
    <2>4. ExistsBijection(S, T)
      BY <2>1, <2>2, <2>3 DEF ExistsBijection, Bijection, Injection, Surjection, IsInjective
    <2>5. IsFiniteSet(S)
      BY Finite
    <2>6. IsFiniteSet(T) /\ Cardinality(T) = Cardinality(S)
      BY <2>4, <2>5, FS_Bijection
    <2>. QED
      BY <2>6 DEF T
  <1>. QED
    BY <1>1, <1>2, <1>4, <1>5

LEMMA TypesFrom ==
  ASSUME trees' \in Seq(Tree), Len(trees') >= 1,
         \A s \in DOMAIN trees' : trees'[s].extent \in IntBox, Few',
         \A x \in nodes' : x \in [node : QNode, tree : DOMAIN trees', nr : 1..made'],
         IsFiniteSet(nodes'), \A x, y \in nodes' : x.nr = y.nr => x = y,
         calls' \in Seq([tree : DOMAIN trees', node : QNode]),
         made' \in Nat, hung' \in BOOLEAN, origin' \in BOOLEAN, steps' \in 0..MaxSteps
  PROVE  TreeTypeOK'
  BY BoxesAre DEF TreeTypeOK, Few, Own

LEMMA TakeExtentTypes ==
  ASSUME TreeTypeOK, NEW t, NEW n, Innermost(t, n), TakeExtent(t, n), UNCHANGED <<steps, origin>>
  PROVE  TreeTypeOK'
  <1>1. /\ trees' \in Seq(Tree) /\ Len(trees') = Len(trees) /\ DOMAIN trees' = DOMAIN trees
        /\ \A s \in DOMAIN trees : trees'[s].isFull = trees[s].isFull /\ trees'[s].extent \in IntBox
    BY InnermostIs, TakeExtentIs
  <1>2. nodes' = nodes /\ calls' = calls /\ made' = made /\ hung' = hung /\ steps' = steps /\ origin' = origin
    BY DEF TakeExtent
  <1>3. Few'
    BY <1>1, <1>2 DEF Few, TreeTypeOK, Own
  <1>. QED
    BY <1>1, <1>2, <1>3, TypesFrom DEF TreeTypeOK

LEMMA HangTypes ==
  ASSUME TreeTypeOK, NEW t, NEW n, Hang(t, n), UNCHANGED <<steps, origin>>
  PROVE  TreeTypeOK'
  BY DEF TreeTypeOK, Hang, Own

LEMMA GrowTypes ==
  ASSUME TreeTypeOK, NEW t, NEW n, Innermost(t, n), Grow(t, n), UNCHANGED <<steps, origin>>,
         t \in trees[t].in
  PROVE  TreeTypeOK'
  <1>. DEFINE old == Len(trees) + 1
  <1>0. t \in DOMAIN trees /\ n \in QNode /\ old \notin DOMAIN trees
    BY InnermostIs, TreesAre
  <1>1. /\ trees' \in Seq(Tree) /\ Len(trees') = Len(trees) + 1 /\ DOMAIN trees' = DOMAIN trees \cup {old}
        /\ trees'[old].isFull = trees[t].isFull
        /\ \A s \in DOMAIN trees \ {t} : trees'[s].isFull = trees[s].isFull
        /\ \A s \in DOMAIN trees' : trees'[s].extent \in IntBox
    BY <1>0, GrowIs
  <1>2. calls' = calls /\ made' = made /\ hung' = hung /\ steps' = steps /\ origin' = origin
    BY DEF Grow
  <1>3. PICK M \in [nodes -> nodes'] :
          /\ nodes' = {M[x] : x \in nodes}
          /\ \A x \in nodes :
               /\ M[x].node = x.node /\ M[x].nr = x.nr
               /\ M[x].tree = IF x.tree = t THEN old ELSE x.tree
               /\ M[x] = [node |-> M[x].node, tree |-> M[x].tree, nr |-> M[x].nr]
          /\ \A S \in SUBSET nodes :
               /\ IsFiniteSet({M[x] : x \in S}) /\ Cardinality({M[x] : x \in S}) = Cardinality(S)
    BY <1>0, GrowMoves
  <1>. HIDE DEF old
  <1>4. Few'
    <2>1. ASSUME NEW s \in DOMAIN trees', ~trees'[s].isFull
          PROVE  Cardinality({y \in nodes' : y.tree = s}) <= MAX_LEAF_NODES
      <3>. DEFINE S == {x \in nodes : M[x].tree = s}
      <3>1. {y \in nodes' : y.tree = s} = {M[x] : x \in S}
        BY <1>3
      <3>2. Cardinality({y \in nodes' : y.tree = s}) = Cardinality(S)
        BY <1>3, <3>1
      <3>3. CASE s = t
        <4>1. S = {}
          BY <1>0, <1>3, <3>3
        <4>. QED
          BY <3>2, <4>1, FS_EmptySet, Finite
      <3>4. CASE s = old
        <4>1. S = Own(t)
          BY <1>0, <1>3, <3>4, TreesAre DEF Own
        <4>. QED
          BY <1>0, <1>1, <2>1, <3>2, <3>4, <4>1 DEF TreeTypeOK
      <3>5. CASE s \in DOMAIN trees \ {t}
        <4>1. S = Own(s)
          BY <1>0, <1>3, <3>5 DEF Own
        <4>. QED
          BY <1>1, <2>1, <3>2, <3>5, <4>1 DEF TreeTypeOK
      <3>. QED
        BY <1>1, <3>3, <3>4, <3>5
    <2>. QED
      BY <2>1 DEF Few, Own
  <1>5. \A x \in nodes' : x \in [node : QNode, tree : DOMAIN trees', nr : 1..made']
    <2>1. ASSUME NEW x \in nodes
          PROVE  M[x] \in [node : QNode, tree : DOMAIN trees', nr : 1..made']
      <3>1. /\ M[x].node \in QNode /\ M[x].nr \in 1..made' /\ M[x].tree \in DOMAIN trees'
            /\ M[x] = [node |-> M[x].node, tree |-> M[x].tree, nr |-> M[x].nr]
        BY <1>1, <1>2, <1>3, TreesAre
      <3>. QED
        BY <3>1
    <2>. QED
      BY <1>3, <2>1
  <1>6. IsFiniteSet(nodes') /\ \A x, y \in nodes' : x.nr = y.nr => x = y
    <2>1. nodes \in SUBSET nodes /\ \A x, y \in nodes : x.nr = y.nr => x = y
      BY DEF TreeTypeOK
    <2>. QED
      BY <1>3, <2>1
  <1>7. calls' \in Seq([tree : DOMAIN trees', node : QNode])
    <2>1. calls \in Seq([tree : DOMAIN trees, node : QNode])
      BY DEF TreeTypeOK
    <2>2. \A k \in 1..Len(calls) : calls[k] \in [tree : DOMAIN trees', node : QNode]
      BY <1>1, CallsAre
    <2>3. calls \in Seq([tree : DOMAIN trees', node : QNode])
      BY <2>1, <2>2, CallsFrom
    <2>. QED
      BY <1>2, <2>3
  <1>8. Len(trees') >= 1
    BY <1>1, TreesAre
  <1>. QED
    BY <1>1, <1>2, <1>4, <1>5, <1>6, <1>7, <1>8, TypesFrom DEF TreeTypeOK

LEMMA PutTypes ==
  ASSUME TreeTypeOK, NEW t, NEW n, Innermost(t, n), Put(t, n), UNCHANGED <<steps, origin>>
  PROVE  TreeTypeOK'
  <1>0. t \in DOMAIN trees /\ n \in QNode
    BY InnermostIs
  <1>1. PICK y : /\ y = [node |-> n, tree |-> t, nr |-> made + 1]
                 /\ y.node = n /\ y.tree = t /\ y.nr = made + 1
                 /\ nodes' = nodes \cup {y} /\ y \notin nodes
    BY PutIs
  <1>2. /\ trees' = trees /\ hung' = hung /\ steps' = steps /\ origin' = origin
        /\ made' = made + 1 /\ made \in Nat
        /\ calls' \in Seq([tree : DOMAIN trees', node : QNode])
    BY PutIs DEF Put, TreeTypeOK
  <1>3. IsFiniteSet(nodes')
    BY <1>1, FS_AddElement DEF TreeTypeOK
  <1>4. Few'
    <2>1. ASSUME NEW s \in DOMAIN trees, ~trees[s].isFull
          PROVE  Cardinality({x \in nodes' : x.tree = s}) <= MAX_LEAF_NODES
      <3>1. CASE s = t
        <4>1. {x \in nodes' : x.tree = s} = Own(t) \cup {y}
          BY <1>1, <3>1 DEF Own
        <4>2. IsFiniteSet(Own(t)) /\ Cardinality(Own(t)) \in Nat /\ MAX_LEAF_NODES \in Nat
          BY Finite
        <4>3. Cardinality(Own(t)) < MAX_LEAF_NODES
          <5>1. HasRoom(t) \/ ~IsFilled(t)
            BY DEF Put
          <5>2. Cardinality(Own(t)) <= MAX_LEAF_NODES
            BY <1>0, <2>1, <3>1 DEF TreeTypeOK
          <5>. QED
            BY <2>1, <3>1, <4>2, <5>1, <5>2 DEF HasRoom, IsFilled
        <4>4. y \notin Own(t)
          BY <1>1 DEF Own
        <4>5. Cardinality(Own(t) \cup {y}) = Cardinality(Own(t)) + 1
          BY <4>2, <4>4, FS_AddElement
        <4>6. Cardinality({x \in nodes' : x.tree = s}) = Cardinality(Own(t)) + 1
          BY <4>1, <4>5
        <4>7. \A k, m \in Nat : k < m => k + 1 <= m
          OBVIOUS
        <4>. QED
          BY <4>2, <4>3, <4>6, <4>7
      <3>2. CASE s # t
        <4>1. {x \in nodes' : x.tree = s} = Own(s)
          BY <1>1, <3>2 DEF Own
        <4>. QED
          BY <2>1, <4>1 DEF TreeTypeOK
      <3>. QED
        BY <3>1, <3>2
    <2>. QED
      BY <1>2, <2>1 DEF Few, Own
  <1>5. \A x \in nodes' : x \in [node : QNode, tree : DOMAIN trees', nr : 1..made']
    <2>1. y \in [node : QNode, tree : DOMAIN trees', nr : 1..made']
      BY <1>0, <1>1, <1>2
    <2>2. ASSUME NEW x \in nodes
          PROVE  x \in [node : QNode, tree : DOMAIN trees', nr : 1..made']
      <3>1. x.nr \in 1..made' /\ x.tree \in DOMAIN trees' /\ x.node \in QNode
            /\ x = [node |-> x.node, tree |-> x.tree, nr |-> x.nr]
        BY <1>2, TreesAre
      <3>. QED
        BY <3>1
    <2>. QED
      BY <1>1, <2>1, <2>2
  <1>6. \A x, z \in nodes' : x.nr = z.nr => x = z
    <2>1. \A x, z \in nodes : x.nr = z.nr => x = z
      BY DEF TreeTypeOK
    <2>2. \A x \in nodes : x.nr # made + 1
      BY <1>2, TreesAre
    <2>. QED
      BY <1>1, <2>1, <2>2
  <1>7. trees' \in Seq(Tree) /\ Len(trees') >= 1 /\ \A s \in DOMAIN trees' : trees'[s].extent \in IntBox
    BY <1>2, TreesAre DEF TreeTypeOK
  <1>. QED
    BY <1>2, <1>3, <1>4, <1>5, <1>6, <1>7, TypesFrom DEF TreeTypeOK

(* A tree of no more nodes is no fuller.                                   *)
LEMMA FewerNodes ==
  ASSUME TreeTypeOK, DOMAIN trees' = DOMAIN trees,
         \A s \in DOMAIN trees : ~trees'[s].isFull => ~trees[s].isFull,
         nodes' \subseteq nodes, made' = made
  PROVE  /\ Few' /\ IsFiniteSet(nodes')
         /\ \A x \in nodes' : x \in [node : QNode, tree : DOMAIN trees', nr : 1..made']
         /\ \A x, y \in nodes' : x.nr = y.nr => x = y
  <1>1. IsFiniteSet(nodes')
    BY Finite
  <1>2. ASSUME NEW s \in DOMAIN trees, ~trees'[s].isFull
        PROVE  Cardinality({x \in nodes' : x.tree = s}) <= MAX_LEAF_NODES
    <2>. DEFINE S == {x \in nodes' : x.tree = s}
    <2>1. S \subseteq Own(s)
      BY DEF Own
    <2>2. Own(s) \in SUBSET nodes /\ S \in SUBSET nodes
      BY <2>1 DEF Own
    <2>3. Cardinality(S) <= Cardinality(Own(s))
      BY <2>1, <2>2, Finite, FS_Subset
    <2>4. Cardinality(Own(s)) <= MAX_LEAF_NODES
      BY <1>2 DEF TreeTypeOK
    <2>5. Cardinality(S) \in Nat /\ Cardinality(Own(s)) \in Nat /\ MAX_LEAF_NODES \in Nat
      BY <2>2, Finite
    <2>. HIDE DEF S
    <2>6. Cardinality(S) <= MAX_LEAF_NODES
      BY <2>3, <2>4, <2>5
    <2>. QED
      BY <2>6 DEF S
  <1>3. Few'
    BY <1>2 DEF Few, Own
  <1>4. \A x \in nodes' : x \in [node : QNode, tree : DOMAIN trees', nr : 1..made']
    <2>1. \A x \in nodes : x \in [node : QNode, tree : DOMAIN trees, nr : 1..made]
      BY DEF TreeTypeOK
    <2>. QED
      BY <2>1
  <1>5. \A x, y \in nodes' : x.nr = y.nr => x = y
    BY DEF TreeTypeOK
  <1>. QED
    BY <1>1, <1>3, <1>4, <1>5

LEMMA RegenerateTypes ==
  ASSUME TreeTypeOK, NEW t, NEW n, Innermost(t, n), Regenerate(t, n), UNCHANGED <<steps, origin>>
  PROVE  TreeTypeOK'
  <1>1. /\ trees' \in Seq(Tree) /\ Len(trees') = Len(trees) /\ DOMAIN trees' = DOMAIN trees
        /\ \A s \in DOMAIN trees : /\ trees'[s].isFull = (s = t \/ trees[s].isFull)
                                   /\ trees'[s].extent \in IntBox
    BY InnermostIs, RegenerateIs
  <1>2. made' = made /\ hung' = hung /\ steps' = steps /\ origin' = origin
    BY DEF Regenerate
  <1>3. nodes' \subseteq nodes /\ calls' \in Seq([tree : DOMAIN trees', node : QNode])
    BY <1>1, RegenerateMoves DEF TreeTypeOK
  <1>4. /\ Few' /\ IsFiniteSet(nodes')
        /\ \A x \in nodes' : x \in [node : QNode, tree : DOMAIN trees', nr : 1..made']
        /\ \A x, y \in nodes' : x.nr = y.nr => x = y
    BY <1>1, <1>2, <1>3, FewerNodes
  <1>5. Len(trees') >= 1 /\ made' \in Nat
    BY <1>1, <1>2 DEF TreeTypeOK
  <1>. QED
    BY <1>1, <1>2, <1>3, <1>4, <1>5, TypesFrom DEF TreeTypeOK

(* The corner to which a node goes.                                        *)
LEMMA DownGoes ==
  ASSUME TreeTypeOK, Nested, Rooted, NEW t, NEW n, Innermost(t, n), Down(t, n)
  PROVE  LET c == CornerOf(trees[t].extent, n.box)
         IN /\ c \in Corners
            /\ \E s \in DOMAIN trees' :
                 /\ calls' = [calls EXCEPT ![Len(calls)].tree = s]
                 /\ \/ MadeCorner(t, c) /\ s = Len(trees) + 1
                    \/ trees' = trees /\ s = trees[t].at[c] /\ s # 0
  <1>. DEFINE c == CornerOf(trees[t].extent, n.box)
  <1>1. t \in DOMAIN trees /\ n \in QNode /\ c \in Corners
    BY InnermostIs DEF CornerOf, Corners
  <1>2. trees[t].at[c] # 0 => trees[t].at[c] \in DOMAIN trees
    BY <1>1 DEF Nested
  <1>3. Len(trees) + 1 \notin DOMAIN trees /\ Len(trees) + 1 # 0
    BY TreesAre
  <1>4. \/ /\ MadeCorner(t, c) /\ calls' = [calls EXCEPT ![Len(calls)].tree = Len(trees) + 1]
        \/ /\ trees' = trees /\ trees[t].at[c] # 0
           /\ calls' = [calls EXCEPT ![Len(calls)].tree = trees[t].at[c]]
    BY <1>1, <1>2, <1>3, DownIs
  <1>5. MadeCorner(t, c) => Len(trees) + 1 \in DOMAIN trees'
    BY <1>1, MadeCornerIs
  <1>. QED
    BY <1>1, <1>2, <1>4, <1>5

LEMMA DownTypes ==
  ASSUME TreeTypeOK, Nested, Rooted, NEW t, NEW n, Innermost(t, n), Down(t, n),
         UNCHANGED <<steps, origin>>
  PROVE  TreeTypeOK'
  <1>. DEFINE c == CornerOf(trees[t].extent, n.box)
              new == Len(trees) + 1
  <1>1. t \in DOMAIN trees /\ n \in QNode /\ c \in Corners
    BY InnermostIs, DownGoes
  <1>2. PICK s \in DOMAIN trees' :
          /\ calls' = [calls EXCEPT ![Len(calls)].tree = s]
          /\ MadeCorner(t, c) \/ trees' = trees
    BY DownGoes
  <1>3. nodes' = nodes /\ made' = made /\ hung' = hung /\ steps' = steps /\ origin' = origin
    BY DEF Down
  <1>. HIDE DEF c
  <1>4. /\ trees' \in Seq(Tree) /\ Len(trees') >= 1 /\ DOMAIN trees \subseteq DOMAIN trees'
        /\ \A u \in DOMAIN trees' : trees'[u].extent \in IntBox
        /\ Few'
    <2>1. CASE trees' = trees
      BY <1>3, <2>1, TreesAre DEF TreeTypeOK, Few, Own
    <2>2. CASE MadeCorner(t, c)
      <3>1. /\ trees' \in Seq(Tree) /\ Len(trees') = new
            /\ DOMAIN trees' = DOMAIN trees \cup {new}
            /\ \A u \in DOMAIN trees : trees'[u].isFull = trees[u].isFull
            /\ \A u \in DOMAIN trees' : trees'[u].extent \in IntBox
        BY <1>1, <2>2, MadeCornerIs
      <3>2. {x \in nodes : x.tree = new} = {}
        BY TreesAre
      <3>3. Len(trees) \in Nat
        BY TreesAre
      <3>4. Few'
        <4>1. ASSUME NEW u \in DOMAIN trees', ~trees'[u].isFull
              PROVE  Cardinality({x \in nodes : x.tree = u}) <= MAX_LEAF_NODES
          <5>1. CASE u = new
            BY <3>2, <5>1, Finite, FS_EmptySet
          <5>2. CASE u # new
            BY <3>1, <4>1, <5>2 DEF TreeTypeOK, Own
          <5>. QED
            BY <5>1, <5>2
        <4>. QED
          BY <1>3, <4>1 DEF Few, Own
      <3>. QED
        BY <3>1, <3>3, <3>4
    <2>. QED
      BY <1>2, <2>1, <2>2
  <1>5. calls' \in Seq([tree : DOMAIN trees', node : QNode])
    BY <1>2, <1>4, DownMoves
  <1>6. \A x \in nodes' : x \in [node : QNode, tree : DOMAIN trees', nr : 1..made']
    <2>1. ASSUME NEW x \in nodes
          PROVE  x \in [node : QNode, tree : DOMAIN trees', nr : 1..made']
      <3>1. x.nr \in 1..made' /\ x.tree \in DOMAIN trees' /\ x.node \in QNode
            /\ x = [node |-> x.node, tree |-> x.tree, nr |-> x.nr]
        BY <1>3, <1>4, TreesAre
      <3>. QED
        BY <3>1
    <2>. QED
      BY <1>3, <2>1
  <1>. QED
    BY <1>3, <1>4, <1>5, <1>6, TypesFrom DEF TreeTypeOK

LEMMA RemoveNodeIs ==
  ASSUME TreeTypeOK, NEW i, NEW N \in RemoveNode(i)
  PROVE  \/ N = nodes /\ \A x \in nodes : x.node.index # i
         \/ \E x \in nodes : x.node.index = i /\ N = nodes \ {x}
  <1>. DEFINE Found(t) == {x \in Own(t) : x.node.index = i}
              hosts == {t \in DOMAIN trees : Found(t) # {}}
              first == {t \in hosts : \A s \in hosts : Before(t, s)}
  <1>1. CASE hosts = {}
    <2>1. N = nodes
      BY <1>1 DEF RemoveNode
    <2>2. \A x \in nodes : x.node.index = i => Found(x.tree) # {}
      BY DEF Own
    <2>. QED
      BY <1>1, <2>1, <2>2, TreesAre
  <1>2. CASE hosts # {}
    <2>1. PICK t \in first : N = nodes \ {LastOf(Found(t))}
      BY <1>2 DEF RemoveNode
    <2>2. LastOf(Found(t)) \in Found(t)
      BY <2>1, LastOfIs DEF Own
    <2>. QED
      BY <2>1, <2>2 DEF Own
  <1>. QED
    BY <1>1, <1>2

LEMMA CallTypes ==
  ASSUME TreeTypeOK, NEW n \in QNode, Call(n), nodes' \subseteq nodes
  PROVE  /\ TreeTypeOK'
         /\ calls = <<>> /\ calls' = <<[tree |-> 1, node |-> n]>>
         /\ Len(calls') = 1 /\ DOMAIN calls' = {1} /\ calls'[1].tree = 1 /\ calls'[1].node = n
  <1>1. /\ trees' = trees /\ made' = made /\ hung' = hung
        /\ calls = <<>> /\ calls' = <<[tree |-> 1, node |-> n]>>
    BY DEF Call
  <1>2. origin' \in BOOLEAN /\ steps' \in 0..MaxSteps
    BY QTreeAssumption DEF Call, TreeTypeOK
  <1>3. /\ Few' /\ IsFiniteSet(nodes')
        /\ \A x \in nodes' : x \in [node : QNode, tree : DOMAIN trees', nr : 1..made']
        /\ \A x, y \in nodes' : x.nr = y.nr => x = y
    BY <1>1, FewerNodes
  <1>4. /\ calls' \in Seq([tree : DOMAIN trees', node : QNode])
        /\ Len(calls') = 1 /\ DOMAIN calls' = {1} /\ calls'[1].tree = 1 /\ calls'[1].node = n
    <2>1. [tree |-> 1, node |-> n] \in [tree : DOMAIN trees', node : QNode]
      BY <1>1, TreesAre
    <2>. QED
      BY <1>1, <2>1
  <1>5. trees' \in Seq(Tree) /\ Len(trees') >= 1 /\ \A s \in DOMAIN trees' : trees'[s].extent \in IntBox
    BY <1>1, TreesAre DEF TreeTypeOK
  <1>6. made' \in Nat /\ hung' \in BOOLEAN
    BY <1>1 DEF TreeTypeOK
  <1>7. TreeTypeOK'
    BY <1>2, <1>3, <1>4, <1>5, <1>6, TypesFrom
  <1>. QED
    BY <1>1, <1>4, <1>7

-----------------------------------------------------------------------------
(* What is in a tree stays in it, and calls return.                        *)

(* Trees contain what they contained, but for Zero.                        *)
Growing ==
  \A s \in DOMAIN trees, b \in IntBox :
    b # Zero /\ Contain(trees[s].extent, b) => Contain(trees'[s].extent, b)

LEMMA StillEnclosed ==
  ASSUME Growing, NEW b \in IntBox, NEW S, S \subseteq DOMAIN trees, EnclosedIn(b, S)
  PROVE  b # Zero => \A s \in S : Contain(trees'[s].extent, b)
  BY DEF Growing, EnclosedIn

(* The invariant, if no tree goes to other trees, and the extents at most  *)
(* grow.                                                                   *)
LEMMA NodesStay ==
  ASSUME TreeTypeOK, Rooted, Growing, Enclosed, nodes' \subseteq nodes,
         \A s \in DOMAIN trees : trees'[s].in = trees[s].in
  PROVE  \A x \in nodes' : EnclosedIn(x.node.box, trees[x.tree].in)'
  <1>1. ASSUME NEW x \in nodes
        PROVE  EnclosedIn(x.node.box, trees[x.tree].in)'
    <2>1. x.node.box \in IntBox /\ x.tree \in DOMAIN trees
      BY TreesAre
    <2>2. trees[x.tree].in \subseteq DOMAIN trees
      BY <2>1 DEF Rooted
    <2>3. EnclosedIn(x.node.box, trees[x.tree].in)
      BY DEF Enclosed
    <2>4. x.node.box # Zero => \A s \in trees[x.tree].in : Contain(trees'[s].extent, x.node.box)
      BY <2>1, <2>2, <2>3, StillEnclosed
    <2>. QED
      BY <2>1, <2>4 DEF EnclosedIn
  <1>. QED
    BY <1>1

LEMMA CallStays ==
  ASSUME TreeTypeOK, Rooted, Growing, Enclosed, NEW k \in DOMAIN calls, NEW l,
         calls'[l] = calls[k],
         \A s \in DOMAIN trees : trees'[s].in = trees[s].in
  PROVE  EnclosedIn(calls[l].node.box, trees[calls[l].tree].in \ {calls[l].tree})'
  <1>. DEFINE t == calls[k].tree
              b == calls[k].node.box
  <1>1. b \in IntBox /\ t \in DOMAIN trees
    BY CallsAre
  <1>2. trees[t].in \ {t} \subseteq DOMAIN trees
    BY <1>1 DEF Rooted
  <1>3. EnclosedIn(b, trees[t].in \ {t})
    BY DEF Enclosed
  <1>. HIDE DEF t, b
  <1>4. b # Zero => \A s \in trees[t].in \ {t} : Contain(trees'[s].extent, b)
    BY <1>1, <1>2, <1>3, StillEnclosed
  <1>. QED
    BY <1>1, <1>4 DEF EnclosedIn, t, b

LEMMA CallsStay ==
  ASSUME TreeTypeOK, Rooted, Growing, Enclosed, calls' = calls,
         \A s \in DOMAIN trees : trees'[s].in = trees[s].in
  PROVE  \A k \in DOMAIN calls' :
           EnclosedIn(calls[k].node.box, trees[calls[k].tree].in \ {calls[k].tree})'
  BY CallStays

LEMMA TakeExtentGrows ==
  ASSUME TreeTypeOK, NEW t, NEW n, Innermost(t, n), TakeExtent(t, n)
  PROVE  Growing
  <1>1. trees[t].extent = Zero
    BY DEF TakeExtent
  <1>2. \A s \in DOMAIN trees \ {t} : trees'[s].extent = trees[s].extent
    BY InnermostIs, TakeExtentIs
  <1>. QED
    BY <1>1, <1>2, ZeroHasOnlyZero DEF Growing

LEMMA GrowGrows ==
  ASSUME TreeTypeOK, Rooted, NEW t, NEW n, Innermost(t, n), Grow(t, n)
  PROVE  Growing
  <1>1. /\ t \in DOMAIN trees /\ trees[t].extent \in IntBox /\ n.box \in IntBox
        /\ t \in trees[t].in
    BY InnermostIs, TreesAre DEF Rooted
  <1>2. /\ trees'[t].extent = Doubled(trees[t].extent, n.box)
        /\ \A s \in DOMAIN trees \ {t} : trees'[s].extent = trees[s].extent
    BY <1>1, InnermostIs, GrowIs
  <1>3. Contain(trees'[t].extent, trees[t].extent) /\ trees'[t].extent \in IntBox
    BY <1>1, <1>2, DoubledIs
  <1>4. \A b \in IntBox : Contain(trees[t].extent, b) => Contain(trees'[t].extent, b)
    BY <1>1, <1>3, ContainIsOrder DEF IntBox
  <1>. QED
    BY <1>2, <1>4 DEF Growing

LEMMA TakeExtentEncloses ==
  ASSUME TreeTypeOK, Rooted, Enclosed, NEW t, NEW n, Innermost(t, n), TakeExtent(t, n)
  PROVE  Enclosed'
  <1>1. nodes' = nodes /\ calls' = calls /\ \A s \in DOMAIN trees : trees'[s].in = trees[s].in
    BY InnermostIs, TakeExtentIs DEF TakeExtent
  <1>2. Growing
    BY TakeExtentGrows
  <1>3. \A x \in nodes' : EnclosedIn(x.node.box, trees[x.tree].in)'
    BY <1>1, <1>2, NodesStay
  <1>4. \A k \in DOMAIN calls' :
          EnclosedIn(calls[k].node.box, trees[calls[k].tree].in \ {calls[k].tree})'
    BY <1>1, <1>2, CallsStay
  <1>. QED
    BY <1>3, <1>4 DEF Enclosed

LEMMA GrowEncloses ==
  ASSUME TreeTypeOK, Rooted, Enclosed, NEW t, NEW n, Innermost(t, n), Grow(t, n)
  PROVE  Enclosed'
  <1>. DEFINE old == Len(trees) + 1
  <1>1. t \in DOMAIN trees /\ t \in trees[t].in /\ old \notin DOMAIN trees
    BY InnermostIs, TreesAre DEF Rooted
  <1>2. /\ trees'[t].in = trees[t].in
        /\ trees'[old].extent = trees[t].extent /\ trees'[old].in = trees[t].in \cup {old}
        /\ \A s \in DOMAIN trees \ {t} : trees'[s].in = InMore(t, s)
    BY <1>1, InnermostIs, GrowIs
  <1>3. calls' = calls
    BY DEF Grow
  <1>4. PICK M \in [nodes -> nodes'] :
          /\ nodes' = {M[x] : x \in nodes}
          /\ \A x \in nodes :
               /\ M[x].node = x.node /\ M[x].nr = x.nr
               /\ M[x].tree = IF x.tree = t THEN old ELSE x.tree
               /\ M[x] = [node |-> M[x].node, tree |-> M[x].tree, nr |-> M[x].nr]
          /\ \A S \in SUBSET nodes :
               /\ IsFiniteSet({M[x] : x \in S}) /\ Cardinality({M[x] : x \in S}) = Cardinality(S)
    BY <1>1, GrowMoves
  <1>5. Growing
    BY GrowGrows
  <1>6. \A s \in DOMAIN trees :
          InMore(t, s) = IF t \in trees[s].in THEN trees[s].in \cup {old} ELSE trees[s].in
    BY DEF InMore
  <1>. HIDE DEF old
  (* A box that is in the trees of S is in the new one, if t is in S.       *)
  <1>7. ASSUME NEW b \in IntBox, NEW S, S \subseteq DOMAIN trees, EnclosedIn(b, S), b # Zero
        PROVE  /\ \A s \in S : Contain(trees'[s].extent, b)
               /\ t \in S => Contain(trees'[old].extent, b)
    BY <1>2, <1>5, <1>7, StillEnclosed DEF EnclosedIn
  <1>8. ASSUME NEW x \in nodes
        PROVE  M[x].node.box # Zero =>
                 \A s \in trees'[M[x].tree].in : Contain(trees'[s].extent, M[x].node.box)
    <2>1. x.node.box \in IntBox /\ x.tree \in DOMAIN trees
      BY TreesAre
    <2>2. trees[x.tree].in \subseteq DOMAIN trees /\ x.tree \in trees[x.tree].in
      BY <2>1 DEF Rooted
    <2>3. EnclosedIn(x.node.box, trees[x.tree].in)
      BY DEF Enclosed
    <2>4. x.node.box # Zero =>
            /\ \A s \in trees[x.tree].in : Contain(trees'[s].extent, x.node.box)
            /\ t \in trees[x.tree].in => Contain(trees'[old].extent, x.node.box)
      BY <1>7, <2>1, <2>2, <2>3
    <2>5. \/ trees'[M[x].tree].in = trees[x.tree].in
          \/ t \in trees[x.tree].in /\ trees'[M[x].tree].in = trees[x.tree].in \cup {old}
      BY <1>2, <1>4, <1>6, <2>1, <2>2
    <2>. QED
      BY <1>4, <2>4, <2>5
  <1>9. ASSUME NEW k \in DOMAIN calls
        PROVE  calls[k].node.box # Zero =>
                 \A s \in trees'[calls[k].tree].in \ {calls[k].tree} :
                   Contain(trees'[s].extent, calls[k].node.box)
    <2>. DEFINE u == calls[k].tree
                b == calls[k].node.box
    <2>1. b \in IntBox /\ u \in DOMAIN trees
      BY CallsAre
    <2>2. trees[u].in \ {u} \subseteq DOMAIN trees
      BY <2>1 DEF Rooted
    <2>3. EnclosedIn(b, trees[u].in \ {u})
      BY DEF Enclosed
    <2>. HIDE DEF u, b
    <2>4. b # Zero => /\ \A s \in trees[u].in \ {u} : Contain(trees'[s].extent, b)
                      /\ t \in trees[u].in \ {u} => Contain(trees'[old].extent, b)
      BY <1>7, <2>1, <2>2, <2>3
    <2>5. \/ trees'[u].in = trees[u].in
          \/ t \in trees[u].in \ {u} /\ trees'[u].in = trees[u].in \cup {old}
      BY <1>2, <1>6, <2>1
    <2>6. b # Zero => \A s \in trees'[u].in \ {u} : Contain(trees'[s].extent, b)
      BY <2>4, <2>5
    <2>. QED
      BY <2>6 DEF u, b
  <1>. QED
    BY <1>3, <1>4, <1>8, <1>9 DEF Enclosed, EnclosedIn

LEMMA PutEncloses ==
  ASSUME TreeTypeOK, Rooted, Enclosed, NEW t, NEW n, Innermost(t, n), Put(t, n)
  PROVE  Enclosed'
  <1>1. PICK y : y.node = n /\ y.tree = t /\ nodes' = nodes \cup {y}
    BY PutIs
  <1>2. /\ trees' = trees
        /\ \A k \in DOMAIN calls' : k \in DOMAIN calls /\ calls'[k] = calls[k]
    BY PutIs
  <1>3. Contain(trees[t].extent, n.box)
    BY DEF Put
  <1>4. EnclosedIn(n.box, trees[t].in \ {t})
    BY InnermostIs DEF Enclosed
  <1>5. EnclosedIn(n.box, trees[t].in)
    BY <1>3, <1>4 DEF EnclosedIn
  <1>. QED
    BY <1>1, <1>2, <1>5 DEF Enclosed, EnclosedIn

LEMMA RegenerateEncloses ==
  ASSUME TreeTypeOK, Rooted, Enclosed, NEW t, NEW n, Innermost(t, n), Regenerate(t, n)
  PROVE  Enclosed'
  <1>1. \A s \in DOMAIN trees : trees'[s].extent = trees[s].extent /\ trees'[s].in = trees[s].in
    BY InnermostIs, RegenerateIs
  <1>2. Growing
    BY <1>1 DEF Growing
  <1>3. CASE nodes' = nodes /\ calls' = calls
    <2>1. \A x \in nodes' : EnclosedIn(x.node.box, trees[x.tree].in)'
      BY <1>1, <1>2, <1>3, NodesStay
    <2>2. \A k \in DOMAIN calls' :
            EnclosedIn(calls[k].node.box, trees[calls[k].tree].in \ {calls[k].tree})'
      BY <1>1, <1>2, <1>3, CallsStay
    <2>. QED
      BY <2>1, <2>2 DEF Enclosed
  <1>4. ASSUME NEW x \in nodes, x.tree = t, nodes' = nodes \ {x},
               DOMAIN calls' = DOMAIN calls \cup {Len(calls) + 1},
               calls'[Len(calls) + 1] = [tree |-> t, node |-> x.node],
               \A k \in DOMAIN calls : calls'[k] = calls[k]
        PROVE  Enclosed'
    <2>. DEFINE l == Len(calls) + 1
    <2>1. \A y \in nodes' : EnclosedIn(y.node.box, trees[y.tree].in)'
      BY <1>1, <1>2, <1>4, NodesStay
    <2>2. ASSUME NEW k \in DOMAIN calls
          PROVE  EnclosedIn(calls[k].node.box, trees[calls[k].tree].in \ {calls[k].tree})'
      <3>1. calls'[k] = calls[k]
        BY <1>4
      <3>. QED
        BY <1>1, <1>2, <3>1, CallStays
    <2>3. x.node.box \in IntBox /\ t \in DOMAIN trees /\ trees[t].in \subseteq DOMAIN trees
      BY <1>4, TreesAre DEF Rooted
    <2>4. EnclosedIn(x.node.box, trees[t].in)
      BY <1>4 DEF Enclosed
    <2>5. x.node.box # Zero => \A s \in trees[t].in : Contain(trees'[s].extent, x.node.box)
      BY <1>2, <2>3, <2>4, StillEnclosed
    <2>. HIDE DEF l
    <2>6. calls'[l].tree = t /\ calls'[l].node = x.node /\ trees'[t].in = trees[t].in
      BY <1>1, <1>4, <2>3 DEF l
    <2>7. calls'[l].node.box # Zero => \A s \in trees'[calls'[l].tree].in \ {calls'[l].tree} :
                                         Contain(trees'[s].extent, calls'[l].node.box)
      BY <2>5, <2>6
    <2>8. \A k \in DOMAIN calls' :
            EnclosedIn(calls[k].node.box, trees[calls[k].tree].in \ {calls[k].tree})'
      <3>1. DOMAIN calls' = DOMAIN calls \cup {l}
        BY <1>4 DEF l
      <3>. QED
        BY <2>2, <2>7, <3>1 DEF EnclosedIn
    <2>. QED
      BY <2>1, <2>8 DEF Enclosed
  <1>. QED
    BY <1>3, <1>4, RegenerateMoves

LEMMA DownEncloses ==
  ASSUME TreeTypeOK, Nested, Rooted, Enclosed, NEW t, NEW n, Innermost(t, n), Down(t, n)
  PROVE  Enclosed'
  <1>. DEFINE c == CornerOf(trees[t].extent, n.box)
              l == Len(calls)
  <1>1. /\ t \in DOMAIN trees /\ n \in QNode /\ n.box \in IntBox /\ c \in Corners
        /\ l \in DOMAIN calls /\ calls[l].node = n /\ calls[l].tree = t
    BY InnermostIs, DownGoes
  <1>2. PICK s \in DOMAIN trees' :
          /\ calls' = [calls EXCEPT ![Len(calls)].tree = s]
          /\ \/ MadeCorner(t, c) /\ s = Len(trees) + 1
             \/ trees' = trees /\ s = trees[t].at[c] /\ s # 0
    BY DownGoes
  <1>3. nodes' = nodes /\ Contain(trees[t].extent, n.box)
    BY DEF Down
  <1>. HIDE DEF c, l
  <1>4. /\ DOMAIN trees \subseteq DOMAIN trees'
        /\ \A u \in DOMAIN trees : trees'[u].extent = trees[u].extent /\ trees'[u].in = trees[u].in
        /\ s \notin trees[t].in /\ trees'[s].in = trees[t].in \cup {s}
    <2>1. CASE MadeCorner(t, c) /\ s = Len(trees) + 1
      <3>1. /\ DOMAIN trees' = DOMAIN trees \cup {s}
            /\ trees'[s].in = trees[t].in \cup {s}
        BY <1>1, <2>1, MadeCornerIs
      <3>2. \A u \in DOMAIN trees : trees'[u].extent = trees[u].extent /\ trees'[u].in = trees[u].in
        BY <1>1, <2>1, MadeCornerIs
      <3>3. s \notin trees[t].in
        BY <1>1, <2>1, TreesAre DEF Rooted
      <3>. QED
        BY <3>1, <3>2, <3>3
    <2>2. CASE trees' = trees /\ s = trees[t].at[c] /\ s # 0
      BY <1>1, <2>2, CornersAre DEF Fits
    <2>. QED
      BY <1>2, <2>1, <2>2
  <1>5. Growing
    BY <1>4 DEF Growing
  <1>6. /\ DOMAIN calls' = DOMAIN calls
        /\ \A k \in DOMAIN calls : /\ calls'[k].node = calls[k].node
                                   /\ calls'[k].tree = IF k = l THEN s ELSE calls[k].tree
    BY <1>2, <1>4, DownMoves DEF l
  <1>7. \A x \in nodes' : EnclosedIn(x.node.box, trees[x.tree].in)'
    BY <1>3, <1>4, <1>5, NodesStay
  <1>8. ASSUME NEW k \in DOMAIN calls
        PROVE  calls'[k].node.box # Zero => \A u \in trees'[calls'[k].tree].in \ {calls'[k].tree} :
                                              Contain(trees'[u].extent, calls'[k].node.box)
    <2>1. CASE k = l
      <3>1. calls'[k].node = n /\ calls'[k].tree = s /\ trees'[s].in \ {s} = trees[t].in
        BY <1>1, <1>4, <1>6, <2>1
      <3>2. EnclosedIn(n.box, trees[t].in \ {t})
        BY <1>1 DEF Enclosed
      <3>3. EnclosedIn(n.box, trees[t].in)
        BY <1>3, <3>2 DEF EnclosedIn
      <3>4. trees[t].in \subseteq DOMAIN trees
        BY <1>1 DEF Rooted
      <3>5. n.box # Zero => \A u \in trees[t].in : Contain(trees'[u].extent, n.box)
        BY <1>1, <1>5, <3>3, <3>4, StillEnclosed
      <3>. QED
        BY <3>1, <3>5
    <2>2. CASE k # l
      <3>. DEFINE u == calls[k].tree
                  b == calls[k].node.box
      <3>1. b \in IntBox /\ u \in DOMAIN trees
        BY CallsAre
      <3>2. trees[u].in \ {u} \subseteq DOMAIN trees /\ trees'[u].in = trees[u].in
        BY <1>4, <3>1 DEF Rooted
      <3>3. EnclosedIn(b, trees[u].in \ {u})
        BY DEF Enclosed
      <3>4. b = calls'[k].node.box /\ u = calls'[k].tree
        BY <1>6, <2>2
      <3>. HIDE DEF u, b
      <3>5. b # Zero => \A v \in trees[u].in \ {u} : Contain(trees'[v].extent, b)
        BY <1>5, <3>1, <3>2, <3>3, StillEnclosed
      <3>. QED
        BY <3>2, <3>4, <3>5
    <2>. QED
      BY <2>1, <2>2
  <1>9. \A k \in DOMAIN calls' :
          EnclosedIn(calls[k].node.box, trees[calls[k].tree].in \ {calls[k].tree})'
    BY <1>6, <1>8 DEF EnclosedIn
  <1>. QED
    BY <1>7, <1>9 DEF Enclosed

LEMMA CallEncloses ==
  ASSUME TreeTypeOK, Nested, Rooted, Enclosed, NEW n \in QNode, Call(n), nodes' \subseteq nodes
  PROVE  Enclosed'
  <1>1. trees' = trees
    BY DEF Call
  <1>2. DOMAIN calls' = {1} /\ calls'[1].tree = 1
    BY CallTypes
  <1>3. trees'[1].in \ {1} = {}
    BY <1>1 DEF Nested
  <1>. QED
    BY <1>1, <1>2, <1>3 DEF Enclosed, EnclosedIn

(* All calls but the innermost one keep their trees, which may grow.       *)
LEMMA OuterCallsReturn ==
  ASSUME TreeTypeOK, Growing, NoZero, CallsReturn,
         \A s \in DOMAIN trees' : trees'[s].extent \in IntBox,
         DOMAIN trees \subseteq DOMAIN trees',
         NEW k \in DOMAIN calls, k < Len(calls), NEW b, NEW e,
         b = calls[k].node.box, e = trees'[calls[k].tree].extent
  PROVE  Contain(e, b) /\ CanTake(e, b)
  <1>1. b \in IntBox /\ calls[k].tree \in DOMAIN trees /\ b # Zero /\ e \in IntBox
    BY CallsAre DEF NoZero
  <1>2. Contain(trees[calls[k].tree].extent, b)
    BY DEF CallsReturn
  <1>3. Contain(e, b)
    BY <1>1, <1>2 DEF Growing
  <1>. QED
    BY <1>1, <1>3, ContainedIsTaken

LEMMA TakeExtentReturns ==
  ASSUME TreeTypeOK, Nested, Rooted, Returning,
         NEW t, NEW n, Innermost(t, n), TakeExtent(t, n), origin' = origin
  PROVE  Returning'
  <1>. SUFFICES ASSUME ~origin
                PROVE  NoZero' /\ CornersFit' /\ CallsReturn' /\ ~hung'
    BY DEF Returning
  <1>0. NoZero /\ CornersFit /\ CallsReturn
    BY DEF Returning
  <1>1. /\ DOMAIN trees' = DOMAIN trees
        /\ \A s \in DOMAIN trees :
              /\ trees'[s].extent = IF s = t THEN n.box ELSE trees[s].extent
              /\ trees'[s].at = trees[s].at
              /\ trees'[s].extent \in IntBox
    BY InnermostIs, TakeExtentIs
  <1>2. /\ ~Contain(trees[t].extent, n.box) /\ trees[t].extent = Zero
        /\ nodes' = nodes /\ calls' = calls /\ hung' = hung
    BY DEF TakeExtent
  <1>3. /\ t \in DOMAIN trees /\ n.box \in IntBox /\ Len(calls) \in DOMAIN calls
        /\ calls[Len(calls)].tree = t /\ calls[Len(calls)].node = n
    BY InnermostIs
  <1>4. Len(calls) = 1 /\ t = 1
    <2>1. ~CanTake(trees[t].extent, n.box)
      BY <1>2 DEF CanTake
    <2>. QED
      BY <1>0, <1>3, <2>1 DEF CallsReturn
  <1>5. NoZero'
    <2>1. n.box # Zero
      BY <1>0, <1>3 DEF NoZero
    <2>. QED
      BY <1>0, <1>1, <1>2, <2>1 DEF NoZero
  <1>6. CornersFit'
    <2>1. ASSUME NEW s \in DOMAIN trees, NEW c \in Corners, trees[s].at[c] # 0
          PROVE  Contain(trees'[trees[s].at[c]].extent, Quarter(trees'[s].extent, c))
      <3>1. s # t
        BY <1>0, <1>2, <2>1 DEF NoZero, NoCorners
      <3>2. trees[s].at[c] \in DOMAIN trees /\ trees[s].at[c] # 1
        BY <2>1 DEF Nested, Rooted
      <3>3. Contain(trees[trees[s].at[c]].extent, Quarter(trees[s].extent, c))
        BY <1>0, <2>1 DEF CornersFit
      <3>. QED
        BY <1>1, <1>4, <3>1, <3>2, <3>3
    <2>. QED
      BY <1>1, <2>1 DEF CornersFit
  <1>7. CallsReturn'
    <2>1. DOMAIN calls = {1}
      BY <1>4, CallsAre
    <2>. QED
      BY <1>2, <1>3, <1>4, <2>1 DEF CallsReturn
  <1>. QED
    BY <1>2, <1>5, <1>6, <1>7 DEF Innermost

LEMMA GrowReturns ==
  ASSUME TreeTypeOK, Nested, Rooted, Returning,
         NEW t, NEW n, Innermost(t, n), Grow(t, n), origin' = origin
  PROVE  Returning'
  <1>. DEFINE old == Len(trees) + 1
              e == trees[t].extent
              co == OldCorner(e, n.box)
  <1>. SUFFICES ASSUME ~origin
                PROVE  NoZero' /\ CornersFit' /\ CallsReturn' /\ ~hung'
    BY DEF Returning
  <1>0. NoZero /\ CornersFit /\ CallsReturn
    BY DEF Returning
  <1>1. /\ t \in DOMAIN trees /\ n \in QNode /\ n.box \in IntBox /\ Len(calls) \in DOMAIN calls
        /\ calls[Len(calls)].tree = t /\ calls[Len(calls)].node = n
        /\ t \in trees[t].in /\ old \notin DOMAIN trees /\ e \in IntBox
    BY InnermostIs, TreesAre DEF Rooted
  <1>2. /\ DOMAIN trees' = DOMAIN trees \cup {old}
        /\ trees'[t].extent = Doubled(e, n.box)
        /\ \A c \in Corners : trees'[t].at[c] = IF c = co THEN old ELSE 0
        /\ trees'[old].extent = e /\ trees'[old].at = trees[t].at
        /\ \A s \in DOMAIN trees \ {t} :
             trees'[s].extent = trees[s].extent /\ trees'[s].at = trees[s].at
        /\ \A s \in DOMAIN trees' : trees'[s].extent \in IntBox
    BY <1>1, GrowIs
  <1>3. e # Zero /\ ~Endless(e, n.box) /\ calls' = calls /\ hung' = hung
    BY DEF Grow
  <1>4. /\ Doubled(e, n.box) \in IntBox /\ Contain(Doubled(e, n.box), e)
        /\ Quarter(Doubled(e, n.box), co) = e /\ ~Endless(Doubled(e, n.box), n.box)
    BY <1>1, <1>3, DoubledIs
  <1>5. Doubled(e, n.box) # Zero
    BY <1>1, <1>3, <1>4, ZeroHasOnlyZero
  <1>6. Growing
    BY GrowGrows
  <1>7. /\ \A x \in nodes' : x.node.box # Zero
        /\ \A k \in DOMAIN calls : calls[k].node.box # Zero
    <2>1. PICK M \in [nodes -> nodes'] :
            /\ nodes' = {M[x] : x \in nodes}
            /\ \A x \in nodes :
                 /\ M[x].node = x.node /\ M[x].nr = x.nr
                 /\ M[x].tree = IF x.tree = t THEN old ELSE x.tree
                 /\ M[x] = [node |-> M[x].node, tree |-> M[x].tree, nr |-> M[x].nr]
            /\ \A S \in SUBSET nodes :
                 /\ IsFiniteSet({M[x] : x \in S}) /\ Cardinality({M[x] : x \in S}) = Cardinality(S)
      BY <1>1, GrowMoves
    <2>. QED
      BY <1>0, <2>1 DEF NoZero
  <1>. HIDE DEF old, e, co
  <1>8. NoZero'
    <2>1. ASSUME NEW s \in DOMAIN trees', trees'[s].extent = Zero
          PROVE  trees'[s].at = NoCorners
      <3>1. s \in DOMAIN trees /\ s # t
        BY <1>2, <1>3, <1>5, <2>1
      <3>. QED
        BY <1>0, <1>2, <2>1, <3>1 DEF NoZero
    <2>. QED
      BY <1>3, <1>7, <2>1 DEF NoZero
  <1>9. CornersFit'
    <2>1. ASSUME NEW s \in DOMAIN trees', NEW c \in Corners, trees'[s].at[c] # 0
          PROVE  Contain(trees'[trees'[s].at[c]].extent, Quarter(trees'[s].extent, c))
      <3>1. CASE s = t
        <4>1. c = co /\ trees'[s].at[c] = old
          BY <1>2, <2>1, <3>1
        <4>2. Quarter(trees'[s].extent, c) = e /\ trees'[old].extent = e
          BY <1>2, <1>4, <3>1, <4>1
        <4>. QED
          BY <1>1, <4>1, <4>2, ContainIsOrder DEF IntBox
      <3>2. CASE s # t
        <4>. DEFINE v == IF s = old THEN t ELSE s
                    u == trees[v].at[c]
        <4>1. v \in DOMAIN trees /\ trees'[s].at[c] = u /\ u # 0 /\ trees'[s].extent = trees[v].extent
          BY <1>1, <1>2, <2>1, <3>2 DEF e
        <4>2. u \in DOMAIN trees
          BY <4>1 DEF Nested
        <4>3. Contain(trees[u].extent, Quarter(trees[v].extent, c))
          BY <1>0, <4>1 DEF CornersFit
        <4>4. Quarter(trees[v].extent, c) \in IntBox /\ trees'[u].extent \in IntBox /\ trees[u].extent \in IntBox
          BY <1>2, <4>1, <4>2, TreesAre, QuarterIs
        <4>5. trees'[u].extent = trees[u].extent \/ Contain(trees'[u].extent, trees[u].extent)
          BY <1>2, <1>4, <4>2 DEF e
        <4>. HIDE DEF u, v
        <4>6. Contain(trees'[u].extent, Quarter(trees[v].extent, c))
          BY <4>3, <4>4, <4>5, ContainIsOrder DEF IntBox
        <4>. QED
          BY <4>1, <4>6
      <3>. QED
        BY <3>1, <3>2
    <2>. QED
      BY <2>1 DEF CornersFit
  <1>10. CallsReturn'
    <2>1. ASSUME NEW k \in DOMAIN calls
          PROVE  LET f == trees'[calls[k].tree].extent
                     b == calls[k].node.box
                 IN /\ k < Len(calls) => Contain(f, b)
                    /\ k # 1 \/ calls[k].tree # 1 => CanTake(f, b)
      <3>1. CASE k < Len(calls)
        BY <1>0, <1>2, <1>6, <3>1, OuterCallsReturn
      <3>2. CASE ~(k < Len(calls))
        <4>1. k = Len(calls)
          BY <3>2, CallsAre
        <4>2. CanTake(Doubled(e, n.box), n.box)
          BY <1>4, <1>5 DEF CanTake
        <4>. QED
          BY <1>1, <1>2, <3>2, <4>1, <4>2
      <3>. QED
        BY <3>1, <3>2
    <2>. QED
      BY <1>3, <2>1 DEF CallsReturn
  <1>. QED
    BY <1>3, <1>8, <1>9, <1>10 DEF Innermost

LEMMA HangReturns ==
  ASSUME TreeTypeOK, Returning, NEW t, NEW n, Innermost(t, n), Hang(t, n), origin' = origin
  PROVE  Returning'
  <1>. SUFFICES ASSUME ~origin
                PROVE  NoZero' /\ CornersFit' /\ CallsReturn' /\ Flat(trees[1].extent)'
    BY DEF Returning
  <1>0. NoZero /\ CornersFit /\ CallsReturn
    BY DEF Returning
  <1>1. trees' = trees /\ nodes' = nodes /\ calls' = calls /\ Endless(trees[t].extent, n.box)
    BY DEF Hang
  <1>2. /\ Len(calls) \in DOMAIN calls
        /\ calls[Len(calls)].tree = t /\ calls[Len(calls)].node = n
    BY InnermostIs
  <1>3. t = 1
    BY <1>0, <1>1, <1>2 DEF CallsReturn, CanTake
  <1>4. Flat(trees[1].extent)
    BY <1>1, <1>3 DEF Endless, Flat
  <1>5. Flat(trees[1].extent)'
    BY <1>1, <1>4
  <1>6. NoZero' /\ CornersFit' /\ CallsReturn'
    BY <1>0, <1>1 DEF NoZero, CornersFit, CallsReturn
  <1>. QED
    BY <1>5, <1>6

LEMMA PutReturns ==
  ASSUME TreeTypeOK, Returning, NEW t, NEW n, Innermost(t, n), Put(t, n), origin' = origin
  PROVE  Returning'
  <1>. SUFFICES ASSUME ~origin
                PROVE  NoZero' /\ CornersFit' /\ CallsReturn' /\ ~hung'
    BY DEF Returning
  <1>0. NoZero /\ CornersFit /\ CallsReturn
    BY DEF Returning
  <1>1. PICK y : y.node = n /\ y.tree = t /\ nodes' = nodes \cup {y}
    BY PutIs
  <1>2. /\ trees' = trees /\ Len(calls') = Len(calls) - 1 /\ DOMAIN calls' = 1..Len(calls) - 1
        /\ \A k \in DOMAIN calls' : k \in DOMAIN calls /\ calls'[k] = calls[k]
    BY PutIs
  <1>3. hung' = hung
    BY DEF Put
  <1>4. n.box # Zero
    BY <1>0, InnermostIs DEF NoZero
  <1>5. NoZero'
    BY <1>0, <1>1, <1>2, <1>4 DEF NoZero
  <1>6. CornersFit'
    BY <1>0, <1>2 DEF CornersFit
  <1>7. CallsReturn'
    <2>1. ASSUME NEW k \in DOMAIN calls'
          PROVE  LET f == trees[calls[k].tree].extent
                     b == calls[k].node.box
                 IN Contain(f, b) /\ CanTake(f, b)
      <3>1. k \in DOMAIN calls /\ k < Len(calls)
        BY <1>2, CallsAre
      <3>2. Growing
        BY <1>2 DEF Growing
      <3>3. \A s \in DOMAIN trees' : trees'[s].extent \in IntBox
        BY <1>2, TreesAre
      <3>. QED
        BY <1>0, <1>2, <3>1, <3>2, <3>3, OuterCallsReturn
    <2>. QED
      BY <1>2, <2>1 DEF CallsReturn
  <1>. QED
    BY <1>3, <1>5, <1>6, <1>7 DEF Innermost

LEMMA RegenerateReturns ==
  ASSUME TreeTypeOK, Nested, Rooted, Enclosed, Returning,
         NEW t, NEW n, Innermost(t, n), Regenerate(t, n), origin' = origin
  PROVE  Returning'
  <1>. SUFFICES ASSUME ~origin
                PROVE  NoZero' /\ CornersFit' /\ CallsReturn' /\ ~hung'
    BY DEF Returning
  <1>0. NoZero /\ CornersFit /\ CallsReturn
    BY DEF Returning
  <1>1. /\ DOMAIN trees' = DOMAIN trees
        /\ \A s \in DOMAIN trees :
             /\ trees'[s].extent = trees[s].extent /\ trees'[s].at = trees[s].at
             /\ trees'[s].extent \in IntBox
    BY InnermostIs, RegenerateIs
  <1>2. hung' = hung /\ Contain(trees[t].extent, n.box)
    BY DEF Regenerate
  <1>3. /\ t \in DOMAIN trees /\ n.box \in IntBox /\ Len(calls) \in DOMAIN calls
        /\ calls[Len(calls)].tree = t /\ calls[Len(calls)].node = n
    BY InnermostIs
  <1>4. CornersFit'
    <2>1. \A s \in DOMAIN trees, c \in Corners : trees[s].at[c] # 0 => trees[s].at[c] \in DOMAIN trees
      BY DEF Nested
    <2>. QED
      BY <1>0, <1>1, <2>1 DEF CornersFit
  <1>5. CASE nodes' = nodes /\ calls' = calls
    <2>1. NoZero'
      BY <1>0, <1>1, <1>5 DEF NoZero
    <2>2. CallsReturn'
      BY <1>0, <1>1, <1>5, CallsAre DEF CallsReturn
    <2>. QED
      BY <1>2, <1>4, <2>1, <2>2 DEF Innermost
  <1>6. ASSUME NEW x \in nodes, x.tree = t, nodes' = nodes \ {x},
               Len(calls') = Len(calls) + 1, DOMAIN calls' = DOMAIN calls \cup {Len(calls) + 1},
               calls'[Len(calls) + 1] = [tree |-> t, node |-> x.node],
               \A k \in DOMAIN calls : calls'[k] = calls[k]
        PROVE  NoZero' /\ CallsReturn' /\ ~hung'
    <2>. DEFINE l == Len(calls)
    <2>1. x.node.box \in IntBox /\ x.node.box # Zero /\ trees[t].extent \in IntBox
      BY <1>0, <1>3, TreesAre DEF NoZero
    <2>2. Contain(trees[t].extent, x.node.box)
      <3>1. t \in trees[t].in
        BY <1>3 DEF Rooted
      <3>. QED
        BY <1>6, <2>1, <3>1 DEF Enclosed, EnclosedIn
    <2>3. CanTake(trees[t].extent, x.node.box) /\ CanTake(trees[t].extent, n.box)
      BY <1>2, <1>3, <2>1, <2>2, ContainedIsTaken
    <2>4. /\ l \in Nat /\ DOMAIN calls = 1..l /\ l + 1 \notin DOMAIN calls
          /\ calls'[l + 1].tree = t /\ calls'[l + 1].node = x.node
          /\ trees'[t].extent = trees[t].extent
      BY <1>1, <1>3, <1>6, CallsAre
    <2>5. NoZero'
      BY <1>0, <1>1, <1>6, <2>1, <2>4 DEF NoZero
    <2>. HIDE DEF l
    <2>6. ASSUME NEW k \in DOMAIN calls'
          PROVE  LET e == trees'[calls'[k].tree].extent
                     b == calls'[k].node.box
                 IN /\ k < l + 1 => Contain(e, b)
                    /\ k # 1 \/ calls'[k].tree # 1 => CanTake(e, b)
      <3>1. CASE k = l + 1
        BY <2>3, <2>4, <3>1
      <3>2. CASE k = l
        <4>1. calls'[k].tree = t /\ calls'[k].node = n
          BY <1>3, <1>6, <3>2 DEF l
        <4>. QED
          BY <1>2, <2>3, <2>4, <4>1
      <3>3. CASE k < l
        <4>1. k \in DOMAIN calls /\ calls'[k] = calls[k]
          BY <1>6, <2>4, <3>3 DEF l
        <4>2. calls[k].tree \in DOMAIN trees
          BY <4>1, CallsAre
        <4>3. Growing /\ DOMAIN trees \subseteq DOMAIN trees'
          BY <1>1 DEF Growing
        <4>. QED
          BY <1>0, <1>1, <3>3, <4>1, <4>2, <4>3, OuterCallsReturn DEF l
      <3>. QED
        BY <1>6, <2>4, <3>1, <3>2, <3>3 DEF l
    <2>7. CallsReturn'
      BY <1>6, <2>6 DEF CallsReturn, l
    <2>. QED
      BY <1>2, <2>5, <2>7 DEF Innermost
  <1>. QED
    BY <1>4, <1>5, <1>6, RegenerateMoves

LEMMA DownReturns ==
  ASSUME TreeTypeOK, Nested, Rooted, Returning,
         NEW t, NEW n, Innermost(t, n), Down(t, n), origin' = origin
  PROVE  Returning'
  <1>. DEFINE e == trees[t].extent
              c == CornerOf(e, n.box)
              l == Len(calls)
  <1>. SUFFICES ASSUME ~origin
                PROVE  NoZero' /\ CornersFit' /\ CallsReturn' /\ ~hung'
    BY DEF Returning
  <1>0. NoZero /\ CornersFit /\ CallsReturn
    BY DEF Returning
  <1>1. /\ t \in DOMAIN trees /\ n \in QNode /\ n.box \in IntBox /\ c \in Corners /\ e \in IntBox
        /\ l \in DOMAIN calls /\ calls[l].node = n /\ calls[l].tree = t
    BY InnermostIs, DownGoes, TreesAre
  <1>2. PICK s \in DOMAIN trees' :
          /\ calls' = [calls EXCEPT ![Len(calls)].tree = s]
          /\ \/ MadeCorner(t, c) /\ s = Len(trees) + 1
             \/ trees' = trees /\ s = trees[t].at[c] /\ s # 0
    BY DownGoes
  <1>3. nodes' = nodes /\ hung' = hung /\ Contain(e, n.box) /\ ~Crosses(e, n.box)
    BY DEF Down
  <1>4. e # Zero
    <2>1. n.box # Zero
      BY <1>0, <1>1 DEF NoZero
    <2>. QED
      BY <1>1, <1>3, <2>1, ZeroHasOnlyZero
  <1>5. \A f \in IntBox : Contain(f, Quarter(e, c)) => CanTake(f, n.box)
    BY <1>1, <1>3, CornerTakes
  <1>. HIDE DEF c, e, l
  <1>6. /\ DOMAIN trees \subseteq DOMAIN trees'
        /\ \A u \in DOMAIN trees : trees'[u].extent = trees[u].extent
        /\ \A u \in DOMAIN trees' : trees'[u].extent \in IntBox
        /\ Contain(trees'[s].extent, Quarter(e, c))
        /\ \A u \in DOMAIN trees' : trees'[u].extent = Zero => trees'[u].at = NoCorners
        /\ CornersFit'
    <2>1. CASE MadeCorner(t, c) /\ s = Len(trees) + 1
      <3>0. s \notin DOMAIN trees /\ s # 0 /\ trees[t].at[c] = 0
        BY <2>1, TreesAre DEF MadeCorner
      <3>1. /\ DOMAIN trees' = DOMAIN trees \cup {s} /\ trees'[s].extent = Quarter(e, c)
            /\ \A d \in Corners : trees'[s].at[d] = 0
            /\ trees' \in Seq(Tree)
        BY <1>1, <2>1, MadeCornerIs DEF e
      <3>2. \A u \in DOMAIN trees :
              /\ trees'[u].extent = trees[u].extent
              /\ \A d \in Corners :
                   trees'[u].at[d] = IF u = t /\ d = c THEN s ELSE trees[u].at[d]
        BY <1>1, <2>1, MadeCornerIs
      <3>3. \A u \in DOMAIN trees' : trees'[u].extent \in IntBox
        BY <1>1, <2>1, MadeCornerIs
      <3>4. Contain(trees'[s].extent, Quarter(e, c))
        BY <3>1, <3>3, ContainIsOrder DEF IntBox
      <3>5. ASSUME NEW u \in DOMAIN trees', trees'[u].extent = Zero
            PROVE  trees'[u].at = NoCorners
        <4>1. trees'[u].at \in [Corners -> Nat]
          <5>1. trees'[u] \in Tree
            BY <3>1, ElementOfSeq, LenProperties
          <5>. QED
            BY <5>1 DEF Tree
        <4>2. \A d \in Corners : trees'[u].at[d] = 0
          <5>1. CASE u = s
            BY <3>1, <5>1
          <5>2. CASE u # s
            <6>1. u \in DOMAIN trees /\ trees[u].extent = Zero /\ u # t
              BY <1>4, <3>1, <3>2, <3>5, <5>2 DEF e
            <6>. QED
              BY <1>0, <3>2, <6>1 DEF NoZero, NoCorners
          <5>. QED
            BY <5>1, <5>2
        <4>. QED
          BY <4>1, <4>2 DEF NoCorners
      <3>6. ASSUME NEW u \in DOMAIN trees', NEW d \in Corners, trees'[u].at[d] # 0
            PROVE  Contain(trees'[trees'[u].at[d]].extent, Quarter(trees'[u].extent, d))
        <4>1. u \in DOMAIN trees
          BY <3>1, <3>6
        <4>2. CASE u = t /\ d = c
          BY <1>1, <3>2, <3>4, <4>2 DEF e
        <4>3. CASE ~(u = t /\ d = c)
          <5>1. trees'[u].at[d] = trees[u].at[d] /\ trees[u].at[d] # 0
            BY <3>2, <3>6, <4>1, <4>3
          <5>2. trees[u].at[d] \in DOMAIN trees
            BY <4>1, <5>1 DEF Nested
          <5>3. Contain(trees[trees[u].at[d]].extent, Quarter(trees[u].extent, d))
            BY <1>0, <4>1, <5>1 DEF CornersFit
          <5>. QED
            BY <3>2, <4>1, <5>1, <5>2, <5>3
        <4>. QED
          BY <4>2, <4>3
      <3>7. CornersFit'
        BY <3>6 DEF CornersFit
      <3>. QED
        BY <3>1, <3>2, <3>3, <3>4, <3>5, <3>7
    <2>2. CASE trees' = trees /\ s = trees[t].at[c] /\ s # 0
      <3>1. Contain(trees[s].extent, Quarter(e, c)) /\ CornersFit'
        BY <1>0, <1>1, <2>2 DEF CornersFit, e
      <3>. QED
        BY <1>0, <2>2, <3>1, TreesAre DEF NoZero
    <2>. QED
      BY <1>2, <2>1, <2>2
  <1>7. /\ DOMAIN calls' = DOMAIN calls /\ Len(calls') = l
        /\ \A k \in DOMAIN calls : /\ calls'[k].node = calls[k].node
                                   /\ calls'[k].tree = IF k = l THEN s ELSE calls[k].tree
    BY <1>2, <1>6, DownMoves DEF l
  <1>8. NoZero'
    BY <1>0, <1>3, <1>6, <1>7 DEF NoZero
  <1>9. ASSUME NEW k \in DOMAIN calls
        PROVE  LET f == trees'[calls'[k].tree].extent
                   b == calls'[k].node.box
               IN /\ k < l => Contain(f, b)
                  /\ k # 1 \/ calls'[k].tree # 1 => CanTake(f, b)
    <2>1. CASE k < l
      <3>1. Growing
        BY <1>6 DEF Growing
      <3>2. calls'[k].node = calls[k].node /\ calls'[k].tree = calls[k].tree
        BY <1>7, <2>1, CallsAre
      <3>. QED
        BY <1>0, <1>6, <2>1, <3>1, <3>2, OuterCallsReturn DEF l
    <2>2. CASE ~(k < l)
      <3>1. k = l
        BY <2>2, CallsAre DEF l
      <3>2. CanTake(trees'[s].extent, n.box)
        BY <1>2, <1>5, <1>6
      <3>. QED
        BY <1>1, <1>7, <2>2, <3>1, <3>2
    <2>. QED
      BY <2>1, <2>2
  <1>10. CallsReturn'
    BY <1>7, <1>9 DEF CallsReturn
  <1>. QED
    BY <1>3, <1>6, <1>8, <1>10 DEF Innermost

LEMMA CallReturns ==
  ASSUME TreeTypeOK, Nested, Returning, NEW n \in QNode, Call(n), nodes' \subseteq nodes
  PROVE  Returning'
  <1>1. trees' = trees /\ ~hung' /\ origin' = (origin \/ n.box = Zero)
    BY DEF Call
  <1>2. /\ Len(calls') = 1 /\ DOMAIN calls' = {1} /\ calls'[1].tree = 1 /\ calls'[1].node = n
    BY CallTypes
  <1>3. ASSUME ~origin'
        PROVE  NoZero' /\ CornersFit' /\ CallsReturn'
    <2>1. NoZero /\ CornersFit /\ n.box # Zero
      BY <1>1, <1>3 DEF Returning
    <2>2. NoZero'
      BY <1>1, <1>2, <2>1 DEF NoZero
    <2>3. CornersFit'
      BY <1>1, <2>1 DEF CornersFit
    <2>4. CallsReturn'
      BY <1>2 DEF CallsReturn
    <2>. QED
      BY <2>2, <2>3, <2>4
  <1>. QED
    BY <1>1, <1>3 DEF Returning

-----------------------------------------------------------------------------
(* The invariant holds, and what follows from it.                          *)

LEMMA TreeInitHolds == TreeInit => TreeIInv
  <1>. SUFFICES ASSUME TreeInit
                PROVE  TreeIInv
    OBVIOUS
  <1>1. PICK e \in FirstExtent : trees = <<NewTree(e, NoCorners, {1})>>
    BY DEF TreeInit
  <1>. DEFINE r == NewTree(e, NoCorners, {1})
  <1>2. /\ r.extent = e /\ r.isFull = FALSE /\ r.at = NoCorners /\ r.in = {1} /\ r \in Tree
        /\ e \in IntBox
    BY BoxesAre DEF NewTree, NoCorners, Tree, IntBox
  <1>. HIDE DEF r
  <1>3. /\ trees \in Seq(Tree) /\ Len(trees) = 1 /\ DOMAIN trees = {1} /\ trees[1] = r
    BY <1>1, <1>2 DEF r
  <1>4. nodes = {} /\ calls = <<>> /\ made = 0 /\ hung = FALSE /\ steps = 0 /\ origin = FALSE
    BY DEF TreeInit
  <1>5. \A t \in DOMAIN trees : Own(t) = {}
    BY <1>4 DEF Own
  <1>6. Cardinality({}) = 0 /\ IsFiniteSet({})
    BY FS_EmptySet
  <1>7. TreeTypeOK
    <2>1. /\ MAX_LEAF_NODES \in Nat /\ 0 <= MAX_LEAF_NODES
          /\ steps \in 0..MaxSteps /\ made \in Nat /\ hung \in BOOLEAN /\ origin \in BOOLEAN
      <3>1. MAX_LEAF_NODES \in Nat /\ MAX_LEAF_NODES >= 2 /\ MaxSteps \in Nat
        BY QTreeAssumption
      <3>2. hung \in BOOLEAN /\ origin \in BOOLEAN
        BY <1>4
      <3>3. made \in Nat /\ steps \in 0..MaxSteps
        BY <1>4, <3>1
      <3>. QED
        BY <3>1, <3>2, <3>3
    <2>2. \A t \in DOMAIN trees : Cardinality(Own(t)) <= MAX_LEAF_NODES
      <3>1. \A t \in DOMAIN trees : Cardinality(Own(t)) = 0
        BY <1>5, <1>6
      <3>. QED
        BY <2>1, <3>1
    <2>3. \A t \in DOMAIN trees : IsBox(trees[t].extent)
      BY <1>2, <1>3, BoxesAre
    <2>4. calls \in Seq([tree : DOMAIN trees, node : QNode])
      BY <1>4
    <2>5. /\ nodes \subseteq [node : QNode, tree : DOMAIN trees, nr : 1..made]
          /\ IsFiniteSet(nodes) /\ \A x, y \in nodes : x.nr = y.nr => x = y
      BY <1>4, <1>6
    <2>6. trees \in Seq(Tree) /\ Len(trees) >= 1
      BY <1>3
    <2>. QED
      BY <2>1, <2>2, <2>3, <2>4, <2>5, <2>6 DEF TreeTypeOK
  <1>8. Nested
    BY <1>2, <1>3 DEF Nested, NoCorners
  <1>9. Rooted
    BY <1>2, <1>3 DEF Rooted
  <1>10. DOMAIN calls = {}
    BY <1>4
  <1>11. Enclosed
    BY <1>4, <1>10 DEF Enclosed
  <1>12. Returning
    BY <1>2, <1>3, <1>4, <1>10 DEF Returning, NoZero, CornersFit, CallsReturn, NoCorners
  <1>. QED
    BY <1>7, <1>8, <1>9, <1>11, <1>12 DEF TreeIInv

LEMMA AddNodeHolds ==
  ASSUME TreeIInv, AddNode
  PROVE  TreeIInv'
  <1>. DEFINE t == Last(calls).tree
              n == Last(calls).node
  <1>0. TreeTypeOK /\ Nested /\ Rooted /\ Enclosed /\ Returning
    BY DEF TreeIInv
  <1>1. Innermost(t, n) /\ UNCHANGED <<steps, origin>> /\ origin' = origin
    BY DEF AddNode, Innermost
  <1>2. \/ TakeExtent(t, n) \/ Grow(t, n) \/ Hang(t, n)
        \/ Put(t, n) \/ Regenerate(t, n) \/ Down(t, n)
    BY DEF AddNode
  <1>. HIDE DEF t, n
  <1>3. t \in DOMAIN trees /\ n \in QNode /\ t \in trees[t].in
    BY <1>0, <1>1, InnermostIs DEF Rooted
  <1>4. CASE TakeExtent(t, n)
    <2>1. TreeTypeOK'
      BY <1>0, <1>1, <1>4, TakeExtentTypes
    <2>2. Nested' /\ Rooted'
      BY <1>0, <1>3, <1>4, TakeExtentIs, LinksStay
    <2>3. Enclosed'
      BY <1>0, <1>1, <1>4, TakeExtentEncloses
    <2>4. Returning'
      BY <1>0, <1>1, <1>4, TakeExtentReturns
    <2>. QED
      BY <2>1, <2>2, <2>3, <2>4 DEF TreeIInv
  <1>5. CASE Grow(t, n)
    <2>1. TreeTypeOK'
      BY <1>0, <1>1, <1>3, <1>5, GrowTypes
    <2>2. Nested' /\ Rooted'
      BY <1>0, <1>3, <1>5, GrowNests
    <2>3. Enclosed'
      BY <1>0, <1>1, <1>5, GrowEncloses
    <2>4. Returning'
      BY <1>0, <1>1, <1>5, GrowReturns
    <2>. QED
      BY <2>1, <2>2, <2>3, <2>4 DEF TreeIInv
  <1>6. CASE Hang(t, n)
    <2>1. TreeTypeOK'
      BY <1>0, <1>1, <1>6, HangTypes
    <2>2. trees' = trees /\ nodes' = nodes /\ calls' = calls
      BY <1>6 DEF Hang
    <2>3. Nested' /\ Rooted' /\ Enclosed'
      BY <1>0, <2>2 DEF Nested, Rooted, Enclosed, EnclosedIn
    <2>4. Returning'
      BY <1>0, <1>1, <1>6, HangReturns
    <2>. QED
      BY <2>1, <2>3, <2>4 DEF TreeIInv
  <1>7. CASE Put(t, n)
    <2>1. TreeTypeOK'
      BY <1>0, <1>1, <1>7, PutTypes
    <2>2. trees' = trees
      BY <1>7 DEF Put
    <2>3. Nested' /\ Rooted'
      BY <1>0, <2>2 DEF Nested, Rooted
    <2>4. Enclosed'
      BY <1>0, <1>1, <1>7, PutEncloses
    <2>5. Returning'
      BY <1>0, <1>1, <1>7, PutReturns
    <2>. QED
      BY <2>1, <2>3, <2>4, <2>5 DEF TreeIInv
  <1>8. CASE Regenerate(t, n)
    <2>1. TreeTypeOK'
      BY <1>0, <1>1, <1>8, RegenerateTypes
    <2>2. Nested' /\ Rooted'
      BY <1>0, <1>3, <1>8, RegenerateIs, LinksStay
    <2>3. Enclosed'
      BY <1>0, <1>1, <1>8, RegenerateEncloses
    <2>4. Returning'
      BY <1>0, <1>1, <1>8, RegenerateReturns
    <2>. QED
      BY <2>1, <2>2, <2>3, <2>4 DEF TreeIInv
  <1>9. CASE Down(t, n)
    <2>1. TreeTypeOK'
      BY <1>0, <1>1, <1>9, DownTypes
    <2>2. Nested' /\ Rooted'
      <3>1. /\ CornerOf(trees[t].extent, n.box) \in Corners
            /\ MadeCorner(t, CornerOf(trees[t].extent, n.box)) \/ trees' = trees
        BY <1>0, <1>1, <1>9, DownGoes
      <3>2. CASE trees' = trees
        BY <1>0, <3>2 DEF Nested, Rooted
      <3>3. CASE MadeCorner(t, CornerOf(trees[t].extent, n.box))
        BY <1>0, <1>3, <3>1, <3>3, MadeCornerNests
      <3>. QED
        BY <3>1, <3>2, <3>3
    <2>3. Enclosed'
      BY <1>0, <1>1, <1>9, DownEncloses
    <2>4. Returning'
      BY <1>0, <1>1, <1>9, DownReturns
    <2>. QED
      BY <2>1, <2>2, <2>3, <2>4 DEF TreeIInv
  <1>. QED
    BY <1>2, <1>4, <1>5, <1>6, <1>7, <1>8, <1>9

LEMMA CallHolds ==
  ASSUME TreeIInv, NEW n \in QNode, Call(n), nodes' \subseteq nodes
  PROVE  TreeIInv'
  <1>0. TreeTypeOK /\ Nested /\ Rooted /\ Enclosed /\ Returning
    BY DEF TreeIInv
  <1>1. TreeTypeOK'
    BY <1>0, CallTypes
  <1>2. trees' = trees
    BY DEF Call
  <1>3. Nested' /\ Rooted'
    BY <1>0, <1>2 DEF Nested, Rooted
  <1>4. Enclosed' /\ Returning'
    BY <1>0, CallEncloses, CallReturns
  <1>. QED
    BY <1>1, <1>3, <1>4 DEF TreeIInv

LEMMA TreeNextHolds == TreeIInv /\ [TreeNext]_treeVars => TreeIInv'
  <1>. SUFFICES ASSUME TreeIInv, [TreeNext]_treeVars
                PROVE  TreeIInv'
    OBVIOUS
  <1>1. CASE AddNode
    BY <1>1, AddNodeHolds
  <1>2. ASSUME NEW n \in QNode, Add(n)
        PROVE  TreeIInv'
    BY <1>2, CallHolds DEF Add
  <1>3. ASSUME NEW n \in QNode, Reregister(n)
        PROVE  TreeIInv'
    <2>1. nodes' \subseteq nodes
      <3>1. TreeTypeOK /\ nodes' \in RemoveNode(n.index)
        BY <1>3 DEF Reregister, TreeIInv
      <3>2. \A N \in RemoveNode(n.index) : N \subseteq nodes
        BY <3>1, RemoveNodeIs
      <3>. QED
        BY <3>1, <3>2
    <2>. QED
      BY <1>3, <2>1, CallHolds DEF Reregister
  <1>4. CASE UNCHANGED treeVars
    <2>1. /\ trees' = trees /\ nodes' = nodes /\ calls' = calls /\ made' = made /\ hung' = hung
          /\ steps' = steps /\ origin' = origin
      BY <1>4 DEF treeVars
    <2>2. TreeTypeOK'
      BY <2>1 DEF TreeIInv, TreeTypeOK, Own
    <2>3. Nested' /\ Rooted'
      BY <2>1 DEF TreeIInv, Nested, Rooted
    <2>4. Enclosed'
      BY <2>1 DEF TreeIInv, Enclosed, EnclosedIn
    <2>5. Returning'
      BY <2>1 DEF TreeIInv, Returning, NoZero, CornersFit, CallsReturn
    <2>. QED
      BY <2>2, <2>3, <2>4, <2>5 DEF TreeIInv
  <1>. QED
    BY <1>1, <1>2, <1>3, <1>4 DEF TreeNext

(* The invariant holds in every state of every editing session.            *)
THEOREM TreeInductive == TreeSpec => []TreeIInv
  BY TreeInitHolds, TreeNextHolds, PTL DEF TreeSpec

(* Types, of any number of nodes, with any extents and any MAX_LEAF_NODES. *)
THEOREM TreeTypesCorrect == TreeSpec => []TreeTypeOK
  BY TreeInductive, PTL DEF TreeIInv

(* The trees are one tree, whatever was put in it.                         *)
THEOREM TreesAreNested == TreeSpec => []Nested
  BY TreeInductive, PTL DEF TreeIInv

LEMMA QueriesHold == TreeIInv => QueriesAreExact
  <1>. SUFFICES ASSUME TreeIInv, NEW q \in Query, NEW x \in nodes, x.node.box # Zero,
                       IntersectIn(x.node.box, q)
                PROVE  x \in GetNodes(q)
    BY DEF QueriesAreExact, GetNodes
  <1>1. x.tree \in DOMAIN trees /\ x.node.box \in IntBox /\ q \in Extent
    BY TreesAre, QTreeAssumption DEF TreeIInv
  <1>2. ASSUME NEW s \in trees[x.tree].in
        PROVE  IntersectIn(trees[s].extent, q)
    <2>1. Contain(trees[s].extent, x.node.box)
      BY DEF TreeIInv, Enclosed, EnclosedIn
    <2>2. s \in DOMAIN trees
      BY <1>1 DEF TreeIInv, Rooted
    <2>3. trees[s].extent \in Extent
      BY <2>2, TreesAre DEF TreeIInv
    <2>. QED
      BY <1>1, <2>1, <2>3, BoxesAre DEF Contain, IntersectIn
  <1>. QED
    BY <1>1, <1>2 DEF GetNodes, Asked

(* No query misses a shape that is not at the origin, or has one too many. *)
THEOREM NoShapeIsMissed == TreeSpec => []QueriesAreExact
  BY TreeInductive, QueriesHold, PTL

LEMMA HangsHold == TreeIInv => HangsOnlyOnLine
  <1>. SUFFICES ASSUME TreeIInv, hung, ~origin
                PROVE  \/ \A x, y \in nodes : x.node.box.left = y.node.box.right
                       \/ \A x, y \in nodes : x.node.box.top = y.node.box.bottom
    BY DEF HangsOnlyOnLine
  <1>. DEFINE e == trees[1].extent
  <1>1. Flat(e) /\ e \in IntBox
    BY TreesAre DEF TreeIInv, Returning
  <1>2. ASSUME NEW x \in nodes
        PROVE  Contain(e, x.node.box) /\ x.node.box \in IntBox
    <2>1. x.node.box # Zero
      BY DEF TreeIInv, Returning, NoZero
    <2>2. 1 \in trees[x.tree].in /\ x.node.box \in IntBox
      BY TreesAre DEF TreeIInv, Rooted
    <2>. QED
      BY <2>1, <2>2 DEF TreeIInv, Enclosed, EnclosedIn
  <1>. HIDE DEF e
  <1>3. CASE e.left = e.right
    <2>1. \A x \in nodes : x.node.box.left = e.left /\ x.node.box.right = e.left
      BY <1>1, <1>2, <1>3, BoxesAre DEF Contain
    <2>. QED
      BY <2>1
  <1>4. CASE e.top = e.bottom
    <2>1. \A x \in nodes : x.node.box.top = e.top /\ x.node.box.bottom = e.top
      BY <1>1, <1>2, <1>4, BoxesAre DEF Contain
    <2>. QED
      BY <2>1
  <1>. QED
    BY <1>1, <1>3, <1>4 DEF Flat

(* AddNode returns, unless all shapes are on a line or some were at the    *)
(* origin.                                                                 *)
THEOREM AddNodeHangsOnlyOnLines == TreeSpec => []HangsOnlyOnLine
  BY TreeInductive, HangsHold, PTL

-----------------------------------------------------------------------------
(* The tree implements an index.                                           *)

(* The copies of n in N and in the calls C, and the bag of all nodes.      *)
NodesOf(N, n) == Cardinality({x \in N : x.node = n})
CallsOf(C, n) == Cardinality({k \in DOMAIN C : C[k].node = n})
CopiesOf(N, C, n) == NodesOf(N, n) + CallsOf(C, n)
NodesIn(N, C) == {x.node : x \in N} \cup {C[k].node : k \in DOMAIN C}
BagOf(N, C) == [n \in NodesIn(N, C) |-> CopiesOf(N, C, n)]
One(m, n) == IF m = n THEN 1 ELSE 0

LEMMA NodesCount ==
  ASSUME NEW N, IsFiniteSet(N), NEW n
  PROVE  /\ NodesOf(N, n) \in Nat
         /\ NodesOf(N, n) > 0 <=> \E x \in N : x.node = n
  <1>. DEFINE X == {x \in N : x.node = n}
  <1>1. IsFiniteSet(X)
    BY FS_Subset
  <1>2. X # {} <=> \E x \in N : x.node = n
    OBVIOUS
  <1>. HIDE DEF X
  <1>3. Cardinality(X) \in Nat /\ (Cardinality(X) = 0 <=> X = {})
    BY <1>1, FS_CardinalityType, FS_EmptySet
  <1>4. Cardinality(X) > 0 <=> \E x \in N : x.node = n
    BY <1>2, <1>3
  <1>. QED
    BY <1>3, <1>4 DEF X, NodesOf

LEMMA CallsCount ==
  ASSUME NEW S, NEW C \in Seq(S), NEW n
  PROVE  /\ CallsOf(C, n) \in Nat
         /\ CallsOf(C, n) > 0 <=> \E k \in DOMAIN C : C[k].node = n
  <1>. DEFINE K == {k \in DOMAIN C : C[k].node = n}
  <1>1. IsFiniteSet(K)
    <2>1. IsFiniteSet(1..Len(C)) /\ DOMAIN C = 1..Len(C)
      BY LenProperties, FS_Interval
    <2>. QED
      BY <2>1, FS_Subset
  <1>2. K # {} <=> \E k \in DOMAIN C : C[k].node = n
    OBVIOUS
  <1>. HIDE DEF K
  <1>3. Cardinality(K) \in Nat /\ (Cardinality(K) = 0 <=> K = {})
    BY <1>1, FS_CardinalityType, FS_EmptySet
  <1>4. Cardinality(K) > 0 <=> \E k \in DOMAIN C : C[k].node = n
    BY <1>2, <1>3
  <1>. QED
    BY <1>3, <1>4 DEF K, CallsOf

LEMMA NoCalls == ASSUME NEW n PROVE CallsOf(<<>>, n) = 0
  <1>1. CallsOf(<<>>, n) \in Nat
        /\ (CallsOf(<<>>, n) > 0 <=> \E k \in DOMAIN <<>> : <<>>[k].node = n)
    <2>1. <<>> \in Seq({})
      OBVIOUS
    <2>. QED
      BY <2>1, CallsCount
  <1>2. DOMAIN <<>> = {}
    OBVIOUS
  <1>3. ~ \E k \in DOMAIN <<>> : <<>>[k].node = n
    BY <1>2
  <1>. QED
    BY <1>1, <1>3

LEMMA Counts ==
  ASSUME NEW N, IsFiniteSet(N), NEW S, NEW C \in Seq(S), NEW n
  PROVE  /\ NodesOf(N, n) \in Nat /\ CallsOf(C, n) \in Nat
         /\ CopiesOf(N, C, n) \in Nat
         /\ n \in NodesIn(N, C) <=> CopiesOf(N, C, n) > 0
  <1>1. NodesOf(N, n) \in Nat /\ (NodesOf(N, n) > 0 <=> \E x \in N : x.node = n)
    BY NodesCount
  <1>2. CallsOf(C, n) \in Nat /\ (CallsOf(C, n) > 0 <=> \E k \in DOMAIN C : C[k].node = n)
    BY CallsCount
  <1>3. n \in NodesIn(N, C) <=> (\E x \in N : x.node = n) \/ (\E k \in DOMAIN C : C[k].node = n)
    BY DEF NodesIn
  <1>4. NodesOf(N, n) + CallsOf(C, n) > 0 <=> NodesOf(N, n) > 0 \/ CallsOf(C, n) > 0
    BY <1>1, <1>2
  <1>. QED
    BY <1>1, <1>2, <1>3, <1>4 DEF CopiesOf

(* Bags are equal if they have the same copies.                            *)
LEMMA SameBag ==
  ASSUME NEW N, IsFiniteSet(N), NEW S, NEW C \in Seq(S),
         NEW M, IsFiniteSet(M), NEW T, NEW D \in Seq(T),
         \A n : CopiesOf(N, C, n) = CopiesOf(M, D, n)
  PROVE  BagOf(N, C) = BagOf(M, D)
  <1>1. ASSUME NEW n
        PROVE  n \in NodesIn(N, C) <=> n \in NodesIn(M, D)
    BY Counts
  <1>2. NodesIn(N, C) = NodesIn(M, D)
    BY <1>1
  <1>. QED
    BY <1>2 DEF BagOf

LEMMA OneMore ==
  ASSUME NEW N, IsFiniteSet(N), NEW y, y \notin N, NEW n
  PROVE  NodesOf(N \cup {y}, n) = NodesOf(N, n) + One(y.node, n)
  <1>. DEFINE X == {x \in N : x.node = n}
              Y == {x \in N \cup {y} : x.node = n}
  <1>1. IsFiniteSet(X) /\ Cardinality(X) \in Nat
    BY FS_Subset, FS_CardinalityType
  <1>2. CASE y.node = n
    <2>1. Y = X \cup {y} /\ y \notin X
      BY <1>2
    <2>2. Cardinality(X \cup {y}) = Cardinality(X) + 1
      BY <1>1, <2>1, FS_AddElement
    <2>. QED
      BY <1>2, <2>1, <2>2 DEF NodesOf, One
  <1>3. CASE y.node # n
    <2>1. Y = X
      BY <1>3
    <2>2. NodesOf(N \cup {y}, n) = NodesOf(N, n) /\ NodesOf(N, n) \in Nat
      BY <1>1, <2>1 DEF NodesOf
    <2>3. One(y.node, n) = 0
      BY <1>3 DEF One
    <2>. QED
      BY <2>2, <2>3
  <1>. QED
    BY <1>2, <1>3

LEMMA CountsAppended ==
  ASSUME NEW S, NEW C \in Seq(S), NEW D, NEW n,
         DOMAIN D = DOMAIN C \cup {Len(C) + 1}, \A k \in DOMAIN C : D[k].node = C[k].node
  PROVE  CallsOf(D, n) = CallsOf(C, n) + One(D[Len(C) + 1].node, n)
  <1>. DEFINE K == {k \in DOMAIN C : C[k].node = n}
              L == {k \in DOMAIN D : D[k].node = n}
              l == Len(C) + 1
  <1>0. DOMAIN C = 1..Len(C) /\ l \notin DOMAIN C
    BY LenProperties
  <1>1. IsFiniteSet(K) /\ Cardinality(K) \in Nat
    <2>1. IsFiniteSet(DOMAIN C)
      BY <1>0, LenProperties, FS_Interval
    <2>. QED
      BY <2>1, FS_Subset, FS_CardinalityType
  <1>. HIDE DEF l
  <1>2. CASE D[l].node = n
    <2>1. L = K \cup {l} /\ l \notin K
      BY <1>0, <1>2 DEF l
    <2>2. Cardinality(K \cup {l}) = Cardinality(K) + 1
      BY <1>1, <2>1, FS_AddElement
    <2>3. One(D[l].node, n) = 1
      BY <1>2 DEF One
    <2>. QED
      BY <2>1, <2>2, <2>3 DEF l, CallsOf
  <1>3. CASE D[l].node # n
    <2>1. L = K
      BY <1>0, <1>3 DEF l
    <2>2. CallsOf(D, n) = CallsOf(C, n) /\ CallsOf(C, n) \in Nat
      BY <1>1, <2>1 DEF CallsOf
    <2>3. One(D[l].node, n) = 0
      BY <1>3 DEF One
    <2>. QED
      BY <2>2, <2>3 DEF l
  <1>. QED
    BY <1>2, <1>3 DEF l

LEMMA GrowKeepsBag ==
  ASSUME TreeTypeOK, NEW t, NEW n, Innermost(t, n), Grow(t, n)
  PROVE  \A m : CopiesOf(nodes', calls', m) = CopiesOf(nodes, calls, m)
  <1>1. PICK M \in [nodes -> nodes'] :
          /\ nodes' = {M[x] : x \in nodes}
          /\ \A x \in nodes :
               /\ M[x].node = x.node /\ M[x].nr = x.nr
               /\ M[x].tree = IF x.tree = t THEN Len(trees) + 1 ELSE x.tree
               /\ M[x] = [node |-> M[x].node, tree |-> M[x].tree, nr |-> M[x].nr]
          /\ \A S \in SUBSET nodes :
               /\ IsFiniteSet({M[x] : x \in S}) /\ Cardinality({M[x] : x \in S}) = Cardinality(S)
    BY InnermostIs, GrowMoves
  <1>2. ASSUME NEW m
        PROVE  NodesOf(nodes', m) = NodesOf(nodes, m)
    <2>. DEFINE S == {x \in nodes : x.node = m}
    <2>1. {y \in nodes' : y.node = m} = {M[x] : x \in S}
      BY <1>1
    <2>2. Cardinality({M[x] : x \in S}) = Cardinality(S)
      BY <1>1
    <2>. QED
      BY <2>1, <2>2 DEF NodesOf
  <1>3. calls' = calls
    BY DEF Grow
  <1>. QED
    BY <1>2, <1>3 DEF CopiesOf

LEMMA PutKeepsBag ==
  ASSUME TreeTypeOK, NEW t, NEW n, Innermost(t, n), Put(t, n)
  PROVE  \A m : CopiesOf(nodes', calls', m) = CopiesOf(nodes, calls, m)
  <1>. SUFFICES ASSUME NEW m
                PROVE  CopiesOf(nodes', calls', m) = CopiesOf(nodes, calls, m)
    OBVIOUS
  <1>1. PICK y : y.node = n /\ nodes' = nodes \cup {y} /\ y \notin nodes
    BY PutIs
  <1>2. /\ calls' \in Seq([tree : DOMAIN trees, node : QNode]) /\ Len(calls') = Len(calls) - 1
        /\ DOMAIN calls' = 1..Len(calls) - 1
        /\ \A k \in DOMAIN calls' : calls'[k] = calls[k]
    BY PutIs
  <1>3. /\ calls[Len(calls)].node = n /\ Len(calls) \in Nat /\ Len(calls) # 0
        /\ DOMAIN calls = 1..Len(calls) /\ calls \in Seq([tree : DOMAIN trees, node : QNode])
    BY InnermostIs, CallsAre DEF TreeTypeOK
  <1>4. Len(calls') + 1 = Len(calls) /\ DOMAIN calls = DOMAIN calls' \cup {Len(calls') + 1}
    BY <1>2, <1>3
  <1>5. CallsOf(calls, m) = CallsOf(calls', m) + One(n, m)
    <2>1. CallsOf(calls, m) = CallsOf(calls', m) + One(calls[Len(calls') + 1].node, m)
      BY <1>2, <1>4, CountsAppended
    <2>. QED
      BY <1>3, <1>4, <2>1
  <1>6. IsFiniteSet(nodes)
    BY DEF TreeTypeOK
  <1>7. NodesOf(nodes', m) = NodesOf(nodes, m) + One(n, m)
    <2>1. NodesOf(nodes \cup {y}, m) = NodesOf(nodes, m) + One(y.node, m)
      BY <1>1, <1>6, OneMore
    <2>. QED
      BY <1>1, <2>1
  <1>8. NodesOf(nodes, m) \in Nat /\ CallsOf(calls', m) \in Nat /\ One(n, m) \in Nat
    BY <1>2, <1>6, NodesCount, CallsCount DEF One
  <1>. QED
    BY <1>5, <1>7, <1>8 DEF CopiesOf

LEMMA RegenerateKeepsBag ==
  ASSUME TreeTypeOK, NEW t, NEW n, Innermost(t, n), Regenerate(t, n)
  PROVE  \A m : CopiesOf(nodes', calls', m) = CopiesOf(nodes, calls, m)
  <1>. SUFFICES ASSUME NEW m
                PROVE  CopiesOf(nodes', calls', m) = CopiesOf(nodes, calls, m)
    OBVIOUS
  <1>1. CASE nodes' = nodes /\ calls' = calls
    BY <1>1
  <1>2. ASSUME NEW x \in nodes, nodes' = nodes \ {x},
               DOMAIN calls' = DOMAIN calls \cup {Len(calls) + 1},
               calls'[Len(calls) + 1] = [tree |-> t, node |-> x.node],
               \A k \in DOMAIN calls : calls'[k] = calls[k]
        PROVE  CopiesOf(nodes', calls', m) = CopiesOf(nodes, calls, m)
    <2>1. nodes = nodes' \cup {x} /\ x \notin nodes' /\ IsFiniteSet(nodes')
      BY <1>2, Finite
    <2>2. NodesOf(nodes, m) = NodesOf(nodes', m) + One(x.node, m)
      <3>1. NodesOf(nodes' \cup {x}, m) = NodesOf(nodes', m) + One(x.node, m)
        BY <2>1, OneMore
      <3>. QED
        BY <2>1, <3>1
    <2>3. calls \in Seq([tree : DOMAIN trees, node : QNode]) /\ calls'[Len(calls) + 1].node = x.node
      BY <1>2 DEF TreeTypeOK
    <2>4. CallsOf(calls', m) = CallsOf(calls, m) + One(x.node, m)
      <3>1. CallsOf(calls', m) = CallsOf(calls, m) + One(calls'[Len(calls) + 1].node, m)
        BY <1>2, <2>3, CountsAppended
      <3>. QED
        BY <2>3, <3>1
    <2>5. NodesOf(nodes', m) \in Nat /\ CallsOf(calls, m) \in Nat /\ One(x.node, m) \in Nat
      BY <2>1, <2>3, NodesCount, CallsCount DEF One
    <2>. QED
      BY <2>2, <2>4, <2>5 DEF CopiesOf
  <1>. QED
    BY <1>1, <1>2, RegenerateMoves

LEMMA DownKeepsBag ==
  ASSUME TreeTypeOK, Nested, Rooted, NEW t, NEW n, Innermost(t, n), Down(t, n)
  PROVE  \A m : CopiesOf(nodes', calls', m) = CopiesOf(nodes, calls, m)
  <1>1. PICK s : calls' = [calls EXCEPT ![Len(calls)].tree = s]
    BY DownGoes
  <1>2. DOMAIN calls' = DOMAIN calls /\ \A k \in DOMAIN calls : calls'[k].node = calls[k].node
    BY <1>1, DownMoves
  <1>3. nodes' = nodes
    BY DEF Down
  <1>4. \A m : {k \in DOMAIN calls' : calls'[k].node = m} = {k \in DOMAIN calls : calls[k].node = m}
    BY <1>2
  <1>. QED
    BY <1>3, <1>4 DEF CopiesOf, CallsOf

LEMMA ContentIs ==
  /\ [n \in AllNodes |-> Copies(n)] = BagOf(nodes, calls)
  /\ [n \in AllNodes |-> Copies(n)]' = BagOf(nodes', calls')
  BY DEF AllNodes, Copies, BagOf, NodesIn, CopiesOf, NodesOf, CallsOf

LEMMA AddNodeKeepsBag ==
  ASSUME TreeIInv, AddNode, TreeTypeOK'
  PROVE  BagOf(nodes', calls') = BagOf(nodes, calls)
  <1>. DEFINE t == Last(calls).tree
              n == Last(calls).node
  <1>0. TreeTypeOK /\ Nested /\ Rooted
    BY DEF TreeIInv
  <1>1. Innermost(t, n)
    BY DEF AddNode, Innermost
  <1>2. \/ TakeExtent(t, n) \/ Grow(t, n) \/ Hang(t, n)
        \/ Put(t, n) \/ Regenerate(t, n) \/ Down(t, n)
    BY DEF AddNode
  <1>. HIDE DEF t, n
  <1>3. TakeExtent(t, n) \/ Hang(t, n) => nodes' = nodes /\ calls' = calls
    BY DEF TakeExtent, Hang
  <1>4. \A m : CopiesOf(nodes', calls', m) = CopiesOf(nodes, calls, m)
    BY <1>0, <1>1, <1>2, <1>3, GrowKeepsBag, PutKeepsBag, RegenerateKeepsBag, DownKeepsBag
  <1>5. /\ IsFiniteSet(nodes) /\ calls \in Seq([tree : DOMAIN trees, node : QNode])
        /\ IsFiniteSet(nodes') /\ calls' \in Seq([tree : DOMAIN trees', node : QNode])
    BY <1>0 DEF TreeTypeOK
  <1>. QED
    BY <1>4, <1>5, SameBag

(* A call brings one node, after it may have removed one.                  *)
LEMMA CallBrings ==
  ASSUME NEW N, IsFiniteSet(N), NEW n
  PROVE  BagOf(N, <<[tree |-> 1, node |-> n]>>) = Content!With(BagOf(N, <<>>), n)
  <1>. DEFINE C == <<[tree |-> 1, node |-> n]>>
  <1>1. /\ C \in Seq({[tree |-> 1, node |-> n]}) /\ DOMAIN C = {1} /\ C[1].node = n
        /\ <<>> \in Seq({}) /\ DOMAIN <<>> = {} /\ Len(<<>>) = 0
    OBVIOUS
  <1>. HIDE DEF C
  <1>2. ASSUME NEW m
        PROVE  CopiesOf(N, C, m) = CopiesOf(N, <<>>, m) + One(n, m)
    <2>1. CallsOf(C, m) = One(n, m)
      <3>. DEFINE K == {k \in DOMAIN C : C[k].node = m}
      <3>1. CASE n = m
        <4>1. K = {1}
          BY <1>1, <3>1
        <4>2. Cardinality(K) = 1
          BY <4>1, FS_Singleton
        <4>. QED
          BY <3>1, <4>2 DEF CallsOf, One
      <3>2. CASE n # m
        <4>1. K = {}
          BY <1>1, <3>2
        <4>2. Cardinality(K) = 0
          BY <4>1, FS_EmptySet
        <4>. QED
          BY <3>2, <4>2 DEF CallsOf, One
      <3>. QED
        BY <3>1, <3>2
    <2>2. NodesOf(N, m) \in Nat /\ CallsOf(<<>>, m) = 0 /\ One(n, m) \in Nat
      BY NodesCount, NoCalls DEF One
    <2>. QED
      BY <2>1, <2>2 DEF CopiesOf
  <1>3. NodesIn(N, C) = NodesIn(N, <<>>) \cup {n}
    BY <1>1 DEF NodesIn
  <1>4. ASSUME NEW m
        PROVE  /\ CopiesOf(N, <<>>, m) \in Nat
               /\ m \notin NodesIn(N, <<>>) => CopiesOf(N, <<>>, m) = 0
    <2>1. /\ CopiesOf(N, <<>>, m) \in Nat
          /\ m \in NodesIn(N, <<>>) <=> CopiesOf(N, <<>>, m) > 0
      BY <1>1, Counts
    <2>. QED
      BY <2>1
  <1>. DEFINE q == BagOf(N, <<>>)
  <1>5. DOMAIN q = NodesIn(N, <<>>) /\ \A m \in DOMAIN q : q[m] = CopiesOf(N, <<>>, m)
    BY DEF BagOf
  <1>. HIDE DEF q
  <1>6. Content!With(q, n) = [e \in DOMAIN q \cup {n} |->
          (IF e \in DOMAIN q THEN q[e] ELSE 0) + (IF e = n THEN 1 ELSE 0)]
    BY DEF Content!With, Content!SetToBag, Content!\oplus
  <1>7. \A e \in DOMAIN q \cup {n} :
          CopiesOf(N, C, e) = (IF e \in DOMAIN q THEN q[e] ELSE 0) + (IF e = n THEN 1 ELSE 0)
    BY <1>2, <1>4, <1>5 DEF One
  <1>8. BagOf(N, C) = [e \in DOMAIN q \cup {n} |-> CopiesOf(N, C, e)]
    BY <1>3, <1>5 DEF BagOf
  <1>9. BagOf(N, C) = Content!With(q, n)
    BY <1>6, <1>7, <1>8
  <1>. QED
    BY <1>9 DEF C, q

LEMMA RemovedFromBag ==
  ASSUME NEW N, IsFiniteSet(N), NEW x \in N
  PROVE  BagOf(N \ {x}, <<>>) \in Content!Without(BagOf(N, <<>>), x.node.index)
  <1>. DEFINE n == x.node
              q == BagOf(N, <<>>)
              M == N \ {x}
  <1>1. /\ <<>> \in Seq({}) /\ DOMAIN <<>> = {} /\ IsFiniteSet(M) /\ x \notin M /\ N = M \cup {x}
    BY FS_RemoveElement
  <1>2. DOMAIN q = NodesIn(N, <<>>) /\ \A m \in DOMAIN q : q[m] = CopiesOf(N, <<>>, m)
    BY DEF BagOf
  <1>3. n \in DOMAIN q
    BY <1>2 DEF NodesIn
  <1>. HIDE DEF M
  <1>4. ASSUME NEW m
        PROVE  CopiesOf(N, <<>>, m) = CopiesOf(M, <<>>, m) + One(n, m)
    <2>1. NodesOf(N, m) = NodesOf(M, m) + One(n, m)
      <3>1. NodesOf(M \cup {x}, m) = NodesOf(M, m) + One(x.node, m)
        BY <1>1, OneMore
      <3>. QED
        BY <1>1, <3>1
    <2>2. NodesOf(M, m) \in Nat /\ CallsOf(<<>>, m) = 0 /\ One(n, m) \in Nat
      BY <1>1, NodesCount, NoCalls DEF One
    <2>. QED
      BY <2>1, <2>2 DEF CopiesOf
  <1>5. ASSUME NEW m
        PROVE  /\ CopiesOf(N, <<>>, m) \in Nat /\ CopiesOf(M, <<>>, m) \in Nat
               /\ m \in NodesIn(N, <<>>) <=> CopiesOf(N, <<>>, m) > 0
               /\ m \in NodesIn(M, <<>>) <=> CopiesOf(M, <<>>, m) > 0
    BY <1>1, Counts
  <1>. HIDE DEF n, q
  <1>. DEFINE Less(e) == IF e = n THEN q[e] - 1 ELSE q[e]
  <1>6. Content!\ominus(q, Content!SetToBag({n})) = [e \in {d \in DOMAIN q : Less(d) > 0} |-> Less(e)]
    BY DEF Content!\ominus, Content!SetToBag
  <1>7. \A e \in DOMAIN q : Less(e) = CopiesOf(M, <<>>, e)
    BY <1>2, <1>4, <1>5 DEF One
  <1>. HIDE DEF Less
  <1>8. {d \in DOMAIN q : Less(d) > 0} = NodesIn(M, <<>>)
    <2>1. \A e : e \in NodesIn(M, <<>>) => e \in NodesIn(N, <<>>)
      BY <1>1 DEF NodesIn
    <2>. QED
      BY <1>2, <1>5, <1>7, <2>1
  <1>9. Content!\ominus(q, Content!SetToBag({n})) = BagOf(M, <<>>)
    <2>1. NodesIn(M, <<>>) \subseteq DOMAIN q
      BY <1>8
    <2>. QED
      BY <1>6, <1>7, <1>8, <2>1 DEF BagOf
  <1>10. Content!\ominus(q, Content!SetToBag({n})) \in Content!Without(q, n.index)
    BY <1>3 DEF Content!Without, Content!BagToSet
  <1>. QED
    BY <1>9, <1>10 DEF n, q, M

LEMMA NotInBag ==
  ASSUME NEW N, NEW i, \A x \in N : x.node.index # i
  PROVE  BagOf(N, <<>>) \in Content!Without(BagOf(N, <<>>), i)
  <1>. DEFINE q == BagOf(N, <<>>)
  <1>1. DOMAIN q = NodesIn(N, <<>>)
    BY DEF BagOf
  <1>2. \A m \in DOMAIN q : m.index # i
    BY <1>1 DEF NodesIn
  <1>. HIDE DEF q
  <1>3. q \in Content!Without(q, i)
    BY <1>2 DEF Content!Without, Content!BagToSet
  <1>. QED
    BY <1>3 DEF q

LEMMA StepImplements ==
  ASSUME TreeIInv, TreeIInv', [TreeNext]_treeVars
  PROVE  [Content!Next]_(Content!indexVars)
  <1>. DEFINE b == BagOf(nodes, calls)
              c == BagOf(nodes', calls')
  <1>. SUFFICES \/ c = b /\ steps' = steps
                \/ /\ steps' = steps + 1
                   /\ \E n \in QNode :
                        \/ c = Content!With(b, n)
                        \/ \E d \in Content!Without(b, n.index) : c = Content!With(d, n)
    BY ContentIs DEF Content!Next, Content!AddNode, Content!Reregister, Content!indexVars
  <1>0. TreeTypeOK /\ TreeTypeOK' /\ IsFiniteSet(nodes)
    BY DEF TreeIInv, TreeTypeOK
  <1>1. CASE AddNode
    <2>1. c = b
      BY <1>0, <1>1, AddNodeKeepsBag
    <2>. QED
      BY <1>1, <2>1 DEF AddNode
  <1>2. ASSUME NEW n \in QNode, Add(n)
        PROVE  c = Content!With(b, n) /\ steps' = steps + 1
    <2>1. /\ nodes' = nodes /\ calls = <<>> /\ calls' = <<[tree |-> 1, node |-> n]>>
          /\ steps' = steps + 1
      BY <1>2 DEF Add, Call
    <2>. QED
      BY <1>0, <2>1, CallBrings
  <1>3. ASSUME NEW n \in QNode, Reregister(n)
        PROVE  /\ \E d \in Content!Without(b, n.index) : c = Content!With(d, n)
               /\ steps' = steps + 1
    <2>1. /\ calls = <<>> /\ calls' = <<[tree |-> 1, node |-> n]>> /\ steps' = steps + 1
          /\ nodes' \in RemoveNode(n.index)
      BY <1>3 DEF Reregister, Call
    <2>2. \/ nodes' = nodes /\ \A x \in nodes : x.node.index # n.index
          \/ \E x \in nodes : x.node.index = n.index /\ nodes' = nodes \ {x}
      <3>1. \A N \in RemoveNode(n.index) :
              \/ N = nodes /\ \A x \in nodes : x.node.index # n.index
              \/ \E x \in nodes : x.node.index = n.index /\ N = nodes \ {x}
        BY <1>0, RemoveNodeIs
      <3>. QED
        BY <2>1, <3>1
    <2>3. BagOf(nodes', <<>>) \in Content!Without(b, n.index)
      BY <1>0, <2>1, <2>2, NotInBag, RemovedFromBag
    <2>4. IsFiniteSet(nodes')
      BY <1>0 DEF TreeTypeOK
    <2>5. c = Content!With(BagOf(nodes', <<>>), n)
      BY <2>1, <2>4, CallBrings
    <2>. QED
      BY <2>1, <2>3, <2>5
  <1>4. CASE UNCHANGED treeVars
    BY <1>4 DEF treeVars
  <1>. QED
    BY <1>1, <1>2, <1>3, <1>4 DEF TreeNext

LEMMA InitImplements == TreeInit => Content!Init
  <1>. SUFFICES ASSUME TreeInit
                PROVE  Content!Init
    OBVIOUS
  <1>1. nodes = {} /\ calls = <<>> /\ steps = 0
    BY DEF TreeInit
  <1>2. NodesIn(nodes, calls) = {}
    BY <1>1 DEF NodesIn
  <1>3. BagOf(nodes, calls) = [e \in {} |-> 1]
    BY <1>2 DEF BagOf
  <1>. QED
    BY <1>1, <1>3, ContentIs DEF Content!Init, Content!EmptyBag, Content!SetToBag

(* The quadtree, which splits, grows and moves its nodes, is an index: no  *)
(* node is lost or doubled, and one is removed only if it is replaced.     *)
THEOREM TreeImplementsIndex == TreeSpec => ImplementsIndex
  <1>1. TreeInit => Content!Init
    BY InitImplements
  <1>2. TreeIInv /\ TreeIInv' /\ [TreeNext]_treeVars
          => [Content!Next]_(Content!indexVars)
    BY StepImplements
  <1>. QED
    BY <1>1, <1>2, TreeInductive, PTL DEF TreeSpec, ImplementsIndex, Content!Spec
=============================================================================
