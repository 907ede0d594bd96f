---------------------------- MODULE ShapefileEdit ----------------------------
(***************************************************************************)
(* A shapefile while it is edited, CShapefile (src/COM classes/            *)
(* Shapefile.cpp, Shapefile_Edit.cpp).  A feature is a shape, kept by the  *)
(* shapefile, a row of its table, a label, and a node of the quadtree if   *)
(* there is one; the four are only related by their index, and each is     *)
(* changed by a call of its own.  On the disk there are three files; the   *)
(* .shp and .shx are truncated before they are written.                    *)
(*                                                                         *)
(* A feature has a number, which only the properties look at; of its      *)
(* geometry there is only the bounding box.  The table is what             *)
(* TableSession says of it: all of its changes are shown at once, and      *)
(* written when it is saved.  Indices start from 1; there is at least one  *)
(* field.  The fast mode, charts, validation and projections are left out, *)
(* and so are operations that are refused and change nothing.              *)
(***************************************************************************)
EXTENDS Naturals, Sequences, SequencesExt, Bags

CONSTANTS
  Name,       \* names of shapefiles
  Box,        \* bounding boxes
  NULL,       \* no file, no tree
  Broken,     \* a file that has been truncated
  MaxShapes,  \* bound on the shapes of a shapefile
  MaxEdits, MaxWrites, \* bounds on the edits and settings, and on the files written
  FirstDisk   \* what may be on the disk in the beginning

Shape == [fid : 1..MaxShapes + MaxEdits, box : Box]
Rows  == Seq(1..MaxShapes + MaxEdits)
Files ==
  [shp : Seq(Shape) \cup {NULL, Broken}, shx : (0..MaxShapes) \cup {NULL, Broken},
   dbf : Rows \cup {NULL}]

(* The nodes of a tree.                                                    *)
TreeNode == [index : 1..MaxShapes, box : Box]

ASSUME ShapefileAssumption ==
  /\ MaxShapes \in Nat /\ MaxEdits \in Nat /\ MaxWrites \in Nat
  /\ NULL \notin Name \cup Shape /\ NULL # Broken
  /\ NULL \notin Nat /\ Broken \notin Nat
  /\ NULL \notin Seq(Shape) \cup Rows /\ Broken \notin Seq(Shape) \cup Rows
  /\ \A N \in SUBSET TreeNode : NULL \notin [N -> Nat]
  /\ FirstDisk \subseteq [Name -> Files]

VARIABLES
  disk,        \* [Name -> [shp, shx, dbf]], each NULL if there is no such file
  name,        \* _shpfileName, or NULL
  source,      \* m_sourceType: "none", "memory", "disk"
  editing,     \* _isEditingShapes
  handle,      \* _shpfile and _shxfile are open
  shapeData,   \* _shapeData: shapes, or NULL for those not in memory
  offsets,     \* the length of shpOffsets
  dbf,         \* the table: its rows (fids), the file it has open, editing
  labels,      \* m_labels (fids)
  synced,      \* m_synchronized
  useQTree,
  qtree,       \* m_qtree: NULL or a bag of nodes
  edits, writes, \* those made up to now
  (* for the properties *)
  fault,       \* a null pointer or an offset that does not exist was used
  lapses       \* what has happened after which less can be expected

vars == <<disk, name, source, editing, handle, shapeData, offsets, dbf, labels, synced,
          useQTree, qtree, fault, lapses, edits, writes>>
file == <<disk, name, source, handle, offsets>>
aids == <<labels, synced, useQTree, qtree>>

NoTable == [rows |-> <<>>, file |-> NULL, editing |-> FALSE]
NoFiles == [shp |-> NULL, shx |-> NULL, dbf |-> NULL]

Fids(s) == [i \in DOMAIN s |-> s[i].fid]

(* The files f of a shapefile are there, and have the same features.       *)
Agree(f) ==
  /\ {f.shp, f.shx, f.dbf} \cap {NULL, Broken} = {}
  /\ f.dbf = Fids(f.shp) /\ f.shx = Len(f.shp)

Init ==
  /\ disk \in FirstDisk
  /\ name = NULL /\ source = "none"
  /\ editing = FALSE /\ handle = FALSE
  /\ shapeData = <<>> /\ offsets = 0 /\ dbf = NoTable
  /\ labels = <<>> /\ synced = FALSE /\ useQTree = FALSE /\ qtree = NULL
  /\ fault = "none" /\ lapses = {}
  /\ edits = 0 /\ writes = 0

-----------------------------------------------------------------------------
(* The shapes, read from the disk if they are not being edited.            *)

Count == Len(shapeData)

(* What goes wrong if all shapes are read.                                 *)
ReadFault ==
  IF editing \/ Count = 0 THEN "none"
  ELSE IF ~handle THEN "handle"
  ELSE IF Count > offsets THEN "offset" ELSE "none"

(* The shapes as get_Shape returns them.                                   *)
Shapes ==
  IF editing THEN shapeData ELSE IF Count = 0 THEN <<>> ELSE SubSeq(disk[name].shp, 1, Count)

Fail(f) ==
  /\ fault' = f
  /\ UNCHANGED <<disk, name, source, editing, handle, shapeData, offsets, dbf, labels,
                 synced, useQTree, qtree, lapses>>

(* An operation that reads the shapes: Op if they can be read.             *)
Reading(Op) ==
  IF ReadFault # "none" THEN Fail(ReadFault) ELSE UNCHANGED fault /\ Op

(* GenerateQTreeCore: without shapes there is no tree.  Nodes are added    *)
(* and replaced as ShapeIndex says, which QTree implements.                *)
Node(i, b) == [index |-> i, box |-> b]
Indexed(s) == SetToBag({Node(i, s[i].box) : i \in DOMAIN s})
TreeOf(s) == IF s = <<>> THEN NULL ELSE Indexed(s)

Index == INSTANCE ShapeIndex WITH
  Nodes <- [index : Nat, box : Box], content <- qtree, changes <- edits

(* What is made good when the tree is made anew.                           *)
Cured == IF useQTree THEN {"moved"} ELSE {}

(* ReleaseMemoryShapes                                                     *)
Released == [i \in DOMAIN shapeData |-> NULL]
DropTree == qtree' = (IF useQTree THEN NULL ELSE qtree)

-----------------------------------------------------------------------------
(* Opening and closing.                                                    *)

(* The rest of Close, which drops all but the setting of the quadtree and  *)
(* of the labels.                                                          *)
Forget ==
  /\ shapeData' = <<>> /\ offsets' = 0 /\ labels' = <<>>
  /\ DropTree
  /\ lapses' = {}
  /\ UNCHANGED <<synced, useQTree, fault>>

Closed ==
  /\ name' = NULL /\ source' = "none" /\ editing' = FALSE /\ handle' = FALSE
  /\ dbf' = NoTable
  /\ Forget

(* A shapefile on the disk is reread when its edits are discarded.         *)
CloseFails == editing /\ source = "disk" /\ ~handle

(* What writing the files of n may leave on the disk if it is not opened:  *)
(* one of them may have been truncated.                                    *)
Damaged(n) ==
  {disk} \cup {[disk EXCEPT ![n].shp = Broken], [disk EXCEPT ![n].shx = Broken]}

(* Mutant of WrittenTo: the .shx file is not written.                      *)
WrittenToShp(n, s, rows) == [disk EXCEPT ![n] = [shp |-> s, shx |-> @.shx, dbf |-> rows]]

WrittenTo(n, s, rows) == [disk EXCEPT ![n] = [shp |-> s, shx |-> Len(s), dbf |-> rows]]

(* A new shapefile that has a name is saved when it is closed, even if the *)
(* caller does not want to.                                                *)
Close ==
  IF CloseFails THEN Fail("handle")
  ELSE /\ IF editing /\ source = "memory" /\ name # NULL
            THEN disk' \in Damaged(name) \cup
                   {WrittenTo(name, shapeData, r) : r \in {dbf.rows, disk[name].dbf}}
            ELSE UNCHANGED disk
       /\ Closed

(* Open closes the present shapefile first, which here is done already.    *)
(* Only a shapefile whose files agree is opened.                           *)
Open(n) ==
  /\ source = "none" /\ Agree(disk[n])
  /\ name' = n /\ source' = "disk" /\ handle' = TRUE
  /\ shapeData' = [i \in 1..disk[n].shx |-> NULL] /\ offsets' = disk[n].shx
  /\ dbf' = [rows |-> disk[n].dbf, file |-> n, editing |-> FALSE]
  /\ UNCHANGED <<disk, editing, labels, synced, useQTree, qtree, fault, lapses>>

(* A new shapefile, edited at once, in the memory until it is saved.       *)
CreateNew(n) ==
  /\ source = "none"
  /\ (n # NULL => disk[n] = NoFiles)
  /\ name' = n /\ source' = "memory" /\ editing' = TRUE
  /\ dbf' = [NoTable EXCEPT !.editing = TRUE]
  /\ UNCHANGED <<disk, handle, shapeData, offsets, labels, synced, useQTree, qtree,
                 fault, lapses>>

-----------------------------------------------------------------------------
(* The table.                                                              *)

(* The rows in the file that is open.                                      *)
FileRows == IF dbf.file = NULL THEN <<>> ELSE disk[dbf.file].dbf

(* StopEditingTable: the tables and the .dbf files it may leave.  A new    *)
(* table that has no name or whose file exists cannot be saved; it is kept.*)
CanSaveNew == IF name = NULL THEN FALSE ELSE disk[name].dbf = NULL

StopTable(apply) ==
  IF ~dbf.editing THEN {<<dbf, FileRows>>}
  ELSE IF ~apply THEN {<<[dbf EXCEPT !.rows = FileRows, !.editing = FALSE], FileRows>>}
  ELSE IF dbf.file # NULL
    THEN {<<[dbf EXCEPT !.rows = r, !.editing = FALSE], r>> : r \in {dbf.rows, FileRows}}
  ELSE IF CanSaveNew
    THEN {<<[dbf EXCEPT !.file = name, !.editing = FALSE], dbf.rows>>}
  ELSE {<<[dbf EXCEPT !.editing = FALSE], <<>>>>}

(* The file of the table t, with the new rows.                             *)
PutRows(d, t, rows) == IF t.file = NULL THEN d ELSE [d EXCEPT ![t.file].dbf = rows]

(* The table t has lost edits of rows, or is a new one that was not saved. *)
TableLapse(t) ==
  IF t.rows # dbf.rows \/ (t.file = NULL /\ ~t.editing) THEN {"split"} ELSE {}

StartEditingTable ==
  /\ source # "none" /\ dbf.file # NULL /\ ~dbf.editing
  /\ dbf' = [dbf EXCEPT !.editing = TRUE]
  /\ UNCHANGED <<file, aids, editing, shapeData, fault, lapses>>

StopEditingTable(apply) ==
  /\ source # "none" /\ dbf.editing
  /\ \E r \in StopTable(apply) :
       /\ dbf' = r[1] /\ disk' = PutRows(disk, r[1], r[2])
       /\ lapses' = lapses \cup TableLapse(r[1])
  /\ UNCHANGED <<name, source, handle, offsets, aids, editing, shapeData, fault>>

-----------------------------------------------------------------------------
(* Starting and stopping to edit the shapes.                               *)

(* The tree is made, the shapes are read, and the table is started if that *)
(* is asked for; if a shape or the table refuses, the tree is given up.    *)
StartEditingShapes(startTable) ==
  /\ source # "none" /\ ~editing
  /\ Reading(
       \/ /\ startTable => dbf.editing \/ dbf.file # NULL
          /\ editing' = TRUE /\ shapeData' = Shapes
          /\ dbf' = [dbf EXCEPT !.editing = @ \/ startTable]
          /\ IF useQTree THEN qtree' = Indexed(Shapes) /\ lapses' = lapses \ {"moved"}
             ELSE UNCHANGED <<qtree, lapses>>
          /\ UNCHANGED <<file, labels, synced, useQTree>>
       \/ /\ Count > 0 \/ (startTable /\ ~dbf.editing /\ dbf.file = NULL)
          /\ DropTree
          /\ UNCHANGED <<file, labels, synced, useQTree, editing, shapeData, dbf, lapses>>)

(* Mutant of WriteFails: the edit mode has been left before.               *)
WriteFailsReleased(tree) ==
  /\ disk' \in Damaged(name)
  /\ editing' = FALSE /\ shapeData' = Released /\ handle' = FALSE
  /\ lapses' = lapses \cup {"failed"}
  /\ UNCHANGED <<name, source, offsets, dbf, labels, synced, useQTree, qtree, fault>>

(* The files cannot be opened, or not again after they have been written;  *)
(* the shapes stay in the memory.  The tree, if they are written, is tree. *)
WriteFails(tree) ==
  /\ \/ disk' \in Damaged(name) /\ UNCHANGED <<offsets, qtree>>
     \/ disk' = WrittenTo(name, shapeData, disk[name].dbf) /\ offsets' = Count /\ qtree' = tree
  /\ handle' = FALSE
  /\ lapses' = lapses \cup {"failed"}
  /\ UNCHANGED <<name, source, editing, shapeData, dbf, labels, synced, useQTree, fault>>

(* Save, and StartEditingTable by the Save of the table, whose failure is  *)
(* not noticed; then, from StopEditingShapes of a new shapefile, the end   *)
(* of editing.                                                             *)
SaveAnd(stop) ==
  \/ WriteFails(IF useQTree THEN TreeOf(shapeData) ELSE qtree)
  \/ /\ \E r \in StopTable(TRUE) :
          /\ dbf' = [r[1] EXCEPT !.editing = r[1].file # NULL]
          /\ disk' = PutRows(WrittenTo(name, shapeData, disk[name].dbf), r[1], r[2])
          /\ lapses' = (lapses \ Cured) \cup TableLapse(r[1])
     /\ offsets' = Count /\ handle' = TRUE /\ source' = "disk"
     /\ qtree' = IF useQTree THEN TreeOf(shapeData) ELSE qtree
     /\ editing' = ~stop
     /\ UNCHANGED <<name, shapeData, labels, synced, useQTree, fault>>

Save == editing /\ name # NULL /\ SaveAnd(FALSE)

(* The files are truncated before anything has been written.               *)
ApplyChanges(stopTable) ==
  \/ WriteFails(qtree)
  \/ /\ \E r \in IF stopTable THEN StopTable(TRUE) ELSE {<<dbf, FileRows>>} :
          /\ dbf' = r[1]
          /\ disk' = PutRows(WrittenTo(name, shapeData, disk[name].dbf), r[1], r[2])
          /\ lapses' = lapses \cup TableLapse(r[1])
     /\ offsets' = Count /\ shapeData' = Released
     /\ DropTree
     /\ editing' = FALSE
     /\ UNCHANGED <<name, source, handle, labels, synced, useQTree, fault>>

(* The .shx file is reread, but the number of shapes remains.              *)
DiscardChanges(stopTable) ==
  /\ editing' = FALSE
  /\ shapeData' = Released /\ offsets' = disk[name].shx
  /\ DropTree
  /\ \E r \in IF stopTable THEN StopTable(FALSE) ELSE {<<dbf, FileRows>>} :
       /\ dbf' = r[1]
       /\ lapses' = lapses \cup (IF Count # disk[name].shx THEN {"torn"} ELSE {})
                          \cup (IF r[1].rows # FileRows \/ ~Agree(disk[name])
                                  THEN {"split"} ELSE {})
                          \cup (IF Fids(shapeData) # Fids(disk[name].shp)
                                  THEN {"labels"} ELSE {})
  /\ UNCHANGED <<disk, name, source, handle, labels, synced, useQTree, fault>>

StopEditingShapes(apply, stopTable) ==
  /\ editing
  /\ CASE source = "memory" /\ name # NULL -> SaveAnd(TRUE)
       [] source = "memory" /\ name = NULL ->
            /\ editing' = FALSE
            /\ UNCHANGED <<file, aids, shapeData, dbf, fault, lapses>>
       [] source = "disk" /\ ~handle -> Fail("handle")
       [] source = "disk" /\ handle /\ apply -> ApplyChanges(stopTable)
       [] source = "disk" /\ handle /\ ~apply -> DiscardChanges(stopTable)

-----------------------------------------------------------------------------
(* Editing.                                                                *)

Structure == editing /\ dbf.editing /\ UNCHANGED <<file, editing, synced, useQTree>>

(* get_Synchronized, if there are n shapes and the labels ls.              *)
Synchronized(ls, n) == synced /\ Len(ls) = n

(* The labels with one for feature f: InsertLabel adds it at the end,      *)
(* whatever its index, and only if the labels have the number of the       *)
(* shapes, n, with the new one.                                            *)
WithLabel(f, n) == IF Synchronized(labels, n) THEN Append(labels, f) ELSE labels

(* Those up to MaxShapes are on the disk in the beginning.                 *)
NewFid == MaxShapes + edits + 1

(* The row, the shape, and what RegisterNewShape does.                     *)
EditInsertShape(i, b) ==
  /\ Structure /\ Count < MaxShapes
  /\ i <= Len(dbf.rows) + 1
  /\ dbf' = [dbf EXCEPT !.rows = InsertAt(@, i, NewFid)]
  /\ shapeData' = InsertAt(shapeData, i, [fid |-> NewFid, box |-> b])
  /\ labels' = WithLabel(NewFid, Count + 1)
  /\ fault' = IF useQTree /\ qtree = NULL THEN "tree" ELSE fault
  /\ qtree' = IF useQTree /\ qtree # NULL THEN Index!With(qtree, Node(i, b)) ELSE qtree
  /\ lapses' = lapses \cup {"labels"} \cup IF i <= Count THEN {"moved"} ELSE {}

(* Mutant of EditUpdateShape: the old node stays.                          *)
EditUpdateShapeAdds(i, b) ==
  /\ editing
  /\ shapeData' = [shapeData EXCEPT ![i].box = b]
  /\ IF ~useQTree THEN UNCHANGED <<qtree, fault>>
     ELSE IF qtree = NULL THEN fault' = "tree" /\ UNCHANGED qtree
     ELSE qtree' = Index!With(qtree, Node(i, b)) /\ UNCHANGED fault
  /\ UNCHANGED <<file, labels, synced, useQTree, editing, dbf, lapses>>

(* ReregisterShape replaces a node that has the index, if any.             *)
EditUpdateShape(i, b) ==
  /\ editing
  /\ shapeData' = [shapeData EXCEPT ![i].box = b]
  /\ IF ~useQTree THEN UNCHANGED <<qtree, fault>>
     ELSE IF qtree = NULL THEN fault' = "tree" /\ UNCHANGED qtree
     ELSE /\ \E c \in Index!Without(qtree, i) : qtree' = Index!With(c, Node(i, b))
          /\ UNCHANGED fault
  /\ UNCHANGED <<file, labels, synced, useQTree, editing, dbf, lapses>>

(* Mutants of EditDeleteShape: the row is kept; the last label is removed, *)
(* whatever the index; the tree is dropped.                                *)
EditDeleteShapeKeepsRow(i) ==
  /\ Structure
  /\ labels' = IF Synchronized(labels, Count) THEN RemoveAt(labels, i) ELSE labels
  /\ shapeData' = RemoveAt(shapeData, i)
  /\ lapses' = lapses \cup {"moved"}
  /\ UNCHANGED <<dbf, qtree, fault>>
EditDeleteShapeLastLabel(i) ==
  /\ Structure /\ i <= Len(dbf.rows)
  /\ dbf' = [dbf EXCEPT !.rows = RemoveAt(@, i)]
  /\ labels' = IF Synchronized(labels, Count) THEN Front(labels) ELSE labels
  /\ shapeData' = RemoveAt(shapeData, i)
  /\ lapses' = lapses \cup {"moved"}
  /\ UNCHANGED <<qtree, fault>>
EditDeleteShapeDropsTree(i) ==
  /\ Structure /\ i <= Len(dbf.rows)
  /\ dbf' = [dbf EXCEPT !.rows = RemoveAt(@, i)]
  /\ labels' = IF Synchronized(labels, Count) THEN RemoveAt(labels, i) ELSE labels
  /\ shapeData' = RemoveAt(shapeData, i)
  /\ DropTree
  /\ lapses' = lapses \cup {"moved"}
  /\ UNCHANGED fault

(* The tree is not updated.                                                *)
EditDeleteShape(i) ==
  /\ Structure /\ i <= Len(dbf.rows)
  /\ dbf' = [dbf EXCEPT !.rows = RemoveAt(@, i)]
  /\ labels' = IF Synchronized(labels, Count) THEN RemoveAt(labels, i) ELSE labels
  /\ shapeData' = RemoveAt(shapeData, i)
  /\ lapses' = lapses \cup {"moved"}
  /\ UNCHANGED <<qtree, fault>>

(* The rows of the file come back.  The labels are looked at when there    *)
(* are no shapes any more, so that they are kept.                          *)
EditClear ==
  /\ Structure
  /\ dbf' = [dbf EXCEPT !.rows = FileRows]
  /\ shapeData' = <<>>
  /\ labels' = IF Synchronized(labels, 0) THEN <<>> ELSE labels
  /\ DropTree
  /\ lapses' = (lapses \ {"moved"}) \cup {"labels"}
                  \cup IF FileRows # <<>> THEN {"split"} ELSE {}
  /\ UNCHANGED fault

-----------------------------------------------------------------------------
(* Saving under another name.  The shapes may be on the disk.              *)

(* The .shx cannot be created, after the .shp has been.                    *)
LeavesShp(n) == disk' = [disk EXCEPT ![n].shp = Broken] /\ UNCHANGED offsets

CanSaveTable == dbf.file # NULL \/ dbf.editing

(* The files are written, and removed again if the table cannot be.        *)
SaveAs(n) ==
  /\ source # "none" /\ disk[n] = NoFiles
  /\ Reading(
       \/ /\ LeavesShp(n) \/ (offsets' = Count /\ UNCHANGED disk)
          /\ UNCHANGED <<name, source, handle, aids, editing, shapeData, dbf, lapses>>
       \/ /\ CanSaveTable
          /\ disk' = WrittenTo(n, Shapes, dbf.rows)
          /\ name' = n /\ source' = "disk" /\ handle' = TRUE /\ offsets' = Count
          /\ dbf' = [dbf EXCEPT !.file = n]
          /\ qtree' = IF useQTree THEN TreeOf(Shapes) ELSE qtree
          /\ lapses' = lapses \ Cured
          /\ UNCHANGED <<labels, synced, useQTree, editing, shapeData>>)

(* Dump does not remove them, and does not open them.                      *)
Dump(n) ==
  /\ source # "none" /\ disk[n] = NoFiles
  /\ Reading(
       /\ \/ LeavesShp(n)
          \/ /\ \E rows \in {NULL} \cup IF CanSaveTable THEN {dbf.rows} ELSE {} :
                  disk' = WrittenTo(n, Shapes, rows)
             /\ offsets' = Count
       /\ UNCHANGED <<name, source, handle, aids, editing, shapeData, dbf, lapses>>)

-----------------------------------------------------------------------------
(* The quadtree and the labels.                                            *)

put_UseQTree(on) ==
  /\ useQTree # on
  /\ IF ~on THEN qtree' = NULL /\ useQTree' = FALSE /\ UNCHANGED <<lapses, fault>>
     ELSE Reading(/\ qtree' = TreeOf(Shapes) /\ useQTree' = TRUE
                  /\ lapses' = lapses \ {"moved"})
  /\ IF on /\ ReadFault # "none" THEN TRUE
     ELSE UNCHANGED <<file, labels, synced, editing, shapeData, dbf>>

(* A query in the edit mode does not ask whether there is a tree.          *)
QuickQueryInEditMode == editing /\ useQTree /\ qtree = NULL /\ Fail("tree")

GenerateLabels ==
  /\ source # "none"
  /\ Reading(/\ labels' = Fids(Shapes) /\ synced' = TRUE
             /\ lapses' = lapses \ {"labels"}
             /\ UNCHANGED <<file, useQTree, qtree, editing, shapeData, dbf>>)

put_Synchronized(on) ==
  /\ synced # on /\ (on => Len(labels) = Count)
  /\ synced' = on
  /\ UNCHANGED <<file, labels, useQTree, qtree, editing, shapeData, dbf, fault, lapses>>

-----------------------------------------------------------------------------
(* What changes the features, the labels or the tree.                      *)
Edit ==
  \/ EditClear \/ GenerateLabels
  \/ \E b \in BOOLEAN : put_UseQTree(b) \/ put_Synchronized(b)
  \/ \E i \in 1..Count + 1, b \in Box : EditInsertShape(i, b)
  \/ \E i \in 1..Count : EditDeleteShape(i) \/ \E b \in Box : EditUpdateShape(i, b)

(* What may write to the disk; Close does if the shapefile is new.         *)
Write ==
  \/ Save \/ StopEditingTable(TRUE) \/ Close
  \/ \E n \in Name : SaveAs(n) \/ Dump(n)
  \/ \E b \in BOOLEAN : StopEditingShapes(TRUE, b)

Other ==
  \/ CreateNew(NULL) \/ \E n \in Name : Open(n) \/ CreateNew(n)
  \/ StartEditingTable \/ StopEditingTable(FALSE) \/ QuickQueryInEditMode
  \/ \E b \in BOOLEAN : StartEditingShapes(b) \/ StopEditingShapes(FALSE, b)

Next ==
  /\ fault = "none"
  /\ \/ Edit /\ edits < MaxEdits /\ edits' = edits + 1 /\ UNCHANGED writes
     \/ Write /\ writes < MaxWrites /\ writes' = writes + 1 /\ UNCHANGED edits
     \/ Other /\ UNCHANGED <<edits, writes>>

Spec == Init /\ [][Next]_vars

-----------------------------------------------------------------------------
(* Type correctness.                                                       *)
TypeOK ==
  /\ disk \in [Name -> Files]
  /\ name \in Name \cup {NULL} /\ source \in {"none", "memory", "disk"}
  /\ {editing, handle, synced, useQTree, dbf.editing} \subseteq BOOLEAN
  /\ shapeData \in Seq(Shape \cup {NULL}) /\ offsets \in 0..MaxShapes
  /\ dbf.rows \in Rows /\ dbf.file \in {NULL, name}
  /\ labels \in Rows
  /\ qtree # NULL => BagToSet(qtree) \subseteq TreeNode
  /\ edits \in 0..MaxEdits /\ writes \in 0..MaxWrites
  /\ fault \in {"none", "handle", "offset", "tree"}
  /\ lapses \subseteq {"failed", "split", "torn", "moved", "labels"}

Sound(ls) == fault = "none" /\ ReadFault = "none" /\ lapses \cap ls = {}

(* Each shape has its own row, as long as no file could not be written and *)
(* the shapes and the table have been saved and discarded together.        *)
RowsFollow == Sound({"failed", "split", "torn"}) => Fids(Shapes) = dbf.rows

(* When nothing is being edited, the three files of the shapefile agree.   *)
FilesAgree ==
  Sound({"failed", "split", "torn"}) /\ source = "disk" /\ ~editing /\ ~dbf.editing
    => Agree(disk[name])

(* While shapes are edited, the tree has them all where they are, unless   *)
(* their indices have changed since it was made; there is none only if     *)
(* there are no shapes.                                                    *)
TreeFollows ==
  editing /\ useQTree /\ fault = "none" =>
    /\ qtree = NULL => shapeData = <<>>
    /\ qtree # NULL /\ "moved" \notin lapses => qtree = Indexed(shapeData)

(* Synchronized labels are those of their shapes, unless a shape has been  *)
(* inserted or all have been cleared since the labels were generated.      *)
LabelsFollow ==
  Sound({"labels", "torn"}) /\ Synchronized(labels, Count) => labels = Fids(Shapes)

(* A shapefile that is open is not damaged, or its shapes are in memory.   *)
DamageIsMendable ==
  name # NULL /\ Broken \in {disk[name].shp, disk[name].shx} =>
    editing /\ NULL \notin ToSet(shapeData)

(* A fault has a cause: a tree is missed only where there were no shapes,  *)
(* a file after a save has failed or in a new shapefile that was never     *)
(* saved, and an offset after edits of the number of shapes were dropped.  *)
FaultsHaveCauses ==
  CASE fault = "none" -> TRUE
    [] fault = "tree" -> Count <= 1
    [] fault = "handle" -> "failed" \in lapses \/ (source = "memory" /\ name = NULL)
    [] fault = "offset" -> "torn" \in lapses

-----------------------------------------------------------------------------
(* What a comment says and the code does not do.                           *)

(* "discard the Changes" (Shapefile_Edit.cpp:272): when the edits have     *)
(* been discarded there are as many shapes as in the file.                 *)
DiscardRestores == source = "disk" /\ ~editing /\ handle => Count = disk[name].shx
=============================================================================
