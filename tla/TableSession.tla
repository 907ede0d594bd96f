---------------------------- MODULE TableSession ----------------------------
(* What an attribute table promises to its user: while it is being edited  *)
(* it shows every edit at once, and the files on the disk change only when *)
(* it is saved, to what was shown.  An empty numeric cell becomes Zero in  *)
(* the file.  After a dump in the middle of editing nothing is promised of *)
(* what is shown until the table is loaded again.                          *)
EXTENDS Naturals, Sequences, SequencesExt

CONSTANTS
  Name,   \* names of files
  Value,  \* what a cell may hold
  Zero,   \* the value written for an empty cell
  Empty,  \* an empty cell
  NULL    \* no file, no table

VARIABLES
  disk,     \* [Name -> a table [cols, rows], or NULL]
  file,     \* the file that is open
  target,   \* the file a new table is to be saved to
  shown,    \* the table as the user sees it
  editing,
  spoiled   \* dumped while it was being edited

vars == <<disk, file, target, shown, editing, spoiled>>

NoTable == [cols |-> 0, rows |-> <<>>]

(* What is written for the table t; without fields there are no records.   *)
Stored(t) ==
  IF t.cols = 0 THEN NoTable
  ELSE [t EXCEPT !.rows = [i \in DOMAIN @ |-> [j \in DOMAIN @[i] |->
                             IF @[i][j] = Empty THEN Zero ELSE @[i][j]]]]

Init ==
  /\ file = NULL /\ target = NULL
  /\ shown = NoTable
  /\ ~editing /\ ~spoiled

(* The file n of the new disk, or nothing, is loaded.                      *)
Load(n) ==
  /\ file' = n /\ target' = n
  /\ shown' = IF n = NULL THEN NoTable ELSE disk'[n]
  /\ ~spoiled'

-----------------------------------------------------------------------------
Open(n) == disk[n] # NULL /\ UNCHANGED <<disk, editing>> /\ Load(n)

Close == UNCHANGED <<disk, editing>> /\ Load(NULL)

CreateNew(n) ==
  /\ disk[n] = NULL
  /\ file' = NULL /\ target' = n
  /\ shown' = NoTable
  /\ editing' /\ ~spoiled'
  /\ UNCHANGED disk

StartEditing == file # NULL /\ editing' /\ UNCHANGED <<disk, file, target, shown, spoiled>>

Columns == 1..shown.cols
Records == DOMAIN shown.rows

Edit(t) ==
  /\ editing
  /\ spoiled \/ shown' = t
  /\ UNCHANGED <<disk, file, target, editing, spoiled>>

SetCell == \E i \in Records, j \in Columns, v \in Value \cup {Empty} :
  Edit([shown EXCEPT !.rows[i][j] = v])
InsertRow == \E i \in 1..Len(shown.rows) + 1 :
  Edit([shown EXCEPT !.rows = InsertAt(@, i, [j \in Columns |-> Empty])])
DeleteRow == \E i \in Records : Edit([shown EXCEPT !.rows = RemoveAt(@, i)])
InsertField == \E j \in 1..shown.cols + 1 :
  Edit([cols |-> shown.cols + 1,
        rows |-> [i \in Records |-> InsertAt(shown.rows[i], j, Empty)]])
DeleteField == \E j \in Columns :
  Edit([cols |-> shown.cols - 1,
        rows |-> [i \in Records |-> RemoveAt(shown.rows[i], j)]])
ReplaceField == \E j \in Columns :
  Edit([cols |-> shown.cols,
        rows |-> [i \in Records |-> [shown.rows[i] EXCEPT ![j] = Empty]]])

Save(n) == disk' = [disk EXCEPT ![n] = Stored(shown)] /\ Load(n)

(* The edits are saved, or lost if the file cannot be written.  A table    *)
(* without a file is saved as a new one; if that fails it is shown still,  *)
(* but can be edited no longer.                                            *)
Commit ==
  /\ editing
  /\ \/ file # NULL /\ (Save(file) \/ (UNCHANGED disk /\ Load(file)))
     \/ file = NULL /\ target # NULL /\ disk[target] = NULL /\ Save(target)
     \/ file = NULL /\ ~editing' /\ UNCHANGED <<disk, file, target, shown, spoiled>>

Revert ==
  /\ UNCHANGED disk
  /\ \/ file # NULL /\ Load(file)
     \/ file = NULL /\ shown' = NoTable /\ ~spoiled' /\ UNCHANGED <<file, target>>

Rollback == editing /\ ~editing' /\ Revert
Undo == UNCHANGED editing /\ Revert

SaveAs(n) == disk[n] = NULL /\ UNCHANGED editing /\ Save(n)

Dump(n) ==
  /\ disk[n] = NULL
  /\ disk' = [disk EXCEPT ![n] = Stored(shown)]
  /\ spoiled' = (spoiled \/ editing)
  /\ spoiled' \/ shown' = shown
  /\ UNCHANGED <<file, target, editing>>

Next ==
  \/ \E n \in Name : Open(n) \/ CreateNew(n) \/ SaveAs(n) \/ Dump(n)
  \/ Close \/ StartEditing \/ Commit \/ Rollback \/ Undo
  \/ SetCell \/ InsertRow \/ DeleteRow \/ InsertField \/ DeleteField \/ ReplaceField

Spec == Init /\ [][Next]_vars
=============================================================================
