----------------------------- MODULE TableClass -----------------------------
(***************************************************************************)
(* The attribute table of a shapefile, CTableClass (src/COM classes/       *)
(* TableClass.cpp), over a .dbf file, and the editing of its cells, rows   *)
(* and fields.  Records are read when they are first needed and cached;    *)
(* rows and fields know which record and column of the file they stand     *)
(* for, 0 if none.  To save is to write the table to a new file, which is  *)
(* copied over the old one, and to open that again.                        *)
(*                                                                         *)
(* Indices start from 1.  All fields are numeric.  Joins, and with them    *)
(* Serialize and Deserialize, are left out.  Operations that are refused   *)
(* change nothing and are left out too.                                    *)
(***************************************************************************)
EXTENDS Naturals, Sequences, SequencesExt

CONSTANTS
  Name,       \* names of files
  Value,      \* what a cell may hold
  Zero,       \* 0 as a value
  Empty,      \* a cell that is VT_NULL or VT_EMPTY, or blank in the file
  NULL,       \* the null pointer, for a table, a row or a value
  MaxRows, MaxFields,  \* bounds on the size of a table
  MaxEdits,   \* bound on the edits after loading
  FirstTable  \* tables that may be on the disk in the beginning

(* A record of a file, and the files within the bounds.                    *)
Record(cols) == [1..cols -> Value \cup {Empty}]
Table ==
  UNION {[cols : {c}, rows : UNION {[1..n -> Record(c)] : n \in 0..MaxRows}] :
           c \in 0..MaxFields}

ASSUME TableAssumption ==
  /\ Zero \in Value /\ Empty \notin Value
  /\ NULL \notin Name \cup Value \cup {Empty}
  /\ NULL \notin Table /\ NULL \notin Seq(Value \cup {Empty, NULL})
  /\ FirstTable \subseteq Table
  /\ MaxRows \in Nat /\ MaxFields \in Nat /\ MaxEdits \in Nat

VARIABLES
  disk,           \* [Name -> a table [cols, rows], or NULL]
  dbfHandle,      \* the file that is open, or NULL
  filename,       \* the file the table belongs to, or NULL
  isEditingTable, needToSaveAsNewFile,
  fields,         \* _fields: a sequence of [oldIndex, isUpdated]
  rows,           \* _rows: a sequence of [row: values or NULL, status, oldIndex]
  edits,          \* edits since the table was loaded
  (* for the properties *)
  dumped,         \* Dump has been called during the editing
  fault           \* a null pointer has been used

vars == <<disk, dbfHandle, filename, isEditingTable, needToSaveAsNewFile, fields, rows,
          edits, dumped, fault>>

Init ==
  /\ disk \in [Name -> FirstTable \cup {NULL}]
  /\ dbfHandle = NULL /\ filename = NULL
  /\ isEditingTable = FALSE
  /\ needToSaveAsNewFile \in BOOLEAN  \* the constructor does not set it
  /\ fields = <<>> /\ rows = <<>>
  /\ edits = 0 /\ dumped = FALSE /\ fault = FALSE

-----------------------------------------------------------------------------
(* Opening and closing.                                                    *)

(* The setters mark each new field as updated.                             *)
LoadDefault_fields(t) == fields' = [j \in 1..t.cols |-> [oldIndex |-> j, isUpdated |-> TRUE]]

(* Mutant of LoadDefault_rows: the old rows are not cleared.               *)
LoadDefault_rowsAppends(t) ==
  rows' = rows \o [i \in DOMAIN t.rows |-> [row |-> NULL, status |-> "clean", oldIndex |-> i]]

LoadDefault_rows(t) ==
  rows' = [i \in DOMAIN t.rows |-> [row |-> NULL, status |-> "clean", oldIndex |-> i]]

NoTable == [cols |-> 0, rows |-> <<>>]

Reload(t) == LoadDefault_fields(t) /\ LoadDefault_rows(t) /\ edits' = 0 /\ dumped' = FALSE

(* Open without its changes of the disk, which are those of the caller; a  *)
(* missing file leaves the table closed.                                   *)
OpenFile(n) ==
  IF n # NULL /\ disk'[n] # NULL
    THEN dbfHandle' = n /\ filename' = n /\ Reload(disk'[n])
    ELSE dbfHandle' = NULL /\ filename' = NULL /\ Reload(NoTable)

Open(n) ==
  /\ UNCHANGED <<disk, isEditingTable, needToSaveAsNewFile, fault>>
  /\ OpenFile(n)

Close ==
  /\ UNCHANGED <<disk, isEditingTable, needToSaveAsNewFile, fault>>
  /\ OpenFile(NULL)

CreateNew(n) ==
  /\ disk[n] = NULL
  /\ dbfHandle' = NULL /\ filename' = n
  /\ Reload(NoTable)
  /\ isEditingTable' = TRUE
  /\ UNCHANGED <<disk, needToSaveAsNewFile, fault>>

-----------------------------------------------------------------------------
(* Reading.                                                                *)

(* Mutant of ReadRecord: the record is looked for at the present index.    *)
ReadRecordAt(i, fs) ==
  IF rows[i].row # NULL \/ dbfHandle = NULL THEN rows[i]
  ELSE [rows[i] EXCEPT
         !.row = [j \in DOMAIN fs |->
                    IF fs[j].oldIndex = 0 THEN NULL
                    ELSE IF i > Len(disk[dbfHandle].rows) THEN Empty
                    ELSE disk[dbfHandle].rows[i][fs[j].oldIndex]],
         !.status = "clean"]

(* ReadRecord fills the cache of a row from its record; a field that is    *)
(* not in the file gets no value, and a row that is not in it empty ones.  *)
ReadRecord(i, fs) ==
  IF rows[i].row # NULL \/ dbfHandle = NULL THEN rows[i]
  ELSE [rows[i] EXCEPT
         !.row = [j \in DOMAIN fs |->
                    IF fs[j].oldIndex = 0 THEN NULL
                    ELSE IF rows[i].oldIndex = 0 THEN Empty
                    ELSE disk[dbfHandle].rows[rows[i].oldIndex][fs[j].oldIndex]],
         !.status = "clean"]

(* What get_CellValue returns for field j of row i.                        *)
CellValue(i, j) ==
  LET row == ReadRecord(i, fields).row
  IN IF row = NULL THEN Empty ELSE IF row[j] = NULL THEN Empty ELSE row[j]

get_CellValue(i) ==
  /\ rows' = [rows EXCEPT ![i] = ReadRecord(i, fields)]
  /\ UNCHANGED <<disk, dbfHandle, filename, isEditingTable, needToSaveAsNewFile, fields,
                 edits, dumped, fault>>

-----------------------------------------------------------------------------
(* Editing.  The structure of a table is that of its fields and rows.      *)

StartEditingTable ==
  /\ ~isEditingTable /\ dbfHandle # NULL
  /\ isEditingTable' = TRUE
  /\ needToSaveAsNewFile' = FALSE
  /\ UNCHANGED <<disk, dbfHandle, filename, fields, rows, edits, dumped, fault>>

Edit ==
  /\ isEditingTable /\ edits < MaxEdits
  /\ edits' = edits + 1
  /\ UNCHANGED <<disk, dbfHandle, filename, isEditingTable, dumped>>

EditCellValue(i, j, v) ==
  LET rw == ReadRecord(i, fields)
  IN /\ Edit
     /\ rows' = [rows EXCEPT ![i] =
                   IF rw.row = NULL THEN rw
                   ELSE [rw EXCEPT !.row[j] = v, !.status = "modified"]]
     /\ UNCHANGED <<needToSaveAsNewFile, fields, fault>>

EditInsertRow(i) ==
  /\ Edit /\ Len(rows) < MaxRows
  /\ rows' = InsertAt(rows, i, [row |-> [j \in DOMAIN fields |-> Empty],
                                status |-> "inserted", oldIndex |-> 0])
  /\ needToSaveAsNewFile' = TRUE
  /\ UNCHANGED <<fields, fault>>

EditDeleteRow(i) ==
  /\ Edit
  /\ rows' = RemoveAt(rows, i)
  /\ needToSaveAsNewFile' = TRUE
  /\ UNCHANGED <<fields, fault>>

(* The rows after field j has been deleted: a null value is not erased.    *)
DeleteValues(j) ==
  [i \in DOMAIN rows |->
     IF rows[i].row # NULL /\ rows[i].row[j] # NULL
       THEN [rows[i] EXCEPT !.row = RemoveAt(@, j)] ELSE rows[i]]

(* A field the caller has named is marked as updated.                      *)
NewField == [oldIndex |-> 0, isUpdated |-> TRUE]

(* Mutant of InsertValues: rows that have not been read get no value.      *)
InsertValuesOfCached(rs, j, fs) ==
  [i \in DOMAIN rs |-> IF rs[i].row = NULL THEN rs[i]
                       ELSE [rs[i] EXCEPT !.row = InsertAt(@, j, Empty)]]

(* The rows rs, all read before with the fields fs, after another field    *)
(* has been inserted at j.                                                 *)
InsertValues(rs, j, fs) ==
  [i \in DOMAIN rs |->
     LET rw == IF rs[i].row = NULL THEN ReadRecord(i, fs) ELSE rs[i]
     IN [rw EXCEPT !.row = InsertAt(@, j, Empty)]]

(* Rows that cannot be read, since no file is open, have no values.        *)
Unreadable == dbfHandle = NULL /\ \E i \in DOMAIN rows : rows[i].row = NULL

EditInsertField(j) ==
  /\ Edit /\ Len(fields) < MaxFields
  /\ needToSaveAsNewFile' = TRUE
  /\ fault' = Unreadable
  /\ IF Unreadable THEN UNCHANGED <<fields, rows>>
     ELSE fields' = InsertAt(fields, j, NewField) /\ rows' = InsertValues(rows, j, fields)

EditDeleteField(j) ==
  /\ Edit
  /\ fields' = RemoveAt(fields, j)
  /\ rows' = DeleteValues(j)
  /\ needToSaveAsNewFile' = TRUE
  /\ UNCHANGED fault

(* The field is deleted and the new one inserted in its place.             *)
EditReplaceField(j) ==
  /\ Edit
  /\ fault' = Unreadable
  /\ needToSaveAsNewFile' = TRUE
  /\ IF Unreadable THEN fields' = RemoveAt(fields, j) /\ rows' = DeleteValues(j)
     ELSE /\ fields' = [fields EXCEPT ![j] = NewField]
          /\ rows' = InsertValues(DeleteValues(j), j, RemoveAt(fields, j))

(* EditClear loads the fields and rows of the file again.                  *)
EditClear ==
  /\ Reload(IF dbfHandle = NULL THEN NoTable ELSE disk[dbfHandle])
  /\ needToSaveAsNewFile' = FALSE
  /\ UNCHANGED <<disk, dbfHandle, filename, isEditingTable, fault>>

-----------------------------------------------------------------------------
(* Saving.                                                                 *)

(* WriteRecord gets VT_EMPTY for every empty cell and writes 0.            *)
WriteRecord(i) ==
  [j \in DOMAIN fields |-> IF CellValue(i, j) = Empty THEN Zero ELSE CellValue(i, j)]

(* SaveToFile for a new file; without fields no record is written.         *)
NewFile ==
  [cols |-> Len(fields),
   rows |-> IF fields = <<>> THEN <<>> ELSE [i \in DOMAIN rows |-> WriteRecord(i)]]

(* SaveToFile in place: the modified rows are written.                     *)
UpdatedFile ==
  [disk[filename] EXCEPT !.rows =
     [i \in DOMAIN @ |-> IF rows[i].row # NULL /\ rows[i].status = "modified"
                           THEN WriteRecord(i) ELSE @[i]]]

(* Does the table have to be written to a new file?                        *)
Rewrite == needToSaveAsNewFile \/ \E j \in DOMAIN fields : fields[j].isUpdated

(* SaveAs and Dump need a table and a new file name.                       *)
CanSaveTo(n) == (dbfHandle # NULL \/ isEditingTable) /\ n # NULL /\ disk[n] = NULL

SaveAs(n) ==
  /\ CanSaveTo(n)
  /\ disk' = [disk EXCEPT ![n] = NewFile]
  /\ OpenFile(n)
  /\ UNCHANGED <<isEditingTable, needToSaveAsNewFile, fault>>

(* Dump drops the cached rows, but for the first one.                      *)
Dump(n) ==
  /\ CanSaveTo(n)
  /\ disk' = [disk EXCEPT ![n] = NewFile]
  /\ rows' = [i \in DOMAIN rows |->
                IF i = 1 THEN (IF fields = <<>> THEN rows[1] ELSE ReadRecord(1, fields))
                ELSE [rows[i] EXCEPT !.row = NULL]]
  /\ dumped' = (dumped \/ isEditingTable)
  /\ UNCHANGED <<dbfHandle, filename, isEditingTable, needToSaveAsNewFile, fields, edits, fault>>

(* StopEditingTable and, for Save, StartEditingTable, of a new table: it is *)
(* saved, abandoned, or cannot be saved under its name.                    *)
StopEditingNew(apply, again) ==
  /\ isEditingTable /\ dbfHandle = NULL
  /\ IF apply /\ CanSaveTo(filename)
       THEN disk' = [disk EXCEPT ![filename] = NewFile] /\ OpenFile(filename)
       ELSE /\ UNCHANGED <<disk, dbfHandle, filename>>
            /\ IF apply THEN UNCHANGED <<fields, rows, edits, dumped>> ELSE Reload(NoTable)
  /\ isEditingTable' = (again /\ dbfHandle' # NULL)
  /\ needToSaveAsNewFile' = (apply /\ ~isEditingTable' /\ needToSaveAsNewFile)
  /\ UNCHANGED fault

(* StopEditingTable and, for Save, StartEditingTable.  Whether the new     *)
(* file could be written and copied makes no difference afterwards.        *)
StopEditingTable(apply, again) ==
  /\ isEditingTable /\ dbfHandle # NULL
  /\ IF ~apply THEN UNCHANGED disk
     ELSE \/ disk' = [disk EXCEPT ![filename] = IF Rewrite THEN NewFile ELSE UpdatedFile]
          \/ UNCHANGED disk
  /\ needToSaveAsNewFile' =
       (~again /\ (IF apply THEN Rewrite ELSE needToSaveAsNewFile))
  /\ isEditingTable' = again
  /\ OpenFile(filename)
  /\ UNCHANGED fault

Save == StopEditingTable(TRUE, TRUE) \/ StopEditingNew(TRUE, TRUE)

-----------------------------------------------------------------------------
Next ==
  /\ ~fault
  /\ \/ \E n \in Name : Open(n) \/ CreateNew(n) \/ SaveAs(n) \/ Dump(n)
     \/ Close \/ StartEditingTable \/ EditClear \/ Save
     \/ \E b \in BOOLEAN : StopEditingTable(b, FALSE) \/ StopEditingNew(b, FALSE)
     \/ \E i \in DOMAIN rows :
          \/ get_CellValue(i) \/ EditDeleteRow(i)
          \/ \E j \in DOMAIN fields, v \in Value \cup {Empty} : EditCellValue(i, j, v)
     \/ \E i \in 1..Len(rows) + 1 : EditInsertRow(i)
     \/ \E j \in 1..Len(fields) + 1 : EditInsertField(j)
     \/ \E j \in DOMAIN fields : EditDeleteField(j) \/ EditReplaceField(j)

Spec == Init /\ [][Next]_vars

-----------------------------------------------------------------------------
(* Type correctness; rows and fields refer to what is in the open file.    *)
TypeOK ==
  /\ disk \in [Name -> Table \cup {NULL}]
  /\ {dbfHandle, filename} \subseteq Name \cup {NULL}
  /\ dbfHandle # NULL => dbfHandle = filename /\ disk[filename] # NULL
  /\ {isEditingTable, needToSaveAsNewFile, dumped, fault} \subseteq BOOLEAN
  /\ Len(fields) <= MaxFields /\ Len(rows) <= MaxRows /\ edits \in 0..MaxEdits
  /\ LET file == IF dbfHandle = NULL THEN NoTable ELSE disk[dbfHandle]
     IN /\ fields \in Seq([oldIndex : 0..file.cols, isUpdated : BOOLEAN])
        /\ \A i \in DOMAIN rows :
             /\ rows[i].row # NULL => rows[i].row \in Seq(Value \cup {Empty, NULL})
             /\ rows[i].status \in {"clean", "inserted", "modified"}
             /\ rows[i].oldIndex \in 0..Len(file.rows)

(* Unless the table was dumped while it was edited, each cached row has a  *)
(* value for each field, and a row that is not cached can be read, so that *)
(* no sequence of insertions and deletions makes a row slip against the    *)
(* fields.                                                                 *)
Aligned ==
  \/ dumped
  \/ /\ ~fault
     /\ \A i \in DOMAIN rows :
          IF rows[i].row = NULL
            THEN rows[i].oldIndex > 0 /\ \A j \in DOMAIN fields : fields[j].oldIndex > 0
            ELSE Len(rows[i].row) = Len(fields) /\ NULL \notin ToSet(rows[i].row)

(* The table as get_CellValue shows it.                                    *)
Shown ==
  [cols |-> Len(fields),
   rows |-> [i \in DOMAIN rows |-> [j \in DOMAIN fields |-> CellValue(i, j)]]]

(* With its cache, its old indices and its temporary file the table is a   *)
(* TableSession.                                                           *)
Session == INSTANCE TableSession WITH
  file <- dbfHandle, target <- filename, shown <- Shown,
  editing <- isEditingTable, spoiled <- dumped
ImplementsSession == Session!Spec

-----------------------------------------------------------------------------
(* What a comment says and the code does not do.                           *)

(* There is "support for null cell values" (TableClass.cpp:1578): a cell   *)
(* that was empty in the file is empty after the table has been edited     *)
(* without an edit.                                                        *)
NullsAreKept ==
  [][StopEditingTable(TRUE, FALSE) /\ edits = 0 => disk' = disk]_vars
=============================================================================
