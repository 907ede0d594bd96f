-------------------------- MODULE TableClassProofs --------------------------
(***************************************************************************)
(* Proofs about TableClass: the types, that rows stay aligned with fields, *)
(* and that the table implements the session of TableSession, for tables   *)
(* and numbers of files and edits of any size.                             *)
(***************************************************************************)
EXTENDS TableClass, SequenceLemmas, TLAPS

Cell   == Value \cup {Empty, NULL}
Status == {"clean", "inserted", "modified"}

(* The file that is open.                                                  *)
File == IF dbfHandle = NULL THEN NoTable ELSE disk[dbfHandle]

(* Fields and rows that refer to what is in the table t.  A field is marked*)
(* as updated from the beginning.                                          *)
FieldOf(t) == [oldIndex : 0..t.cols, isUpdated : {TRUE}]
RowOf(t) == [row : Seq(Cell) \cup {NULL}, status : Status, oldIndex : 0..Len(t.rows)]

(* A row may have more values than there are fields, after a dump.         *)
RowFits(r, fs) == r.row # NULL => Len(r.row) >= Len(fs)

Fit(t, fs, rs) ==
  /\ fs \in Seq(FieldOf(t)) /\ Len(fs) <= MaxFields
  /\ rs \in Seq(RowOf(t)) /\ Len(rs) <= MaxRows
  /\ \A i \in 1..Len(rs) : RowFits(rs[i], fs)

(* Nothing but reading has happened since t was loaded.                    *)
AsLoaded(t, fs, rs) ==
  /\ Len(fs) = t.cols /\ \A j \in 1..Len(fs) : fs[j].oldIndex = j
  /\ Len(rs) = Len(t.rows)
  /\ \A i \in 1..Len(rs) : rs[i].oldIndex = i /\ (rs[i].row = NULL \/ rs[i].row = t.rows[i])

(* Aligned, of the rows and fields it is about.                            *)
RowInLine(r, fs) ==
  IF r.row = NULL
    THEN r.oldIndex > 0 /\ \A j \in 1..Len(fs) : fs[j].oldIndex > 0
    ELSE Len(r.row) = Len(fs) /\ \A j \in 1..Len(fs) : r.row[j] # NULL

InLine(fs, rs) == \A i \in 1..Len(rs) : RowInLine(rs[i], fs)

Files ==
  /\ disk \in [Name -> Table \cup {NULL}]
  /\ dbfHandle \in Name \cup {NULL} /\ filename \in Name \cup {NULL}
  /\ dbfHandle # NULL => dbfHandle = filename /\ disk[filename] # NULL

Flags ==
  /\ isEditingTable \in BOOLEAN /\ needToSaveAsNewFile \in BOOLEAN
  /\ dumped \in BOOLEAN /\ fault \in BOOLEAN
  /\ edits \in 0..MaxEdits

Contents ==
  /\ Fit(File, fields, rows)
  /\ dumped \/ (~fault /\ InLine(fields, rows))

(* Columns are changed by editing only, which is then remembered.          *)
Structure ==
  dbfHandle # NULL /\ ~(isEditingTable /\ needToSaveAsNewFile) => Len(fields) = File.cols

Untouched == dbfHandle # NULL /\ ~isEditingTable => AsLoaded(File, fields, rows)

IInv == Files /\ Flags /\ Contents /\ Structure /\ Untouched

-----------------------------------------------------------------------------
(* Tables.                                                                 *)

LEMMA TableIs ==
  ASSUME NEW t \in Table
  PROVE  /\ t = [cols |-> t.cols, rows |-> t.rows] /\ t # NULL
         /\ t.cols \in 0..MaxFields /\ t.rows \in Seq(Record(t.cols)) /\ Len(t.rows) <= MaxRows
         /\ Len(t.rows) \in Nat /\ t.cols \in Nat
  <1>1. PICK c \in 0..MaxFields, n \in 0..MaxRows :
          t \in [cols : {c}, rows : UNION {[1..m -> Record(c)] : m \in 0..MaxRows}]
          /\ t.rows \in [1..n -> Record(c)]
    BY DEF Table
  <1>2. t = [cols |-> t.cols, rows |-> t.rows] /\ t.cols = c
    BY <1>1
  <1>3. n \in Nat /\ n <= MaxRows /\ c \in Nat
    BY TableAssumption
  <1>4. t.rows \in Seq(Record(c)) /\ Len(t.rows) = n
    BY <1>1, <1>3, IsASeq
  <1>. QED
    BY <1>2, <1>3, <1>4, TableAssumption

LEMMA TableMade ==
  ASSUME NEW c \in 0..MaxFields, NEW r \in Seq(Record(c)), Len(r) <= MaxRows
  PROVE  [cols |-> c, rows |-> r] \in Table
  <1>1. Len(r) \in 0..MaxRows /\ r \in [1..Len(r) -> Record(c)]
    BY LenProperties, TableAssumption
  <1>2. r \in UNION {[1..m -> Record(c)] : m \in 0..MaxRows}
    BY <1>1
  <1>. HIDE DEF Record
  <1>. QED
    BY <1>2 DEF Table

LEMMA RecordIs ==
  ASSUME NEW c \in Nat, NEW r \in Record(c)
  PROVE  /\ r \in Seq(Cell) /\ Len(r) = c /\ r # NULL
         /\ \A j \in 1..c : r[j] \in Value \cup {Empty} /\ r[j] # NULL
  <1>1. r \in [1..c -> Value \cup {Empty}] /\ r \in [1..c -> Cell]
    BY DEF Record, Cell
  <1>2. r \in Seq(Cell) /\ Len(r) = c
    BY <1>1, IsASeq
  <1>3. \A j \in 1..c : r[j] \in Value \cup {Empty}
    BY <1>1
  <1>. QED
    BY <1>2, <1>3, TableAssumption DEF Cell

LEMMA FileIs ==
  ASSUME Files
  PROVE  /\ File.cols \in Nat /\ File.rows \in Seq(Record(File.cols)) /\ Len(File.rows) \in Nat
         /\ File.cols <= MaxFields /\ Len(File.rows) <= MaxRows
         /\ File = [cols |-> File.cols, rows |-> File.rows]
         /\ dbfHandle = NULL => File = NoTable /\ File.cols = 0 /\ File.rows = <<>>
         /\ dbfHandle # NULL => File = disk[dbfHandle] /\ File \in Table
  <1>1. CASE dbfHandle = NULL
    <2>1. File = NoTable /\ File.cols = 0 /\ File.rows = <<>> /\ Len(File.rows) = 0
      BY <1>1 DEF File, NoTable
    <2>2. <<>> \in Seq(Record(0))
      BY EmptySeq
    <2>. QED
      BY <1>1, <2>1, <2>2, TableAssumption DEF NoTable
  <1>2. CASE dbfHandle # NULL
    <2>1. File = disk[dbfHandle] /\ File \in Table
      BY <1>2 DEF File, Files
    <2>. QED
      BY <1>2, <2>1, TableIs, TableAssumption
  <1>. QED
    BY <1>1, <1>2

-----------------------------------------------------------------------------
(* Reading.                                                                *)

LEMMA FitIs ==
  ASSUME NEW t, NEW fs, NEW rs, Fit(t, fs, rs)
  PROVE  /\ Len(fs) \in Nat /\ DOMAIN fs = 1..Len(fs) /\ fs \in Seq(FieldOf(t))
         /\ Len(rs) \in Nat /\ DOMAIN rs = 1..Len(rs) /\ rs \in Seq(RowOf(t))
         /\ \A j \in 1..Len(fs) : fs[j] \in FieldOf(t)
         /\ \A i \in 1..Len(rs) : rs[i] \in RowOf(t)
  BY LenProperties, ElementOfSeq DEF Fit

LEMMA IndicesIn ==
  ASSUME NEW t
  PROVE  /\ \A f \in FieldOf(t) : f.oldIndex \in 0..t.cols
         /\ \A r \in RowOf(t) : r.oldIndex \in 0..Len(t.rows)
  BY DEF FieldOf, RowOf

LEMMA ReadIs ==
  ASSUME Files, Contents, NEW i \in 1..Len(rows), NEW fs \in Seq(FieldOf(File))
  PROVE  LET rw == ReadRecord(i, fs)
         IN  /\ rw \in RowOf(File)
             /\ rw.row = NULL <=> rows[i].row = NULL /\ dbfHandle = NULL
             /\ rows[i].row # NULL \/ dbfHandle = NULL => rw = rows[i]
             /\ rows[i].row = NULL /\ dbfHandle # NULL =>
                  /\ Len(rw.row) = Len(fs)
                  /\ \A j \in 1..Len(fs) :
                       rw.row[j] = IF fs[j].oldIndex = 0 THEN NULL
                                   ELSE IF rows[i].oldIndex = 0 THEN Empty
                                   ELSE File.rows[rows[i].oldIndex][fs[j].oldIndex]
  <1>. DEFINE rw == ReadRecord(i, fs)
             r == [j \in 1..Len(fs) |-> IF fs[j].oldIndex = 0 THEN NULL
                     ELSE IF rows[i].oldIndex = 0 THEN Empty
                     ELSE File.rows[rows[i].oldIndex][fs[j].oldIndex]]
  <1>1. rows[i] \in RowOf(File)
    BY FitIs DEF Contents
  <1>2. CASE rows[i].row # NULL \/ dbfHandle = NULL
    <2>1. rw = rows[i]
      BY <1>2 DEF ReadRecord
    <2>. HIDE DEF rw
    <2>. QED
      BY <1>1, <1>2, <2>1 DEF rw
  <1>3. CASE rows[i].row = NULL /\ dbfHandle # NULL
    <2>1. Len(fs) \in Nat /\ DOMAIN fs = 1..Len(fs) /\ \A j \in 1..Len(fs) : fs[j] \in FieldOf(File)
      BY LenProperties, ElementOfSeq
    <2>2. rw = [rows[i] EXCEPT !.row = r, !.status = "clean"]
      BY <1>3, <2>1 DEF ReadRecord, File
    <2>3. \A j \in 1..Len(fs) : r[j] \in Cell
      <3>1. SUFFICES ASSUME NEW j \in 1..Len(fs), fs[j].oldIndex # 0, rows[i].oldIndex # 0
                     PROVE  File.rows[rows[i].oldIndex][fs[j].oldIndex] \in Cell
        BY DEF Cell
      <3>2. /\ rows[i].oldIndex \in 1..Len(File.rows) /\ fs[j].oldIndex \in 1..File.cols
            /\ File.cols \in Nat /\ File.rows \in Seq(Record(File.cols))
        BY <1>1, <2>1, <3>1, FileIs, IndicesIn
      <3>3. File.rows[rows[i].oldIndex] \in Record(File.cols)
        BY <3>2, ElementOfSeq
      <3>. QED
        BY <3>2, <3>3 DEF Record, Cell
    <2>4. r \in Seq(Cell) /\ Len(r) = Len(fs)
      <3>1. r \in [1..Len(fs) -> Cell]
        BY <2>3
      <3>. HIDE DEF r
      <3>. QED
        BY <2>1, <3>1, IsASeq
    <2>5. r # NULL
      BY <2>4, TableAssumption DEF Cell
    <2>6. /\ rw \in RowOf(File) /\ rw.row = r
      <3>. HIDE DEF r
      <3>. QED
        BY <1>1, <2>2, <2>4 DEF RowOf, Status
    <2>7. \A j \in 1..Len(fs) : r[j] = IF fs[j].oldIndex = 0 THEN NULL
                     ELSE IF rows[i].oldIndex = 0 THEN Empty
                     ELSE File.rows[rows[i].oldIndex][fs[j].oldIndex]
      OBVIOUS
    <2>. HIDE DEF r, rw
    <2>. QED
      BY <1>3, <2>4, <2>5, <2>6, <2>7 DEF rw
  <1>. QED
    BY <1>2, <1>3

(* Fields and rows as far as they are read.                                *)
LEMMA CellIs ==
  ASSUME Files, Contents, NEW i \in 1..Len(rows), NEW j \in 1..Len(fields)
  PROVE  CellValue(i, j) \in Value \cup {Empty}
  <1>. DEFINE rw == ReadRecord(i, fields)
  <1>1. /\ fields \in Seq(FieldOf(File)) /\ rows[i] \in RowOf(File) /\ Len(fields) \in Nat
        /\ rows[i].row # NULL => Len(rows[i].row) >= Len(fields)
    BY FitIs DEF Contents, Fit, RowFits
  <1>2. /\ rw \in RowOf(File)
        /\ rw.row # NULL => rw = rows[i] \/ Len(rw.row) = Len(fields)
    BY <1>1, ReadIs
  <1>. HIDE DEF rw
  <1>3. ASSUME rw.row # NULL PROVE rw.row[j] \in Cell
    <2>1. rw.row \in Seq(Cell)
      BY <1>2, <1>3 DEF RowOf
    <2>2. Len(rw.row) \in Nat /\ Len(rw.row) >= Len(fields)
      BY <1>1, <1>2, <1>3, <2>1, LenProperties
    <2>3. j \in 1..Len(rw.row)
      BY <1>1, <2>2
    <2>. QED
      BY <2>1, <2>3, ElementOfSeq
  <1>4. CellValue(i, j) = IF rw.row = NULL THEN Empty ELSE IF rw.row[j] = NULL THEN Empty ELSE rw.row[j]
    BY DEF CellValue, rw
  <1>. QED
    BY <1>3, <1>4 DEF Cell

(* In a table that is aligned all of a row is there.                       *)
LEMMA RowIs ==
  ASSUME Files, Contents, InLine(fields, rows), NEW i \in 1..Len(rows)
  PROVE  LET r == ReadRecord(i, fields).row
         IN  /\ r # NULL /\ r \in Seq(Cell) /\ Len(r) = Len(fields)
             /\ \A j \in 1..Len(fields) : r[j] # NULL /\ CellValue(i, j) = r[j]
  <1>. DEFINE rw == ReadRecord(i, fields)
             r == rw.row
  <1>1. /\ fields \in Seq(FieldOf(File)) /\ rows[i] \in RowOf(File) /\ Len(fields) \in Nat
        /\ \A j \in 1..Len(fields) : fields[j] \in FieldOf(File)
    BY FitIs DEF Contents
  <1>2. /\ rw \in RowOf(File)
        /\ rw.row = NULL <=> rows[i].row = NULL /\ dbfHandle = NULL
        /\ rows[i].row # NULL \/ dbfHandle = NULL => rw = rows[i]
        /\ rows[i].row = NULL /\ dbfHandle # NULL =>
             /\ Len(rw.row) = Len(fields)
             /\ \A j \in 1..Len(fields) :
                  rw.row[j] = IF fields[j].oldIndex = 0 THEN NULL
                              ELSE IF rows[i].oldIndex = 0 THEN Empty
                              ELSE File.rows[rows[i].oldIndex][fields[j].oldIndex]
    BY <1>1, ReadIs
  <1>3. \A j \in 1..Len(fields) : CellValue(i, j) = IF r = NULL THEN Empty ELSE IF r[j] = NULL THEN Empty ELSE r[j]
    BY DEF CellValue
  <1>. HIDE DEF rw
  <1>4. CASE rows[i].row # NULL
    <2>1. rw = rows[i] /\ Len(r) = Len(fields) /\ \A j \in 1..Len(fields) : r[j] # NULL
      BY <1>2, <1>4 DEF InLine, RowInLine
    <2>. QED
      BY <1>1, <1>3, <1>4, <2>1 DEF RowOf, rw
  <1>5. CASE rows[i].row = NULL
    <2>1. rows[i].oldIndex > 0 /\ \A j \in 1..Len(fields) : fields[j].oldIndex > 0
      BY <1>5 DEF InLine, RowInLine
    <2>2. rows[i].oldIndex \in 1..Len(File.rows) /\ \A j \in 1..Len(fields) : fields[j].oldIndex \in 1..File.cols
      BY <1>1, <2>1, FileIs, IndicesIn
    <2>3. dbfHandle # NULL
      <3>1. dbfHandle = NULL => Len(File.rows) = 0
        BY FileIs
      <3>. QED
        BY <2>2, <3>1
    <2>4. /\ Len(r) = Len(fields) /\ r # NULL
          /\ \A j \in 1..Len(fields) : r[j] = File.rows[rows[i].oldIndex][fields[j].oldIndex]
      <3>1. rows[i].oldIndex # 0 /\ \A j \in 1..Len(fields) : fields[j].oldIndex # 0
        BY <2>2
      <3>. QED
        BY <1>2, <1>5, <2>3, <3>1
    <2>5. r \in Seq(Cell)
      BY <1>2, <2>4 DEF RowOf
    <2>6. \A j \in 1..Len(fields) : r[j] # NULL
      <3>1. File.rows[rows[i].oldIndex] \in Record(File.cols) /\ File.cols \in Nat
        BY <2>2, FileIs, ElementOfSeq
      <3>2. \A k \in 1..File.cols : File.rows[rows[i].oldIndex][k] # NULL
        BY <3>1, RecordIs
      <3>. QED
        BY <2>2, <2>4, <3>2
    <2>. QED
      BY <1>3, <2>4, <2>5, <2>6 DEF rw
  <1>. QED
    BY <1>4, <1>5

-----------------------------------------------------------------------------
(* Loading.                                                                *)

LEMMA Reloaded ==
  ASSUME NEW t \in Table \cup {NoTable}, LoadDefault_fields(t), LoadDefault_rows(t)
  PROVE  /\ Fit(t, fields', rows') /\ AsLoaded(t, fields', rows') /\ InLine(fields', rows')
         /\ Len(fields') = t.cols
  <1>. DEFINE fs == [j \in 1..t.cols |-> [oldIndex |-> j, isUpdated |-> TRUE]]
             rs == [i \in 1..Len(t.rows) |-> [row |-> NULL, status |-> "clean", oldIndex |-> i]]
  <1>1. /\ t.cols \in Nat /\ t.cols <= MaxFields /\ Len(t.rows) \in Nat /\ Len(t.rows) <= MaxRows
        /\ DOMAIN t.rows = 1..Len(t.rows)
    <2>1. CASE t = NoTable
      <3>1. t.cols = 0 /\ t.rows = <<>> /\ Len(t.rows) = 0 /\ DOMAIN t.rows = {} /\ 1..0 = {}
        BY <2>1 DEF NoTable
      <3>. QED
        BY <3>1, TableAssumption
    <2>2. CASE t \in Table
      <3>1. /\ t.cols \in 0..MaxFields /\ t.rows \in Seq(Record(t.cols))
            /\ Len(t.rows) <= MaxRows
        BY <2>2, TableIs
      <3>. QED
        BY <3>1, LenProperties, TableAssumption
    <2>. QED
      BY <2>1, <2>2
  <1>2. fields' = fs /\ rows' = rs
    BY <1>1 DEF LoadDefault_fields, LoadDefault_rows
  <1>3. fs \in [1..t.cols -> FieldOf(t)] /\ rs \in [1..Len(t.rows) -> RowOf(t)]
    BY <1>1 DEF FieldOf, RowOf, Status
  <1>4. /\ \A j \in 1..t.cols : fs[j].oldIndex = j
        /\ \A i \in 1..Len(t.rows) : rs[i].row = NULL /\ rs[i].oldIndex = i
    OBVIOUS
  <1>. HIDE DEF fs, rs
  <1>5. fs \in Seq(FieldOf(t)) /\ Len(fs) = t.cols /\ rs \in Seq(RowOf(t)) /\ Len(rs) = Len(t.rows)
    BY <1>1, <1>3, IsASeq
  <1>6. \A j \in 1..t.cols : j > 0
    BY <1>1
  <1>7. \A i \in 1..Len(t.rows) : i > 0
    BY <1>1
  <1>8. Fit(t, fs, rs)
    BY <1>1, <1>4, <1>5 DEF Fit, RowFits
  <1>9. AsLoaded(t, fs, rs)
    BY <1>4, <1>5 DEF AsLoaded
  <1>10. InLine(fs, rs)
    BY <1>4, <1>5, <1>6, <1>7 DEF InLine, RowInLine
  <1>. QED
    BY <1>2, <1>5, <1>8, <1>9, <1>10

LEMMA LoadStep ==
  ASSUME disk' \in [Name -> Table \cup {NULL}], NEW n \in Name \cup {NULL}, OpenFile(n),
         isEditingTable' \in BOOLEAN, needToSaveAsNewFile' \in BOOLEAN, fault' = FALSE
  PROVE  /\ IInv' /\ AsLoaded(File, fields, rows)'
         /\ dumped' = FALSE
         /\ n # NULL /\ disk'[n] # NULL => dbfHandle' = n /\ filename' = n
         /\ n = NULL \/ disk'[n] = NULL => dbfHandle' = NULL /\ filename' = NULL
  <1>1. PICK t \in Table \cup {NoTable} : t = File' /\ Reload(t)
    <2>1. CASE n # NULL /\ disk'[n] # NULL
      BY <2>1 DEF OpenFile, File
    <2>2. CASE ~(n # NULL /\ disk'[n] # NULL)
      <3>1. dbfHandle' = NULL /\ Reload(NoTable)
        BY <2>2 DEF OpenFile
      <3>2. File' = NoTable
        BY <3>1 DEF File, NoTable
      <3>. QED
        BY <3>1, <3>2
    <2>. QED
      BY <2>1, <2>2
  <1>2. Fit(t, fields', rows') /\ AsLoaded(t, fields', rows') /\ InLine(fields', rows')
        /\ Len(fields') = t.cols
    BY <1>1, Reloaded DEF Reload
  <1>3. dumped' = FALSE /\ edits' = 0
    BY <1>1 DEF Reload
  <1>4. Files'
    BY DEF OpenFile, Files
  <1>5. Flags'
    <2>1. edits' \in 0..MaxEdits
      BY <1>3, TableAssumption
    <2>. QED
      BY <1>3, <2>1, Zenon DEF Flags
  <1>6. Contents' /\ Structure' /\ Untouched' /\ AsLoaded(File, fields, rows)'
    BY <1>1, <1>2 DEF Contents, Structure, Untouched
  <1>7. /\ n # NULL /\ disk'[n] # NULL => dbfHandle' = n /\ filename' = n
        /\ n = NULL \/ disk'[n] = NULL => dbfHandle' = NULL /\ filename' = NULL
    BY DEF OpenFile
  <1>. QED
    BY <1>3, <1>4, <1>5, <1>6, <1>7 DEF IInv

(* A table that has not been touched shows what is in the file.            *)
LEMMA UntouchedIsInLine ==
  ASSUME Files, NEW fs, NEW rs, AsLoaded(File, fs, rs)
  PROVE  InLine(fs, rs)
  <1>1. /\ Len(fs) = File.cols /\ \A j \in 1..Len(fs) : fs[j].oldIndex = j
        /\ Len(rs) = Len(File.rows)
        /\ \A i \in 1..Len(rs) : rs[i].oldIndex = i /\ (rs[i].row = NULL \/ rs[i].row = File.rows[i])
    BY DEF AsLoaded
  <1>2. File.cols \in Nat /\ File.rows \in Seq(Record(File.cols)) /\ Len(File.rows) \in Nat
    BY FileIs
  <1>3. (\A j \in 1..Len(fs) : j > 0) /\ (\A i \in 1..Len(rs) : i > 0)
    BY <1>1, <1>2
  <1>4. \A i \in 1..Len(rs) : /\ Len(File.rows[i]) = Len(fs)
                              /\ \A j \in 1..Len(fs) : File.rows[i][j] # NULL
    <2>1. \A i \in 1..Len(rs) : File.rows[i] \in Record(File.cols)
      BY <1>1, <1>2, ElementOfSeq
    <2>. QED
      BY <1>1, <1>2, <2>1, RecordIs
  <1>. QED
    BY <1>1, <1>3, <1>4 DEF InLine, RowInLine

LEMMA UntouchedShows ==
  ASSUME Files, Contents, AsLoaded(File, fields, rows)
  PROVE  Shown = File
  <1>1. InLine(fields, rows)
    BY UntouchedIsInLine
  <1>2. /\ Len(fields) = File.cols /\ \A j \in 1..Len(fields) : fields[j].oldIndex = j
        /\ Len(rows) = Len(File.rows)
        /\ \A i \in 1..Len(rows) : rows[i].oldIndex = i /\ (rows[i].row = NULL \/ rows[i].row = File.rows[i])
    BY DEF AsLoaded
  <1>3. /\ File.cols \in Nat /\ File.rows \in Seq(Record(File.cols)) /\ Len(File.rows) \in Nat
        /\ File = [cols |-> File.cols, rows |-> File.rows]
        /\ dbfHandle = NULL => Len(File.rows) = 0
    BY FileIs
  <1>4. /\ DOMAIN fields = 1..File.cols /\ DOMAIN rows = 1..Len(File.rows)
        /\ fields \in Seq(FieldOf(File))
    BY <1>2, FitIs DEF Contents
  <1>5. ASSUME NEW i \in 1..Len(File.rows)
        PROVE  [j \in 1..File.cols |-> CellValue(i, j)] = File.rows[i]
    <2>. DEFINE rw == ReadRecord(i, fields)
    <2>1. i \in 1..Len(rows) /\ i > 0 /\ dbfHandle # NULL
      BY <1>2, <1>3
    <2>2. File.rows[i] \in [1..File.cols -> Value \cup {Empty}]
      BY <1>3, ElementOfSeq DEF Record
    <2>3. \A j \in 1..Len(fields) : CellValue(i, j) = rw.row[j]
      BY <1>1, <2>1, RowIs
    <2>4. \A j \in 1..Len(fields) : rw.row[j] = File.rows[i][j]
      <3>1. CASE rows[i].row = NULL
        <4>1. \A j \in 1..Len(fields) : j # 0 /\ fields[j].oldIndex = j
          BY <1>2, <1>3
        <4>2. \A j \in 1..Len(fields) :
                rw.row[j] = IF fields[j].oldIndex = 0 THEN NULL
                            ELSE IF rows[i].oldIndex = 0 THEN Empty
                            ELSE File.rows[rows[i].oldIndex][fields[j].oldIndex]
          BY <1>4, <2>1, <3>1, ReadIs
        <4>3. rows[i].oldIndex = i /\ i # 0
          BY <1>2, <2>1
        <4>. HIDE DEF rw
        <4>. QED
          BY <4>1, <4>2, <4>3
      <3>2. CASE rows[i].row # NULL
        BY <1>2, <1>4, <2>1, <3>2, ReadIs
      <3>. QED
        BY <3>1, <3>2
    <2>. HIDE DEF rw
    <2>. QED
      BY <1>2, <2>2, <2>3, <2>4
  <1>6. File.rows = [i \in 1..Len(File.rows) |-> File.rows[i]]
    BY <1>3, LenProperties
  <1>7. Shown = [cols |-> File.cols,
                 rows |-> [i \in 1..Len(File.rows) |-> [j \in 1..File.cols |-> CellValue(i, j)]]]
    BY <1>2, <1>4 DEF Shown
  <1>8. [i \in 1..Len(File.rows) |-> [j \in 1..File.cols |-> CellValue(i, j)]]
          = [i \in 1..Len(File.rows) |-> File.rows[i]]
    BY <1>5
  <1>. QED
    BY <1>3, <1>6, <1>7, <1>8

-----------------------------------------------------------------------------
(* What a step does to rows and fields, while the file stays as it is.     *)

LEMMA EditKeeps ==
  ASSUME IInv, UNCHANGED <<disk, dbfHandle, filename, dumped>>, Flags',
         Fit(File, fields', rows'), ~dumped => ~fault' /\ InLine(fields', rows'),
         isEditingTable, isEditingTable',
         needToSaveAsNewFile' \/ (needToSaveAsNewFile' = needToSaveAsNewFile /\ Len(fields') = Len(fields))
  PROVE  IInv'
  <1>1. File' = File
    BY DEF File
  <1>2. Files'
    BY DEF IInv, Files
  <1>3. Contents'
    BY <1>1 DEF Contents, IInv, Flags
  <1>4. Structure'
    BY <1>1 DEF Structure, IInv
  <1>. QED
    BY <1>2, <1>3, <1>4 DEF IInv, Untouched

(* One row is changed, put in, or taken out.                               *)
LEMMA RowChanged ==
  ASSUME NEW t, NEW fs, NEW rs, Fit(t, fs, rs), NEW i \in 1..Len(rs),
         NEW r \in RowOf(t), RowFits(r, fs)
  PROVE  /\ Fit(t, fs, [rs EXCEPT ![i] = r])
         /\ InLine(fs, rs) /\ RowInLine(r, fs) => InLine(fs, [rs EXCEPT ![i] = r])
         /\ Len([rs EXCEPT ![i] = r]) = Len(rs) /\ DOMAIN [rs EXCEPT ![i] = r] = 1..Len(rs)
         /\ \A k \in 1..Len(rs) : [rs EXCEPT ![i] = r][k] = IF k = i THEN r ELSE rs[k]
  <1>. DEFINE q == [rs EXCEPT ![i] = r]
  <1>1. Len(rs) \in Nat /\ DOMAIN rs = 1..Len(rs) /\ rs \in Seq(RowOf(t))
        /\ \A k \in 1..Len(rs) : rs[k] \in RowOf(t)
    BY FitIs
  <1>2. rs \in [1..Len(rs) -> RowOf(t)]
    BY <1>1, LenProperties
  <1>3. q \in [1..Len(rs) -> RowOf(t)] /\ \A k \in 1..Len(rs) : q[k] = IF k = i THEN r ELSE rs[k]
    BY <1>2
  <1>. HIDE DEF q
  <1>4. q \in Seq(RowOf(t)) /\ Len(q) = Len(rs) /\ DOMAIN q = 1..Len(rs)
    BY <1>1, <1>3, IsASeq
  <1>5. Fit(t, fs, q)
    BY <1>3, <1>4 DEF Fit
  <1>6. InLine(fs, rs) /\ RowInLine(r, fs) => InLine(fs, q)
    BY <1>3, <1>4 DEF InLine
  <1>. QED
    BY <1>3, <1>4, <1>5, <1>6 DEF q

LEMMA RowPut ==
  ASSUME NEW t, NEW fs, NEW rs, Fit(t, fs, rs), Len(rs) < MaxRows, NEW i \in 1..Len(rs) + 1,
         NEW r \in RowOf(t), RowFits(r, fs)
  PROVE  /\ Fit(t, fs, InsertAt(rs, i, r)) /\ IsWith(InsertAt(rs, i, r), rs, i, r)
         /\ InLine(fs, rs) /\ RowInLine(r, fs) => InLine(fs, InsertAt(rs, i, r))
         /\ DOMAIN InsertAt(rs, i, r) = 1..Len(rs) + 1
  <1>1. Len(rs) \in Nat /\ rs \in Seq(RowOf(t))
    BY FitIs
  <1>2. PICK q \in Seq(RowOf(t)) : q = InsertAt(rs, i, r) /\ IsWith(q, rs, i, r)
    BY <1>1, InsertedAt
  <1>3. Len(q) = Len(rs) + 1 /\ DOMAIN q = 1..Len(rs) + 1
        /\ \A k \in 1..Len(rs) + 1 :
             q[k] = IF k < i THEN rs[k] ELSE IF k = i THEN r ELSE rs[k - 1]
    BY <1>2, LenProperties DEF IsWith
  <1>4. \A k \in 1..Len(rs) + 1 : q[k] = r \/ \E m \in 1..Len(rs) : q[k] = rs[m]
    <2>1. \A k \in 1..Len(rs) + 1 : \/ k < i /\ k \in 1..Len(rs)
                                    \/ k = i
                                    \/ ~(k < i) /\ k # i /\ k - 1 \in 1..Len(rs)
      BY <1>1
    <2>. QED
      BY <1>3, <2>1
  <1>5. Fit(t, fs, q)
    <2>1. \A k \in 1..Len(q) : RowFits(q[k], fs)
      BY <1>3, <1>4 DEF Fit
    <2>2. Len(q) <= MaxRows
      BY <1>1, <1>3, TableAssumption
    <2>. QED
      BY <2>1, <2>2 DEF Fit
  <1>6. InLine(fs, rs) /\ RowInLine(r, fs) => InLine(fs, q)
    BY <1>3, <1>4 DEF InLine
  <1>. QED
    BY <1>2, <1>3, <1>5, <1>6

LEMMA RowTaken ==
  ASSUME NEW t, NEW fs, NEW rs, Fit(t, fs, rs), NEW i \in 1..Len(rs)
  PROVE  /\ Fit(t, fs, RemoveAt(rs, i)) /\ DOMAIN RemoveAt(rs, i) = 1..Len(rs) - 1
         /\ InLine(fs, rs) => InLine(fs, RemoveAt(rs, i))
         /\ \A k \in 1..Len(rs) - 1 : RemoveAt(rs, i)[k] = IF k < i THEN rs[k] ELSE rs[k + 1]
  <1>1. Len(rs) \in Nat /\ rs \in Seq(RowOf(t))
    BY FitIs
  <1>2. PICK q \in Seq(RowOf(t)) : q = RemoveAt(rs, i) /\ Len(q) = Len(rs) - 1
          /\ \A k \in 1..Len(rs) - 1 : q[k] = IF k < i THEN rs[k] ELSE rs[k + 1]
    BY <1>1, RemovedAt
  <1>3. DOMAIN q = 1..Len(rs) - 1
    BY <1>2, LenProperties
  <1>4. \A k \in 1..Len(rs) - 1 : \E m \in 1..Len(rs) : q[k] = rs[m]
    <2>1. \A k \in 1..Len(rs) - 1 : k \in 1..Len(rs) /\ k + 1 \in 1..Len(rs)
      BY <1>1
    <2>. QED
      BY <1>2, <2>1
  <1>5. Fit(t, fs, q)
    <2>1. \A k \in 1..Len(q) : RowFits(q[k], fs)
      BY <1>2, <1>4 DEF Fit
    <2>2. Len(q) <= MaxRows
      BY <1>1, <1>2, TableAssumption DEF Fit
    <2>. QED
      BY <2>1, <2>2 DEF Fit
  <1>6. InLine(fs, rs) => InLine(fs, q)
    BY <1>2, <1>4 DEF InLine
  <1>. QED
    BY <1>2, <1>3, <1>5, <1>6

(* What a row is once it has been read.                                    *)
LEMMA RowRead ==
  ASSUME Files, Contents, NEW i \in 1..Len(rows)
  PROVE  LET rw == ReadRecord(i, fields)
         IN  /\ rw \in RowOf(File) /\ RowFits(rw, fields)
             /\ ~dumped => RowInLine(rw, fields)
             /\ rw.row # NULL => rw.row \in Seq(Cell) /\ Len(rw.row) >= Len(fields)
  <1>. DEFINE rw == ReadRecord(i, fields)
  <1>1. fields \in Seq(FieldOf(File)) /\ Len(fields) \in Nat
    BY FitIs DEF Contents
  <1>2. RowFits(rows[i], fields)
    BY DEF Contents, Fit
  <1>3. /\ rw \in RowOf(File)
        /\ rw = rows[i] \/ Len(rw.row) = Len(fields)
    BY <1>1, ReadIs
  <1>4. ~dumped => RowInLine(rw, fields)
    BY RowIs DEF Contents, RowInLine
  <1>. HIDE DEF rw
  <1>5. RowFits(rw, fields)
    BY <1>1, <1>2, <1>3 DEF RowFits
  <1>. QED
    BY <1>3, <1>4, <1>5 DEF RowFits, RowOf, rw

-----------------------------------------------------------------------------
(* What is shown.                                                          *)

ShownWell ==
  LET m == Len(fields)
      n == Len(rows)
  IN  /\ m \in 0..MaxFields /\ n \in 0..MaxRows /\ m \in Nat /\ n \in Nat
      /\ Shown = [cols |-> m, rows |-> Shown.rows] /\ Shown.cols = m
      /\ Shown.rows \in Seq(Record(m)) /\ Len(Shown.rows) = n /\ DOMAIN Shown.rows = 1..n
      /\ \A i \in 1..n : /\ Shown.rows[i] \in Record(m)
                         /\ \A j \in 1..m : Shown.rows[i][j] = CellValue(i, j)
      /\ DOMAIN fields = 1..m /\ DOMAIN rows = 1..n

LEMMA ShownIs == Files /\ Contents => ShownWell
  <1>. SUFFICES ASSUME Files, Contents PROVE ShownWell
    OBVIOUS
  <1>. DEFINE m == Len(fields)
             n == Len(rows)
             R == [i \in 1..n |-> [j \in 1..m |-> CellValue(i, j)]]
  <1>1. m \in Nat /\ n \in Nat /\ DOMAIN fields = 1..m /\ DOMAIN rows = 1..n
        /\ m \in 0..MaxFields /\ n \in 0..MaxRows
    BY FitIs, TableAssumption DEF Contents, Fit
  <1>2. Shown = [cols |-> m, rows |-> R]
    BY <1>1 DEF Shown
  <1>3. \A i \in 1..n : [j \in 1..m |-> CellValue(i, j)] \in Record(m)
    BY CellIs DEF Record
  <1>4. R \in [1..n -> Record(m)] /\ \A i \in 1..n : R[i] \in Record(m)
    BY <1>3
  <1>5. \A i \in 1..n : \A j \in 1..m : R[i][j] = CellValue(i, j)
    OBVIOUS
  <1>. HIDE DEF R, m, n
  <1>6. R \in Seq(Record(m)) /\ Len(R) = n /\ DOMAIN R = 1..n
    BY <1>1, <1>4, IsASeq
  <1>7. Shown.rows = R /\ Shown.cols = m
    BY <1>2
  <1>. QED
    BY <1>1, <1>2, <1>4, <1>5, <1>6, <1>7 DEF ShownWell, m, n

LEMMA RecordsEqual ==
  ASSUME NEW c, NEW r \in Record(c), NEW s \in Record(c), \A j \in 1..c : r[j] = s[j]
  PROVE  r = s
  <1>1. r = [j \in 1..c |-> r[j]] /\ s = [j \in 1..c |-> s[j]]
    BY DEF Record
  <1>2. [j \in 1..c |-> r[j]] = [j \in 1..c |-> s[j]]
    OBVIOUS
  <1>. QED
    BY <1>1, <1>2

(* The value of a cell depends on its row, its field, and the file.        *)
LEMMA CellAlike ==
  ASSUME UNCHANGED <<disk, dbfHandle>>, fields' = fields, NEW k, NEW m, rows'[k] = rows[m], NEW j
  PROVE  CellValue(k, j)' = CellValue(m, j)
  BY DEF CellValue, ReadRecord

LEMMA CellCached ==
  ASSUME NEW k, NEW r, rows'[k].row = r, r # NULL, NEW j
  PROVE  CellValue(k, j)' = IF r[j] = NULL THEN Empty ELSE r[j]
  BY DEF CellValue, ReadRecord

-----------------------------------------------------------------------------
(* The edits of rows and cells.                                            *)

LEMMA InsertRowKeeps ==
  ASSUME IInv, NEW i \in 1..Len(rows) + 1, EditInsertRow(i)
  PROVE  IInv' /\ Shown' = [Shown EXCEPT !.rows = InsertAt(@, i, [j \in 1..Shown.cols |-> Empty])]
  <1>. DEFINE m == Len(fields)
             n == Len(rows)
             blank == [j \in 1..m |-> Empty]
             new == [row |-> blank, status |-> "inserted", oldIndex |-> 0]
  <1>1. ShownWell
    BY ShownIs DEF IInv
  <1>2. /\ m \in Nat /\ n \in Nat /\ DOMAIN fields = 1..m /\ DOMAIN rows = 1..n
        /\ n < MaxRows /\ rows' = InsertAt(rows, i, new) /\ fields' = fields
    BY <1>1 DEF ShownWell, EditInsertRow
  <1>3. blank \in Seq(Cell) /\ Len(blank) = m /\ blank \in Record(m)
    <2>1. blank \in Record(m)
      BY DEF Record
    <2>. QED
      BY <1>2, <2>1, RecordIs
  <1>4. blank # NULL /\ \A j \in 1..m : blank[j] = Empty /\ Empty # NULL
    BY <1>3, TableAssumption DEF Cell
  <1>. HIDE DEF blank
  <1>5. new \in RowOf(File) /\ RowFits(new, fields) /\ RowInLine(new, fields)
    <2>1. 0 \in 0..Len(File.rows) /\ m >= m
      BY <1>2, FileIs DEF IInv
    <2>. QED
      BY <1>3, <1>4, <2>1 DEF RowOf, Status, RowFits, RowInLine
  <1>6. new.row = blank
    OBVIOUS
  <1>. HIDE DEF new
  <1>7. /\ Fit(File, fields, rows') /\ IsWith(rows', rows, i, new) /\ DOMAIN rows' = 1..n + 1
        /\ InLine(fields, rows) => InLine(fields, rows')
    BY <1>2, <1>5, RowPut DEF IInv, Contents
  <1>8. IInv'
    <2>1. /\ UNCHANGED <<disk, dbfHandle, filename, dumped, isEditingTable, fault>>
          /\ isEditingTable /\ needToSaveAsNewFile' = TRUE /\ edits' = edits + 1 /\ edits < MaxEdits
      BY DEF EditInsertRow, Edit
    <2>2. edits' \in 0..MaxEdits
      BY <2>1, TableAssumption DEF IInv, Flags
    <2>3. Flags'
      BY <2>1, <2>2 DEF IInv, Flags
    <2>4. ~dumped => ~fault' /\ InLine(fields', rows')
      BY <1>2, <1>7, <2>1 DEF IInv, Contents
    <2>. QED
      BY <1>2, <1>7, <2>1, <2>3, <2>4, EditKeeps
  <1>9. ShownWell'
    BY <1>8, ShownIs, PTL DEF IInv
  <1>10. PICK T \in Seq(Record(m)) : T = Shown'.rows /\ IsWith(T, Shown.rows, i, blank)
    <2>1. Len(rows') = n + 1
      BY <1>7 DEF IsWith
    <2>2. PICK T \in Seq(Record(m)) : T = Shown'.rows /\ Len(T) = n + 1
            /\ \A k \in 1..n + 1 : T[k] \in Record(m) /\ \A j \in 1..m : T[k][j] = CellValue(k, j)'
      BY <1>2, <1>9, <2>1 DEF ShownWell
    <2>3. \A k \in 1..n + 1 : rows'[k] = IF k < i THEN rows[k] ELSE IF k = i THEN new ELSE rows[k - 1]
      BY <1>7 DEF IsWith
    <2>4. UNCHANGED <<disk, dbfHandle>>
      BY DEF EditInsertRow, Edit
    <2>5. ASSUME NEW k \in 1..n + 1, NEW l \in 1..n, rows'[k] = rows[l]
          PROVE  T[k] = Shown.rows[l]
      <3>1. \A j \in 1..m : CellValue(k, j)' = CellValue(l, j)
        BY <1>2, <2>4, <2>5, CellAlike
      <3>2. Shown.rows[l] \in Record(m) /\ \A j \in 1..m : Shown.rows[l][j] = CellValue(l, j)
        BY <1>1 DEF ShownWell
      <3>3. T[k] \in Record(m) /\ \A j \in 1..m : T[k][j] = Shown.rows[l][j]
        BY <2>2, <3>1, <3>2
      <3>. QED
        BY <3>2, <3>3, RecordsEqual
    <2>6. T[i] = blank
      <3>1. rows'[i].row = blank
        BY <1>2, <1>6, <2>3
      <3>2. \A j \in 1..m : CellValue(i, j)' = Empty
        BY <1>4, <3>1, CellCached
      <3>. QED
        BY <1>3, <1>4, <2>2, <3>2, RecordsEqual
    <2>7. \A k \in 1..n + 1 : T[k] = IF k < i THEN Shown.rows[k] ELSE IF k = i THEN blank ELSE Shown.rows[k - 1]
      <3>1. \A k \in 1..n + 1 : \/ k < i /\ k \in 1..n
                                \/ k = i /\ ~(k < i)
                                \/ ~(k < i) /\ k # i /\ k - 1 \in 1..n
        BY <1>2
      <3>. QED
        BY <2>3, <2>5, <2>6, <3>1
    <2>. QED
      BY <1>1, <2>2, <2>7 DEF IsWith, ShownWell
  <1>11. /\ InsertAt(Shown.rows, i, blank) \in Seq(Record(m))
         /\ IsWith(InsertAt(Shown.rows, i, blank), Shown.rows, i, blank)
    <2>1. Shown.rows \in Seq(Record(m)) /\ i \in 1..Len(Shown.rows) + 1
      BY <1>1 DEF ShownWell
    <2>. QED
      BY <1>3, <2>1, InsertedAt
  <1>12. Shown'.rows = InsertAt(Shown.rows, i, blank)
    <2>1. Shown.rows \in Seq(Record(m))
      BY <1>1 DEF ShownWell
    <2>. QED
      BY <1>10, <1>11, <2>1, IsWithUnique
  <1>13. Shown' = [cols |-> m, rows |-> InsertAt(Shown.rows, i, blank)]
    BY <1>2, <1>9, <1>12 DEF ShownWell
  <1>14. Shown = [cols |-> m, rows |-> Shown.rows] /\ Shown.cols = m
    BY <1>1 DEF ShownWell
  <1>15. blank = [j \in 1..Shown.cols |-> Empty]
    BY <1>14 DEF blank
  <1>. QED
    BY <1>8, <1>13, <1>14, <1>15

LEMMA DeleteRowKeeps ==
  ASSUME IInv, NEW i \in 1..Len(rows), EditDeleteRow(i)
  PROVE  IInv' /\ Shown' = [Shown EXCEPT !.rows = RemoveAt(@, i)]
  <1>. DEFINE m == Len(fields)
             n == Len(rows)
  <1>1. ShownWell
    BY ShownIs DEF IInv
  <1>2. /\ m \in Nat /\ n \in Nat /\ DOMAIN fields = 1..m
        /\ rows' = RemoveAt(rows, i) /\ fields' = fields
    BY <1>1 DEF ShownWell, EditDeleteRow
  <1>3. /\ Fit(File, fields, rows') /\ DOMAIN rows' = 1..n - 1
        /\ InLine(fields, rows) => InLine(fields, rows')
        /\ \A k \in 1..n - 1 : rows'[k] = IF k < i THEN rows[k] ELSE rows[k + 1]
    BY <1>2, RowTaken DEF IInv, Contents
  <1>4. IInv'
    <2>1. /\ UNCHANGED <<disk, dbfHandle, filename, dumped, isEditingTable, fault>>
          /\ isEditingTable /\ needToSaveAsNewFile' = TRUE /\ edits' = edits + 1 /\ edits < MaxEdits
      BY DEF EditDeleteRow, Edit
    <2>2. edits' \in 0..MaxEdits
      BY <2>1, TableAssumption DEF IInv, Flags
    <2>3. Flags'
      BY <2>1, <2>2 DEF IInv, Flags
    <2>4. ~dumped => ~fault' /\ InLine(fields', rows')
      BY <1>2, <1>3, <2>1 DEF IInv, Contents
    <2>. QED
      BY <1>2, <1>3, <2>1, <2>3, <2>4, EditKeeps
  <1>5. ShownWell'
    BY <1>4, ShownIs, PTL DEF IInv
  <1>6. Shown'.rows = RemoveAt(Shown.rows, i)
    <2>1. Len(rows') = n - 1
      BY <1>2, <1>3, <1>4, FitIs DEF IInv, Contents
    <2>2. PICK T \in Seq(Record(m)) : T = Shown'.rows /\ Len(T) = n - 1
            /\ \A k \in 1..n - 1 : T[k] \in Record(m) /\ \A j \in 1..m : T[k][j] = CellValue(k, j)'
      BY <1>2, <1>5, <2>1 DEF ShownWell
    <2>3. UNCHANGED <<disk, dbfHandle>>
      BY DEF EditDeleteRow, Edit
    <2>4. ASSUME NEW k \in 1..n - 1, NEW l \in 1..n, rows'[k] = rows[l]
          PROVE  T[k] = Shown.rows[l]
      <3>1. \A j \in 1..m : CellValue(k, j)' = CellValue(l, j)
        BY <1>2, <2>3, <2>4, CellAlike
      <3>2. Shown.rows[l] \in Record(m) /\ \A j \in 1..m : Shown.rows[l][j] = CellValue(l, j)
        BY <1>1 DEF ShownWell
      <3>3. T[k] \in Record(m) /\ \A j \in 1..m : T[k][j] = Shown.rows[l][j]
        BY <2>2, <3>1, <3>2
      <3>. QED
        BY <3>2, <3>3, RecordsEqual
    <2>5. \A k \in 1..n - 1 : T[k] = IF k < i THEN Shown.rows[k] ELSE Shown.rows[k + 1]
      <3>1. \A k \in 1..n - 1 : k \in 1..n /\ k + 1 \in 1..n
        BY <1>2
      <3>. QED
        BY <1>3, <2>4, <3>1
    <2>6. PICK U \in Seq(Record(m)) : U = RemoveAt(Shown.rows, i) /\ Len(U) = n - 1
            /\ \A k \in 1..n - 1 : U[k] = IF k < i THEN Shown.rows[k] ELSE Shown.rows[k + 1]
      <3>1. PICK s \in Seq(Record(m)) : s = Shown.rows /\ Len(s) = n
        BY <1>1 DEF ShownWell
      <3>2. i \in 1..Len(s)
        BY <3>1
      <3>3. /\ RemoveAt(s, i) \in Seq(Record(m)) /\ Len(RemoveAt(s, i)) = Len(s) - 1
            /\ \A k \in 1..Len(s) - 1 : RemoveAt(s, i)[k] = IF k < i THEN s[k] ELSE s[k + 1]
        BY <3>2, RemovedAt
      <3>. QED
        BY <3>1, <3>3
    <2>7. T = U
      BY <2>2, <2>5, <2>6, SeqEqual
    <2>. QED
      BY <2>2, <2>6, <2>7
  <1>7. Shown' = [cols |-> m, rows |-> RemoveAt(Shown.rows, i)]
    BY <1>2, <1>5, <1>6 DEF ShownWell
  <1>8. Shown = [cols |-> m, rows |-> Shown.rows]
    BY <1>1 DEF ShownWell
  <1>. QED
    BY <1>4, <1>7, <1>8

(* A row that is read of a table that is as it was loaded.                 *)
LEMMA ReadsItsRecord ==
  ASSUME Files, Contents, AsLoaded(File, fields, rows), NEW i \in 1..Len(rows)
  PROVE  LET rw == ReadRecord(i, fields)
         IN  rw.row = File.rows[i] /\ rw.oldIndex = i
  <1>. DEFINE m == Len(fields)
             rw == ReadRecord(i, fields)
  <1>1. ShownWell /\ m \in Nat
    BY ShownIs DEF ShownWell
  <1>2. Shown = File /\ InLine(fields, rows)
    BY UntouchedShows, UntouchedIsInLine
  <1>3. rw.row \in Seq(Cell) /\ Len(rw.row) = m /\ \A j \in 1..m : rw.row[j] = File.rows[i][j]
    <2>1. rw.row \in Seq(Cell) /\ Len(rw.row) = m /\ \A j \in 1..m : rw.row[j] = CellValue(i, j)
      BY <1>2, RowIs
    <2>2. \A j \in 1..m : File.rows[i][j] = CellValue(i, j)
      BY <1>1, <1>2 DEF ShownWell
    <2>. QED
      BY <2>1, <2>2
  <1>4. File.rows[i] \in Seq(Cell) /\ Len(File.rows[i]) = m
    <2>1. File.rows[i] \in Record(m)
      BY <1>1, <1>2 DEF ShownWell
    <2>. QED
      BY <1>1, <2>1, RecordIs
  <1>5. rw.row = File.rows[i]
    <2>. HIDE DEF rw
    <2>. QED
      BY <1>3, <1>4, SeqEqual
  <1>6. rw.oldIndex = i
    <2>1. rows[i] \in RowOf(File) /\ rows[i].oldIndex = i
      BY FitIs DEF Contents, AsLoaded
    <2>. QED
      BY <2>1 DEF ReadRecord, RowOf
  <1>. QED
    BY <1>5, <1>6

(* Reading a row changes nothing that is seen.                             *)
LEMMA ReadKeeps ==
  ASSUME IInv, NEW i \in 1..Len(rows), get_CellValue(i)
  PROVE  IInv' /\ Shown' = Shown
  <1>. DEFINE m == Len(fields)
             n == Len(rows)
             rw == ReadRecord(i, fields)
  <1>1. ShownWell
    BY ShownIs DEF IInv
  <1>2. /\ m \in Nat /\ n \in Nat /\ DOMAIN fields = 1..m
        /\ rows' = [rows EXCEPT ![i] = rw]
        /\ UNCHANGED <<disk, dbfHandle, filename, isEditingTable, needToSaveAsNewFile, fields,
                       edits, dumped, fault>>
    BY <1>1 DEF ShownWell, get_CellValue
  <1>3. /\ rw \in RowOf(File) /\ RowFits(rw, fields) /\ (~dumped => RowInLine(rw, fields))
    BY RowRead DEF IInv
  <1>4. /\ Fit(File, fields, rows')
        /\ InLine(fields, rows) /\ RowInLine(rw, fields) => InLine(fields, rows')
        /\ Len(rows') = n /\ DOMAIN rows' = 1..n
        /\ \A k \in 1..n : rows'[k] = IF k = i THEN rw ELSE rows[k]
    <2>1. PICK r \in RowOf(File) : r = rw /\ RowFits(r, fields)
      BY <1>3
    <2>. HIDE DEF rw
    <2>2. Fit(File, fields, rows)
      BY DEF IInv, Contents
    <2>3. /\ Fit(File, fields, [rows EXCEPT ![i] = r])
          /\ InLine(fields, rows) /\ RowInLine(r, fields) => InLine(fields, [rows EXCEPT ![i] = r])
          /\ Len([rows EXCEPT ![i] = r]) = Len(rows) /\ DOMAIN [rows EXCEPT ![i] = r] = 1..Len(rows)
          /\ \A k \in 1..Len(rows) : [rows EXCEPT ![i] = r][k] = IF k = i THEN r ELSE rows[k]
      BY <2>1, <2>2, RowChanged
    <2>. QED
      BY <1>2, <2>1, <2>3
  <1>5. File' = File
    BY <1>2 DEF File
  <1>6. Files' /\ Flags' /\ Contents' /\ Structure'
    <2>1. Files'
      BY <1>2 DEF IInv, Files
    <2>2. Flags'
      BY <1>2 DEF IInv, Flags
    <2>3. Contents'
      BY <1>2, <1>3, <1>4, <1>5 DEF IInv, Contents
    <2>4. Structure'
      BY <1>2, <1>5 DEF IInv, Structure
    <2>. QED
      BY <2>1, <2>2, <2>3, <2>4
  <1>7. Untouched'
    <2>1. SUFFICES ASSUME AsLoaded(File, fields, rows)
                   PROVE  AsLoaded(File, fields, rows')
      BY <1>2, <1>5 DEF IInv, Untouched
    <2>2. rw.row = File.rows[i] /\ rw.oldIndex = i
      BY <2>1, ReadsItsRecord DEF IInv
    <2>. HIDE DEF rw
    <2>. QED
      BY <1>4, <2>1, <2>2 DEF AsLoaded
  <1>8. IInv'
    BY <1>6, <1>7 DEF IInv
  <1>9. ShownWell'
    BY <1>8, ShownIs, PTL DEF IInv
  <1>10. ASSUME NEW k \in 1..n, NEW j \in 1..m PROVE CellValue(k, j)' = CellValue(k, j)
    <2>1. CASE k # i
      BY <1>2, <1>4, <2>1, CellAlike
    <2>2. CASE k = i
      <3>1. rows'[i] = rw /\ fields \in Seq(FieldOf(File))
        BY <1>4, FitIs DEF IInv, Contents
      <3>2. CASE rw.row = NULL
        <4>1. rw = rows[i]
          BY <3>1, <3>2, ReadIs DEF IInv
        <4>. QED
          BY <1>2, <2>2, <3>1, <4>1, CellAlike
      <3>3. CASE rw.row # NULL
        <4>1. CellValue(i, j)' = IF rw.row[j] = NULL THEN Empty ELSE rw.row[j]
          BY <3>1, <3>3, CellCached
        <4>2. CellValue(i, j) = IF rw.row[j] = NULL THEN Empty ELSE rw.row[j]
          BY <3>3 DEF CellValue
        <4>. QED
          BY <2>2, <4>1, <4>2
      <3>. QED
        BY <3>2, <3>3
    <2>. QED
      BY <2>1, <2>2
  <1>11. Shown'.rows = Shown.rows
    <2>1. PICK T \in Seq(Record(m)) : T = Shown'.rows /\ Len(T) = n
            /\ \A k \in 1..n : T[k] \in Record(m) /\ \A j \in 1..m : T[k][j] = CellValue(k, j)'
      BY <1>2, <1>4, <1>9 DEF ShownWell
    <2>2. /\ Shown.rows \in Seq(Record(m)) /\ Len(Shown.rows) = n
          /\ \A k \in 1..n : Shown.rows[k] \in Record(m) /\ \A j \in 1..m : Shown.rows[k][j] = CellValue(k, j)
      BY <1>1 DEF ShownWell
    <2>3. \A k \in 1..n : T[k] = Shown.rows[k]
      <3>1. \A k \in 1..n : \A j \in 1..m : T[k][j] = Shown.rows[k][j]
        BY <1>10, <2>1, <2>2
      <3>. QED
        BY <2>1, <2>2, <3>1, RecordsEqual
    <2>. QED
      BY <2>1, <2>2, <2>3, SeqEqual
  <1>. QED
    BY <1>1, <1>2, <1>8, <1>9, <1>11 DEF ShownWell

LEMMA EditCellKeeps ==
  ASSUME IInv, NEW i \in 1..Len(rows), NEW j \in 1..Len(fields), NEW v \in Value \cup {Empty},
         EditCellValue(i, j, v)
  PROVE  IInv' /\ (dumped \/ Shown' = [Shown EXCEPT !.rows[i][j] = v])
  <1>. DEFINE m == Len(fields)
             n == Len(rows)
             rw == ReadRecord(i, fields)
             s == rw.row
             w == [s EXCEPT ![j] = v]
             r == IF s = NULL THEN rw ELSE [rw EXCEPT !.row = w, !.status = "modified"]
  <1>1. ShownWell
    BY ShownIs DEF IInv
  <1>2. /\ m \in Nat /\ n \in Nat /\ DOMAIN fields = 1..m
        /\ rows' = [rows EXCEPT ![i] = r]
        /\ UNCHANGED <<disk, dbfHandle, filename, isEditingTable, needToSaveAsNewFile, fields,
                       dumped, fault>>
        /\ isEditingTable /\ edits' = edits + 1 /\ edits < MaxEdits
    <2>1. [rw EXCEPT !.row = w, !.status = "modified"] = [rw EXCEPT !.row[j] = v, !.status = "modified"]
      OBVIOUS
    <2>. QED
      BY <1>1, <2>1 DEF ShownWell, EditCellValue, Edit
  <1>3. /\ rw \in RowOf(File) /\ RowFits(rw, fields) /\ (~dumped => RowInLine(rw, fields))
        /\ s # NULL => s \in Seq(Cell) /\ Len(s) >= m
    BY RowRead DEF IInv
  <1>4. v \in Cell /\ v # NULL
    BY TableAssumption DEF Cell
  <1>. HIDE DEF rw
  <1>5. ASSUME s # NULL
        PROVE  /\ w \in Seq(Cell) /\ Len(w) = Len(s) /\ w # NULL
               /\ \A k \in 1..m : w[k] = IF k = j THEN v ELSE s[k]
    <2>1. s \in Seq(Cell) /\ Len(s) \in Nat /\ Len(s) >= m
      BY <1>3, <1>5, LenProperties
    <2>2. j \in 1..Len(s) /\ \A k \in 1..m : k \in 1..Len(s)
      BY <1>2, <2>1
    <2>. HIDE DEF s
    <2>3. w \in Seq(Cell) /\ Len(w) = Len(s) /\ \A k \in 1..Len(s) : w[k] = IF k = j THEN v ELSE s[k]
      BY <1>4, <2>1, <2>2, ExceptSeq
    <2>. QED
      BY <2>2, <2>3, TableAssumption DEF Cell
  <1>. HIDE DEF w
  <1>6. /\ r \in RowOf(File) /\ r.row = IF s = NULL THEN NULL ELSE w
    BY <1>3, <1>5 DEF RowOf, Status
  <1>7. RowFits(r, fields)
    BY <1>2, <1>3, <1>5, <1>6 DEF RowFits
  <1>8. ~dumped => RowInLine(r, fields) /\ (s # NULL => Len(s) = m)
    <2>1. CASE s = NULL
      BY <1>3, <2>1
    <2>2. CASE s # NULL
      BY <1>3, <1>4, <1>5, <1>6, <2>2 DEF RowInLine
    <2>. QED
      BY <2>1, <2>2
  <1>. HIDE DEF r
  <1>9. /\ Fit(File, fields, rows')
        /\ InLine(fields, rows) /\ RowInLine(r, fields) => InLine(fields, rows')
        /\ Len(rows') = n /\ DOMAIN rows' = 1..n
        /\ \A k \in 1..n : rows'[k] = IF k = i THEN r ELSE rows[k]
    <2>1. Fit(File, fields, rows)
      BY DEF IInv, Contents
    <2>2. /\ Fit(File, fields, [rows EXCEPT ![i] = r])
          /\ InLine(fields, rows) /\ RowInLine(r, fields) => InLine(fields, [rows EXCEPT ![i] = r])
          /\ Len([rows EXCEPT ![i] = r]) = Len(rows) /\ DOMAIN [rows EXCEPT ![i] = r] = 1..Len(rows)
          /\ \A k \in 1..Len(rows) : [rows EXCEPT ![i] = r][k] = IF k = i THEN r ELSE rows[k]
      BY <1>6, <1>7, <2>1, RowChanged
    <2>. QED
      BY <1>2, <2>2
  <1>10. IInv'
    <2>1. edits' \in 0..MaxEdits
      BY <1>2, TableAssumption DEF IInv, Flags
    <2>2. Flags'
      BY <1>2, <2>1 DEF IInv, Flags
    <2>3. ~dumped => ~fault' /\ InLine(fields', rows')
      BY <1>2, <1>8, <1>9 DEF IInv, Contents
    <2>. QED
      BY <1>2, <1>9, <2>2, <2>3, EditKeeps
  <1>11. ShownWell'
    BY <1>10, ShownIs, PTL DEF IInv
  <1>12. ASSUME ~dumped
         PROVE  /\ s # NULL
                /\ \A k \in 1..n : \A l \in 1..m :
                     CellValue(k, l)' = IF k = i /\ l = j THEN v ELSE CellValue(k, l)
    <2>1. /\ s # NULL /\ \A l \in 1..m : s[l] # NULL /\ CellValue(i, l) = s[l]
      BY <1>12, RowIs DEF IInv, Contents, rw
    <2>2. \A l \in 1..m : CellValue(i, l)' = IF w[l] = NULL THEN Empty ELSE w[l]
      <3>1. rows'[i].row = w /\ w # NULL
        BY <1>5, <1>6, <1>9, <2>1
      <3>. QED
        BY <3>1, CellCached
    <2>3. \A l \in 1..m : CellValue(i, l)' = IF l = j THEN v ELSE CellValue(i, l)
      BY <1>4, <1>5, <2>1, <2>2
    <2>4. \A k \in 1..n : k # i => \A l \in 1..m : CellValue(k, l)' = CellValue(k, l)
      BY <1>2, <1>9, CellAlike
    <2>. QED
      BY <2>1, <2>3, <2>4
  <1>13. ASSUME ~dumped
         PROVE  Shown'.rows = [Shown.rows EXCEPT ![i] = [Shown.rows[i] EXCEPT ![j] = v]]
    <2>. DEFINE x == [Shown.rows[i] EXCEPT ![j] = v]
               U == [Shown.rows EXCEPT ![i] = x]
    <2>1. PICK T \in Seq(Record(m)) : T = Shown'.rows /\ Len(T) = n
            /\ \A k \in 1..n : T[k] \in Record(m) /\ \A l \in 1..m : T[k][l] = CellValue(k, l)'
      BY <1>2, <1>9, <1>11 DEF ShownWell
    <2>2. /\ Shown.rows \in Seq(Record(m)) /\ Len(Shown.rows) = n
          /\ \A k \in 1..n : Shown.rows[k] \in Record(m) /\ \A l \in 1..m : Shown.rows[k][l] = CellValue(k, l)
      BY <1>1 DEF ShownWell
    <2>3. x \in Record(m) /\ \A l \in 1..m : x[l] = IF l = j THEN v ELSE Shown.rows[i][l]
      BY <2>2 DEF Record
    <2>. HIDE DEF x
    <2>4. U \in Seq(Record(m)) /\ Len(U) = n /\ \A k \in 1..n : U[k] = IF k = i THEN x ELSE Shown.rows[k]
      BY <2>2, <2>3, ExceptSeq
    <2>5. T[i] = x
      <3>1. \A l \in 1..m : T[i][l] = x[l]
        BY <1>12, <1>13, <2>1, <2>2, <2>3
      <3>. QED
        BY <2>1, <2>3, <3>1, RecordsEqual
    <2>6. \A k \in 1..n : k # i => T[k] = Shown.rows[k]
      <3>1. \A k \in 1..n : k # i => \A l \in 1..m : T[k][l] = Shown.rows[k][l]
        BY <1>12, <1>13, <2>1, <2>2
      <3>. QED
        BY <2>1, <2>2, <3>1, RecordsEqual
    <2>7. T = U
      <3>1. \A k \in 1..n : T[k] = U[k]
        BY <2>4, <2>5, <2>6
      <3>. HIDE DEF U
      <3>. QED
        BY <2>1, <2>4, <3>1, SeqEqual
    <2>. QED
      BY <2>1, <2>7 DEF x
  <1>14. ~dumped => Shown' = [cols |-> m, rows |-> [Shown.rows EXCEPT ![i] = [Shown.rows[i] EXCEPT ![j] = v]]]
    BY <1>2, <1>11, <1>13 DEF ShownWell
  <1>15. Shown = [cols |-> m, rows |-> Shown.rows]
    BY <1>1 DEF ShownWell
  <1>16. [Shown EXCEPT !.rows[i][j] = v]
           = [cols |-> m, rows |-> [Shown.rows EXCEPT ![i] = [Shown.rows[i] EXCEPT ![j] = v]]]
    BY <1>15
  <1>. QED
    BY <1>10, <1>14, <1>16

-----------------------------------------------------------------------------
(* The edits of fields.                                                    *)

(* Rows that are given value by value are what is shown.                   *)
LEMMA ShownAre ==
  ASSUME ShownWell', NEW m, m = Len(fields'), NEW n, n = Len(rows'),
         NEW U, U = [i \in 1..n |-> U[i]],
         \A i \in 1..n : /\ U[i] \in Seq(Cell) /\ Len(U[i]) = m
                         /\ \A l \in 1..m : U[i][l] = CellValue(i, l)'
  PROVE  Shown' = [cols |-> m, rows |-> U]
  <1>1. PICK T \in Seq(Record(m)) : /\ T = Shown'.rows /\ Len(T) = n /\ DOMAIN T = 1..n
          /\ m \in Nat /\ Shown' = [cols |-> m, rows |-> T]
          /\ \A i \in 1..n : T[i] \in Record(m) /\ \A l \in 1..m : T[i][l] = CellValue(i, l)'
    BY DEF ShownWell
  <1>2. ASSUME NEW i \in 1..n PROVE T[i] = U[i]
    <2>1. T[i] \in Seq(Cell) /\ Len(T[i]) = m
      BY <1>1, RecordIs
    <2>2. \A l \in 1..m : T[i][l] = U[i][l]
      BY <1>1
    <2>. QED
      BY <2>1, <2>2, SeqEqual
  <1>3. T = [i \in 1..n |-> T[i]]
    BY <1>1, LenProperties
  <1>4. T = U
    BY <1>2, <1>3
  <1>. QED
    BY <1>1, <1>4

(* In a table that is aligned every row can be read.                       *)
LEMMA AllReadable == IInv /\ ~dumped => ~Unreadable
  <1>1. SUFFICES ASSUME IInv, ~dumped, NEW i \in 1..Len(rows), rows[i].row = NULL, dbfHandle = NULL
                 PROVE  FALSE
    BY FitIs DEF Unreadable, IInv, Contents
  <1>2. Files /\ Contents /\ InLine(fields, rows)
    BY <1>1 DEF IInv, Contents
  <1>3. ReadRecord(i, fields).row # NULL
    BY <1>1, <1>2, RowIs
  <1>4. ReadRecord(i, fields).row = NULL
    <2>1. fields \in Seq(FieldOf(File))
      BY <1>2, FitIs DEF Contents
    <2>. QED
      BY <1>1, <1>2, <2>1, ReadIs
  <1>. QED
    BY <1>3, <1>4

(* A row that is read after the fields have changed.                       *)
LEMMA CellReread ==
  ASSUME UNCHANGED <<disk, dbfHandle>>, NEW fs, fields' = fs, NEW i, rows'[i] = rows[i], NEW l
  PROVE  CellValue(i, l)' = LET row == ReadRecord(i, fs).row
                            IN  IF row = NULL THEN Empty ELSE IF row[l] = NULL THEN Empty ELSE row[l]
  BY DEF CellValue, ReadRecord

LEMMA FieldTaken ==
  ASSUME IInv, NEW j \in 1..Len(fields)
  PROVE  LET fs == RemoveAt(fields, j)
         IN  /\ fs \in Seq(FieldOf(File)) /\ Len(fs) = Len(fields) - 1 /\ Len(fs) \in Nat
             /\ \A l \in 1..Len(fields) - 1 : fs[l] = IF l < j THEN fields[l] ELSE fields[l + 1]
  <1>. DEFINE fs == RemoveAt(fields, j)
             m == Len(fields)
  <1>1. m \in Nat /\ fields \in Seq(FieldOf(File)) /\ m - 1 \in Nat
    BY FitIs DEF IInv, Contents
  <1>2. /\ fs \in Seq(FieldOf(File)) /\ Len(fs) = m - 1
        /\ \A l \in 1..m - 1 : fs[l] = IF l < j THEN fields[l] ELSE fields[l + 1]
    BY <1>1, RemovedAt
  <1>. QED
    BY <1>1, <1>2

(* One row, when a field is deleted: as it is, and as it is read then.     *)
Left(i, j) ==
  IF rows[i].row # NULL /\ rows[i].row[j] # NULL
    THEN [rows[i] EXCEPT !.row = RemoveAt(@, j)] ELSE rows[i]

LeftRead(i, j) == IF Left(i, j).row = NULL THEN ReadRecord(i, RemoveAt(fields, j)) ELSE Left(i, j)

LEMMA ValueDeleted ==
  ASSUME IInv, NEW i \in 1..Len(rows), NEW j \in 1..Len(fields)
  PROVE  LET fs == RemoveAt(fields, j)
             d  == Left(i, j)
         IN  /\ d \in RowOf(File) /\ RowFits(d, fs)
             /\ d.row = NULL => d = rows[i]
             /\ RowInLine(rows[i], fields) => RowInLine(d, fs)
             /\ RowInLine(rows[i], fields) /\ d.row # NULL =>
                  /\ d.row \in Seq(Cell) /\ Len(d.row) = Len(fields) - 1
                  /\ \A l \in 1..Len(fields) - 1 :
                       d.row[l] = IF l < j THEN rows[i].row[l] ELSE rows[i].row[l + 1]
  <1>. DEFINE fs == RemoveAt(fields, j)
             m == Len(fields)
             s == rows[i].row
             q == RemoveAt(s, j)
             d == Left(i, j)
  <1>1. /\ m \in Nat /\ rows[i] \in RowOf(File) /\ RowFits(rows[i], fields)
    BY FitIs DEF IInv, Contents, Fit
  <1>2. /\ Len(fs) = m - 1
        /\ \A l \in 1..m - 1 : fs[l] = IF l < j THEN fields[l] ELSE fields[l + 1]
    BY FieldTaken
  <1>. HIDE DEF fs
  <1>3. CASE s # NULL /\ s[j] # NULL
    <2>1. s \in Seq(Cell) /\ Len(s) \in Nat /\ Len(s) >= m
      BY <1>1, <1>3, LenProperties DEF RowOf, RowFits
    <2>2. j \in 1..Len(s)
      BY <1>1, <2>1
    <2>3. /\ q \in Seq(Cell) /\ Len(q) = Len(s) - 1
          /\ \A l \in 1..Len(s) - 1 : q[l] = IF l < j THEN s[l] ELSE s[l + 1]
      <3>. HIDE DEF s
      <3>. QED
        BY <2>1, <2>2, RemovedAt
    <2>4. d = [rows[i] EXCEPT !.row = q]
      BY <1>3 DEF Left
    <2>. HIDE DEF q, d
    <2>5. d \in RowOf(File) /\ d.row = q /\ q # NULL
      BY <1>1, <2>3, <2>4, TableAssumption DEF RowOf, Status, Cell
    <2>6. RowFits(d, fs)
      BY <1>1, <1>2, <2>1, <2>3, <2>5 DEF RowFits
    <2>7. ASSUME RowInLine(rows[i], fields)
          PROVE  /\ Len(q) = m - 1
                 /\ \A l \in 1..m - 1 : q[l] # NULL /\ q[l] = IF l < j THEN s[l] ELSE s[l + 1]
      <3>1. Len(s) = m /\ \A l \in 1..m : s[l] # NULL
        BY <1>3, <2>7 DEF RowInLine
      <3>2. \A l \in 1..m - 1 : l \in 1..m /\ l + 1 \in 1..m
        BY <1>1
      <3>. HIDE DEF s
      <3>. QED
        BY <2>3, <3>1, <3>2
    <2>8. RowInLine(rows[i], fields) => RowInLine(d, fs)
      BY <1>2, <2>5, <2>7 DEF RowInLine
    <2>. QED
      BY <2>3, <2>5, <2>6, <2>7, <2>8 DEF d, fs
  <1>4. CASE s # NULL /\ s[j] = NULL
    <2>1. d = rows[i]
      BY <1>4 DEF Left
    <2>2. ~RowInLine(rows[i], fields)
      BY <1>4 DEF RowInLine
    <2>3. RowFits(d, fs)
      <3>1. Len(s) \in Nat /\ Len(s) >= m
        BY <1>1, <1>4, LenProperties DEF RowOf, RowFits
      <3>. QED
        BY <1>1, <1>2, <2>1, <3>1 DEF RowFits
    <2>. HIDE DEF d
    <2>. QED
      BY <1>1, <1>4, <2>1, <2>2, <2>3 DEF d, fs
  <1>5. CASE s = NULL
    <2>1. d = rows[i]
      BY <1>5 DEF Left
    <2>2. RowFits(d, fs)
      BY <1>5, <2>1 DEF RowFits
    <2>3. RowInLine(rows[i], fields) => RowInLine(d, fs)
      <3>1. SUFFICES ASSUME RowInLine(rows[i], fields) PROVE \A l \in 1..m - 1 : fs[l].oldIndex > 0
        BY <1>2, <1>5, <2>1 DEF RowInLine
      <3>2. \A l \in 1..m : fields[l].oldIndex > 0
        BY <1>5, <3>1 DEF RowInLine
      <3>3. \A l \in 1..m - 1 : l \in 1..m /\ l + 1 \in 1..m
        BY <1>1
      <3>. QED
        BY <1>2, <3>2, <3>3
    <2>. HIDE DEF d
    <2>. QED
      BY <1>1, <1>5, <2>1, <2>2, <2>3 DEF d, fs
  <1>. QED
    BY <1>3, <1>4, <1>5

(* What is left of a row that is aligned is what was shown in the others.  *)
LEMMA LeftIs ==
  ASSUME IInv, NEW i \in 1..Len(rows), NEW j \in 1..Len(fields)
  PROVE  LET fs == RemoveAt(fields, j)
             x  == LeftRead(i, j)
         IN  /\ x \in RowOf(File) /\ RowFits(x, fs)
             /\ x.row = NULL => rows[i].row = NULL /\ dbfHandle = NULL
             /\ ~dumped => /\ x.row \in Seq(Cell) /\ x.row # NULL /\ Len(x.row) = Len(fields) - 1
                           /\ RowInLine(x, fs)
                           /\ \A l \in 1..Len(fields) - 1 :
                                /\ x.row[l] # NULL
                                /\ x.row[l] = CellValue(i, IF l < j THEN l ELSE l + 1)
  <1>. DEFINE fs == RemoveAt(fields, j)
             m == Len(fields)
             d == Left(i, j)
             x == LeftRead(i, j)
             rw == ReadRecord(i, fields)
             at(l) == IF l < j THEN l ELSE l + 1
  <1>1. /\ fs \in Seq(FieldOf(File)) /\ Len(fs) = m - 1 /\ m \in Nat /\ m - 1 \in Nat
        /\ \A l \in 1..m - 1 : fs[l] = fields[at(l)]
        /\ fields \in Seq(FieldOf(File)) /\ Files /\ Contents
    BY FieldTaken, FitIs DEF IInv, Contents
  <1>2. /\ d \in RowOf(File) /\ RowFits(d, fs)
        /\ d.row = NULL => d = rows[i]
        /\ RowInLine(rows[i], fields) => RowInLine(d, fs)
        /\ RowInLine(rows[i], fields) /\ d.row # NULL =>
             /\ d.row \in Seq(Cell) /\ Len(d.row) = m - 1
             /\ \A l \in 1..m - 1 : d.row[l] = rows[i].row[at(l)]
    BY ValueDeleted
  <1>3. \A l \in 1..m - 1 : at(l) \in 1..m
    BY <1>1
  <1>4. d.row # NULL => rows[i].row # NULL
    BY DEF Left
  <1>5. ~dumped => /\ RowInLine(rows[i], fields) /\ InLine(fields, rows)
                   /\ \A l \in 1..m : rw.row[l] # NULL /\ CellValue(i, l) = rw.row[l]
    <2>1. ~dumped => InLine(fields, rows)
      BY <1>1 DEF Contents
    <2>. QED
      BY <1>1, <2>1, RowIs DEF InLine
  <1>. HIDE DEF fs, d, at
  <1>6. CASE d.row # NULL
    <2>1. x = d
      BY <1>6 DEF LeftRead, d
    <2>2. rw = rows[i]
      BY <1>1, <1>4, <1>6, ReadIs
    <2>. HIDE DEF x, rw
    <2>3. ASSUME ~dumped
          PROVE  /\ d.row \in Seq(Cell) /\ Len(d.row) = m - 1 /\ RowInLine(d, fs)
                 /\ \A l \in 1..m - 1 : d.row[l] # NULL /\ d.row[l] = CellValue(i, at(l))
      BY <1>2, <1>3, <1>5, <1>6, <2>2, <2>3
    <2>. QED
      BY <1>2, <1>6, <2>1, <2>3 DEF x, fs, at
  <1>7. CASE d.row = NULL
    <2>1. x = ReadRecord(i, fs) /\ rows[i].row = NULL
      BY <1>2, <1>7 DEF LeftRead, d, fs
    <2>2. /\ x \in RowOf(File)
          /\ x.row = NULL <=> rows[i].row = NULL /\ dbfHandle = NULL
          /\ rows[i].row # NULL \/ dbfHandle = NULL => x = rows[i]
          /\ dbfHandle # NULL =>
               /\ Len(x.row) = Len(fs)
               /\ \A l \in 1..Len(fs) :
                    x.row[l] = IF fs[l].oldIndex = 0 THEN NULL
                               ELSE IF rows[i].oldIndex = 0 THEN Empty
                               ELSE File.rows[rows[i].oldIndex][fs[l].oldIndex]
      BY <1>1, <2>1, ReadIs
    <2>3. /\ rw.row = NULL <=> dbfHandle = NULL
          /\ dbfHandle # NULL =>
               /\ Len(rw.row) = Len(fields)
               /\ \A l \in 1..Len(fields) :
                    rw.row[l] = IF fields[l].oldIndex = 0 THEN NULL
                                ELSE IF rows[i].oldIndex = 0 THEN Empty
                                ELSE File.rows[rows[i].oldIndex][fields[l].oldIndex]
      BY <1>1, <2>1, ReadIs
    <2>. HIDE DEF x
    <2>4. ASSUME ~dumped
          PROVE  /\ dbfHandle # NULL /\ x.row \in Seq(Cell) /\ x.row # NULL /\ Len(x.row) = m - 1
                 /\ \A l \in 1..m - 1 : x.row[l] # NULL /\ x.row[l] = CellValue(i, at(l))
      <3>1. rw.row # NULL
        BY <1>1, <1>5, <2>4, RowIs
      <3>2. dbfHandle # NULL
        BY <2>3, <3>1
      <3>3. x.row \in Seq(Cell) /\ x.row # NULL /\ Len(x.row) = m - 1
        BY <1>1, <2>1, <2>2, <3>2 DEF RowOf
      <3>. HIDE DEF rw
      <3>4. \A l \in 1..m - 1 : x.row[l] = rw.row[at(l)]
        BY <1>1, <1>3, <2>2, <2>3, <3>2
      <3>. QED
        BY <1>3, <1>5, <2>4, <3>2, <3>3, <3>4
    <2>5. RowFits(x, fs)
      <3>1. x.row # NULL => Len(x.row) = m - 1
        BY <1>1, <2>1, <2>2
      <3>. QED
        BY <1>1, <3>1 DEF RowFits
    <2>6. ~dumped => RowInLine(x, fs)
      BY <1>1, <2>4 DEF RowInLine
    <2>. QED
      BY <2>1, <2>2, <2>4, <2>5, <2>6 DEF x, fs, at
  <1>. QED
    BY <1>6, <1>7

LEMMA RowsMade ==
  ASSUME IInv, NEW fs \in Seq(FieldOf(File)), Len(fs) <= MaxFields,
         NEW R, R = [i \in 1..Len(rows) |-> R[i]],
         \A i \in 1..Len(rows) : R[i] \in RowOf(File) /\ RowFits(R[i], fs)
  PROVE  /\ Fit(File, fs, R) /\ Len(R) = Len(rows) /\ DOMAIN R = 1..Len(rows)
         /\ (\A i \in 1..Len(rows) : RowInLine(R[i], fs)) => InLine(fs, R)
  <1>1. Len(rows) \in Nat /\ Len(rows) <= MaxRows
    BY FitIs DEF IInv, Contents, Fit
  <1>2. R \in [1..Len(rows) -> RowOf(File)]
    OBVIOUS
  <1>3. R \in Seq(RowOf(File)) /\ Len(R) = Len(rows) /\ DOMAIN R = 1..Len(rows)
    BY <1>1, <1>2, IsASeq
  <1>. QED
    BY <1>1, <1>3 DEF Fit, InLine

(* A row that has been read gets an empty value at j.                      *)
With(rw, j) == [rw EXCEPT !.row = InsertAt(@, j, Empty)]

LEMMA ValueInserted ==
  ASSUME IInv, NEW fs \in Seq(FieldOf(File)), NEW gs, Len(gs) = Len(fs) + 1,
         NEW rw \in RowOf(File), rw.row # NULL, RowFits(rw, fs), NEW j \in 1..Len(fs) + 1
  PROVE  LET r == With(rw, j)
         IN  /\ r \in RowOf(File) /\ RowFits(r, gs)
             /\ r.row \in Seq(Cell) /\ r.row # NULL
             /\ RowInLine(rw, fs) =>
                  /\ RowInLine(r, gs) /\ Len(r.row) = Len(fs) + 1
                  /\ \A l \in 1..Len(fs) + 1 :
                       r.row[l] = IF l < j THEN rw.row[l] ELSE IF l = j THEN Empty ELSE rw.row[l - 1]
  <1>. DEFINE s == rw.row
             q == InsertAt(s, j, Empty)
             r == With(rw, j)
             m == Len(fs)
  <1>1. m \in Nat /\ s \in Seq(Cell) /\ Len(s) \in Nat /\ Len(s) >= m /\ Empty \in Cell /\ Empty # NULL
    BY LenProperties, TableAssumption DEF RowOf, RowFits, Cell
  <1>2. q \in Seq(Cell) /\ IsWith(q, s, j, Empty)
    <2>1. j \in 1..Len(s) + 1
      BY <1>1
    <2>. HIDE DEF s
    <2>. QED
      BY <1>1, <2>1, InsertedAt
  <1>3. r = [rw EXCEPT !.row = q]
    BY DEF With
  <1>. HIDE DEF q, r
  <1>4. r \in RowOf(File) /\ r.row = q /\ q # NULL
    BY <1>2, <1>3, TableAssumption DEF RowOf, Status, Cell
  <1>5. Len(q) = Len(s) + 1
    BY <1>2 DEF IsWith
  <1>6. RowFits(r, gs)
    BY <1>1, <1>4, <1>5 DEF RowFits
  <1>7. ASSUME RowInLine(rw, fs)
        PROVE  /\ Len(q) = m + 1
               /\ \A l \in 1..m + 1 : /\ q[l] # NULL
                                      /\ q[l] = IF l < j THEN s[l] ELSE IF l = j THEN Empty ELSE s[l - 1]
    <2>1. Len(s) = m /\ \A l \in 1..m : s[l] # NULL
      BY <1>7 DEF RowInLine
    <2>2. \A l \in 1..m + 1 : q[l] = IF l < j THEN s[l] ELSE IF l = j THEN Empty ELSE s[l - 1]
      BY <1>2, <2>1 DEF IsWith
    <2>3. \A l \in 1..m + 1 : (l < j /\ l \in 1..m) \/ l = j \/ (l > j /\ l - 1 \in 1..m)
      BY <1>1
    <2>4. \A l \in 1..m + 1 : q[l] # NULL
      BY <1>1, <2>1, <2>2, <2>3
    <2>. QED
      BY <1>5, <2>1, <2>2, <2>4
  <1>8. RowInLine(rw, fs) => RowInLine(r, gs)
    BY <1>4, <1>7 DEF RowInLine
  <1>. QED
    BY <1>2, <1>4, <1>6, <1>7, <1>8 DEF r

LEMMA InsertFieldKeeps ==
  ASSUME IInv, NEW j \in 1..Len(fields) + 1, EditInsertField(j)
  PROVE  /\ IInv'
         /\ dumped \/ Shown' = [cols |-> Shown.cols + 1,
                                rows |-> [i \in DOMAIN Shown.rows |-> InsertAt(Shown.rows[i], j, Empty)]]
  <1>. DEFINE m == Len(fields)
             n == Len(rows)
             rd(i) == ReadRecord(i, fields)
  <1>1. ShownWell
    BY ShownIs DEF IInv
  <1>2. /\ m \in Nat /\ n \in Nat /\ DOMAIN rows = 1..n /\ DOMAIN fields = 1..m
        /\ fields \in Seq(FieldOf(File)) /\ m < MaxFields
        /\ UNCHANGED <<disk, dbfHandle, filename, isEditingTable, dumped>>
        /\ isEditingTable /\ needToSaveAsNewFile' = TRUE /\ edits' = edits + 1 /\ edits < MaxEdits
        /\ fault' = Unreadable
    BY <1>1, FitIs DEF ShownWell, IInv, Contents, EditInsertField, Edit
  <1>3. edits' \in 0..MaxEdits /\ Unreadable \in BOOLEAN
    BY <1>2, TableAssumption DEF IInv, Flags, Unreadable
  <1>4. Flags'
    BY <1>2, <1>3 DEF IInv, Flags
  <1>5. CASE Unreadable
    <2>1. dumped /\ UNCHANGED <<fields, rows>>
      BY <1>5, AllReadable DEF EditInsertField
    <2>2. Fit(File, fields', rows')
      BY <2>1 DEF IInv, Contents
    <2>. QED
      BY <1>2, <1>4, <2>1, <2>2, EditKeeps
  <1>6. CASE ~Unreadable
    <2>. DEFINE gs == InsertAt(fields, j, NewField)
                R == [i \in 1..n |-> With(rd(i), j)]
    <2>1. fields' = gs
      BY <1>6 DEF EditInsertField
    <2>2. \A i \in 1..n : ReadRecord(i, fields) = IF rows[i].row = NULL THEN ReadRecord(i, fields) ELSE rows[i]
      BY <1>2, ReadIs DEF IInv
    <2>3. rows' = R
      BY <1>2, <1>6, <2>2 DEF EditInsertField, InsertValues, With
    <2>4. /\ gs \in Seq(FieldOf(File)) /\ Len(gs) = m + 1
      <3>1. NewField \in FieldOf(File)
        BY FileIs DEF IInv, NewField, FieldOf
      <3>. QED
        BY <1>2, <3>1, InsertedAt DEF IsWith
    <2>5. \A i \in 1..n : /\ rd(i) \in RowOf(File) /\ RowFits(rd(i), fields) /\ rd(i).row # NULL
                          /\ ~dumped => RowInLine(rd(i), fields)
      <3>1. \A i \in 1..n : rd(i).row # NULL
        BY <1>2, <1>6, ReadIs DEF IInv, Unreadable
      <3>. QED
        BY <3>1, RowRead DEF IInv
    <2>. HIDE DEF gs, rd
    <2>6. ASSUME NEW i \in 1..n
          PROVE  /\ R[i] \in RowOf(File) /\ RowFits(R[i], gs)
                 /\ R[i].row \in Seq(Cell) /\ R[i].row # NULL
                 /\ ~dumped => RowInLine(R[i], gs) /\ Len(R[i].row) = m + 1
                 /\ ~dumped => \A l \in 1..m + 1 :
                      R[i].row[l] = IF l < j THEN rd(i).row[l] ELSE IF l = j THEN Empty ELSE rd(i).row[l - 1]
      <3>1. PICK rw \in RowOf(File) : rw = rd(i) /\ RowFits(rw, fields) /\ rw.row # NULL
                                      /\ (~dumped => RowInLine(rw, fields))
        BY <2>5
      <3>2. PICK r : r = With(rw, j) /\ r = R[i]
        BY <3>1
      <3>. HIDE DEF R
      <3>3. /\ r \in RowOf(File) /\ RowFits(r, gs)
            /\ r.row \in Seq(Cell) /\ r.row # NULL
            /\ RowInLine(rw, fields) =>
                 /\ RowInLine(r, gs) /\ Len(r.row) = m + 1
                 /\ \A l \in 1..m + 1 :
                      r.row[l] = IF l < j THEN rw.row[l] ELSE IF l = j THEN Empty ELSE rw.row[l - 1]
        <4>1. /\ IInv /\ fields \in Seq(FieldOf(File)) /\ Len(gs) = Len(fields) + 1
              /\ rw \in RowOf(File) /\ rw.row # NULL /\ RowFits(rw, fields)
              /\ j \in 1..Len(fields) + 1
          BY <1>2, <2>4, <3>1
        <4>2. /\ With(rw, j) \in RowOf(File) /\ RowFits(With(rw, j), gs)
              /\ With(rw, j).row \in Seq(Cell) /\ With(rw, j).row # NULL
              /\ RowInLine(rw, fields) =>
                   /\ RowInLine(With(rw, j), gs) /\ Len(With(rw, j).row) = Len(fields) + 1
                   /\ \A l \in 1..Len(fields) + 1 :
                        With(rw, j).row[l] =
                          IF l < j THEN rw.row[l] ELSE IF l = j THEN Empty ELSE rw.row[l - 1]
          BY ONLY <4>1, ValueInserted
        <4>. QED
          BY <3>2, <4>2
      <3>. QED
        BY <3>1, <3>2, <3>3
    <2>7. R = [i \in 1..n |-> R[i]]
      OBVIOUS
    <2>. HIDE DEF R
    <2>8. /\ Fit(File, gs, R) /\ Len(R) = n /\ DOMAIN R = 1..n
          /\ ~dumped => InLine(gs, R)
      <3>1. Len(gs) <= MaxFields
        BY <1>2, <2>4, TableAssumption
      <3>. QED
        BY <2>4, <2>6, <2>7, <3>1, RowsMade
    <2>9. IInv'
      <3>1. ~dumped => ~fault' /\ InLine(fields', rows')
        BY <1>2, <1>6, <2>1, <2>3, <2>8
      <3>2. Fit(File, fields', rows')
        BY <2>1, <2>3, <2>8
      <3>. QED
        BY <1>2, <1>4, <3>1, <3>2, EditKeeps
    <2>10. ASSUME ~dumped
           PROVE  Shown' = [cols |-> m + 1, rows |-> [i \in 1..n |-> InsertAt(Shown.rows[i], j, Empty)]]
      <3>. DEFINE U == [i \in 1..n |-> InsertAt(Shown.rows[i], j, Empty)]
      <3>1. ShownWell'
        BY <2>9, ShownIs, PTL DEF IInv
      <3>2. ASSUME NEW i \in 1..n
            PROVE  /\ U[i] \in Seq(Cell) /\ Len(U[i]) = m + 1
                   /\ \A l \in 1..m + 1 : U[i][l] = CellValue(i, l)'
        <4>1. PICK s \in Seq(Cell) : /\ s = Shown.rows[i] /\ Len(s) = m
                                     /\ \A l \in 1..m : s[l] = CellValue(i, l)
          <5>1. Shown.rows[i] \in Record(m) /\ \A l \in 1..m : Shown.rows[i][l] = CellValue(i, l)
            BY <1>1 DEF ShownWell
          <5>. QED
            BY <1>2, <5>1, RecordIs
        <4>2. PICK u \in Seq(Cell) : u = U[i] /\ IsWith(u, s, j, Empty)
          <5>1. j \in 1..Len(s) + 1 /\ Empty \in Cell
            BY <4>1 DEF Cell
          <5>. QED
            BY <4>1, <5>1, InsertedAt
        <4>3. Len(u) = m + 1 /\ \A l \in 1..m + 1 : u[l] = IF l < j THEN s[l] ELSE IF l = j THEN Empty ELSE s[l - 1]
          BY <4>1, <4>2 DEF IsWith
        <4>4. \A l \in 1..m : rd(i).row[l] # NULL /\ CellValue(i, l) = rd(i).row[l]
          <5>1. Files /\ Contents /\ InLine(fields, rows)
            BY <2>10 DEF IInv, Contents
          <5>. QED
            BY <5>1, RowIs DEF rd
        <4>5. \A l \in 1..m + 1 : CellValue(i, l)' = IF R[i].row[l] = NULL THEN Empty ELSE R[i].row[l]
          <5>1. rows'[i].row = R[i].row /\ R[i].row # NULL
            BY <2>3, <2>6
          <5>. QED
            BY <5>1, CellCached
        <4>6. \A l \in 1..m + 1 : R[i].row[l] = u[l]
          <5>1. \A l \in 1..m + 1 : (l < j /\ l \in 1..m) \/ l = j \/ (l > j /\ l - 1 \in 1..m)
            BY <1>2
          <5>2. \A l \in 1..m : s[l] = rd(i).row[l]
            BY <4>1, <4>4
          <5>3. \A l \in 1..m + 1 :
                  R[i].row[l] = IF l < j THEN rd(i).row[l] ELSE IF l = j THEN Empty ELSE rd(i).row[l - 1]
            BY <2>6, <2>10
          <5>. HIDE DEF m
          <5>. QED
            BY <4>3, <5>1, <5>2, <5>3
        <4>7. \A l \in 1..m + 1 : R[i].row[l] # NULL
          <5>1. R[i].row # NULL /\ RowInLine(R[i], gs)
            BY <2>6, <2>10
          <5>. QED
            BY <2>4, <5>1 DEF RowInLine
        <4>. QED
          BY <4>2, <4>3, <4>5, <4>6, <4>7
      <3>3. U = [i \in 1..n |-> U[i]]
        OBVIOUS
      <3>4. m + 1 = Len(fields') /\ n = Len(rows')
        BY <2>1, <2>3, <2>4, <2>8
      <3>. HIDE DEF U
      <3>5. Shown' = [cols |-> m + 1, rows |-> U]
        BY <3>1, <3>2, <3>3, <3>4, ShownAre
      <3>. QED
        BY <3>5 DEF U
    <2>11. Shown.cols = m /\ DOMAIN Shown.rows = 1..n
      BY <1>1 DEF ShownWell
    <2>. QED
      BY <2>9, <2>10, <2>11
  <1>. QED
    BY <1>5, <1>6

LEMMA FieldDeleted ==
  ASSUME IInv, NEW j \in 1..Len(fields)
  PROVE  /\ DeleteValues(j) = [i \in 1..Len(rows) |-> Left(i, j)]
         /\ Fit(File, RemoveAt(fields, j), DeleteValues(j))
         /\ Len(DeleteValues(j)) = Len(rows) /\ DOMAIN DeleteValues(j) = 1..Len(rows)
         /\ InLine(fields, rows) => InLine(RemoveAt(fields, j), DeleteValues(j))
  <1>. DEFINE fs == RemoveAt(fields, j)
             n == Len(rows)
             R == [i \in 1..n |-> Left(i, j)]
  <1>1. n \in Nat /\ DOMAIN rows = 1..n /\ Len(fields) \in Nat /\ Len(fields) <= MaxFields
    BY FitIs DEF IInv, Contents, Fit
  <1>2. DeleteValues(j) = R
    BY <1>1 DEF DeleteValues, Left
  <1>3. fs \in Seq(FieldOf(File)) /\ Len(fs) = Len(fields) - 1
    BY FieldTaken
  <1>4. Len(fs) <= MaxFields
    BY <1>1, <1>3, TableAssumption
  <1>5. \A i \in 1..n : R[i] \in RowOf(File) /\ RowFits(R[i], fs)
                        /\ (RowInLine(rows[i], fields) => RowInLine(R[i], fs))
    BY ValueDeleted
  <1>6. R = [i \in 1..n |-> R[i]]
    OBVIOUS
  <1>. HIDE DEF fs, R
  <1>7. /\ Fit(File, fs, R) /\ Len(R) = n /\ DOMAIN R = 1..n
        /\ (\A i \in 1..n : RowInLine(R[i], fs)) => InLine(fs, R)
    BY <1>3, <1>4, <1>5, <1>6, RowsMade
  <1>8. InLine(fields, rows) => InLine(fs, R)
    BY <1>5, <1>7 DEF InLine
  <1>. QED
    BY <1>2, <1>7, <1>8 DEF fs, R

LEMMA DeleteFieldKeeps ==
  ASSUME IInv, NEW j \in 1..Len(fields), EditDeleteField(j)
  PROVE  /\ IInv'
         /\ dumped \/ Shown' = [cols |-> Shown.cols - 1,
                                rows |-> [i \in DOMAIN Shown.rows |-> RemoveAt(Shown.rows[i], j)]]
  <1>. DEFINE m == Len(fields)
             n == Len(rows)
             fs == RemoveAt(fields, j)
             at(l) == IF l < j THEN l ELSE l + 1
             U == [i \in 1..n |-> RemoveAt(Shown.rows[i], j)]
  <1>1. ShownWell
    BY ShownIs DEF IInv
  <1>2. /\ m \in Nat /\ n \in Nat /\ DOMAIN rows = 1..n
        /\ UNCHANGED <<disk, dbfHandle, filename, isEditingTable, dumped, fault>>
        /\ isEditingTable /\ needToSaveAsNewFile' = TRUE /\ edits' = edits + 1 /\ edits < MaxEdits
        /\ fields' = fs /\ rows' = DeleteValues(j)
    BY <1>1 DEF ShownWell, EditDeleteField, Edit
  <1>3. edits' \in 0..MaxEdits
    BY <1>2, TableAssumption DEF IInv, Flags
  <1>4. Flags'
    BY <1>2, <1>3 DEF IInv, Flags
  <1>5. /\ rows' = [i \in 1..n |-> Left(i, j)] /\ Len(rows') = n
        /\ Fit(File, fields', rows')
        /\ InLine(fields, rows) => InLine(fields', rows')
    BY <1>2, FieldDeleted
  <1>6. IInv'
    <2>1. ~dumped => ~fault' /\ InLine(fields', rows')
      BY <1>2, <1>5 DEF IInv, Contents
    <2>. QED
      BY <1>2, <1>4, <1>5, <2>1, EditKeeps
  <1>7. ASSUME ~dumped PROVE Shown' = [cols |-> m - 1, rows |-> U]
    <2>1. ShownWell'
      BY <1>6, ShownIs, PTL DEF IInv
    <2>2. Len(fs) = m - 1
      BY FieldTaken
    <2>3. ASSUME NEW i \in 1..n
          PROVE  /\ U[i] \in Seq(Cell) /\ Len(U[i]) = m - 1
                 /\ \A l \in 1..m - 1 : U[i][l] = CellValue(i, l)'
      <3>1. PICK s \in Seq(Cell) : /\ s = Shown.rows[i] /\ Len(s) = m
                                   /\ \A l \in 1..m : s[l] = CellValue(i, l)
        <4>1. Shown.rows[i] \in Record(m) /\ \A l \in 1..m : Shown.rows[i][l] = CellValue(i, l)
          BY <1>1 DEF ShownWell
        <4>. QED
          BY <1>2, <4>1, RecordIs
      <3>2. /\ RemoveAt(s, j) \in Seq(Cell) /\ Len(RemoveAt(s, j)) = m - 1
            /\ \A l \in 1..m - 1 : RemoveAt(s, j)[l] = s[at(l)]
        <4>1. j \in 1..Len(s)
          BY <3>1
        <4>. QED
          BY <3>1, <4>1, RemovedAt
      <3>3. \A l \in 1..m - 1 : at(l) \in 1..m
        BY <1>2
      <3>4. PICK x : /\ x = LeftRead(i, j) /\ x.row # NULL
                     /\ \A l \in 1..m - 1 : x.row[l] # NULL /\ x.row[l] = CellValue(i, at(l))
        BY <1>7, LeftIs
      <3>. HIDE DEF at
      <3>5. \A l \in 1..m - 1 : CellValue(i, l)' = IF x.row[l] = NULL THEN Empty ELSE x.row[l]
        <4>1. rows'[i] = Left(i, j)
          BY <1>5
        <4>2. CASE Left(i, j).row # NULL
          <5>1. rows'[i].row = x.row
            BY <3>4, <4>1, <4>2 DEF LeftRead
          <5>. QED
            BY <3>4, <5>1, CellCached
        <4>3. CASE Left(i, j).row = NULL
          <5>1. rows'[i] = rows[i] /\ x = ReadRecord(i, fs)
            BY <3>4, <4>1, <4>3, ValueDeleted DEF LeftRead
          <5>. HIDE DEF fs
          <5>. QED
            BY <1>2, <3>4, <5>1, CellReread
        <4>. QED
          BY <4>2, <4>3
      <3>6. U[i] = RemoveAt(s, j)
        BY <3>1
      <3>. HIDE DEF U, m
      <3>. QED
        BY <3>1, <3>2, <3>3, <3>4, <3>5, <3>6
    <2>4. U = [i \in 1..n |-> U[i]] /\ m - 1 = Len(fields') /\ n = Len(rows')
      BY <1>2, <1>5, <2>2
    <2>. HIDE DEF U
    <2>. QED
      BY <2>1, <2>3, <2>4, ShownAre
  <1>8. Shown.cols = m /\ DOMAIN Shown.rows = 1..n
    BY <1>1 DEF ShownWell
  <1>. QED
    BY <1>6, <1>7, <1>8

LEMMA ReplaceFieldKeeps ==
  ASSUME IInv, NEW j \in 1..Len(fields), EditReplaceField(j)
  PROVE  /\ IInv'
         /\ dumped \/ Shown' = [cols |-> Shown.cols,
                                rows |-> [i \in DOMAIN Shown.rows |->
                                            [Shown.rows[i] EXCEPT ![j] = Empty]]]
  <1>. DEFINE m == Len(fields)
             n == Len(rows)
             fs == RemoveAt(fields, j)
             gs == [fields EXCEPT ![j] = NewField]
             x(i) == LeftRead(i, j)
             R == [i \in 1..n |-> With(x(i), j)]
             U == [i \in 1..n |-> [Shown.rows[i] EXCEPT ![j] = Empty]]
  <1>1. ShownWell
    BY ShownIs DEF IInv
  <1>2. /\ m \in Nat /\ n \in Nat /\ DOMAIN rows = 1..n /\ DOMAIN fields = 1..m
        /\ fields \in Seq(FieldOf(File)) /\ m <= MaxFields
        /\ UNCHANGED <<disk, dbfHandle, filename, isEditingTable, dumped>>
        /\ isEditingTable /\ needToSaveAsNewFile' = TRUE /\ edits' = edits + 1 /\ edits < MaxEdits
        /\ fault' = Unreadable
    BY <1>1, FitIs DEF ShownWell, IInv, Contents, Fit, EditReplaceField, Edit
  <1>3. edits' \in 0..MaxEdits /\ Unreadable \in BOOLEAN
    BY <1>2, TableAssumption DEF IInv, Flags, Unreadable
  <1>4. Flags'
    BY <1>2, <1>3 DEF IInv, Flags
  <1>5. CASE Unreadable
    <2>1. dumped /\ fields' = fs /\ rows' = DeleteValues(j)
      BY <1>5, AllReadable DEF EditReplaceField
    <2>2. Fit(File, fields', rows')
      BY <2>1, FieldDeleted
    <2>. QED
      BY <1>2, <1>4, <2>1, <2>2, EditKeeps
  <1>6. CASE ~Unreadable
    <2>1. fields' = gs /\ rows' = R
      <3>1. DeleteValues(j) = [i \in 1..n |-> Left(i, j)] /\ DOMAIN DeleteValues(j) = 1..n
        BY FieldDeleted
      <3>2. /\ rows' = InsertValues(DeleteValues(j), j, fs)
            /\ fields' = gs
        BY <1>6 DEF EditReplaceField
      <3>. QED
        BY <3>1, <3>2 DEF InsertValues, With, LeftRead
    <2>2. gs \in Seq(FieldOf(File)) /\ Len(gs) = m /\ DOMAIN gs = 1..m
      <3>1. NewField \in FieldOf(File)
        BY FileIs DEF IInv, NewField, FieldOf
      <3>2. gs \in Seq(FieldOf(File)) /\ Len(gs) = m
        BY <1>2, <3>1, ExceptSeq
      <3>. QED
        BY <1>2, <3>2, LenProperties
    <2>3. fs \in Seq(FieldOf(File)) /\ Len(fs) = m - 1 /\ Len(gs) = Len(fs) + 1
          /\ j \in 1..Len(fs) + 1 /\ Len(fs) + 1 = m
      <3>1. fs \in Seq(FieldOf(File)) /\ Len(fs) = m - 1
        BY FieldTaken
      <3>2. m - 1 + 1 = m
        BY <1>2
      <3>. QED
        BY <2>2, <3>1, <3>2
    <2>4. ASSUME NEW i \in 1..n
          PROVE  /\ x(i) \in RowOf(File) /\ RowFits(x(i), fs) /\ x(i).row # NULL
                 /\ ~dumped => RowInLine(x(i), fs)
                 /\ ~dumped => \A l \in 1..m - 1 : x(i).row[l] = CellValue(i, IF l < j THEN l ELSE l + 1)
      <3>1. ~(rows[i].row = NULL /\ dbfHandle = NULL)
        BY <1>2, <1>6 DEF Unreadable
      <3>. QED
        BY <3>1, LeftIs
    <2>. HIDE DEF gs, fs, x
    <2>5. ASSUME NEW i \in 1..n
          PROVE  /\ R[i] \in RowOf(File) /\ RowFits(R[i], gs)
                 /\ R[i].row \in Seq(Cell) /\ R[i].row # NULL
                 /\ ~dumped => RowInLine(R[i], gs) /\ Len(R[i].row) = m
                 /\ ~dumped => \A l \in 1..m :
                      R[i].row[l] = IF l < j THEN x(i).row[l] ELSE IF l = j THEN Empty ELSE x(i).row[l - 1]
      <3>1. PICK rw \in RowOf(File) : rw = x(i) /\ RowFits(rw, fs) /\ rw.row # NULL
                                      /\ (~dumped => RowInLine(rw, fs))
        BY <2>4
      <3>2. PICK r : r = With(rw, j) /\ r = R[i]
        BY <3>1
      <3>. HIDE DEF R
      <3>3. /\ IInv /\ fs \in Seq(FieldOf(File)) /\ Len(gs) = Len(fs) + 1
            /\ rw \in RowOf(File) /\ rw.row # NULL /\ RowFits(rw, fs)
            /\ j \in 1..Len(fs) + 1
        BY <2>3, <3>1
      <3>4. /\ With(rw, j) \in RowOf(File) /\ RowFits(With(rw, j), gs)
            /\ With(rw, j).row \in Seq(Cell) /\ With(rw, j).row # NULL
            /\ RowInLine(rw, fs) =>
                 /\ RowInLine(With(rw, j), gs) /\ Len(With(rw, j).row) = Len(fs) + 1
                 /\ \A l \in 1..Len(fs) + 1 :
                      With(rw, j).row[l] =
                        IF l < j THEN rw.row[l] ELSE IF l = j THEN Empty ELSE rw.row[l - 1]
        BY ONLY <3>3, ValueInserted
      <3>5. Len(fs) + 1 = m
        BY <2>3
      <3>. QED
        BY <3>1, <3>2, <3>4, <3>5
    <2>6. R = [i \in 1..n |-> R[i]]
      OBVIOUS
    <2>. HIDE DEF R
    <2>7. /\ Fit(File, gs, R) /\ Len(R) = n
          /\ ~dumped => InLine(gs, R)
      BY <1>2, <2>2, <2>5, <2>6, RowsMade
    <2>8. IInv'
      <3>1. ~dumped => ~fault' /\ InLine(fields', rows')
        BY <1>2, <1>6, <2>1, <2>7
      <3>2. Fit(File, fields', rows')
        BY <2>1, <2>7
      <3>. QED
        BY <1>2, <1>4, <3>1, <3>2, EditKeeps
    <2>9. ASSUME ~dumped
          PROVE  Shown' = [cols |-> m, rows |-> U]
      <3>1. ShownWell'
        BY <2>8, ShownIs, PTL DEF IInv
      <3>2. ASSUME NEW i \in 1..n
            PROVE  /\ U[i] \in Seq(Cell) /\ Len(U[i]) = m
                   /\ \A l \in 1..m : U[i][l] = CellValue(i, l)'
        <4>1. PICK s \in Seq(Cell) : /\ s = Shown.rows[i] /\ Len(s) = m
                                     /\ \A l \in 1..m : s[l] = CellValue(i, l)
          <5>1. Shown.rows[i] \in Record(m) /\ \A l \in 1..m : Shown.rows[i][l] = CellValue(i, l)
            BY <1>1 DEF ShownWell
          <5>. QED
            BY <1>2, <5>1, RecordIs
        <4>2. PICK u \in Seq(Cell) : /\ u = U[i] /\ Len(u) = m
                                     /\ \A l \in 1..m : u[l] = IF l = j THEN Empty ELSE s[l]
          <5>1. j \in 1..Len(s) /\ Empty \in Cell
            BY <4>1 DEF Cell
          <5>2. U[i] = [s EXCEPT ![j] = Empty]
            BY <4>1
          <5>3. /\ [s EXCEPT ![j] = Empty] \in Seq(Cell) /\ Len([s EXCEPT ![j] = Empty]) = Len(s)
                /\ \A l \in 1..Len(s) : [s EXCEPT ![j] = Empty][l] = IF l = j THEN Empty ELSE s[l]
            BY <5>1, ExceptSeq
          <5>. HIDE DEF U
          <5>. QED
            BY <4>1, <5>2, <5>3
        <4>3. \A l \in 1..m : CellValue(i, l)' = IF R[i].row[l] = NULL THEN Empty ELSE R[i].row[l]
          <5>1. rows'[i].row = R[i].row /\ R[i].row # NULL
            BY <2>1, <2>5
          <5>. QED
            BY <5>1, CellCached
        <4>4. \A l \in 1..m : R[i].row[l] = u[l]
          <5>1. \A l \in 1..m : /\ l < j => l \in 1..m - 1
                                /\ l > j => l - 1 \in 1..m - 1 /\ ~(l - 1 < j) /\ l - 1 + 1 = l
                                /\ l < j \/ l = j \/ l > j
            BY <1>2
          <5>2. \A l \in 1..m - 1 : x(i).row[l] = CellValue(i, IF l < j THEN l ELSE l + 1)
            BY <2>4, <2>9
          <5>3. \A l \in 1..m :
                  R[i].row[l] = IF l < j THEN x(i).row[l] ELSE IF l = j THEN Empty ELSE x(i).row[l - 1]
            BY <2>5, <2>9
          <5>4. \A l \in 1..m : /\ l < j => x(i).row[l] = s[l]
                                /\ l > j => x(i).row[l - 1] = s[l]
            <6>. HIDE DEF m
            <6>. QED
              BY <4>1, <5>1, <5>2
          <5>5. \A l \in 1..m : (l < j => l # j) /\ (l > j => l # j /\ ~(l < j))
            OBVIOUS
          <5>. HIDE DEF m
          <5>. QED
            BY <4>2, <5>1, <5>3, <5>4, <5>5
        <4>5. \A l \in 1..m : R[i].row[l] # NULL
          <5>1. R[i].row # NULL /\ RowInLine(R[i], gs)
            BY <2>5, <2>9
          <5>. QED
            BY <2>2, <5>1 DEF RowInLine
        <4>. QED
          BY <4>2, <4>3, <4>4, <4>5
      <3>3. U = [i \in 1..n |-> U[i]] /\ m = Len(fields') /\ n = Len(rows')
        BY <2>1, <2>2, <2>7
      <3>. HIDE DEF U
      <3>. QED
        BY <3>1, <3>2, <3>3, ShownAre
    <2>10. Shown.cols = m /\ DOMAIN Shown.rows = 1..n
      BY <1>1 DEF ShownWell
    <2>. QED
      BY <2>8, <2>9, <2>10
  <1>. QED
    BY <1>5, <1>6

-----------------------------------------------------------------------------
(* Loading and saving, as the session sees them.                           *)

Current == AsLoaded(File, fields, rows)
ShowsFile == Shown = File

LEMMA LoadedShows == Files /\ Contents /\ Current => ShowsFile
  BY UntouchedShows DEF Current, ShowsFile

LEMMA Loads ==
  ASSUME disk' \in [Name -> Table \cup {NULL}], NEW n \in Name \cup {NULL}, OpenFile(n),
         isEditingTable' \in BOOLEAN, needToSaveAsNewFile' \in BOOLEAN, fault' = FALSE
  PROVE  /\ IInv'
         /\ n # NULL /\ disk'[n] # NULL => dbfHandle' = n /\ Session!Load(n)
         /\ n = NULL \/ disk'[n] = NULL => dbfHandle' = NULL /\ Session!Load(NULL)
  <1>1. /\ IInv' /\ AsLoaded(File, fields, rows)'
        /\ dumped' = FALSE
        /\ n # NULL /\ disk'[n] # NULL => dbfHandle' = n /\ filename' = n
        /\ n = NULL \/ disk'[n] = NULL => dbfHandle' = NULL /\ filename' = NULL
    BY LoadStep
  <1>2. Shown' = File'
    <2>1. Files' /\ Contents' /\ Current'
      BY <1>1 DEF IInv, Current
    <2>2. ShowsFile'
      BY <2>1, LoadedShows, PTL
    <2>. QED
      BY <2>2 DEF ShowsFile
  <1>3. File' = IF dbfHandle' = NULL THEN NoTable ELSE disk'[dbfHandle']
    BY DEF File
  <1>. QED
    BY <1>1, <1>2, <1>3 DEF Session!Load, Session!NoTable, NoTable

(* The table that nothing has been put into yet.                           *)
LEMMA Emptied ==
  ASSUME IInv, UNCHANGED disk, filename' \in Name \cup {NULL}, dbfHandle' = NULL,
         isEditingTable' \in BOOLEAN, needToSaveAsNewFile' \in BOOLEAN, fault' = FALSE,
         Reload(NoTable)
  PROVE  IInv' /\ Shown' = NoTable /\ dumped' = FALSE
  <1>1. /\ Fit(NoTable, fields', rows') /\ AsLoaded(NoTable, fields', rows') /\ InLine(fields', rows')
    BY Reloaded DEF Reload
  <1>2. File' = NoTable
    BY DEF File, NoTable
  <1>3. Files'
    BY DEF IInv, Files
  <1>4. Flags' /\ dumped' = FALSE
    <2>1. edits' \in 0..MaxEdits /\ dumped' = FALSE
      BY TableAssumption DEF Reload
    <2>. QED
      BY <2>1, Zenon DEF Flags
  <1>5. Contents'
    BY <1>1, <1>2 DEF Contents
  <1>6. IInv'
    BY <1>3, <1>4, <1>5 DEF IInv, Structure, Untouched
  <1>7. Current'
    BY <1>1, <1>2 DEF Current
  <1>8. Shown' = File'
    <2>1. ShowsFile'
      BY <1>3, <1>5, <1>7, LoadedShows, PTL
    <2>. QED
      BY <2>1 DEF ShowsFile
  <1>. QED
    BY <1>2, <1>4, <1>6, <1>8

LEMMA NewFileIs ==
  ASSUME IInv
  PROVE  NewFile \in Table /\ NewFile # NULL /\ NewFile = Session!Stored(Shown)
  <1>. DEFINE m == Len(fields)
             n == Len(rows)
             W == [i \in 1..n |-> WriteRecord(i)]
             R == IF fields = <<>> THEN <<>> ELSE W
  <1>1. ShownWell
    BY ShownIs DEF IInv
  <1>2. /\ m \in 0..MaxFields /\ m \in Nat /\ n \in Nat /\ n <= MaxRows
        /\ DOMAIN fields = 1..m /\ DOMAIN rows = 1..n
        /\ fields = <<>> <=> m = 0
    <2>1. fields \in Seq(FieldOf(File))
      BY FitIs DEF IInv, Contents
    <2>2. fields = <<>> <=> m = 0
      BY <2>1, EmptySeq
    <2>. QED
      BY <1>1, <2>2, TableAssumption DEF ShownWell
  <1>3. NewFile = [cols |-> m, rows |-> R]
    BY <1>2 DEF NewFile
  <1>4. \A i \in 1..n : WriteRecord(i) \in Record(m)
    <2>1. SUFFICES ASSUME NEW i \in 1..n PROVE WriteRecord(i) \in Record(m)
      OBVIOUS
    <2>2. \A j \in 1..m : CellValue(i, j) \in Value \cup {Empty}
      BY CellIs DEF IInv
    <2>3. \A j \in 1..m : (IF CellValue(i, j) = Empty THEN Zero ELSE CellValue(i, j)) \in Value \cup {Empty}
      BY <2>2, TableAssumption
    <2>. QED
      BY <1>2, <2>3 DEF WriteRecord, Record
  <1>5. W \in Seq(Record(m)) /\ Len(W) = n
    <2>1. W \in [1..n -> Record(m)]
      BY <1>4
    <2>. QED
      BY <1>2, <2>1, IsASeq
  <1>6. R \in Seq(Record(m)) /\ Len(R) <= MaxRows
    <2>. HIDE DEF W
    <2>1. Len(<<>>) = 0 /\ <<>> \in Seq(Record(m)) /\ 0 <= MaxRows
      BY EmptySeq, TableAssumption
    <2>. QED
      BY <1>2, <1>5, <2>1
  <1>7. NewFile \in Table
    <2>. HIDE DEF R
    <2>. QED
      BY <1>2, <1>3, <1>6, TableMade
  <1>8. Session!Stored(Shown) = [cols |-> m, rows |-> R]
    <2>1. CASE m = 0
      BY <1>1, <1>2, <2>1 DEF Session!Stored, Session!NoTable, ShownWell
    <2>2. CASE m # 0
      <3>. DEFINE S == [i \in 1..n |-> [j \in 1..m |->
                          IF Shown.rows[i][j] = Empty THEN Zero ELSE Shown.rows[i][j]]]
      <3>1. /\ Shown = [cols |-> m, rows |-> Shown.rows] /\ Shown.cols = m
            /\ DOMAIN Shown.rows = 1..n /\ \A i \in 1..n : DOMAIN Shown.rows[i] = 1..m
            /\ \A i \in 1..n : \A j \in 1..m : Shown.rows[i][j] = CellValue(i, j)
        BY <1>1 DEF ShownWell, Record
      <3>2. Session!Stored(Shown) = [cols |-> m, rows |-> S]
        BY <2>2, <3>1 DEF Session!Stored
      <3>3. \A i \in 1..n : WriteRecord(i) = [j \in 1..m |->
                          IF Shown.rows[i][j] = Empty THEN Zero ELSE Shown.rows[i][j]]
        BY <1>2, <3>1 DEF WriteRecord
      <3>4. W = S
        BY <3>3
      <3>. HIDE DEF W, S
      <3>. QED
        BY <1>2, <2>2, <3>2, <3>4
    <2>. QED
      BY <2>1, <2>2
  <1>. QED
    BY <1>3, <1>7, <1>8, TableAssumption

(* A file is rewritten unless there is nothing in it.                      *)
LEMMA NotRewritten ==
  ASSUME IInv, dbfHandle # NULL, isEditingTable, ~Rewrite
  PROVE  UpdatedFile = disk[filename]
  <1>1. /\ File = disk[filename] /\ File = [cols |-> File.cols, rows |-> File.rows]
        /\ File.cols \in Nat /\ File.rows \in Seq(Record(File.cols))
    BY FileIs DEF IInv, Files
  <1>2. Len(fields) = File.cols /\ DOMAIN fields = 1..Len(fields) /\ Len(fields) \in Nat
        /\ \A j \in 1..Len(fields) : fields[j] \in FieldOf(File)
    BY FitIs DEF IInv, Contents, Structure, Rewrite
  <1>3. Len(fields) = 0
    <2>1. \A j \in 1..Len(fields) : fields[j].isUpdated
      BY <1>2 DEF FieldOf
    <2>2. 1 \notin 1..Len(fields)
      BY <1>2, <2>1 DEF Rewrite
    <2>. QED
      BY <1>2, <2>2
  <1>4. DOMAIN fields = {} /\ \A i \in DOMAIN File.rows : File.rows[i] = <<>>
    <2>1. \A i \in DOMAIN File.rows : File.rows[i] \in [1..0 -> Value \cup {Empty}]
      BY <1>1, <1>2, <1>3, LenProperties, ElementOfSeq DEF Record
    <2>2. 1..0 = {}
      OBVIOUS
    <2>3. \A r \in [1..0 -> Value \cup {Empty}] : r = <<>>
      BY <2>2
    <2>. QED
      BY <1>2, <1>3, <2>1, <2>2, <2>3
  <1>5. \A i : WriteRecord(i) = <<>>
    BY <1>4 DEF WriteRecord
  <1>. DEFINE S == [i \in DOMAIN File.rows |-> IF rows[i].row # NULL /\ rows[i].status = "modified"
                                                THEN WriteRecord(i) ELSE File.rows[i]]
  <1>6. UpdatedFile = [cols |-> File.cols, rows |-> S]
    BY <1>1 DEF UpdatedFile
  <1>7. S = File.rows
    <2>1. File.rows = [i \in DOMAIN File.rows |-> File.rows[i]]
      BY <1>1, LenProperties
    <2>. QED
      BY <1>4, <1>5, <2>1
  <1>. QED
    BY <1>1, <1>6, <1>7

LEMMA DumpStep ==
  ASSUME IInv, ~fault, NEW n \in Name, Dump(n)
  PROVE  IInv' /\ Session!Dump(n)
  <1>. DEFINE m == Len(fields)
             N == Len(rows)
             R == [i \in 1..N |-> IF i = 1 THEN (IF fields = <<>> THEN rows[1] ELSE ReadRecord(1, fields))
                                  ELSE [rows[i] EXCEPT !.row = NULL]]
  <1>1. /\ m \in Nat /\ N \in Nat /\ DOMAIN rows = 1..N /\ fields \in Seq(FieldOf(File)) /\ m <= MaxFields
        /\ \A i \in 1..N : rows[i] \in RowOf(File) /\ RowFits(rows[i], fields)
    BY FitIs DEF IInv, Contents, Fit
  <1>2. /\ rows' = R /\ dumped' = (dumped \/ isEditingTable)
        /\ disk' = [disk EXCEPT ![n] = NewFile] /\ disk[n] = NULL
        /\ dbfHandle # NULL \/ isEditingTable
        /\ UNCHANGED <<dbfHandle, filename, isEditingTable, needToSaveAsNewFile, fields, edits, fault>>
    BY <1>1 DEF Dump, CanSaveTo
  <1>3. /\ NewFile \in Table /\ NewFile = Session!Stored(Shown)
    BY NewFileIs
  <1>4. Files'
    BY <1>2, <1>3 DEF IInv, Files
  <1>5. File' = File
    BY <1>2 DEF File, IInv, Files
  <1>6. ASSUME NEW i \in 1..N
        PROVE  R[i] \in RowOf(File) /\ RowFits(R[i], fields)
    <2>1. CASE i # 1
      <3>1. R[i] = [rows[i] EXCEPT !.row = NULL] /\ rows[i] \in RowOf(File)
        BY <1>1, <2>1
      <3>. HIDE DEF R
      <3>2. R[i] \in RowOf(File) /\ R[i].row = NULL
        BY <3>1 DEF RowOf, Status
      <3>. QED
        BY <3>2 DEF RowFits
    <2>2. CASE i = 1
      <3>1. R[i] = rows[i] \/ R[i] = ReadRecord(i, fields)
        BY <2>2
      <3>. HIDE DEF R
      <3>. QED
        BY <1>1, <3>1, RowRead DEF IInv
    <2>. QED
      BY <2>1, <2>2
  <1>7. R = [i \in 1..N |-> R[i]]
    OBVIOUS
  <1>8. ASSUME AsLoaded(File, fields, rows)
        PROVE  AsLoaded(File, fields, R)
    <2>1. \A i \in 1..N : /\ rows[i].oldIndex = i /\ (rows[i].row = NULL \/ rows[i].row = File.rows[i])
                          /\ ReadRecord(i, fields).oldIndex = i
                          /\ ReadRecord(i, fields).row = File.rows[i]
      BY <1>8, ReadsItsRecord DEF AsLoaded, IInv
    <2>2. ASSUME NEW i \in 1..N
          PROVE  R[i].oldIndex = i /\ (R[i].row = NULL \/ R[i].row = File.rows[i])
      <3>1. CASE i # 1
        <4>1. R[i] = [rows[i] EXCEPT !.row = NULL] /\ rows[i] \in RowOf(File)
          BY <1>1, <3>1
        <4>. HIDE DEF R
        <4>. QED
          BY <2>1, <4>1 DEF RowOf
      <3>2. CASE i = 1
        <4>1. R[i] = rows[i] \/ R[i] = ReadRecord(i, fields)
          BY <3>2
        <4>. HIDE DEF R
        <4>. QED
          BY <2>1, <4>1
      <3>. QED
        BY <3>1, <3>2
    <2>3. Len(R) = N
      <3>1. R \in [1..N -> RowOf(File)]
        BY <1>6
      <3>. HIDE DEF R
      <3>. QED
        BY <1>1, <3>1, IsASeq
    <2>. HIDE DEF R
    <2>. QED
      BY <1>8, <2>2, <2>3 DEF AsLoaded
  <1>. HIDE DEF R
  <1>9. Fit(File, fields, R) /\ Len(R) = N
    BY <1>1, <1>6, <1>7, RowsMade
  <1>10. Flags'
    BY <1>2 DEF IInv, Flags
  <1>11. ~isEditingTable => AsLoaded(File, fields, rows) /\ AsLoaded(File, fields, R) /\ InLine(fields, R)
    <2>1. ~isEditingTable => AsLoaded(File, fields, rows)
      BY <1>2 DEF IInv, Untouched
    <2>2. AsLoaded(File, fields, R) => InLine(fields, R)
      BY UntouchedIsInLine DEF IInv
    <2>. QED
      BY <1>8, <2>1, <2>2
  <1>12. Contents'
    BY <1>2, <1>5, <1>9, <1>11 DEF Contents
  <1>13. Structure' /\ Untouched'
    BY <1>2, <1>5, <1>11 DEF IInv, Structure, Untouched
  <1>14. ~isEditingTable => Shown' = Shown
    <2>1. SUFFICES ASSUME ~isEditingTable PROVE Shown' = Shown
      OBVIOUS
    <2>2. Shown = File
      BY <1>11, <2>1, UntouchedShows DEF IInv
    <2>3. Current'
      BY <1>2, <1>5, <1>11, <2>1 DEF Current
    <2>4. ShowsFile'
      BY <1>4, <1>12, <2>3, LoadedShows, PTL
    <2>. QED
      BY <1>5, <2>2, <2>4 DEF ShowsFile
  <1>15. Session!Dump(n)
    BY <1>2, <1>3, <1>14 DEF Session!Dump, IInv, Flags
  <1>. QED
    BY <1>4, <1>10, <1>12, <1>13, <1>15 DEF IInv

(* Where nothing of the table changes, nothing of what is seen does.       *)
LEMMA ShownStays ==
  ASSUME UNCHANGED <<disk, dbfHandle, fields, rows>>
  PROVE  Shown' = Shown /\ File' = File
  BY DEF Shown, CellValue, ReadRecord, File

LEMMA OpenStep ==
  ASSUME IInv, ~fault, NEW n \in Name, Open(n)
  PROVE  IInv' /\ (Session!Open(n) \/ Session!Close)
  <1>1. /\ disk' = disk /\ isEditingTable' = isEditingTable /\ OpenFile(n) /\ fault' = FALSE
        /\ disk' \in [Name -> Table \cup {NULL}] /\ n # NULL
        /\ isEditingTable' \in BOOLEAN /\ needToSaveAsNewFile' \in BOOLEAN
    BY TableAssumption DEF IInv, Files, Flags, Open
  <1>2. /\ IInv'
        /\ n # NULL /\ disk'[n] # NULL => dbfHandle' = n /\ Session!Load(n)
        /\ n = NULL \/ disk'[n] = NULL => dbfHandle' = NULL /\ Session!Load(NULL)
    BY ONLY <1>1, n \in Name, Loads
  <1>. QED
    BY <1>1, <1>2 DEF Session!Open, Session!Close

LEMMA CloseStep ==
  ASSUME IInv, ~fault, Close
  PROVE  IInv' /\ Session!Close
  <1>1. /\ disk' = disk /\ isEditingTable' = isEditingTable /\ OpenFile(NULL) /\ fault' = FALSE
        /\ disk' \in [Name -> Table \cup {NULL}]
        /\ isEditingTable' \in BOOLEAN /\ needToSaveAsNewFile' \in BOOLEAN
    BY DEF IInv, Files, Flags, Close
  <1>2. IInv' /\ Session!Load(NULL)
    <2>1. NULL \in Name \cup {NULL}
      OBVIOUS
    <2>. QED
      BY ONLY <1>1, <2>1, Loads
  <1>. QED
    BY <1>1, <1>2 DEF Session!Close

LEMMA CreateNewStep ==
  ASSUME IInv, ~fault, NEW n \in Name, CreateNew(n)
  PROVE  IInv' /\ Session!CreateNew(n)
  <1>1. /\ disk[n] = NULL /\ UNCHANGED disk /\ filename' = n /\ filename' \in Name \cup {NULL}
        /\ dbfHandle' = NULL /\ isEditingTable' = TRUE /\ isEditingTable' \in BOOLEAN
        /\ needToSaveAsNewFile' \in BOOLEAN /\ fault' = FALSE /\ Reload(NoTable)
    BY DEF IInv, Flags, CreateNew
  <1>2. IInv' /\ Shown' = NoTable /\ dumped' = FALSE
    BY <1>1, Emptied
  <1>. QED
    BY <1>1, <1>2 DEF Session!CreateNew, Session!NoTable, NoTable

(* A table is written to the file n and loaded from it.                    *)
LEMMA SavedAs ==
  ASSUME IInv, NEW n \in Name, disk' = [disk EXCEPT ![n] = NewFile], OpenFile(n),
         isEditingTable' \in BOOLEAN, needToSaveAsNewFile' \in BOOLEAN, fault' = FALSE
  PROVE  IInv' /\ dbfHandle' = n /\ Session!Save(n)
  <1>1. NewFile \in Table /\ NewFile # NULL /\ NewFile = Session!Stored(Shown) /\ n # NULL
    BY NewFileIs, TableAssumption
  <1>2. disk' \in [Name -> Table \cup {NULL}] /\ disk'[n] = NewFile
    BY <1>1 DEF IInv, Files
  <1>3. IInv' /\ dbfHandle' = n /\ Session!Load(n)
    BY <1>1, <1>2, Loads
  <1>. QED
    BY <1>1, <1>3 DEF Session!Save

LEMMA SaveAsStep ==
  ASSUME IInv, ~fault, NEW n \in Name, SaveAs(n)
  PROVE  IInv' /\ Session!SaveAs(n)
  <1>1. /\ disk[n] = NULL /\ disk' = [disk EXCEPT ![n] = NewFile] /\ OpenFile(n)
        /\ isEditingTable' = isEditingTable /\ isEditingTable' \in BOOLEAN
        /\ needToSaveAsNewFile' \in BOOLEAN /\ fault' = FALSE
    BY DEF IInv, Flags, SaveAs, CanSaveTo
  <1>2. IInv' /\ Session!Save(n)
    BY <1>1, SavedAs
  <1>. QED
    BY <1>1, <1>2 DEF Session!SaveAs

LEMMA StartStep ==
  ASSUME IInv, ~fault, StartEditingTable
  PROVE  IInv' /\ Session!StartEditing
  <1>1. /\ ~isEditingTable /\ dbfHandle # NULL
        /\ isEditingTable' = TRUE /\ needToSaveAsNewFile' = FALSE
        /\ UNCHANGED <<disk, dbfHandle, filename, fields, rows, edits, dumped, fault>>
    BY DEF StartEditingTable
  <1>2. Shown' = Shown /\ File' = File
    BY <1>1, ShownStays
  <1>3. Files' /\ Flags' /\ Contents' /\ Structure' /\ Untouched'
    BY <1>1, <1>2 DEF IInv, Files, Flags, Contents, Structure, Untouched
  <1>. QED
    BY <1>1, <1>2, <1>3 DEF IInv, Session!StartEditing

LEMMA ClearStep ==
  ASSUME IInv, ~fault, EditClear
  PROVE  IInv' /\ Session!Undo
  <1>1. /\ needToSaveAsNewFile' = FALSE /\ needToSaveAsNewFile' \in BOOLEAN
        /\ isEditingTable' = isEditingTable /\ isEditingTable' \in BOOLEAN /\ fault' = FALSE
        /\ UNCHANGED <<disk, dbfHandle, filename>>
        /\ Reload(IF dbfHandle = NULL THEN NoTable ELSE disk[dbfHandle])
        /\ disk' \in [Name -> Table \cup {NULL}] /\ filename' \in Name \cup {NULL}
    BY DEF IInv, Files, Flags, EditClear
  <1>2. CASE dbfHandle = NULL
    <2>1. IInv' /\ Shown' = NoTable /\ dumped' = FALSE
      BY <1>1, <1>2, Emptied
    <2>. QED
      BY <1>1, <1>2, <2>1 DEF Session!Undo, Session!Revert, Session!NoTable, NoTable
  <1>3. CASE dbfHandle # NULL
    <2>1. dbfHandle = filename /\ disk[filename] # NULL
      BY <1>3 DEF IInv, Files
    <2>2. OpenFile(filename)
      BY <1>1, <1>3, <2>1 DEF OpenFile
    <2>3. filename \in Name \cup {NULL} /\ filename # NULL /\ disk'[filename] # NULL
      BY <1>1, <1>3, <2>1
    <2>4. IInv' /\ Session!Load(filename)
      BY ONLY <1>1, <2>2, <2>3, Loads
    <2>. QED
      BY <1>1, <1>3, <2>1, <2>4 DEF Session!Undo, Session!Revert
  <1>. QED
    BY <1>2, <1>3

LEMMA StopStep ==
  ASSUME IInv, ~fault, NEW apply \in BOOLEAN, NEW again \in BOOLEAN, apply \/ ~again,
         StopEditingTable(apply, again)
  PROVE  IInv' /\ (Session!Commit \/ Session!Rollback)
  <1>1. /\ isEditingTable /\ dbfHandle # NULL /\ dbfHandle = filename
        /\ filename \in Name /\ filename # NULL /\ disk[filename] # NULL
        /\ isEditingTable' = again /\ isEditingTable' \in BOOLEAN /\ OpenFile(filename) /\ fault' = FALSE
    BY DEF IInv, Files, StopEditingTable
  <1>2. needToSaveAsNewFile' \in BOOLEAN
    <2>1. needToSaveAsNewFile' = (~again /\ (IF apply THEN Rewrite ELSE needToSaveAsNewFile))
      BY DEF StopEditingTable
    <2>. QED
      BY <2>1, Zenon
  <1>3. CASE apply /\ Rewrite /\ disk' = [disk EXCEPT ![filename] = NewFile]
    <2>1. IInv' /\ Session!Save(filename)
      BY <1>1, <1>2, <1>3, SavedAs
    <2>. QED
      BY <1>1, <2>1 DEF Session!Commit
  <1>4. CASE UNCHANGED disk
    <2>1. disk' \in [Name -> Table \cup {NULL}] /\ disk'[filename] # NULL /\ filename \in Name \cup {NULL}
      BY <1>1, <1>4 DEF IInv, Files
    <2>2. IInv' /\ Session!Load(filename)
      BY ONLY <1>1, <1>2, <2>1, Loads
    <2>3. Session!Commit \/ Session!Rollback
      BY <1>1, <1>4, <2>2 DEF Session!Commit, Session!Rollback, Session!Revert
    <2>. QED
      BY <2>2, <2>3
  <1>5. \/ apply /\ Rewrite /\ disk' = [disk EXCEPT ![filename] = NewFile]
        \/ UNCHANGED disk
    <2>1. \/ apply /\ disk' = [disk EXCEPT ![filename] = IF Rewrite THEN NewFile ELSE UpdatedFile]
          \/ UNCHANGED disk
      BY DEF StopEditingTable
    <2>2. CASE apply /\ ~Rewrite /\ disk' = [disk EXCEPT ![filename] = UpdatedFile]
      <3>1. UpdatedFile = disk[filename]
        BY <1>1, <2>2, NotRewritten
      <3>. QED
        BY <1>1, <2>2, <3>1 DEF IInv, Files
    <2>. QED
      BY <2>1, <2>2
  <1>. QED
    BY <1>3, <1>4, <1>5

LEMMA StopNewStep ==
  ASSUME IInv, ~fault, NEW apply \in BOOLEAN, NEW again \in BOOLEAN,
         StopEditingNew(apply, again)
  PROVE  IInv' /\ (Session!Commit \/ Session!Rollback)
  <1>1. /\ isEditingTable /\ dbfHandle = NULL /\ fault' = FALSE
        /\ isEditingTable' = (again /\ dbfHandle' # NULL) /\ isEditingTable' \in BOOLEAN
        /\ disk \in [Name -> Table \cup {NULL}] /\ filename \in Name \cup {NULL}
    BY DEF IInv, Files, StopEditingNew
  <1>2. needToSaveAsNewFile' \in BOOLEAN
    <2>1. needToSaveAsNewFile' = (apply /\ ~isEditingTable' /\ needToSaveAsNewFile)
      BY DEF StopEditingNew
    <2>. QED
      BY <2>1, Zenon
  <1>3. CASE apply /\ CanSaveTo(filename)
    <2>1. /\ filename \in Name /\ filename # NULL /\ disk[filename] = NULL
          /\ disk' = [disk EXCEPT ![filename] = NewFile] /\ OpenFile(filename)
      BY <1>1, <1>3 DEF StopEditingNew, CanSaveTo
    <2>2. IInv' /\ Session!Save(filename)
      BY <1>1, <1>2, <2>1, SavedAs
    <2>. QED
      BY <1>1, <2>1, <2>2 DEF Session!Commit
  <1>4. CASE apply /\ ~CanSaveTo(filename)
    <2>1. /\ UNCHANGED <<disk, dbfHandle, filename, fields, rows, edits, dumped>>
          /\ isEditingTable' = FALSE
      BY <1>1, <1>4 DEF StopEditingNew
    <2>2. Shown' = Shown /\ File' = File
      BY <2>1, ShownStays
    <2>3. Files' /\ Contents' /\ Structure' /\ Untouched'
      BY <1>1, <2>1, <2>2 DEF IInv, Files, Contents, Structure, Untouched
    <2>4. Flags'
      BY <1>1, <1>2, <2>1 DEF IInv, Flags
    <2>5. Session!Commit
      BY <1>1, <2>1, <2>2 DEF Session!Commit
    <2>. QED
      BY <2>3, <2>4, <2>5 DEF IInv
  <1>5. CASE ~apply
    <2>1. /\ UNCHANGED <<disk, dbfHandle, filename>> /\ Reload(NoTable) /\ isEditingTable' = FALSE
          /\ filename' \in Name \cup {NULL} /\ dbfHandle' = NULL
      BY <1>1, <1>5 DEF StopEditingNew
    <2>2. IInv' /\ Shown' = NoTable /\ dumped' = FALSE
      BY <1>1, <1>2, <2>1, Emptied
    <2>3. Session!Rollback
      BY <1>1, <2>1, <2>2 DEF Session!Rollback, Session!Revert, Session!NoTable, NoTable
    <2>. QED
      BY <2>2, <2>3
  <1>. QED
    BY <1>3, <1>4, <1>5

(* The edits, as the session sees them.                                    *)
LEMMA EditIs ==
  ASSUME IInv, Edit
  PROVE  /\ isEditingTable /\ UNCHANGED <<disk, dbfHandle, filename, isEditingTable, dumped>>
         /\ \A t : (dumped \/ Shown' = t) => Session!Edit(t)
         /\ Session!Columns = 1..Len(fields) /\ Session!Records = 1..Len(rows)
         /\ Shown.cols = Len(fields) /\ Len(Shown.rows) = Len(rows)
  <1>1. ShownWell
    BY ShownIs DEF IInv
  <1>. QED
    BY <1>1 DEF Edit, ShownWell, Session!Edit, Session!Columns, Session!Records

LEMMA SetCellStep ==
  ASSUME IInv, NEW i \in 1..Len(rows), NEW j \in 1..Len(fields), NEW v \in Value \cup {Empty},
         EditCellValue(i, j, v)
  PROVE  IInv' /\ Session!SetCell
  <1>1. IInv' /\ (dumped \/ Shown' = [Shown EXCEPT !.rows[i][j] = v])
    BY EditCellKeeps
  <1>2. Edit
    BY DEF EditCellValue
  <1>. QED
    BY <1>1, <1>2, EditIs DEF Session!SetCell

LEMMA InsertRowStep ==
  ASSUME IInv, NEW i \in 1..Len(rows) + 1, EditInsertRow(i)
  PROVE  IInv' /\ Session!InsertRow
  <1>1. IInv' /\ Shown' = [Shown EXCEPT !.rows = InsertAt(@, i, [j \in 1..Shown.cols |-> Empty])]
    BY InsertRowKeeps
  <1>2. Edit
    BY DEF EditInsertRow
  <1>3. Session!Edit([Shown EXCEPT !.rows = InsertAt(@, i, [j \in Session!Columns |-> Empty])])
    BY <1>1, <1>2, EditIs
  <1>4. i \in 1..Len(Shown.rows) + 1
    BY <1>2, EditIs
  <1>. QED
    BY <1>1, <1>3, <1>4 DEF Session!InsertRow, Session!InsertAt, InsertAt

LEMMA DeleteRowStep ==
  ASSUME IInv, NEW i \in 1..Len(rows), EditDeleteRow(i)
  PROVE  IInv' /\ Session!DeleteRow
  <1>1. IInv' /\ Shown' = [Shown EXCEPT !.rows = RemoveAt(@, i)]
    BY DeleteRowKeeps
  <1>2. Edit
    BY DEF EditDeleteRow
  <1>3. Session!Edit([Shown EXCEPT !.rows = RemoveAt(@, i)]) /\ i \in Session!Records
    BY <1>1, <1>2, EditIs
  <1>. QED
    BY <1>1, <1>3 DEF Session!DeleteRow, Session!RemoveAt, RemoveAt

LEMMA InsertFieldStep ==
  ASSUME IInv, NEW j \in 1..Len(fields) + 1, EditInsertField(j)
  PROVE  IInv' /\ Session!InsertField
  <1>1. /\ IInv'
        /\ dumped \/ Shown' = [cols |-> Shown.cols + 1,
                               rows |-> [i \in DOMAIN Shown.rows |-> InsertAt(Shown.rows[i], j, Empty)]]
    BY InsertFieldKeeps
  <1>2. Edit
    BY DEF EditInsertField
  <1>3. /\ Session!Edit([cols |-> Shown.cols + 1,
                         rows |-> [i \in Session!Records |-> InsertAt(Shown.rows[i], j, Empty)]])
        /\ j \in 1..Shown.cols + 1
    <2>1. Session!Records = DOMAIN Shown.rows
      BY DEF Session!Records
    <2>. QED
      BY <1>1, <1>2, <2>1, EditIs
  <1>. QED
    BY <1>1, <1>3 DEF Session!InsertField, Session!InsertAt, InsertAt

LEMMA DeleteFieldStep ==
  ASSUME IInv, NEW j \in 1..Len(fields), EditDeleteField(j)
  PROVE  IInv' /\ Session!DeleteField
  <1>1. /\ IInv'
        /\ dumped \/ Shown' = [cols |-> Shown.cols - 1,
                               rows |-> [i \in DOMAIN Shown.rows |-> RemoveAt(Shown.rows[i], j)]]
    BY DeleteFieldKeeps
  <1>2. Edit
    BY DEF EditDeleteField
  <1>3. /\ Session!Edit([cols |-> Shown.cols - 1,
                         rows |-> [i \in Session!Records |-> RemoveAt(Shown.rows[i], j)]])
        /\ j \in Session!Columns
    <2>1. Session!Records = DOMAIN Shown.rows
      BY DEF Session!Records
    <2>. QED
      BY <1>1, <1>2, <2>1, EditIs
  <1>. QED
    BY <1>1, <1>3 DEF Session!DeleteField, Session!RemoveAt, RemoveAt

LEMMA ReplaceFieldStep ==
  ASSUME IInv, NEW j \in 1..Len(fields), EditReplaceField(j)
  PROVE  IInv' /\ Session!ReplaceField
  <1>1. /\ IInv'
        /\ dumped \/ Shown' = [cols |-> Shown.cols,
                               rows |-> [i \in DOMAIN Shown.rows |->
                                           [Shown.rows[i] EXCEPT ![j] = Empty]]]
    BY ReplaceFieldKeeps
  <1>2. Edit
    BY DEF EditReplaceField
  <1>3. /\ Session!Edit([cols |-> Shown.cols,
                         rows |-> [i \in Session!Records |-> [Shown.rows[i] EXCEPT ![j] = Empty]]])
        /\ j \in Session!Columns
    <2>1. Session!Records = DOMAIN Shown.rows
      BY DEF Session!Records
    <2>. QED
      BY <1>1, <1>2, <2>1, EditIs
  <1>. QED
    BY <1>1, <1>3 DEF Session!ReplaceField

-----------------------------------------------------------------------------
(* The theorems.                                                           *)

LEMMA InitSession == Init => IInv /\ Session!Init
  <1>. SUFFICES ASSUME Init PROVE IInv /\ Session!Init
    OBVIOUS
  <1>1. /\ dbfHandle = NULL /\ filename = NULL /\ isEditingTable = FALSE
        /\ needToSaveAsNewFile \in BOOLEAN /\ fields = <<>> /\ rows = <<>>
        /\ edits = 0 /\ dumped = FALSE /\ fault = FALSE
        /\ disk \in [Name -> Table \cup {NULL}]
    BY TableAssumption DEF Init
  <1>2. Len(fields) = 0 /\ Len(rows) = 0 /\ fields \in Seq(FieldOf(File)) /\ rows \in Seq(RowOf(File))
        /\ 1..0 = {} /\ 0 <= MaxFields /\ 0 <= MaxRows
    BY <1>1, EmptySeq, TableAssumption
  <1>3. Files /\ Flags
    <2>1. edits \in 0..MaxEdits
      BY <1>1, TableAssumption
    <2>2. Flags
      BY <1>1, <2>1, Zenon DEF Flags
    <2>. QED
      BY <1>1, <2>2 DEF Files
  <1>4. Contents /\ Structure /\ Untouched
    BY <1>1, <1>2 DEF Contents, Fit, InLine, Structure, Untouched
  <1>5. Shown = NoTable
    BY <1>1, <1>2 DEF Shown, NoTable
  <1>. QED
    BY <1>1, <1>3, <1>4, <1>5 DEF IInv, Session!Init, Session!NoTable, NoTable

(* Every step keeps the invariant, and is a step of the session or one that*)
(* it does not see.                                                        *)
LEMMA SessionStep == IInv /\ [Next]_vars => IInv' /\ [Session!Next]_Session!vars
  <1>. SUFFICES ASSUME IInv, [Next]_vars PROVE IInv' /\ [Session!Next]_Session!vars
    OBVIOUS
  <1>1. DOMAIN rows = 1..Len(rows) /\ DOMAIN fields = 1..Len(fields)
    BY FitIs DEF IInv, Contents
  <1>2. ASSUME ~fault, NEW n \in Name, Open(n) \/ CreateNew(n) \/ SaveAs(n) \/ Dump(n)
        PROVE  IInv' /\ Session!Next
    BY <1>2, OpenStep, CreateNewStep, SaveAsStep, DumpStep DEF Session!Next
  <1>3. ASSUME ~fault, Close \/ StartEditingTable \/ EditClear
        PROVE  IInv' /\ Session!Next
    BY <1>3, CloseStep, StartStep, ClearStep DEF Session!Next
  <1>4. ASSUME ~fault, Save
        PROVE  IInv' /\ Session!Next
    <2>1. StopEditingTable(TRUE, TRUE) \/ StopEditingNew(TRUE, TRUE)
      BY <1>4 DEF Save
    <2>. QED
      BY <1>4, <2>1, StopStep, StopNewStep DEF Session!Next
  <1>5. ASSUME ~fault, NEW b \in BOOLEAN, StopEditingTable(b, FALSE) \/ StopEditingNew(b, FALSE)
        PROVE  IInv' /\ Session!Next
    BY <1>5, StopStep, StopNewStep DEF Session!Next
  <1>6. ASSUME NEW i \in 1..Len(rows), get_CellValue(i)
        PROVE  IInv' /\ UNCHANGED Session!vars
    BY <1>6, ReadKeeps DEF get_CellValue, Session!vars
  <1>7. ASSUME NEW i \in 1..Len(rows), EditDeleteRow(i)
        PROVE  IInv' /\ Session!Next
    BY <1>7, DeleteRowStep DEF Session!Next
  <1>8. ASSUME NEW i \in 1..Len(rows), NEW j \in 1..Len(fields), NEW v \in Value \cup {Empty},
               EditCellValue(i, j, v)
        PROVE  IInv' /\ Session!Next
    BY <1>8, SetCellStep DEF Session!Next
  <1>9. ASSUME NEW i \in 1..Len(rows) + 1, EditInsertRow(i)
        PROVE  IInv' /\ Session!Next
    BY <1>9, InsertRowStep DEF Session!Next
  <1>10. ASSUME NEW j \in 1..Len(fields) + 1, EditInsertField(j)
         PROVE  IInv' /\ Session!Next
    BY <1>10, InsertFieldStep DEF Session!Next
  <1>11. ASSUME NEW j \in 1..Len(fields), EditDeleteField(j) \/ EditReplaceField(j)
         PROVE  IInv' /\ Session!Next
    BY <1>11, DeleteFieldStep, ReplaceFieldStep DEF Session!Next
  <1>12. CASE UNCHANGED vars
    <2>1. UNCHANGED <<disk, dbfHandle, filename, isEditingTable, needToSaveAsNewFile, fields, rows,
                      edits, dumped, fault>>
      BY <1>12 DEF vars
    <2>2. Shown' = Shown /\ File' = File
      BY <2>1, ShownStays
    <2>3. Files' /\ Flags' /\ Contents' /\ Structure' /\ Untouched'
      BY <2>1, <2>2 DEF IInv, Files, Flags, Contents, Structure, Untouched
    <2>. QED
      BY <2>1, <2>2, <2>3 DEF IInv, Session!vars
  <1>13. CASE Next
    BY ONLY <1>1, <1>2, <1>3, <1>4, <1>5, <1>6, <1>7, <1>8, <1>9, <1>10, <1>11, <1>13 DEF Next
  <1>. QED
    BY <1>12, <1>13

(* Rows, fields and their cache, the file and the flags of an editing       *)
(* session keep the relations of IInv in whatever order CTableClass is      *)
(* called.                                                                  *)
THEOREM Inductive == Spec => []IInv
  <1>1. Init => IInv
    BY InitSession
  <1>2. IInv /\ [Next]_vars => IInv'
    BY SessionStep
  <1>. QED
    BY <1>1, <1>2, PTL DEF Spec

LEMMA TypesHold == IInv => TypeOK
  <1>. SUFFICES ASSUME IInv PROVE TypeOK
    OBVIOUS
  <1>1. /\ Len(fields) \in Nat /\ fields \in Seq(FieldOf(File)) /\ Len(fields) <= MaxFields
        /\ Len(rows) \in Nat /\ DOMAIN rows = 1..Len(rows) /\ Len(rows) <= MaxRows
        /\ \A i \in 1..Len(rows) : rows[i] \in RowOf(File)
        /\ \A j \in 1..Len(fields) : fields[j] \in FieldOf(File)
    BY FitIs DEF IInv, Contents, Fit
  <1>2. fields \in Seq([oldIndex : 0..File.cols, isUpdated : BOOLEAN])
    <2>. DEFINE F == [oldIndex : 0..File.cols, isUpdated : BOOLEAN]
    <2>1. \A j \in 1..Len(fields) : fields[j] \in F
      BY <1>1 DEF FieldOf
    <2>. HIDE DEF F
    <2>2. fields \in [1..Len(fields) -> F]
      BY <1>1, <2>1, LenProperties
    <2>3. fields \in Seq(F)
      BY <1>1, <2>2, IsASeq
    <2>. QED
      BY <2>3 DEF F
  <1>3. \A i \in 1..Len(rows) :
          /\ rows[i].row # NULL => rows[i].row \in Seq(Value \cup {Empty, NULL})
          /\ rows[i].status \in {"clean", "inserted", "modified"}
          /\ rows[i].oldIndex \in 0..Len(File.rows)
    BY <1>1 DEF RowOf, Status, Cell
  <1>4. /\ disk \in [Name -> Table \cup {NULL}]
        /\ {dbfHandle, filename} \subseteq Name \cup {NULL}
        /\ dbfHandle # NULL => dbfHandle = filename /\ disk[filename] # NULL
        /\ {isEditingTable, needToSaveAsNewFile, dumped, fault} \subseteq BOOLEAN
        /\ edits \in 0..MaxEdits
    BY DEF IInv, Files, Flags
  <1>. QED
    BY <1>1, <1>2, <1>3, <1>4 DEF TypeOK, File

(* The table is of its types, and rows and fields never refer to a record  *)
(* or a column that the open file does not have, so that ReadRecord stays  *)
(* within the file.                                                        *)
THEOREM TypeCorrect == Spec => []TypeOK
  BY Inductive, TypesHold, PTL

LEMMA AlignedHolds == IInv => Aligned
  <1>. SUFFICES ASSUME IInv, ~dumped PROVE Aligned
    BY DEF Aligned
  <1>1. /\ ~fault /\ InLine(fields, rows)
        /\ DOMAIN fields = 1..Len(fields) /\ DOMAIN rows = 1..Len(rows)
        /\ \A i \in 1..Len(rows) : rows[i] \in RowOf(File)
    BY FitIs DEF IInv, Contents
  <1>2. ASSUME NEW i \in 1..Len(rows), rows[i].row # NULL
        PROVE  Len(rows[i].row) = Len(fields) /\ NULL \notin ToSet(rows[i].row)
    <2>1. rows[i].row \in Seq(Cell)
      BY <1>1, <1>2 DEF RowOf
    <2>2. Len(rows[i].row) = Len(fields) /\ \A j \in 1..Len(fields) : rows[i].row[j] # NULL
      BY <1>1, <1>2 DEF InLine, RowInLine
    <2>3. DOMAIN rows[i].row = 1..Len(fields)
      BY <2>1, <2>2, LenProperties
    <2>. QED
      BY <2>2, <2>3 DEF ToSet
  <1>3. \A i \in 1..Len(rows) : rows[i].row = NULL =>
          rows[i].oldIndex > 0 /\ \A j \in 1..Len(fields) : fields[j].oldIndex > 0
    BY <1>1 DEF InLine, RowInLine
  <1>. QED
    BY <1>1, <1>2, <1>3 DEF Aligned

(* No sequence of insertions, deletions and replacements of rows and fields*)
(* makes a cached row slip against the fields, or leaves one that can no   *)
(* longer be read from the file; EditInsertField never meets a null row.   *)
THEOREM RowsStayAligned == Spec => []Aligned
  BY Inductive, AlignedHolds, PTL

(* CTableClass implements TableSession: through reading on demand, old     *)
(* indices and the detour by a temporary file, get_CellValue shows every   *)
(* edit at once, saving writes what was shown and nothing else changes a   *)
(* file.                                                                   *)
THEOREM TableIsASession == Spec => ImplementsSession
  <1>1. Init => Session!Init
    BY InitSession
  <1>2. IInv /\ [Next]_vars => [Session!Next]_Session!vars
    BY SessionStep
  <1>. QED
    BY <1>1, <1>2, Inductive, PTL DEF Spec, ImplementsSession, Session!Spec
=============================================================================
