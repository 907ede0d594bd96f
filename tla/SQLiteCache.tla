----------------------------- MODULE SQLiteCache -----------------------------
(***************************************************************************)
(* The database of map tiles (src/Tiles/SQLiteCache.cpp): opening it,      *)
(* writing tiles to it by the caching threads, removing and looking up     *)
(* tiles, and renaming it.  A tile has a piece for each subprovider of its *)
(* provider; a piece is a row of the table Tiles and an image in TilesData *)
(* that has the same id.                                                   *)
(*                                                                         *)
(* Tiles differ by provider only, as other keys would not make a           *)
(* difference.  A statement is one step.  TileCacher models the queue of   *)
(* tiles to write; names that it has, too, begin with Db here.             *)
(***************************************************************************)
EXTENDS Naturals, Sequences, SequencesExt, FiniteSets

CONSTANTS
  Thread,      \* the caching threads: of the map and of prefetching
  File,        \* names of databases
  Provider,    \* providers
  Pieces,      \* the subproviders of each, a sequence
  NULL,        \* nothing
  Broken,      \* a connection that can do nothing
  maxSizeDisk, SIZE_TO_CLEAR, \* of tiles
  CheckEvery,  \* the size is checked when so many pieces have been added
  MaxOps       \* bound on the calls

Row        == [id : Nat, type : Provider, time : Nat]
Image      == [id : Nat, type : Provider]
Table      == [rows : SUBSET Row, data : SUBSET Image]
Connection == [file : File, last : Nat]

(* A provider is one of its subproviders.                                  *)
ASSUME SQLiteCacheAssumption ==
  /\ Pieces \in [Provider -> Seq(Provider)]
  /\ \A p \in Provider : p \in ToSet(Pieces[p])
  /\ CheckEvery \in Nat \ {0} /\ MaxOps \in Nat
  /\ NULL \notin Thread /\ NULL \notin Table
  /\ NULL \notin Connection /\ Broken \notin Connection /\ NULL # Broken

VARIABLES
  db,           \* [File -> NULL or Table]
  conn,         \* m_conn: NULL, Broken, or the file and the last id inserted
  dbName,       \* m_dbName
  openNeeded, createNeeded,
  section,      \* the thread that holds the lock, or NULL
  work,         \* of each caching thread: where it is, its tile and piece
  renaming,     \* where set_DbName is
  addedCount, clock, ops,
  (* for the properties *)
  crashed,
  lapses        \* what has happened after which less can be expected

dbVars == <<db, conn, dbName, openNeeded, createNeeded, section, work, renaming,
            addedCount, clock, ops, crashed, lapses>>

Empty == [rows |-> {}, data |-> {}]
Job  == [at : {"row", "image", "check", "clear"}, tile : Provider, piece : Nat]
Idle == [at |-> "idle", tile |-> NULL, piece |-> 0]

DbInit ==
  /\ db \in [File -> {NULL}] /\ dbName \in File
  /\ conn = NULL /\ openNeeded = TRUE /\ createNeeded = TRUE
  /\ section = NULL /\ work = [t \in Thread |-> Idle] /\ renaming = "no"
  /\ addedCount = 0 /\ clock = 0 /\ ops = 0
  /\ crashed = FALSE /\ lapses = {}

-----------------------------------------------------------------------------
(* The connection.                                                         *)

Connected == conn \notin {NULL, Broken}

(* The present connection is closed; the new one may fail.                 *)
CreateDatabase ==
  \/ /\ conn' = [file |-> dbName, last |-> 0]
     /\ db' = [db EXCEPT ![dbName] = IF @ = NULL THEN Empty ELSE @]
  \/ conn' = Broken /\ UNCHANGED db

(* Initialize(OpenIfExists) does it once, whether there is a file or not.  *)
OpenIfExists ==
  /\ openNeeded' = FALSE
  /\ IF openNeeded /\ db[dbName] # NULL THEN CreateDatabase ELSE UNCHANGED <<conn, db>>

OpenOrCreate ==
  /\ createNeeded' = FALSE
  /\ IF createNeeded THEN CreateDatabase ELSE UNCHANGED <<conn, db>>

-----------------------------------------------------------------------------
(* What is in the database f.                                              *)

Ids(rows) == {row.id : row \in rows}

(* The id of a new row is the largest one and one.                         *)
NewId(rows) ==
  IF rows = {} THEN 1 ELSE 1 + CHOOSE m \in Ids(rows) : \A i \in Ids(rows) : i <= m

(* Rows are deleted, and their images by a trigger.                        *)
Without(table, gone) ==
  [rows |-> table.rows \ gone, data |-> {x \in table.data : x.id \notin Ids(gone)}]

Delete(gone) ==
  IF Connected THEN db' = [db EXCEPT ![conn.file] = Without(@, gone)] ELSE UNCHANGED db

RowsOf(f, types) == {row \in db[f].rows : row.type \in types}

(* The image of a piece is looked for under the id of its first row.       *)
HasImage(f, type) ==
  LET rows == RowsOf(f, {type})
      first == CHOOSE row \in rows : \A other \in rows : row.id <= other.id
  IN rows # {} /\ \E x \in db[f].data : x.id = first.id

get_Tile(f, p) == \A i \in DOMAIN Pieces[p] : HasImage(f, Pieces[p][i])

(* Rows of the provider itself are looked for, not of its subproviders.    *)
get_Exists(f, p) == RowsOf(f, {p}) # {}

-----------------------------------------------------------------------------
(* A caching thread, DoCaching.                                            *)

Go(t, at) == work' = [work EXCEPT ![t].at = at]
Free == section = NULL

(* If there is no database the tile is given up.                           *)
DoCaching(t, p) ==
  /\ work[t] = Idle /\ Free
  /\ OpenIfExists
  /\ work' = [work EXCEPT ![t] = IF conn' = NULL THEN Idle
                                 ELSE [at |-> "row", tile |-> p, piece |-> 1]]
  /\ UNCHANGED <<dbName, createNeeded, section, renaming, addedCount, clock, crashed, lapses>>

(* After a piece there may be another; then the lock is released.          *)
NextPiece(t) ==
  IF work[t].piece < Len(Pieces[work[t].tile])
    THEN /\ work' = [work EXCEPT ![t] = [at |-> "row", tile |-> @.tile, piece |-> @.piece + 1]]
         /\ section' = t
    ELSE Go(t, "check") /\ section' = NULL

Piece(t) == Pieces[work[t].tile][work[t].piece]

AddRow(t) ==
  LET id == NewId(db[conn.file].rows)
      row == [id |-> id, type |-> Piece(t), time |-> clock']
  IN /\ db' = [db EXCEPT ![conn.file].rows = @ \cup {row}]
     /\ conn' = [conn EXCEPT !.last = id]

(* REPLACE: an image that has the id is overwritten.                       *)
Overwritten(data, image) == {x \in data : x.id # image.id} \cup {image}

(* Mutant of InsertRow: it goes on if the statement cannot be prepared.    *)
InsertRowGoesOn(t) ==
  /\ work[t].at = "row" /\ section \in {NULL, t} /\ Go(t, "image") /\ section' = t
  /\ IF ~Connected THEN UNCHANGED <<db, conn, clock>>
     ELSE /\ clock' \in {clock, clock + 1}
          /\ AddRow(t)
  /\ UNCHANGED <<dbName, openNeeded, createNeeded, renaming, addedCount, crashed, lapses>>

(* The row.  Its result is not looked at; if the statement cannot be       *)
(* prepared there is no image, either.                                     *)
InsertRow(t) ==
  /\ work[t].at = "row" /\ section \in {NULL, t}
  /\ IF ~Connected THEN NextPiece(t) /\ UNCHANGED <<db, conn, clock, lapses>>
     ELSE /\ Go(t, "image") /\ section' = t
          /\ \/ /\ clock' \in {clock, clock + 1}
                /\ AddRow(t)
                /\ UNCHANGED lapses
             \/ lapses' = lapses \cup {"failed"} /\ UNCHANGED <<db, conn, clock>>
  /\ UNCHANGED <<dbName, openNeeded, createNeeded, renaming, addedCount, crashed>>

(* The image, with the id that the present connection has inserted last.   *)
InsertImage(t) ==
  /\ work[t].at = "image"
  /\ IF conn = NULL THEN crashed' = TRUE /\ UNCHANGED <<db, section, work, addedCount, lapses>>
     ELSE /\ NextPiece(t) /\ UNCHANGED crashed
          /\ \/ /\ Connected
                /\ db' = [db EXCEPT ![conn.file].data =
                            Overwritten(@, [id |-> conn.last, type |-> Piece(t)])]
                /\ addedCount' = addedCount + 1
                /\ UNCHANGED lapses
             \/ lapses' = lapses \cup {"failed"} /\ UNCHANGED <<db, addedCount>>
  /\ UNCHANGED <<conn, dbName, openNeeded, createNeeded, renaming, clock>>

(* AutoClear: first the size of all tiles.                                 *)
CheckSize(t) ==
  /\ work[t].at = "check"
  /\ IF addedCount % CheckEvery # 0
       THEN work' = [work EXCEPT ![t] = Idle] /\ UNCHANGED <<conn, db, openNeeded>>
       ELSE /\ Free /\ OpenIfExists
            /\ IF conn' \notin {NULL, Broken} /\ Cardinality(db'[conn'.file].rows) > maxSizeDisk
                 THEN Go(t, "clear") ELSE work' = [work EXCEPT ![t] = Idle]
  /\ UNCHANGED <<dbName, createNeeded, section, renaming, addedCount, clock, crashed, lapses>>

(* The rows are added up from the oldest one, until they are more than is  *)
(* to be removed; then the newer ones are.                                 *)
Limit(rows) ==
  LET upTo(time) == {row \in rows : row.time <= time}
      enough == {time \in {row.time : row \in rows} : Cardinality(upTo(time)) > SIZE_TO_CLEAR}
  IN IF enough = {} THEN NULL ELSE CHOOSE time \in enough : \A other \in enough : time <= other

Newer(rows) == {row \in rows : Limit(rows) = NULL \/ row.time > Limit(rows)}

AutoClear(t) ==
  /\ work[t].at = "clear" /\ Free
  /\ Delete(Newer(db[conn.file].rows))
  /\ work' = [work EXCEPT ![t] = Idle]
  /\ UNCHANGED <<conn, dbName, openNeeded, createNeeded, section, renaming, addedCount,
                 clock, crashed, lapses>>

-----------------------------------------------------------------------------
(* The map.                                                                *)

cache == <<section, work, addedCount, clock, crashed>>

(* Mutant of Initialize: the lock is not taken.                            *)
InitializeUnlocked(create) ==
  /\ renaming = "no"
  /\ IF create THEN OpenOrCreate /\ UNCHANGED openNeeded
     ELSE OpenIfExists /\ UNCHANGED createNeeded
  /\ UNCHANGED <<dbName, renaming, lapses, cache>>

(* Before tiles are loaded: to write them, and to look for tiles.          *)
Initialize(create) ==
  /\ Free /\ renaming = "no"
  /\ IF create THEN OpenOrCreate /\ UNCHANGED openNeeded
     ELSE OpenIfExists /\ UNCHANGED createNeeded
  /\ UNCHANGED <<dbName, renaming, lapses, cache>>

(* Mutant of Clear: the lock is not taken.                                 *)
ClearUnlocked(types) ==
  /\ renaming = "no" /\ ~openNeeded /\ Connected
  /\ Delete(RowsOf(conn.file, types))
  /\ UNCHANGED <<conn, dbName, openNeeded, createNeeded, renaming, lapses, cache>>

(* Clear, of a provider or all, after Initialize.                          *)
Clear(types) ==
  /\ Free /\ renaming = "no" /\ ~openNeeded /\ Connected
  /\ Delete(RowsOf(conn.file, types))
  /\ UNCHANGED <<conn, dbName, openNeeded, createNeeded, renaming, lapses, cache>>

(* set_DbName does not take the lock.                                      *)
set_DbName(f) ==
  /\ renaming = "no" /\ f # dbName
  /\ dbName' = f /\ renaming' = "close"
  /\ UNCHANGED <<db, conn, openNeeded, createNeeded, lapses, cache>>

(* A thread is between the row and the image.                              *)
Interrupted == IF \E t \in Thread : work[t].at = "image" THEN {"renamed"} ELSE {}

CloseConnection ==
  /\ renaming = "close"
  /\ conn' = NULL /\ renaming' = "open"
  /\ lapses' = lapses \cup Interrupted
  /\ UNCHANGED <<db, dbName, openNeeded, createNeeded, cache>>

(* Mutant of OpenConnection: it is opened when it is needed.               *)
OpenConnectionLater ==
  /\ renaming = "open"
  /\ renaming' = "no"
  /\ UNCHANGED <<conn, db, dbName, openNeeded, createNeeded, lapses, cache>>

OpenConnection ==
  /\ renaming = "open"
  /\ CreateDatabase
  /\ renaming' = "no"
  /\ lapses' = lapses \cup Interrupted
  /\ UNCHANGED <<dbName, openNeeded, createNeeded, cache>>

(* A database that was made before is put at its place.                    *)
FileAppears(f) ==
  /\ db[f] = NULL
  /\ db' = [db EXCEPT ![f] = Empty]
  /\ lapses' = lapses \cup IF openNeeded THEN {} ELSE {"late"}
  /\ UNCHANGED <<conn, dbName, openNeeded, createNeeded, renaming, cache>>

-----------------------------------------------------------------------------
Caching == \E t \in Thread : InsertRow(t) \/ InsertImage(t) \/ CheckSize(t) \/ AutoClear(t)

Call ==
  \/ \E t \in Thread, p \in Provider : DoCaching(t, p)
  \/ \E create \in BOOLEAN : Initialize(create)
  \/ Clear(Provider) \/ \E p \in Provider : Clear({p})
  \/ \E f \in File : set_DbName(f) \/ FileAppears(f)

DbNext ==
  /\ ~crashed
  /\ \/ Call /\ ops < MaxOps /\ ops' = ops + 1
     \/ (Caching \/ CloseConnection \/ OpenConnection) /\ UNCHANGED ops

DbSpec == DbInit /\ [][DbNext]_dbVars

-----------------------------------------------------------------------------
(* Type correctness.                                                       *)
DbTypeOK ==
  /\ db \in [File -> Table \cup {NULL}] /\ dbName \in File
  /\ conn \in Connection \cup {NULL, Broken} /\ (Connected => db[conn.file] # NULL)
  /\ openNeeded \in BOOLEAN /\ createNeeded \in BOOLEAN /\ crashed \in BOOLEAN
  /\ section \in Thread \cup {NULL} /\ renaming \in {"no", "close", "open"}
  /\ work \in [Thread -> Job \cup {Idle}]
  /\ \A t \in Thread : work[t] # Idle => work[t].piece \in DOMAIN Pieces[work[t].tile]
  /\ addedCount \in Nat /\ clock \in Nat /\ ops \in 0..MaxOps
  /\ lapses \subseteq {"failed", "renamed", "late"}

(* Between tiles, and if no statement has failed and the database was not  *)
(* renamed while a tile was written.                                       *)
Whole == section = NULL /\ lapses \cap {"failed", "renamed"} = {}

ImageOf(row) == [id |-> row.id, type |-> row.type]

(* Then there is one image for each row, its own.                          *)
Paired ==
  Whole => \A f \in File : db[f] # NULL =>
             /\ db[f].data = {ImageOf(row) : row \in db[f].rows}
             /\ \A x, y \in db[f].rows : x.id = y.id => x = y

(* And what prefetching takes to be there will be found when it is needed, *)
(* for providers that are all of their subproviders.                       *)
ExistingAreFound ==
  Whole => \A f \in File, p \in Provider :
    db[f] # NULL /\ ToSet(Pieces[p]) = {p} => (get_Exists(f, p) <=> get_Tile(f, p))

(* Once a database has been asked for, it is the one of the present name,  *)
(* unless its file was put there too late.                                 *)
DatabaseIsUsed ==
  renaming = "no" =>
    /\ Connected => conn.file = dbName
    /\ db[dbName] # NULL /\ ~openNeeded /\ "late" \notin lapses => conn # NULL

(* A null connection is used only if the database is renamed while a tile  *)
(* is being written.                                                       *)
CrashesOnlyRenamed == crashed => "renamed" \in lapses

-----------------------------------------------------------------------------
(* What a comment says and the code does not do.                           *)

(* "Removes the oldest tiles if the size of the db is exceeding the limit" *)
(* (SQLiteCache.cpp:251).                                                  *)
OldestAreRemoved ==
  [][\A t \in Thread : AutoClear(t) /\ Connected =>
       \A x, y \in db[conn.file].rows :
         x \in db'[conn.file].rows /\ y \notin db'[conn.file].rows => x.time >= y.time]_dbVars

(* Tiles that exist need not be downloaded (Tiles.cpp:1687): but those of  *)
(* a hybrid provider lose a piece when its satellite images are cleared.   *)
HybridsAreFound ==
  Whole => \A f \in File, p \in Provider :
    db[f] # NULL /\ get_Exists(f, p) => get_Tile(f, p)
=============================================================================
