----------------------------- MODULE TileCacher -----------------------------
(***************************************************************************)
(* How loaded tiles get to the SQLite cache: the TileCacher of the main    *)
(* loader (src/Tiles/TileCacher.cpp), whose queue is filled by the loading *)
(* tasks and passed on, one tile at a time, to a pool with one thread,     *)
(* and the coarse lock SQLiteCache::m_locked, under which CTiles::LoadTiles*)
(* reads the database.                                                     *)
(*                                                                         *)
(* A tile written keeps the chain going: its task calls Run for the next.  *)
(* The database (SQLiteCache::DoCaching) writes a tile or, when it has not *)
(* been opened, does nothing.  The disk cache in use, m_useDiskCache, is   *)
(* the default.                                                            *)
(***************************************************************************)
EXTENDS Naturals, Sequences, SequencesExt

CONSTANTS
  Tile,      \* the tiles that are scheduled, each once
  Loader,    \* threads that run loading tasks
  NoTile,
  MaxLoads   \* bound on the calls of CTiles::LoadTiles

ASSUME TileCacherAssumption ==
  /\ NoTile \notin Tile
  /\ {"ui", "cacher"} \cap Loader = {}
  /\ MaxLoads \in Nat

VARIABLES
  queue,      \* TileCacher::queue
  stopped,    \* TileCacher::stopped
  requests,   \* the tasks waiting in myPool
  cur,        \* the tile of the task that runs
  m_locked, m_conn,  \* SQLiteCache: the coarse lock; the database is open
  doDiskCaching,     \* CTiles::m_doDiskCaching
  loads,      \* calls of LoadTiles
  at,         \* [Actor -> where it is]
  ref,        \* the tiles that have the reference ScheduleForCaching takes
  (* for the properties *)
  accepted, handled, written,  \* see TileWriter
  neglected,  \* the queue has been left without a call of Run
  late        \* tiles written after the cacher was stopped

Actor == Loader \cup {"ui", "cacher"}
Fresh(t) == \A i \in DOMAIN accepted : accepted[i] # t

cacherVars == <<queue, stopped, requests, cur>>
tilesVars == <<m_locked, m_conn, doDiskCaching, loads>>
doneVars == <<handled, written, late>>
vars == <<cacherVars, tilesVars, at, ref, accepted, doneVars, neglected>>

Init ==
  /\ queue = <<>> /\ stopped = FALSE
  /\ requests = <<>> /\ cur = NoTile
  /\ m_locked = FALSE /\ m_conn = FALSE /\ doDiskCaching = FALSE /\ loads = 0
  /\ at = [a \in Actor |-> "idle"]
  /\ ref = {}
  /\ accepted = <<>> /\ handled = <<>> /\ written = {}
  /\ neglected = FALSE /\ late = 0

Goto(a, l) == at' = [at EXCEPT ![a] = l]

-----------------------------------------------------------------------------
(* The loading tasks.                                                      *)

(* ScheduleForCaching takes a reference and puts the tile into the queue.  *)
Enqueue(t) ==
  /\ doDiskCaching /\ Fresh(t)
  /\ ref' = ref \cup {t}
  /\ queue' = Append(queue, t)
  /\ accepted' = Append(accepted, t)

(* A displayed tile: AddTileWithCaching and RunCaching.                    *)
AddTileWithCaching(l, t) ==
  /\ at[l] = "idle"
  /\ Enqueue(t)
  /\ Goto(l, "run")
  /\ UNCHANGED <<stopped, requests, cur, tilesVars, doneVars, neglected>>

(* An outdated tile: AddTileOnlyCaching, and no RunCaching.                *)
AddTileOnlyCaching(l, t) ==
  /\ at[l] = "idle"
  /\ Enqueue(t)
  /\ neglected' = TRUE
  /\ UNCHANGED <<stopped, requests, cur, tilesVars, at, doneVars>>

-----------------------------------------------------------------------------
(* TileCacher::Run, by whichever thread.                                   *)

Run(a) ==
  /\ at[a] = "run"
  /\ Goto(a, IF m_locked THEN "idle" ELSE "post")
  /\ UNCHANGED <<cacherVars, tilesVars, ref, accepted, doneVars, neglected>>

(* Mutant of Post: the tile is not taken out of the queue.                 *)
PostKeepsTile(a) ==
  /\ at[a] = "post"
  /\ IF queue = <<>> THEN UNCHANGED <<requests, neglected>>
     ELSE requests' = Append(requests, Head(queue)) /\ neglected' = FALSE
  /\ Goto(a, "idle")
  /\ UNCHANGED <<queue, stopped, cur, tilesVars, ref, accepted, doneVars>>

(* Under queueLock: the next tile becomes a task of the pool.              *)
Post(a) ==
  /\ at[a] = "post"
  /\ IF queue = <<>>
       THEN UNCHANGED <<queue, requests, neglected>>
       ELSE /\ queue' = Tail(queue)
            /\ requests' = Append(requests, Head(queue))
            /\ neglected' = FALSE
  /\ Goto(a, "idle")
  /\ UNCHANGED <<stopped, cur, tilesVars, ref, accepted, doneVars>>

-----------------------------------------------------------------------------
(* CachingTask::DoTask on the thread of the pool.                          *)

(* Mutant of Take: the stop flag is not tested.                            *)
TakeAlways ==
  /\ at["cacher"] = "idle" /\ requests # <<>>
  /\ requests' = Tail(requests)
  /\ cur' = Head(requests) /\ Goto("cacher", "write")
  /\ UNCHANGED <<queue, stopped, tilesVars, ref, accepted, doneVars, neglected>>

(* A task that finds the cacher stopped deletes itself: its tile is        *)
(* neither written nor released.                                           *)
Take ==
  /\ at["cacher"] = "idle" /\ requests # <<>>
  /\ requests' = Tail(requests)
  /\ IF stopped
       THEN handled' = Append(handled, Head(requests)) /\ UNCHANGED <<cur, at>>
       ELSE cur' = Head(requests) /\ Goto("cacher", "write") /\ UNCHANGED handled
  /\ UNCHANGED <<queue, stopped, tilesVars, ref, accepted, written, late, neglected>>

(* Mutant of DoTask: the next tile is not asked for.                       *)
DoTaskWithoutRun ==
  /\ at["cacher"] = "write"
  /\ written' = IF m_conn THEN written \cup {cur} ELSE written
  /\ ref' = IF m_conn THEN ref \ {cur} ELSE ref
  /\ late' = IF m_conn /\ stopped THEN late + 1 ELSE late
  /\ handled' = Append(handled, cur)
  /\ cur' = NoTile
  /\ Goto("cacher", "idle")
  /\ UNCHANGED <<queue, stopped, requests, tilesVars, accepted, neglected>>

(* The tile is written and released if there is a database; then the task  *)
(* runs the next.                                                          *)
DoTask ==
  /\ at["cacher"] = "write"
  /\ written' = IF m_conn THEN written \cup {cur} ELSE written
  /\ ref' = IF m_conn THEN ref \ {cur} ELSE ref
  /\ late' = IF m_conn /\ stopped THEN late + 1 ELSE late
  /\ handled' = Append(handled, cur)
  /\ cur' = NoTile
  /\ Goto("cacher", "run")
  /\ UNCHANGED <<queue, stopped, requests, tilesVars, accepted, neglected>>

-----------------------------------------------------------------------------
(* The UI thread.                                                          *)

put_DoCaching ==
  /\ at["ui"] = "idle"
  /\ doDiskCaching' = ~doDiskCaching
  /\ UNCHANGED <<cacherVars, m_locked, m_conn, loads, at, ref, accepted, doneVars, neglected>>

(* LoadTiles opens or creates the database if tiles are to be cached, and  *)
(* locks it.                                                               *)
LoadTiles ==
  /\ at["ui"] = "idle" /\ loads < MaxLoads
  /\ loads' = loads + 1
  /\ m_conn' = (m_conn \/ doDiskCaching)
  /\ m_locked' = TRUE
  /\ Goto("ui", "load")
  /\ UNCHANGED <<cacherVars, doDiskCaching, ref, accepted, doneVars, neglected>>

(* A snapshot runs the caching of the prefetch loader, not of this one.    *)
TilesLoaded(isSnapshot) ==
  /\ at["ui"] = "load"
  /\ m_locked' = FALSE
  /\ Goto("ui", IF isSnapshot THEN "idle" ELSE "run")
  /\ neglected' = (neglected \/ (isSnapshot /\ queue # <<>>))
  /\ UNCHANGED <<cacherVars, m_conn, doDiskCaching, loads, ref, accepted, doneVars>>

(* StopCaching.  The flag is never reset.                                  *)
StopCaching ==
  /\ at["ui"] = "idle"
  /\ stopped' = TRUE
  /\ Goto("ui", "gone")
  /\ UNCHANGED <<queue, requests, cur, tilesVars, ref, accepted, doneVars, neglected>>

-----------------------------------------------------------------------------
Cache == Take \/ DoTask \/ Run("cacher") \/ Post("cacher")
Serve == (\E b \in BOOLEAN : TilesLoaded(b)) \/ Run("ui") \/ Post("ui")

Next ==
  \/ \E l \in Loader, t \in Tile : AddTileWithCaching(l, t) \/ AddTileOnlyCaching(l, t)
  \/ \E l \in Loader : Run(l) \/ Post(l)
  \/ Cache \/ Serve
  \/ put_DoCaching \/ LoadTiles \/ StopCaching

Spec == Init /\ [][Next]_vars

(* A thread that is in Run or LoadTiles goes on, and so does the pool.     *)
FairSpec ==
  /\ Spec
  /\ WF_vars(Cache) /\ WF_vars(Serve)
  /\ \A l \in Loader : WF_vars(Run(l) \/ Post(l))

-----------------------------------------------------------------------------
Running == IF cur = NoTile THEN <<>> ELSE <<cur>>

(* Type correctness.                                                       *)
TypeOK ==
  /\ queue \in Seq(Tile) /\ requests \in Seq(Tile) /\ cur \in Tile \cup {NoTile}
  /\ {stopped, m_locked, m_conn, doDiskCaching, neglected} \subseteq BOOLEAN
  /\ loads \in 0..MaxLoads /\ late \in Nat
  /\ at \in [Actor -> {"idle", "run", "post", "write", "load", "gone"}]
  /\ cur # NoTile <=> at["cacher"] = "write"
  /\ ref \subseteq Tile /\ written \subseteq Tile
  /\ accepted \in Seq(Tile) /\ handled \in Seq(Tile)

(* From the loading task over queue, pool and thread no tile is lost,      *)
(* overtaken or written twice, in whatever order the threads call Run.     *)
InOrder == accepted = handled \o Running \o requests \o queue

(* The cacher does what TileWriter promises.                               *)
Writer == INSTANCE TileWriter
ImplementsWriter == Writer!Spec

(* The queue is not forgotten: unless it was left without a call of Run,   *)
(* or LoadTiles has locked the database, somebody will take its next tile. *)
QueueServed ==
  queue = <<>> \/ m_locked \/ stopped \/ neglected \/ requests # <<>>
    \/ cur # NoTile \/ \E a \in Actor : at[a] \in {"run", "post"}

(* No more than the tile in work is written after Stop has returned, when  *)
(* the map is destroyed.                                                   *)
OneLateWrite == late <= 1

(* A tile in the queue is handled in the end, however often LoadTiles      *)
(* locks the database.                                                     *)
TilesAreHandled ==
  \A t \in Tile : ~Fresh(t) ~> (\E i \in DOMAIN handled : handled[i] = t) \/ neglected \/ stopped

-----------------------------------------------------------------------------
(* What comments say and the code does not do.                             *)

(* A tile loses the reference it was given for disk caching "after disk    *)
(* caching: SQLiteCache::DoCaching()" (TileCore.h:122).                    *)
HandledAreReleased == \A i \in DOMAIN handled : handled[i] \notin ref
=============================================================================
