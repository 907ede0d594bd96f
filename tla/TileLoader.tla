----------------------------- MODULE TileLoader -----------------------------
(***************************************************************************)
(* How CTiles::LoadTiles (src/COM classes/Tiles.cpp) and the threads of    *)
(* the two pools of a TileLoader (src/Tiles/TileLoader.cpp) bring the      *)
(* tiles of the current view to the screen.  Each request starts a new     *)
(* generation: queued tasks of older ones are dropped, while those that    *)
(* are waiting for the server are listed as active and reassigned.         *)
(*                                                                         *)
(* RAM cache, screen buffer and map are sets of <<provider, coord>>, zoom  *)
(* being part of coord; module RamCache has the details.  The caches and   *)
(* the server are in use and disk caching is off, as by default.  A step   *)
(* of a thread has at most one access to the list, the tile sets and the   *)
(* event, or all those the code makes under one lock.  The generation and  *)
(* a counter are read in one step, and setting busy or completed is part   *)
(* of the step next to it.                                                 *)
(***************************************************************************)
EXTENDS Naturals, Sequences, FiniteSets, SequencesExt

CONSTANTS
  Task,       \* LoadingTask objects, never reused; their number is a bound
  View,       \* what LoadTiles may be asked for: [provider, coords]
  NoView,     \* the value of the _last... members after CTiles::Clear
  PoolSize,   \* m_globalSettings.GetTilesThreadPoolSize()
  MaxGen      \* bound on the number of requests

ASSUME TileLoaderAssumption ==
  /\ IsFiniteSet(Task)
  /\ NoView \notin View
  /\ \A v \in View : IsFiniteSet(v.coords)
  /\ PoolSize \in Nat \ {0}
  /\ MaxGen \in Nat

Counting == 1000  \* m_totalCount while the tiles are being counted

VARIABLES
  (* TileLoader *)
  tileGeneration, stopped, m_count, m_totalCount,
  active,     \* _activeTasks, a sequence of tasks
  queue,      \* [{0, 1} -> the requests waiting in m_pool and m_pool2]
  (* LoadingTask *)
  pc,         \* [Task -> where in DoTask it is]
  tile,       \* [Task -> the <<provider, coord>> it requests]
  gen,        \* [Task -> generation]
  pool,       \* [Task -> the pool it was queued in]
  got,        \* [Task -> it has a tile that is not empty]
  tmp,        \* [Task -> m_count as read by m_count++]
  (* CTiles *)
  lastView,   \* _lastMapExtents, _lastTileExtents, _lastProvider, _lastZoom
  ui,         \* where in LoadTiles or Stop the UI thread is
  todo,       \* the coords LoadTiles has not looked up yet
  points,     \* the coords to be requested from the server
  reassigned, \* the tasks moved to the current generation
  cached, screen,  \* tiles in the RAM cache and in m_tiles
  (* for the properties *)
  failed,     \* tiles the server did not deliver to this generation
  fired,      \* [1..MaxGen -> how often TilesLoaded has been fired for it]
  collided,   \* two tasks with the same coord have been listed together
  fault       \* a deleted task has been used

loaderVars == <<tileGeneration, stopped, m_count, m_totalCount, active, queue>>
taskVars   == <<pc, tile, gen, pool, got, tmp>>
viewVars   == <<lastView, ui, todo, points, reassigned>>
ghostVars  == <<failed, fired, collided, fault>>
vars == <<loaderVars, taskVars, viewVars, cached, screen, ghostVars>>

Tiles(v) == {<<v.provider, c>> : c \in v.coords}
Fresh == {t \in Task : pc[t] = "unborn"}
Running == {t \in Task : pc[t] \notin {"unborn", "queued", "completed", "deleted"}}

(* Mutant of Busy: the flag is never reset.                                *)
BusyForEver == {t \in Task : pc[t] \in {"add", "show", "display", "check", "finish", "completed"}}
Busy == {t \in Task : pc[t] \in {"add", "show", "display"}}

Init ==
  /\ tileGeneration = 0 /\ stopped = FALSE
  /\ m_count = 0 /\ m_totalCount = 0
  /\ active = <<>>
  /\ queue = [p \in {0, 1} |-> <<>>]
  /\ pc = [t \in Task |-> "unborn"]
  /\ tile = [t \in Task |-> <<>>]
  /\ gen = [t \in Task |-> 0]
  /\ pool = [t \in Task |-> 0]
  /\ got = [t \in Task |-> FALSE]
  /\ tmp = [t \in Task |-> 0]
  /\ lastView = NoView
  /\ ui = "idle"
  /\ todo = {} /\ points = {} /\ reassigned = {}
  /\ cached = {} /\ screen = {}
  /\ failed = {}
  /\ fired = [g \in 1..MaxGen |-> 0]
  /\ collided = FALSE /\ fault = FALSE

Goto(t, l) == pc' = [pc EXCEPT ![t] = l]

Listed(t) == \E i \in DOMAIN active : active[i] = t

-----------------------------------------------------------------------------
(* CTiles::LoadTiles on the UI thread.                                     *)

(* A request for what was asked for last is dropped.  The new generation   *)
(* starts before the active tasks are looked at.                           *)
Request(v) ==
  /\ ui = "idle" /\ v # lastView
  /\ tileGeneration < MaxGen /\ Cardinality(Fresh) >= Cardinality(v.coords)
  /\ lastView' = v
  /\ tileGeneration' = tileGeneration + 1
  /\ ui' = "reassign"
  /\ failed' = {}
  /\ UNCHANGED <<stopped, m_count, m_totalCount, active, queue, taskVars, todo, points,
                 reassigned, cached, screen, fired, collided, fault>>

(* Mutant of Reassign: the active tasks keep their generation.             *)
ReassignKeepsGeneration ==
  LET tasks == {t \in Task : Listed(t) /\ tile[t] \in Tiles(lastView)}
  IN /\ ui = "reassign"
     /\ reassigned' = tasks
     /\ m_count' = 0
     /\ m_totalCount' = Counting
     /\ todo' = lastView.coords \ {tile[t][2] : t \in tasks}
     /\ fault' = \E t \in Task : Listed(t) /\ pc[t] = "deleted"
     /\ ui' = "scan"
     /\ UNCHANGED <<tileGeneration, stopped, active, queue, taskVars, lastView,
                    points, cached, screen, failed, fired, collided>>

(* Under the lock of the active list.                                      *)
Reassign ==
  LET tasks == {t \in Task : Listed(t) /\ tile[t] \in Tiles(lastView)}
  IN /\ ui = "reassign"
     /\ gen' = [t \in Task |-> IF t \in tasks THEN tileGeneration ELSE gen[t]]
     /\ reassigned' = tasks
     /\ m_count' = 0
     /\ m_totalCount' = Counting
     /\ todo' = lastView.coords \ {tile[t][2] : t \in tasks}
     /\ fault' = \E t \in Task : Listed(t) /\ pc[t] = "deleted"
     /\ ui' = "scan"
     /\ UNCHANGED <<tileGeneration, stopped, active, queue, pc, tile, pool, got, tmp, lastView,
                    points, cached, screen, failed, fired, collided>>

(* A tile is displayed already, or is taken from the cache, or requested.  *)
LookUp(c) ==
  LET key == <<lastView.provider, c>>
  IN /\ ui = "scan" /\ c \in todo
     /\ todo' = todo \ {c}
     /\ screen' = IF key \in cached THEN screen \cup {key} ELSE screen
     /\ points' = IF key \in screen \cup cached THEN points ELSE points \cup {c}
     /\ UNCHANGED <<loaderVars, taskVars, lastView, ui, reassigned, cached, ghostVars>>

(* The total is known; tiles of other views leave the screen buffer.       *)
Count ==
  /\ ui = "scan" /\ todo = {}
  /\ m_totalCount' = Cardinality(points) + Cardinality(reassigned)
  /\ reassigned' = {}
  /\ screen' = screen \cap Tiles(lastView)
  /\ ui' = "load"
  /\ UNCHANGED <<tileGeneration, stopped, m_count, active, queue, taskVars,
                 lastView, todo, points, cached, ghostVars>>

(* CleanTasks deletes the completed tasks.                                 *)
CleanTasks == [t \in Task |-> IF pc[t] = "completed" THEN "deleted" ELSE pc[t]]

(* TileLoader::Load puts a task for each point into one of the pools.      *)
Load ==
  /\ ui = "load" /\ points # {}
  /\ stopped' = FALSE
  /\ \E S \in kSubset(Cardinality(points), Fresh) :
     \E order \in SetToSeqs(S), coord \in Bijection(S, points) :
       /\ pc' = [t \in Task |-> IF t \in S THEN "queued" ELSE CleanTasks[t]]
       /\ tile' = [t \in Task |->
                     IF t \in S THEN <<lastView.provider, coord[t]>> ELSE tile[t]]
       /\ gen' = [t \in Task |-> IF t \in S THEN tileGeneration ELSE gen[t]]
       /\ pool' = [t \in Task |-> IF t \in S THEN tileGeneration % 2 ELSE pool[t]]
       /\ queue' = [queue EXCEPT ![tileGeneration % 2] = @ \o order]
  /\ points' = {}
  /\ ui' = "idle"
  /\ UNCHANGED <<tileGeneration, m_count, m_totalCount, active, got, tmp, lastView, todo,
                 reassigned, cached, screen, ghostVars>>

(* With nothing to load the event is fired at once, even when tasks have   *)
(* been reassigned.                                                        *)
NothingToLoad ==
  /\ ui = "load" /\ points = {}
  /\ fired' = [fired EXCEPT ![tileGeneration] = @ + 1]
  /\ ui' = "idle"
  /\ UNCHANGED <<loaderVars, taskVars, lastView, todo, points, reassigned,
                 cached, screen, failed, collided, fault>>

(* CTiles::Clear.  The tasks are not told.                                 *)
Clear ==
  /\ ui = "idle"
  /\ screen' = {}
  /\ lastView' = NoView
  /\ UNCHANGED <<loaderVars, taskVars, ui, todo, points, reassigned, cached, ghostVars>>

(* CTiles::ClearCache and ClearCache2: the tiles of the chosen providers.  *)
ClearCache ==
  /\ ui = "idle"
  /\ cached' \in {{}} \cup {{k \in cached : k[1] # v.provider} : v \in View}
  /\ UNCHANGED <<loaderVars, taskVars, viewVars, screen, ghostVars>>

(* TileLoader::Stop, called when the map goes away: it polls the tasks     *)
(* until it finds none of them busy.  A task that gets busy after the poll *)
(* has passed it is one that gets busy after the last poll.                *)
Stop ==
  /\ ui = "idle"
  /\ stopped' = TRUE
  /\ ui' = "stop"
  /\ UNCHANGED <<tileGeneration, m_count, m_totalCount, active, queue, taskVars, lastView,
                 todo, points, reassigned, cached, screen, ghostVars>>

StopReturns ==
  /\ ui = "stop" /\ Busy = {}
  /\ pc' = CleanTasks
  /\ ui' = "gone"
  /\ UNCHANGED <<loaderVars, tile, gen, pool, got, tmp, lastView, todo, points,
                 reassigned, cached, screen, ghostVars>>

-----------------------------------------------------------------------------
(* LoadingTask::DoTask on a pool thread.                                   *)

(* RemoveActiveTask takes out the first task with the same coord, whatever *)
(* its provider.                                                           *)
SameCoord(t) == {i \in DOMAIN active : tile[active[i]][2] = tile[t][2]}

(* Mutant: only the task itself is taken out, and only if it comes first.  *)
RemoveIfFirst(t) ==
  LET same == SameCoord(t)
  IN /\ active' = IF same # {} /\ active[Min(same)] = t THEN RemoveAt(active, Min(same))
                  ELSE active
     /\ UNCHANGED fault

RemoveActiveTask(t) ==
  LET first == IF SameCoord(t) = {} THEN Len(active) ELSE Min(SameCoord(t))
  IN /\ active' = IF SameCoord(t) = {} THEN active ELSE RemoveAt(active, first)
     /\ fault' = \E i \in 1..first : pc[active[i]] = "deleted"

(* Mutant of Start: an aborted or outdated task stays in the queue.        *)
StartKeepsDropped(t) ==
  LET p == pool[t]
      dropped == stopped \/ gen[t] < tileGeneration
  IN /\ pc[t] = "queued" /\ Head(queue[p]) = t
     /\ Cardinality({u \in Running : pool[u] = p}) < PoolSize
     /\ queue' = IF dropped THEN queue ELSE [queue EXCEPT ![p] = Tail(@)]
     /\ Goto(t, IF dropped THEN "finish" ELSE "list")
     /\ UNCHANGED <<tileGeneration, stopped, m_count, m_totalCount, active, tile, gen, pool,
                    got, tmp, viewVars, cached, screen, ghostVars>>

(* A free thread of the pool takes the next request; the task is aborted,  *)
(* outdated, or goes on.                                                   *)
Start(t) ==
  LET p == pool[t]
  IN /\ pc[t] = "queued" /\ Head(queue[p]) = t
     /\ Cardinality({u \in Running : pool[u] = p}) < PoolSize
     /\ queue' = [queue EXCEPT ![p] = Tail(@)]
     /\ Goto(t, IF stopped \/ gen[t] < tileGeneration THEN "finish" ELSE "list")
     /\ UNCHANGED <<tileGeneration, stopped, m_count, m_totalCount, active, tile, gen, pool,
                    got, tmp, viewVars, cached, screen, ghostVars>>

AddActiveTask(t) ==
  /\ pc[t] = "list"
  /\ active' = Append(active, t)
  /\ collided' = (collided \/ SameCoord(t) # {})
  /\ Goto(t, "http")
  /\ UNCHANGED <<tileGeneration, stopped, m_count, m_totalCount, queue, tile, gen, pool, got,
                 tmp, viewVars, cached, screen, failed, fired, fault>>

(* The server answers, with a tile or without.                             *)
Answer(t) ==
  /\ pc[t] = "http"
  /\ \/ stopped /\ Goto(t, "abort") /\ UNCHANGED got
     \/ ~stopped /\ Goto(t, "tally") /\ \E b \in BOOLEAN : got' = [got EXCEPT ![t] = b]
  /\ UNCHANGED <<loaderVars, tile, gen, pool, tmp, viewVars, cached, screen, ghostVars>>

(* Where to go with the answer once it is counted; busy is set for a tile. *)
Answered(t) == IF got[t] THEN "add" ELSE "unlist"

(* m_count++ for a task of the current generation is a read and a write.   *)
ReadCount(t) ==
  /\ pc[t] = "tally"
  /\ IF gen[t] = tileGeneration
       THEN tmp' = [tmp EXCEPT ![t] = m_count] /\ Goto(t, "store")
       ELSE Goto(t, Answered(t)) /\ UNCHANGED tmp
  /\ UNCHANGED <<loaderVars, tile, gen, pool, got, viewVars, cached, screen, ghostVars>>

StoreCount(t) ==
  /\ pc[t] = "store"
  /\ m_count' = tmp[t] + 1
  /\ tmp' = [tmp EXCEPT ![t] = 0]
  /\ Goto(t, Answered(t))
  /\ UNCHANGED <<tileGeneration, stopped, m_totalCount, active, queue, tile, gen, pool, got,
                 viewVars, cached, screen, ghostVars>>

(* Mutant of AddTileToRamCache: the task stays listed.                     *)
AddTileKeepsListed(t) ==
  /\ pc[t] = "add"
  /\ cached' = cached \cup {tile[t]}
  /\ Goto(t, "show")
  /\ got' = [got EXCEPT ![t] = FALSE]
  /\ UNCHANGED <<loaderVars, tile, gen, pool, tmp, viewVars, screen, ghostVars>>

(* From the active list to the cache under one lock.                       *)
AddTileToRamCache(t) ==
  /\ pc[t] = "add"
  /\ cached' = cached \cup {tile[t]}
  /\ RemoveActiveTask(t)
  /\ Goto(t, "show")
  /\ got' = [got EXCEPT ![t] = FALSE]
  /\ UNCHANGED <<tileGeneration, stopped, m_count, m_totalCount, queue, tile, gen, pool, tmp,
                 viewVars, screen, failed, fired, collided>>

Show(t) ==
  /\ pc[t] = "show"
  /\ Goto(t, IF gen[t] < tileGeneration THEN "check" ELSE "display")
  /\ UNCHANGED <<loaderVars, tile, gen, pool, got, tmp, viewVars, cached, screen, ghostVars>>

AddTileNoCaching(t) ==
  /\ pc[t] = "display"
  /\ screen' = screen \cup {tile[t]}
  /\ Goto(t, "check")
  /\ UNCHANGED <<loaderVars, tile, gen, pool, got, tmp, viewVars, cached, ghostVars>>

(* No tile to show: the task was aborted meanwhile or the answer is empty. *)
Unlist(t) ==
  /\ pc[t] \in {"abort", "unlist"}
  /\ RemoveActiveTask(t)
  /\ failed' = IF gen[t] = tileGeneration THEN failed \cup {tile[t]} ELSE failed
  /\ Goto(t, IF pc[t] = "abort" THEN "finish" ELSE "check")
  /\ UNCHANGED <<tileGeneration, stopped, m_count, m_totalCount, queue, tile, gen, pool, got,
                 tmp, viewVars, cached, screen, fired, collided>>

(* The event, if no newer request is known and the count is complete.      *)
CheckComplete(t) ==
  /\ pc[t] = "check"
  /\ fired' = IF gen[t] = tileGeneration /\ m_count = m_totalCount
               THEN [fired EXCEPT ![gen[t]] = @ + 1] ELSE fired
  /\ Goto(t, "finish")
  /\ UNCHANGED <<loaderVars, tile, gen, pool, got, tmp, viewVars, cached, screen,
                 failed, collided, fault>>

(* Every task, dropped ones too, ends with another RemoveActiveTask.       *)
Finish(t) ==
  /\ pc[t] = "finish"
  /\ RemoveActiveTask(t)
  /\ Goto(t, "completed")
  /\ UNCHANGED <<tileGeneration, stopped, m_count, m_totalCount, queue, tile, gen, pool, got,
                 tmp, viewVars, cached, screen, failed, fired, collided>>

-----------------------------------------------------------------------------
Serve ==
  \/ Reassign \/ (\E c \in todo : LookUp(c)) \/ Count \/ Load \/ NothingToLoad
  \/ StopReturns

DoTask(t) ==
  \/ Start(t) \/ AddActiveTask(t) \/ Answer(t) \/ ReadCount(t) \/ StoreCount(t)
  \/ AddTileToRamCache(t) \/ Show(t) \/ AddTileNoCaching(t) \/ Unlist(t)
  \/ CheckComplete(t) \/ Finish(t)

(* What happens after the use of a deleted task is undefined.              *)
Next ==
  /\ ~fault
  /\ \/ (\E v \in View : Request(v)) \/ Serve \/ Clear \/ ClearCache \/ Stop
     \/ \E t \in Task : DoTask(t)

Spec == Init /\ [][Next]_vars

(* The UI thread goes on with what it has begun, the pool threads run, and *)
(* the server answers or the request times out.                            *)
FairSpec ==
  /\ Spec
  /\ WF_vars(~fault /\ Serve)
  /\ \A t \in Task : WF_vars(~fault /\ DoTask(t))

-----------------------------------------------------------------------------
(* Type correctness; a task waits in its queue once and is listed once.    *)
TypeOK ==
  /\ tileGeneration \in 0..MaxGen /\ stopped \in BOOLEAN
  /\ m_count \in 0..Cardinality(Task)
  /\ m_totalCount \in 0..Cardinality(Task) \cup {Counting}
  /\ active \in Seq(Task) /\ IsInjective(active)
  /\ \A p \in {0, 1} : queue[p] \in Seq({t \in Task : pc[t] = "queued" /\ pool[t] = p})
                       /\ IsInjective(queue[p])
  /\ pc \in [Task -> {"unborn", "queued", "list", "http", "abort", "tally", "store", "add",
                      "show", "display", "unlist", "check", "finish", "completed", "deleted"}]
  /\ \A t \in Task : tile[t] = <<>> \/ \E v \in View : tile[t] \in Tiles(v)
  /\ gen \in [Task -> 0..MaxGen] /\ pool \in [Task -> {0, 1}] /\ got \in [Task -> BOOLEAN]
  /\ tmp \in [Task -> 0..Cardinality(Task)]
  /\ lastView \in View \cup {NoView}
  /\ ui \in {"idle", "reassign", "scan", "load", "stop", "gone"}
  /\ reassigned \subseteq Task
  /\ \A k \in cached \cup screen \cup failed : \E v \in View : k \in Tiles(v)
  /\ fired \in [1..MaxGen -> Nat] /\ {collided, fault} \subseteq BOOLEAN

(* A task that will show its tile in the current view, or report that the  *)
(* server has none.                                                        *)
Fetches(t, k) ==
  /\ tile[t] = k /\ gen[t] = tileGeneration
  /\ pc[t] \in {"queued", "list", "http", "tally", "store", "add", "show", "display", "unlist"}

Wanted == IF ui = "idle" /\ lastView # NoView THEN Tiles(lastView) ELSE {}

(* A tile of the view is displayed, could not be had, or is on its way,    *)
(* since a task passes it "from active list to cache; so it's always       *)
(* avaiable while building the next list of requests" (TileLoader.cpp:87). *)
WantedCovered ==
  \A k \in Wanted : k \in screen \cup failed \/ \E t \in Task : Fetches(t, k)

(* The tiles of the view are covered as long as no coord has been listed   *)
(* twice: no interleaving of answers with the next request loses one.      *)
CoveredUnlessCollided == collided \/ WantedCovered

(* Until then a task has left the list when its answer is dealt with, and  *)
(* LoadTiles (Tiles.cpp:646) reassigns none that will not show its tile.   *)
ListedUnlessCollided ==
  collided \/ \A t \in Task :
    Listed(t) => pc[t] \in {"http", "abort", "tally", "store", "add", "unlist"}

(* Whatever entries the tasks take from each other, the list of active     *)
(* tasks is empty when none is running.                                    *)
ListDrains == Running = {} => active = <<>>

(* A task that was queued is completed, whatever requests follow.          *)
TasksComplete ==
  \A t \in Task : pc[t] = "queued" ~> pc[t] \in {"completed", "deleted"} \/ fault

(* The loop in Stop ends; the code warns "potentially endless loop".       *)
StopTerminates == ui = "stop" ~> ui = "gone" \/ fault

-----------------------------------------------------------------------------
(* What comments and tests say and the code does not do.                   *)

(* The test waits for the event after each zoom and fails without it       *)
(* (Tests.cs:1392): it comes once all the tasks are done.                  *)
EventComes ==
  /\ Wanted # {}
  /\ \A t \in Task : pc[t] \in {"unborn", "completed", "deleted"}
  => fired[tileGeneration] > 0

(* The busy flag says that "classes like CTiles can't be deleted until     *)
(* exiting this section" (TileLoader.cpp:83).                              *)
NotBusyOnceStopped == ui = "gone" => Busy = {}
=============================================================================
