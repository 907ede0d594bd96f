---------------------------- MODULE TilePrefetch ----------------------------
(***************************************************************************)
(* The second TileLoader of CTiles, m_prefetchLoader: it fills the disk    *)
(* cache (CTiles::PrefetchCore, src/COM classes/Tiles.cpp) and loads tiles *)
(* for snapshots (CTiles::LoadTiles with isSnapshot).  Nothing keeps one   *)
(* request from starting while the tasks of another are queued or running, *)
(* and all of them share the counters, the flags, the key of the event and *)
(* the stop function of the loader.                                        *)
(*                                                                         *)
(* Which tile a task loads does not matter here.  The list of active tasks *)
(* is left out, since LoadTiles reads that of the other loader only.  Each *)
(* request is numbered, and its number stands for its key and for the stop *)
(* function it passes.                                                     *)
(***************************************************************************)
EXTENDS Naturals, Sequences, FiniteSets, SequencesExt

CONSTANTS
  Task,        \* LoadingTask objects, never reused; their number is a bound
  PoolSize,    \* m_globalSettings.GetTilesThreadPoolSize()
  MaxRequests  \* bound on the calls of Prefetch and LoadTilesForSnapshot

ASSUME TilePrefetchAssumption ==
  /\ IsFiniteSet(Task)
  /\ PoolSize \in Nat \ {0}
  /\ MaxRequests \in Nat

VARIABLES
  (* TileLoader *)
  tileGeneration, stopped, m_count, m_totalCount,
  label,          \* key and isSnapshot: those of which request
  doCache,        \* "sqlite" or "disk", of doCacheSqlite and doCacheDisk
  m_stopCallback, \* that of which request; 0 for NULL
  m_callback,     \* it is not NULL
  queue,          \* [{0, 1} -> the requests waiting in m_pool and m_pool2]
  (* LoadingTask *)
  pc,             \* [Task -> where in DoTask it is]
  req,            \* [Task -> its request]
  gen,            \* [Task -> generation]
  got,            \* [Task -> the server has sent a tile]
  tmp,            \* [Task -> m_count as read by m_count++]
  (* CTiles and its client *)
  ui,             \* where in TileLoader::Load the UI thread is
  request,        \* the last request
  kind,           \* [1..MaxRequests -> "sqlite", "disk" or "snapshot"]
  points,         \* the number of tiles it has to load
  cancelled,      \* requests whose stop function says stop
  (* for the properties *)
  sent,           \* [Task -> where its tile has been sent]
  fired,          \* [1..MaxRequests -> how often TilesLoaded came with its key]
  alone,          \* requests that have not overlapped with another
  raced,          \* requests of which two tasks counted at the same time
  told,           \* a stop function has said stop to this request
  late,           \* tiles cached since then
  fault           \* m_callback was used when NULL

sharedVars == <<tileGeneration, stopped, m_count, m_totalCount, label>>
cacheVars  == <<doCache, m_stopCallback, m_callback>>
taskVars   == <<req, gen, got, tmp>>
uiVars     == <<ui, request, kind, points, cancelled>>
ghostVars  == <<sent, fired, alone, raced, told, late, fault>>
vars == <<sharedVars, cacheVars, queue, pc, taskVars, uiVars, ghostVars>>

Request == 1..MaxRequests
Fresh == {t \in Task : pc[t] = "unborn"}
TasksOf(r) == {t \in Task : req[t] = r}
Pending == {t \in Task : pc[t] \notin {"unborn", "completed"}}
Running(p) == {t \in Pending : pc[t] # "queued" /\ gen[t] % 2 = p}
CacheOnly(t) == kind[req[t]] # "snapshot"

Init ==
  /\ tileGeneration = 0 /\ stopped = FALSE
  /\ m_count = 0 /\ m_totalCount = 0
  /\ label = 0
  /\ doCache = "sqlite" /\ m_stopCallback = 0 /\ m_callback = FALSE
  /\ queue = [p \in {0, 1} |-> <<>>]
  /\ pc = [t \in Task |-> "unborn"]
  /\ req = [t \in Task |-> 0]
  /\ gen = [t \in Task |-> 0]
  /\ got = [t \in Task |-> FALSE]
  /\ tmp = [t \in Task |-> 0]
  /\ ui = "idle"
  /\ request = 0
  /\ kind = [r \in Request |-> "none"]
  /\ points = 0
  /\ cancelled = {}
  /\ sent = [t \in Task |-> "none"]
  /\ fired = [r \in Request |-> 0]
  /\ alone = {} /\ raced = {} /\ told = FALSE /\ late = 0 /\ fault = FALSE

-----------------------------------------------------------------------------
(* The UI thread.                                                          *)

(* A request for n tiles; those that it meets are not alone any more.      *)
NewRequest(k, n) ==
  /\ ui = "idle" /\ request < MaxRequests
  /\ n <= Cardinality(Fresh)
  /\ request' = request + 1
  /\ kind' = [kind EXCEPT ![request + 1] = k]
  /\ points' = n
  /\ alone' = IF Pending = {} THEN alone \cup {request + 1}
              ELSE alone \ {req[t] : t \in Pending}
  /\ ui' = "label"
  /\ UNCHANGED <<sharedVars, queue, pc, taskVars, cancelled, sent, fired, raced, told,
                 late, fault>>

(* Mutant of Prefetch: the flags of the prefetch before stay.              *)
PrefetchKeepsFlags(k, n) ==
  /\ NewRequest(k, n)
  /\ m_stopCallback' \in {0, request + 1}
  /\ m_callback' \in {m_callback, TRUE}
  /\ UNCHANGED doCache

(* CTiles::PrefetchCore, for the database or for a folder, with a stop     *)
(* function or without; the client may have set a callback by now.         *)
Prefetch(k, n) ==
  /\ NewRequest(k, n)
  /\ doCache' = k
  /\ m_stopCallback' \in {0, request + 1}
  /\ m_callback' \in {m_callback, TRUE}

(* CTiles::LoadTiles for a snapshot, when the server is needed.            *)
Snapshot(n) == NewRequest("snapshot", n) /\ UNCHANGED cacheVars

(* TileLoader::Load, as far as it is about memory that tasks read.         *)
SetLabel ==
  /\ ui = "label"
  /\ label' = request
  /\ ui' = "start"
  /\ UNCHANGED <<tileGeneration, stopped, m_count, m_totalCount, cacheVars, queue, pc,
                 taskVars, request, kind, points, cancelled, ghostVars>>

(* A snapshot gets a generation of its own; InitPools resets stopped.      *)
StartPools ==
  /\ ui = "start"
  /\ tileGeneration' = IF kind[request] = "snapshot" THEN tileGeneration + 1
                       ELSE tileGeneration
  /\ stopped' = FALSE
  /\ told' = FALSE /\ late' = 0
  /\ ui' = "reset"
  /\ UNCHANGED <<m_count, m_totalCount, label, cacheVars, queue, pc, taskVars, request, kind,
                 points, cancelled, sent, fired, alone, raced, fault>>

(* Mutant of ResetCounts: the count goes on.                               *)
ResetTotal ==
  /\ ui = "reset"
  /\ m_totalCount' = points
  /\ ui' = "queue"
  /\ UNCHANGED <<tileGeneration, stopped, m_count, label, cacheVars, queue, pc, taskVars,
                 request, kind, points, cancelled, ghostVars>>

ResetCounts ==
  /\ ui = "reset"
  /\ m_count' = 0
  /\ m_totalCount' = points
  /\ ui' = "queue"
  /\ UNCHANGED <<tileGeneration, stopped, label, cacheVars, queue, pc, taskVars, request,
                 kind, points, cancelled, ghostVars>>

(* The tasks of a prefetch have generation 0, whatever the loader's is.    *)
QueueTasks ==
  LET g == IF kind[request] = "snapshot" THEN tileGeneration ELSE 0
  IN /\ ui = "queue"
     /\ \E S \in kSubset(points, Fresh) : \E order \in SetToSeqs(S) :
          /\ pc' = [t \in Task |-> IF t \in S THEN "queued" ELSE pc[t]]
          /\ req' = [t \in Task |-> IF t \in S THEN request ELSE req[t]]
          /\ gen' = [t \in Task |-> IF t \in S THEN g ELSE gen[t]]
          /\ queue' = [queue EXCEPT ![g % 2] = @ \o order]
     /\ points' = 0
     /\ ui' = "idle"
     /\ UNCHANGED <<sharedVars, cacheVars, got, tmp, request, kind, cancelled, ghostVars>>

(* The stop function that the loader has says stop from now on.            *)
Cancel(r) ==
  /\ r = m_stopCallback /\ r \notin cancelled
  /\ cancelled' = cancelled \cup {r}
  /\ UNCHANGED <<sharedVars, cacheVars, queue, pc, taskVars, ui, request, kind, points,
                 ghostVars>>

-----------------------------------------------------------------------------
(* LoadingTask::DoTask on a pool thread.                                   *)

Goto(t, l) == pc' = [pc EXCEPT ![t] = l]

Start(t) ==
  LET p == gen[t] % 2
  IN /\ pc[t] = "queued" /\ Head(queue[p]) = t
     /\ Cardinality(Running(p)) < PoolSize
     /\ queue' = [queue EXCEPT ![p] = Tail(@)]
     /\ Goto(t, IF stopped \/ gen[t] < tileGeneration THEN "completed" ELSE "http")
     /\ UNCHANGED <<sharedVars, cacheVars, taskVars, uiVars, ghostVars>>

Answer(t) ==
  /\ pc[t] = "http"
  /\ \/ stopped /\ Goto(t, "completed") /\ UNCHANGED got
     \/ ~stopped /\ Goto(t, "tally") /\ \E b \in BOOLEAN : got' = [got EXCEPT ![t] = b]
  /\ UNCHANGED <<sharedVars, cacheVars, queue, req, gen, tmp, uiVars, ghostVars>>

Counted(t) == IF CacheOnly(t) THEN "ask" ELSE "send"

(* m_count++ for a task of the current generation is a read and a write.   *)
ReadCount(t) ==
  /\ pc[t] = "tally"
  /\ IF gen[t] = tileGeneration
       THEN /\ tmp' = [tmp EXCEPT ![t] = m_count]
            /\ raced' = IF \E u \in Task : pc[u] = "store" THEN raced \cup {req[t]} ELSE raced
            /\ Goto(t, "store")
       ELSE Goto(t, Counted(t)) /\ UNCHANGED <<tmp, raced>>
  /\ UNCHANGED <<sharedVars, cacheVars, queue, req, gen, got, uiVars, sent, fired, alone,
                 told, late, fault>>

StoreCount(t) ==
  /\ pc[t] = "store"
  /\ m_count' = tmp[t] + 1
  /\ tmp' = [tmp EXCEPT ![t] = 0]
  /\ Goto(t, Counted(t))
  /\ UNCHANGED <<tileGeneration, stopped, m_totalCount, label, cacheVars, queue, req, gen,
                 got, uiVars, ghostVars>>

(* Mutant of AskStop: the stop is reported, and the loading goes on.       *)
AskStopReports(t) ==
  LET stop == m_stopCallback \in cancelled
  IN /\ pc[t] = "ask"
     /\ told' = (told \/ stop)
     /\ fault' = (stop /\ ~stopped /\ ~m_callback)
     /\ Goto(t, "send")
     /\ UNCHANGED <<sharedVars, cacheVars, queue, taskVars, uiVars, sent, fired, alone, raced,
                    late>>

(* TileLoader::TileLoaded asks the stop function of the last prefetch and, *)
(* the first time that it says stop, reports that the loading is stopped.  *)
AskStop(t) ==
  LET stop == m_stopCallback \in cancelled
  IN /\ pc[t] = "ask"
     /\ stopped' = (stopped \/ stop)
     /\ told' = (told \/ stop)
     /\ fault' = (stop /\ ~stopped /\ ~m_callback)
     /\ Goto(t, "send")
     /\ UNCHANGED <<tileGeneration, m_count, m_totalCount, label, cacheVars, queue, taskVars,
                    uiVars, sent, fired, alone, raced, late>>

(* A tile, if there is one, goes to the cacher, or to the RAM cache, where *)
(* the snapshot finds it.                                                  *)
Send(t) ==
  /\ pc[t] = "send"
  /\ sent' = IF got[t] THEN [sent EXCEPT ![t] = IF CacheOnly(t) THEN doCache ELSE "ram"]
             ELSE sent
  /\ late' = IF told /\ got[t] /\ CacheOnly(t) THEN late + 1 ELSE late
  /\ Goto(t, IF gen[t] = tileGeneration THEN "check" ELSE "completed")
  /\ UNCHANGED <<sharedVars, cacheVars, queue, taskVars, uiVars, fired, alone, raced, told,
                 fault>>

(* Mutant of CheckComplete: the count may be one short.                    *)
CheckAlmostComplete(t) ==
  /\ pc[t] = "check"
  /\ Goto(t, IF m_count + 1 >= m_totalCount THEN "fire" ELSE "completed")
  /\ UNCHANGED <<sharedVars, cacheVars, queue, taskVars, uiVars, ghostVars>>

CheckComplete(t) ==
  /\ pc[t] = "check"
  /\ Goto(t, IF m_count = m_totalCount THEN "fire" ELSE "completed")
  /\ UNCHANGED <<sharedVars, cacheVars, queue, taskVars, uiVars, ghostVars>>

(* The event comes with the key that the loader has now.                   *)
Fire(t) ==
  /\ pc[t] = "fire"
  /\ fired' = [fired EXCEPT ![label] = @ + 1]
  /\ Goto(t, "completed")
  /\ UNCHANGED <<sharedVars, cacheVars, queue, taskVars, uiVars, sent, alone, raced, told,
                 late, fault>>

-----------------------------------------------------------------------------
Load == SetLabel \/ StartPools \/ ResetCounts \/ QueueTasks

DoTask(t) ==
  \/ Start(t) \/ Answer(t) \/ ReadCount(t) \/ StoreCount(t) \/ AskStop(t) \/ Send(t)
  \/ CheckComplete(t) \/ Fire(t)

(* After a call through NULL nothing is defined.                           *)
Next ==
  /\ ~fault
  /\ \/ \E n \in 1..Cardinality(Task) :
          Snapshot(n) \/ \E k \in {"sqlite", "disk"} : Prefetch(k, n)
     \/ Load
     \/ \E r \in Request : Cancel(r)
     \/ \E t \in Task : DoTask(t)

Spec == Init /\ [][Next]_vars

-----------------------------------------------------------------------------
(* Type correctness; a task waits once, in the pool of its generation.     *)
TypeOK ==
  /\ tileGeneration \in 0..MaxRequests /\ {stopped, m_callback, told, fault} \subseteq BOOLEAN
  /\ m_count \in 0..Cardinality(Task) /\ m_totalCount \in 0..Cardinality(Task)
  /\ {label, m_stopCallback, request} \subseteq 0..MaxRequests
  /\ doCache \in {"sqlite", "disk"}
  /\ \A p \in {0, 1} : queue[p] \in Seq({t \in Task : pc[t] = "queued" /\ gen[t] % 2 = p})
                       /\ IsInjective(queue[p])
  /\ pc \in [Task -> {"unborn", "queued", "http", "tally", "store", "ask", "send", "check",
                      "fire", "completed"}]
  /\ req \in [Task -> 0..MaxRequests] /\ gen \in [Task -> 0..MaxRequests]
  /\ got \in [Task -> BOOLEAN] /\ tmp \in [Task -> 0..Cardinality(Task)]
  /\ ui \in {"idle", "label", "start", "reset", "queue"}
  /\ kind \in [Request -> {"none", "sqlite", "disk", "snapshot"}]
  /\ points \in 0..Cardinality(Task)
  /\ cancelled \subseteq Request /\ alone \subseteq Request /\ raced \subseteq Request
  /\ sent \in [Task -> {"none", "sqlite", "disk", "ram"}]
  /\ fired \in [Request -> Nat] /\ late \in Nat

(* TilesLoaded with the key of a request that ran alone comes only after   *)
(* all its tiles are counted (TileLoader.cpp:264), although the counter is *)
(* neither locked nor reset together with the key.                         *)
HonestEvents ==
  \A r \in alone : fired[r] > 0 =>
    \A t \in TasksOf(r) : pc[t] \in {"ask", "send", "check", "fire", "completed"}

(* It does come, and no more than once per thread, if the request ran      *)
(* alone, was not cancelled, no two of its tasks met in m_count++, and it  *)
(* is not a prefetch after a snapshot: the tasks of such a one are older   *)
(* than the generation of the loader (TileLoader.cpp:42) and are dropped.  *)
EventComes ==
  \A r \in alone \ (raced \cup cancelled) :
    /\ TasksOf(r) # {} /\ \A t \in TasksOf(r) : pc[t] = "completed"
    /\ kind[r] = "snapshot" \/ \A q \in 1..r : kind[q] # "snapshot"
    => fired[r] \in 1..PoolSize

(* A tile that was received for a request that ran alone is sent to where  *)
(* that request wanted it, whatever other requests did to the flags of the *)
(* loader before and do after (Tiles.cpp:1699).                            *)
DeliveredAsAsked ==
  \A t \in Task :
    /\ req[t] \in alone /\ pc[t] = "completed" /\ got[t]
    => sent[t] = IF CacheOnly(t) THEN kind[req[t]] ELSE "ram"

(* Once the stop function has said stop to one of the threads              *)
(* (TileLoader.cpp:294), no more tiles are cached than there are threads,  *)
(* until the next request takes the stop back.                             *)
StopIsPrompt == late <= PoolSize
=============================================================================
