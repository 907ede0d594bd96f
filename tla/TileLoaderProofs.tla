-------------------------- MODULE TileLoaderProofs --------------------------
(***************************************************************************)
(* TLAPS proofs about TileLoader, for any tasks, views, size of the pools  *)
(* and number of requests: the list of active tasks drains, and as long as *)
(* no coord is listed twice a task leaves it in time and no tile of the    *)
(* view is lost between the tasks, the caches and the next request.        *)
(***************************************************************************)
EXTENDS TileLoader, SequenceLemmas, TLAPS

-----------------------------------------------------------------------------
(* The inductive invariant.                                                *)

(* The requests of a pool that wait are in its queue, once each.           *)
Waiting(p) == {t \in Task : pc[t] = "queued" /\ pool[t] = p}
Queued ==
  /\ queue \in [{0, 1} -> Seq(Task)]
  /\ \A p \in {0, 1} : IsInjective(queue[p]) /\ ToSet(queue[p]) = Waiting(p)

(* Any task that has been queued has a tile to load.                       *)
Born == \A t \in Task : pc[t] # "unborn" => \E v \in View : tile[t] \in Tiles(v)

Coords == UNION {v.coords : v \in View}

(* The tasks that are listed under a coord, and those that have yet to     *)
(* take an entry with this coord from the list.                            *)
ListedAt(c) == {u \in ToSet(active) : tile[u][2] = c}
Taking(t) == pc[t] \in {"http", "abort", "tally", "store", "add", "show", "display",
                        "unlist", "check", "finish"}
TakersAt(c) == {u \in Task : Taking(u) /\ tile[u][2] = c}

(* No coord is listed more often than tasks will remove it.                *)
Listing ==
  /\ \A t \in ToSet(active) : pc[t] \notin {"unborn", "queued", "list"}
  /\ \A c \in Coords : Cardinality(ListedAt(c)) <= Cardinality(TakersAt(c))

(* Until two tasks with the same coord are listed, each removes its own    *)
(* entry.                                                                  *)
OwnEntries ==
  collided \/ \A t, u \in ToSet(active) : tile[t][2] = tile[u][2] => t = u

(* The tasks that may have been counted: lost updates of m_count only make *)
(* it smaller.                                                             *)
Counted ==
  {t \in Task : pc[t] \in {"add", "show", "display", "unlist", "check", "finish",
                          "completed", "deleted"}}
Counts ==
  /\ m_count <= Cardinality(Counted)
  /\ \A t \in Task : tmp[t] <= Cardinality(Counted)

(* What LoadTiles knows while it is at work.                               *)
Phase ==
  /\ ui \in {"reassign", "scan", "load"} =>
       /\ lastView \in View /\ tileGeneration > 0
       /\ Cardinality(lastView.coords) <= Cardinality(Fresh)
       /\ todo \cup points \subseteq lastView.coords
  /\ ui # "scan" => todo = {}
  /\ ui \notin {"scan", "load"} => points = {}
  /\ reassigned \cap Fresh = {}
  /\ stopped => ui \in {"stop", "gone"}

(* A task has been aborted only after Stop, after which nothing is loaded. *)
Aborted == \A t \in Task : pc[t] = "abort" => stopped

(* Each tile of the view is still to be looked up or to be requested, is   *)
(* displayed, could not be had or is on its way.                           *)
Covered ==
  collided \/ (ui \in {"scan", "load", "idle"} /\ lastView # NoView =>
    \A c \in lastView.coords :
      LET k == <<lastView.provider, c>>
      IN c \in todo \cup points \/ k \in screen \cup failed \/ \E t \in Task : Fetches(t, k))

IInv ==
  /\ TypeOK /\ Queued /\ Born /\ Listing /\ OwnEntries /\ ListedUnlessCollided
  /\ Counts /\ Phase /\ Aborted /\ Covered

-----------------------------------------------------------------------------
(* The list of active tasks.                                               *)

(* RemoveActiveTask takes at most one entry out, and one with the coord of *)
(* the task if there is any.                                               *)
LEMMA Removal ==
  ASSUME active \in Seq(Task), IsInjective(active), NEW t \in Task, RemoveActiveTask(t)
  PROVE  /\ active' \in Seq(Task) /\ IsInjective(active') /\ fault' \in BOOLEAN
         /\ \/ /\ ToSet(active') = ToSet(active)
               /\ \A u \in ToSet(active) : tile[u][2] # tile[t][2]
            \/ \E u \in ToSet(active) :
                 tile[u][2] = tile[t][2] /\ ToSet(active') = ToSet(active) \ {u}
  <1>. DEFINE T == SameCoord(t)
  <1>0. /\ DOMAIN active = 1..Len(active) /\ Len(active) \in Nat
        /\ \A i \in 1..Len(active) : active[i] \in Task
    BY LenProperties, ElementOfSeq
  <1>1. fault' \in BOOLEAN
    BY DEF RemoveActiveTask
  <1>2. CASE T = {}
    <2>1. active' = active
      BY <1>2 DEF RemoveActiveTask
    <2>2. \A u \in ToSet(active) : tile[u][2] # tile[t][2]
      BY <1>2 DEF ToSet, SameCoord
    <2>. QED
      BY <1>1, <2>1, <2>2
  <1>3. CASE T # {}
    <2>1. T \subseteq 1..Len(active) /\ T \subseteq Nat
      BY <1>0 DEF SameCoord
    <2>2. \E x \in T : \A y \in T : x <= y
      BY <1>3, <2>1, LeastOf
    <2>3. Min(T) \in T
      BY <2>2 DEF Min
    <2>. DEFINE i == Min(T)
    <2>4. active' = RemoveAt(active, i)
      BY <1>3 DEF RemoveActiveTask
    <2>5. i \in 1..Len(active) /\ tile[active[i]][2] = tile[t][2]
      BY <2>1, <2>3 DEF SameCoord
    <2>. HIDE DEF i
    <2>6. /\ active' \in Seq(Task) /\ IsInjective(active')
          /\ ToSet(active') = ToSet(active) \ {active[i]}
      BY <2>4, <2>5, TakenOut
    <2>7. active[i] \in ToSet(active)
      BY <1>0, <2>5 DEF ToSet
    <2>. QED
      BY <1>1, <2>5, <2>6, <2>7
  <1>. QED
    BY <1>2, <1>3

(* A step leaves the list alone, appends a task or takes one entry out.    *)
LEMMA ActiveStep ==
  ASSUME TypeOK, Listing, [Next]_vars
  PROVE  /\ active' \in Seq(Task) /\ IsInjective(active')
         /\ \/ ToSet(active') \subseteq ToSet(active)
            \/ \E t \in Task : AddActiveTask(t) /\ ToSet(active') = ToSet(active) \cup {t}
  <1>0. active \in Seq(Task) /\ IsInjective(active)
    BY DEF TypeOK
  <1>1. ASSUME UNCHANGED active
        PROVE  /\ active' \in Seq(Task) /\ IsInjective(active')
               /\ ToSet(active') \subseteq ToSet(active)
    BY <1>0, <1>1
  <1>2. ASSUME NEW t \in Task, AddActiveTask(t)
        PROVE  /\ active' \in Seq(Task) /\ IsInjective(active')
               /\ ToSet(active') = ToSet(active) \cup {t}
    <2>1. active' = Append(active, t) /\ t \notin ToSet(active)
      BY <1>2 DEF AddActiveTask, Listing
    <2>. QED
      BY <1>0, <2>1, PutLast
  <1>3. ASSUME NEW t \in Task, RemoveActiveTask(t)
        PROVE  /\ active' \in Seq(Task) /\ IsInjective(active')
               /\ ToSet(active') \subseteq ToSet(active)
    BY <1>0, <1>3, Removal
  <1>4. CASE UNCHANGED vars
    BY <1>1, <1>4 DEF vars, loaderVars
  <1>5. ASSUME NEW t \in Task, DoTask(t)
        PROVE  \/ AddActiveTask(t)
               \/ RemoveActiveTask(t)
               \/ UNCHANGED active
    BY <1>5 DEF DoTask, Start, Answer, ReadCount, StoreCount, AddTileToRamCache, Show,
       AddTileNoCaching, Unlist, CheckComplete, Finish, loaderVars
  <1>6. CASE \E t \in Task : DoTask(t)
    BY <1>1, <1>2, <1>3, <1>5, <1>6
  <1>7. CASE (\E v \in View : Request(v)) \/ Serve \/ Clear \/ ClearCache \/ Stop
    <2>1. UNCHANGED active
      BY <1>7 DEF Request, Serve, Reassign, LookUp, Count, Load, NothingToLoad, StopReturns,
         Clear, ClearCache, Stop, loaderVars
    <2>. QED
      BY <1>1, <2>1
  <1>. QED
    BY <1>4, <1>6, <1>7 DEF Next
-----------------------------------------------------------------------------
(* The steps of the tasks.                                                 *)

(* What a step of a thread does to its task and leaves alone of the others.*)
LEMMA TaskMoves ==
  ASSUME TypeOK, NEW t \in Task, DoTask(t)
  PROVE  /\ \A u \in Task : u # t => pc'[u] = pc[u]
         /\ \/ pc[t] = "queued" /\ pc'[t] \in {"list", "finish"}
            \/ pc[t] = "list" /\ pc'[t] = "http"
            \/ pc[t] = "http" /\ pc'[t] \in {"abort", "tally"}
            \/ pc[t] = "tally" /\ pc'[t] \in {"store", "add", "unlist"}
            \/ pc[t] = "store" /\ pc'[t] \in {"add", "unlist"}
            \/ pc[t] = "add" /\ pc'[t] = "show"
            \/ pc[t] = "show" /\ pc'[t] \in {"check", "display"}
            \/ pc[t] = "display" /\ pc'[t] = "check"
            \/ pc[t] = "abort" /\ pc'[t] = "finish"
            \/ pc[t] = "unlist" /\ pc'[t] = "check"
            \/ pc[t] = "check" /\ pc'[t] = "finish"
            \/ pc[t] = "finish" /\ pc'[t] = "completed"
         /\ UNCHANGED <<tileGeneration, stopped, m_totalCount, tile, gen, pool, viewVars>>
         /\ pc[t] # "queued" => UNCHANGED queue
  <1>0. DOMAIN pc = Task
    BY DEF TypeOK
  <1>1. /\ \E l : Goto(t, l)
        /\ UNCHANGED <<tileGeneration, stopped, m_totalCount, tile, gen, pool, viewVars>>
        /\ pc[t] # "queued" => UNCHANGED queue
    BY DEF DoTask, Start, AddActiveTask, Answer, ReadCount, StoreCount,
       AddTileToRamCache, Show, AddTileNoCaching, Unlist, CheckComplete, Finish, loaderVars
  <1>2. \A u \in Task : u # t => pc'[u] = pc[u]
    BY <1>0, <1>1 DEF Goto
  <1>3. \A l : Goto(t, l) => pc'[t] = l
    BY <1>0 DEF Goto
  <1>. QED
    BY <1>1, <1>2, <1>3 DEF DoTask, Start, AddActiveTask, Answer, ReadCount, StoreCount,
       AddTileToRamCache, Show, AddTileNoCaching, Unlist, CheckComplete, Finish, Answered

(* The UI thread gives birth to tasks and deletes completed ones.          *)
LEMMA UIMoves ==
  ASSUME TypeOK, (\E v \in View : Request(v)) \/ Serve \/ Clear \/ ClearCache \/ Stop
  PROVE  /\ UNCHANGED <<m_count, active, got, tmp>> \/ Reassign
         /\ UNCHANGED <<active, got, tmp>>
         /\ \/ Load
            \/ UNCHANGED <<pc, tile, pool, queue>>
            \/ StopReturns
  BY DEF Request, Serve, Reassign, LookUp, Count, Load, NothingToLoad, StopReturns,
         Clear, ClearCache, Stop, loaderVars, taskVars

LEMMA LoadMoves ==
  ASSUME TypeOK, Load
  PROVE  \E S \in SUBSET Fresh : \E order \in SetToSeqs(S), coord \in [S -> points] :
           /\ Cardinality(S) = Cardinality(points)
           /\ \A c \in points : \E t \in S : coord[t] = c
           /\ pc' = [t \in Task |-> IF t \in S THEN "queued" ELSE CleanTasks[t]]
           /\ tile' = [t \in Task |-> IF t \in S THEN <<lastView.provider, coord[t]>> ELSE tile[t]]
           /\ gen' = [t \in Task |-> IF t \in S THEN tileGeneration ELSE gen[t]]
           /\ pool' = [t \in Task |-> IF t \in S THEN tileGeneration % 2 ELSE pool[t]]
           /\ queue' = [queue EXCEPT ![tileGeneration % 2] = @ \o order]
  <1>1. PICK S \in kSubset(Cardinality(points), Fresh) :
          \E order \in SetToSeqs(S), coord \in Bijection(S, points) :
           /\ pc' = [t \in Task |-> IF t \in S THEN "queued" ELSE CleanTasks[t]]
           /\ tile' = [t \in Task |-> IF t \in S THEN <<lastView.provider, coord[t]>> ELSE tile[t]]
           /\ gen' = [t \in Task |-> IF t \in S THEN tileGeneration ELSE gen[t]]
           /\ pool' = [t \in Task |-> IF t \in S THEN tileGeneration % 2 ELSE pool[t]]
           /\ queue' = [queue EXCEPT ![tileGeneration % 2] = @ \o order]
    BY DEF Load
  <1>2. S \in SUBSET Fresh /\ Cardinality(S) = Cardinality(points)
    BY DEF kSubset
  <1>3. \A coord \in Bijection(S, points) :
          coord \in [S -> points] /\ \A c \in points : \E t \in S : coord[t] = c
    BY DEF Bijection, Injection, Surjection
  <1>4. PICK order \in SetToSeqs(S), coord \in Bijection(S, points) :
           /\ pc' = [t \in Task |-> IF t \in S THEN "queued" ELSE CleanTasks[t]]
           /\ tile' = [t \in Task |-> IF t \in S THEN <<lastView.provider, coord[t]>> ELSE tile[t]]
           /\ gen' = [t \in Task |-> IF t \in S THEN tileGeneration ELSE gen[t]]
           /\ pool' = [t \in Task |-> IF t \in S THEN tileGeneration % 2 ELSE pool[t]]
           /\ queue' = [queue EXCEPT ![tileGeneration % 2] = @ \o order]
    BY <1>1
  <1>5. coord \in [S -> points] /\ \A c \in points : \E t \in S : coord[t] = c
    BY <1>3
  <1>. QED
    BY <1>2, <1>4, <1>5
(* What holds of each task after any step.                                 *)
LEMMA AnyMove ==
  ASSUME TypeOK, [Next]_vars, NEW t \in Task
  PROVE  /\ pc[t] # "unborn" => tile'[t] = tile[t] /\ pool'[t] = pool[t]
         /\ \/ DoTask(t)
            \/ pc'[t] = pc[t] /\ (pc[t] = "unborn" => tile'[t] = tile[t])
            \/ pc[t] = "unborn" /\ pc'[t] = "queued" /\ Load
            \/ pc[t] = "completed" /\ pc'[t] = "deleted"
  <1>1. CASE UNCHANGED vars
    BY <1>1 DEF vars, taskVars
  <1>2. ASSUME NEW u \in Task, DoTask(u)
        PROVE  /\ tile' = tile /\ pool' = pool
               /\ u # t => pc'[t] = pc[t]
    BY <1>2, TaskMoves
  <1>3. CASE Load
    <2>1. PICK S \in SUBSET Fresh : \E order \in SetToSeqs(S), coord \in [S -> points] :
           /\ pc' = [u \in Task |-> IF u \in S THEN "queued" ELSE CleanTasks[u]]
           /\ tile' = [u \in Task |-> IF u \in S THEN <<lastView.provider, coord[u]>> ELSE tile[u]]
           /\ pool' = [u \in Task |-> IF u \in S THEN tileGeneration % 2 ELSE pool[u]]
      BY <1>3, LoadMoves
    <2>2. t \in S => pc[t] = "unborn"
      BY DEF Fresh
    <2>. QED
      BY <1>3, <2>1, <2>2 DEF CleanTasks
  <1>4. CASE StopReturns
    BY <1>4 DEF StopReturns, CleanTasks
  <1>5. CASE UNCHANGED <<pc, tile, pool, queue>>
    BY <1>5
  <1>. QED
    BY <1>1, <1>2, <1>3, <1>4, <1>5, UIMoves DEF Next

LEMMA BornStep ==
  ASSUME TypeOK, Born, Phase, [Next]_vars
  PROVE  Born'
  <1>1. SUFFICES ASSUME NEW t \in Task, pc'[t] # "unborn"
                 PROVE  \E v \in View : tile'[t] \in Tiles(v)
    BY DEF Born, Tiles
  <1>2. CASE pc[t] # "unborn"
    BY <1>2, AnyMove DEF Born
  <1>3. CASE pc[t] = "unborn"
    <2>1. ~DoTask(t)
      BY <1>3, TaskMoves
    <2>2. Load
      BY <1>1, <1>3, <2>1, AnyMove
    <2>3. PICK S \in SUBSET Fresh : \E order \in SetToSeqs(S), coord \in [S -> points] :
           /\ pc' = [u \in Task |-> IF u \in S THEN "queued" ELSE CleanTasks[u]]
           /\ tile' = [u \in Task |-> IF u \in S THEN <<lastView.provider, coord[u]>> ELSE tile[u]]
      BY <2>2, LoadMoves
    <2>4. PICK coord \in [S -> points] :
            tile' = [u \in Task |-> IF u \in S THEN <<lastView.provider, coord[u]>> ELSE tile[u]]
      BY <2>3
    <2>5. t \in S
      BY <1>1, <1>3, <2>3 DEF CleanTasks
    <2>6. tile'[t] = <<lastView.provider, coord[t]>> /\ coord[t] \in points
      BY <2>4, <2>5
    <2>7. lastView \in View /\ points \subseteq lastView.coords
      BY <2>2 DEF Phase, Load
    <2>. QED
      BY <2>6, <2>7 DEF Tiles
  <1>. QED
    BY <1>2, <1>3

-----------------------------------------------------------------------------
(* The queues.                                                             *)
LEMMA QueuedStep ==
  ASSUME TypeOK, Queued, [Next]_vars
  PROVE  Queued'
  <1>. USE DEF Queued
  <1>1. ASSUME UNCHANGED queue, \A u \in Task : pc[u] = "queued" <=> pc'[u] = "queued"
        PROVE  Queued'
    <2>1. ASSUME NEW p \in {0, 1}
          PROVE  Waiting(p)' = Waiting(p)
      BY <1>1, AnyMove DEF Waiting
    <2>. QED
      BY <1>1, <2>1
  <1>2. CASE UNCHANGED vars
    BY <1>1, <1>2 DEF vars, loaderVars, taskVars
  <1>3. ASSUME NEW t \in Task, DoTask(t), pc[t] # "queued"
        PROVE  Queued'
    BY <1>1, <1>3, TaskMoves
  <1>4. ASSUME NEW t \in Task, DoTask(t), pc[t] = "queued"
        PROVE  Queued'
    <2>. DEFINE p == pool[t]
    <2>1. Start(t)
      BY <1>4 DEF DoTask, AddActiveTask, Answer, ReadCount, StoreCount, AddTileToRamCache,
         Show, AddTileNoCaching, Unlist, CheckComplete, Finish
    <2>2. p \in {0, 1} /\ t \in ToSet(queue[p]) /\ IsInjective(queue[p]) /\ queue[p] \in Seq(Task)
      BY <1>4 DEF TypeOK, Waiting
    <2>3. queue[p] # <<>>
      BY <2>2, Elements
    <2>4. /\ Head(queue[p]) = t /\ queue' = [queue EXCEPT ![p] = Tail(@)]
      BY <2>1 DEF Start
    <2>5. /\ queue'[p] \in Seq(Task) /\ IsInjective(queue'[p])
          /\ ToSet(queue'[p]) = ToSet(queue[p]) \ {t}
      BY <2>2, <2>3, <2>4, HeadLeaves
    <2>6. ASSUME NEW q \in {0, 1}
          PROVE  Waiting(q)' = IF q = p THEN Waiting(q) \ {t} ELSE Waiting(q)
      BY <1>4, TaskMoves DEF Waiting
    <2>. HIDE DEF p
    <2>7. queue' \in [{0, 1} -> Seq(Task)] /\ \A q \in {0, 1} : q # p => queue'[q] = queue[q]
      BY <2>2, <2>4, <2>5
    <2>. QED
      BY <2>2, <2>5, <2>6, <2>7
  <1>5. CASE Load
    <2>1. PICK S \in SUBSET Fresh : \E order \in SetToSeqs(S), coord \in [S -> points] :
           /\ pc' = [u \in Task |-> IF u \in S THEN "queued" ELSE CleanTasks[u]]
           /\ pool' = [u \in Task |-> IF u \in S THEN tileGeneration % 2 ELSE pool[u]]
           /\ queue' = [queue EXCEPT ![tileGeneration % 2] = @ \o order]
      BY <1>5, LoadMoves
    <2>2. PICK order \in SetToSeqs(S) :
            queue' = [queue EXCEPT ![tileGeneration % 2] = @ \o order]
      BY <2>1
    <2>. DEFINE p == tileGeneration % 2
    <2>3. p \in {0, 1}
      BY DEF TypeOK
    <2>4. IsFiniteSet(S) /\ S \subseteq Task /\ \A t \in S : pc[t] = "unborn"
      <3>1. S \subseteq Task /\ \A t \in S : pc[t] = "unborn"
        BY DEF Fresh
      <3>. QED
        BY <3>1, FS_Subset, TileLoaderAssumption
    <2>5. order \in Seq(S) /\ IsInjective(order) /\ ToSet(order) = S
      BY <2>4, InSomeOrder
    <2>6. order \in Seq(Task)
      BY <2>4, <2>5, SeqMonotonic
    <2>7. ToSet(queue[p]) \cap ToSet(order) = {}
      BY <2>3, <2>4, <2>5 DEF Waiting
    <2>8. /\ queue[p] \o order \in Seq(Task) /\ IsInjective(queue[p] \o order)
          /\ ToSet(queue[p] \o order) = ToSet(queue[p]) \cup S
      <3>. HIDE DEF p
      <3>. QED
        BY <2>3, <2>5, <2>6, <2>7, Joined
    <2>9. ASSUME NEW q \in {0, 1}
          PROVE  Waiting(q)' = IF q = p THEN Waiting(q) \cup S ELSE Waiting(q)
      BY <2>1, <2>4 DEF Waiting, CleanTasks
    <2>10. /\ queue' \in [{0, 1} -> Seq(Task)] /\ queue'[p] = queue[p] \o order
           /\ \A q \in {0, 1} : q # p => queue'[q] = queue[q]
      <3>1. queue' = [queue EXCEPT ![p] = queue[p] \o order]
        BY <2>2
      <3>. HIDE DEF p
      <3>. QED
        BY <2>3, <2>8, <3>1
    <2>. HIDE DEF p
    <2>. QED
      BY <2>3, <2>8, <2>9, <2>10
  <1>6. CASE StopReturns
    <2>1. UNCHANGED queue /\ \A u \in Task : pc[u] = "queued" <=> pc'[u] = "queued"
      BY <1>6 DEF StopReturns, CleanTasks, loaderVars
    <2>. QED
      BY <1>1, <2>1
  <1>7. CASE UNCHANGED <<pc, tile, pool, queue>>
    BY <1>1, <1>7
  <1>. QED
    BY <1>2, <1>3, <1>4, <1>5, <1>6, <1>7, UIMoves DEF Next
-----------------------------------------------------------------------------
(* The list of active tasks drains.                                        *)

LEMMA FiniteParts ==
  ASSUME TypeOK
  PROVE  /\ ToSet(active) \subseteq Task
         /\ \A c : IsFiniteSet(ListedAt(c)) /\ IsFiniteSet(TakersAt(c))
  <1>1. ToSet(active) \subseteq Task
    BY Elements DEF TypeOK
  <1>2. \A c : ListedAt(c) \in SUBSET Task /\ TakersAt(c) \in SUBSET Task
    BY <1>1 DEF ListedAt, TakersAt
  <1>. QED
    BY <1>1, <1>2, FS_Subset, TileLoaderAssumption

(* A task keeps its duty until it has completed.                           *)
LEMMA StillTaking ==
  ASSUME TypeOK, [Next]_vars, NEW t \in Task, Taking(t), ~(pc[t] = "finish" /\ DoTask(t))
  PROVE  Taking(t)'
  BY AnyMove, TaskMoves DEF Taking

LEMMA ListedPlaces ==
  ASSUME TypeOK, Listing, [Next]_vars
  PROVE  \A t \in ToSet(active') : pc'[t] \notin {"unborn", "queued", "list"}
  <1>1. ToSet(active) \subseteq Task
    BY FiniteParts
  <1>2. ASSUME NEW t \in ToSet(active)
        PROVE  pc'[t] \notin {"unborn", "queued", "list"}
    BY <1>1, <1>2, AnyMove, TaskMoves DEF Listing
  <1>3. ASSUME NEW t \in Task, AddActiveTask(t)
        PROVE  pc'[t] = "http"
    BY <1>3 DEF AddActiveTask, Goto, TypeOK
  <1>. QED
    BY <1>2, <1>3, ActiveStep

(* No entry is added, and no task with that coord is done.                 *)
LEMMA KeepsListing ==
  ASSUME TypeOK, Listing, [Next]_vars, NEW c \in Coords,
         ToSet(active') \subseteq ToSet(active),
         \A t \in TakersAt(c) : ~(pc[t] = "finish" /\ DoTask(t))
  PROVE  Cardinality(ListedAt(c)') <= Cardinality(TakersAt(c)')
  <1>1. ListedAt(c)' \subseteq ListedAt(c)
    BY FiniteParts, AnyMove DEF Listing, ListedAt
  <1>2. TakersAt(c) \subseteq TakersAt(c)'
    BY StillTaking, AnyMove DEF TakersAt, Taking
  <1>3. TakersAt(c)' \subseteq Task /\ IsFiniteSet(TakersAt(c)')
    <2>1. TakersAt(c)' \in SUBSET Task
      BY DEF TakersAt
    <2>. QED
      BY <2>1, FS_Subset, TileLoaderAssumption
  <1>4. /\ Cardinality(ListedAt(c)') <= Cardinality(ListedAt(c))
        /\ Cardinality(TakersAt(c)) <= Cardinality(TakersAt(c)')
        /\ Cardinality(ListedAt(c)') \in Nat /\ Cardinality(ListedAt(c)) \in Nat
        /\ Cardinality(TakersAt(c)') \in Nat /\ Cardinality(TakersAt(c)) \in Nat
    BY <1>1, <1>2, <1>3, FiniteParts, FS_Subset, FS_CardinalityType
  <1>5. Cardinality(ListedAt(c)) <= Cardinality(TakersAt(c))
    BY DEF Listing
  <1>. QED
    BY <1>4, <1>5

LEMMA ListingStep ==
  ASSUME TypeOK, Listing, [Next]_vars
  PROVE  Listing'
  <1>1. SUFFICES ASSUME NEW c \in Coords
                 PROVE  Cardinality(ListedAt(c)') <= Cardinality(TakersAt(c)')
    BY ListedPlaces DEF Listing, Coords
  <1>2. ASSUME NEW t \in Task, AddActiveTask(t)
        PROVE  Cardinality(ListedAt(c)') <= Cardinality(TakersAt(c)')
    <2>1. DoTask(t) /\ pc[t] = "list" /\ pc' = [pc EXCEPT ![t] = "http"] /\ tile' = tile
          /\ active' = Append(active, t) /\ DOMAIN pc = Task
      BY <1>2 DEF DoTask, AddActiveTask, Goto, TypeOK
    <2>2. ToSet(active') = ToSet(active) \cup {t}
      <3>1. t \notin ToSet(active) /\ active \in Seq(Task) /\ IsInjective(active)
        BY <2>1 DEF Listing, TypeOK
      <3>. QED
        BY <2>1, <3>1, PutLast
    <2>3. t \notin TakersAt(c) /\ Cardinality(ListedAt(c)) <= Cardinality(TakersAt(c))
      BY <2>1 DEF TakersAt, Taking, Listing
    <2>4. CASE tile[t][2] = c
      <3>1. ListedAt(c)' = ListedAt(c) \cup {t}
        BY <2>1, <2>2, <2>4 DEF ListedAt
      <3>2. TakersAt(c)' = TakersAt(c) \cup {t}
        BY <2>1, <2>4 DEF TakersAt, Taking
      <3>. QED
        BY <2>3, <3>1, <3>2, FiniteParts, BothGrow
    <2>5. CASE tile[t][2] # c
      <3>1. ListedAt(c)' = ListedAt(c) /\ TakersAt(c)' = TakersAt(c)
        BY <2>1, <2>2, <2>5 DEF ListedAt, TakersAt, Taking
      <3>. QED
        BY <2>3, <3>1
    <2>. QED
      BY <2>4, <2>5
  <1>3. ASSUME NEW t \in Task, DoTask(t), pc[t] = "finish", tile[t][2] = c
        PROVE  Cardinality(ListedAt(c)') <= Cardinality(TakersAt(c)')
    <2>1. /\ RemoveActiveTask(t) /\ pc' = [pc EXCEPT ![t] = "completed"] /\ tile' = tile
          /\ DOMAIN pc = Task
      BY <1>3 DEF DoTask, Start, AddActiveTask, Answer, ReadCount, StoreCount,
         AddTileToRamCache, Show, AddTileNoCaching, Unlist, CheckComplete, Finish, Goto, TypeOK
    <2>2. TakersAt(c)' = TakersAt(c) \ {t} /\ IsFiniteSet(TakersAt(c)')
      <3>1. TakersAt(c)' = TakersAt(c) \ {t}
        BY <1>3, <2>1 DEF TakersAt, Taking
      <3>. QED
        BY <3>1, FiniteParts, FS_RemoveElement
    <2>3. \/ ListedAt(c)' = {}
          \/ \E u \in ListedAt(c) : ListedAt(c)' = ListedAt(c) \ {u}
      <3>1. active \in Seq(Task) /\ IsInjective(active)
        BY DEF TypeOK
      <3>. QED
        BY <1>3, <2>1, <3>1, Removal DEF ListedAt
    <2>4. CASE ListedAt(c)' = {}
      BY <2>2, <2>4, FS_EmptySet, FS_CardinalityType
    <2>5. CASE \E u \in ListedAt(c) : ListedAt(c)' = ListedAt(c) \ {u}
      <3>1. Cardinality(ListedAt(c)) <= Cardinality(TakersAt(c))
        BY DEF Listing
      <3>. QED
        BY <2>2, <2>5, <3>1, FiniteParts, BothShrink
    <2>. QED
      BY <2>3, <2>4, <2>5
  <1>4. ASSUME ToSet(active') \subseteq ToSet(active),
               \A t \in Task : ~(DoTask(t) /\ pc[t] = "finish" /\ tile[t][2] = c)
        PROVE  Cardinality(ListedAt(c)') <= Cardinality(TakersAt(c)')
    BY <1>4, KeepsListing DEF TakersAt
  <1>. QED
    BY <1>2, <1>3, <1>4, ActiveStep
(* Each task has taken its own entry when it is past that.                 *)
LEMMA OwnEntriesStep ==
  ASSUME TypeOK, Listing, OwnEntries, [Next]_vars
  PROVE  OwnEntries'
  <1>1. SUFFICES ASSUME ~collided'
                 PROVE  \A t, u \in ToSet(active') : tile'[t][2] = tile'[u][2] => t = u
    BY DEF OwnEntries
  <1>2. \A t \in ToSet(active) : t \in Task /\ tile'[t] = tile[t]
    BY FiniteParts, AnyMove DEF Listing
  <1>3. ASSUME NEW t \in Task, AddActiveTask(t)
        PROVE  ~collided /\ tile'[t] = tile[t] /\ \A u \in ToSet(active) : tile[u][2] # tile[t][2]
    BY <1>1, <1>3 DEF AddActiveTask, SameCoord, ToSet
  <1>4. ~collided
    <2>1. ASSUME NEW t \in Task, DoTask(t), ~AddActiveTask(t)
          PROVE  UNCHANGED collided
      BY <2>1 DEF DoTask, Start, Answer, ReadCount, StoreCount, AddTileToRamCache,
         Show, AddTileNoCaching, Unlist, CheckComplete, Finish, ghostVars
    <2>2. CASE (\E v \in View : Request(v)) \/ Serve \/ Clear \/ ClearCache \/ Stop
      BY <1>1, <2>2 DEF Request, Serve, Reassign, LookUp, Count, Load, NothingToLoad, StopReturns,
         Clear, ClearCache, Stop, ghostVars
    <2>. QED
      BY <1>1, <1>3, <2>1, <2>2 DEF Next, vars, ghostVars
  <1>5. \A t, u \in ToSet(active) : tile[t][2] = tile[u][2] => t = u
    BY <1>4 DEF OwnEntries
  <1>6. CASE ToSet(active') \subseteq ToSet(active)
    BY <1>2, <1>5, <1>6
  <1>7. CASE \E t \in Task : AddActiveTask(t) /\ ToSet(active') = ToSet(active) \cup {t}
    BY <1>2, <1>3, <1>5, <1>7
  <1>. QED
    BY <1>6, <1>7, ActiveStep

LEMMA ListedUnlessCollidedStep ==
  ASSUME TypeOK, Listing, OwnEntries, ListedUnlessCollided, [Next]_vars
  PROVE  ListedUnlessCollided'
  <1>. DEFINE P == {"http", "abort", "tally", "store", "add", "unlist"}
  <1>0. \A t : Listed(t) <=> t \in ToSet(active)
    BY DEF Listed, ToSet
  <1>1. \A t \in Task : Listed(t)' <=> t \in ToSet(active')
    BY DEF Listed, ToSet
  <1>2. SUFFICES ASSUME ~collided', NEW t \in Task, t \in ToSet(active')
                 PROVE  pc'[t] \in P
    BY <1>1 DEF ListedUnlessCollided
  <1>3. ~collided
    <2>1. ASSUME NEW u \in Task, DoTask(u)
          PROVE  collided => collided'
      BY <2>1 DEF DoTask, Start, AddActiveTask, Answer, ReadCount, StoreCount,
         AddTileToRamCache, Show, AddTileNoCaching, Unlist, CheckComplete, Finish, ghostVars
    <2>2. CASE (\E v \in View : Request(v)) \/ Serve \/ Clear \/ ClearCache \/ Stop
      BY <1>2, <2>2 DEF Request, Serve, Reassign, LookUp, Count, Load, NothingToLoad, StopReturns,
         Clear, ClearCache, Stop, ghostVars
    <2>. QED
      BY <1>2, <2>1, <2>2 DEF Next, vars, ghostVars
  <1>4. CASE t \notin ToSet(active)
    BY <1>2, <1>4, ActiveStep DEF AddActiveTask, Goto, TypeOK
  <1>5. CASE t \in ToSet(active)
    <2>1. pc[t] \in P
      BY <1>0, <1>3, <1>5 DEF ListedUnlessCollided
    <2>2. ASSUME DoTask(t), pc[t] \in {"add", "abort", "unlist"}
          PROVE  FALSE
      <3>1. RemoveActiveTask(t) /\ active \in Seq(Task) /\ IsInjective(active)
        BY <2>2 DEF DoTask, Start, AddActiveTask, Answer, ReadCount, StoreCount,
           AddTileToRamCache, Show, AddTileNoCaching, Unlist, CheckComplete, Finish, TypeOK
      <3>2. \A u \in ToSet(active) : tile[u][2] = tile[t][2] => u = t
        BY <1>3, <1>5 DEF OwnEntries
      <3>. QED
        BY <1>2, <1>5, <3>1, <3>2, Removal
    <2>. QED
      BY <2>1, <2>2, AnyMove, TaskMoves
  <1>. QED
    BY <1>4, <1>5

-----------------------------------------------------------------------------
(* The counter never exceeds the number of tasks that can have counted.    *)
LEMMA CountsStep ==
  ASSUME TypeOK, Counts, [Next]_vars
  PROVE  Counts'
  <1>1. Counted \in SUBSET Task /\ Counted' \in SUBSET Task
    BY DEF Counted
  <1>2. /\ IsFiniteSet(Counted) /\ IsFiniteSet(Counted')
        /\ Cardinality(Counted) \in Nat /\ Cardinality(Counted') \in Nat
    BY <1>1, FS_Subset, FS_CardinalityType, TileLoaderAssumption
  <1>3. Counted \subseteq Counted'
    BY AnyMove, TaskMoves DEF Counted
  <1>4. Cardinality(Counted) <= Cardinality(Counted')
    BY <1>2, <1>3, FS_Subset
  <1>5. /\ m_count \in Nat /\ tmp \in [Task -> Nat]
    BY TileLoaderAssumption, FS_CardinalityType DEF TypeOK
  <1>6. ASSUME NEW t \in Task, StoreCount(t)
        PROVE  Counts'
    <2>1. /\ m_count' = tmp[t] + 1 /\ tmp' = [tmp EXCEPT ![t] = 0]
          /\ t \in Counted' /\ t \notin Counted
      BY <1>6 DEF StoreCount, Counted, Goto, Answered, TypeOK
    <2>2. Counted \cup {t} \in SUBSET Counted'
      BY <1>3, <2>1
    <2>3. Cardinality(Counted \cup {t}) = Cardinality(Counted) + 1
      BY <1>2, <2>1, FS_AddElement
    <2>4. Cardinality(Counted \cup {t}) <= Cardinality(Counted')
      BY <1>2, <2>2, FS_Subset
    <2>5. m_count' <= Cardinality(Counted')
      BY <1>2, <1>5, <2>1, <2>3, <2>4 DEF Counts
    <2>6. \A u \in Task : tmp'[u] <= Cardinality(Counted')
      BY <1>2, <1>4, <1>5, <2>1 DEF Counts
    <2>. QED
      BY <2>5, <2>6 DEF Counts
  <1>7. ASSUME m_count' \in {0, m_count}, \A u \in Task : tmp'[u] \in {tmp[u], m_count}
        PROVE  Counts'
    <2>1. m_count' <= Cardinality(Counted')
      BY <1>2, <1>4, <1>5, <1>7 DEF Counts
    <2>2. \A u \in Task : tmp'[u] <= Cardinality(Counted')
      BY <1>2, <1>4, <1>5, <1>7 DEF Counts
    <2>. QED
      BY <2>1, <2>2 DEF Counts
  <1>8. ASSUME NEW t \in Task, DoTask(t), ~StoreCount(t)
        PROVE  m_count' = m_count /\ \A u \in Task : tmp'[u] \in {tmp[u], m_count}
    BY <1>5, <1>8 DEF DoTask, Start, AddActiveTask, Answer, ReadCount,
         AddTileToRamCache, Show, AddTileNoCaching, Unlist, CheckComplete, Finish, loaderVars
  <1>9. CASE (\E v \in View : Request(v)) \/ Serve \/ Clear \/ ClearCache \/ Stop
    <2>1. m_count' \in {0, m_count} /\ tmp' = tmp
      BY <1>9, UIMoves DEF Reassign
    <2>. QED
      BY <1>7, <2>1
  <1>10. CASE UNCHANGED vars
    BY <1>7, <1>10 DEF vars, loaderVars, taskVars
  <1>. QED
    BY <1>6, <1>7, <1>8, <1>9, <1>10 DEF Next
-----------------------------------------------------------------------------
(* LoadTiles.                                                              *)

LEMMA FreshStep ==
  ASSUME TypeOK, [Next]_vars
  PROVE  /\ IsFiniteSet(Fresh) /\ Cardinality(Fresh) \in Nat
         /\ Fresh' \subseteq Fresh
         /\ Load \/ Fresh' = Fresh
  <1>1. Fresh \in SUBSET Task
    BY DEF Fresh
  <1>2. ASSUME NEW t \in Task
        PROVE  (pc'[t] = "unborn" => pc[t] = "unborn") /\ (pc[t] = "unborn" => Load \/ pc'[t] = "unborn")
    BY AnyMove, TaskMoves
  <1>. QED
    BY <1>1, <1>2, FS_Subset, FS_CardinalityType, TileLoaderAssumption DEF Fresh

LEMMA PhaseStep ==
  ASSUME TypeOK, Listing, Phase, [Next]_vars
  PROVE  Phase'
  <1>1. ASSUME UNCHANGED <<viewVars, tileGeneration, stopped>>
        PROVE  Phase'
    <2>1. CASE Load
      BY <1>1, <2>1 DEF Load, viewVars, Phase
    <2>2. CASE Fresh' = Fresh
      BY <1>1, <2>2 DEF viewVars, Phase
    <2>. QED
      BY <2>1, <2>2, FreshStep
  <1>2. CASE UNCHANGED vars
    BY <1>1, <1>2 DEF vars, loaderVars
  <1>3. ASSUME NEW t \in Task, DoTask(t)
        PROVE  Phase'
    BY <1>1, <1>3, TaskMoves
  <1>4. ASSUME NEW v \in View, Request(v)
        PROVE  Phase'
    <2>1. UNCHANGED <<pc, todo, points, reassigned, stopped>> /\ Fresh' = Fresh
      BY <1>4 DEF Request, taskVars, Fresh
    <2>. QED
      BY <1>4, <2>1, TileLoaderAssumption DEF Request, Phase, TypeOK
  <1>5. CASE Reassign
    <2>1. Fresh' = Fresh
      BY <1>5 DEF Reassign, Fresh
    <2>2. reassigned' \cap Fresh = {}
      <3>1. ASSUME NEW t \in reassigned'
            PROVE  pc[t] # "unborn"
        BY <1>5 DEF Reassign, Listed, ToSet, Listing
      <3>. QED
        BY <3>1 DEF Fresh
    <2>3. todo' \subseteq lastView.coords /\ points = {}
      BY <1>5 DEF Reassign, Phase
    <2>. QED
      BY <1>5, <2>1, <2>2, <2>3 DEF Reassign, Phase
  <1>6. ASSUME NEW c \in todo, LookUp(c)
        PROVE  Phase'
    <2>1. Fresh' = Fresh
      BY <1>6 DEF LookUp, taskVars, Fresh
    <2>. QED
      BY <1>6, <2>1 DEF LookUp, loaderVars, Phase
  <1>7. CASE Count
    <2>1. Fresh' = Fresh
      BY <1>7 DEF Count, taskVars, Fresh
    <2>. QED
      BY <1>7, <2>1 DEF Count, Phase
  <1>8. CASE Load
    <2>1. Fresh' \subseteq Fresh
      BY FreshStep
    <2>. QED
      BY <1>8, <2>1 DEF Load, Phase
  <1>9. CASE NothingToLoad \/ Clear \/ ClearCache \/ Stop \/ StopReturns
    <2>1. Fresh' = Fresh
      BY <1>9 DEF NothingToLoad, Clear, ClearCache, Stop, StopReturns, taskVars, CleanTasks, Fresh
    <2>. QED
      BY <1>9, <2>1 DEF NothingToLoad, Clear, ClearCache, Stop, StopReturns, loaderVars,
         viewVars, Phase
  <1>. QED
    BY <1>2, <1>3, <1>4, <1>5, <1>6, <1>7, <1>8, <1>9 DEF Next, Serve

LEMMA AbortedStep ==
  ASSUME TypeOK, Phase, Aborted, [Next]_vars
  PROVE  Aborted'
  <1>1. stopped => stopped'
    <2>1. ASSUME NEW t \in Task, DoTask(t)
          PROVE  UNCHANGED stopped
      BY <2>1, TaskMoves
    <2>2. CASE (\E v \in View : Request(v)) \/ Serve \/ Clear \/ ClearCache \/ Stop
      BY <2>2 DEF Request, Serve, Reassign, LookUp, Count, Load, NothingToLoad, StopReturns,
         Clear, ClearCache, Stop, loaderVars, Phase
    <2>. QED
      BY <2>1, <2>2 DEF Next, vars, loaderVars
  <1>2. ASSUME NEW t \in Task, DoTask(t), pc[t] = "http", pc'[t] = "abort"
        PROVE  stopped
    BY <1>2 DEF DoTask, Start, AddActiveTask, Answer, ReadCount, StoreCount, Goto,
       AddTileToRamCache, Show, AddTileNoCaching, Unlist, CheckComplete, Finish, TypeOK
  <1>. QED
    BY <1>1, <1>2, AnyMove, TaskMoves DEF Aborted

(* What is counted before Load fits the tasks there are.                   *)
LEMMA CountFits ==
  ASSUME TypeOK, Phase, Count
  PROVE  m_totalCount' \in 0..Cardinality(Task)
  <1>1. /\ lastView \in View /\ points \in SUBSET lastView.coords
        /\ Cardinality(lastView.coords) <= Cardinality(Fresh)
    BY DEF Count, Phase
  <1>2. /\ IsFiniteSet(lastView.coords) /\ IsFiniteSet(Task)
        /\ Fresh \in SUBSET Task /\ reassigned \in SUBSET Task
    BY <1>1, TileLoaderAssumption DEF Fresh, TypeOK
  <1>3. /\ IsFiniteSet(points) /\ Cardinality(points) <= Cardinality(lastView.coords)
        /\ Cardinality(points) \in Nat /\ Cardinality(lastView.coords) \in Nat
    BY <1>1, <1>2, FS_Subset, FS_CardinalityType
  <1>4. /\ IsFiniteSet(Fresh) /\ IsFiniteSet(reassigned)
        /\ Cardinality(Fresh) \in Nat /\ Cardinality(reassigned) \in Nat
    BY <1>2, FS_Subset, FS_CardinalityType
  <1>5. Cardinality(Fresh \cup reassigned) = Cardinality(Fresh) + Cardinality(reassigned)
    <2>1. Fresh \cap reassigned = {}
      BY DEF Phase
    <2>2. Cardinality(Fresh \cup reassigned) =
            Cardinality(Fresh) + Cardinality(reassigned) - Cardinality(Fresh \cap reassigned)
      BY <1>4, FS_Union
    <2>3. Cardinality(Fresh \cap reassigned) = 0
      BY <2>1, FS_EmptySet
    <2>. QED
      BY <1>4, <2>2, <2>3
  <1>6. /\ Cardinality(Fresh \cup reassigned) <= Cardinality(Task)
        /\ Cardinality(Task) \in Nat
    <2>1. Fresh \cup reassigned \in SUBSET Task
      BY <1>2
    <2>. QED
      BY <1>2, <2>1, FS_Subset, FS_CardinalityType
  <1>. QED
    BY <1>1, <1>3, <1>4, <1>5, <1>6 DEF Count
-----------------------------------------------------------------------------
(* Type correctness, part by part.                                         *)

Places == {"unborn", "queued", "list", "http", "abort", "tally", "store", "add",
           "show", "display", "unlist", "check", "finish", "completed", "deleted"}

LEMMA ScalarTypes ==
  ASSUME TypeOK, Phase, [Next]_vars
  PROVE  /\ tileGeneration' \in 0..MaxGen /\ stopped' \in BOOLEAN
         /\ lastView' \in View \cup {NoView}
         /\ ui' \in {"idle", "reassign", "scan", "load", "stop", "gone"}
         /\ m_totalCount' \in 0..Cardinality(Task) \cup {Counting}
  <1>1. ASSUME NEW t \in Task, DoTask(t)
        PROVE  UNCHANGED <<tileGeneration, stopped, m_totalCount, lastView, ui>>
    BY <1>1, TaskMoves DEF viewVars
  <1>2. CASE UNCHANGED vars
    BY <1>2 DEF vars, loaderVars, viewVars, TypeOK
  <1>3. ASSUME NEW v \in View, Request(v)
        PROVE  /\ tileGeneration' \in 0..MaxGen /\ ui' = "reassign" /\ lastView' = v
               /\ UNCHANGED <<stopped, m_totalCount>>
    BY <1>3, TileLoaderAssumption DEF Request, TypeOK
  <1>4. CASE Serve \/ Clear \/ ClearCache \/ Stop
    BY <1>4, CountFits DEF Serve, Reassign, LookUp, Count, Load, NothingToLoad, StopReturns,
       Clear, ClearCache, Stop, loaderVars, viewVars, TypeOK
  <1>. QED
    BY <1>1, <1>2, <1>3, <1>4 DEF Next, TypeOK

LEMMA CounterTypes ==
  ASSUME TypeOK, Counts, [Next]_vars
  PROVE  m_count' \in 0..Cardinality(Task) /\ tmp' \in [Task -> 0..Cardinality(Task)]
  <1>1. Cardinality(Task) \in Nat /\ m_count \in Nat /\ tmp \in [Task -> Nat]
    BY TileLoaderAssumption, FS_CardinalityType DEF TypeOK
  <1>2. Cardinality(Counted') \in Nat /\ Cardinality(Counted') <= Cardinality(Task)
    <2>1. Counted' \in SUBSET Task
      BY DEF Counted
    <2>. QED
      BY <2>1, FS_Subset, FS_CardinalityType, TileLoaderAssumption
  <1>3. m_count' \in Nat /\ tmp' \in [Task -> Nat]
    <2>1. ASSUME NEW t \in Task, DoTask(t)
          PROVE  m_count' \in Nat /\ tmp' \in [Task -> Nat]
      BY <1>1, <2>1 DEF DoTask, Start, AddActiveTask, Answer, ReadCount, StoreCount,
         AddTileToRamCache, Show, AddTileNoCaching, Unlist, CheckComplete, Finish, loaderVars
    <2>2. CASE (\E v \in View : Request(v)) \/ Serve \/ Clear \/ ClearCache \/ Stop
      <3>1. m_count' \in {0, m_count} /\ tmp' = tmp
        BY <2>2, UIMoves DEF Reassign
      <3>. QED
        BY <1>1, <3>1
    <2>. QED
      BY <1>1, <2>1, <2>2 DEF Next, vars, loaderVars, taskVars
  <1>4. Counts'
    BY CountsStep
  <1>5. m_count' <= Cardinality(Counted') /\ \A t \in Task : tmp'[t] <= Cardinality(Counted')
    BY <1>4 DEF Counts
  <1>. QED
    BY <1>1, <1>2, <1>3, <1>5

LEMMA TaskTypes ==
  ASSUME TypeOK, [Next]_vars
  PROVE  /\ pc' \in [Task -> Places] /\ gen' \in [Task -> 0..MaxGen]
         /\ pool' \in [Task -> {0, 1}] /\ got' \in [Task -> BOOLEAN]
  <1>. USE DEF Places
  <1>0. /\ pc \in [Task -> Places] /\ gen \in [Task -> 0..MaxGen] /\ pool \in [Task -> {0, 1}]
        /\ got \in [Task -> BOOLEAN] /\ tileGeneration \in 0..MaxGen
    BY DEF TypeOK
  <1>1. ASSUME NEW t \in Task, DoTask(t)
        PROVE  /\ pc' \in [Task -> Places] /\ got' \in [Task -> BOOLEAN]
               /\ gen' = gen /\ pool' = pool
    BY <1>0, <1>1 DEF DoTask, Start, AddActiveTask, Answer, ReadCount, StoreCount, Goto, Answered,
       AddTileToRamCache, Show, AddTileNoCaching, Unlist, CheckComplete, Finish
  <1>2. CASE Load
    <2>1. PICK S \in SUBSET Fresh : \E order \in SetToSeqs(S), coord \in [S -> points] :
           /\ pc' = [u \in Task |-> IF u \in S THEN "queued" ELSE CleanTasks[u]]
           /\ gen' = [u \in Task |-> IF u \in S THEN tileGeneration ELSE gen[u]]
           /\ pool' = [u \in Task |-> IF u \in S THEN tileGeneration % 2 ELSE pool[u]]
      BY <1>2, LoadMoves
    <2>2. tileGeneration % 2 \in {0, 1}
      BY <1>0
    <2>3. got' = got
      BY <1>2 DEF Load
    <2>. QED
      BY <1>0, <2>1, <2>2, <2>3 DEF CleanTasks
  <1>3. CASE \/ (\E v \in View : Request(v)) \/ Reassign \/ (\E c \in todo : LookUp(c)) \/ Count
             \/ NothingToLoad \/ StopReturns \/ Clear \/ ClearCache \/ Stop
    BY <1>0, <1>3 DEF Request, Reassign, LookUp, Count, NothingToLoad, StopReturns, CleanTasks,
       Clear, ClearCache, Stop, taskVars
  <1>4. CASE UNCHANGED vars
    BY <1>0, <1>4 DEF vars, taskVars
  <1>. QED
    BY <1>0, <1>1, <1>2, <1>3, <1>4 DEF Next, Serve

LEMMA TileTypes ==
  ASSUME TypeOK, Born, Phase, [Next]_vars
  PROVE  /\ \A t \in Task : tile'[t] = <<>> \/ \E v \in View : tile'[t] \in Tiles(v)
         /\ \A k \in cached' \cup screen' \cup failed' : \E v \in View : k \in Tiles(v)
  <1>1. ASSUME NEW t \in Task
        PROVE  tile'[t] = <<>> \/ \E v \in View : tile'[t] \in Tiles(v)
    <2>1. CASE pc'[t] = "unborn"
      BY <2>1, AnyMove, TaskMoves DEF TypeOK
    <2>2. CASE pc'[t] # "unborn"
      BY <2>2, BornStep DEF Born, Tiles
    <2>. QED
      BY <2>1, <2>2
  <1>. DEFINE Known == UNION {Tiles(v) : v \in View}
  <1>2. cached \cup screen \cup failed \subseteq Known
    BY DEF TypeOK
  <1>3. ASSUME NEW t \in Task, DoTask(t)
        PROVE  cached' \cup screen' \cup failed' \subseteq Known
    <2>1. tile[t] \in Known
      BY <1>3, TaskMoves DEF Born
    <2>. HIDE DEF Known
    <2>. QED
      BY <1>2, <1>3, <2>1 DEF DoTask, Start, AddActiveTask, Answer, ReadCount, StoreCount,
         AddTileToRamCache, Show, AddTileNoCaching, Unlist, CheckComplete, Finish, ghostVars
  <1>4. ASSUME NEW c \in todo, LookUp(c)
        PROVE  cached' \cup screen' \cup failed' \subseteq Known
    <2>1. <<lastView.provider, c>> \in Known
      BY <1>4 DEF LookUp, Phase, Tiles
    <2>. HIDE DEF Known
    <2>. QED
      BY <1>2, <1>4, <2>1 DEF LookUp, ghostVars
  <1>5. ASSUME \/ (\E v \in View : Request(v)) \/ Reassign \/ Count \/ Load
               \/ NothingToLoad \/ StopReturns \/ Clear \/ ClearCache \/ Stop \/ UNCHANGED vars
        PROVE  cached' \cup screen' \cup failed' \subseteq Known
    <2>1. cached' \subseteq cached /\ screen' \subseteq screen /\ failed' \subseteq failed
      BY <1>5 DEF Request, Reassign, Count, Load, NothingToLoad, StopReturns,
         Clear, ClearCache, Stop, vars, ghostVars
    <2>. HIDE DEF Known
    <2>. QED
      BY <1>2, <2>1
  <1>6. cached' \cup screen' \cup failed' \subseteq Known
    BY <1>3, <1>4, <1>5 DEF Next, Serve
  <1>. QED
    BY <1>1, <1>6

LEMMA GhostTypes ==
  ASSUME TypeOK, [Next]_vars
  PROVE  /\ reassigned' \subseteq Task /\ fired' \in [1..MaxGen -> Nat]
         /\ {collided', fault'} \subseteq BOOLEAN
  <1>0. /\ reassigned \subseteq Task /\ fired \in [1..MaxGen -> Nat]
        /\ collided \in BOOLEAN /\ fault \in BOOLEAN
        /\ active \in Seq(Task) /\ IsInjective(active)
    BY DEF TypeOK
  <1>1. ASSUME NEW t \in Task, DoTask(t)
        PROVE  /\ reassigned' = reassigned /\ fired' \in [1..MaxGen -> Nat]
               /\ collided' \in BOOLEAN /\ fault' \in BOOLEAN
    <2>1. RemoveActiveTask(t) => fault' \in BOOLEAN
      BY <1>0, Removal
    <2>2. reassigned' = reassigned
      BY <1>1, TaskMoves DEF viewVars
    <2>3. fault' = fault \/ RemoveActiveTask(t)
      BY <1>1 DEF DoTask, Start, AddActiveTask, Answer, ReadCount, StoreCount,
         AddTileToRamCache, Show, AddTileNoCaching, Unlist, CheckComplete, Finish, ghostVars
    <2>4. collided' = collided \/ AddActiveTask(t)
      BY <1>1 DEF DoTask, Start, Answer, ReadCount, StoreCount,
         AddTileToRamCache, Show, AddTileNoCaching, Unlist, CheckComplete, Finish, ghostVars
    <2>5. AddActiveTask(t) => collided' \in BOOLEAN
      BY DEF AddActiveTask
    <2>6. fired' \in {fired, [fired EXCEPT ![gen[t]] = @ + 1]}
      BY <1>1 DEF DoTask, Start, AddActiveTask, Answer, ReadCount, StoreCount,
         AddTileToRamCache, Show, AddTileNoCaching, Unlist, CheckComplete, Finish, ghostVars
    <2>7. fired' \in [1..MaxGen -> Nat]
      BY <1>0, <2>6
    <2>. QED
      BY <1>0, <2>1, <2>2, <2>3, <2>4, <2>5, <2>7
  <1>2. CASE Reassign
    BY <1>0, <1>2 DEF Reassign
  <1>3. CASE \/ (\E v \in View : Request(v)) \/ (\E c \in todo : LookUp(c)) \/ Count \/ Load
             \/ NothingToLoad \/ StopReturns \/ Clear \/ ClearCache \/ Stop \/ UNCHANGED vars
    <2>1. /\ reassigned' \subseteq reassigned /\ UNCHANGED <<collided, fault>>
          /\ fired' \in {fired, [fired EXCEPT ![tileGeneration] = @ + 1]}
      BY <1>3 DEF Request, LookUp, Count, Load, NothingToLoad, StopReturns,
         Clear, ClearCache, Stop, vars, viewVars, ghostVars
    <2>. QED
      BY <1>0, <2>1
  <1>. QED
    BY <1>0, <1>1, <1>2, <1>3 DEF Next, Serve

LEMMA TypeStep ==
  ASSUME IInv, [Next]_vars
  PROVE  TypeOK'
  <1>0. TypeOK /\ Queued /\ Born /\ Listing /\ Counts /\ Phase
    BY DEF IInv
  <1>1. active' \in Seq(Task) /\ IsInjective(active')
    BY <1>0, ActiveStep
  <1>2. ASSUME NEW p \in {0, 1}
        PROVE  /\ queue'[p] \in Seq({t \in Task : pc'[t] = "queued" /\ pool'[t] = p})
               /\ IsInjective(queue'[p])
    <2>1. Queued'
      BY <1>0, QueuedStep
    <2>2. queue'[p] \in Seq(Task) /\ IsInjective(queue'[p])
          /\ ToSet(queue'[p]) = {t \in Task : pc'[t] = "queued" /\ pool'[t] = p}
      BY <2>1 DEF Queued, Waiting
    <2>. QED
      BY <2>2, SeqOver
  <1>3. /\ \A t \in Task : tile'[t] = <<>> \/ \E v \in View : tile'[t] \in Tiles(v)
        /\ \A k \in cached' \cup screen' \cup failed' : \E v \in View : k \in Tiles(v)
    BY <1>0, TileTypes
  <1>. QED
    BY <1>0, <1>1, <1>2, <1>3, ScalarTypes, CounterTypes, TaskTypes, GhostTypes
       DEF TypeOK, Places, Tiles
-----------------------------------------------------------------------------
(* No tile of the view is lost.                                            *)

(* A tile whose lookup is done, or that is covered, stays so until the     *)
(* next request.                                                           *)
Covers(k) == k \in screen \cup failed \/ \E t \in Task : Fetches(t, k)

LEMMA TaskCovers ==
  ASSUME TypeOK, ~stopped, NEW t \in Task, DoTask(t), NEW k, Covers(k)
  PROVE  Covers(k)'
  <1>1. UNCHANGED <<tileGeneration, tile, gen>> /\ \A u \in Task : u # t => pc'[u] = pc[u]
    BY TaskMoves
  <1>2. screen \subseteq screen' /\ failed \subseteq failed'
    BY DEF DoTask, Start, AddActiveTask, Answer, ReadCount, StoreCount,
       AddTileToRamCache, Show, AddTileNoCaching, Unlist, CheckComplete, Finish, ghostVars
  <1>3. ASSUME NEW u \in Task, u # t, Fetches(u, k)
        PROVE  Fetches(u, k)'
    BY <1>1, <1>3 DEF Fetches
  <1>4. ASSUME Fetches(t, k)
        PROVE  Fetches(t, k)' \/ k \in screen' \cup failed'
    <2>1. tile[t] = k /\ gen[t] = tileGeneration /\ ~(gen[t] < tileGeneration) /\ DOMAIN pc = Task
      BY <1>4 DEF Fetches, TypeOK
    <2>2. \/ pc'[t] \in {"list", "http", "tally", "store", "add", "show", "display", "unlist"}
          \/ k \in screen' \cup failed'
      BY <1>4, <2>1 DEF Fetches, DoTask, Start, AddActiveTask, Answer, ReadCount, StoreCount, Goto,
         Answered, AddTileToRamCache, Show, AddTileNoCaching, Unlist, CheckComplete, Finish
    <2>. QED
      BY <1>1, <2>1, <2>2 DEF Fetches
  <1>. QED
    BY <1>2, <1>3, <1>4 DEF Covers

LEMMA CoveredStep ==
  ASSUME IInv, [Next]_vars
  PROVE  Covered'
  <1>0. TypeOK /\ Listing /\ OwnEntries /\ ListedUnlessCollided /\ Phase /\ Aborted
        /\ Covered
    BY DEF IInv
  <1>1. SUFFICES ASSUME ~collided', ui' \in {"scan", "load", "idle"}, lastView' # NoView,
                        NEW c \in lastView'.coords
                 PROVE  c \in todo' \cup points' \/ Covers(<<lastView.provider, c>>)'
    BY DEF Covered, Covers, Fetches
  <1>2. ~collided
    <2>1. ASSUME NEW u \in Task, DoTask(u)
          PROVE  collided => collided'
      BY <2>1 DEF DoTask, Start, AddActiveTask, Answer, ReadCount, StoreCount,
         AddTileToRamCache, Show, AddTileNoCaching, Unlist, CheckComplete, Finish, ghostVars
    <2>2. CASE (\E v \in View : Request(v)) \/ Serve \/ Clear \/ ClearCache \/ Stop
      BY <1>1, <2>2 DEF Request, Serve, Reassign, LookUp, Count, Load, NothingToLoad, StopReturns,
         Clear, ClearCache, Stop, ghostVars
    <2>. QED
      BY <1>1, <2>1, <2>2 DEF Next, vars, ghostVars
  <1>3. ui \in {"scan", "load", "idle"} /\ lastView # NoView =>
          \A d \in lastView.coords : d \in todo \cup points \/ Covers(<<lastView.provider, d>>)
    BY <1>0, <1>2 DEF Covered, Covers
  <1>k. PICK k : k = <<lastView.provider, c>>
    OBVIOUS
  <1>4. ASSUME UNCHANGED <<lastView, ui, todo, points>>, Covers(k) => Covers(k)'
        PROVE  c \in todo' \cup points' \/ Covers(<<lastView.provider, c>>)'
    BY <1>k, <1>1, <1>3, <1>4 DEF Covers, Fetches
  <1>5. ASSUME UNCHANGED <<screen, failed, tileGeneration, tile, gen, pc>>
        PROVE  \A j : Covers(j) => Covers(j)'
    BY <1>5 DEF Covers, Fetches
  <1>6. CASE UNCHANGED vars \/ ClearCache
    BY <1>4, <1>5, <1>6 DEF vars, ClearCache, viewVars, taskVars, loaderVars, ghostVars
  <1>7. ASSUME NEW t \in Task, DoTask(t)
        PROVE  c \in todo' \cup points' \/ Covers(<<lastView.provider, c>>)'
    <2>1. UNCHANGED viewVars
      BY <1>0, <1>7, TaskMoves
    <2>2. ~stopped
      BY <1>0, <1>1, <2>1 DEF Phase, viewVars
    <2>. QED
      BY <1>0, <1>4, <1>7, <2>1, <2>2, TaskCovers DEF viewVars
  <1>8. CASE (\E v \in View : Request(v)) \/ Clear \/ Stop \/ StopReturns
    BY <1>1, <1>8 DEF Request, Clear, Stop, StopReturns
  <1>9. CASE Reassign
    <2>. DEFINE tasks == {t \in Task : Listed(t) /\ tile[t] \in Tiles(lastView)}
    <2>1. /\ lastView' = lastView /\ todo' = lastView.coords \ {tile[t][2] : t \in tasks}
          /\ gen' = [t \in Task |-> IF t \in tasks THEN tileGeneration ELSE gen[t]]
          /\ UNCHANGED <<tileGeneration, pc, tile>>
      BY <1>9 DEF Reassign
    <2>2. ASSUME NEW t \in tasks, tile[t][2] = c
          PROVE  Fetches(t, k)'
      <3>1. tile[t] = k
        BY <1>k, <2>2 DEF Tiles
      <3>2. pc[t] \in {"http", "abort", "tally", "store", "add", "unlist"}
        BY <1>0, <1>2 DEF ListedUnlessCollided
      <3>3. pc[t] # "abort"
        BY <1>0, <1>9 DEF Phase, Aborted, Reassign
      <3>. QED
        BY <2>1, <3>1, <3>2, <3>3 DEF Fetches
    <2>3. CASE \E t \in tasks : tile[t][2] = c
      BY <1>k, <2>1, <2>2, <2>3 DEF Covers, Fetches
    <2>4. CASE ~\E t \in tasks : tile[t][2] = c
      BY <1>1, <2>1, <2>4
    <2>. QED
      BY <2>3, <2>4
  <1>10. ASSUME NEW d \in todo, LookUp(d)
         PROVE  c \in todo' \cup points' \/ Covers(<<lastView.provider, c>>)'
    <2>1. /\ ui = "scan" /\ lastView' = lastView /\ todo' = todo \ {d} /\ failed' = failed
          /\ screen \subseteq screen' /\ points \subseteq points'
          /\ d \in points' \/ <<lastView.provider, d>> \in screen'
          /\ UNCHANGED <<tileGeneration, tile, gen, pc>>
      BY <1>10 DEF LookUp, loaderVars, taskVars, ghostVars
    <2>2. c \in todo \cup points \/ Covers(k)
      BY <1>k, <1>1, <1>3, <2>1
    <2>3. Covers(k) => Covers(k)'
      BY <2>1 DEF Covers, Fetches
    <2>. QED
      BY <1>k, <2>1, <2>2, <2>3 DEF Covers, Fetches
  <1>11. CASE Count
    <2>1. /\ ui = "scan" /\ todo = {} /\ lastView' = lastView /\ failed' = failed
          /\ screen' = screen \cap Tiles(lastView) /\ points' = points
          /\ UNCHANGED <<tileGeneration, tile, gen, pc>>
      BY <1>11 DEF Count, taskVars, ghostVars
    <2>2. c \in points \/ Covers(k)
      BY <1>k, <1>1, <1>3, <2>1
    <2>3. k \in Tiles(lastView)
      BY <1>k, <1>1, <2>1 DEF Tiles
    <2>4. Covers(k) => Covers(k)'
      BY <2>1, <2>3 DEF Covers, Fetches
    <2>. QED
      BY <1>k, <2>1, <2>2, <2>4 DEF Covers, Fetches
  <1>12. CASE NothingToLoad
    <2>1. /\ ui = "load" /\ points = {} /\ lastView' = lastView
          /\ UNCHANGED <<todo, screen, failed, tileGeneration, tile, gen, pc>>
      BY <1>12 DEF NothingToLoad, loaderVars, taskVars
    <2>2. Covers(k)
      BY <1>k, <1>0, <1>1, <1>3, <2>1 DEF Phase
    <2>. QED
      BY <1>k, <1>5, <2>1, <2>2 DEF Covers, Fetches
  <1>13. CASE Load
    <2>1. /\ ui = "load" /\ lastView' = lastView
          /\ UNCHANGED <<todo, screen, failed, tileGeneration>>
      BY <1>13 DEF Load, ghostVars
    <2>2. PICK S \in SUBSET Fresh : \E order \in SetToSeqs(S), coord \in [S -> points] :
           /\ Cardinality(S) = Cardinality(points)
           /\ \A d \in points : \E t \in S : coord[t] = d
           /\ pc' = [t \in Task |-> IF t \in S THEN "queued" ELSE CleanTasks[t]]
           /\ tile' = [t \in Task |-> IF t \in S THEN <<lastView.provider, coord[t]>> ELSE tile[t]]
           /\ gen' = [t \in Task |-> IF t \in S THEN tileGeneration ELSE gen[t]]
           /\ pool' = [t \in Task |-> IF t \in S THEN tileGeneration % 2 ELSE pool[t]]
           /\ queue' = [queue EXCEPT ![tileGeneration % 2] = @ \o order]
      BY <1>0, <1>13, LoadMoves
    <2>3. PICK coord \in [S -> points] :
           /\ \A d \in points : \E t \in S : coord[t] = d
           /\ tile' = [t \in Task |-> IF t \in S THEN <<lastView.provider, coord[t]>> ELSE tile[t]]
      BY <2>2
    <2>4. \A t \in S : t \in Task /\ pc[t] = "unborn"
      BY DEF Fresh
    <2>5. c \in points \/ Covers(k)
      BY <1>k, <1>0, <1>1, <1>3, <2>1 DEF Phase
    <2>6. CASE c \in points
      <3>1. PICK t \in S : coord[t] = c
        BY <2>3, <2>6
      <3>2. /\ t \in Task /\ tile'[t] = k /\ gen'[t] = tileGeneration' /\ pc'[t] = "queued"
        BY <1>k, <2>1, <2>2, <2>3, <2>4, <3>1
      <3>. QED
        BY <1>k, <2>1, <3>2 DEF Covers, Fetches
    <2>7. ASSUME NEW t \in Task, Fetches(t, k)
          PROVE  Fetches(t, k)'
      BY <2>1, <2>2, <2>4, <2>7 DEF Fetches, CleanTasks
    <2>8. CASE Covers(k)
      BY <1>k, <2>1, <2>7, <2>8 DEF Covers, Fetches
    <2>. QED
      BY <2>5, <2>6, <2>8
  <1>. QED
    BY <1>6, <1>7, <1>8, <1>9, <1>10, <1>11, <1>12, <1>13 DEF Next, Serve

-----------------------------------------------------------------------------
LEMMA InitIInv == Init => IInv
  <1>. SUFFICES ASSUME Init
                PROVE  IInv
    OBVIOUS
  <1>1. /\ Len(<<>>) = 0 /\ <<>> \in Seq(Task) /\ ToSet(<<>>) = {} /\ IsInjective(<<>>)
        /\ Cardinality({}) = 0 /\ IsFiniteSet({}) /\ Cardinality(Task) \in Nat
    <2>1. \A S : <<>> \in Seq(S)
      BY EmptySeq
    <2>2. <<>> \in Seq({}) /\ DOMAIN <<>> = {}
      OBVIOUS
    <2>. QED
      BY <2>1, <2>2, EmptySeq, Elements, FS_EmptySet, FS_CardinalityType, TileLoaderAssumption
         DEF IsInjective
  <1>2. TypeOK
    <2>1. \A p \in {0, 1} : queue[p] \in Seq({t \in Task : pc[t] = "queued" /\ pool[t] = p})
      BY EmptySeq DEF Init
    <2>2. /\ pc \in [Task -> Places] /\ gen \in [Task -> 0..MaxGen] /\ pool \in [Task -> {0, 1}]
          /\ got \in [Task -> BOOLEAN] /\ tmp \in [Task -> 0..Cardinality(Task)]
          /\ tileGeneration \in 0..MaxGen /\ fired \in [1..MaxGen -> Nat]
      BY <1>1, TileLoaderAssumption DEF Init, Places
    <2>3. /\ m_count \in 0..Cardinality(Task) /\ m_totalCount \in 0..Cardinality(Task)
          /\ \A t \in Task : tile[t] = <<>>
      BY <1>1 DEF Init
    <2>4. active \in Seq(Task) /\ IsInjective(active) /\ \A p \in {0, 1} : IsInjective(queue[p])
      BY <1>1 DEF Init
    <2>. QED
      BY <2>1, <2>2, <2>3, <2>4 DEF Init, TypeOK, Places
  <1>3. Queued
    BY <1>1 DEF Init, Queued, Waiting
  <1>4. Listing /\ OwnEntries
    <2>1. \A c : ListedAt(c) = {} /\ TakersAt(c) = {}
      BY <1>1 DEF Init, ListedAt, TakersAt, Taking
    <2>2. \A c : Cardinality(ListedAt(c)) <= Cardinality(TakersAt(c))
      BY <1>1, <2>1
    <2>3. ToSet(active) = {}
      BY <1>1 DEF Init
    <2>. QED
      BY <2>2, <2>3 DEF Listing, OwnEntries
  <1>5. ListedUnlessCollided
    BY <1>1 DEF Init, ListedUnlessCollided, Listed, ToSet
  <1>6. Counts
    <2>1. Counted = {}
      BY DEF Init, Counted
    <2>. QED
      BY <1>1, <2>1 DEF Init, Counts
  <1>7. Born /\ Phase /\ Aborted
    BY DEF Init, Born, Phase, Aborted
  <1>8. Covered
    BY DEF Init, Covered
  <1>. QED
    BY <1>2, <1>3, <1>4, <1>5, <1>6, <1>7, <1>8 DEF IInv

LEMMA NextIInv == IInv /\ [Next]_vars => IInv'
  <1>. SUFFICES ASSUME IInv, [Next]_vars
                PROVE  IInv'
    OBVIOUS
  <1>1. TypeOK' /\ Covered'
    BY TypeStep, CoveredStep
  <1>2. Queued' /\ Born' /\ Listing' /\ OwnEntries' /\ ListedUnlessCollided'
    BY QueuedStep, BornStep, ListingStep, OwnEntriesStep, ListedUnlessCollidedStep DEF IInv
  <1>3. Counts' /\ Phase' /\ Aborted'
    BY CountsStep, PhaseStep, AbortedStep DEF IInv
  <1>. QED
    BY <1>1, <1>2, <1>3 DEF IInv

(* All the parts hold in every state; above all, no coord is listed more   *)
(* often than there are tasks that will still take an entry with it out.   *)
THEOREM Inductive == Spec => []IInv
  BY InitIInv, NextIInv, PTL DEF Spec

(* The values that the variables of TileLoader, of the tasks and of CTiles *)
(* can have.  That the count of loaded tiles never exceeds the number of   *)
(* tasks rests on Counts, as m_count++ is a read and a write.              *)
THEOREM TypeCorrect == Spec => []TypeOK
  <1>1. IInv => TypeOK
    BY DEF IInv
  <1>. QED
    BY <1>1, Inductive, PTL

(* RemoveActiveTask may take another task's entry; still none is left over *)
(* in _activeTasks when no task is running.                                *)
THEOREM ListAlwaysDrains == Spec => []ListDrains
  <1>1. IInv => ListDrains
    <2>. SUFFICES ASSUME IInv, Running = {}, active # <<>>
                  PROVE  FALSE
      BY DEF ListDrains
    <2>0. TypeOK /\ Born /\ Listing /\ active \in Seq(Task)
      BY DEF IInv, TypeOK
    <2>1. PICK t \in ToSet(active) : TRUE
      BY <2>0, Elements
    <2>2. t \in Task /\ pc[t] # "unborn"
      BY <2>0, <2>1, FiniteParts DEF Listing
    <2>3. PICK c \in Coords : tile[t][2] = c
      BY <2>0, <2>2 DEF Born, Tiles, Coords
    <2>4. t \in ListedAt(c) /\ TakersAt(c) = {}
      BY <2>1, <2>3 DEF ListedAt, TakersAt, Taking, Running
    <2>5. Cardinality(ListedAt(c)) = 0
      BY <2>0, <2>4, FiniteParts, FS_EmptySet, FS_CardinalityType DEF Listing
    <2>. QED
      BY <2>0, <2>4, <2>5, FiniteParts, FS_EmptySet
  <1>. QED
    BY <1>1, Inductive, PTL

(* As long as no coord has been listed twice, LoadTiles reassigns only     *)
(* tasks that will still show their tile.                                  *)
THEOREM ListedInTime == Spec => []ListedUnlessCollided
  <1>1. IInv => ListedUnlessCollided
    BY DEF IInv
  <1>. QED
    BY <1>1, Inductive, PTL

(* As long as no coord has been listed twice, each tile of the view is     *)
(* displayed, could not be had, or is on its way, however the answers      *)
(* interleave with the next requests.                                      *)
THEOREM NoTileIsLost == Spec => []CoveredUnlessCollided
  <1>1. IInv => CoveredUnlessCollided
    <2>. SUFFICES ASSUME IInv, ~collided, ui = "idle", lastView # NoView,
                         NEW c \in lastView.coords
                  PROVE  LET k == <<lastView.provider, c>>
                         IN k \in screen \cup failed \/ \E t \in Task : Fetches(t, k)
      BY DEF CoveredUnlessCollided, WantedCovered, Wanted, Tiles
    <2>1. todo = {} /\ points = {}
      BY DEF IInv, Phase
    <2>. QED
      BY <2>1 DEF IInv, Covered
  <1>. QED
    BY <1>1, Inductive, PTL
=============================================================================
