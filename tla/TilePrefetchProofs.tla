------------------------- MODULE TilePrefetchProofs -------------------------
(***************************************************************************)
(* TLAPS proofs about TilePrefetch, for any tasks, size of the pools and   *)
(* number of requests: whatever requests come in between, a request that   *)
(* ran alone gets its tiles where it wants them and its event when they    *)
(* are loaded, and a stop is obeyed by each thread after one tile.         *)
(***************************************************************************)
EXTENDS TilePrefetch, SequenceLemmas, TLAPS

-----------------------------------------------------------------------------
(* The inductive invariant.                                                *)

(* The requests of a pool that wait are in its queue, once each.           *)
Waiting(p) == {t \in Task : pc[t] = "queued" /\ gen[t] % 2 = p}
Queued ==
  /\ queue \in [{0, 1} -> Seq(Task)]
  /\ \A p \in {0, 1} : IsInjective(queue[p]) /\ ToSet(queue[p]) = Waiting(p)

(* What a task is when it is where it is.                                  *)
Tasks ==
  \A t \in Task :
    /\ req[t] <= request
    /\ pc[t] = "unborn" <=> req[t] = 0
    /\ pc[t] \in {"unborn", "queued", "http"} => ~got[t]
    /\ pc[t] # "store" => tmp[t] = 0
    /\ pc[t] # "unborn" => (CacheOnly(t) => gen[t] = 0)
    /\ pc[t] = "ask" => CacheOnly(t)

(* What the loader knows of the last request.                              *)
Phase ==
  /\ m_stopCallback <= request /\ tileGeneration <= request
  /\ ui # "idle" => request > 0 /\ points > 0 /\ TasksOf(request) = {}
  /\ IF ui = "label" THEN label = request - 1 ELSE label = request
  /\ ui \in {"label", "start"} => tileGeneration < request
  /\ request > 0 => kind[request] \in {doCache, "snapshot"}
  /\ request > 0 => kind[request] = "snapshot" \/ m_stopCallback \in {0, request}
  /\ \A r \in Request : r > request => fired[r] = 0
  /\ (\A r \in 1..request : kind[r] # "snapshot") => tileGeneration = 0

(* While there are tasks of a request that ran alone there are no others.  *)
Alone ==
  /\ alone \subseteq 1..request
  /\ \A t \in Pending : req[t] \in alone => req[t] = request
  /\ request \in alone => Pending \subseteq TasksOf(request) /\ (ui # "idle" => Pending = {})
  /\ ui = "label" /\ label \in alone => Pending = {}

(* The pools.                                                              *)
Threads == \A p \in {0, 1} : Cardinality(Running(p)) <= PoolSize

(* The tasks that may have been counted, and those of them at work.        *)
Past(t) == pc[t] \in {"ask", "send", "check", "fire", "completed"}
AllCounted == {t \in Task : Past(t)}
CountedOf(r) == {t \in TasksOf(r) : Past(t)}
ToFire(r) == {t \in TasksOf(r) : pc[t] \in {"ask", "send", "check", "fire"}}
Counts ==
  /\ m_count <= Cardinality(AllCounted)
  /\ \A t \in Task : tmp[t] <= Cardinality(AllCounted)

(* No tile is received once a stop was told, and a task that has one may   *)
(* still cache it.                                                         *)
MayCache == {t \in Task : pc[t] \in {"tally", "store", "ask", "send"} /\ CacheOnly(t)}
Prompt ==
  IF told THEN stopped /\ late + Cardinality(MayCache) <= PoolSize ELSE late = 0

Delivered ==
  \A t \in Task :
    req[t] \in alone /\ pc[t] \in {"check", "fire", "completed"} /\ got[t]
    => sent[t] = IF CacheOnly(t) THEN kind[req[t]] ELSE "ram"

(* A request that gets its event.                                          *)
Well(r) ==
  /\ r \notin raced \cup cancelled
  /\ kind[r] = "snapshot" \/ \A q \in 1..r : kind[q] # "snapshot"

(* The last request, if it is alone, while its tasks are not queued yet,   *)
(* before its count is complete and after.                                 *)
Current ==
  request \in alone =>
    /\ ui # "idle" => fired[request] = 0
    /\ ui = "queue" => m_count = 0 /\ m_totalCount = points
    /\ ui = "idle" =>
         /\ TasksOf(request) # {} /\ m_totalCount = Cardinality(TasksOf(request))
         /\ \A t \in TasksOf(request) :
              gen[t] = IF kind[request] = "snapshot" THEN tileGeneration ELSE 0
         /\ m_count <= Cardinality(CountedOf(request))
         /\ \A t \in Task : tmp[t] <= Cardinality(CountedOf(request))
         /\ IF TasksOf(request) = CountedOf(request)
              THEN fired[request] + Cardinality(ToFire(request)) <= PoolSize
              ELSE fired[request] = 0 /\ \A t \in TasksOf(request) : pc[t] # "fire"

CurrentWell ==
  request \in alone /\ Well(request) =>
    /\ ui \in {"reset", "queue", "idle"} => ~stopped
    /\ ui = "idle" =>
         /\ m_count = Cardinality(CountedOf(request))
         /\ \A t \in TasksOf(request) : pc[t] = "store" =>
              tmp[t] = m_count /\ \A u \in TasksOf(request) : pc[u] = "store" => u = t
         /\ TasksOf(request) = CountedOf(request) => fired[request] > 0 \/ ToFire(request) # {}

Finished ==
  \A r \in alone : r < request =>
    fired[r] <= PoolSize /\ (Well(r) => fired[r] > 0)

IInv ==
  /\ TypeOK /\ Queued /\ Tasks /\ Phase /\ Alone /\ Threads /\ Counts
  /\ Prompt /\ Delivered /\ Current /\ CurrentWell /\ Finished

-----------------------------------------------------------------------------
(* The steps.                                                              *)

(* What a step of a thread does to its task and leaves alone of the others.*)
LEMMA TaskMoves ==
  ASSUME TypeOK, NEW t \in Task, DoTask(t)
  PROVE  /\ \A u \in Task : u # t => pc'[u] = pc[u]
         /\ \/ pc[t] = "queued" /\ pc'[t] \in {"http", "completed"} /\ Start(t)
            \/ pc[t] = "http" /\ pc'[t] \in {"tally", "completed"} /\ Answer(t)
            \/ pc[t] = "tally" /\ pc'[t] \in {"store", Counted(t)} /\ ReadCount(t)
            \/ pc[t] = "store" /\ pc'[t] = Counted(t) /\ StoreCount(t)
            \/ pc[t] = "ask" /\ pc'[t] = "send" /\ AskStop(t)
            \/ pc[t] = "send" /\ pc'[t] \in {"check", "completed"} /\ Send(t)
            \/ pc[t] = "check" /\ pc'[t] \in {"fire", "completed"} /\ CheckComplete(t)
            \/ pc[t] = "fire" /\ pc'[t] = "completed" /\ Fire(t)
         /\ UNCHANGED <<tileGeneration, m_totalCount, label, cacheVars, req, gen, uiVars, alone>>
         /\ pc[t] # "queued" => UNCHANGED queue
  <1>0. DOMAIN pc = Task
    BY DEF TypeOK
  <1>1. /\ \E l : Goto(t, l)
        /\ UNCHANGED <<tileGeneration, m_totalCount, label, cacheVars, req, gen, uiVars, alone>>
        /\ pc[t] # "queued" => UNCHANGED queue
    BY DEF DoTask, Start, Answer, ReadCount, StoreCount, AskStop, Send, CheckComplete, Fire,
       sharedVars, taskVars, ghostVars
  <1>2. \A u \in Task : u # t => pc'[u] = pc[u]
    BY <1>0, <1>1 DEF Goto
  <1>3. \A l : Goto(t, l) => pc'[t] = l
    BY <1>0 DEF Goto
  <1>. QED
    BY <1>1, <1>2, <1>3 DEF DoTask, Start, Answer, ReadCount, StoreCount, AskStop, Send,
       CheckComplete, Fire

LEMMA CountedPlace ==
  ASSUME NEW t
  PROVE  Counted(t) \in {"ask", "send"} /\ (Counted(t) = "ask" => CacheOnly(t))
  BY DEF Counted

(* A request of either kind.                                               *)
Begin == \E n \in 1..Cardinality(Task) :
           Snapshot(n) \/ \E k \in {"sqlite", "disk"} : Prefetch(k, n)

LEMMA BeginMoves ==
  ASSUME TypeOK, Begin
  PROVE  \E k \in {"sqlite", "disk", "snapshot"}, n \in 1..Cardinality(Task) :
           /\ NewRequest(k, n)
           /\ IF k = "snapshot" THEN UNCHANGED cacheVars
              ELSE /\ doCache' = k
                   /\ m_stopCallback' \in {0, request + 1}
                   /\ m_callback' \in {m_callback, TRUE}
  BY DEF Begin, Snapshot, Prefetch

LEMMA QueueMoves ==
  ASSUME TypeOK, QueueTasks
  PROVE  \E S \in SUBSET Fresh : \E order \in SetToSeqs(S) :
           /\ Cardinality(S) = points
           /\ pc' = [t \in Task |-> IF t \in S THEN "queued" ELSE pc[t]]
           /\ req' = [t \in Task |-> IF t \in S THEN request ELSE req[t]]
           /\ gen' = [t \in Task |-> IF t \in S
                        THEN IF kind[request] = "snapshot" THEN tileGeneration ELSE 0
                        ELSE gen[t]]
           /\ queue' = [queue EXCEPT
                ![(IF kind[request] = "snapshot" THEN tileGeneration ELSE 0) % 2] = @ \o order]
  <1>. DEFINE g == IF kind[request] = "snapshot" THEN tileGeneration ELSE 0
  <1>1. PICK S \in kSubset(points, Fresh) : \E order \in SetToSeqs(S) :
           /\ pc' = [t \in Task |-> IF t \in S THEN "queued" ELSE pc[t]]
           /\ req' = [t \in Task |-> IF t \in S THEN request ELSE req[t]]
           /\ gen' = [t \in Task |-> IF t \in S THEN g ELSE gen[t]]
           /\ queue' = [queue EXCEPT ![g % 2] = @ \o order]
    BY DEF QueueTasks
  <1>2. S \in SUBSET Fresh /\ Cardinality(S) = points
    BY DEF kSubset
  <1>. QED
    BY <1>1, <1>2

(* What holds of each task after any step.                                 *)
LEMMA AnyMove ==
  ASSUME TypeOK, [Next]_vars, NEW t \in Task
  PROVE  /\ pc[t] # "unborn" => req'[t] = req[t] /\ gen'[t] = gen[t]
         /\ \/ DoTask(t)
            \/ pc'[t] = pc[t] /\ req'[t] = req[t] /\ gen'[t] = gen[t]
            \/ pc[t] = "unborn" /\ pc'[t] = "queued" /\ QueueTasks /\ req'[t] = request
  <1>1. ASSUME NEW u \in Task, DoTask(u)
        PROVE  /\ req' = req /\ gen' = gen
               /\ u # t => pc'[t] = pc[t]
    BY <1>1, TaskMoves
  <1>2. CASE QueueTasks
    <2>1. PICK S \in SUBSET Fresh : \E order \in SetToSeqs(S) :
           /\ Cardinality(S) = points
           /\ pc' = [u \in Task |-> IF u \in S THEN "queued" ELSE pc[u]]
           /\ req' = [u \in Task |-> IF u \in S THEN request ELSE req[u]]
           /\ gen' = [u \in Task |-> IF u \in S
                        THEN IF kind[request] = "snapshot" THEN tileGeneration ELSE 0
                        ELSE gen[u]]
           /\ queue' = [queue EXCEPT
                ![(IF kind[request] = "snapshot" THEN tileGeneration ELSE 0) % 2] = @ \o order]
      BY <1>2, QueueMoves
    <2>2. t \in S => pc[t] = "unborn"
      BY DEF Fresh
    <2>. QED
      BY <1>2, <2>1, <2>2
  <1>3. CASE \/ UNCHANGED vars \/ Begin \/ SetLabel \/ StartPools \/ ResetCounts
             \/ \E r \in Request : Cancel(r)
    BY <1>3 DEF Begin, Snapshot, Prefetch, NewRequest, SetLabel, StartPools, ResetCounts, Cancel,
       vars, taskVars
  <1>. QED
    BY <1>1, <1>2, <1>3 DEF Next, Load, Begin

(* Only the task itself counts, receives or forgets what it has.           *)
LEMMA OwnData ==
  ASSUME TypeOK, [Next]_vars
  PROVE  \/ got' = got /\ tmp' = tmp /\ sent' = sent
         \/ \E t \in Task : DoTask(t) /\ \A u \in Task :
              u # t => got'[u] = got[u] /\ tmp'[u] = tmp[u] /\ sent'[u] = sent[u]
  <1>0. DOMAIN got = Task /\ DOMAIN tmp = Task /\ DOMAIN sent = Task
    BY DEF TypeOK
  <1>1. ASSUME NEW t \in Task, DoTask(t), NEW u \in Task, u # t
        PROVE  got'[u] = got[u] /\ tmp'[u] = tmp[u] /\ sent'[u] = sent[u]
    BY <1>0, <1>1 DEF DoTask, Start, Answer, ReadCount, StoreCount, AskStop, Send, CheckComplete,
       Fire, taskVars, ghostVars
  <1>2. CASE \/ UNCHANGED vars \/ Begin \/ SetLabel \/ StartPools \/ ResetCounts \/ QueueTasks
             \/ \E r \in Request : Cancel(r)
    BY <1>2 DEF Begin, Snapshot, Prefetch, NewRequest, SetLabel, StartPools, ResetCounts, Cancel,
       QueueTasks, vars, taskVars, ghostVars
  <1>. QED
    BY <1>1, <1>2 DEF Next, Load, Begin

-----------------------------------------------------------------------------
(* The queues.                                                             *)
LEMMA QueuedStep ==
  ASSUME TypeOK, Queued, [Next]_vars
  PROVE  Queued'
  <1>. USE DEF Queued
  <1>1. ASSUME UNCHANGED queue, \A u \in Task : pc[u] = "queued" <=> pc'[u] = "queued"
        PROVE  Queued'
    <2>1. ASSUME NEW p \in {0, 1}
          PROVE  Waiting(p)' = Waiting(p)
      BY <1>1, AnyMove DEF Waiting
    <2>. QED
      BY <1>1, <2>1
  <1>2. ASSUME NEW t \in Task, DoTask(t), pc[t] # "queued"
        PROVE  Queued'
    <2>1. \A u \in Task : pc[u] = "queued" <=> pc'[u] = "queued"
      BY <1>2, TaskMoves, CountedPlace
    <2>. QED
      BY <1>1, <1>2, <2>1, TaskMoves
  <1>3. ASSUME NEW t \in Task, DoTask(t), pc[t] = "queued"
        PROVE  Queued'
    <2>. DEFINE p == gen[t] % 2
    <2>1. Start(t)
      BY <1>3, TaskMoves
    <2>2. p \in {0, 1}
      BY DEF TypeOK
    <2>3. t \in ToSet(queue[p]) /\ IsInjective(queue[p]) /\ queue[p] \in Seq(Task)
      BY <1>3, <2>2 DEF Waiting
    <2>4. queue[p] # <<>>
      BY <2>3, Elements
    <2>5. /\ Head(queue[p]) = t /\ queue' = [queue EXCEPT ![p] = Tail(@)]
      BY <2>1 DEF Start
    <2>. HIDE DEF p
    <2>6. /\ queue'[p] \in Seq(Task) /\ IsInjective(queue'[p])
          /\ ToSet(queue'[p]) = ToSet(queue[p]) \ {t}
      BY <2>2, <2>3, <2>4, <2>5, HeadLeaves
    <2>7. ASSUME NEW q \in {0, 1}
          PROVE  Waiting(q)' = IF q = p THEN Waiting(q) \ {t} ELSE Waiting(q)
      BY <1>3, TaskMoves DEF Waiting, p
    <2>8. queue' \in [{0, 1} -> Seq(Task)] /\ \A q \in {0, 1} : q # p => queue'[q] = queue[q]
      BY <2>2, <2>5, <2>6
    <2>. QED
      BY <2>2, <2>6, <2>7, <2>8
  <1>4. CASE QueueTasks
    <2>. DEFINE g == IF kind[request] = "snapshot" THEN tileGeneration ELSE 0
                p == g % 2
    <2>1. PICK S \in SUBSET Fresh : \E order \in SetToSeqs(S) :
           /\ Cardinality(S) = points
           /\ pc' = [t \in Task |-> IF t \in S THEN "queued" ELSE pc[t]]
           /\ req' = [t \in Task |-> IF t \in S THEN request ELSE req[t]]
           /\ gen' = [t \in Task |-> IF t \in S THEN g ELSE gen[t]]
           /\ queue' = [queue EXCEPT ![p] = @ \o order]
      BY <1>4, QueueMoves
    <2>2. PICK order \in SetToSeqs(S) : queue' = [queue EXCEPT ![p] = @ \o order]
      BY <2>1
    <2>3. p \in {0, 1}
      BY DEF TypeOK
    <2>4. IsFiniteSet(S) /\ S \subseteq Task /\ \A t \in S : pc[t] = "unborn"
      <3>1. S \subseteq Task /\ \A t \in S : pc[t] = "unborn"
        BY DEF Fresh
      <3>. QED
        BY <3>1, FS_Subset, TilePrefetchAssumption
    <2>5. order \in Seq(S) /\ IsInjective(order) /\ ToSet(order) = S
      BY <2>4, InSomeOrder
    <2>6. order \in Seq(Task)
      BY <2>4, <2>5, SeqMonotonic
    <2>7. ASSUME NEW q \in {0, 1}
          PROVE  Waiting(q)' = IF q = p THEN Waiting(q) \cup S ELSE Waiting(q)
      BY <2>1, <2>4 DEF Waiting
    <2>. HIDE DEF p, g
    <2>8. ToSet(queue[p]) \cap ToSet(order) = {}
      BY <2>3, <2>4, <2>5 DEF Waiting
    <2>9. /\ queue[p] \o order \in Seq(Task) /\ IsInjective(queue[p] \o order)
          /\ ToSet(queue[p] \o order) = ToSet(queue[p]) \cup S
      BY <2>3, <2>5, <2>6, <2>8, Joined
    <2>10. /\ queue' \in [{0, 1} -> Seq(Task)] /\ queue'[p] = queue[p] \o order
           /\ \A q \in {0, 1} : q # p => queue'[q] = queue[q]
      BY <2>2, <2>3, <2>9
    <2>. QED
      BY <2>3, <2>7, <2>9, <2>10
  <1>5. CASE \/ UNCHANGED vars \/ Begin \/ SetLabel \/ StartPools \/ ResetCounts
             \/ \E r \in Request : Cancel(r)
    <2>1. UNCHANGED <<queue, pc>>
      BY <1>5 DEF Begin, Snapshot, Prefetch, NewRequest, SetLabel, StartPools, ResetCounts, Cancel,
         vars
    <2>. QED
      BY <1>1, <2>1
  <1>. QED
    BY <1>2, <1>3, <1>4, <1>5 DEF Next, Load, Begin

-----------------------------------------------------------------------------
(* Requests and their tasks.                                               *)

(* Requests are numbered one after the other, and keep their kind.         *)
LEMMA RequestStep ==
  ASSUME TypeOK, [Next]_vars
  PROVE  /\ request' \in 0..MaxRequests
         /\ \/ request' = request /\ kind' = kind
            \/ /\ request' = request + 1 /\ Begin /\ ui = "idle" /\ ui' = "label"
               /\ \A r \in 1..request : kind'[r] = kind[r]
               /\ kind' \in [Request -> {"none", "sqlite", "disk", "snapshot"}]
  <1>1. ASSUME NEW t \in Task, DoTask(t)
        PROVE  request' = request /\ kind' = kind
    BY <1>1, TaskMoves DEF uiVars
  <1>2. CASE Begin
    <2>1. PICK k \in {"sqlite", "disk", "snapshot"}, n \in 1..Cardinality(Task) : NewRequest(k, n)
      BY <1>2, BeginMoves
    <2>2. /\ request' = request + 1 /\ kind' = [kind EXCEPT ![request + 1] = k]
          /\ request < MaxRequests /\ ui = "idle" /\ ui' = "label"
      BY <2>1 DEF NewRequest
    <2>3. request \in 0..MaxRequests /\ kind \in [Request -> {"none", "sqlite", "disk", "snapshot"}]
      BY DEF TypeOK
    <2>. QED
      BY <1>2, <2>2, <2>3, TilePrefetchAssumption DEF Request
  <1>3. CASE UNCHANGED vars \/ Load \/ \E r \in Request : Cancel(r)
    <2>1. request' = request /\ kind' = kind
      BY <1>3 DEF Load, SetLabel, StartPools, ResetCounts, QueueTasks, Cancel, vars, uiVars
    <2>. QED
      BY <2>1 DEF TypeOK
  <1>. QED
    BY <1>1, <1>2, <1>3 DEF Next, Begin, TypeOK

LEMMA TasksStep ==
  ASSUME TypeOK, Tasks, Phase, [Next]_vars
  PROVE  Tasks'
  <1>0. request \in 0..MaxRequests /\ MaxRequests \in Nat /\ \A t \in Task : req[t] \in 0..MaxRequests
    BY TilePrefetchAssumption DEF TypeOK
  <1>1. SUFFICES ASSUME NEW t \in Task
                 PROVE  /\ req'[t] <= request'
                        /\ pc'[t] = "unborn" <=> req'[t] = 0
                        /\ pc'[t] \in {"unborn", "queued", "http"} => ~got'[t]
                        /\ pc'[t] # "store" => tmp'[t] = 0
                        /\ pc'[t] # "unborn" => (kind'[req'[t]] # "snapshot" => gen'[t] = 0)
                        /\ pc'[t] = "ask" => kind'[req'[t]] # "snapshot"
    BY DEF Tasks, CacheOnly
  <1>2. /\ req[t] <= request
        /\ pc[t] = "unborn" <=> req[t] = 0
        /\ pc[t] \in {"unborn", "queued", "http"} => ~got[t]
        /\ pc[t] # "store" => tmp[t] = 0
        /\ pc[t] # "unborn" => (kind[req[t]] # "snapshot" => gen[t] = 0)
        /\ pc[t] = "ask" => kind[req[t]] # "snapshot"
    BY DEF Tasks, CacheOnly
  <1>3. /\ request <= request' /\ request' \in Nat
        /\ pc[t] # "unborn" => kind'[req[t]] = kind[req[t]]
    BY <1>0, <1>2, RequestStep
  <1>4. CASE DoTask(t)
    <2>1. req' = req /\ gen' = gen /\ kind' = kind /\ request' = request
      BY <1>4, TaskMoves DEF uiVars
    <2>2. /\ pc'[t] = "http" => got'[t] = got[t] /\ pc[t] = "queued"
          /\ pc'[t] # "store" => tmp'[t] = 0
      <3>1. DOMAIN tmp = Task /\ DOMAIN got = Task
        BY DEF TypeOK
      <3>2. pc'[t] = "http" => got' = got /\ pc[t] = "queued"
        BY <1>4, TaskMoves, CountedPlace DEF Start, taskVars
      <3>3. /\ StoreCount(t) => tmp'[t] = 0
            /\ ReadCount(t) /\ pc'[t] # "store" => tmp' = tmp /\ pc[t] # "store"
        BY <3>1, TaskMoves DEF StoreCount, ReadCount, Goto, TypeOK
      <3>4. ~StoreCount(t) /\ ~ReadCount(t) => tmp' = tmp /\ pc[t] # "store"
        BY <1>4, TaskMoves DEF Start, Answer, AskStop, Send, CheckComplete, Fire, taskVars
      <3>. QED
        BY <1>2, <3>2, <3>3, <3>4
    <2>. QED
      BY <1>2, <1>4, <2>1, <2>2, TaskMoves, CountedPlace DEF CacheOnly
  <1>5. ASSUME ~DoTask(t)
        PROVE  got'[t] = got[t] /\ tmp'[t] = tmp[t]
    BY <1>5, OwnData
  <1>6. CASE ~DoTask(t) /\ pc'[t] = pc[t] /\ req'[t] = req[t] /\ gen'[t] = gen[t]
    BY <1>0, <1>2, <1>3, <1>5, <1>6
  <1>7. CASE ~DoTask(t) /\ pc[t] = "unborn" /\ pc'[t] = "queued" /\ QueueTasks /\ req'[t] = request
    <2>1. request' = request /\ kind' = kind /\ request > 0
      BY <1>7 DEF QueueTasks, Phase
    <2>2. kind[request] # "snapshot" => gen'[t] = 0
      <3>1. PICK S \in SUBSET Fresh :
              /\ pc' = [u \in Task |-> IF u \in S THEN "queued" ELSE pc[u]]
              /\ gen' = [u \in Task |-> IF u \in S
                           THEN IF kind[request] = "snapshot" THEN tileGeneration ELSE 0
                           ELSE gen[u]]
        BY <1>7, QueueMoves
      <3>2. t \in S
        BY <1>7, <3>1
      <3>. QED
        BY <3>1, <3>2
    <2>. QED
      BY <1>0, <1>2, <1>5, <1>7, <2>1, <2>2
  <1>. QED
    BY <1>4, <1>6, <1>7, AnyMove

LEMMA PhaseStep ==
  ASSUME TypeOK, Tasks, Phase, [Next]_vars
  PROVE  Phase'
  <1>0. /\ request \in 0..MaxRequests /\ MaxRequests \in Nat /\ tileGeneration \in 0..MaxRequests
        /\ m_stopCallback \in 0..MaxRequests /\ label \in 0..MaxRequests
        /\ fired \in [Request -> Nat]
    BY TilePrefetchAssumption DEF TypeOK
  <1>1. CASE \/ UNCHANGED vars \/ (\E r \in Request : Cancel(r)) \/ ResetCounts
    BY <1>1 DEF vars, Cancel, ResetCounts, sharedVars, cacheVars, taskVars, uiVars, ghostVars,
       Phase, TasksOf
  <1>2. ASSUME NEW t \in Task, DoTask(t)
        PROVE  Phase'
    <2>1. UNCHANGED <<tileGeneration, label, cacheVars, req, uiVars>>
      BY <1>2, TaskMoves
    <2>2. fired' \in {fired, [fired EXCEPT ![label] = @ + 1]}
      BY <1>2 DEF DoTask, Start, Answer, ReadCount, StoreCount, AskStop, Send, CheckComplete, Fire,
         ghostVars
    <2>3. label <= request
      BY <1>0 DEF Phase
    <2>4. \A r \in Request : r > request => fired'[r] = 0
      BY <1>0, <2>2, <2>3 DEF Phase, Request
    <2>. QED
      BY <2>1, <2>4 DEF Phase, TasksOf, uiVars, cacheVars
  <1>3. CASE Begin
    <2>1. PICK k \in {"sqlite", "disk", "snapshot"}, n \in 1..Cardinality(Task) :
           /\ NewRequest(k, n)
           /\ IF k = "snapshot" THEN UNCHANGED cacheVars
              ELSE /\ doCache' = k
                   /\ m_stopCallback' \in {0, request + 1}
                   /\ m_callback' \in {m_callback, TRUE}
      BY <1>3, BeginMoves
    <2>2. /\ request' = request + 1 /\ request' \in Request /\ kind'[request + 1] = k
          /\ \A r \in 1..request : kind'[r] = kind[r]
          /\ points' = n /\ n > 0 /\ ui = "idle" /\ ui' = "label"
          /\ UNCHANGED <<tileGeneration, label, req, fired>>
      <3>1. request' \in Request /\ request' = request + 1
        BY <1>0, <2>1 DEF NewRequest, Request
      <3>2. kind' = [kind EXCEPT ![request + 1] = k] /\ kind \in [Request -> {"none", "sqlite", "disk", "snapshot"}]
        BY <2>1 DEF NewRequest, TypeOK
      <3>3. kind'[request + 1] = k /\ \A r \in 1..request : kind'[r] = kind[r]
        BY <1>0, <3>1, <3>2 DEF Request
      <3>. QED
        BY <2>1, <3>1, <3>3 DEF NewRequest, sharedVars, taskVars
    <2>3. TasksOf(request)' = {}
      BY <1>0, <2>2 DEF TasksOf, Tasks, TypeOK
    <2>4. kind'[request'] \in {doCache', "snapshot"}
      BY <2>1, <2>2
    <2>5. m_stopCallback' <= request' /\ (k = "snapshot" \/ m_stopCallback' \in {0, request'})
      <3>1. /\ k = "snapshot" => m_stopCallback' = m_stopCallback
            /\ k # "snapshot" => m_stopCallback' \in {0, request + 1}
        BY <2>1 DEF cacheVars
      <3>2. m_stopCallback <= request
        BY DEF Phase
      <3>. QED
        BY <1>0, <2>2, <3>1, <3>2
    <2>6. (\A r \in 1..request' : kind'[r] # "snapshot") => tileGeneration = 0
      <3>1. 1..request \subseteq 1..request'
        BY <1>0, <2>2
      <3>. QED
        BY <2>2, <3>1 DEF Phase
    <2>. QED
      BY <1>0, <2>2, <2>3, <2>4, <2>5, <2>6 DEF Phase
  <1>4. CASE SetLabel
    BY <1>0, <1>4 DEF SetLabel, cacheVars, taskVars, ghostVars, Phase, TasksOf
  <1>5. CASE StartPools
    <2>1. /\ ui = "start" /\ ui' = "reset" /\ request > 0 /\ tileGeneration < request
          /\ tileGeneration' = IF kind[request] = "snapshot" THEN tileGeneration + 1
                               ELSE tileGeneration
          /\ UNCHANGED <<request, points, req, label, m_stopCallback, doCache, kind, fired>>
      BY <1>5 DEF StartPools, Phase, taskVars, cacheVars
    <2>2. tileGeneration' <= request
      BY <1>0, <2>1
    <2>3. (\A r \in 1..request : kind[r] # "snapshot") => tileGeneration' = 0
      BY <1>0, <2>1 DEF Phase
    <2>. QED
      BY <2>1, <2>2, <2>3 DEF Phase, TasksOf
  <1>6. CASE QueueTasks
    <2>1. /\ ui = "queue" /\ ui' = "idle"
          /\ UNCHANGED <<request, label, m_stopCallback, doCache, kind, fired, tileGeneration>>
      BY <1>6 DEF QueueTasks, sharedVars, cacheVars, ghostVars
    <2>. QED
      BY <2>1 DEF Phase
  <1>. QED
    BY <1>1, <1>2, <1>3, <1>4, <1>5, <1>6 DEF Next, Load, Begin

LEMMA AloneStep ==
  ASSUME TypeOK, Tasks, Phase, Alone, [Next]_vars
  PROVE  Alone'
  <1>0. /\ request \in 0..MaxRequests /\ MaxRequests \in Nat /\ label \in 0..MaxRequests
        /\ req \in [Task -> 0..MaxRequests]
    BY TilePrefetchAssumption DEF TypeOK
  <1>1. ASSUME NEW t \in Task, DoTask(t)
        PROVE  Pending' \subseteq Pending /\ UNCHANGED <<label, req, request, ui, alone>>
    BY <1>1, TaskMoves, CountedPlace DEF Pending, uiVars
  <1>2. CASE \/ UNCHANGED vars \/ SetLabel \/ StartPools \/ ResetCounts
             \/ (\E r \in Request : Cancel(r)) \/ \E t \in Task : DoTask(t)
    <2>1. CASE \E t \in Task : DoTask(t)
      <3>1. Pending' \subseteq Pending /\ UNCHANGED <<label, req, request, ui, alone>>
        BY <1>1, <2>1
      <3>2. TasksOf(request)' = TasksOf(request)
        BY <3>1 DEF TasksOf
      <3>3. (Pending = {} => Pending' = {}) /\ \A t \in Pending' : t \in Pending
        BY <3>1
      <3>. QED
        BY <3>1, <3>2, <3>3 DEF Alone
    <2>2. CASE \/ UNCHANGED vars \/ SetLabel \/ StartPools \/ ResetCounts
               \/ \E r \in Request : Cancel(r)
      <3>1. UNCHANGED <<pc, req, request, alone>> /\ (ui' = ui \/ ui # "idle")
            /\ (ui' = "label" => ui = "label" /\ label' = label)
        BY <2>2 DEF vars, SetLabel, StartPools, ResetCounts, Cancel, uiVars, taskVars, ghostVars,
           sharedVars
      <3>2. Pending' = Pending /\ TasksOf(request)' = TasksOf(request)
        BY <3>1 DEF Pending, TasksOf
      <3>3. ui' # "idle" => ui # "idle"
        BY <3>1, <2>2 DEF vars, SetLabel, StartPools, ResetCounts, Cancel, uiVars
      <3>. QED
        BY <3>1, <3>2, <3>3 DEF Alone
    <2>. QED
      BY <1>2, <2>1, <2>2
  <1>3. CASE Begin
    <2>1. PICK k \in {"sqlite", "disk", "snapshot"}, n \in 1..Cardinality(Task) : NewRequest(k, n)
      BY <1>3, BeginMoves
    <2>2. /\ request' = request + 1 /\ ui = "idle" /\ ui' = "label"
          /\ alone' = IF Pending = {} THEN alone \cup {request + 1}
                      ELSE alone \ {req[t] : t \in Pending}
          /\ UNCHANGED <<pc, req, label>>
      BY <2>1 DEF NewRequest, sharedVars, taskVars
    <2>3. Pending' = Pending
      BY <2>2 DEF Pending
    <2>4. alone \subseteq 1..request /\ request + 1 \notin alone /\ label = request
      BY <1>0, <2>2 DEF Alone, Phase
    <2>5. alone' \subseteq 1..request'
      <3>1. 1..request \subseteq 1..request' /\ request + 1 \in 1..request'
        BY <1>0, <2>2
      <3>2. alone' \subseteq alone \cup {request + 1}
        BY <2>2
      <3>. QED
        BY <2>4, <3>1, <3>2
    <2>6. CASE Pending = {}
      BY <2>2, <2>3, <2>5, <2>6 DEF Alone
    <2>7. CASE Pending # {}
      <3>1. \A t \in Pending : req[t] \notin alone'
        BY <2>2, <2>7
      <3>2. request' \notin alone'
        BY <2>2, <2>4, <2>7
      <3>3. request \notin alone'
        BY <2>2, <2>7 DEF Alone, TasksOf
      <3>. QED
        BY <2>2, <2>3, <2>4, <2>5, <3>1, <3>2, <3>3 DEF Alone
    <2>. QED
      BY <2>6, <2>7
  <1>4. CASE QueueTasks
    <2>1. /\ ui = "queue" /\ ui' = "idle" /\ UNCHANGED <<request, alone, label>>
      BY <1>4 DEF QueueTasks, ghostVars, sharedVars
    <2>2. PICK S \in SUBSET Fresh :
            /\ pc' = [u \in Task |-> IF u \in S THEN "queued" ELSE pc[u]]
            /\ req' = [u \in Task |-> IF u \in S THEN request ELSE req[u]]
      BY <1>4, QueueMoves
    <2>3. Pending' = Pending \cup S
      BY <2>2 DEF Pending, Fresh
    <2>4. \A t \in S : t \in Task /\ req'[t] = request
      BY <2>2 DEF Fresh
    <2>5. \A t \in Pending : t \in Task /\ req'[t] = req[t]
      BY <2>2 DEF Pending, Fresh
    <2>6. request \in alone => Pending' \subseteq TasksOf(request)'
      BY <2>1, <2>3, <2>4 DEF Alone, TasksOf
    <2>. QED
      BY <2>1, <2>3, <2>4, <2>5, <2>6 DEF Alone
  <1>. QED
    BY <1>2, <1>3, <1>4 DEF Next, Load, Begin

(* A task keeps the kind of its request.                                   *)
LEMMA SameKind ==
  ASSUME TypeOK, Tasks, [Next]_vars, NEW t \in Task, pc[t] # "unborn"
  PROVE  CacheOnly(t)' <=> CacheOnly(t)
  <1>1. req[t] \in 1..request
    BY DEF Tasks, TypeOK
  <1>2. req'[t] = req[t] /\ kind'[req[t]] = kind[req[t]]
    BY <1>1, AnyMove, RequestStep
  <1>. QED
    BY <1>2 DEF CacheOnly

-----------------------------------------------------------------------------
(* The pools have so many threads.                                         *)

LEMMA FiniteSets ==
  ASSUME NEW S \in SUBSET Task
  PROVE  IsFiniteSet(S) /\ Cardinality(S) \in Nat /\ Cardinality(S) <= Cardinality(Task)
  BY FS_Subset, FS_CardinalityType, TilePrefetchAssumption

LEMMA Smaller ==
  ASSUME NEW S \in SUBSET Task, NEW T \in SUBSET S
  PROVE  /\ Cardinality(T) <= Cardinality(S) /\ Cardinality(T) \in Nat /\ Cardinality(S) \in Nat
         /\ Cardinality(S) = Cardinality(T) => S = T
  BY FiniteSets, FS_Subset

LEMMA ThreadsStep ==
  ASSUME TypeOK, Threads, [Next]_vars
  PROVE  Threads'
  <1>1. SUFFICES ASSUME NEW p \in {0, 1}
                 PROVE  Cardinality(Running(p)') <= PoolSize
    BY DEF Threads
  <1>2. Running(p) \in SUBSET Task /\ Running(p)' \in SUBSET Task
    BY DEF Running, Pending
  <1>3. Cardinality(Running(p)) <= PoolSize /\ PoolSize \in Nat
    BY TilePrefetchAssumption DEF Threads
  <1>4. CASE Running(p)' \subseteq Running(p)
    BY <1>2, <1>3, <1>4, Smaller
  <1>5. ASSUME NEW t \in Task, Start(t), gen[t] % 2 = p
        PROVE  Cardinality(Running(p)') <= PoolSize
    <2>1. /\ Cardinality(Running(p)) < PoolSize
          /\ gen' = gen /\ DOMAIN pc = Task /\ \E l : pc' = [pc EXCEPT ![t] = l]
      BY <1>5 DEF Start, Goto, taskVars, TypeOK
    <2>2. Running(p)' \in SUBSET (Running(p) \cup {t})
      BY <2>1 DEF Running, Pending
    <2>3. Running(p) \cup {t} \in SUBSET Task
      BY <1>2
    <2>4. Cardinality(Running(p) \cup {t}) <= Cardinality(Running(p)) + 1
      BY <1>2, FiniteSets, FS_AddElement
    <2>. QED
      BY <1>2, <1>3, <2>1, <2>2, <2>3, <2>4, Smaller, FiniteSets
  <1>6. ASSUME NEW u \in Running(p)', u \notin Running(p)
        PROVE  Start(u) /\ gen[u] % 2 = p
    <2>1. u \in Task
      BY DEF Running, Pending
    <2>2. pc'[u] \notin {"unborn", "completed", "queued"} /\ gen'[u] % 2 = p
      BY DEF Running, Pending
    <2>3. pc[u] \in {"unborn", "completed", "queued"} \/ gen[u] % 2 # p
      BY <1>6 DEF Running, Pending
    <2>. QED
      BY <2>1, <2>2, <2>3, AnyMove, TaskMoves
  <1>7. CASE \E u \in Running(p)' : u \notin Running(p)
    <2>1. PICK u \in Running(p)' : u \notin Running(p)
      BY <1>7
    <2>. QED
      BY <1>2, <1>5, <1>6, <2>1
  <1>. QED
    BY <1>4, <1>7

-----------------------------------------------------------------------------
(* The counter never exceeds the number of tasks that can have counted.    *)
LEMMA CountsStep ==
  ASSUME TypeOK, Counts, [Next]_vars
  PROVE  /\ Counts'
         /\ m_count' \in 0..Cardinality(Task) /\ tmp' \in [Task -> 0..Cardinality(Task)]
  <1>1. AllCounted \in SUBSET Task /\ AllCounted' \in SUBSET Task
    BY DEF AllCounted
  <1>2. /\ IsFiniteSet(AllCounted) /\ IsFiniteSet(AllCounted')
        /\ Cardinality(AllCounted) \in Nat /\ Cardinality(AllCounted') \in Nat
        /\ Cardinality(AllCounted') <= Cardinality(Task) /\ Cardinality(Task) \in Nat
    BY <1>1, FiniteSets, FS_CardinalityType, TilePrefetchAssumption
  <1>3. AllCounted \subseteq AllCounted'
    BY AnyMove, TaskMoves, CountedPlace DEF AllCounted, Past
  <1>4. Cardinality(AllCounted) <= Cardinality(AllCounted')
    BY <1>1, <1>3, Smaller
  <1>5. /\ m_count \in Nat /\ tmp \in [Task -> Nat]
    BY <1>2 DEF TypeOK
  <1>6. SUFFICES m_count' \in Nat /\ tmp' \in [Task -> Nat] /\ Counts'
    <2>1. ASSUME m_count' \in Nat, tmp' \in [Task -> Nat], Counts'
          PROVE  /\ m_count' \in 0..Cardinality(Task)
                 /\ tmp' \in [Task -> 0..Cardinality(Task)]
      <3>1. /\ m_count' <= Cardinality(AllCounted')
            /\ \A t \in Task : tmp'[t] <= Cardinality(AllCounted')
        BY <2>1 DEF Counts
      <3>. QED
        BY <1>2, <2>1, <3>1
    <2>. QED
      BY <2>1
  <1>7. ASSUME NEW t \in Task, StoreCount(t)
        PROVE  m_count' \in Nat /\ tmp' \in [Task -> Nat] /\ Counts'
    <2>1. /\ m_count' = tmp[t] + 1 /\ tmp' = [tmp EXCEPT ![t] = 0]
          /\ t \in AllCounted' /\ t \notin AllCounted
      BY <1>7, CountedPlace DEF StoreCount, AllCounted, Past, Goto, TypeOK
    <2>2. AllCounted \cup {t} \in SUBSET AllCounted'
      BY <1>3, <2>1
    <2>3. Cardinality(AllCounted \cup {t}) = Cardinality(AllCounted) + 1
      BY <1>2, <2>1, FS_AddElement
    <2>4. Cardinality(AllCounted \cup {t}) <= Cardinality(AllCounted')
      BY <1>1, <2>2, Smaller
    <2>5. m_count' <= Cardinality(AllCounted')
      BY <1>2, <1>5, <2>1, <2>3, <2>4 DEF Counts
    <2>6. \A u \in Task : tmp'[u] <= Cardinality(AllCounted')
      BY <1>2, <1>4, <1>5, <2>1 DEF Counts
    <2>. QED
      BY <1>5, <2>1, <2>5, <2>6 DEF Counts
  <1>8. ASSUME m_count' \in {0, m_count},
               tmp' = tmp \/ \E t \in Task : tmp' = [tmp EXCEPT ![t] = m_count]
        PROVE  m_count' \in Nat /\ tmp' \in [Task -> Nat] /\ Counts'
    <2>1. m_count' <= Cardinality(AllCounted')
      BY <1>2, <1>4, <1>5, <1>8 DEF Counts
    <2>2. tmp' \in [Task -> Nat] /\ \A u \in Task : tmp'[u] \in {tmp[u], m_count}
      BY <1>5, <1>8
    <2>3. \A u \in Task : tmp'[u] <= Cardinality(AllCounted')
      BY <1>2, <1>4, <1>5, <2>2 DEF Counts
    <2>. QED
      BY <1>5, <1>8, <2>1, <2>2, <2>3 DEF Counts
  <1>9. ASSUME NEW t \in Task, DoTask(t), ~StoreCount(t)
        PROVE  /\ m_count' = m_count
               /\ tmp' = tmp \/ tmp' = [tmp EXCEPT ![t] = m_count]
    BY <1>9 DEF DoTask, Start, Answer, ReadCount, AskStop, Send, CheckComplete, Fire,
       sharedVars, taskVars
  <1>10. CASE UNCHANGED vars \/ Begin \/ Load \/ \E r \in Request : Cancel(r)
    <2>1. m_count' \in {0, m_count} /\ tmp' = tmp
      BY <1>10 DEF vars, Begin, Snapshot, Prefetch, NewRequest, Load, SetLabel, StartPools,
         ResetCounts, QueueTasks, Cancel, sharedVars, taskVars
    <2>. QED
      BY <1>8, <2>1
  <1>. QED
    BY <1>7, <1>8, <1>9, <1>10 DEF Next, Begin

-----------------------------------------------------------------------------
(* A stop is obeyed.                                                       *)

LEMMA MayCacheFits ==
  ASSUME TypeOK, Tasks, Threads
  PROVE  MayCache \in SUBSET Task /\ Cardinality(MayCache) \in Nat
         /\ Cardinality(MayCache) <= PoolSize
  <1>1. MayCache \in SUBSET Task
    BY DEF MayCache
  <1>2. MayCache \subseteq Running(0)
    <2>1. \A t \in MayCache : t \in Pending /\ pc[t] # "queued" /\ gen[t] = 0
      BY DEF MayCache, Pending, Tasks
    <2>2. 0 % 2 = 0
      OBVIOUS
    <2>. QED
      BY <2>1, <2>2 DEF Running
  <1>3. Running(0) \in SUBSET Task /\ Cardinality(Running(0)) <= PoolSize /\ PoolSize \in Nat
    BY TilePrefetchAssumption DEF Running, Pending, Threads
  <1>. QED
    BY <1>1, <1>2, <1>3, Smaller

LEMMA PromptStep ==
  ASSUME TypeOK, Tasks, Threads, Prompt, [Next]_vars
  PROVE  Prompt'
  <1>0. /\ MayCache \in SUBSET Task /\ MayCache' \in SUBSET Task
        /\ Cardinality(MayCache) \in Nat /\ Cardinality(MayCache') \in Nat
        /\ Cardinality(MayCache) <= PoolSize /\ PoolSize \in Nat /\ late \in Nat
    <2>1. MayCache' \in SUBSET Task
      BY DEF MayCache
    <2>. QED
      BY <2>1, MayCacheFits, FiniteSets, TilePrefetchAssumption DEF TypeOK
  <1>1. ASSUME NEW u \in MayCache', u \notin MayCache
        PROVE  Answer(u) /\ ~stopped
    <2>1. u \in Task /\ pc'[u] \in {"tally", "store", "ask", "send"} /\ CacheOnly(u)'
      BY DEF MayCache
    <2>2. pc[u] # "unborn"
      BY <2>1, AnyMove, TaskMoves
    <2>3. pc[u] \notin {"tally", "store", "ask", "send"}
      BY <1>1, <2>1, <2>2, SameKind DEF MayCache
    <2>4. Answer(u)
      BY <2>1, <2>3, AnyMove, TaskMoves
    <2>. QED
      BY <2>1, <2>4 DEF Answer, Goto, TypeOK
  <1>2. ASSUME UNCHANGED <<stopped, told, late>>
        PROVE  Prompt'
    <2>1. CASE told
      <3>1. MayCache' \subseteq MayCache
        BY <1>1, <2>1 DEF Prompt
      <3>2. Cardinality(MayCache') <= Cardinality(MayCache)
        BY <1>0, <3>1, Smaller
      <3>. QED
        BY <1>0, <1>2, <2>1, <3>2 DEF Prompt
    <2>. QED
      BY <1>2, <2>1 DEF Prompt
  <1>3. CASE StartPools
    BY <1>3 DEF StartPools, Prompt
  <1>4. ASSUME NEW t \in Task, AskStop(t)
        PROVE  Prompt'
    <2>1. /\ told' = (told \/ m_stopCallback \in cancelled)
          /\ stopped' = (stopped \/ m_stopCallback \in cancelled)
          /\ late' = late
      BY <1>4 DEF AskStop
    <2>2. MayCache' \subseteq MayCache
      <3>1. pc[t] = "ask" /\ pc'[t] = "send" /\ \A u \in Task : u # t => pc'[u] = pc[u]
        BY <1>4 DEF AskStop, Goto, TypeOK
      <3>2. ASSUME NEW u \in MayCache', u \notin MayCache
            PROVE  FALSE
        <4>1. pc[u] = "http" /\ u \in Task /\ pc'[u] # "http"
          BY <1>1, <3>2 DEF Answer, MayCache
        <4>. QED
          BY <3>1, <4>1
      <3>. QED
        BY <3>2
    <2>3. Cardinality(MayCache') <= Cardinality(MayCache)
      BY <1>0, <2>2, Smaller
    <2>4. (told' => stopped') /\ (told => told')
      BY <2>1, Zenon DEF Prompt
    <2>5. late' = late /\ (~told => late = 0)
      BY <2>1 DEF Prompt
    <2>6. late + Cardinality(MayCache) <= PoolSize
      BY <1>0, <2>5 DEF Prompt
    <2>7. late' + Cardinality(MayCache') <= PoolSize
      BY <1>0, <2>3, <2>5, <2>6
    <2>8. ~told' => late' = 0
      BY <2>4, <2>5
    <2>. QED
      BY <2>4, <2>7, <2>8 DEF Prompt
  <1>5. ASSUME NEW t \in Task, Send(t)
        PROVE  Prompt'
    <2>1. /\ UNCHANGED <<stopped, told>>
          /\ late' = IF told /\ got[t] /\ CacheOnly(t) THEN late + 1 ELSE late
          /\ pc[t] = "send" /\ pc'[t] \in {"check", "completed"}
      BY <1>5 DEF Send, sharedVars, Goto, TypeOK
    <2>2. CASE late' = late
      BY <1>2, <2>1, <2>2
    <2>3. CASE late' # late
      <3>1. told /\ CacheOnly(t) /\ late' = late + 1 /\ t \in MayCache
        BY <2>1, <2>3 DEF MayCache
      <3>2. MayCache' \in SUBSET (MayCache \ {t})
        BY <1>1, <2>1, <3>1 DEF MayCache, Prompt
      <3>3. Cardinality(MayCache \ {t}) = Cardinality(MayCache) - 1
        BY <1>0, <3>1, FiniteSets, FS_RemoveElement
      <3>4. Cardinality(MayCache') <= Cardinality(MayCache \ {t})
        BY <1>0, <3>2, Smaller
      <3>. QED
        BY <1>0, <2>1, <3>1, <3>3, <3>4 DEF Prompt
    <2>. QED
      BY <2>2, <2>3
  <1>6. ASSUME NEW t \in Task, DoTask(t), ~AskStop(t), ~Send(t)
        PROVE  UNCHANGED <<stopped, told, late>>
    BY <1>6 DEF DoTask, Start, Answer, ReadCount, StoreCount, CheckComplete, Fire,
       sharedVars, ghostVars
  <1>7. CASE \/ UNCHANGED vars \/ Begin \/ SetLabel \/ ResetCounts \/ QueueTasks
             \/ \E r \in Request : Cancel(r)
    <2>1. UNCHANGED <<stopped, told, late>>
      BY <1>7 DEF vars, Begin, Snapshot, Prefetch, NewRequest, SetLabel,
         ResetCounts, QueueTasks, Cancel, sharedVars, ghostVars
    <2>. QED
      BY <1>2, <2>1
  <1>. QED
    BY <1>2, <1>3, <1>4, <1>5, <1>6, <1>7 DEF Next, Load, Begin

-----------------------------------------------------------------------------
(* Where the tiles are sent.                                               *)

(* No request gets back the company or the faults it is rid of.            *)
LEMMA Grows ==
  ASSUME TypeOK, [Next]_vars
  PROVE  /\ \A r \in 0..request : r \in alone' => r \in alone
         /\ raced \subseteq raced' /\ cancelled \subseteq cancelled'
         /\ ~Begin => alone' = alone
  <1>1. ASSUME NEW t \in Task, DoTask(t)
        PROVE  UNCHANGED <<alone, cancelled>> /\ raced \subseteq raced'
    <2>1. UNCHANGED <<alone, cancelled>>
      BY <1>1, TaskMoves DEF uiVars
    <2>2. raced \subseteq raced'
      BY <1>1 DEF DoTask, Start, Answer, ReadCount, StoreCount, AskStop, Send, CheckComplete, Fire,
         ghostVars
    <2>. QED
      BY <2>1, <2>2
  <1>2. CASE Begin
    <2>1. PICK k \in {"sqlite", "disk", "snapshot"}, n \in 1..Cardinality(Task) : NewRequest(k, n)
      BY <1>2, BeginMoves
    <2>2. alone' \subseteq alone \cup {request + 1} /\ UNCHANGED <<raced, cancelled>>
      BY <2>1 DEF NewRequest
    <2>3. request + 1 \notin 0..request
      BY DEF TypeOK
    <2>. QED
      BY <1>2, <2>2, <2>3
  <1>3. CASE UNCHANGED vars \/ Load \/ \E r \in Request : Cancel(r)
    BY <1>3 DEF vars, Load, SetLabel, StartPools, ResetCounts, QueueTasks, Cancel, ghostVars, uiVars
  <1>. QED
    BY <1>1, <1>2, <1>3 DEF Next, Begin

LEMMA DeliveredStep ==
  ASSUME TypeOK, Tasks, Phase, Alone, Delivered, [Next]_vars
  PROVE  Delivered'
  <1>1. SUFFICES ASSUME NEW t \in Task, req'[t] \in alone',
                        pc'[t] \in {"check", "fire", "completed"}, got'[t]
                 PROVE  sent'[t] = IF kind'[req'[t]] # "snapshot" THEN kind'[req'[t]] ELSE "ram"
    BY DEF Delivered, CacheOnly
  <1>2. pc[t] # "unborn"
    BY <1>1, AnyMove, TaskMoves
  <1>3. /\ req[t] \in 1..request /\ req[t] \in 0..request /\ req'[t] = req[t]
        /\ kind'[req[t]] = kind[req[t]] /\ req[t] \in alone
    <2>1. req[t] \in 1..request /\ req[t] \in 0..request
      BY <1>2 DEF Tasks, TypeOK
    <2>. QED
      BY <1>1, <1>2, <2>1, AnyMove, RequestStep, Grows
  <1>4. ASSUME pc[t] \in {"check", "fire", "completed"}, got[t], sent'[t] = sent[t]
        PROVE  sent'[t] = IF kind'[req'[t]] # "snapshot" THEN kind'[req'[t]] ELSE "ram"
    BY <1>3, <1>4 DEF Delivered, CacheOnly
  <1>5. CASE ~DoTask(t)
    BY <1>1, <1>2, <1>4, <1>5, AnyMove, OwnData
  <1>6. CASE Send(t)
    <2>0. t \in Pending
      BY <1>6 DEF Send, Pending
    <2>1. req[t] = request /\ request > 0
      <3>1. req[t] = request
        BY <1>3, <2>0 DEF Alone
      <3>. QED
        BY <1>3, <3>1 DEF TypeOK
    <2>2. sent'[t] = IF kind[req[t]] # "snapshot" THEN doCache ELSE "ram"
      BY <1>1, <1>6 DEF Send, taskVars, CacheOnly, TypeOK
    <2>. QED
      BY <1>3, <2>1, <2>2 DEF Phase
  <1>7. CASE DoTask(t) /\ ~Send(t)
    <2>1. CASE Start(t)
      BY <1>1, <2>1 DEF Start, taskVars, Tasks
    <2>2. CASE Answer(t)
      BY <1>1, <2>2 DEF Answer, Goto, TypeOK, Tasks
    <2>3. CASE CheckComplete(t) \/ Fire(t)
      BY <1>1, <1>4, <2>3 DEF CheckComplete, Fire, taskVars, ghostVars
    <2>. QED
      BY <1>1, <1>7, <2>1, <2>2, <2>3, TaskMoves, CountedPlace
  <1>. QED
    BY <1>5, <1>6, <1>7

-----------------------------------------------------------------------------
(* The event.                                                              *)

LEMMA StillWell ==
  ASSUME TypeOK, [Next]_vars, NEW r \in 1..request, Well(r)'
  PROVE  Well(r)
  <1>1. r \notin raced \cup cancelled
    BY Grows DEF Well
  <1>2. \A q \in 1..r : kind'[q] = kind[q]
    <2>1. 1..r \subseteq 1..request
      BY DEF TypeOK
    <2>. QED
      BY <2>1, RequestStep
  <1>3. r \in 1..r
    BY DEF TypeOK
  <1>. QED
    BY <1>1, <1>2, <1>3 DEF Well

(* A request that runs alone, when one of its tasks makes a step.          *)
LEMMA AtWork ==
  ASSUME TypeOK, Tasks, Phase, Alone, Current, request \in alone, NEW t \in Task, DoTask(t)
  PROVE  /\ ui = "idle" /\ t \in TasksOf(request) /\ label = request /\ request \in Request
         /\ UNCHANGED <<ui, request, label, alone, kind, tileGeneration, m_totalCount, gen,
                        m_stopCallback>>
         /\ TasksOf(request)' = TasksOf(request)
         /\ \A u \in TasksOf(request) : u # t => pc'[u] = pc[u]
  <1>1. t \in Pending
    BY TaskMoves, CountedPlace DEF Pending
  <1>2. ui = "idle" /\ t \in TasksOf(request)
    BY <1>1 DEF Alone
  <1>3. /\ UNCHANGED <<ui, request, label, alone, kind, tileGeneration, m_totalCount, gen,
                       m_stopCallback>>
        /\ TasksOf(request)' = TasksOf(request)
        /\ \A u \in TasksOf(request) : u # t => pc'[u] = pc[u]
    BY TaskMoves DEF uiVars, cacheVars, TasksOf
  <1>4. label = request /\ request \in Request
    BY <1>2 DEF Phase, TypeOK
  <1>. QED
    BY <1>2, <1>3, <1>4

LEMMA CountedParts ==
  ASSUME NEW r
  PROVE  /\ CountedOf(r) \in SUBSET TasksOf(r) /\ ToFire(r) \in SUBSET CountedOf(r)
         /\ TasksOf(r) \in SUBSET Task /\ CountedOf(r) \in SUBSET Task /\ ToFire(r) \in SUBSET Task
         /\ CountedOf(r)' \in SUBSET Task /\ ToFire(r)' \in SUBSET Task
  BY DEF CountedOf, ToFire, TasksOf, Past

(* How the tasks of the request that are past the count change.            *)
LEMMA PastStep ==
  ASSUME TypeOK, Tasks, Phase, Alone, Current, request \in alone, NEW t \in Task, DoTask(t)
  PROVE  \/ /\ ~Past(t) /\ ~Past(t)'
            /\ UNCHANGED <<CountedOf(request), ToFire(request)>>
         \/ /\ ~Past(t) /\ Past(t)' /\ t \notin CountedOf(request)
            /\ CountedOf(request)' = CountedOf(request) \cup {t}
            /\ ToFire(request)' = IF pc'[t] = "completed" THEN ToFire(request)
                                  ELSE ToFire(request) \cup {t}
         \/ /\ Past(t) /\ Past(t)' /\ t \in ToFire(request)
            /\ UNCHANGED CountedOf(request)
            /\ ToFire(request)' = IF pc'[t] = "completed" THEN ToFire(request) \ {t}
                                  ELSE ToFire(request)
  <1>1. /\ t \in TasksOf(request) /\ TasksOf(request)' = TasksOf(request) /\ request' = request
        /\ \A u \in TasksOf(request) : u # t => pc'[u] = pc[u]
    BY AtWork
  <1>2. \/ ~Past(t) /\ ~Past(t)'
        \/ ~Past(t) /\ Past(t)'
        \/ Past(t) /\ Past(t)' /\ pc[t] # "completed"
    BY TaskMoves, CountedPlace DEF Past
  <1>3. /\ CountedOf(request) = {u \in TasksOf(request) : Past(u)}
        /\ CountedOf(request)' = {u \in TasksOf(request) : Past(u)'}
        /\ ToFire(request) = {u \in TasksOf(request) : Past(u) /\ pc[u] # "completed"}
        /\ ToFire(request)' = {u \in TasksOf(request) : Past(u)' /\ pc'[u] # "completed"}
    BY <1>1 DEF CountedOf, ToFire, Past
  <1>4. \A u \in TasksOf(request) : u # t => (Past(u)' <=> Past(u))
    BY <1>1 DEF Past
  <1>. QED
    BY <1>1, <1>2, <1>3, <1>4

(* What the threads do to the counter and the events.                      *)
LEMMA CountMoves ==
  ASSUME TypeOK, NEW t \in Task, DoTask(t)
  PROVE  /\ StoreCount(t) \/ m_count' = m_count
         /\ \/ tmp' = tmp
            \/ StoreCount(t) /\ tmp' = [tmp EXCEPT ![t] = 0]
            \/ ReadCount(t) /\ tmp' = [tmp EXCEPT ![t] = m_count]
         /\ Fire(t) \/ fired' = fired
  BY DEF DoTask, Start, Answer, ReadCount, StoreCount, AskStop, Send, CheckComplete, Fire,
     sharedVars, taskVars, ghostVars

LEMMA CurrentCounts ==
  ASSUME TypeOK, Tasks, Phase, Alone, Current, request \in alone, NEW t \in Task, DoTask(t)
  PROVE  /\ m_count' <= Cardinality(CountedOf(request)')
         /\ \A u \in Task : tmp'[u] <= Cardinality(CountedOf(request)')
  <1>. DEFINE C == CountedOf(request)
  <1>1. /\ m_count \in Nat /\ tmp \in [Task -> Nat]
        /\ m_count <= Cardinality(C) /\ \A u \in Task : tmp[u] <= Cardinality(C)
    <2>1. Cardinality(Task) \in Nat
      BY FS_CardinalityType, TilePrefetchAssumption
    <2>2. m_count \in Nat /\ tmp \in [Task -> Nat]
      BY <2>1 DEF TypeOK
    <2>. QED
      BY <2>2, AtWork DEF Current
  <1>2. /\ C \in SUBSET Task /\ C' \in SUBSET Task /\ C \subseteq C'
    BY PastStep, CountedParts
  <1>3. Cardinality(C) <= Cardinality(C') /\ Cardinality(C) \in Nat /\ Cardinality(C') \in Nat
    BY <1>2, Smaller
  <1>4. CASE StoreCount(t)
    <2>1. m_count' = tmp[t] + 1 /\ tmp' = [tmp EXCEPT ![t] = 0]
      BY <1>4 DEF StoreCount
    <2>2. pc[t] = "store" /\ pc'[t] \in {"ask", "send"}
      BY <1>4, CountedPlace DEF StoreCount, Goto, TypeOK
    <2>3. t \notin C /\ C' = C \cup {t}
      BY <2>2, PastStep DEF Past
    <2>4. Cardinality(C') = Cardinality(C) + 1
      BY <1>2, <2>3, FiniteSets, FS_AddElement
    <2>5. PICK n \in Nat : n = Cardinality(C)
      BY <1>3
    <2>6. PICK m \in Nat : m = Cardinality(C')
      BY <1>3
    <2>7. m = n + 1 /\ m_count' <= m /\ \A u \in Task : tmp'[u] <= m
      <3>. HIDE DEF C
      <3>. QED
        BY <1>1, <2>1, <2>4, <2>5, <2>6
    <2>. QED
      BY <2>6, <2>7
  <1>5. CASE ~StoreCount(t)
    <2>1. m_count' = m_count /\ (tmp' = tmp \/ tmp' = [tmp EXCEPT ![t] = m_count])
      BY <1>5, CountMoves
    <2>2. PICK n \in Nat : n = Cardinality(C)
      BY <1>3
    <2>3. PICK m \in Nat : m = Cardinality(C')
      BY <1>3
    <2>4. m_count' <= m /\ \A u \in Task : tmp'[u] <= m
      <3>. HIDE DEF C
      <3>. QED
        BY <1>1, <1>3, <2>1, <2>2, <2>3
    <2>. QED
      BY <2>3, <2>4
  <1>. QED
    BY <1>4, <1>5

LEMMA CurrentEvent ==
  ASSUME TypeOK, Tasks, Phase, Alone, Threads', Current, request \in alone,
         NEW t \in Task, DoTask(t)
  PROVE  IF TasksOf(request) = CountedOf(request)'
           THEN fired'[request] + Cardinality(ToFire(request)') <= PoolSize
           ELSE fired'[request] = 0 /\ \A u \in TasksOf(request) : pc'[u] # "fire"
  <1>. DEFINE R == TasksOf(request)  C == CountedOf(request)  F == ToFire(request)
              g == IF kind[request] = "snapshot" THEN tileGeneration ELSE 0
  <1>1. /\ ui = "idle" /\ t \in R /\ label = request /\ request \in Request /\ R' = R
        /\ \A u \in R : u # t => pc'[u] = pc[u]
    BY AtWork
  <1>2. /\ m_totalCount = Cardinality(R) /\ m_count <= Cardinality(C)
        /\ IF R = C THEN fired[request] + Cardinality(F) <= PoolSize
           ELSE fired[request] = 0 /\ \A u \in R : pc[u] # "fire"
    BY <1>1 DEF Current
  <1>3. /\ C \in SUBSET R /\ F \in SUBSET C /\ R \in SUBSET Task /\ C \in SUBSET Task
        /\ F \in SUBSET Task /\ F' \in SUBSET Task
    BY CountedParts
  <1>4. /\ Cardinality(R) \in Nat /\ Cardinality(C) \in Nat /\ Cardinality(F) \in Nat
        /\ Cardinality(F') \in Nat /\ PoolSize \in Nat /\ m_count \in Nat
        /\ fired[request] \in Nat
    BY <1>1, <1>3, FiniteSets, FS_CardinalityType, TilePrefetchAssumption DEF TypeOK
  <1>5. Fire(t) => fired'[request] = fired[request] + 1
    BY <1>1 DEF Fire, TypeOK
  <1>6. Cardinality(F') <= PoolSize
    <2>1. g \in Nat
      BY TilePrefetchAssumption DEF TypeOK
    <2>2. \A u \in TasksOf(request) : gen[u] = g
      BY <1>1 DEF Current
    <2>3. \A u \in TasksOf(request)' : gen'[u] = g
      BY <2>2, AtWork
    <2>4. PICK p \in {0, 1} : p = g % 2
      BY <2>1
    <2>5. F' \subseteq Running(p)'
      <3>1. \A u \in F' : u \in Task /\ pc'[u] \in {"ask", "send", "check", "fire"} /\ gen'[u] = g
        BY <2>3 DEF ToFire, TasksOf
      <3>. HIDE DEF g
      <3>. QED
        BY <2>4, <3>1 DEF Running, Pending
    <2>6. Running(p)' \in SUBSET Task /\ Cardinality(Running(p)') <= PoolSize
      BY DEF Threads, Running, Pending
    <2>. QED
      BY <1>4, <2>5, <2>6, Smaller
  <1>7. CASE ~Past(t)
    <2>1. R # C /\ pc[t] # "fire"
      BY <1>1, <1>7 DEF CountedOf, Past
    <2>2. fired'[request] = 0
      BY <1>2, <2>1, CountMoves DEF Fire
    <2>3. pc'[t] # "fire"
      BY <1>7, TaskMoves, CountedPlace DEF Past
    <2>4. ~Past(t)' => C' = C
      BY <1>7, PastStep
    <2>. HIDE DEF R, C, F
    <2>5. \A u \in R : pc'[u] # "fire"
      BY <1>1, <1>2, <2>1, <2>3
    <2>6. fired'[request] + Cardinality(F') <= PoolSize
      BY <1>4, <1>6, <2>2
    <2>. QED
      BY <2>2, <2>5, <2>6 DEF R, C, F
  <1>8. CASE Past(t)
    <2>1. /\ C' = C /\ t \in F
          /\ F' = IF pc'[t] = "completed" THEN F \ {t} ELSE F
      BY <1>8, PastStep
    <2>2. Cardinality(F \ {t}) = Cardinality(F) - 1
      BY <1>3, <2>1, FiniteSets, FS_RemoveElement
    <2>3. CASE R = C
      <3>1. CASE Fire(t)
        <4>1. pc'[t] = "completed"
          BY <3>1 DEF Fire, Goto, TypeOK
        <4>2. F' = F \ {t}
          BY <2>1, <4>1
        <4>. HIDE DEF R, C, F
        <4>3. fired'[request] + Cardinality(F') <= PoolSize
          BY <1>2, <1>4, <1>5, <2>2, <2>3, <3>1, <4>2
        <4>. QED
          BY <2>1, <2>3, <4>3 DEF R, C, F
      <3>2. CASE ~Fire(t)
        <4>1. fired'[request] = fired[request]
          BY <3>2, CountMoves
        <4>. HIDE DEF R, C, F
        <4>2. fired'[request] + Cardinality(F') <= PoolSize
          BY <1>2, <1>4, <2>1, <2>2, <2>3, <4>1
        <4>. QED
          BY <2>1, <2>3, <4>2 DEF R, C, F
      <3>. QED
        BY <3>1, <3>2
    <2>4. CASE R # C
      <3>1. pc[t] # "fire" /\ fired[request] = 0
        BY <1>1, <1>2, <2>4
      <3>2. fired'[request] = 0
        BY <3>1, CountMoves DEF Fire
      <3>3. m_count # m_totalCount
        <4>. HIDE DEF R, C, F
        <4>. QED
          BY <1>2, <1>3, <1>4, <2>4, Smaller
      <3>4. pc'[t] # "fire"
        BY <1>8, <3>3, TaskMoves, CountedPlace DEF Past, CheckComplete, Goto, TypeOK
      <3>5. \A u \in R : pc'[u] # "fire"
        BY <1>1, <1>2, <2>4, <3>4
      <3>. QED
        BY <2>1, <2>4, <3>2, <3>5
    <2>. QED
      BY <2>3, <2>4
  <1>. QED
    BY <1>7, <1>8

(* The tasks of a request that is well are of the generation of the loader,*)
(* so that each of them is counted, and nothing stops it.                  *)
LEMMA WellMoves ==
  ASSUME TypeOK, Tasks, Phase, Alone, Current, CurrentWell, request \in alone, Well(request),
         NEW t \in Task, DoTask(t)
  PROVE  /\ ~stopped' /\ gen[t] = tileGeneration
         /\ \/ pc[t] = "queued" /\ pc'[t] = "http"
            \/ pc[t] = "http" /\ pc'[t] = "tally"
            \/ pc[t] = "tally" /\ pc'[t] = "store" /\ ReadCount(t)
            \/ pc[t] = "store" /\ pc'[t] \in {"ask", "send"} /\ StoreCount(t)
            \/ pc[t] = "ask" /\ pc'[t] = "send"
            \/ pc[t] = "send" /\ pc'[t] = "check"
            \/ pc[t] = "check" /\ m_count = m_totalCount /\ pc'[t] = "fire"
            \/ pc[t] = "check" /\ m_count # m_totalCount
            \/ pc[t] = "fire" /\ Fire(t)
  <1>1. /\ ui = "idle" /\ t \in TasksOf(request) /\ req[t] = request /\ request \in Request
        /\ request \in 1..request /\ ~stopped
    <2>1. ui = "idle" /\ t \in TasksOf(request) /\ request \in Request
      BY AtWork
    <2>2. req[t] = request /\ request \in 1..request
      BY <2>1 DEF TasksOf, TypeOK, Request
    <2>. QED
      BY <2>1, <2>2 DEF CurrentWell
  <1>2. gen[t] = tileGeneration
    BY <1>1 DEF Current, Well, Phase
  <1>3. AskStop(t) => m_stopCallback \notin cancelled
    <2>1. AskStop(t) => kind[request] # "snapshot"
      BY <1>1 DEF AskStop, Tasks, CacheOnly
    <2>2. AskStop(t) => m_stopCallback \in {0, request}
      BY <1>1, <2>1 DEF Phase, Request
    <2>3. 0 \notin cancelled
      BY DEF TypeOK, Request
    <2>. QED
      BY <2>2, <2>3 DEF Well
  <1>4. ~stopped'
    <2>1. stopped' = stopped \/ AskStop(t)
      BY DEF DoTask, Start, Answer, ReadCount, StoreCount, AskStop, Send, CheckComplete, Fire,
         sharedVars
    <2>2. AskStop(t) => (stopped' <=> stopped)
      BY <1>3, Zenon DEF AskStop
    <2>. QED
      BY <1>1, <2>1, <2>2
  <1>5. ~(gen[t] < tileGeneration)
    BY <1>2 DEF TypeOK
  <1>6. DOMAIN pc = Task
    BY DEF TypeOK
  <1>7. /\ Start(t) => pc'[t] = "http"
        /\ Answer(t) => pc'[t] = "tally"
        /\ ReadCount(t) => pc'[t] = "store"
        /\ Send(t) => pc'[t] = "check"
        /\ CheckComplete(t) => pc'[t] = IF m_count = m_totalCount THEN "fire" ELSE "completed"
    BY <1>1, <1>2, <1>5, <1>6 DEF Start, Answer, ReadCount, Send, CheckComplete, Goto
  <1>. QED
    BY <1>2, <1>4, <1>7, TaskMoves, CountedPlace

LEMMA WellWork ==
  ASSUME TypeOK, Tasks, Phase, Alone, Current, CurrentWell, request \in alone, Well(request),
         NEW t \in Task, DoTask(t), request \notin raced'
  PROVE  /\ m_count' = Cardinality(CountedOf(request)')
         /\ \A u \in TasksOf(request) : pc'[u] = "store" =>
              tmp'[u] = m_count' /\ \A v \in TasksOf(request) : pc'[v] = "store" => v = u
         /\ TasksOf(request) = CountedOf(request)' =>
              fired'[request] > 0 \/ ToFire(request)' # {}
  <1>. DEFINE R == TasksOf(request)  C == CountedOf(request)  F == ToFire(request)
  <1>1. /\ ui = "idle" /\ t \in R /\ label = request /\ request \in Request
        /\ \A u \in R : u # t => pc'[u] = pc[u]
    BY AtWork
  <1>2. /\ m_count = Cardinality(C)
        /\ \A u \in R : pc[u] = "store" =>
              tmp[u] = m_count /\ \A v \in R : pc[v] = "store" => v = u
        /\ R = C => fired[request] > 0 \/ F # {}
        /\ m_totalCount = Cardinality(R)
    BY <1>1 DEF Current, CurrentWell
  <1>3. /\ C \in SUBSET Task /\ IsFiniteSet(C) /\ Cardinality(C) \in Nat
        /\ tmp \in [Task -> Nat] /\ fired[request] \in Nat /\ R \in SUBSET Task
    BY <1>1, CountedParts, FiniteSets, FS_CardinalityType, TilePrefetchAssumption DEF TypeOK
  <1>4. CASE StoreCount(t)
    <2>1. /\ m_count' = tmp[t] + 1 /\ tmp' = [tmp EXCEPT ![t] = 0] /\ pc[t] = "store"
          /\ pc'[t] \in {"ask", "send"}
      BY <1>4, CountedPlace DEF StoreCount, Goto, TypeOK
    <2>2. t \notin C /\ C' = C \cup {t} /\ F' = F \cup {t}
      BY <2>1, PastStep DEF Past
    <2>3. Cardinality(C') = Cardinality(C) + 1
      BY <1>3, <2>2, FS_AddElement
    <2>4. m_count' = Cardinality(C')
      <3>1. tmp[t] = Cardinality(C)
        BY <1>1, <1>2, <2>1
      <3>. QED
        BY <2>1, <2>3, <3>1
    <2>5. \A u \in R : pc'[u] # "store"
      BY <1>1, <1>2, <2>1
    <2>. QED
      BY <2>2, <2>4, <2>5
  <1>5. CASE ReadCount(t)
    <2>1. /\ tmp' = [tmp EXCEPT ![t] = m_count] /\ pc[t] = "tally" /\ pc'[t] = "store"
          /\ m_count' = m_count
          /\ ~ \E u \in Task : pc[u] = "store"
      <3>1. pc'[t] = "store" /\ gen[t] = tileGeneration
        BY <1>5, WellMoves DEF ReadCount
      <3>2. req[t] = request
        BY <1>1 DEF TasksOf
      <3>. QED
        BY <1>5, <3>1, <3>2 DEF ReadCount, sharedVars
    <2>2. C' = C /\ ~Past(t)
      BY <2>1, PastStep DEF Past
    <2>3. R # C
      BY <1>1, <2>2 DEF CountedOf
    <2>4. \A u \in R : pc'[u] = "store" => u = t
      BY <1>1, <1>3, <2>1
    <2>5. tmp'[t] = m_count'
      BY <1>3, <2>1
    <2>. QED
      BY <1>2, <2>1, <2>2, <2>3, <2>4, <2>5
  <1>6. CASE ~StoreCount(t) /\ ~ReadCount(t)
    <2>1. m_count' = m_count /\ tmp' = tmp
      BY <1>6, CountMoves
    <2>2. pc[t] # "store" /\ pc'[t] # "store"
      BY <1>6, WellMoves, TaskMoves
    <2>3. \A u \in R : pc'[u] = "store" <=> pc[u] = "store"
      BY <1>1, <2>2
    <2>4. ~(~Past(t) /\ Past(t)')
      BY <1>6, WellMoves, TaskMoves DEF Past
    <2>5. C' = C
      BY <2>4, PastStep
    <2>6. R = C => fired'[request] > 0 \/ F' # {}
      <3>1. SUFFICES ASSUME R = C
                     PROVE  fired'[request] > 0 \/ F' # {}
        OBVIOUS
      <3>2. Past(t) /\ t \in F /\ F' = IF pc'[t] = "completed" THEN F \ {t} ELSE F
        <4>1. Past(t)
          BY <1>1, <3>1 DEF CountedOf
        <4>. QED
          BY <4>1, PastStep
      <3>3. CASE pc'[t] # "completed"
        BY <3>2, <3>3
      <3>4. CASE Fire(t)
        <4>1. fired'[request] = fired[request] + 1
          BY <1>1, <3>4 DEF Fire, TypeOK
        <4>. QED
          BY <1>3, <4>1
      <3>5. m_count = m_totalCount
        BY <1>2, <3>1
      <3>6. pc'[t] = "completed" => Fire(t)
        BY <3>2, <3>5, WellMoves DEF Past, Fire
      <3>. QED
        BY <3>3, <3>4, <3>6
    <2>. QED
      BY <1>2, <2>1, <2>3, <2>5, <2>6
  <1>. QED
    BY <1>4, <1>5, <1>6

(* The tasks of a request that is alone are queued.                        *)
LEMMA QueueAlone ==
  ASSUME TypeOK, Tasks, Phase, Alone, Current, QueueTasks, request \in alone
  PROVE  /\ ui = "queue" /\ ui' = "idle" /\ fired[request] = 0
         /\ UNCHANGED <<sharedVars, request, kind, tmp, alone, fired, raced, cancelled>>
         /\ m_count = 0 /\ \A t \in Task : tmp[t] = 0
         /\ TasksOf(request)' # {} /\ m_totalCount = Cardinality(TasksOf(request)')
         /\ \A t \in TasksOf(request)' :
              /\ pc'[t] = "queued"
              /\ gen'[t] = IF kind[request] = "snapshot" THEN tileGeneration ELSE 0
         /\ CountedOf(request)' = {} /\ ToFire(request)' = {}
  <1>1. /\ ui = "queue" /\ ui' = "idle" /\ m_count = 0 /\ m_totalCount = points
        /\ fired[request] = 0 /\ points > 0
        /\ UNCHANGED <<sharedVars, request, kind, tmp, alone, fired, raced, cancelled>>
    BY DEF QueueTasks, Current, Phase, ghostVars
  <1>2. \A t \in Task : tmp[t] = 0
    BY <1>1 DEF Alone, Pending, Tasks
  <1>3. PICK S \in SUBSET Fresh :
          /\ Cardinality(S) = points
          /\ pc' = [u \in Task |-> IF u \in S THEN "queued" ELSE pc[u]]
          /\ req' = [u \in Task |-> IF u \in S THEN request ELSE req[u]]
          /\ gen' = [u \in Task |-> IF u \in S
                       THEN IF kind[request] = "snapshot" THEN tileGeneration ELSE 0
                       ELSE gen[u]]
    BY QueueMoves
  <1>4. TasksOf(request)' = S
    <2>1. TasksOf(request) = {}
      BY <1>1 DEF Phase
    <2>. QED
      BY <1>1, <1>3, <2>1 DEF TasksOf, Fresh
  <1>5. S # {}
    BY <1>1, <1>3, FS_EmptySet
  <1>6. \A t \in S : /\ pc'[t] = "queued"
                     /\ gen'[t] = IF kind[request] = "snapshot" THEN tileGeneration ELSE 0
    BY <1>3 DEF Fresh
  <1>7. CountedOf(request)' = {} /\ ToFire(request)' = {}
    BY <1>4, <1>6 DEF CountedOf, ToFire, Past
  <1>. QED
    BY <1>1, <1>2, <1>3, <1>4, <1>5, <1>6, <1>7

LEMMA CurrentStep ==
  ASSUME TypeOK, Tasks, Phase, Alone, Threads', Current, [Next]_vars
  PROVE  Current'
  <1>1. ASSUME NEW t \in Task, DoTask(t), request' \in alone'
        PROVE  Current'
    <2>1. UNCHANGED <<request, alone>>
      BY <1>1, TaskMoves DEF uiVars
    <2>2. request \in alone
      BY <1>1, <2>1
    <2>3. /\ ui = "idle" /\ TasksOf(request)' = TasksOf(request)
          /\ UNCHANGED <<ui, request, kind, tileGeneration, m_totalCount, gen>>
      BY <1>1, <2>2, AtWork
    <2>4. /\ m_count' <= Cardinality(CountedOf(request)')
          /\ \A u \in Task : tmp'[u] <= Cardinality(CountedOf(request)')
      BY <1>1, <2>2, CurrentCounts
    <2>5. IF TasksOf(request) = CountedOf(request)'
           THEN fired'[request] + Cardinality(ToFire(request)') <= PoolSize
           ELSE fired'[request] = 0 /\ \A u \in TasksOf(request) : pc'[u] # "fire"
      BY <1>1, <2>2, CurrentEvent
    <2>. QED
      BY <2>2, <2>3, <2>4, <2>5 DEF Current
  <1>2. CASE Begin
    <2>1. PICK k \in {"sqlite", "disk", "snapshot"}, n \in 1..Cardinality(Task) : NewRequest(k, n)
      BY <1>2, BeginMoves
    <2>2. ui' = "label" /\ request' = request + 1 /\ request + 1 \in Request /\ fired' = fired
      BY <2>1, TilePrefetchAssumption DEF NewRequest, TypeOK, Request
    <2>3. fired[request + 1] = 0
      BY <2>2 DEF Phase, TypeOK
    <2>. QED
      BY <2>2, <2>3 DEF Current
  <1>3. CASE SetLabel \/ StartPools \/ ResetCounts
    BY <1>3 DEF SetLabel, StartPools, ResetCounts, uiVars, ghostVars, Current
  <1>4. ASSUME QueueTasks, request' \in alone'
        PROVE  Current'
    <2>1. UNCHANGED <<request, alone>>
      BY <1>4 DEF QueueTasks, ghostVars
    <2>. QED
      BY <1>4, <2>1, QueueAlone, FS_EmptySet DEF Current, sharedVars
  <1>5. CASE UNCHANGED vars \/ \E r \in Request : Cancel(r)
    <2>1. UNCHANGED <<sharedVars, pc, taskVars, ui, request, kind, points, ghostVars>>
      BY <1>5 DEF vars, Cancel, uiVars
    <2>. QED
      BY <2>1 DEF sharedVars, taskVars, ghostVars, Current, TasksOf, CountedOf, ToFire, Past
  <1>. QED
    BY <1>1, <1>2, <1>3, <1>4, <1>5 DEF Next, Load, Begin, Current

LEMMA CurrentWellStep ==
  ASSUME TypeOK, Tasks, Phase, Alone, Current, CurrentWell, [Next]_vars
  PROVE  CurrentWell'
  <1>0. ASSUME UNCHANGED <<request, alone>>, request' \in alone', Well(request)'
        PROVE  request \in alone /\ Well(request)
    <2>1. request \in 1..request
      BY <1>0 DEF Alone
    <2>2. Well(request)
      BY <1>0, <2>1, StillWell
    <2>. QED
      BY <1>0, <2>2
  <1>1. ASSUME NEW t \in Task, DoTask(t), request' \in alone', Well(request)'
        PROVE  CurrentWell'
    <2>1. UNCHANGED <<request, alone>>
      BY <1>1, TaskMoves DEF uiVars
    <2>2. request \in alone /\ Well(request) /\ request \notin raced'
      BY <1>0, <1>1, <2>1 DEF Well
    <2>3. ui' = "idle" /\ TasksOf(request)' = TasksOf(request) /\ ~stopped'
      BY <1>1, <2>2, AtWork, WellMoves
    <2>4. /\ m_count' = Cardinality(CountedOf(request)')
          /\ \A u \in TasksOf(request) : pc'[u] = "store" =>
               tmp'[u] = m_count' /\ \A v \in TasksOf(request) : pc'[v] = "store" => v = u
          /\ TasksOf(request) = CountedOf(request)' =>
               fired'[request] > 0 \/ ToFire(request)' # {}
      BY <1>1, <2>2, WellWork
    <2>. QED
      BY <2>1, <2>3, <2>4 DEF CurrentWell
  <1>2. CASE Begin
    <2>1. ui' = "label"
      BY <1>2, BeginMoves DEF NewRequest
    <2>. QED
      BY <2>1 DEF CurrentWell
  <1>3. ASSUME SetLabel \/ StartPools \/ ResetCounts, request' \in alone', Well(request)'
        PROVE  CurrentWell'
    <2>1. UNCHANGED <<request, alone>>
      BY <1>3 DEF SetLabel, StartPools, ResetCounts, ghostVars
    <2>2. request \in alone /\ Well(request)
      BY <1>0, <1>3, <2>1
    <2>. QED
      BY <1>3, <2>2 DEF SetLabel, StartPools, ResetCounts, CurrentWell
  <1>4. ASSUME QueueTasks, request' \in alone', Well(request)'
        PROVE  CurrentWell'
    <2>1. UNCHANGED <<request, alone>>
      BY <1>4 DEF QueueTasks, ghostVars
    <2>2. request \in alone /\ Well(request)
      BY <1>0, <1>4, <2>1
    <2>. QED
      BY <1>4, <2>2, QueueAlone, FS_EmptySet DEF CurrentWell, sharedVars
  <1>5. ASSUME UNCHANGED vars \/ \E r \in Request : Cancel(r), request' \in alone', Well(request)'
        PROVE  CurrentWell'
    <2>1. UNCHANGED <<sharedVars, pc, taskVars, ui, request, kind, points, ghostVars>>
      BY <1>5 DEF vars, Cancel, uiVars
    <2>2. request \in alone /\ Well(request)
      BY <1>0, <1>5, <2>1 DEF ghostVars
    <2>. QED
      BY <2>1, <2>2 DEF sharedVars, taskVars, ghostVars, CurrentWell, TasksOf, CountedOf, ToFire, Past
  <1>. QED
    BY <1>1, <1>2, <1>3, <1>4, <1>5 DEF Next, Load, Begin, CurrentWell

LEMMA FinishedStep ==
  ASSUME TypeOK, Tasks, Phase, Alone, Current, CurrentWell, Finished, [Next]_vars
  PROVE  Finished'
  <1>1. SUFFICES ASSUME NEW r \in alone', r < request'
                 PROVE  fired'[r] <= PoolSize /\ (Well(r)' => fired'[r] > 0)
    BY DEF Finished
  <1>2. ASSUME UNCHANGED <<request, alone>>, fired'[r] = fired[r]
        PROVE  fired'[r] <= PoolSize /\ (Well(r)' => fired'[r] > 0)
    <2>1. r \in 1..request
      BY <1>1, <1>2 DEF Alone
    <2>2. Well(r)' => Well(r)
      BY <2>1, StillWell
    <2>. QED
      BY <1>1, <1>2, <2>2 DEF Finished
  <1>3. ASSUME NEW t \in Task, DoTask(t)
        PROVE  UNCHANGED <<request, alone>> /\ fired'[r] = fired[r]
    <2>1. UNCHANGED <<request, alone>>
      BY <1>3, TaskMoves DEF uiVars
    <2>2. ASSUME fired'[r] # fired[r]
          PROVE  FALSE
      <3>1. Fire(t) /\ label = r
        BY <1>3, <2>2, CountMoves DEF Fire, TypeOK
      <3>2. ui = "label" /\ label \in alone
        BY <1>1, <2>1, <3>1 DEF Phase, TypeOK
      <3>3. t \in Pending
        BY <3>1 DEF Fire, Pending
      <3>. QED
        BY <3>2, <3>3 DEF Alone
    <2>. QED
      BY <2>1, <2>2
  <1>4. CASE Begin
    <2>1. PICK k \in {"sqlite", "disk", "snapshot"}, n \in 1..Cardinality(Task) : NewRequest(k, n)
      BY <1>4, BeginMoves
    <2>2. /\ request' = request + 1 /\ ui = "idle" /\ fired' = fired
          /\ alone' = IF Pending = {} THEN alone \cup {request + 1}
                      ELSE alone \ {req[t] : t \in Pending}
      BY <2>1 DEF NewRequest
    <2>3. request \in Nat /\ r \in Nat
      <3>1. request \in Nat
        BY TilePrefetchAssumption DEF TypeOK
      <3>2. alone \subseteq 1..request /\ alone' \subseteq alone \cup {request + 1}
        BY <2>2 DEF Alone
      <3>. QED
        BY <1>1, <3>1, <3>2
    <2>4. r \in alone /\ r \in 1..request
      <3>1. r # request + 1
        BY <1>1, <2>2, <2>3
      <3>2. r \in alone
        BY <1>1, <2>2, <3>1
      <3>. QED
        BY <3>2 DEF Alone
    <2>5. Well(r)' => Well(r)
      BY <2>4, StillWell
    <2>6. CASE r < request
      BY <2>2, <2>4, <2>5, <2>6 DEF Finished
    <2>7. CASE r = request
      <3>1. Pending = {}
        BY <1>1, <2>2, <2>4, <2>7 DEF Alone, TasksOf
      <3>2. \A t \in TasksOf(request) : pc[t] = "completed"
        BY <2>4, <2>7, <3>1 DEF TasksOf, Pending, Tasks
      <3>3. TasksOf(request) = CountedOf(request) /\ ToFire(request) = {}
        BY <3>2 DEF CountedOf, ToFire, Past
      <3>4. fired[request] + Cardinality(ToFire(request)) <= PoolSize /\ fired[request] \in Nat
        BY <2>2, <2>4, <2>7, <3>3, TilePrefetchAssumption DEF Current, TypeOK, Request
      <3>5. Well(request) => fired[request] > 0
        BY <2>2, <2>4, <2>7, <3>3 DEF CurrentWell
      <3>. QED
        BY <2>2, <2>5, <2>7, <3>3, <3>4, <3>5, FS_EmptySet
    <2>. QED
      BY <1>1, <2>2, <2>3, <2>6, <2>7
  <1>5. CASE UNCHANGED vars \/ Load \/ \E q \in Request : Cancel(q)
    <2>1. UNCHANGED <<request, alone, fired>>
      BY <1>5 DEF vars, Load, SetLabel, StartPools, ResetCounts, QueueTasks, Cancel, ghostVars, uiVars
    <2>. QED
      BY <1>2, <2>1
  <1>. QED
    BY <1>2, <1>3, <1>4, <1>5 DEF Next, Begin

-----------------------------------------------------------------------------
(* The types.                                                              *)

(* The types of what TypeStep does not take from another lemma.            *)
Scalars ==
  /\ tileGeneration \in 0..MaxRequests /\ {stopped, m_callback, told, fault} \subseteq BOOLEAN
  /\ m_totalCount \in 0..Cardinality(Task)
  /\ {label, m_stopCallback} \subseteq 0..MaxRequests
  /\ doCache \in {"sqlite", "disk"}
  /\ pc \in [Task -> {"unborn", "queued", "http", "tally", "store", "ask", "send", "check",
                      "fire", "completed"}]
  /\ req \in [Task -> 0..MaxRequests] /\ gen \in [Task -> 0..MaxRequests]
  /\ got \in [Task -> BOOLEAN]
  /\ ui \in {"idle", "label", "start", "reset", "queue"}
  /\ points \in 0..Cardinality(Task)
  /\ cancelled \subseteq Request /\ alone \subseteq Request /\ raced \subseteq Request
  /\ sent \in [Task -> {"none", "sqlite", "disk", "ram"}]
  /\ fired \in [Request -> Nat] /\ late \in Nat

LEMMA ScalarsStep ==
  ASSUME TypeOK, Tasks, Phase, Alone, [Next]_vars
  PROVE  Scalars'
  <1>0. /\ Scalars /\ request \in 0..MaxRequests /\ MaxRequests \in Nat
        /\ kind \in [Request -> {"none", "sqlite", "disk", "snapshot"}]
        /\ Cardinality(Task) \in Nat
    BY FS_CardinalityType, TilePrefetchAssumption DEF TypeOK, Scalars
  <1>1. CASE Begin
    <2>1. PICK k \in {"sqlite", "disk", "snapshot"}, n \in 1..Cardinality(Task) :
           /\ NewRequest(k, n)
           /\ IF k = "snapshot" THEN UNCHANGED cacheVars
              ELSE /\ doCache' = k
                   /\ m_stopCallback' \in {0, request + 1}
                   /\ m_callback' \in {m_callback, TRUE}
      BY <1>1, BeginMoves
    <2>2. /\ UNCHANGED <<sharedVars, pc, req, gen, got, cancelled, raced, sent, fired, told, late,
                         fault>>
          /\ points' = n /\ ui' = "label" /\ request < MaxRequests
          /\ alone' \subseteq alone \cup {request + 1}
      BY <2>1 DEF NewRequest, taskVars
    <2>3. /\ k = "snapshot" => UNCHANGED <<doCache, m_stopCallback>>
          /\ k # "snapshot" => doCache' = k /\ m_stopCallback' \in {0, request + 1}
          /\ m_callback' \in {m_callback, TRUE}
      BY <2>1 DEF cacheVars
    <2>4. doCache' \in {"sqlite", "disk"} /\ m_stopCallback' \in 0..MaxRequests
      BY <1>0, <2>2, <2>3 DEF Scalars
    <2>5. alone' \subseteq Request
      BY <1>0, <2>2 DEF Request, Scalars
    <2>6. {stopped', m_callback', told', fault'} \subseteq BOOLEAN
      BY <1>0, <2>2, <2>3 DEF Scalars, sharedVars
    <2>7. n \in 0..Cardinality(Task)
      BY <1>0
    <2>. QED
      BY <1>0, <2>2, <2>4, <2>5, <2>6, <2>7 DEF Scalars, sharedVars
  <1>2. CASE \/ UNCHANGED vars \/ SetLabel \/ ResetCounts \/ \E r \in Request : Cancel(r)
    BY <1>0, <1>2 DEF vars, SetLabel, ResetCounts, Cancel, Scalars, sharedVars, cacheVars,
       taskVars, uiVars, ghostVars
  <1>3. CASE StartPools
    <2>1. tileGeneration' \in 0..MaxRequests
      BY <1>0, <1>3 DEF StartPools, Phase, Scalars
    <2>. QED
      BY <1>0, <1>3, <2>1 DEF StartPools, Scalars, cacheVars, taskVars
  <1>4. CASE QueueTasks
    <2>1. /\ UNCHANGED <<sharedVars, cacheVars, got, cancelled, ghostVars>> /\ points' = 0
          /\ ui' = "idle"
      BY <1>4 DEF QueueTasks
    <2>2. PICK S \in SUBSET Fresh :
          /\ pc' = [u \in Task |-> IF u \in S THEN "queued" ELSE pc[u]]
          /\ req' = [u \in Task |-> IF u \in S THEN request ELSE req[u]]
          /\ gen' = [u \in Task |-> IF u \in S
                       THEN IF kind[request] = "snapshot" THEN tileGeneration ELSE 0
                       ELSE gen[u]]
      BY <1>4, QueueMoves
    <2>3. /\ req' \in [Task -> 0..MaxRequests] /\ gen' \in [Task -> 0..MaxRequests]
          /\ pc' \in [Task -> {"unborn", "queued", "http", "tally", "store", "ask", "send", "check",
                               "fire", "completed"}]
      BY <1>0, <2>2 DEF Scalars
    <2>. QED
      BY <1>0, <2>1, <2>3 DEF Scalars, sharedVars, cacheVars, ghostVars
  <1>5. ASSUME NEW t \in Task, DoTask(t)
        PROVE  Scalars'
    <2>1. UNCHANGED <<tileGeneration, m_totalCount, label, cacheVars, req, gen, uiVars, alone>>
      BY <1>5, TaskMoves
    <2>2. pc' \in [Task -> {"unborn", "queued", "http", "tally", "store", "ask", "send", "check",
                            "fire", "completed"}]
      <3>1. \E l \in {"http", "tally", "store", "ask", "send", "check", "fire", "completed"} :
              pc' = [pc EXCEPT ![t] = l]
        BY <1>5, CountedPlace DEF DoTask, Start, Answer, ReadCount, StoreCount, AskStop, Send,
           CheckComplete, Fire, Goto
      <3>. QED
        BY <1>0, <3>1 DEF Scalars
    <2>3. got' \in [Task -> BOOLEAN]
      <3>1. got' = got \/ \E b \in BOOLEAN : got' = [got EXCEPT ![t] = b]
        BY <1>5 DEF DoTask, Start, Answer, ReadCount, StoreCount, AskStop, Send, CheckComplete, Fire,
           taskVars
      <3>. QED
        BY <1>0, <3>1 DEF Scalars
    <2>4. {stopped', told', fault'} \subseteq BOOLEAN
      <3>1. ~AskStop(t) => UNCHANGED <<stopped, told, fault>>
        BY <1>5 DEF DoTask, Start, Answer, ReadCount, StoreCount, Send, CheckComplete, Fire,
           sharedVars, ghostVars
      <3>2. AskStop(t) => {stopped', told', fault'} \subseteq BOOLEAN
        BY DEF AskStop
      <3>. QED
        BY <1>0, <3>1, <3>2 DEF Scalars
    <2>5. raced' \subseteq Request
      <3>1. raced' \in {raced, raced \cup {req[t]}}
        BY <1>5 DEF DoTask, Start, Answer, ReadCount, StoreCount, AskStop, Send, CheckComplete, Fire,
           ghostVars
      <3>2. req[t] \in Request
        <4>1. pc[t] # "unborn"
          BY <1>5, TaskMoves
        <4>2. req[t] # 0 /\ req[t] \in 0..MaxRequests
          BY <1>0, <4>1 DEF Tasks, Scalars
        <4>. QED
          BY <1>0, <4>2 DEF Request
      <3>. QED
        BY <1>0, <3>1, <3>2 DEF Scalars
    <2>6. late' \in Nat
      <3>1. late' \in {late, late + 1}
        BY <1>5 DEF DoTask, Start, Answer, ReadCount, StoreCount, AskStop, Send, CheckComplete, Fire,
           ghostVars
      <3>. QED
        BY <1>0, <3>1 DEF Scalars
    <2>7. fired' \in [Request -> Nat]
      <3>1. fired' \in {fired, [fired EXCEPT ![label] = @ + 1]}
        BY <1>5, CountMoves DEF Fire
      <3>. QED
        BY <1>0, <3>1 DEF Scalars
    <2>8. sent' \in [Task -> {"none", "sqlite", "disk", "ram"}]
      <3>1. \/ sent' = sent
            \/ \E l \in {doCache, "ram"} : sent' = [sent EXCEPT ![t] = l]
        BY <1>5 DEF DoTask, Start, Answer, ReadCount, StoreCount, AskStop, Send, CheckComplete, Fire,
           ghostVars
      <3>. QED
        BY <1>0, <3>1 DEF Scalars
    <2>. QED
      BY <1>0, <2>1, <2>2, <2>3, <2>4, <2>5, <2>6, <2>7, <2>8 DEF Scalars, cacheVars, uiVars
  <1>. QED
    BY <1>1, <1>2, <1>3, <1>4, <1>5 DEF Next, Load, Begin

LEMMA TypeStep ==
  ASSUME TypeOK, Queued, Tasks, Phase, Alone, Counts, [Next]_vars
  PROVE  TypeOK'
  <1>1. Scalars'
    BY ScalarsStep
  <1>2. m_count' \in 0..Cardinality(Task) /\ tmp' \in [Task -> 0..Cardinality(Task)]
    BY CountsStep
  <1>3. /\ request' \in 0..MaxRequests
        /\ kind' \in [Request -> {"none", "sqlite", "disk", "snapshot"}]
    BY RequestStep DEF TypeOK
  <1>4. ASSUME NEW p \in {0, 1}
        PROVE  /\ queue'[p] \in Seq({t \in Task : pc'[t] = "queued" /\ gen'[t] % 2 = p})
               /\ IsInjective(queue'[p])
    <2>1. /\ queue'[p] \in Seq(Task) /\ IsInjective(queue'[p])
          /\ ToSet(queue'[p]) = {t \in Task : pc'[t] = "queued" /\ gen'[t] % 2 = p}
      BY QueuedStep DEF Queued, Waiting
    <2>. QED
      BY <2>1, SeqOver
  <1>. QED
    BY <1>1, <1>2, <1>3, <1>4 DEF TypeOK, Scalars

-----------------------------------------------------------------------------
(* The theorems.                                                           *)

LEMMA InitIInv == Init => IInv
  <1>. SUFFICES ASSUME Init PROVE IInv
    OBVIOUS
  <1>1. MaxRequests \in Nat /\ Cardinality(Task) \in Nat /\ PoolSize \in Nat
    BY FS_CardinalityType, TilePrefetchAssumption
  <1>2. \A p \in {0, 1} : queue[p] = <<>>
    BY DEF Init
  <1>3. /\ \A S : <<>> \in Seq(S)
        /\ IsInjective(<<>>) /\ ToSet(<<>>) = {}
    BY DEF IsInjective, ToSet
  <1>4. TypeOK
    <2>1. \A p \in {0, 1} : queue[p] \in Seq({t \in Task : pc[t] = "queued" /\ gen[t] % 2 = p})
                            /\ IsInjective(queue[p])
      BY <1>2, <1>3
    <2>2. Scalars
      BY <1>1 DEF Init, Scalars
    <2>3. /\ pc \in [Task -> {"unborn", "queued", "http", "tally", "store", "ask", "send",
                             "check", "fire", "completed"}]
          /\ req \in [Task -> 0..MaxRequests] /\ gen \in [Task -> 0..MaxRequests]
          /\ got \in [Task -> BOOLEAN] /\ tmp \in [Task -> 0..Cardinality(Task)]
          /\ sent \in [Task -> {"none", "sqlite", "disk", "ram"}]
      BY <1>1 DEF Init
    <2>4. /\ kind \in [Request -> {"none", "sqlite", "disk", "snapshot"}]
          /\ fired \in [Request -> Nat]
          /\ m_count \in 0..Cardinality(Task) /\ request \in 0..MaxRequests
      BY <1>1 DEF Init
    <2>. QED
      BY <2>1, <2>2, <2>3, <2>4 DEF TypeOK, Scalars
  <1>5. Queued
    <2>1. \A p \in {0, 1} : Waiting(p) = {}
      BY DEF Init, Waiting
    <2>. QED
      BY <1>2, <1>3, <2>1 DEF Init, Queued
  <1>6. Tasks /\ Phase /\ Alone
    BY <1>1 DEF Init, Tasks, Phase, Alone, Pending, TasksOf, Request
  <1>7. /\ \A p \in {0, 1} : Running(p) = {}
        /\ AllCounted = {} /\ MayCache = {}
    BY DEF Init, Running, Pending, AllCounted, Past, MayCache
  <1>8. Threads /\ Counts /\ Prompt
    BY <1>1, <1>7, FS_EmptySet DEF Init, Threads, Counts, Prompt
  <1>9. Delivered /\ Current /\ CurrentWell /\ Finished
    BY DEF Init, Delivered, Current, CurrentWell, Finished
  <1>. QED
    BY <1>4, <1>5, <1>6, <1>8, <1>9 DEF IInv

LEMMA NextIInv == IInv /\ [Next]_vars => IInv'
  <1>. SUFFICES ASSUME IInv, [Next]_vars PROVE IInv'
    OBVIOUS
  <1>0. /\ TypeOK /\ Queued /\ Tasks /\ Phase /\ Alone /\ Threads /\ Counts
        /\ Prompt /\ Delivered /\ Current /\ CurrentWell /\ Finished
    BY DEF IInv
  <1>1. TypeOK' /\ Queued' /\ Tasks'
    BY <1>0, TypeStep, QueuedStep, TasksStep
  <1>2. Phase' /\ Alone' /\ Threads'
    BY <1>0, PhaseStep, AloneStep, ThreadsStep
  <1>3. Counts' /\ Prompt' /\ Delivered'
    BY <1>0, CountsStep, PromptStep, DeliveredStep
  <1>4. Current'
    BY <1>0, <1>2, CurrentStep
  <1>5. CurrentWell' /\ Finished'
    BY <1>0, CurrentWellStep, FinishedStep
  <1>. QED
    BY <1>1, <1>2, <1>3, <1>4, <1>5 DEF IInv

(* The inductive invariant of the prefetching loader.                      *)
THEOREM Inductive == Spec => []IInv
  BY InitIInv, NextIInv, PTL DEF Spec

(* Every variable keeps its type, and a request that waits is once in the  *)
(* queue of the pool of its generation.                                    *)
THEOREM TypeCorrect == Spec => []TypeOK
  <1>1. IInv => TypeOK
    BY DEF IInv
  <1>. QED
    BY <1>1, Inductive, PTL

(* The event of a request that ran alone comes only after all its tiles    *)
(* are counted (TileLoader.cpp:264), whatever m_count++ loses.             *)
THEOREM EventsAreHonest == Spec => []HonestEvents
  <1>1. ASSUME IInv
        PROVE  HonestEvents
    <2>1. SUFFICES ASSUME NEW r \in alone, fired[r] > 0, NEW t \in TasksOf(r)
                   PROVE  Past(t)
      BY DEF HonestEvents, Past
    <2>2. r \in 1..request /\ r \in Request /\ t \in Task /\ req[t] = r /\ fired[r] \in Nat
      BY <1>1 DEF IInv, Alone, TypeOK, TasksOf
    <2>3. t \in Pending \/ Past(t)
      BY <1>1, <2>2 DEF IInv, Tasks, Pending, Past
    <2>4. CASE t \in Pending
      <3>1. r = request /\ ui = "idle"
        BY <1>1, <2>2, <2>4 DEF IInv, Alone
      <3>2. TasksOf(r) = CountedOf(r)
        BY <1>1, <2>1, <3>1 DEF IInv, Current
      <3>. QED
        BY <2>1, <3>2 DEF CountedOf
    <2>. QED
      BY <2>3, <2>4
  <1>. QED
    BY <1>1, Inductive, PTL

(* A request that ran alone, was not cancelled, had no two tasks at        *)
(* m_count++ at once and is not a prefetch after a snapshot has its event  *)
(* when its tasks are done, at most once per thread (TileLoader.cpp:264).  *)
THEOREM EventIsNotLost == Spec => []EventComes
  <1>1. ASSUME IInv
        PROVE  EventComes
    <2>1. SUFFICES ASSUME NEW r \in alone \ (raced \cup cancelled),
                          TasksOf(r) # {}, \A t \in TasksOf(r) : pc[t] = "completed",
                          kind[r] = "snapshot" \/ \A q \in 1..r : kind[q] # "snapshot"
                   PROVE  fired[r] \in 1..PoolSize
      BY DEF EventComes
    <2>2. /\ r \in 1..request /\ r \in Request /\ request \in Nat
          /\ fired[r] \in Nat /\ PoolSize \in Nat /\ Well(r)
      <3>1. r \in 1..request /\ r \in Request /\ r \in alone
        BY <1>1, <2>1 DEF IInv, Alone, TypeOK
      <3>2. request \in Nat /\ PoolSize \in Nat /\ fired[r] \in Nat
        BY <1>1, <3>1, TilePrefetchAssumption DEF IInv, TypeOK
      <3>3. Well(r)
        BY <2>1 DEF Well
      <3>. QED
        BY <3>1, <3>2, <3>3
    <2>3. CASE r < request
      BY <1>1, <2>2, <2>3 DEF IInv, Finished
    <2>4. CASE r = request
      <3>1. ui = "idle"
        BY <1>1, <2>1, <2>4 DEF IInv, Phase
      <3>2. TasksOf(r) = CountedOf(r) /\ ToFire(r) = {}
        BY <2>1 DEF CountedOf, ToFire, Past
      <3>3. fired[r] + Cardinality(ToFire(r)) <= PoolSize
        BY <1>1, <2>1, <2>4, <3>1, <3>2 DEF IInv, Current
      <3>4. fired[r] > 0
        BY <1>1, <2>1, <2>2, <2>4, <3>1, <3>2 DEF IInv, CurrentWell
      <3>. QED
        BY <2>2, <3>2, <3>3, <3>4, FS_EmptySet
    <2>. QED
      BY <2>2, <2>3, <2>4
  <1>. QED
    BY <1>1, Inductive, PTL

(* A tile received for a request that ran alone goes where the request     *)
(* wanted it, whatever requests come before and after (Tiles.cpp:1699).    *)
THEOREM TilesGoWhereAsked == Spec => []DeliveredAsAsked
  <1>1. IInv => DeliveredAsAsked
    BY DEF IInv, Delivered, DeliveredAsAsked
  <1>. QED
    BY <1>1, Inductive, PTL

(* Once a thread is told to stop (TileLoader.cpp:294), each thread caches  *)
(* at most one more tile until the next request.                           *)
THEOREM StopsPromptly == Spec => []StopIsPrompt
  <1>1. ASSUME IInv
        PROVE  StopIsPrompt
    <2>1. late \in Nat /\ PoolSize \in Nat
      BY <1>1, TilePrefetchAssumption DEF IInv, TypeOK
    <2>2. MayCache \in SUBSET Task
      BY DEF MayCache
    <2>3. Cardinality(MayCache) \in Nat
      BY <2>2, FiniteSets
    <2>. QED
      BY <1>1, <2>1, <2>3 DEF IInv, Prompt, StopIsPrompt
  <1>. QED
    BY <1>1, Inductive, PTL
=============================================================================
