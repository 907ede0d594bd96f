--------------------------- MODULE DiskCacheProofs ---------------------------
(***************************************************************************)
(* TLAPS proofs about the way of a tile to the disk.                       *)
(*                                                                         *)
(* About TileCacher, for any number of tiles, threads and calls of         *)
(* LoadTiles: it keeps the order of the tiles and so implements            *)
(* TileWriter, its queue is never forgotten, and at most one tile is       *)
(* written after it was stopped.                                           *)
(*                                                                         *)
(* About SQLiteCache, for any threads, providers, databases and limits:    *)
(* each row has its own image, what exists is found, the database of the   *)
(* present name is in use, and no connection is missing while a tile is    *)
(* written, with the exceptions the properties name.                       *)
(***************************************************************************)
EXTENDS TileCacher, SQLiteCache, SequenceLemmas, TLAPS

-----------------------------------------------------------------------------
(* TileCacher                                                              *)

(* Where the tile that may be written late is.                             *)
Late == late = 0 \/ (late = 1 /\ stopped /\ cur = NoTile)

(* The inductive invariant.                                                *)
IInv == TypeOK /\ InOrder /\ QueueServed /\ Late

-----------------------------------------------------------------------------
(* Taking the first element of a sequence and appending it to the one      *)
(* before leaves their concatenation alone.                                *)
LEMMA MoveHead ==
  ASSUME NEW s \in Seq(Tile), NEW q \in Seq(Tile), q # <<>>
  PROVE  /\ Head(q) \in Tile /\ Tail(q) \in Seq(Tile)
         /\ Append(s, Head(q)) \in Seq(Tile)
         /\ Append(s, Head(q)) \o Tail(q) = s \o q
  <1>1. Head(q) \in Tile /\ Tail(q) \in Seq(Tile) /\ <<Head(q)>> \in Seq(Tile)
    BY HeadTailProperties
  <1>2. Append(s, Head(q)) = s \o <<Head(q)>> /\ Append(s, Head(q)) \in Seq(Tile)
    BY <1>1, AppendIsConcat, AppendProperties
  <1>3. Append(s, Head(q)) \o Tail(q) = s \o (<<Head(q)>> \o Tail(q))
    BY <1>1, <1>2, ConcatAssociative
  <1>4. q = <<Head(q)>> \o Tail(q)
    <2>1. /\ Len(Tail(q)) = Len(q) - 1 /\ Len(q) \in Nat \ {0}
          /\ \A i \in 1..Len(Tail(q)) : Tail(q)[i] = q[i + 1]
      BY HeadTailProperties, EmptySeq, LenProperties
    <2>2. /\ <<Head(q)>> \o Tail(q) \in Seq(Tile)
          /\ Len(<<Head(q)>> \o Tail(q)) = 1 + Len(Tail(q))
          /\ \A i \in 1..(1 + Len(Tail(q))) :
               (<<Head(q)>> \o Tail(q))[i] =
                 IF i <= 1 THEN <<Head(q)>>[i] ELSE Tail(q)[i - 1]
      BY <1>1, ConcatProperties
    <2>3. \A i \in 1..Len(q) : (<<Head(q)>> \o Tail(q))[i] = q[i]
      <3> TAKE i \in 1..Len(q)
      <3>1. CASE i = 1
        BY <2>1, <2>2, <3>1
      <3>2. CASE i # 1
        <4>1. i - 1 \in 1..Len(Tail(q)) /\ i \in 1..(1 + Len(Tail(q))) /\ ~(i <= 1)
          BY <2>1, <3>2
        <4>2. Tail(q)[i - 1] = q[(i - 1) + 1] /\ (i - 1) + 1 = i
          BY <2>1, <4>1
        <4>. QED
          BY <2>2, <4>1, <4>2
      <3>. QED
        BY <3>1, <3>2
    <2>. QED
      BY <2>1, <2>2, <2>3, SeqEqual
  <1>. QED
    BY <1>1, <1>2, <1>3, <1>4

(* The sequences the order of the tiles is stated about.                   *)
LEMMA Parts ==
  ASSUME TypeOK
  PROVE  /\ Running \in Seq(Tile) /\ handled \in Seq(Tile)
         /\ requests \in Seq(Tile) /\ queue \in Seq(Tile)
         /\ handled \o Running \in Seq(Tile)
         /\ handled \o Running \o requests \in Seq(Tile)
         /\ handled \o Running \o requests \o queue \in Seq(Tile)
  <1>1. Running \in Seq(Tile)
    BY EmptySeq DEF TypeOK, Running
  <1>2. /\ handled \in Seq(Tile) /\ requests \in Seq(Tile) /\ queue \in Seq(Tile)
    BY DEF TypeOK
  <1>. QED
    BY <1>1, <1>2, ConcatProperties

-----------------------------------------------------------------------------
(* A step of the cacher that leaves the order of the tiles alone.          *)
LEMMA SameOrder ==
  ASSUME InOrder, UNCHANGED <<accepted, handled, cur, requests, queue>>
  PROVE  InOrder'
  BY DEF InOrder, Running

LEMMA EnqueueOrder ==
  ASSUME TypeOK, InOrder, NEW t \in Tile, Enqueue(t),
         UNCHANGED <<handled, cur, requests>>
  PROVE  InOrder'
  <1>1. /\ queue' = Append(queue, t) /\ accepted' = Append(accepted, t)
        /\ Running' = Running
    BY DEF Enqueue, Running
  <1> DEFINE before == handled \o Running \o requests
  <1>2. before \in Seq(Tile) /\ queue \in Seq(Tile) /\ before \o queue \in Seq(Tile)
    BY Parts
  <1>3. <<t>> \in Seq(Tile) /\ Append(queue, t) = queue \o <<t>>
    BY <1>2, AppendIsConcat, AppendProperties, EmptySeq
  <1>4. Append(before \o queue, t) = (before \o queue) \o <<t>>
    BY <1>2, AppendIsConcat
  <1>5. accepted = before \o queue
    BY DEF InOrder
  <1>6. (before \o queue) \o <<t>> = before \o (queue \o <<t>>)
    <2> HIDE DEF before
    <2>. QED
      BY <1>2, <1>3, ConcatAssociative
  <1>. QED
    BY <1>1, <1>3, <1>4, <1>5, <1>6 DEF InOrder

LEMMA PostOrder ==
  ASSUME TypeOK, InOrder, queue # <<>>, queue' = Tail(queue),
         requests' = Append(requests, Head(queue)), UNCHANGED <<accepted, handled, cur>>
  PROVE  InOrder'
  <1> DEFINE before == handled \o Running
  <1>1. /\ before \in Seq(Tile) /\ requests \in Seq(Tile) /\ queue \in Seq(Tile)
    BY Parts
  <1>2. /\ requests' \in Seq(Tile) /\ queue' \in Seq(Tile)
        /\ requests' \o queue' = requests \o queue
    BY <1>1, MoveHead
  <1>3. before \o requests \o queue = before \o (requests \o queue)
    BY <1>1, ConcatAssociative
  <1>4. before \o requests' \o queue' = before \o (requests' \o queue')
    <2>1. before \in Seq(Tile) /\ requests' \in Seq(Tile) /\ queue' \in Seq(Tile)
      BY <1>1, <1>2
    <2> HIDE DEF before
    <2>. QED
      BY ONLY <2>1, ConcatAssociative
  <1>. QED
    BY <1>2, <1>3, <1>4 DEF InOrder, Running

(* The next request is taken and becomes the current tile or is dropped.   *)
LEMMA TakeOrder ==
  ASSUME TypeOK, InOrder, Take
  PROVE  InOrder'
  <1>1. cur = NoTile /\ requests # <<>> /\ requests' = Tail(requests)
        /\ UNCHANGED <<accepted, queue>>
    BY DEF Take, TypeOK
  <1>2. Running = <<>>
    BY <1>1 DEF Running
  <1>3. /\ handled \in Seq(Tile) /\ requests \in Seq(Tile) /\ queue \in Seq(Tile)
    BY Parts
  <1>4. /\ Head(requests) \in Tile /\ Tail(requests) \in Seq(Tile)
        /\ Append(handled, Head(requests)) \in Seq(Tile)
        /\ Append(handled, Head(requests)) \o Tail(requests) = handled \o requests
    BY <1>1, <1>3, MoveHead
  <1>5. accepted = handled \o requests \o queue
    BY <1>2, <1>3, ConcatEmptySeq DEF InOrder
  <1>6. CASE stopped
    <2>1. handled' = Append(handled, Head(requests)) /\ Running' = <<>>
      BY <1>1, <1>6 DEF Take, Running
    <2>2. handled' \o Running' = handled'
      BY <1>4, <2>1, ConcatEmptySeq
    <2>. QED
      BY <1>1, <1>4, <1>5, <2>1, <2>2 DEF InOrder
  <1>7. CASE ~stopped
    <2>1. handled' = handled /\ Running' = <<Head(requests)>>
      BY <1>4, <1>7, TileCacherAssumption DEF Take, Running
    <2>2. handled' \o Running' = Append(handled, Head(requests))
      BY <1>3, <1>4, <2>1, AppendIsConcat
    <2>. QED
      BY <1>1, <1>4, <1>5, <2>2 DEF InOrder
  <1>. QED
    BY <1>6, <1>7

LEMMA DoTaskOrder ==
  ASSUME TypeOK, InOrder, DoTask
  PROVE  InOrder'
  <1>1. /\ cur \in Tile /\ Running = <<cur>> /\ handled' = Append(handled, cur)
        /\ Running' = <<>> /\ UNCHANGED <<accepted, requests, queue>>
    BY DEF DoTask, TypeOK, Running
  <1>2. handled \in Seq(Tile) /\ handled' \in Seq(Tile)
    BY <1>1, AppendProperties DEF TypeOK
  <1>3. handled' \o Running' = handled \o Running
    BY <1>1, <1>2, AppendIsConcat, ConcatEmptySeq
  <1>. QED
    BY <1>1, <1>3 DEF InOrder

-----------------------------------------------------------------------------
LEMMA InitIInv == Init => IInv
  <1> SUFFICES ASSUME Init PROVE IInv
    OBVIOUS
  <1>1. TypeOK
    <2>1. <<>> \in Seq(Tile)
      BY EmptySeq
    <2>2. at \in [Actor -> {"idle"}] /\ "cacher" \in Actor
      BY DEF Init, Actor
    <2>3. /\ at \in [Actor -> {"idle", "run", "post", "write", "load", "gone"}]
          /\ at["cacher"] # "write"
      BY <2>2
    <2>4. {stopped, m_locked, m_conn, doDiskCaching, neglected} \subseteq BOOLEAN
      BY DEF Init
    <2>5. loads \in 0..MaxLoads /\ late \in Nat
      BY TileCacherAssumption DEF Init
    <2>6. cur = NoTile /\ ref \subseteq Tile /\ written \subseteq Tile
      BY DEF Init
    <2>7. queue = <<>> /\ requests = <<>> /\ accepted = <<>> /\ handled = <<>>
      BY DEF Init
    <2>. QED
      BY <2>1, <2>3, <2>4, <2>5, <2>6, <2>7 DEF TypeOK
  <1>2. InOrder
    <2>1. <<>> \o <<>> = <<>>
      BY EmptySeq, ConcatEmptySeq
    <2>. QED
      BY <2>1 DEF Init, InOrder, Running
  <1>3. QueueServed /\ Late
    BY DEF Init, QueueServed, Late
  <1>. QED
    BY <1>1, <1>2, <1>3 DEF IInv

LEMMA EnqueueType ==
  ASSUME TypeOK, NEW t \in Tile, Enqueue(t)
  PROVE  queue' \in Seq(Tile) /\ accepted' \in Seq(Tile) /\ ref' \subseteq Tile
  BY AppendProperties DEF TypeOK, Enqueue

LEMMA NextIInv == IInv /\ [Next]_vars => IInv'
  <1> SUFFICES ASSUME IInv, [Next]_vars PROVE IInv'
    OBVIOUS
  <1> USE DEF IInv
  <1>0. "ui" \in Actor /\ "cacher" \in Actor /\ Loader \subseteq Actor
    BY DEF Actor
  <1>1. ASSUME NEW l \in Loader, NEW t \in Tile, AddTileWithCaching(l, t) PROVE IInv'
    <2> USE <1>0, <1>1 DEF AddTileWithCaching, Goto, tilesVars, doneVars
    <2>1. TypeOK'
      BY EnqueueType, TileCacherAssumption DEF TypeOK
    <2>2. InOrder'
      BY EnqueueOrder
    <2>3. QueueServed'
      BY DEF QueueServed, TypeOK
    <2>4. Late'
      BY DEF Late
    <2>. QED
      BY <2>1, <2>2, <2>3, <2>4
  <1>2. ASSUME NEW l \in Loader, NEW t \in Tile, AddTileOnlyCaching(l, t) PROVE IInv'
    <2> USE <1>0, <1>2 DEF AddTileOnlyCaching, tilesVars, doneVars
    <2>1. TypeOK'
      BY EnqueueType DEF TypeOK
    <2>2. InOrder'
      BY EnqueueOrder
    <2>3. QueueServed'
      BY DEF QueueServed
    <2>4. Late'
      BY DEF Late
    <2>. QED
      BY <2>1, <2>2, <2>3, <2>4
  <1>3. ASSUME NEW a \in Actor, Run(a) PROVE IInv'
    <2> USE <1>0, <1>3 DEF Run, Goto, cacherVars, tilesVars, doneVars
    <2>1. TypeOK'
      BY DEF TypeOK
    <2>2. InOrder'
      BY SameOrder
    <2>3. QueueServed'
      BY DEF QueueServed, TypeOK
    <2>4. Late'
      BY DEF Late
    <2>. QED
      BY <2>1, <2>2, <2>3, <2>4
  <1>4. ASSUME NEW a \in Actor, Post(a) PROVE IInv'
    <2> USE <1>0, <1>4 DEF Post, Goto, tilesVars, doneVars
    <2>1. TypeOK'
      <3>1. queue' \in Seq(Tile) /\ requests' \in Seq(Tile)
        BY MoveHead DEF TypeOK
      <3>. QED
        BY <3>1 DEF TypeOK
    <2>2. InOrder'
      BY PostOrder, SameOrder
    <2>3. QueueServed'
      <3>1. CASE queue = <<>>
        BY <3>1 DEF QueueServed
      <3>2. CASE queue # <<>>
        <4>1. requests' # <<>>
          BY <3>2, MoveHead, AppendProperties DEF TypeOK
        <4>. QED
          BY <4>1 DEF QueueServed
      <3>. QED
        BY <3>1, <3>2
    <2>4. Late'
      BY DEF Late
    <2>. QED
      BY <2>1, <2>2, <2>3, <2>4
  <1>5. CASE Take
    <2> USE <1>0, <1>5 DEF Take, Goto, tilesVars
    <2>1. TypeOK'
      <3>1. /\ Head(requests) \in Tile /\ requests' \in Seq(Tile)
            /\ Append(handled, Head(requests)) \in Seq(Tile)
        BY MoveHead DEF TypeOK
      <3>. QED
        BY <3>1, TileCacherAssumption DEF TypeOK
    <2>2. InOrder'
      BY TakeOrder
    <2>3. QueueServed'
      BY MoveHead, TileCacherAssumption DEF QueueServed, TypeOK
    <2>4. Late'
      BY DEF Late, TypeOK
    <2>. QED
      BY <2>1, <2>2, <2>3, <2>4
  <1>6. CASE DoTask
    <2> USE <1>0, <1>6 DEF DoTask, Goto, tilesVars
    <2>1. TypeOK'
      <3>1. cur \in Tile /\ Append(handled, cur) \in Seq(Tile)
        BY AppendProperties DEF TypeOK
      <3>. QED
        BY <3>1 DEF TypeOK
    <2>2. InOrder'
      BY DoTaskOrder
    <2>3. QueueServed'
      BY DEF QueueServed, TypeOK
    <2>4. Late'
      BY DEF Late, TypeOK
    <2>. QED
      BY <2>1, <2>2, <2>3, <2>4
  <1>7. ASSUME NEW b \in BOOLEAN, TilesLoaded(b) PROVE IInv'
    <2> USE <1>0, <1>7 DEF TilesLoaded, Goto, cacherVars, doneVars
    <2>1. TypeOK'
      BY DEF TypeOK
    <2>2. InOrder'
      BY SameOrder
    <2>3. QueueServed'
      BY DEF QueueServed, TypeOK
    <2>4. Late'
      BY DEF Late
    <2>. QED
      BY <2>1, <2>2, <2>3, <2>4
  <1>8. CASE put_DoCaching \/ LoadTiles \/ StopCaching
    <2> USE <1>0, <1>8 DEF put_DoCaching, LoadTiles, StopCaching, Goto, cacherVars, tilesVars, doneVars
    <2>1. TypeOK'
      <3>1. loads' \in 0..MaxLoads
        BY TileCacherAssumption DEF TypeOK
      <3>2. at' \in [Actor -> {"idle", "run", "post", "write", "load", "gone"}] /\ at'["cacher"] = at["cacher"]
        BY DEF TypeOK
      <3>3. doDiskCaching' \in BOOLEAN /\ m_conn' \in BOOLEAN /\ m_locked' \in BOOLEAN /\ stopped' \in BOOLEAN
        BY DEF TypeOK
      <3>. QED
        BY <3>1, <3>2, <3>3 DEF TypeOK
    <2>2. InOrder'
      BY SameOrder
    <2>3. QueueServed'
      BY DEF QueueServed, TypeOK
    <2>4. Late'
      BY DEF Late
    <2>. QED
      BY <2>1, <2>2, <2>3, <2>4
  <1>9. CASE UNCHANGED vars
    BY <1>9, SameOrder DEF vars, cacherVars, tilesVars, doneVars, TypeOK, QueueServed, Late, Running
  <1>. QED
    BY <1>0, <1>1, <1>2, <1>3, <1>4, <1>5, <1>6, <1>7, <1>8, <1>9 DEF Next, Cache, Serve

THEOREM Invariance == Spec => []IInv
  BY InitIInv, NextIInv, PTL DEF Spec

-----------------------------------------------------------------------------
(* Type correctness of the cacher.                                         *)
THEOREM TypeCorrect == Spec => []TypeOK
  BY Invariance, PTL DEF IInv

(* The tiles that were accepted are, in this order, those that are done,   *)
(* running, waiting in the pool and waiting in the queue.                  *)
THEOREM TilesStayInOrder == Spec => []InOrder
  BY Invariance, PTL DEF IInv

(* A queue that nobody will look at was left without a call of Run.        *)
THEOREM QueueIsServed == Spec => []QueueServed
  BY Invariance, PTL DEF IInv

(* At most one tile is written after TileLoader::Stop set the flag.        *)
THEOREM OneTileIsLate == Spec => []OneLateWrite
  <1>1. IInv => OneLateWrite
    BY DEF IInv, Late, OneLateWrite
  <1>. QED
    BY <1>1, Invariance, PTL

-----------------------------------------------------------------------------
(* The tile that follows the handled ones is the first of those behind.    *)
LEMMA NextInOrder ==
  ASSUME NEW h \in Seq(Tile), NEW r \in Seq(Tile), r # <<>>
  PROVE  /\ Len(h) < Len(h \o r)
         /\ (h \o r)[Len(h) + 1] = Head(r)
  <1>1. Len(h) \in Nat /\ Len(r) \in Nat \ {0} /\ Head(r) = r[1]
    BY LenProperties, EmptySeq, HeadTailProperties
  <1>2. /\ Len(h \o r) = Len(h) + Len(r)
        /\ \A i \in 1..(Len(h) + Len(r)) :
             (h \o r)[i] = IF i <= Len(h) THEN h[i] ELSE r[i - Len(h)]
    BY ConcatProperties
  <1>3. Len(h) + 1 \in 1..(Len(h) + Len(r)) /\ (Len(h) + 1) - Len(h) = 1 /\ ~(Len(h) + 1 <= Len(h))
    BY <1>1
  <1>. QED
    BY <1>1, <1>2, <1>3

(* Handling the current tile, or the first request if none is running.     *)
LEMMA NextTile ==
  ASSUME TypeOK, InOrder
  PROVE  /\ cur # NoTile => /\ Len(handled) < Len(accepted)
                            /\ accepted[Len(handled) + 1] = cur
         /\ cur = NoTile /\ requests # <<>> =>
              /\ Len(handled) < Len(accepted)
              /\ accepted[Len(handled) + 1] = Head(requests)
  <1>1. /\ handled \in Seq(Tile) /\ Running \in Seq(Tile)
        /\ requests \in Seq(Tile) /\ queue \in Seq(Tile)
    BY Parts
  <1> DEFINE rest == Running \o (requests \o queue)
  <1>2. requests \o queue \in Seq(Tile) /\ rest \in Seq(Tile)
    BY <1>1, ConcatProperties
  <1>3. accepted = handled \o rest
    <2>1. (handled \o Running) \o requests \o queue = (handled \o Running) \o (requests \o queue)
      BY <1>1, ConcatProperties, ConcatAssociative
    <2>2. (handled \o Running) \o (requests \o queue) = handled \o rest
      BY <1>1, <1>2, ConcatAssociative
    <2>. QED
      BY <2>1, <2>2 DEF InOrder
  <1>4. ASSUME NEW s \in Seq(Tile), s # <<>>, NEW q \in Seq(Tile)
        PROVE  s \o q # <<>> /\ Head(s \o q) = Head(s)
    <2>1. /\ Len(s) \in Nat \ {0} /\ Len(q) \in Nat
      BY <1>4, LenProperties, EmptySeq
    <2>2. /\ s \o q \in Seq(Tile) /\ Len(s \o q) = Len(s) + Len(q)
          /\ (s \o q)[1] = s[1]
      BY <1>4, <2>1, ConcatProperties
    <2>3. s \o q # <<>>
      BY <2>1, <2>2, EmptySeq
    <2>. QED
      BY <1>4, <2>2, <2>3, HeadTailProperties
  <1>5. CASE cur # NoTile
    <2>1. Running = <<cur>> /\ Running # <<>> /\ Head(Running) = cur
      BY <1>5 DEF Running
    <2>2. rest # <<>> /\ Head(rest) = cur
      BY <1>1, <1>2, <1>4, <2>1
    <2>. QED
      BY <1>1, <1>2, <1>3, <1>5, <2>2, NextInOrder
  <1>6. CASE cur = NoTile /\ requests # <<>>
    <2>1. rest = requests \o queue
      BY <1>1, <1>2, <1>6, ConcatEmptySeq DEF Running
    <2>2. rest # <<>> /\ Head(rest) = Head(requests)
      BY <1>1, <1>4, <1>6, <2>1
    <2>. QED
      BY <1>1, <1>2, <1>3, <1>6, <2>2, NextInOrder
  <1>. QED
    BY <1>5, <1>6

LEMMA InitWriter == Init => Writer!Init
  BY DEF Init, Writer!Init

LEMMA NextWriter == IInv /\ [Next]_vars => [Writer!Next]_(Writer!vars)
  <1> SUFFICES ASSUME IInv, [Next]_vars PROVE [Writer!Next]_(Writer!vars)
    OBVIOUS
  <1> USE DEF IInv, Writer!vars
  <1>1. ASSUME NEW t \in Tile, Enqueue(t), UNCHANGED doneVars
        PROVE  Writer!Next
    <2>1. DOMAIN accepted = 1..Len(accepted)
      BY LenProperties DEF TypeOK
    <2>. QED
      BY <1>1, <2>1 DEF Enqueue, Fresh, doneVars, Writer!Next, Writer!Accept
  <1>2. CASE Take
    <2>1. CASE stopped
      <3>1. cur = NoTile /\ requests # <<>>
        BY <1>2 DEF Take, TypeOK
      <3>. QED
        BY <1>2, <2>1, <3>1, NextTile DEF Take, Writer!Next, Writer!Handle
    <2>2. CASE ~stopped
      BY <1>2, <2>2 DEF Take
    <2>. QED
      BY <2>1, <2>2
  <1>3. CASE DoTask
    <2>1. cur # NoTile
      BY <1>3 DEF DoTask, TypeOK
    <2>. QED
      BY <1>3, <2>1, NextTile DEF DoTask, Writer!Next, Writer!Handle
  <1>4. ASSUME NEW a \in Actor, Run(a) \/ Post(a)
        PROVE  UNCHANGED Writer!vars
    BY <1>4 DEF Run, Post, doneVars
  <1>5. CASE (\E b \in BOOLEAN : TilesLoaded(b)) \/ put_DoCaching \/ LoadTiles \/ StopCaching
    BY <1>5 DEF TilesLoaded, put_DoCaching, LoadTiles, StopCaching, doneVars
  <1>6. CASE UNCHANGED vars
    BY <1>6 DEF vars, doneVars
  <1>7. "ui" \in Actor /\ "cacher" \in Actor /\ Loader \subseteq Actor
    BY DEF Actor
  <1>. QED
    BY <1>1, <1>2, <1>3, <1>4, <1>5, <1>6, <1>7
       DEF Next, Cache, Serve, AddTileWithCaching, AddTileOnlyCaching

(* The cacher, with its queue, pool, lock and threads, implements the      *)
(* writer that handles tiles in the order it accepts them.                 *)
THEOREM CacherImplementsWriter == Spec => ImplementsWriter
  BY InitWriter, NextWriter, Invariance, PTL DEF Spec, ImplementsWriter, Writer!Spec

-----------------------------------------------------------------------------
(* SQLiteCache                                                             *)

(* No statement has failed, and no tile was written while the database was *)
(* renamed.                                                                *)
Undisturbed == lapses \cap {"failed", "renamed"} = {}

Writes(t) == work[t].at = "image"

(* A thread that is between the statements for a piece has the lock, and,  *)
(* unless renamed, the connection with which it began.                     *)
Locked ==
  \A t \in Thread : Writes(t) =>
    /\ section = t
    /\ "renamed" \notin lapses => Connected

(* Ids are bounded, so that there is a new one, and unique.                *)
Numbered(rows) ==
  /\ \E m \in Nat : \A row \in rows : row.id <= m
  /\ \A x, y \in rows : x.id = y.id => x = y

(* The rows of the database f but for the one whose image is to follow.    *)
Finished(f) ==
  {row \in db[f].rows : ~ \E t \in Thread : Writes(t) /\ conn.file = f /\ row.id = conn.last}

Pairing ==
  Undisturbed =>
    /\ \A f \in File : db[f] # NULL => db[f].data = {ImageOf(row) : row \in Finished(f)}
    /\ \A t \in Thread : Writes(t) =>
         \E row \in db[conn.file].rows : row.id = conn.last /\ row.type = Piece(t)

(* The database in use.                                                    *)
InUse ==
  /\ renaming # "close" /\ Connected => conn.file = dbName
  /\ renaming = "no" /\ db[dbName] # NULL /\ ~openNeeded /\ "late" \notin lapses => conn # NULL

DbIInv ==
  /\ DbTypeOK /\ Locked /\ Pairing /\ InUse /\ CrashesOnlyRenamed
  /\ \A f \in File : db[f] # NULL => Numbered(db[f].rows)

-----------------------------------------------------------------------------
(* Ids                                                                     *)

(* A bounded set of numbers has a largest one.                             *)
LEMMA LargestOf ==
  ASSUME NEW T, T \subseteq Nat, T # {}, NEW m \in Nat, \A x \in T : x <= m
  PROVE  \E x \in T : \A y \in T : y <= x
  <1>. DEFINE D == {m - x : x \in T}
  <1>1. D \subseteq Nat /\ D # {}
    <2>1. ASSUME NEW x \in T
          PROVE  m - x \in Nat
      <3>1. x \in Nat /\ x <= m
        OBVIOUS
      <3>. QED
        BY <3>1
    <2>. QED
      BY <2>1
  <1>2. PICK d \in D : \A e \in D : d <= e
    <2>. HIDE DEF D
    <2>. QED
      BY <1>1, LeastOf
  <1>3. PICK x \in T : d = m - x
    BY <1>2
  <1>4. ASSUME NEW y \in T
        PROVE  y <= x
    <2>1. m - x <= m - y
      BY <1>2, <1>3
    <2>. QED
      BY <2>1
  <1>. QED
    BY <1>4

(* The id of a new row is larger than all.                                 *)
LEMMA NewIdIsNew ==
  ASSUME NEW rows \in SUBSET Row, Numbered(rows)
  PROVE  NewId(rows) \in Nat /\ \A row \in rows : row.id < NewId(rows)
  <1>1. Ids(rows) \subseteq Nat /\ \A row \in rows : row.id \in Ids(rows) /\ row.id \in Nat
    BY DEF Ids, Row
  <1>2. CASE rows = {}
    BY <1>2 DEF NewId
  <1>3. CASE rows # {}
    <2>1. \E x \in Ids(rows) : \A y \in Ids(rows) : y <= x
      <3>1. PICK m \in Nat : \A row \in rows : row.id <= m
        BY DEF Numbered
      <3>2. Ids(rows) # {} /\ \A x \in Ids(rows) : x <= m
        BY <1>3, <3>1 DEF Ids
      <3>. QED
        BY <1>1, <3>2, LargestOf
    <2>. DEFINE m == CHOOSE m \in Ids(rows) : \A i \in Ids(rows) : i <= m
    <2>2. m \in Ids(rows) /\ \A i \in Ids(rows) : i <= m
      BY <2>1
    <2>3. NewId(rows) = 1 + m
      BY <1>3 DEF NewId
    <2>. HIDE DEF m
    <2>. QED
      BY <1>1, <2>2, <2>3
  <1>. QED
    BY <1>2, <1>3

(* The row a query finds first is one of them.                             *)
LEMMA FirstIsOne ==
  ASSUME NEW rows \in SUBSET Row, rows # {}
  PROVE  (CHOOSE row \in rows : \A other \in rows : row.id <= other.id) \in rows
  <1>1. Ids(rows) \subseteq Nat /\ Ids(rows) # {}
    BY DEF Ids, Row
  <1>2. PICK i \in Ids(rows) : \A j \in Ids(rows) : i <= j
    BY <1>1, LeastOf
  <1>3. \E row \in rows : \A other \in rows : row.id <= other.id
    BY <1>2 DEF Ids
  <1>. QED
    BY <1>3

(* Rows that are left keep their numbers.                                  *)
LEMMA FewerRows ==
  ASSUME NEW rows, Numbered(rows), NEW gone
  PROVE  Numbered(rows \ gone)
  BY DEF Numbered

LEMMA OneMoreRow ==
  ASSUME NEW rows \in SUBSET Row, Numbered(rows), NEW row \in Row, row.id = NewId(rows)
  PROVE  Numbered(rows \cup {row})
  <1>1. NewId(rows) \in Nat /\ \A x \in rows : x.id < NewId(rows) /\ x.id \in Nat
    BY NewIdIsNew DEF Row
  <1>2. \A x \in rows \cup {row} : x.id <= NewId(rows)
    BY <1>1
  <1>3. ASSUME NEW x \in rows \cup {row}, NEW y \in rows \cup {row}, x.id = y.id
        PROVE  x = y
    BY <1>1, <1>3 DEF Numbered
  <1>. QED
    BY <1>1, <1>2, <1>3 DEF Numbered

-----------------------------------------------------------------------------
(* Parts of steps                                                          *)

LEMMA PiecesOf ==
  ASSUME NEW p \in Provider
  PROVE  /\ Len(Pieces[p]) \in Nat /\ DOMAIN Pieces[p] = 1..Len(Pieces[p])
         /\ 1 \in DOMAIN Pieces[p]
         /\ \A i \in DOMAIN Pieces[p] : Pieces[p][i] \in Provider
  <1>1. Pieces[p] \in Seq(Provider) /\ p \in ToSet(Pieces[p])
    BY SQLiteCacheAssumption
  <1>2. /\ Len(Pieces[p]) \in Nat /\ DOMAIN Pieces[p] = 1..Len(Pieces[p])
        /\ \A i \in 1..Len(Pieces[p]) : Pieces[p][i] \in Provider
    BY <1>1, LenProperties, ElementOfSeq
  <1>3. 1 \in DOMAIN Pieces[p]
    <2>1. PICK i \in DOMAIN Pieces[p] : TRUE
      BY <1>1 DEF ToSet
    <2>. QED
      BY <1>2, <2>1
  <1>. QED
    BY <1>2, <1>3

(* A tile in work.                                                         *)
LEMMA AtWork ==
  ASSUME DbTypeOK, NEW t \in Thread, work[t] # Idle
  PROVE  /\ work[t] \in Job /\ work[t].tile \in Provider
         /\ work[t].piece \in DOMAIN Pieces[work[t].tile] /\ work[t].piece \in Nat
         /\ Piece(t) \in Provider
  <1>1. /\ work[t] \in Job /\ work[t].tile \in Provider /\ work[t].piece \in Nat
        /\ work[t].piece \in DOMAIN Pieces[work[t].tile]
    BY DEF DbTypeOK, Job
  <1>. QED
    BY <1>1, PiecesOf DEF Piece

(* Without the lock, nobody is between two statements.                     *)
LEMMA Unlocked ==
  ASSUME DbTypeOK, Locked, NEW t \in Thread, section = NULL \/ section = t
  PROVE  /\ \A u \in Thread : Writes(u) => u = t
         /\ section = NULL => \A u \in Thread : ~Writes(u)
  BY SQLiteCacheAssumption DEF Locked

(* New databases are empty, all others as they were.                       *)
OnlyNew == \A f \in File : db'[f] = db[f] \/ (db[f] = NULL /\ db'[f] = Empty)

LEMMA EmptyIsTable == Empty \in Table /\ Empty # NULL /\ Numbered(Empty.rows)
  <1>1. Empty \in Table
    BY DEF Empty, Table
  <1>2. Numbered({})
    BY DEF Numbered
  <1>. QED
    BY <1>1, <1>2, SQLiteCacheAssumption DEF Empty

LEMMA Created ==
  ASSUME DbTypeOK, CreateDatabase
  PROVE  /\ OnlyNew /\ db' \in [File -> Table \cup {NULL}]
         /\ \A f \in File : db[f] # NULL => db'[f] # NULL
         /\ \/ conn' = Broken
            \/ conn' \in Connection /\ conn'.file = dbName /\ db'[dbName] # NULL
         /\ conn' \in Connection \cup {Broken} /\ conn' # NULL
  <1>. USE EmptyIsTable, SQLiteCacheAssumption DEF DbTypeOK
  <1>1. CASE conn' = Broken /\ UNCHANGED db
    BY <1>1 DEF OnlyNew
  <1>2. CASE /\ conn' = [file |-> dbName, last |-> 0]
             /\ db' = [db EXCEPT ![dbName] = IF @ = NULL THEN Empty ELSE @]
    <2>1. conn' \in Connection /\ conn'.file = dbName
      BY <1>2 DEF Connection
    <2>2. \A f \in File : db'[f] = IF f = dbName /\ db[f] = NULL THEN Empty ELSE db[f]
      BY <1>2
    <2>3. db' \in [File -> Table \cup {NULL}]
      BY <1>2
    <2>. QED
      BY <2>1, <2>2, <2>3 DEF OnlyNew
  <1>. QED
    BY <1>1, <1>2 DEF CreateDatabase

(* Initialize, in either mode.                                             *)
Opens == OpenIfExists \/ (OpenOrCreate /\ UNCHANGED openNeeded)

LEMMA Opened ==
  ASSUME DbTypeOK, InUse, Opens, UNCHANGED <<dbName, renaming, lapses>>
  PROVE  /\ OnlyNew /\ db' \in [File -> Table \cup {NULL}]
         /\ conn' \in Connection \cup {NULL, Broken} /\ (Connected' => db'[conn'.file] # NULL)
         /\ openNeeded' \in BOOLEAN
         /\ InUse'
  <1>1. CASE CreateDatabase
    <2>1. openNeeded' \in BOOLEAN
      BY <1>1 DEF Opens, OpenIfExists, DbTypeOK
    <2>. QED
      BY <1>1, <2>1, Created DEF InUse, Connected
  <1>2. CASE UNCHANGED <<conn, db>>
    <2>1. openNeeded' \in BOOLEAN
      BY DEF Opens, OpenIfExists, DbTypeOK
    <2>2. OnlyNew /\ (Connected' <=> Connected)
      BY <1>2 DEF OnlyNew, Connected
    <2>3. CASE openNeeded' = openNeeded
      BY <1>2, <2>1, <2>2, <2>3 DEF InUse, DbTypeOK
    <2>4. CASE OpenIfExists
      <3>1. CASE openNeeded /\ db[dbName] # NULL
        BY <1>1, <2>4, <3>1 DEF OpenIfExists
      <3>2. CASE openNeeded /\ db[dbName] = NULL
        BY <1>2, <2>1, <2>2, <3>2 DEF InUse, DbTypeOK
      <3>3. CASE ~openNeeded
        BY <1>2, <2>1, <2>2, <2>4, <3>3 DEF InUse, DbTypeOK, OpenIfExists
      <3>. QED
        BY <3>1, <3>2, <3>3
    <2>. QED
      BY <2>3, <2>4 DEF Opens
  <1>. QED
    BY <1>1, <1>2 DEF Opens, OpenIfExists, OpenOrCreate

(* A step that writes to no database, while nobody writes.                 *)
LEMMA TablesStay ==
  ASSUME DbIInv, OnlyNew, \A u \in Thread : ~Writes(u), \A u \in Thread : ~Writes(u)',
         lapses \subseteq lapses'
  PROVE  /\ Pairing'
         /\ \A f \in File : db'[f] # NULL => Numbered(db'[f].rows)
  <1>1. ASSUME NEW f \in File, db'[f] # NULL
        PROVE  Numbered(db'[f].rows)
    BY <1>1, EmptyIsTable DEF DbIInv, OnlyNew
  <1>2. ASSUME Undisturbed', NEW f \in File, db'[f] # NULL
        PROVE  db'[f].data = {ImageOf(row) : row \in Finished(f)'}
    <2>1. Finished(f)' = db'[f].rows
      BY DEF Finished
    <2>2. CASE db'[f] = db[f]
      <3>1. Finished(f) = db[f].rows /\ Undisturbed
        BY <1>2 DEF Finished, Undisturbed
      <3>2. db[f].data = {ImageOf(row) : row \in Finished(f)}
        BY <1>2, <2>2, <3>1 DEF DbIInv, Pairing
      <3>. QED
        BY <2>1, <2>2, <3>1, <3>2 DEF ImageOf
    <2>3. CASE db'[f] = Empty
      BY <2>1, <2>3 DEF Empty, ImageOf
    <2>. QED
      BY <2>2, <2>3 DEF OnlyNew
  <1>. QED
    BY <1>1, <1>2 DEF Pairing, ImageOf

(* Rows that are deleted take their images with them.                      *)
LEMMA RowsDeleted ==
  ASSUME DbIInv, NEW gone, Delete(gone), Connected => gone \subseteq db[conn.file].rows,
         \A u \in Thread : ~Writes(u), \A u \in Thread : ~Writes(u)',
         UNCHANGED <<conn, lapses>>
  PROVE  /\ db' \in [File -> Table \cup {NULL}]
         /\ \A f \in File : db'[f] = NULL <=> db[f] = NULL
         /\ Pairing'
         /\ \A f \in File : db'[f] # NULL => Numbered(db'[f].rows)
  <1>. USE DEF DbIInv
  <1>1. CASE ~Connected
    <2>1. db' = db
      BY <1>1 DEF Delete
    <2>. QED
      BY <2>1, TablesStay DEF OnlyNew, DbTypeOK
  <1>2. CASE Connected
    <2>. DEFINE c == conn.file
                table == Without(db[c], gone)
    <2>1. c \in File /\ db[c] \in Table /\ db[c] # NULL
      BY <1>2 DEF DbTypeOK, Connected, Connection
    <2>2. db' = [db EXCEPT ![c] = table]
      BY <1>2 DEF Delete
    <2>3. table \in Table /\ table # NULL
      <3>1. table \in Table
        BY <2>1 DEF Without, Table
      <3>. QED
        BY <3>1, SQLiteCacheAssumption
    <2>4. table.rows = db[c].rows \ gone
      BY DEF Without
    <2>. HIDE DEF table
    <2>5. db' \in [File -> Table \cup {NULL}] /\ db'[c] = table
          /\ \A f \in File : f # c => db'[f] = db[f]
      BY <2>1, <2>2, <2>3 DEF DbTypeOK
    <2>6. ASSUME NEW f \in File, db'[f] # NULL
          PROVE  Numbered(db'[f].rows)
      <3>1. Numbered(db[c].rows \ gone)
        BY <2>1, FewerRows
      <3>. QED
        BY <2>1, <2>4, <2>5, <2>6, <3>1
    <2>7. ASSUME Undisturbed', NEW f \in File, db'[f] # NULL
          PROVE  db'[f].data = {ImageOf(row) : row \in Finished(f)'}
      <3>1. Finished(f)' = db'[f].rows /\ Finished(f) = db[f].rows /\ Undisturbed
        BY <2>7 DEF Finished, Undisturbed
      <3>2. db[f] # NULL
        BY <2>1, <2>5, <2>7
      <3>3. db[f].data = {ImageOf(row) : row \in db[f].rows}
        BY <3>1, <3>2 DEF Pairing
      <3>4. CASE f # c
        BY <2>5, <3>1, <3>3, <3>4
      <3>5. CASE f = c
        <4>1. table.data = {x \in db[c].data : x.id \notin Ids(gone)}
          BY DEF table, Without
        <4>2. ASSUME NEW row \in db[c].rows
              PROVE  ImageOf(row).id \notin Ids(gone) <=> row \notin gone
          <5>1. ImageOf(row).id = row.id /\ Numbered(db[c].rows) /\ gone \subseteq db[c].rows
            BY <1>2, <2>1 DEF ImageOf
          <5>. QED
            BY <5>1 DEF Numbered, Ids
        <4>3. db[c].data = {ImageOf(row) : row \in db[c].rows}
          BY <3>3, <3>5
        <4>4. table.data = {ImageOf(row) : row \in db[c].rows \ gone}
          BY <4>1, <4>2, <4>3
        <4>. QED
          BY <2>4, <2>5, <3>1, <3>5, <4>4
      <3>. QED
        BY <3>4, <3>5
    <2>. QED
      BY <2>1, <2>3, <2>5, <2>6, <2>7 DEF Pairing, ImageOf
  <1>. QED
    BY <1>1, <1>2

-----------------------------------------------------------------------------
(* The steps                                                               *)

LEMMA InitDbIInv == DbInit => DbIInv
  <1>. SUFFICES ASSUME DbInit PROVE DbIInv
    OBVIOUS
  <1>1. DbTypeOK
    <2>1. db \in [File -> Table \cup {NULL}] /\ dbName \in File /\ ~Connected
      BY DEF DbInit, Connected
    <2>2. work \in [Thread -> Job \cup {Idle}] /\ \A t \in Thread : work[t] = Idle
      BY DEF DbInit
    <2>3. ops \in 0..MaxOps /\ addedCount \in Nat /\ clock \in Nat
      BY SQLiteCacheAssumption DEF DbInit
    <2>. QED
      BY <2>1, <2>2, <2>3 DEF DbInit, DbTypeOK
  <1>2. \A t \in Thread : ~Writes(t)
    BY DEF DbInit, Writes, Idle
  <1>3. \A f \in File : db[f] = NULL
    BY DEF DbInit
  <1>. QED
    BY <1>1, <1>2, <1>3 DEF DbInit, DbIInv, Locked, Pairing, InUse, Connected, CrashesOnlyRenamed

(* The step ends or begins with a thread, whose place it changes.          *)
LEMMA Moves ==
  ASSUME DbTypeOK, NEW t \in Thread, NEW j \in Job \cup {Idle},
         work' = [work EXCEPT ![t] = j],
         j # Idle => j.piece \in DOMAIN Pieces[j.tile]
  PROVE  /\ work' \in [Thread -> Job \cup {Idle}] /\ work'[t] = j
         /\ \A u \in Thread : u # t => work'[u] = work[u]
         /\ \A u \in Thread : work'[u] # Idle => work'[u].piece \in DOMAIN Pieces[work'[u].tile]
  BY DEF DbTypeOK

LEMMA Goes ==
  ASSUME DbTypeOK, NEW t \in Thread, work[t] # Idle,
         NEW where \in {"row", "image", "check", "clear"}, Go(t, where)
  PROVE  /\ work' \in [Thread -> Job \cup {Idle}]
         /\ work'[t] = [work[t] EXCEPT !.at = where] /\ work'[t].at = where
         /\ \A u \in Thread : u # t => work'[u] = work[u]
         /\ \A u \in Thread : work'[u] # Idle => work'[u].piece \in DOMAIN Pieces[work'[u].tile]
         /\ Piece(t)' = Piece(t)
  <1>. DEFINE j == [work[t] EXCEPT !.at = where]
  <1>1. j \in Job /\ j.at = where /\ j.tile = work[t].tile /\ j.piece = work[t].piece
    BY AtWork DEF Job
  <1>2. work' = [work EXCEPT ![t] = j]
    BY DEF Go, DbTypeOK
  <1>3. j.piece \in DOMAIN Pieces[j.tile]
    BY <1>1, AtWork
  <1>. HIDE DEF j
  <1>4. /\ work' \in [Thread -> Job \cup {Idle}] /\ work'[t] = j
        /\ \A u \in Thread : u # t => work'[u] = work[u]
        /\ \A u \in Thread : work'[u] # Idle => work'[u].piece \in DOMAIN Pieces[work'[u].tile]
    BY <1>1, <1>2, <1>3, Moves
  <1>. QED
    BY <1>1, <1>4 DEF j, Piece

LEMMA DoCachingStep ==
  ASSUME DbIInv, NEW t \in Thread, NEW p \in Provider, DoCaching(t, p), ops' \in 0..MaxOps
  PROVE  DbIInv'
  <1>. USE DEF DbIInv
  <1>1. /\ work[t] = Idle /\ section = NULL /\ OpenIfExists
        /\ UNCHANGED <<dbName, createNeeded, section, renaming, addedCount, clock, crashed, lapses>>
    BY DEF DoCaching, Free
  <1>2. \E j \in Job \cup {Idle} :
          /\ work' = [work EXCEPT ![t] = j] /\ j.at # "image"
          /\ j # Idle => j.piece \in DOMAIN Pieces[j.tile]
    <2>1. [at |-> "row", tile |-> p, piece |-> 1] \in Job /\ Idle.at # "image"
      BY DEF Job, Idle
    <2>2. 1 \in DOMAIN Pieces[p]
      BY PiecesOf
    <2>3. CASE conn' = NULL
      <3>1. work' = [work EXCEPT ![t] = Idle]
        BY <2>3 DEF DoCaching
      <3>. QED
        BY <2>1, <3>1
    <2>4. CASE conn' # NULL
      <3>. DEFINE j == [at |-> "row", tile |-> p, piece |-> 1]
      <3>1. work' = [work EXCEPT ![t] = j]
        BY <2>4 DEF DoCaching
      <3>2. j \in Job /\ j.at # "image" /\ j.piece \in DOMAIN Pieces[j.tile]
        BY <2>1, <2>2
      <3>. HIDE DEF j
      <3>. QED
        BY <3>1, <3>2
    <2>. QED
      BY <2>3, <2>4
  <1>3. /\ work' \in [Thread -> Job \cup {Idle}] /\ work'[t].at # "image"
        /\ \A u \in Thread : u # t => work'[u] = work[u]
        /\ \A u \in Thread : work'[u] # Idle => work'[u].piece \in DOMAIN Pieces[work'[u].tile]
    BY <1>2, Moves
  <1>4. \A u \in Thread : ~Writes(u) /\ ~Writes(u)'
    BY <1>1, <1>3, Unlocked DEF Writes
  <1>5. /\ OnlyNew /\ db' \in [File -> Table \cup {NULL}]
        /\ conn' \in Connection \cup {NULL, Broken} /\ (Connected' => db'[conn'.file] # NULL)
        /\ openNeeded' \in BOOLEAN
        /\ InUse'
    BY <1>1, Opened DEF Opens
  <1>6. DbTypeOK'
    BY <1>1, <1>3, <1>5 DEF DbTypeOK
  <1>7. /\ Pairing'
        /\ \A f \in File : db'[f] # NULL => Numbered(db'[f].rows)
    BY <1>1, <1>4, <1>5, TablesStay
  <1>8. CrashesOnlyRenamed' /\ Locked'
    BY <1>1, <1>4 DEF CrashesOnlyRenamed, Locked
  <1>. QED
    BY <1>5, <1>6, <1>7, <1>8

LEMMA InitializeStep ==
  ASSUME DbIInv, NEW create \in BOOLEAN, Initialize(create), ops' \in 0..MaxOps
  PROVE  DbIInv'
  <1>. USE DEF DbIInv
  <1>1. /\ section = NULL
        /\ UNCHANGED <<dbName, renaming, lapses, section, work, addedCount, clock, crashed>>
    BY DEF Initialize, Free, cache
  <1>2. Opens /\ createNeeded' \in BOOLEAN
    BY DEF Initialize, Opens, OpenOrCreate, DbTypeOK
  <1>3. \A u \in Thread : ~Writes(u) /\ ~Writes(u)'
    BY <1>1, Unlocked DEF Writes
  <1>4. /\ OnlyNew /\ db' \in [File -> Table \cup {NULL}]
        /\ conn' \in Connection \cup {NULL, Broken} /\ (Connected' => db'[conn'.file] # NULL)
        /\ openNeeded' \in BOOLEAN
        /\ InUse'
    BY <1>1, <1>2, Opened
  <1>5. DbTypeOK'
    BY <1>1, <1>2, <1>4 DEF DbTypeOK
  <1>6. /\ Pairing'
        /\ \A f \in File : db'[f] # NULL => Numbered(db'[f].rows)
    BY <1>1, <1>3, <1>4, TablesStay
  <1>7. CrashesOnlyRenamed' /\ Locked'
    BY <1>1, <1>3 DEF CrashesOnlyRenamed, Locked
  <1>. QED
    BY <1>4, <1>5, <1>6, <1>7

LEMMA CheckSizeStep ==
  ASSUME DbIInv, NEW t \in Thread, CheckSize(t), ops' = ops
  PROVE  DbIInv'
  <1>. USE DEF DbIInv
  <1>1. /\ work[t].at = "check" /\ work[t] # Idle
        /\ UNCHANGED <<dbName, createNeeded, section, renaming, addedCount, clock, crashed, lapses>>
    BY DEF CheckSize, Idle
  <1>2. /\ work' \in [Thread -> Job \cup {Idle}] /\ work'[t].at # "image"
        /\ \A u \in Thread : u # t => work'[u] = work[u]
        /\ \A u \in Thread : work'[u] # Idle => work'[u].piece \in DOMAIN Pieces[work'[u].tile]
    <2>1. CASE Go(t, "clear")
      BY <1>1, <2>1, Goes
    <2>2. CASE work' = [work EXCEPT ![t] = Idle]
      BY <2>2, Moves DEF Idle
    <2>. QED
      BY <2>1, <2>2 DEF CheckSize
  <1>3. \A u \in Thread : Writes(u)' <=> Writes(u)
    BY <1>1, <1>2 DEF Writes
  <1>4. CASE UNCHANGED <<conn, db, openNeeded>>
    <2>1. DbTypeOK'
      BY <1>1, <1>2, <1>4 DEF DbTypeOK, Connected
    <2>2. Locked' /\ InUse' /\ CrashesOnlyRenamed'
      BY <1>1, <1>3, <1>4 DEF Locked, InUse, CrashesOnlyRenamed, Connected
    <2>3. Pairing'
      <3>1. \A f \in File : Finished(f)' = Finished(f)
        BY <1>1, <1>3, <1>4 DEF Finished
      <3>2. \A u \in Thread : Writes(u)' => Piece(u)' = Piece(u)
        BY <1>1, <1>2, <1>3 DEF Piece, Writes
      <3>. QED
        BY <1>1, <1>3, <1>4, <3>1, <3>2 DEF Pairing, Undisturbed, ImageOf
    <2>. QED
      BY <1>4, <2>1, <2>2, <2>3
  <1>5. CASE section = NULL /\ OpenIfExists
    <2>1. \A u \in Thread : ~Writes(u) /\ ~Writes(u)'
      BY <1>3, <1>5, Unlocked
    <2>2. /\ OnlyNew /\ db' \in [File -> Table \cup {NULL}]
          /\ conn' \in Connection \cup {NULL, Broken} /\ (Connected' => db'[conn'.file] # NULL)
          /\ openNeeded' \in BOOLEAN
          /\ InUse'
      BY <1>1, <1>5, Opened DEF Opens
    <2>3. DbTypeOK'
      BY <1>1, <1>2, <2>2 DEF DbTypeOK
    <2>4. /\ Pairing'
          /\ \A f \in File : db'[f] # NULL => Numbered(db'[f].rows)
      BY <1>1, <2>1, <2>2, TablesStay
    <2>5. CrashesOnlyRenamed' /\ Locked'
      BY <1>1, <2>1 DEF CrashesOnlyRenamed, Locked
    <2>. QED
      BY <2>2, <2>3, <2>4, <2>5
  <1>. QED
    BY <1>4, <1>5 DEF CheckSize, Free

(* Steps that delete rows.                                                 *)
LEMMA DeletesStep ==
  ASSUME DbIInv, NEW gone, Delete(gone), Connected => gone \subseteq db[conn.file].rows,
         section = NULL, \A u \in Thread : ~Writes(u)',
         work' \in [Thread -> Job \cup {Idle}],
         \A u \in Thread : work'[u] # Idle => work'[u].piece \in DOMAIN Pieces[work'[u].tile],
         UNCHANGED <<conn, dbName, openNeeded, createNeeded, section, renaming, addedCount,
                     clock, crashed, lapses>>,
         ops' \in 0..MaxOps
  PROVE  DbIInv'
  <1>. USE DEF DbIInv
  <1>1. \A u \in Thread : ~Writes(u)
    BY Unlocked
  <1>2. /\ db' \in [File -> Table \cup {NULL}]
        /\ \A f \in File : db'[f] = NULL <=> db[f] = NULL
        /\ Pairing'
        /\ \A f \in File : db'[f] # NULL => Numbered(db'[f].rows)
    BY <1>1, RowsDeleted
  <1>3. Connected' <=> Connected
    BY DEF Connected
  <1>4. Connected => conn.file \in File
    BY DEF Connected, DbTypeOK, Connection
  <1>5. DbTypeOK'
    BY <1>2, <1>3, <1>4 DEF DbTypeOK
  <1>6. Locked' /\ InUse' /\ CrashesOnlyRenamed'
    BY <1>2, <1>3 DEF Locked, InUse, CrashesOnlyRenamed, DbTypeOK
  <1>. QED
    BY <1>2, <1>5, <1>6

LEMMA AutoClearStep ==
  ASSUME DbIInv, NEW t \in Thread, AutoClear(t), ops' = ops
  PROVE  DbIInv'
  <1>1. /\ section = NULL /\ Delete(Newer(db[conn.file].rows))
        /\ work' = [work EXCEPT ![t] = Idle]
        /\ UNCHANGED <<conn, dbName, openNeeded, createNeeded, section, renaming, addedCount,
                       clock, crashed, lapses>>
    BY DEF AutoClear, Free
  <1>2. Newer(db[conn.file].rows) \subseteq db[conn.file].rows
    BY DEF Newer
  <1>3. /\ work' \in [Thread -> Job \cup {Idle}] /\ work'[t] = Idle
        /\ \A u \in Thread : u # t => work'[u] = work[u]
        /\ \A u \in Thread : work'[u] # Idle => work'[u].piece \in DOMAIN Pieces[work'[u].tile]
    BY <1>1, Moves DEF DbIInv
  <1>4. \A u \in Thread : ~Writes(u)'
    BY <1>1, <1>3, Unlocked DEF DbIInv, Writes, Idle
  <1>5. ops' \in 0..MaxOps
    BY DEF DbIInv, DbTypeOK
  <1>. QED
    BY <1>1, <1>2, <1>3, <1>4, <1>5, DeletesStep

LEMMA ClearStep ==
  ASSUME DbIInv, NEW types, Clear(types), ops' \in 0..MaxOps
  PROVE  DbIInv'
  <1>1. /\ section = NULL /\ Delete(RowsOf(conn.file, types))
        /\ UNCHANGED <<conn, dbName, openNeeded, createNeeded, section, renaming, addedCount,
                       clock, crashed, lapses, work>>
    BY DEF Clear, Free, cache
  <1>2. RowsOf(conn.file, types) \subseteq db[conn.file].rows
    BY DEF RowsOf
  <1>3. \A u \in Thread : ~Writes(u)'
    BY <1>1, Unlocked DEF DbIInv, Writes
  <1>. QED
    BY <1>1, <1>2, <1>3, DeletesStep DEF DbIInv, DbTypeOK

(* After a piece its thread is not between two statements.                 *)
LEMMA NextPieceMoves ==
  ASSUME DbTypeOK, NEW t \in Thread, work[t] # Idle, NextPiece(t)
  PROVE  /\ section' \in {t, NULL}
         /\ work' \in [Thread -> Job \cup {Idle}] /\ work'[t].at # "image"
         /\ \A u \in Thread : u # t => work'[u] = work[u]
         /\ \A u \in Thread : work'[u] # Idle => work'[u].piece \in DOMAIN Pieces[work'[u].tile]
  <1>1. CASE Go(t, "check") /\ section' = NULL
    BY <1>1, Goes
  <1>2. CASE /\ work[t].piece < Len(Pieces[work[t].tile])
             /\ work' = [work EXCEPT ![t] =
                           [at |-> "row", tile |-> @.tile, piece |-> @.piece + 1]]
             /\ section' = t
    <2>. DEFINE j == [at |-> "row", tile |-> work[t].tile, piece |-> work[t].piece + 1]
    <2>1. work[t] \in Job /\ work[t].tile \in Provider /\ work[t].piece \in Nat
          /\ work[t].piece \in DOMAIN Pieces[work[t].tile]
      BY AtWork
    <2>2. j \in Job /\ j.at = "row" /\ j.tile = work[t].tile /\ j.piece = work[t].piece + 1
      BY <2>1 DEF Job
    <2>3. work' = [work EXCEPT ![t] = j]
      BY <1>2 DEF DbTypeOK
    <2>4. j.piece \in DOMAIN Pieces[j.tile]
      BY <1>2, <2>1, <2>2, PiecesOf
    <2>. HIDE DEF j
    <2>. QED
      BY <1>2, <2>2, <2>3, <2>4, Moves
  <1>. QED
    BY <1>1, <1>2 DEF NextPiece

LEMMA InsertRowStep ==
  ASSUME DbIInv, NEW t \in Thread, InsertRow(t), ops' = ops
  PROVE  DbIInv'
  <1>. USE DEF DbIInv
  <1>1. /\ work[t].at = "row" /\ work[t] # Idle /\ section \in {NULL, t}
        /\ UNCHANGED <<dbName, openNeeded, createNeeded, renaming, addedCount, crashed>>
    BY DEF InsertRow, Idle
  <1>2. \A u \in Thread : ~Writes(u)
    BY <1>1, Unlocked DEF Writes
  <1>3. CASE ~Connected /\ NextPiece(t) /\ UNCHANGED <<db, conn, clock, lapses>>
    <2>1. /\ section' \in {t, NULL}
          /\ work' \in [Thread -> Job \cup {Idle}] /\ work'[t].at # "image"
          /\ \A u \in Thread : u # t => work'[u] = work[u]
          /\ \A u \in Thread : work'[u] # Idle => work'[u].piece \in DOMAIN Pieces[work'[u].tile]
      BY <1>1, <1>3, NextPieceMoves
    <2>2. \A u \in Thread : ~Writes(u)'
      BY <1>2, <2>1 DEF Writes
    <2>3. ~Connected'
      BY <1>3 DEF Connected
    <2>4. DbTypeOK'
      BY <1>1, <1>3, <2>1, <2>3 DEF DbTypeOK
    <2>5. Locked' /\ InUse' /\ CrashesOnlyRenamed'
      BY <1>1, <1>3, <2>2, <2>3 DEF Locked, InUse, CrashesOnlyRenamed
    <2>. QED
      BY <1>2, <1>3, <2>2, <2>4, <2>5, TablesStay DEF OnlyNew
  <1>4. CASE Connected /\ Go(t, "image") /\ section' = t
    <2>. DEFINE c == conn.file
    <2>1. /\ work' \in [Thread -> Job \cup {Idle}] /\ work'[t].at = "image"
          /\ \A u \in Thread : u # t => work'[u] = work[u]
          /\ \A u \in Thread : work'[u] # Idle => work'[u].piece \in DOMAIN Pieces[work'[u].tile]
          /\ Piece(t)' = Piece(t)
      BY <1>1, <1>4, Goes
    <2>2. \A u \in Thread : Writes(u)' <=> u = t
      BY <1>2, <2>1 DEF Writes
    <2>3. c \in File /\ conn \in Connection /\ db[c] \in Table /\ db[c] # NULL
      BY <1>4 DEF DbTypeOK, Connected, Connection
    <2>4. CASE lapses' = lapses \cup {"failed"} /\ UNCHANGED <<db, conn, clock>>
      <3>1. Connected'
        BY <1>4, <2>4 DEF Connected
      <3>2. DbTypeOK'
        BY <1>1, <1>4, <2>1, <2>4 DEF DbTypeOK, Connected
      <3>3. Locked' /\ InUse' /\ CrashesOnlyRenamed' /\ ~Undisturbed'
        BY <1>1, <1>4, <2>2, <2>4, <3>1 DEF Locked, InUse, CrashesOnlyRenamed, Undisturbed, Connected
      <3>. QED
        BY <2>4, <3>2, <3>3 DEF Pairing
    <2>5. CASE clock' \in {clock, clock + 1} /\ AddRow(t) /\ UNCHANGED lapses
      <3>. DEFINE id == NewId(db[c].rows)
                  row == [id |-> id, type |-> Piece(t), time |-> clock']
                  table == [db[c] EXCEPT !.rows = @ \cup {row}]
      <3>1. db[c].rows \in SUBSET Row /\ Numbered(db[c].rows)
        BY <2>3 DEF Table
      <3>2. id \in Nat /\ \A x \in db[c].rows : x.id < id /\ x.id \in Nat
        BY <3>1, NewIdIsNew DEF Row
      <3>3. clock' \in Nat /\ Piece(t) \in Provider
        BY <1>1, <2>5, AtWork DEF DbTypeOK
      <3>4. row \in Row /\ row.id = id /\ row.type = Piece(t)
        BY <3>2, <3>3 DEF Row
      <3>5. db' = [db EXCEPT ![c] = table] /\ conn' = [conn EXCEPT !.last = id]
        BY <2>5 DEF AddRow
      <3>. HIDE DEF row
      <3>6. /\ table \in Table /\ table # NULL
            /\ table.rows = db[c].rows \cup {row} /\ table.data = db[c].data
        <4>1. /\ table \in Table
              /\ table.rows = db[c].rows \cup {row} /\ table.data = db[c].data
          BY <2>3, <3>4 DEF Table
        <4>. QED
          BY <4>1, SQLiteCacheAssumption
      <3>. HIDE DEF table, id
      <3>7. /\ db' \in [File -> Table \cup {NULL}] /\ db'[c] = table
            /\ \A f \in File : f # c => db'[f] = db[f]
        BY <2>3, <3>5, <3>6 DEF DbTypeOK
      <3>8. conn' \in Connection /\ conn'.file = c /\ conn'.last = id /\ Connected'
        <4>1. conn' \in Connection /\ conn'.file = c /\ conn'.last = id
          BY <2>3, <3>2, <3>5 DEF Connection
        <4>. QED
          BY <4>1, SQLiteCacheAssumption DEF Connected
      <3>9. DbTypeOK'
        BY <1>1, <1>4, <2>1, <2>5, <3>3, <3>6, <3>7, <3>8 DEF DbTypeOK
      <3>10. Locked' /\ InUse' /\ CrashesOnlyRenamed'
        <4>1. Locked' /\ CrashesOnlyRenamed'
          BY <1>1, <1>4, <2>2, <2>5, <3>8 DEF Locked, CrashesOnlyRenamed
        <4>2. conn' # NULL
          BY <3>8, SQLiteCacheAssumption
        <4>3. InUse'
          BY <1>1, <1>4, <3>8, <4>2 DEF InUse
        <4>. QED
          BY <4>1, <4>3
      <3>11. ASSUME NEW f \in File, db'[f] # NULL
             PROVE  Numbered(db'[f].rows)
        <4>1. Numbered(db[c].rows \cup {row})
          BY <3>1, <3>4, OneMoreRow DEF id
        <4>. QED
          BY <3>6, <3>7, <3>11, <4>1
      <3>12. ASSUME NEW f \in File, f = c
             PROVE  Finished(f)' = db[c].rows
        <4>1. Finished(f)' = {x \in db'[c].rows : x.id # id}
          BY <2>2, <3>8, <3>12 DEF Finished
        <4>2. \A x \in db[c].rows : x.id # id
          BY <3>2
        <4>. QED
          BY <3>4, <3>6, <3>7, <4>1, <4>2
      <3>13. Pairing'
        <4>. SUFFICES ASSUME Undisturbed' PROVE
               /\ \A f \in File : db'[f] # NULL => db'[f].data = {ImageOf(x) : x \in Finished(f)'}
               /\ \A u \in Thread : Writes(u)' =>
                    \E x \in db'[conn'.file].rows : x.id = conn'.last /\ x.type = Piece(u)'
          BY DEF Pairing, ImageOf
        <4>1. Undisturbed
          BY <2>5 DEF Undisturbed
        <4>2. ASSUME NEW f \in File, db'[f] # NULL
              PROVE  db'[f].data = {ImageOf(x) : x \in Finished(f)'}
          <5>1. Finished(f) = db[f].rows
            BY <1>2 DEF Finished
          <5>2. Finished(f)' = Finished(f)
            <6>1. CASE f = c
              BY <3>12, <5>1, <6>1
            <6>2. CASE f # c
              <7>1. Finished(f)' = db'[f].rows
                BY <3>8, <6>2 DEF Finished
              <7>. QED
                BY <3>7, <5>1, <6>2, <7>1
            <6>. QED
              BY <6>1, <6>2
          <5>3. db[f] # NULL /\ db'[f].data = db[f].data
            BY <2>3, <3>6, <3>7, <4>2
          <5>. QED
            BY <4>1, <5>2, <5>3 DEF Pairing
        <4>3. row \in db'[conn'.file].rows /\ row.id = conn'.last /\ row.type = Piece(t)'
          BY <2>1, <3>4, <3>6, <3>7, <3>8
        <4>. QED
          BY <2>2, <4>2, <4>3
      <3>. QED
        BY <3>9, <3>10, <3>11, <3>13
    <2>. QED
      BY <1>4, <2>4, <2>5 DEF InsertRow
  <1>. QED
    BY <1>3, <1>4 DEF InsertRow

(* A thread may crash.                                                     *)
LEMMA CrashStep ==
  ASSUME DbIInv, NEW t \in Thread, Writes(t), conn = NULL, crashed' = TRUE,
         UNCHANGED <<db, conn, dbName, openNeeded, createNeeded, section, work, renaming,
                     addedCount, clock, ops, lapses>>
  PROVE  DbIInv'
  <1>. USE DEF DbIInv
  <1>1. Connected' <=> Connected
    BY DEF Connected
  <1>2. DbTypeOK'
    BY <1>1 DEF DbTypeOK
  <1>3. \A u \in Thread : (Writes(u)' <=> Writes(u)) /\ Piece(u)' = Piece(u)
    BY DEF Writes, Piece
  <1>4. \A f \in File : Finished(f)' = Finished(f)
    BY <1>3 DEF Finished
  <1>5. Pairing'
    BY <1>3, <1>4 DEF Pairing, Undisturbed, ImageOf
  <1>6. Locked' /\ InUse'
    BY <1>1, <1>3 DEF Locked, InUse
  <1>7. CrashesOnlyRenamed'
    BY DEF Locked, Connected, CrashesOnlyRenamed
  <1>. QED
    BY <1>2, <1>5, <1>6, <1>7

LEMMA InsertImageStep ==
  ASSUME DbIInv, NEW t \in Thread, InsertImage(t), ops' = ops
  PROVE  DbIInv'
  <1>. USE DEF DbIInv
  <1>1. /\ Writes(t) /\ work[t] # Idle /\ section = t
        /\ UNCHANGED <<conn, dbName, openNeeded, createNeeded, renaming, clock>>
    BY DEF InsertImage, Writes, Idle, Locked
  <1>2. \A u \in Thread : Writes(u) <=> u = t
    BY <1>1, Unlocked
  <1>3. CASE conn = NULL
    BY <1>1, <1>3, CrashStep DEF InsertImage
  <1>4. CASE conn # NULL
    <2>1. NextPiece(t) /\ UNCHANGED crashed
      BY <1>4 DEF InsertImage
    <2>2. /\ section' \in {t, NULL}
          /\ work' \in [Thread -> Job \cup {Idle}] /\ work'[t].at # "image"
          /\ \A u \in Thread : u # t => work'[u] = work[u]
          /\ \A u \in Thread : work'[u] # Idle => work'[u].piece \in DOMAIN Pieces[work'[u].tile]
      BY <1>1, <2>1, NextPieceMoves
    <2>3. (\A u \in Thread : ~Writes(u)') /\ Locked' /\ (Connected' <=> Connected)
      BY <1>1, <1>2, <2>2 DEF Writes, Locked, Connected
    <2>4. CASE lapses' = lapses \cup {"failed"} /\ UNCHANGED <<db, addedCount>>
      <3>1. DbTypeOK'
        BY <1>1, <2>1, <2>2, <2>3, <2>4 DEF DbTypeOK
      <3>2. InUse' /\ CrashesOnlyRenamed' /\ ~Undisturbed'
        BY <1>1, <2>1, <2>3, <2>4 DEF InUse, CrashesOnlyRenamed, Undisturbed
      <3>. QED
        BY <2>3, <2>4, <3>1, <3>2 DEF Pairing
    <2>5. CASE /\ Connected
               /\ db' = [db EXCEPT ![conn.file].data =
                           Overwritten(@, [id |-> conn.last, type |-> Piece(t)])]
               /\ addedCount' = addedCount + 1
               /\ UNCHANGED lapses
      <3>1. PICK c \in File : c = conn.file /\ conn.last \in Nat
        BY <2>5 DEF DbTypeOK, Connected, Connection
      <3>2. db[c] \in Table /\ db[c] # NULL
        BY <2>5, <3>1 DEF DbTypeOK
      <3>. DEFINE image == [id |-> conn.last, type |-> Piece(t)]
                  table == [db[c] EXCEPT !.data = Overwritten(@, image)]
      <3>3. image \in Image /\ image.id = conn.last
        BY <1>1, <3>1, AtWork DEF Image
      <3>4. db' = [db EXCEPT ![c] = table]
        BY <2>5, <3>1
      <3>. HIDE DEF image
      <3>5. /\ table \in Table /\ table # NULL
            /\ table.rows = db[c].rows /\ table.data = Overwritten(db[c].data, image)
        <4>1. Overwritten(db[c].data, image) \subseteq Image
          BY <3>2, <3>3 DEF Overwritten, Table
        <4>2. /\ table \in Table
              /\ table.rows = db[c].rows /\ table.data = Overwritten(db[c].data, image)
          BY <3>2, <4>1 DEF Table
        <4>. QED
          BY <4>2, SQLiteCacheAssumption
      <3>. HIDE DEF table
      <3>6. /\ db' \in [File -> Table \cup {NULL}] /\ db'[c] = table
            /\ \A f \in File : f # c => db'[f] = db[f]
        BY <3>2, <3>4, <3>5 DEF DbTypeOK
      <3>7. DbTypeOK'
        <4>1. addedCount' \in Nat
          BY <2>5 DEF DbTypeOK
        <4>. QED
          BY <1>1, <2>1, <2>2, <2>3, <2>5, <3>1, <3>5, <3>6, <4>1 DEF DbTypeOK
      <3>8. InUse' /\ CrashesOnlyRenamed'
        BY <1>1, <1>4, <2>1, <2>3, <2>5 DEF InUse, CrashesOnlyRenamed
      <3>9. \A f \in File : db'[f] # NULL => db[f] # NULL /\ db'[f].rows = db[f].rows
        BY <3>2, <3>5, <3>6
      <3>10. \A f \in File : Finished(f)' = db'[f].rows
        BY <2>3 DEF Finished
      <3>11. ASSUME Undisturbed', NEW f \in File, db'[f] # NULL
             PROVE  db'[f].data = {ImageOf(row) : row \in db'[f].rows}
        <4>1. Undisturbed
          BY <2>5, <3>11 DEF Undisturbed
        <4>2. db[f].data = {ImageOf(row) : row \in Finished(f)}
          BY <3>9, <3>11, <4>1 DEF Pairing
        <4>3. CASE f # c
          <5>1. Finished(f) = db[f].rows
            BY <1>2, <3>1, <4>3 DEF Finished
          <5>. QED
            BY <3>6, <4>2, <4>3, <5>1
        <4>4. CASE f = c
          <5>1. PICK last \in db[c].rows : last.id = conn.last /\ last.type = Piece(t)
            BY <1>1, <3>1, <4>1 DEF Pairing
          <5>2. Finished(f) = db[c].rows \ {last}
            <6>1. Finished(f) = {row \in db[c].rows : row.id # conn.last}
              BY <1>2, <3>1, <4>4 DEF Finished
            <6>2. \A row \in db[c].rows : row.id = conn.last <=> row = last
              BY <3>2, <5>1 DEF Numbered
            <6>. QED
              BY <6>1, <6>2
          <5>3. image = ImageOf(last)
            BY <5>1 DEF image, ImageOf
          <5>4. \A row \in db[c].rows \ {last} : ImageOf(row).id # image.id
            BY <3>2, <3>3, <5>1 DEF Numbered, ImageOf
          <5>5. Overwritten(db[c].data, image) = db[c].data \cup {image}
            BY <4>2, <4>4, <5>2, <5>4 DEF Overwritten
          <5>6. table.data = {ImageOf(row) : row \in db[c].rows}
            BY <3>5, <4>2, <4>4, <5>1, <5>2, <5>3, <5>5
          <5>. QED
            BY <3>5, <3>6, <4>4, <5>6
        <4>. QED
          BY <4>3, <4>4
      <3>12. Pairing'
        BY <2>3, <3>10, <3>11 DEF Pairing, ImageOf
      <3>13. \A f \in File : db'[f] # NULL => Numbered(db'[f].rows)
        BY <3>9
      <3>. QED
        BY <2>3, <3>7, <3>8, <3>12, <3>13
    <2>. QED
      BY <1>4, <2>4, <2>5 DEF InsertImage
  <1>. QED
    BY <1>3, <1>4

LEMMA RenameStep ==
  ASSUME DbIInv, NEW f \in File, set_DbName(f), ops' \in 0..MaxOps
  PROVE  DbIInv'
  <1>. USE DEF DbIInv
  <1>1. /\ dbName' = f /\ renaming' = "close"
        /\ UNCHANGED <<db, conn, openNeeded, createNeeded, lapses, section, work, addedCount,
                       clock, crashed>>
    BY DEF set_DbName, cache
  <1>2. Connected' <=> Connected
    BY <1>1 DEF Connected
  <1>3. DbTypeOK'
    BY <1>1, <1>2 DEF DbTypeOK
  <1>4. \A u \in Thread : (Writes(u)' <=> Writes(u)) /\ Piece(u)' = Piece(u)
    BY <1>1 DEF Writes, Piece
  <1>5. \A g \in File : Finished(g)' = Finished(g)
    BY <1>1, <1>4 DEF Finished
  <1>6. Pairing'
    BY <1>1, <1>4, <1>5 DEF Pairing, Undisturbed, ImageOf
  <1>7. Locked' /\ InUse' /\ CrashesOnlyRenamed'
    BY <1>1, <1>2, <1>4 DEF Locked, InUse, CrashesOnlyRenamed
  <1>. QED
    BY <1>1, <1>3, <1>6, <1>7

(* The connection is replaced while a thread may write: then less holds.   *)
LEMMA Reconnected ==
  ASSUME DbIInv, OnlyNew, lapses' = lapses \cup Interrupted, UNCHANGED cache
  PROVE  /\ Locked' /\ Pairing' /\ CrashesOnlyRenamed'
         /\ \A f \in File : db'[f] # NULL => Numbered(db'[f].rows)
         /\ lapses' \subseteq {"failed", "renamed", "late"}
  <1>. USE DEF DbIInv
  <1>1. \A u \in Thread : Writes(u)' <=> Writes(u)
    BY DEF Writes, cache
  <1>2. /\ lapses \subseteq lapses' /\ lapses' \subseteq {"failed", "renamed", "late"}
        /\ CrashesOnlyRenamed'
    BY DEF Interrupted, DbTypeOK, CrashesOnlyRenamed, cache
  <1>3. CASE \A u \in Thread : ~Writes(u)
    BY <1>1, <1>2, <1>3, TablesStay DEF Locked
  <1>4. CASE \E u \in Thread : Writes(u)
    <2>1. "renamed" \in lapses' /\ ~Undisturbed'
      BY <1>4 DEF Writes, Interrupted, Undisturbed
    <2>2. Locked'
      BY <1>1, <2>1 DEF Locked, cache
    <2>3. \A f \in File : db'[f] # NULL => Numbered(db'[f].rows)
      BY EmptyIsTable DEF OnlyNew
    <2>. QED
      BY <1>2, <2>1, <2>2, <2>3 DEF Pairing
  <1>. QED
    BY <1>3, <1>4

LEMMA CloseStep ==
  ASSUME DbIInv, CloseConnection, ops' = ops
  PROVE  DbIInv'
  <1>1. /\ conn' = NULL /\ renaming' = "open" /\ lapses' = lapses \cup Interrupted
        /\ UNCHANGED <<db, dbName, openNeeded, createNeeded, section, work, addedCount, clock,
                       crashed>>
    BY DEF CloseConnection, cache
  <1>2. OnlyNew /\ UNCHANGED cache /\ ~Connected'
    BY <1>1 DEF OnlyNew, cache, Connected
  <1>3. /\ Locked' /\ Pairing' /\ CrashesOnlyRenamed'
        /\ \A f \in File : db'[f] # NULL => Numbered(db'[f].rows)
        /\ lapses' \subseteq {"failed", "renamed", "late"}
    BY <1>1, <1>2, Reconnected
  <1>4. DbTypeOK' /\ InUse'
    BY <1>1, <1>2, <1>3 DEF DbIInv, DbTypeOK, InUse
  <1>. QED
    BY <1>3, <1>4 DEF DbIInv

LEMMA OpenStep ==
  ASSUME DbIInv, OpenConnection, ops' = ops
  PROVE  DbIInv'
  <1>1. /\ CreateDatabase /\ renaming' = "no" /\ lapses' = lapses \cup Interrupted
        /\ UNCHANGED <<dbName, openNeeded, createNeeded, section, work, addedCount, clock,
                       crashed, cache>>
    BY DEF OpenConnection, cache
  <1>2. /\ OnlyNew /\ db' \in [File -> Table \cup {NULL}]
        /\ \/ conn' = Broken
           \/ conn' \in Connection /\ conn'.file = dbName /\ db'[dbName] # NULL
        /\ conn' \in Connection \cup {Broken} /\ conn' # NULL
    BY <1>1, Created DEF DbIInv
  <1>3. /\ Locked' /\ Pairing' /\ CrashesOnlyRenamed'
        /\ \A f \in File : db'[f] # NULL => Numbered(db'[f].rows)
        /\ lapses' \subseteq {"failed", "renamed", "late"}
    BY <1>1, <1>2, Reconnected
  <1>4. DbTypeOK' /\ InUse'
    BY <1>1, <1>2, <1>3 DEF DbIInv, DbTypeOK, InUse, Connected
  <1>. QED
    BY <1>3, <1>4 DEF DbIInv

LEMMA AppearsStep ==
  ASSUME DbIInv, NEW f \in File, FileAppears(f), ops' \in 0..MaxOps
  PROVE  DbIInv'
  <1>. USE DEF DbIInv
  <1>1. /\ db[f] = NULL /\ db' = [db EXCEPT ![f] = Empty]
        /\ lapses' = lapses \cup IF openNeeded THEN {} ELSE {"late"}
        /\ UNCHANGED <<conn, dbName, openNeeded, createNeeded, renaming, section, work,
                       addedCount, clock, crashed>>
    BY DEF FileAppears, cache
  <1>2. /\ db' \in [File -> Table \cup {NULL}] /\ db'[f] = Empty
        /\ \A g \in File : g # f => db'[g] = db[g]
    BY <1>1, EmptyIsTable DEF DbTypeOK
  <1>3. (Connected' <=> Connected) /\ (Connected => conn.file \in File /\ conn.file # f)
    BY <1>1 DEF DbTypeOK, Connected, Connection
  <1>4. DbTypeOK'
    <2>1. lapses' \subseteq {"failed", "renamed", "late"}
      BY <1>1 DEF DbTypeOK
    <2>. QED
      BY <1>1, <1>2, <1>3, <2>1 DEF DbTypeOK
  <1>5. \A u \in Thread : (Writes(u)' <=> Writes(u)) /\ Piece(u)' = Piece(u)
    BY <1>1 DEF Writes, Piece
  <1>6. Locked' /\ CrashesOnlyRenamed'
    BY <1>1, <1>3, <1>5 DEF Locked, CrashesOnlyRenamed
  <1>7. InUse'
    <2>1. renaming # "close" /\ Connected => conn.file = dbName
      BY DEF InUse
    <2>2. ASSUME ~openNeeded
          PROVE  "late" \in lapses'
      BY <1>1, <2>2
    <2>. QED
      BY <1>1, <1>3, <2>1, <2>2 DEF InUse
  <1>8. Pairing'
    <2>. SUFFICES ASSUME Undisturbed'
                  PROVE  Pairing'
      BY DEF Pairing
    <2>1. Undisturbed /\ "renamed" \notin lapses
      BY <1>1 DEF Undisturbed
    <2>2. ASSUME NEW g \in File, db'[g] # NULL
          PROVE  db'[g].data = {ImageOf(row) : row \in Finished(g)'}
      <3>1. CASE g = f
        BY <1>2, <3>1 DEF Finished, Empty
      <3>2. CASE g # f
        <4>1. Finished(g)' = Finished(g)
          BY <1>1, <1>2, <1>5, <3>2 DEF Finished
        <4>. QED
          BY <1>2, <2>1, <2>2, <3>2, <4>1 DEF Pairing
      <3>. QED
        BY <3>1, <3>2
    <2>3. ASSUME NEW u \in Thread, Writes(u)'
          PROVE  \E row \in db'[conn'.file].rows : row.id = conn'.last /\ row.type = Piece(u)'
      <3>1. conn' = conn /\ db'[conn.file] = db[conn.file] /\ Writes(u)
        BY <1>1, <1>2, <1>3, <1>5, <2>1, <2>3 DEF Locked
      <3>2. \E row \in db[conn.file].rows : row.id = conn.last /\ row.type = Piece(u)
        BY <2>1, <3>1 DEF Pairing
      <3>. QED
        BY <1>5, <3>1, <3>2
    <2>. QED
      BY <2>2, <2>3 DEF Pairing, ImageOf
  <1>9. \A g \in File : db'[g] # NULL => Numbered(db'[g].rows)
    BY <1>2, EmptyIsTable
  <1>. QED
    BY <1>4, <1>6, <1>7, <1>8, <1>9

(* Every step preserves the inductive invariant.                           *)
LEMMA DbNextIInv == DbIInv /\ [DbNext]_dbVars => DbIInv'
  <1>. SUFFICES ASSUME DbIInv, [DbNext]_dbVars PROVE DbIInv'
    OBVIOUS
  <1>1. CASE UNCHANGED dbVars
    <2>1. /\ DbTypeOK' <=> DbTypeOK
          /\ Locked' <=> Locked
          /\ InUse' <=> InUse
          /\ CrashesOnlyRenamed' <=> CrashesOnlyRenamed
      BY <1>1 DEF dbVars, DbTypeOK, Locked, InUse, CrashesOnlyRenamed, Connected, Writes
    <2>2. Pairing' <=> Pairing
      <3>1. \A u \in Thread : (Writes(u)' <=> Writes(u)) /\ Piece(u)' = Piece(u)
        BY <1>1 DEF dbVars, Writes, Piece
      <3>2. \A g \in File : Finished(g)' = Finished(g)
        BY <1>1, <3>1 DEF dbVars, Finished
      <3>. QED
        BY <1>1, <3>1, <3>2 DEF dbVars, Pairing, Undisturbed, ImageOf
    <2>. QED
      BY <1>1, <2>1, <2>2 DEF DbIInv, dbVars
  <1>2. CASE Call /\ ops < MaxOps /\ ops' = ops + 1
    <2>1. ops' \in 0..MaxOps
      BY <1>2, SQLiteCacheAssumption DEF DbIInv, DbTypeOK
    <2>2. ASSUME NEW t \in Thread, NEW p \in Provider, DoCaching(t, p)
          PROVE  DbIInv'
      BY <2>1, <2>2, DoCachingStep
    <2>3. ASSUME NEW create \in BOOLEAN, Initialize(create)
          PROVE  DbIInv'
      BY <2>1, <2>3, InitializeStep
    <2>4. ASSUME NEW types, Clear(types)
          PROVE  DbIInv'
      BY <2>1, <2>4, ClearStep
    <2>5. ASSUME NEW f \in File, set_DbName(f) \/ FileAppears(f)
          PROVE  DbIInv'
      BY <2>1, <2>5, RenameStep, AppearsStep
    <2>. QED
      BY <1>2, <2>2, <2>3, <2>4, <2>5 DEF Call
  <1>3. CASE (Caching \/ CloseConnection \/ OpenConnection) /\ UNCHANGED ops
    <2>1. ops' = ops
      BY <1>3
    <2>. QED
      BY <1>3, <2>1, InsertRowStep, InsertImageStep, CheckSizeStep, AutoClearStep, CloseStep,
         OpenStep DEF Caching
  <1>. QED
    BY <1>1, <1>2, <1>3 DEF DbNext

-----------------------------------------------------------------------------
(* The theorems about SQLiteCache                                          *)

(* Inductive invariant.                                                    *)
THEOREM DbInvariance == DbSpec => []DbIInv
  BY InitDbIInv, DbNextIInv, PTL DEF DbSpec

(* Type correctness of the database: ids, connection and the work of the   *)
(* threads are of the kinds the code gives them, and what is connected to  *)
(* exists.                                                                 *)
THEOREM DbTypeCorrect == DbSpec => []DbTypeOK
  <1>1. DbIInv => DbTypeOK
    BY DEF DbIInv
  <1>. QED
    BY <1>1, DbInvariance, PTL

LEMMA WholeIsPaired == DbIInv => Paired
  <1>. SUFFICES ASSUME DbIInv, Whole, NEW f \in File, db[f] # NULL
                PROVE  /\ db[f].data = {ImageOf(row) : row \in db[f].rows}
                       /\ \A x, y \in db[f].rows : x.id = y.id => x = y
    BY DEF Paired
  <1>1. section = NULL /\ Undisturbed
    BY DEF Whole, Undisturbed
  <1>2. \A u \in Thread : ~Writes(u)
    BY <1>1, Unlocked DEF DbIInv
  <1>3. Finished(f) = db[f].rows
    BY <1>2 DEF Finished
  <1>. QED
    BY <1>1, <1>3 DEF DbIInv, Pairing, Numbered

(* Between tiles each row has one image, its own, and none is left over,   *)
(* however threads, deletions and renamings are interleaved: unless a      *)
(* statement failed or the database was renamed while a tile was written.  *)
THEOREM RowsArePaired == DbSpec => []Paired
  BY WholeIsPaired, DbInvariance, PTL

(* A piece has an image where the table has a row of it.                   *)
LEMMA PairedHasImage ==
  ASSUME DbTypeOK, Paired, Whole, NEW f \in File, db[f] # NULL, NEW p \in Provider
  PROVE  HasImage(f, p) <=> get_Exists(f, p)
  <1>. DEFINE rows == RowsOf(f, {p})
              first == CHOOSE row \in rows : \A other \in rows : row.id <= other.id
  <1>1. CASE rows = {}
    BY <1>1 DEF HasImage, get_Exists
  <1>2. CASE rows # {}
    <2>1. rows \subseteq db[f].rows /\ rows \in SUBSET Row
      BY DEF RowsOf, DbTypeOK, Table
    <2>2. first \in db[f].rows
      BY <1>2, <2>1, FirstIsOne
    <2>3. ImageOf(first) \in db[f].data /\ ImageOf(first).id = first.id
      BY <2>2 DEF Paired, ImageOf
    <2>. QED
      BY <1>2, <2>3 DEF HasImage, get_Exists
  <1>. QED
    BY <1>1, <1>2

(* If all pieces are of one kind, the first row that exists is enough.     *)
LEMMA WholeIsFound == DbIInv => ExistingAreFound
  <1>. SUFFICES ASSUME DbIInv, Whole, NEW f \in File, NEW p \in Provider, db[f] # NULL,
                       ToSet(Pieces[p]) = {p}
                PROVE  get_Exists(f, p) <=> get_Tile(f, p)
    BY DEF ExistingAreFound
  <1>1. HasImage(f, p) <=> get_Exists(f, p)
    BY WholeIsPaired, PairedHasImage DEF DbIInv
  <1>2. \A i \in DOMAIN Pieces[p] : Pieces[p][i] = p
    BY DEF ToSet
  <1>3. \E i \in DOMAIN Pieces[p] : TRUE
    BY PiecesOf
  <1>. QED
    BY <1>1, <1>2, <1>3 DEF get_Tile

(* A tile that prefetching leaves out as existing is found when it is      *)
(* needed, and only such tiles are left out, if all the pieces of its      *)
(* provider are of one kind.                                               *)
THEOREM PrefetchedAreFound == DbSpec => []ExistingAreFound
  BY WholeIsFound, DbInvariance, PTL

(* The connection is to the database of the present name, even after it    *)
(* was renamed, and one that exists is opened before tiles are looked for. *)
THEOREM PresentDatabaseIsUsed == DbSpec => []DatabaseIsUsed
  <1>1. DbIInv => DatabaseIsUsed
    BY DEF DbIInv, InUse, DatabaseIsUsed
  <1>. QED
    BY <1>1, DbInvariance, PTL

(* A caching thread has a connection while it writes a tile, unless the    *)
(* database is renamed meanwhile.                                          *)
THEOREM OnlyRenamingCrashes == DbSpec => []CrashesOnlyRenamed
  <1>1. DbIInv => CrashesOnlyRenamed
    BY DEF DbIInv
  <1>. QED
    BY <1>1, DbInvariance, PTL
=============================================================================
