-------------------------- MODULE MapLayersProofs ---------------------------
(***************************************************************************)
(* TLAPS proofs about MapLayers, for any sources, shapes, depth of nested  *)
(* calls and number of them: the list of layers and the list of their      *)
(* order agree, and the lock of the window is balanced, through all        *)
(* nesting of calls and handlers.                                          *)
(***************************************************************************)
EXTENDS MapLayers, SequenceLemmas, TLAPS

-----------------------------------------------------------------------------
(* The operations on the two lists.                                        *)

Slots == Source \cup {NULL}

Agreed(all, active) ==
  /\ IsInjective(active)
  /\ ToSet(active) = {h \in DOMAIN all : all[h] # NULL}

LEMMA AgreedIsDrawable ==
  ASSUME NEW all, NEW active, Agreed(all, active)
  PROVE  Drawable(all, active)
  BY DEF Agreed, Drawable, IsValidLayer, ToSet

(* The new layer gets the first slot that is free, or one behind the last. *)
LEMMA FreeSlot ==
  ASSUME allLayers \in Seq(Slots)
  PROVE  /\ FreeHandle \in 1..Len(allLayers) + 1
         /\ FreeHandle \in Nat \ {0}
         /\ FreeHandle \in Handles => allLayers[FreeHandle] = NULL
         /\ FreeHandle \notin Handles => FreeHandle = Len(allLayers) + 1
         /\ Handles = 1..Len(allLayers) /\ Len(allLayers) \in Nat
  <1>. DEFINE n == Len(allLayers)
             T == {h \in 1..n + 1 : h \in Handles => allLayers[h] = NULL}
             P(h) == /\ h \in Handles => allLayers[h] = NULL
                     /\ \A k \in 1..h - 1 : allLayers[k] # NULL
  <1>1. n \in Nat /\ Handles = 1..n
    BY LenProperties DEF Handles
  <1>2. n + 1 \in T
    BY <1>1
  <1>3. PICK x \in T : \A y \in T : x <= y
    <2>1. T \subseteq Nat /\ T # {}
      BY <1>1, <1>2
    <2>. HIDE DEF T
    <2>. QED
      BY <2>1, LeastOf
  <1>4. ASSUME NEW k \in 1..x - 1
        PROVE  allLayers[k] # NULL
    <2>1. k \in 1..n + 1 /\ ~(x <= k)
      BY <1>1, <1>3
    <2>. QED
      BY <1>3, <2>1
  <1>5. \E h \in 1..n + 1 : P(h)
    BY <1>3, <1>4
  <1>6. FreeHandle \in 1..n + 1 /\ P(FreeHandle)
    BY <1>5 DEF FreeHandle
  <1>. QED
    BY <1>1, <1>6

LEMMA SlotFilled ==
  ASSUME allLayers \in Seq(Slots), NEW s \in Slots
  PROVE  LET new == WithLayer(FreeHandle, s)
         IN  /\ new \in Seq(Slots)
             /\ DOMAIN new = Handles \cup {FreeHandle}
             /\ new[FreeHandle] = s
             /\ \A h \in Handles : h # FreeHandle => new[h] = allLayers[h]
  <1>1. CASE FreeHandle \in Handles
    <2>1. WithLayer(FreeHandle, s) = [allLayers EXCEPT ![FreeHandle] = s]
      BY <1>1 DEF WithLayer
    <2>2. [allLayers EXCEPT ![FreeHandle] = s] \in Seq(Slots)
      BY <1>1, FreeSlot, ExceptSeq
    <2>. QED
      BY <1>1, <2>1, <2>2 DEF Handles
  <1>2. CASE FreeHandle \notin Handles
    <2>1. WithLayer(FreeHandle, s) = Append(allLayers, s)
      BY <1>2 DEF WithLayer
    <2>. DEFINE a == Append(allLayers, s)
    <2>2. /\ a \in Seq(Slots) /\ Len(a) = Len(allLayers) + 1
          /\ \A i \in 1..Len(allLayers) : a[i] = allLayers[i]
          /\ a[Len(allLayers) + 1] = s
      BY AppendProperties
    <2>3. DOMAIN a = 1..Len(allLayers) + 1
      BY <2>2, LenProperties
    <2>. HIDE DEF a
    <2>4. DOMAIN a = Handles \cup {FreeHandle}
      BY <1>2, <2>3, FreeSlot
    <2>. QED
      BY <1>2, <2>1, <2>2, <2>4, FreeSlot DEF a
  <1>. QED
    BY <1>1, <1>2

(* RemoveAllLayers passes over no layer.                                   *)
LEMMA NextSlot ==
  ASSUME allLayers \in Seq(Slots), NEW h \in Nat
  PROVE  LET m == NextValid(h)
         IN  /\ m \in Nat
             /\ m = 0 => \A k \in Handles : k >= h => allLayers[k] = NULL
             /\ m # 0 => /\ m \in Handles /\ m >= h /\ allLayers[m] # NULL
                         /\ \A k \in Handles : k >= h /\ k < m => allLayers[k] = NULL
  <1>. DEFINE rest == {k \in Handles : k >= h /\ allLayers[k] # NULL}
             P(k) == \A m \in rest : k <= m
  <1>1. Handles \subseteq Nat \ {0}
    BY FreeSlot
  <1>2. NextValid(h) = IF rest = {} THEN 0 ELSE CHOOSE k \in rest : P(k)
    BY DEF NextValid
  <1>3. CASE rest = {}
    BY <1>2, <1>3
  <1>4. CASE rest # {}
    <2>1. \E k \in rest : P(k)
      <3>1. rest \subseteq Nat
        BY <1>1
      <3>. HIDE DEF rest
      <3>. QED
        BY <1>4, <3>1, LeastOf
    <2>2. NextValid(h) \in rest /\ P(NextValid(h))
      BY <1>2, <1>4, <2>1
    <2>3. ASSUME NEW k \in Handles, k >= h, k < NextValid(h)
          PROVE  allLayers[k] = NULL
      <3>1. k \in Nat /\ NextValid(h) \in Nat
        BY <1>1, <2>2
      <3>. HIDE DEF P
      <3>2. ~ (NextValid(h) <= k)
        BY <2>3, <3>1
      <3>. QED
        BY <2>2, <2>3, <3>2 DEF P
    <2>. QED
      BY <1>1, <2>2, <2>3
  <1>. QED
    BY <1>3, <1>4

(* RemoveLayerCore takes the handle it is given out of the list.           *)
LEMMA FirstTaken ==
  ASSUME NEW S, NEW s \in Seq(S), NEW h
  PROVE  \/ h \notin ToSet(s) /\ WithoutHandle(s, h) = s
         \/ \E i \in 1..Len(s) : s[i] = h /\ WithoutHandle(s, h) = RemoveAt(s, i)
  <1>. DEFINE I == {i \in 1..Len(s) : s[i] = h}
  <1>0. Len(s) \in Nat /\ DOMAIN s = 1..Len(s)
    BY LenProperties
  <1>1. CASE I = {}
    <2>1. WithoutHandle(s, h) = s
      BY <1>1 DEF WithoutHandle, RemoveFirst
    <2>2. h \notin ToSet(s)
      BY <1>0, <1>1 DEF ToSet
    <2>. QED
      BY <2>1, <2>2
  <1>2. CASE I # {}
    <2>1. SelectInSeq(s, LAMBDA v : v = h) = CHOOSE x \in I : \A y \in I : x <= y
      BY <1>2 DEF SelectInSeq, Min
    <2>2. \E x \in I : \A y \in I : x <= y
      <3>1. I \subseteq Nat
        BY <1>0
      <3>. HIDE DEF I
      <3>. QED
        BY <1>2, <3>1, LeastOf
    <2>3. PICK i \in I : WithoutHandle(s, h) = RemoveAt(s, i)
      BY <1>2, <2>1, <2>2 DEF WithoutHandle, RemoveFirst
    <2>. QED
      BY <2>3
  <1>. QED
    BY <1>1, <1>2

LEMMA HandleTaken ==
  ASSUME NEW S, NEW s \in Seq(S), NEW h, IsInjective(s)
  PROVE  /\ WithoutHandle(s, h) \in Seq(S)
         /\ IsInjective(WithoutHandle(s, h))
         /\ ToSet(WithoutHandle(s, h)) = ToSet(s) \ {h}
  <1>1. CASE h \notin ToSet(s) /\ WithoutHandle(s, h) = s
    BY <1>1
  <1>2. CASE \E i \in 1..Len(s) : s[i] = h /\ WithoutHandle(s, h) = RemoveAt(s, i)
    BY <1>2, TakenOut
  <1>. QED
    BY <1>1, <1>2, FirstTaken

LEMMA LayerTaken ==
  ASSUME allLayers \in Seq(Slots), NEW S, activeLayers \in Seq(S),
         Agreed(allLayers, activeLayers), NEW h \in Handles,
         allLayers' = [allLayers EXCEPT ![h] = NULL],
         activeLayers' = WithoutHandle(activeLayers, h)
  PROVE  /\ allLayers' \in Seq(Slots) /\ Handles' = Handles
         /\ \A k \in Handles : allLayers'[k] = IF k = h THEN NULL ELSE allLayers[k]
         /\ activeLayers' \in Seq(S)
         /\ Agreed(allLayers', activeLayers')
  <1>1. h \in 1..Len(allLayers) /\ NULL \in Slots
    BY FreeSlot DEF Slots
  <1>2. allLayers' \in Seq(Slots)
    BY <1>1, ExceptSeq
  <1>3. /\ DOMAIN allLayers' = DOMAIN allLayers
        /\ \A k \in Handles : allLayers'[k] = IF k = h THEN NULL ELSE allLayers[k]
    BY DEF Handles
  <1>4. /\ activeLayers' \in Seq(S) /\ IsInjective(activeLayers')
        /\ ToSet(activeLayers') = ToSet(activeLayers) \ {h}
    BY HandleTaken DEF Agreed
  <1>. QED
    BY <1>2, <1>3, <1>4 DEF Agreed, Handles

(* Moving a layer leaves the same handles in the list.                     *)
LEMMA LayerMoved ==
  ASSUME NEW S, activeLayers \in Seq(S), IsInjective(activeLayers),
         NEW i \in DOMAIN activeLayers, NEW j \in DOMAIN activeLayers,
         NEW t, t \in {MoveLayerUp(i), MoveLayerDown(i), MoveLayerTop(i),
                       MoveLayerBottom(i), MoveLayer(i, j)}
  PROVE  t \in Seq(S) /\ IsInjective(t) /\ ToSet(t) = ToSet(activeLayers)
  <1>. DEFINE n == Len(activeLayers)
             r == RemoveAt(activeLayers, i)
             e == activeLayers[i]
  <1>0. n \in Nat /\ DOMAIN activeLayers = 1..n /\ i \in 1..n /\ j \in 1..n /\ e \in S
    BY LenProperties, ElementOfSeq
  <1>1. /\ r \in Seq(S) /\ Len(r) = n - 1 /\ IsInjective(r)
        /\ ToSet(r) = ToSet(activeLayers) \ {e}
    BY <1>0, TakenOut
  <1>2. e \in ToSet(activeLayers)
    BY DEF ToSet
  <1>. HIDE DEF r, e
  <1>3. /\ r \in Seq(S) /\ e \in S /\ IsInjective(r)
        /\ e \notin ToSet(r) /\ ToSet(r) \cup {e} = ToSet(activeLayers)
    BY <1>0, <1>1, <1>2
  <1>4. ASSUME NEW k \in 1..Len(r) + 1
        PROVE  /\ InsertAt(r, k, e) \in Seq(S) /\ IsInjective(InsertAt(r, k, e))
               /\ ToSet(InsertAt(r, k, e)) = ToSet(r) \cup {e}
    BY <1>3, PutAt
  <1>5. ASSUME NEW k \in 1..n
        PROVE  /\ Moved(i, k) \in Seq(S) /\ IsInjective(Moved(i, k))
               /\ ToSet(Moved(i, k)) = ToSet(activeLayers)
    <2>1. k \in 1..Len(r) + 1
      BY <1>0, <1>1
    <2>. QED
      BY <1>3, <1>4, <2>1 DEF Moved, r, e
  <1>6. CASE t = MoveLayerUp(i)
    <2>1. (IF i = n THEN i ELSE i + 1) \in 1..n
      BY <1>0
    <2>. QED
      BY <1>5, <1>6, <2>1 DEF MoveLayerUp
  <1>7. CASE t = MoveLayerDown(i)
    <2>1. (IF i = 1 THEN 1 ELSE i - 1) \in 1..n
      BY <1>0
    <2>. QED
      BY <1>5, <1>7, <2>1 DEF MoveLayerDown
  <1>8. CASE t = MoveLayer(i, j)
    BY <1>0, <1>5, <1>8 DEF MoveLayer
  <1>9. CASE t = MoveLayerTop(i)
    <2>1. t = Append(r, e)
      BY <1>9 DEF MoveLayerTop, r, e
    <2>2. /\ Append(r, e) \in Seq(S) /\ IsInjective(Append(r, e))
          /\ ToSet(Append(r, e)) = ToSet(r) \cup {e}
      BY ONLY <1>3, PutLast
    <2>. QED
      BY <1>3, <2>1, <2>2
  <1>10. CASE t = MoveLayerBottom(i)
    <2>1. t = <<e>> \o r
      BY <1>10 DEF MoveLayerBottom, r, e
    <2>2. /\ <<e>> \o r \in Seq(S) /\ IsInjective(<<e>> \o r)
          /\ ToSet(<<e>> \o r) = ToSet(r) \cup {e}
      BY ONLY <1>3, PutFirst
    <2>. QED
      BY <1>3, <2>1, <2>2
  <1>. QED
    BY <1>6, <1>7, <1>8, <1>9, <1>10

-----------------------------------------------------------------------------
(* The inductive invariant.  Beside the two lists and the lock it says how *)
(* far the loops of RemoveAllLayers have come that still wait for a        *)
(* handler: every slot up to there is empty, so that all of them are when  *)
(* the loop finds no more layers and the slots are dropped.                *)
Typed ==
  /\ allLayers \in Seq(Slots)
  /\ running \in Seq(Nat) /\ lockCount \in Nat /\ locks \in Nat

PassedOver ==
  \A k \in DOMAIN running : running[k] > 0 =>
    \A h \in Handles : h <= running[k] => allLayers[h] = NULL

Synced ==
  "swept" \notin lapses =>
    /\ activeLayers \in Seq(Nat) /\ Agreed(allLayers, activeLayers)
    /\ fault # "layer" /\ PassedOver

IInv == Typed /\ Synced /\ LockBalanced

LEMMA InitIInv == Init => IInv
  <1>. SUFFICES ASSUME Init PROVE IInv
    OBVIOUS
  <1>1. Typed
    BY EmptySeq DEF Init, Typed
  <1>2. DOMAIN allLayers = {} /\ DOMAIN activeLayers = {} /\ DOMAIN running = {}
        /\ Len(running) = 0
    BY DEF Init
  <1>3. Agreed(allLayers, activeLayers)
    BY <1>2 DEF Agreed, IsInjective, ToSet
  <1>4. Synced
    BY <1>2, <1>3, EmptySeq DEF Init, Synced, PassedOver
  <1>5. LockBalanced
    BY <1>2 DEF Init, LockBalanced
  <1>. QED
    BY <1>1, <1>4, <1>5 DEF IInv

(* A step that leaves the lists and the calls that run as they are.        *)
LEMMA ListsKept ==
  ASSUME IInv, UNCHANGED <<layerVars, running>>,
         "swept" \in lapses => "swept" \in lapses',
         fault' = "layer" => fault = "layer" \/ ~ Drawable(allLayers, activeLayers)
  PROVE  Synced'
  <1>1. Synced /\ Handles' = Handles
    BY DEF IInv, Handles, layerVars
  <1>2. ASSUME "swept" \notin lapses'
        PROVE  /\ activeLayers' \in Seq(Nat) /\ Agreed(allLayers, activeLayers)'
               /\ fault' # "layer" /\ PassedOver'
    <2>1. /\ activeLayers \in Seq(Nat) /\ Agreed(allLayers, activeLayers)
          /\ fault # "layer" /\ PassedOver
      BY <1>1, <1>2 DEF Synced
    <2>2. fault' # "layer"
      BY <2>1, AgreedIsDrawable
    <2>3. Agreed(allLayers, activeLayers)'
      BY <2>1 DEF Agreed, layerVars
    <2>. QED
      BY <1>1, <2>1, <2>2, <2>3 DEF PassedOver, layerVars
  <1>. QED
    BY <1>2 DEF Synced

(* A call that locks the window and waits for its handler.                 *)
LEMMA Nested ==
  ASSUME IInv, NEW e \in Nat, running' = Append(running, e), LockWindow,
         UNCHANGED locks, "panned" \in lapses => "panned" \in lapses'
  PROVE  /\ running' \in Seq(Nat) /\ lockCount' \in Nat /\ locks' \in Nat
         /\ LockBalanced'
         /\ \A k \in DOMAIN running' :
              running'[k] = e \/ (k \in DOMAIN running /\ running'[k] = running[k])
  <1>. DEFINE n == Len(running)
             m == Len(running')
  <1>1. /\ running \in Seq(Nat) /\ lockCount \in Nat /\ locks \in Nat /\ LockBalanced
        /\ lockCount' = lockCount + 1
    BY DEF IInv, Typed, LockWindow
  <1>2. n \in Nat /\ running' \in Seq(Nat) /\ m = n + 1
        /\ (\A i \in 1..n : running'[i] = running[i]) /\ running'[n + 1] = e
    BY <1>1, Nesting
  <1>3. DOMAIN running = 1..n /\ DOMAIN running' = 1..m
    BY <1>1, <1>2, LenProperties
  <1>4. "panned" \notin lapses' => lockCount = locks + n
    BY <1>1 DEF LockBalanced
  <1>. HIDE DEF n, m
  <1>5. "panned" \notin lapses' => lockCount' = locks' + m
    BY <1>1, <1>2, <1>4
  <1>6. \A k \in 1..m : k = n + 1 \/ k \in 1..n
    BY <1>2
  <1>7. LockBalanced'
    BY <1>5 DEF LockBalanced, m
  <1>. QED
    BY <1>1, <1>2, <1>3, <1>6, <1>7

(* A call that opens the lock after its handler.                           *)
LEMMA Returned ==
  ASSUME IInv, running # <<>>, running' = Front(running), UNCHANGED <<locks, lapses>>,
         lockCount' = IF lockCount <= 1 THEN 0 ELSE lockCount - 1
  PROVE  /\ running' \in Seq(Nat) /\ lockCount' \in Nat /\ locks' \in Nat
         /\ LockBalanced'
         /\ Last(running) \in Nat /\ Len(running) \in DOMAIN running
         /\ Last(running) = running[Len(running)]
         /\ \A k \in DOMAIN running' : k \in DOMAIN running /\ running'[k] = running[k]
  <1>. DEFINE n == Len(running)
             m == Len(running')
  <1>1. running \in Seq(Nat) /\ lockCount \in Nat /\ locks \in Nat /\ LockBalanced
    BY DEF IInv, Typed
  <1>2. /\ n \in Nat /\ n > 0 /\ running' \in Seq(Nat) /\ m = n - 1
        /\ \A i \in 1..n - 1 : running'[i] = running[i]
        /\ Last(running) = running[n] /\ Last(running) \in Nat
    BY <1>1, Nesting
  <1>3. DOMAIN running = 1..n /\ DOMAIN running' = 1..m
    BY <1>1, <1>2, LenProperties
  <1>4. "panned" \notin lapses' => lockCount = locks + n
    BY <1>1 DEF LockBalanced
  <1>. HIDE DEF n, m
  <1>5. /\ lockCount' \in Nat
        /\ "panned" \notin lapses' => lockCount' = locks' + m
    BY <1>1, <1>2, <1>4
  <1>6. /\ n \in 1..n
        /\ \A k \in 1..m : k \in 1..n /\ k \in 1..n - 1
    BY <1>2
  <1>7. LockBalanced'
    BY <1>5 DEF LockBalanced, m
  <1>. QED
    BY <1>1, <1>2, <1>3, <1>5, <1>6, <1>7 DEF n

(* A step that has to do with neither the layers nor the lock.             *)
LEMMA Elsewhere ==
  ASSUME IInv, UNCHANGED <<layerVars, running, lockCount, locks>>,
         "swept" \in lapses => "swept" \in lapses',
         "panned" \in lapses => "panned" \in lapses',
         fault' = "layer" => fault = "layer" \/ ~ Drawable(allLayers, activeLayers)
  PROVE  IInv'
  <1>1. Synced'
    BY ListsKept
  <1>2. Typed'
    BY DEF IInv, Typed, layerVars
  <1>3. LockBalanced'
    BY DEF IInv, LockBalanced
  <1>. QED
    BY <1>1, <1>2, <1>3 DEF IInv

LEMMA EditStep ==
  ASSUME IInv,
         \/ \E s \in Source : \/ StartEditingShapes(s) \/ StopEditingShapes(s)
                             \/ \E i \in DOMAIN shapes[s] : EditDeleteShape(s, i)
         \/ ClickShape \/ ClickCrashes \/ DrawShape \/ ClearEditor
         \/ AddClosed
  PROVE  IInv'
  <1>. USE DEF layerVars, editVars
  <1>1. ASSUME NEW s \in Source, StartEditingShapes(s) PROVE IInv'
    BY <1>1, Elsewhere DEF StartEditingShapes
  <1>2. ASSUME NEW s \in Source, StopEditingShapes(s) PROVE IInv'
    BY <1>2, Elsewhere DEF StopEditingShapes
  <1>3. ASSUME NEW s \in Source, NEW i \in DOMAIN shapes[s], EditDeleteShape(s, i)
        PROVE  IInv'
    BY <1>3, Elsewhere DEF EditDeleteShape
  <1>4. CASE ClickShape
    <2>1. CASE SelectSingleShape
      <3>1. /\ lapses' = lapses \/ lapses' = lapses \ {"astray"}
            /\ fault' = fault \/ ~ Drawable(allLayers, activeLayers)
        BY <2>1 DEF SelectSingleShape, SetEditShape
      <3>. QED
        BY <1>4, <3>1, Elsewhere DEF ClickShape
    <2>2. CASE ClientSelects
      BY <1>4, <2>2, Elsewhere DEF ClickShape, ClientSelects
    <2>. QED
      BY <1>4, <2>1, <2>2 DEF ClickShape
  <1>5. CASE ClickCrashes
    BY <1>5, Elsewhere DEF ClickCrashes
  <1>6. CASE DrawShape
    BY <1>6, Elsewhere DEF DrawShape
  <1>7. CASE ClearEditor
    BY <1>7, Elsewhere DEF ClearEditor
  <1>8. CASE AddClosed
    <2>1. fault' = "layer" => fault = "layer" \/ ~ Drawable(allLayers, activeLayers)
      BY <1>8 DEF AddClosed, LockAndUnlock, ReloadImageBuffers
    <2>. QED
      BY <1>8, <2>1, Elsewhere DEF AddClosed, LockAndUnlock
  <1>. QED
    BY <1>1, <1>2, <1>3, <1>4, <1>5, <1>6, <1>7, <1>8

LEMMA LockStep ==
  ASSUME IInv, ClientLocks \/ ClientUnlocks \/ DoPanning
  PROVE  IInv'
  <1>. DEFINE n == Len(running)
  <1>0. /\ Typed /\ lockCount \in Nat /\ locks \in Nat /\ n \in Nat
        /\ "panned" \notin lapses => lockCount = locks + n
    BY Nesting DEF IInv, Typed, LockBalanced
  <1>1. /\ UNCHANGED <<layerVars, running>>
        /\ "swept" \in lapses => "swept" \in lapses'
        /\ fault' = "layer" => fault = "layer" \/ ~ Drawable(allLayers, activeLayers)
    BY DEF ClientLocks, ClientUnlocks, DoPanning, UnlockWindow, ReloadImageBuffers
  <1>2. Synced'
    BY <1>1, ListsKept
  <1>3. allLayers' = allLayers /\ running' = running /\ Len(running') = n
    BY <1>1 DEF layerVars
  <1>. HIDE DEF n
  <1>4. /\ lockCount' \in Nat /\ locks' \in Nat
        /\ "panned" \notin lapses' => lockCount' = locks' + n
    <2>1. CASE ClientLocks
      BY <1>0, <2>1 DEF ClientLocks, LockWindow
    <2>2. CASE ClientUnlocks
      BY <1>0, <2>2 DEF ClientUnlocks, UnlockWindow
    <2>3. CASE DoPanning
      BY <1>0, <2>3 DEF DoPanning
    <2>. QED
      BY <2>1, <2>2, <2>3
  <1>5. Typed' /\ LockBalanced'
    BY <1>0, <1>3, <1>4 DEF Typed, LockBalanced
  <1>. QED
    BY <1>2, <1>5 DEF IInv

LEMMA MoveStep ==
  ASSUME IInv, Move
  PROVE  IInv'
  <1>1. /\ UNCHANGED <<allLayers, lockCount, running, locks, fault, lapses>>
        /\ Handles' = Handles
    BY DEF Move, Handles
  <1>2. Typed' /\ LockBalanced'
    BY <1>1 DEF IInv, Typed, LockBalanced
  <1>3. ASSUME "swept" \notin lapses'
        PROVE  /\ activeLayers' \in Seq(Nat) /\ Agreed(allLayers, activeLayers)'
               /\ fault' # "layer" /\ PassedOver'
    <2>1. /\ activeLayers \in Seq(Nat) /\ Agreed(allLayers, activeLayers)
          /\ fault # "layer" /\ PassedOver
      BY <1>1, <1>3 DEF IInv, Synced
    <2>2. PICK i \in DOMAIN activeLayers, j \in DOMAIN activeLayers :
            activeLayers' \in {MoveLayerUp(i), MoveLayerDown(i), MoveLayerTop(i),
                              MoveLayerBottom(i), MoveLayer(i, j)}
      BY DEF Move
    <2>3. /\ activeLayers' \in Seq(Nat) /\ IsInjective(activeLayers')
          /\ ToSet(activeLayers') = ToSet(activeLayers)
      BY <2>1, <2>2, LayerMoved DEF Agreed
    <2>. QED
      BY <1>1, <2>1, <2>3 DEF Agreed, PassedOver
  <1>. QED
    BY <1>2, <1>3 DEF IInv, Synced

LEMMA AddStep ==
  ASSUME IInv, NEW s \in Source, AddLayer(s) \/ RefuseLayer(s)
  PROVE  IInv'
  <1>. DEFINE h == FreeHandle
  <1>1. /\ running' = Append(running, 0) /\ LockWindow /\ UNCHANGED <<locks, fault>>
        /\ "swept" \in lapses => "swept" \in lapses'
        /\ "panned" \in lapses => "panned" \in lapses'
    BY DEF AddLayer, RefuseLayer
  <1>2. /\ running' \in Seq(Nat) /\ lockCount' \in Nat /\ locks' \in Nat /\ LockBalanced'
        /\ \A k \in DOMAIN running' :
             running'[k] = 0 \/ (k \in DOMAIN running /\ running'[k] = running[k])
    BY <1>1, Nested
  <1>3. allLayers \in Seq(Slots) /\ s \in Slots /\ NULL \in Slots /\ s # NULL
    BY MapLayersAssumption DEF IInv, Typed, Slots
  <1>4. allLayers' = WithLayer(h, s) \/ allLayers' = WithLayer(h, NULL)
    BY DEF AddLayer, RefuseLayer
  <1>5. /\ allLayers' \in Seq(Slots)
        /\ Handles' = Handles \cup {h}
        /\ \A k \in Handles : k # h => allLayers'[k] = allLayers[k]
        /\ allLayers' = WithLayer(h, s) => allLayers'[h] = s
        /\ allLayers' = WithLayer(h, NULL) => allLayers'[h] = NULL
    BY <1>3, <1>4, SlotFilled DEF Handles
  <1>6. h \in Nat /\ (h \in Handles => allLayers[h] = NULL)
    BY <1>3, FreeSlot
  <1>7. ASSUME "swept" \notin lapses'
        PROVE  /\ activeLayers' \in Seq(Nat) /\ Agreed(allLayers, activeLayers)'
               /\ fault' # "layer" /\ PassedOver'
    <2>1. /\ activeLayers \in Seq(Nat) /\ Agreed(allLayers, activeLayers)
          /\ fault # "layer" /\ PassedOver
      BY <1>1, <1>7 DEF IInv, Synced
    <2>2. h \notin ToSet(activeLayers)
      BY <1>6, <2>1 DEF Agreed, Handles
    <2>3. CASE AddLayer(s)
      <3>1. allLayers' = WithLayer(h, s) /\ activeLayers' = Append(activeLayers, h)
            /\ allLayers'[h] = s
        BY <1>5, <2>3 DEF AddLayer
      <3>2. /\ activeLayers' \in Seq(Nat) /\ IsInjective(activeLayers')
            /\ ToSet(activeLayers') = ToSet(activeLayers) \cup {h}
        BY <1>6, <2>1, <2>2, <3>1, PutLast DEF Agreed
      <3>3. {k \in Handles' : allLayers'[k] # NULL} = ToSet(activeLayers')
        BY <1>3, <1>5, <1>6, <2>1, <3>1, <3>2 DEF Agreed, Handles
      <3>4. ~ Sweeping
        BY <1>7, <2>3 DEF AddLayer
      <3>5. PassedOver'
        BY <1>2, <3>4 DEF PassedOver, Sweeping
      <3>. QED
        BY <1>1, <2>1, <3>2, <3>3, <3>5 DEF Agreed, Handles
    <2>4. CASE RefuseLayer(s)
      <3>1. /\ allLayers' = WithLayer(h, NULL) /\ allLayers'[h] = NULL
            /\ activeLayers' = WithoutHandle(Append(activeLayers, h), h)
        BY <1>5, <2>4 DEF RefuseLayer
      <3>2. /\ Append(activeLayers, h) \in Seq(Nat) /\ IsInjective(Append(activeLayers, h))
            /\ ToSet(Append(activeLayers, h)) = ToSet(activeLayers) \cup {h}
        BY <1>6, <2>1, <2>2, PutLast DEF Agreed
      <3>3. /\ activeLayers' \in Seq(Nat) /\ IsInjective(activeLayers')
            /\ ToSet(activeLayers') = ToSet(activeLayers)
        <4>. DEFINE a == Append(activeLayers, h)
        <4>1. a \in Seq(Nat) /\ IsInjective(a) /\ ToSet(a) \ {h} = ToSet(activeLayers)
          BY <2>2, <3>2
        <4>2. activeLayers' = WithoutHandle(a, h)
          BY <3>1
        <4>. HIDE DEF a
        <4>. QED
          BY <4>1, <4>2, HandleTaken
      <3>4. {k \in Handles' : allLayers'[k] # NULL} = ToSet(activeLayers')
        BY <1>5, <1>6, <2>1, <3>1, <3>3 DEF Agreed, Handles
      <3>5. ASSUME NEW k \in DOMAIN running', running'[k] > 0,
                   NEW m \in Handles', m <= running'[k]
            PROVE  allLayers'[m] = NULL
        <4>1. k \in DOMAIN running /\ running'[k] = running[k]
          BY <1>2, <3>5
        <4>2. m = h \/ (m \in Handles /\ allLayers'[m] = allLayers[m])
          BY <1>5
        <4>. QED
          BY <2>1, <3>1, <3>5, <4>1, <4>2 DEF PassedOver
      <3>. QED
        BY <1>1, <2>1, <3>3, <3>4, <3>5 DEF Agreed, Handles, PassedOver
    <2>. QED
      BY <2>3, <2>4
  <1>. QED
    BY <1>2, <1>5, <1>7 DEF IInv, Typed, Synced

(* What RemoveLayerCore leaves of the invariant.                           *)
LEMMA CoreTakes ==
  ASSUME IInv, NEW h \in Handles, NEW close, RemoveLayerCore(h, close)
  PROVE  /\ allLayers' \in Seq(Slots) /\ Handles' = Handles
         /\ \A k \in Handles : allLayers[k] = NULL \/ k = h => allLayers'[k] = NULL
         /\ "swept" \in lapses => "swept" \in lapses'
         /\ "panned" \in lapses => "panned" \in lapses'
         /\ "swept" \notin lapses' =>
              activeLayers' \in Seq(Nat) /\ Agreed(allLayers, activeLayers)'
  <1>1. /\ allLayers' = [allLayers EXCEPT ![h] = NULL]
        /\ activeLayers' = WithoutHandle(activeLayers, h)
        /\ "swept" \in lapses => "swept" \in lapses'
        /\ "panned" \in lapses => "panned" \in lapses'
    BY DEF RemoveLayerCore
  <1>2. /\ allLayers \in Seq(Slots) /\ NULL \in Slots /\ h \in 1..Len(allLayers)
    BY FreeSlot DEF IInv, Typed, Slots
  <1>3. allLayers' \in Seq(Slots)
    BY <1>1, <1>2, ExceptSeq
  <1>4. /\ Handles' = Handles
        /\ \A k \in Handles : allLayers[k] = NULL \/ k = h => allLayers'[k] = NULL
    BY <1>1 DEF Handles
  <1>5. ASSUME "swept" \notin lapses'
        PROVE  activeLayers' \in Seq(Nat) /\ Agreed(allLayers, activeLayers)'
    <2>1. activeLayers \in Seq(Nat) /\ Agreed(allLayers, activeLayers)
      BY <1>1, <1>5 DEF IInv, Synced
    <2>2. activeLayers' \in Seq(Nat) /\ Agreed(allLayers', activeLayers')
      BY <1>1, <1>2, <2>1, LayerTaken
    <2>. QED
      BY <2>2 DEF Agreed
  <1>. QED
    BY <1>1, <1>3, <1>4, <1>5

LEMMA RemoveStep ==
  ASSUME IInv, NEW h \in Handles, NEW close, RemoveLayer(h, close)
  PROVE  IInv'
  <1>1. UNCHANGED <<lockCount, running, locks, fault>> /\ RemoveLayerCore(h, close)
    BY DEF RemoveLayer
  <1>2. /\ allLayers' \in Seq(Slots) /\ Handles' = Handles
        /\ \A k \in Handles : allLayers[k] = NULL \/ k = h => allLayers'[k] = NULL
        /\ "swept" \in lapses => "swept" \in lapses'
        /\ "panned" \in lapses => "panned" \in lapses'
        /\ "swept" \notin lapses' =>
             activeLayers' \in Seq(Nat) /\ Agreed(allLayers, activeLayers)'
    BY <1>1, CoreTakes
  <1>3. Typed' /\ LockBalanced'
    BY <1>1, <1>2 DEF IInv, Typed, LockBalanced
  <1>4. ASSUME "swept" \notin lapses'
        PROVE  fault' # "layer" /\ PassedOver'
    <2>1. fault # "layer" /\ PassedOver
      BY <1>2, <1>4 DEF IInv, Synced
    <2>. QED
      BY <1>1, <1>2, <2>1 DEF PassedOver
  <1>. QED
    BY <1>2, <1>3, <1>4 DEF IInv, Synced

LEMMA LayerAddedStep ==
  ASSUME IInv, LayerAdded
  PROVE  IInv'
  <1>1. /\ running # <<>> /\ running' = Front(running)
        /\ UNCHANGED <<locks, lapses, allLayers, activeLayers>> /\ Handles' = Handles
        /\ lockCount' = IF lockCount <= 1 THEN 0 ELSE lockCount - 1
        /\ fault' = fault \/ (fault' = "layer" /\ ~ Drawable(allLayers, activeLayers))
    BY DEF LayerAdded, layerVars, UnlockWindow, ReloadImageBuffers, Handles
  <1>2. /\ running' \in Seq(Nat) /\ lockCount' \in Nat /\ locks' \in Nat /\ LockBalanced'
        /\ \A k \in DOMAIN running' : k \in DOMAIN running /\ running'[k] = running[k]
    BY <1>1, Returned
  <1>3. ASSUME "swept" \notin lapses'
        PROVE  /\ activeLayers' \in Seq(Nat) /\ Agreed(allLayers, activeLayers)'
               /\ fault' # "layer" /\ PassedOver'
    <2>1. /\ activeLayers \in Seq(Nat) /\ Agreed(allLayers, activeLayers)
          /\ fault # "layer" /\ PassedOver
      BY <1>1, <1>3 DEF IInv, Synced
    <2>2. fault' # "layer"
      BY <1>1, <2>1, AgreedIsDrawable
    <2>3. PassedOver'
      BY <1>1, <1>2, <2>1 DEF PassedOver
    <2>. QED
      BY <1>1, <2>1, <2>2, <2>3 DEF Agreed
  <1>. QED
    BY <1>1, <1>2, <1>3 DEF IInv, Typed, Synced

LEMMA RemoveAllStep ==
  ASSUME IInv, RemoveAllLayers
  PROVE  IInv'
  <1>. DEFINE h == NextValid(1)
  <1>1. /\ LockWindow /\ running' = Append(running, h) /\ UNCHANGED <<locks, fault>>
        /\ RemoveLayerCore(h, TRUE) /\ h # 0
    BY DEF RemoveAllLayers
  <1>2. /\ h \in Nat /\ h \in Handles /\ Handles \subseteq Nat \ {0}
        /\ \A k \in Handles : k < h => allLayers[k] = NULL
    <2>1. allLayers \in Seq(Slots)
      BY DEF IInv, Typed
    <2>2. Handles \subseteq Nat \ {0} /\ \A k \in Handles : k >= 1
      BY <2>1, FreeSlot
    <2>. QED
      BY <1>1, <2>1, <2>2, NextSlot
  <1>. HIDE DEF h
  <1>3. /\ allLayers' \in Seq(Slots) /\ Handles' = Handles
        /\ \A k \in Handles : allLayers[k] = NULL \/ k = h => allLayers'[k] = NULL
        /\ "swept" \in lapses => "swept" \in lapses'
        /\ "panned" \in lapses => "panned" \in lapses'
        /\ "swept" \notin lapses' =>
             activeLayers' \in Seq(Nat) /\ Agreed(allLayers, activeLayers)'
    BY <1>1, <1>2, CoreTakes
  <1>4. /\ running' \in Seq(Nat) /\ lockCount' \in Nat /\ locks' \in Nat /\ LockBalanced'
        /\ \A k \in DOMAIN running' :
             running'[k] = h \/ (k \in DOMAIN running /\ running'[k] = running[k])
    BY <1>1, <1>2, <1>3, Nested
  <1>5. ASSUME "swept" \notin lapses'
        PROVE  fault' # "layer" /\ PassedOver'
    <2>1. fault # "layer" /\ PassedOver
      BY <1>3, <1>5 DEF IInv, Synced
    <2>2. ASSUME NEW k \in DOMAIN running', running'[k] > 0,
                 NEW m \in Handles', m <= running'[k]
          PROVE  allLayers'[m] = NULL
      <3>1. CASE running'[k] = h
        <4>1. m \in Nat /\ m \in Handles /\ (m < h \/ m = h)
          BY <1>2, <1>3, <2>2, <3>1
        <4>. QED
          BY <1>2, <1>3, <4>1
      <3>2. CASE k \in DOMAIN running /\ running'[k] = running[k]
        BY <1>3, <2>1, <2>2, <3>2 DEF PassedOver
      <3>. QED
        BY <1>4, <3>1, <3>2
    <2>. QED
      BY <1>1, <2>1, <2>2 DEF PassedOver
  <1>. QED
    BY <1>3, <1>4, <1>5 DEF IInv, Typed, Synced

LEMMA SweepStep ==
  ASSUME IInv, Sweep
  PROVE  IInv'
  <1>. DEFINE last == Last(running)
             h == NextValid(last + 1)
             f == Front(running)
  <1>1. /\ running # <<>> /\ last > 0 /\ h # 0 /\ RemoveLayerCore(h, TRUE)
        /\ running' = Append(f, h) /\ UNCHANGED <<lockCount, locks, fault>>
    BY DEF Sweep, InSweep
  <1>2. allLayers \in Seq(Slots) /\ running \in Seq(Nat) /\ Handles \subseteq Nat \ {0}
    BY FreeSlot DEF IInv, Typed
  <1>3. /\ Len(running) \in Nat /\ Len(running) > 0 /\ f \in Seq(Nat)
        /\ Len(f) = Len(running) - 1 /\ (\A i \in 1..Len(running) - 1 : f[i] = running[i])
        /\ last = running[Len(running)] /\ last \in Nat
    BY <1>1, <1>2, Nesting
  <1>4. /\ h \in Nat /\ h \in Handles
        /\ \A k \in Handles : k > last /\ k < h => allLayers[k] = NULL
    <2>1. last + 1 \in Nat
      BY <1>3
    <2>2. /\ h \in Nat /\ h \in Handles
          /\ \A k \in Handles : k >= last + 1 /\ k < h => allLayers[k] = NULL
      <3>. HIDE DEF last
      <3>. QED
        BY <1>1, <1>2, <2>1, NextSlot
    <2>. HIDE DEF last, h
    <2>3. \A k \in Handles : k > last => k >= last + 1
      BY <1>2, <1>3
    <2>. QED
      BY <2>2, <2>3
  <1>. HIDE DEF h, f, last
  <1>5. /\ allLayers' \in Seq(Slots) /\ Handles' = Handles
        /\ \A k \in Handles : allLayers[k] = NULL \/ k = h => allLayers'[k] = NULL
        /\ "swept" \in lapses => "swept" \in lapses'
        /\ "panned" \in lapses => "panned" \in lapses'
        /\ "swept" \notin lapses' =>
             activeLayers' \in Seq(Nat) /\ Agreed(allLayers, activeLayers)'
    BY <1>1, <1>4, CoreTakes
  <1>6. /\ running' \in Seq(Nat) /\ Len(running') = Len(running)
        /\ \A k \in DOMAIN running' :
             running'[k] = h \/ (k \in DOMAIN running /\ running'[k] = running[k])
    <2>1. /\ running' \in Seq(Nat) /\ Len(running') = Len(f) + 1
          /\ (\A i \in 1..Len(f) : running'[i] = f[i]) /\ running'[Len(f) + 1] = h
      BY <1>1, <1>3, <1>4, Nesting
    <2>2. Len(running') = Len(running) /\ Len(f) + 1 = Len(running)
      BY <1>3, <2>1
    <2>3. DOMAIN running' = 1..Len(running) /\ DOMAIN running = 1..Len(running)
      BY <1>2, <2>1, <2>2, LenProperties
    <2>4. ASSUME NEW k \in 1..Len(running)
          PROVE  k = Len(running) \/ (k \in 1..Len(f) /\ k \in 1..Len(running) - 1)
      BY <1>3
    <2>. QED
      BY <1>3, <2>1, <2>2, <2>3, <2>4
  <1>7. Len(running) \in DOMAIN running
    BY <1>2, <1>3, LenProperties
  <1>8. ASSUME "swept" \notin lapses'
        PROVE  fault' # "layer" /\ PassedOver'
    <2>1. fault # "layer" /\ PassedOver
      BY <1>5, <1>8 DEF IInv, Synced
    <2>2. \A k \in Handles : k <= last => allLayers[k] = NULL
      BY <1>1, <1>3, <1>7, <2>1 DEF PassedOver
    <2>3. ASSUME NEW k \in DOMAIN running', running'[k] > 0,
                 NEW m \in Handles', m <= running'[k]
          PROVE  allLayers'[m] = NULL
      <3>1. CASE running'[k] = h
        <4>1. m \in Handles /\ (m <= last \/ (m > last /\ m < h) \/ m = h)
          BY <1>2, <1>3, <1>4, <1>5, <2>3, <3>1
        <4>. QED
          BY <1>4, <1>5, <2>2, <4>1
      <3>2. CASE k \in DOMAIN running /\ running'[k] = running[k]
        BY <1>5, <2>1, <2>3, <3>2 DEF PassedOver
      <3>. QED
        BY <1>6, <3>1, <3>2
    <2>. QED
      BY <1>1, <2>1, <2>3 DEF PassedOver
  <1>9. Typed' /\ LockBalanced'
    BY <1>1, <1>5, <1>6 DEF IInv, Typed, LockBalanced
  <1>. QED
    BY <1>5, <1>8, <1>9 DEF IInv, Synced

(* When the slots are dropped all of them are empty, and so is the list.   *)
LEMMA Dropped ==
  ASSUME NEW S, activeLayers \in Seq(S), Agreed(allLayers, activeLayers),
         \A k \in Handles : allLayers[k] = NULL,
         allLayers' = <<>>, UNCHANGED activeLayers
  PROVE  Agreed(allLayers, activeLayers)' /\ Drawable(<<>>, activeLayers)
  <1>1. ToSet(activeLayers) = {}
    BY DEF Agreed, Handles
  <1>2. DOMAIN activeLayers = {}
    BY <1>1 DEF ToSet
  <1>3. DOMAIN allLayers' = {}
    OBVIOUS
  <1>. QED
    BY <1>1, <1>2, <1>3 DEF Agreed, Drawable

LEMMA DropStep ==
  ASSUME IInv, RemoveNone \/ Swept
  PROVE  IInv'
  <1>1. /\ allLayers' = <<>> /\ UNCHANGED <<activeLayers, locks, lapses>>
        /\ fault' = fault \/ (fault' = "layer" /\ ~ Drawable(<<>>, activeLayers))
    BY DEF RemoveNone, Swept, DropSlots, LockAndUnlock, UnlockWindow, ReloadImageBuffers
  <1>2. allLayers \in Seq(Slots) /\ running \in Seq(Nat) /\ Handles \subseteq Nat \ {0}
    BY FreeSlot DEF IInv, Typed
  <1>3. allLayers' \in Seq(Slots) /\ Handles' = {}
    BY <1>1, EmptySeq DEF Handles
  <1>4. PassedOver'
    BY <1>3 DEF PassedOver
  <1>5. /\ running' \in Seq(Nat) /\ lockCount' \in Nat /\ locks' \in Nat /\ LockBalanced'
        /\ "swept" \notin lapses => \A k \in Handles : allLayers[k] = NULL
    <2>1. CASE RemoveNone
      <3>1. UNCHANGED <<running, lockCount>> /\ NextValid(1) = 0
        BY <2>1 DEF RemoveNone, LockAndUnlock
      <3>2. \A k \in Handles : k >= 1
        BY <1>2
      <3>3. \A k \in Handles : allLayers[k] = NULL
        BY <1>2, <3>1, <3>2, NextSlot
      <3>. QED
        BY <1>1, <3>1, <3>3 DEF IInv, Typed, LockBalanced
    <2>2. CASE Swept
      <3>. DEFINE last == Last(running)
      <3>1. /\ running # <<>> /\ running' = Front(running) /\ last > 0
            /\ lockCount' = IF lockCount <= 1 THEN 0 ELSE lockCount - 1
            /\ NextValid(last + 1) = 0
        BY <2>2 DEF Swept, InSweep, UnlockWindow
      <3>2. /\ running' \in Seq(Nat) /\ lockCount' \in Nat /\ locks' \in Nat
            /\ LockBalanced'
            /\ last \in Nat /\ Len(running) \in DOMAIN running
            /\ last = running[Len(running)]
        BY <1>1, <3>1, Returned
      <3>. HIDE DEF last
      <3>3. \A k \in Handles : k >= last + 1 => allLayers[k] = NULL
        <4>1. last + 1 \in Nat
          BY <3>2
        <4>. QED
          BY <1>2, <3>1, <4>1, NextSlot
      <3>4. "swept" \notin lapses => \A k \in Handles : k <= last => allLayers[k] = NULL
        BY <3>1, <3>2 DEF IInv, Synced, PassedOver
      <3>5. \A k \in Handles : k >= last + 1 \/ k <= last
        BY <1>2, <3>2
      <3>. QED
        BY <3>2, <3>3, <3>4, <3>5
    <2>. QED
      BY <2>1, <2>2
  <1>6. ASSUME "swept" \notin lapses'
        PROVE  /\ activeLayers' \in Seq(Nat) /\ Agreed(allLayers, activeLayers)'
               /\ fault' # "layer"
    <2>1. /\ activeLayers \in Seq(Nat) /\ Agreed(allLayers, activeLayers)
          /\ fault # "layer"
      BY <1>1, <1>6 DEF IInv, Synced
    <2>2. Agreed(allLayers, activeLayers)' /\ Drawable(<<>>, activeLayers)
      BY <1>1, <1>5, <1>6, <2>1, Dropped
    <2>. QED
      BY <1>1, <2>1, <2>2
  <1>. QED
    BY <1>3, <1>4, <1>5, <1>6 DEF IInv, Typed, Synced

-----------------------------------------------------------------------------
LEMMA NextIInv == IInv /\ [Next]_vars => IInv'
  <1>. SUFFICES ASSUME IInv, [Next]_vars
                PROVE  IInv'
    OBVIOUS
  <1>1. ASSUME NEW s \in Source, AddLayer(s) \/ RefuseLayer(s) PROVE IInv'
    BY <1>1, AddStep
  <1>2. ASSUME NEW s \in Source,
               \/ StartEditingShapes(s) \/ StopEditingShapes(s)
               \/ \E i \in DOMAIN shapes[s] : EditDeleteShape(s, i)
        PROVE  IInv'
    BY <1>2, EditStep
  <1>3. ASSUME NEW h \in Handles, NEW close \in BOOLEAN, RemoveLayer(h, close)
        PROVE  IInv'
    BY <1>3, RemoveStep
  <1>4. CASE AddClosed \/ ClickShape \/ ClickCrashes \/ DrawShape \/ ClearEditor
    BY <1>4, EditStep
  <1>5. CASE LayerAdded
    BY <1>5, LayerAddedStep
  <1>6. CASE RemoveAllLayers
    BY <1>6, RemoveAllStep
  <1>7. CASE RemoveNone \/ Swept
    BY <1>7, DropStep
  <1>8. CASE Sweep
    BY <1>8, SweepStep
  <1>9. CASE Move
    BY <1>9, MoveStep
  <1>10. CASE ClientLocks \/ ClientUnlocks \/ DoPanning
    BY <1>10, LockStep
  <1>11. CASE UNCHANGED vars
    BY <1>11, Elsewhere DEF vars
  <1>. QED
    BY <1>1, <1>2, <1>3, <1>4, <1>5, <1>6, <1>7, <1>8, <1>9, <1>10, <1>11 DEF Next

(* The two lists of a map agree, whatever its handlers do, but for adding  *)
(* a layer while all of them are being removed (Map_Layer.cpp:758).        *)
THEOREM ListsAlwaysAgree == Spec => []ListsAgree
  <1>1. IInv => ListsAgree
    BY DEF IInv, Synced, Agreed, ListsAgree, Handles
  <1>. QED
    BY <1>1, InitIInv, NextIInv, PTL DEF Spec

(* The lock of the window is given back as often as it is taken, through   *)
(* all nesting of calls and handlers and on every way out of AddLayer and  *)
(* RemoveAllLayers, but for the panning that opens it (Map_Events.cpp:1172).*)
THEOREM LockIsBalanced == Spec => []LockBalanced
  <1>1. IInv => LockBalanced
    BY DEF IInv
  <1>. QED
    BY <1>1, InitIInv, NextIInv, PTL DEF Spec

-----------------------------------------------------------------------------
(* The shape editor.  What is edited has its place in the layer it was     *)
(* taken from as long as nothing has led it astray, and the loops of       *)
(* RemoveAllLayers that wait for a handler have yet to come to that layer. *)
Shapes == (UNION {ToSet(FirstShapes[s]) : s \in Source}) \cup {New}

Edited ==
  /\ shapes \in [Source -> Seq(Shapes)]
  /\ editing \subseteq Source
  /\ editor \in [shape : Shapes \cup {NULL}, handle : Nat, index : Nat]

AtHome ==
  /\ IsValidLayer(allLayers, editor.handle)
  /\ LET s == allLayers[editor.handle]
     IN  editor.index \in DOMAIN shapes[s] => shapes[s][editor.index] = editor.shape
  /\ \A k \in DOMAIN running : running[k] < editor.handle

Home == "astray" \notin lapses /\ editor.shape # NULL => editor.handle = 0 \/ AtHome

EInv == Edited /\ Home

LEMMA InitEInv == Init => EInv
  <1>. SUFFICES ASSUME Init PROVE EInv
    OBVIOUS
  <1>1. FirstShapes \in [Source -> Seq(Shapes)]
    BY MapLayersAssumption, SeqMonotonic DEF Shapes
  <1>. QED
    BY <1>1 DEF Init, EInv, Edited, Home

LEMMA SlotFacts ==
  ASSUME IInv
  PROVE  /\ allLayers \in Seq(Slots) /\ running \in Seq(Nat) /\ 0 \notin Handles
         /\ \A h \in Handles : allLayers[h] # NULL => allLayers[h] \in Source
  <1>1. allLayers \in Seq(Slots) /\ running \in Seq(Nat)
    BY DEF IInv, Typed
  <1>2. Handles = 1..Len(allLayers)
    BY <1>1, LenProperties DEF Handles
  <1>3. \A h \in Handles : allLayers[h] \in Slots
    BY <1>1, <1>2, ElementOfSeq
  <1>. QED
    BY <1>1, <1>2, <1>3 DEF Slots

(* A shape that is at home is saved as what it is, and nothing crashes.    *)
LEMMA HomeIsSafe ==
  ASSUME IInv, EInv, "astray" \notin lapses, editor.shape # NULL
  PROVE  SaveEditShape = shapes /\ ~Crashes
  <1>1. CASE editor.handle = 0
    BY <1>1, SlotFacts DEF SaveEditShape, Crashes
  <1>2. CASE AtHome
    <2>. DEFINE s == allLayers[editor.handle]
    <2>1. editor.handle \in Handles /\ s # NULL
      BY <1>2 DEF AtHome, IsValidLayer, Handles
    <2>2. s \in Source /\ shapes \in [Source -> Seq(Shapes)]
      BY <2>1, SlotFacts DEF EInv, Edited
    <2>3. editor.index \in DOMAIN shapes[s] => shapes[s][editor.index] = editor.shape
      BY <1>2 DEF AtHome
    <2>. HIDE DEF s
    <2>4. editor.index \in DOMAIN shapes[s] =>
            [shapes EXCEPT ![s][editor.index] = editor.shape] = shapes
      BY <2>2, <2>3
    <2>. QED
      BY <2>1, <2>4 DEF s, SaveEditShape, Crashes
  <1>. QED
    BY <1>1, <1>2 DEF EInv, Home

LEMMA SavedTyped ==
  ASSUME IInv, EInv, editor.shape # NULL
  PROVE  SaveEditShape \in [Source -> Seq(Shapes)]
  <1>. DEFINE s == allLayers[editor.handle]
  <1>1. shapes \in [Source -> Seq(Shapes)] /\ editor.shape \in Shapes /\ editing \subseteq Source
    BY DEF EInv, Edited
  <1>2. ASSUME s \in editing, editor.index \in DOMAIN shapes[s]
        PROVE  [shapes EXCEPT ![s][editor.index] = editor.shape] \in [Source -> Seq(Shapes)]
    <2>1. s \in Source /\ shapes[s] \in Seq(Shapes)
      BY <1>1, <1>2
    <2>. HIDE DEF s
    <2>2. editor.index \in 1..Len(shapes[s])
      BY <1>2, <2>1, LenProperties
    <2>3. [shapes[s] EXCEPT ![editor.index] = editor.shape] \in Seq(Shapes)
      BY <1>1, <2>1, <2>2, ExceptSeq
    <2>. QED
      BY <1>1, <2>1, <2>3
  <1>. QED
    BY <1>1, <1>2 DEF SaveEditShape

(* A step that does not edit, remove or clean up.                          *)
LEMMA HomeKept ==
  ASSUME EInv, UNCHANGED editVars, "astray" \in lapses => "astray" \in lapses',
         AtHome /\ editor.shape # NULL /\ "astray" \notin lapses' =>
           /\ IsValidLayer(allLayers', editor.handle)
           /\ allLayers'[editor.handle] = allLayers[editor.handle]
           /\ \A k \in DOMAIN running' : running'[k] < editor.handle
  PROVE  EInv'
  <1>1. UNCHANGED <<shapes, editing, editor>>
    BY DEF editVars
  <1>2. Edited'
    BY <1>1 DEF EInv, Edited
  <1>3. Home'
    BY <1>1 DEF EInv, Home, AtHome
  <1>. QED
    BY <1>2, <1>3 DEF EInv

LEMMA HomeAdd ==
  ASSUME IInv, EInv, NEW s \in Source, AddLayer(s) \/ RefuseLayer(s)
  PROVE  EInv'
  <1>. DEFINE h == FreeHandle
  <1>1. /\ running' = Append(running, 0) /\ UNCHANGED editVars
        /\ "astray" \in lapses => "astray" \in lapses'
        /\ allLayers' = WithLayer(h, s) \/ allLayers' = WithLayer(h, NULL)
    BY DEF AddLayer, RefuseLayer
  <1>2. /\ allLayers \in Seq(Slots) /\ s \in Slots /\ NULL \in Slots /\ running \in Seq(Nat)
    BY SlotFacts DEF Slots
  <1>3. /\ Handles' = Handles \cup {h}
        /\ \A k \in Handles : k # h => allLayers'[k] = allLayers[k]
        /\ h \in Handles => allLayers[h] = NULL
    BY <1>1, <1>2, SlotFilled, FreeSlot DEF Handles
  <1>4. \A k \in DOMAIN running' : running'[k] = 0 \/ (k \in DOMAIN running /\ running'[k] = running[k])
    <2>. DEFINE n == Len(running)
    <2>1. /\ n \in Nat /\ Len(running') = n + 1 /\ running' \in Seq(Nat)
          /\ \A k \in 1..n : running'[k] = running[k]
          /\ running'[n + 1] = 0
      BY <1>1, <1>2, Nesting
    <2>2. DOMAIN running = 1..n /\ DOMAIN running' = 1..n + 1
      BY <1>2, <2>1, LenProperties
    <2>. HIDE DEF n
    <2>3. ASSUME NEW k \in DOMAIN running'
          PROVE  running'[k] = 0 \/ (k \in DOMAIN running /\ running'[k] = running[k])
      <3>1. k = n + 1 \/ k \in 1..n
        BY <2>1, <2>2
      <3>. QED
        BY <2>1, <2>2, <3>1
    <2>. QED
      BY <2>3
  <1>5. ASSUME AtHome
        PROVE  /\ IsValidLayer(allLayers', editor.handle)
               /\ allLayers'[editor.handle] = allLayers[editor.handle]
               /\ \A k \in DOMAIN running' : running'[k] < editor.handle
    <2>1. editor.handle \in Handles /\ allLayers[editor.handle] # NULL
      BY <1>5 DEF AtHome, IsValidLayer, Handles
    <2>2. editor.handle # h
      BY <1>3, <2>1
    <2>3. editor.handle \in Nat /\ editor.handle # 0
      BY <2>1, SlotFacts DEF EInv, Edited
    <2>4. \A k \in DOMAIN running' : running'[k] < editor.handle
      BY <1>4, <1>5, <2>3 DEF AtHome
    <2>. QED
      BY <1>3, <2>1, <2>2, <2>4 DEF IsValidLayer, Handles
  <1>. QED
    BY <1>1, <1>5, HomeKept

(* What RemoveLayerCore leaves of the shapes and of the editor.            *)
LEMMA HomeTake ==
  ASSUME IInv, EInv, NEW h \in Handles, allLayers[h] # NULL, NEW close,
         RemoveLayerCore(h, close),
         \A k \in DOMAIN running' :
           running'[k] = h \/ \E m \in DOMAIN running : running'[k] = running[m],
         (\A k \in DOMAIN running' : running'[k] # h)
           \/ \A m \in Handles : allLayers[m] # NULL => (\E k \in DOMAIN running : m <= running[k]) \/ h <= m
  PROVE  EInv'
  <1>. DEFINE s == allLayers[h]
  <1>1. /\ allLayers' = [allLayers EXCEPT ![h] = NULL] /\ editor' = editor
        /\ lapses' = lapses \cup (IF EditedIn(h) THEN {"astray"} ELSE {})
        /\ editing' \subseteq editing
        /\ shapes' = shapes \/ shapes' = [shapes EXCEPT ![s] = <<>>]
    BY DEF RemoveLayerCore
  <1>2. /\ s \in Source /\ shapes \in [Source -> Seq(Shapes)] /\ editing \subseteq Source
        /\ editor \in [shape : Shapes \cup {NULL}, handle : Nat, index : Nat]
    BY SlotFacts DEF EInv, Edited
  <1>. HIDE DEF s
  <1>3. shapes' \in [Source -> Seq(Shapes)]
    <2>1. <<>> \in Seq(Shapes)
      BY EmptySeq
    <2>. QED
      BY <1>1, <1>2, <2>1
  <1>4. Edited'
    BY <1>1, <1>2, <1>3 DEF Edited
  <1>5. SUFFICES ASSUME "astray" \notin lapses', editor.shape # NULL, editor.handle # 0
                 PROVE  AtHome'
    BY <1>1, <1>4 DEF EInv, Home
  <1>6. AtHome /\ editor.handle # h
    BY <1>1, <1>5 DEF EInv, Home, EditedIn
  <1>7. /\ editor.handle \in Handles /\ allLayers[editor.handle] # NULL
        /\ allLayers'[editor.handle] = allLayers[editor.handle] /\ Handles' = Handles
    BY <1>1, <1>6 DEF AtHome, IsValidLayer, Handles
  <1>8. /\ IsValidLayer(allLayers', editor.handle)
        /\ allLayers'[editor.handle] = allLayers[editor.handle]
    BY <1>7 DEF IsValidLayer, Handles
  <1>9. ASSUME NEW k \in DOMAIN running'
        PROVE  running'[k] < editor.handle
    <2>1. \A m \in DOMAIN running : running[m] < editor.handle
      BY <1>6 DEF AtHome
    <2>2. CASE running'[k] = h
      <3>1. (\E m \in DOMAIN running : editor.handle <= running[m]) \/ h <= editor.handle
        BY <1>7, <2>2
      <3>2. /\ h \in Nat /\ editor.handle \in Nat
            /\ \A m \in DOMAIN running : running[m] \in Nat
        <4>1. h \in Nat
          BY SlotFacts, FreeSlot
        <4>2. \A m \in DOMAIN running : running[m] \in Nat
          BY SlotFacts, LenProperties, ElementOfSeq
        <4>. QED
          BY <1>2, <4>1, <4>2
      <3>3. ~ \E m \in DOMAIN running : editor.handle <= running[m]
        BY <2>1, <3>2
      <3>4. h <= editor.handle
        BY <3>1, <3>3
      <3>. QED
        BY <1>6, <2>2, <3>2, <3>4
    <2>3. CASE \E m \in DOMAIN running : running'[k] = running[m]
      BY <2>1, <2>3
    <2>. QED
      BY <2>2, <2>3
  <1>10. LET t == allLayers[editor.handle]
         IN  editor.index \in DOMAIN shapes'[t] => shapes'[t][editor.index] = editor.shape
    <2>. DEFINE t == allLayers[editor.handle]
    <2>1. t \in Source
      BY <1>7, SlotFacts
    <2>2. editor.index \in DOMAIN shapes[t] => shapes[t][editor.index] = editor.shape
      BY <1>6 DEF AtHome
    <2>. HIDE DEF t
    <2>3. shapes'[t] = shapes[t] \/ shapes'[t] = <<>>
      BY <1>1, <1>2, <2>1
    <2>4. editor.index \in DOMAIN shapes'[t] => shapes'[t][editor.index] = editor.shape
      BY <2>2, <2>3
    <2>. QED
      BY <2>4 DEF t
  <1>. QED
    BY <1>1, <1>8, <1>9, <1>10 DEF AtHome

LEMMA HomeRemove ==
  ASSUME IInv, EInv,
         \/ \E h \in Handles, close \in BOOLEAN : RemoveLayer(h, close)
         \/ RemoveAllLayers \/ Sweep
  PROVE  EInv'
  <1>0. /\ allLayers \in Seq(Slots) /\ running \in Seq(Nat) /\ Handles \subseteq Nat \ {0}
    BY SlotFacts, FreeSlot
  <1>1. ASSUME NEW h \in Handles, NEW close \in BOOLEAN, RemoveLayer(h, close)
        PROVE  EInv'
    <2>1. /\ running' = running /\ RemoveLayerCore(h, close) /\ allLayers[h] # NULL
      BY <1>1 DEF RemoveLayer, IsValidLayer
    <2>2. CASE \A k \in DOMAIN running' : running'[k] # h
      BY <2>1, <2>2, HomeTake
    <2>3. CASE \E k \in DOMAIN running' : running'[k] = h
      <3>1. PICK k \in DOMAIN running : running[k] = h
        BY <2>1, <2>3
      <3>2. \A m \in Handles : m <= h \/ h <= m
        BY <1>0
      <3>. QED
        BY <2>1, <3>1, <3>2, HomeTake
    <2>. QED
      BY <2>2, <2>3
  <1>2. CASE RemoveAllLayers
    <2>. DEFINE h == NextValid(1)
    <2>1. running' = Append(running, h) /\ RemoveLayerCore(h, TRUE) /\ h # 0
      BY <1>2 DEF RemoveAllLayers
    <2>2. /\ h \in Nat /\ h \in Handles /\ allLayers[h] # NULL
          /\ \A k \in Handles : k >= 1 /\ k < h => allLayers[k] = NULL
      BY <1>0, <2>1, NextSlot
    <2>. HIDE DEF h
    <2>3. \A m \in Handles : allLayers[m] # NULL => h <= m
      BY <1>0, <2>2
    <2>4. \A k \in DOMAIN running' :
            running'[k] = h \/ \E m \in DOMAIN running : running'[k] = running[m]
      <3>. DEFINE n == Len(running)
      <3>1. /\ n \in Nat /\ Len(running') = n + 1 /\ running' \in Seq(Nat)
            /\ \A k \in 1..n : running'[k] = running[k]
            /\ running'[n + 1] = h
        BY <1>0, <2>1, <2>2, Nesting
      <3>2. DOMAIN running = 1..n /\ DOMAIN running' = 1..n + 1
        BY <1>0, <3>1, LenProperties
      <3>3. ASSUME NEW k \in DOMAIN running'
            PROVE  running'[k] = h \/ \E m \in DOMAIN running : running'[k] = running[m]
        <4>1. k = n + 1 \/ k \in 1..n
          BY <3>1, <3>2
        <4>. QED
          BY <3>1, <3>2, <4>1
      <3>. QED
        BY <3>3
    <2>. QED
      BY <2>1, <2>2, <2>3, <2>4, HomeTake
  <1>3. CASE Sweep
    <2>. DEFINE last == Last(running)
               h == NextValid(last + 1)
               n == Len(running)
    <2>1. running # <<>> /\ last > 0 /\ h # 0 /\ RemoveLayerCore(h, TRUE)
          /\ running' = Append(Front(running), h)
      BY <1>3 DEF Sweep, InSweep
    <2>2. /\ n \in Nat /\ n > 0 /\ Front(running) \in Seq(Nat) /\ Len(Front(running)) = n - 1
          /\ \A i \in 1..n - 1 : Front(running)[i] = running[i]
          /\ last = running[n] /\ last \in Nat
      BY <1>0, <2>1, Nesting
    <2>3. /\ h \in Nat /\ h \in Handles /\ allLayers[h] # NULL
          /\ \A k \in Handles : k >= last + 1 /\ k < h => allLayers[k] = NULL
      <3>1. last + 1 \in Nat
        BY <2>2
      <3>. HIDE DEF last
      <3>. QED
        BY <1>0, <2>1, <3>1, NextSlot
    <2>4. DOMAIN running = 1..n /\ n \in DOMAIN running
      BY <1>0, <2>2, LenProperties
    <2>. HIDE DEF h, last
    <2>5. ASSUME NEW m \in Handles, allLayers[m] # NULL
          PROVE  (\E k \in DOMAIN running : m <= running[k]) \/ h <= m
      <3>1. m \in Nat /\ ~(m >= last + 1 /\ m < h)
        BY <1>0, <2>3, <2>5
      <3>2. m <= last \/ h <= m
        BY <2>2, <2>3, <3>1
      <3>. QED
        BY <2>2, <2>4, <3>2
    <2>6. \A k \in DOMAIN running' :
            running'[k] = h \/ \E m \in DOMAIN running : running'[k] = running[m]
      <3>. DEFINE f == Front(running)
      <3>. HIDE DEF n
      <3>1. /\ running' \in Seq(Nat) /\ Len(running') = Len(f) + 1
            /\ \A k \in 1..Len(f) : running'[k] = f[k]
            /\ running'[Len(f) + 1] = h
        BY <2>1, <2>2, <2>3, Nesting
      <3>. HIDE DEF f
      <3>2. DOMAIN running' = 1..Len(running')
        BY <3>1, LenProperties
      <3>3. Len(f) = n - 1 /\ \A i \in 1..n - 1 : f[i] = running[i]
        BY <2>2 DEF f
      <3>4. DOMAIN running' = 1..n
        BY <2>2, <3>1, <3>2, <3>3
      <3>5. ASSUME NEW k \in DOMAIN running'
            PROVE  running'[k] = h \/ \E m \in DOMAIN running : running'[k] = running[m]
        <4>1. k \in 1..n /\ (k = n \/ k \in 1..n - 1)
          BY <2>2, <3>4
        <4>. QED
          BY <2>2, <2>4, <3>1, <3>3, <4>1
      <3>. QED
        BY <3>5
    <2>. QED
      BY <2>1, <2>3, <2>5, <2>6, HomeTake
  <1>. QED
    BY <1>1, <1>2, <1>3

(* The slots are dropped when they are empty but for layers that were put  *)
(* behind the loop, and what is being edited is in none of those.          *)
LEMMA HomeDrop ==
  ASSUME IInv, EInv, RemoveNone \/ Swept
  PROVE  EInv'
  <1>1. UNCHANGED <<editVars, lapses>>
    BY DEF RemoveNone, Swept, DropSlots
  <1>2. allLayers \in Seq(Slots) /\ running \in Seq(Nat) /\ \A h \in Handles : h \in Nat /\ h >= 1
    BY SlotFacts, FreeSlot
  <1>3. ASSUME AtHome
        PROVE  FALSE
    <2>1. /\ editor.handle \in Handles /\ allLayers[editor.handle] # NULL
          /\ \A k \in DOMAIN running : running[k] < editor.handle
      BY <1>3 DEF AtHome, IsValidLayer, Handles
    <2>2. CASE RemoveNone
      <3>1. NextValid(1) = 0
        BY <2>2 DEF RemoveNone
      <3>2. editor.handle >= 1
        BY <1>2, <2>1
      <3>. QED
        BY <1>2, <2>1, <3>1, <3>2, NextSlot
    <2>3. CASE Swept
      <3>. DEFINE last == Last(running)
                 n == Len(running)
      <3>1. running # <<>> /\ NextValid(last + 1) = 0
        BY <2>3 DEF Swept, InSweep
      <3>2. n \in Nat /\ n > 0 /\ last = running[n] /\ last \in Nat
        BY <1>2, <3>1, Nesting
      <3>3. n \in DOMAIN running
        BY <1>2, <3>2, LenProperties
      <3>. HIDE DEF last, n
      <3>4. editor.handle >= last + 1 /\ last + 1 \in Nat
        BY <1>2, <2>1, <3>2, <3>3
      <3>. QED
        BY <1>2, <2>1, <3>1, <3>4, NextSlot
    <2>. QED
      BY <2>2, <2>3
  <1>. QED
    BY <1>1, <1>3, HomeKept

LEMMA HomeElsewhere ==
  ASSUME IInv, EInv,
         \/ UNCHANGED vars \/ Move \/ AddClosed \/ LayerAdded
         \/ ClientLocks \/ ClientUnlocks \/ DoPanning \/ ClickCrashes
  PROVE  EInv'
  <1>1. /\ UNCHANGED <<editVars, allLayers>> /\ ("astray" \in lapses => "astray" \in lapses')
        /\ running' = running \/ (running # <<>> /\ running' = Front(running))
    BY DEF vars, Move, AddClosed, LayerAdded, ClientLocks, ClientUnlocks, DoPanning, ClickCrashes,
       layerVars
  <1>2. ASSUME NEW k \in DOMAIN running'
        PROVE  k \in DOMAIN running /\ running'[k] = running[k]
    <2>1. CASE running' = running
      BY <1>2, <2>1
    <2>2. CASE running # <<>> /\ running' = Front(running)
      <3>. DEFINE n == Len(running)
      <3>1. /\ n \in Nat /\ running' \in Seq(Nat) /\ Len(running') = n - 1
            /\ \A i \in 1..n - 1 : running'[i] = running[i]
        BY <2>2, SlotFacts, Nesting
      <3>2. DOMAIN running = 1..n /\ DOMAIN running' = 1..n - 1
        BY <3>1, SlotFacts, LenProperties
      <3>. HIDE DEF n
      <3>3. k \in 1..n - 1 /\ k \in 1..n
        BY <1>2, <3>1, <3>2
      <3>. QED
        BY <3>1, <3>2, <3>3
    <2>. QED
      BY <1>1, <2>1, <2>2
  <1>3. ASSUME AtHome
        PROVE  \A k \in DOMAIN running' : running'[k] < editor.handle
    BY <1>2, <1>3 DEF AtHome
  <1>4. AtHome => IsValidLayer(allLayers', editor.handle)
    BY <1>1 DEF AtHome
  <1>. QED
    BY <1>1, <1>3, <1>4, HomeKept

(* The client edits a shapefile.                                           *)
LEMMA HomeEdit ==
  ASSUME IInv, EInv, NEW s \in Source,
         \/ StartEditingShapes(s) \/ StopEditingShapes(s)
         \/ \E i \in DOMAIN shapes[s] : EditDeleteShape(s, i)
  PROVE  EInv'
  <1>0. /\ shapes \in [Source -> Seq(Shapes)] /\ editing \subseteq Source
        /\ editor \in [shape : Shapes \cup {NULL}, handle : Nat, index : Nat]
    BY DEF EInv, Edited
  <1>1. CASE StartEditingShapes(s) \/ StopEditingShapes(s)
    <2>1. /\ UNCHANGED <<allLayers, running, shapes, editor, lapses>>
          /\ editing' \subseteq Source
      BY <1>0, <1>1 DEF StartEditingShapes, StopEditingShapes, layerVars
    <2>. QED
      BY <2>1 DEF EInv, Edited, Home, AtHome, IsValidLayer
  <1>2. ASSUME NEW i \in DOMAIN shapes[s], EditDeleteShape(s, i)
        PROVE  EInv'
    <2>1. /\ shapes' = [shapes EXCEPT ![s] = RemoveAt(@, i)]
          /\ lapses' = lapses \cup (IF Shifted(s, i) THEN {"astray"} ELSE {})
          /\ UNCHANGED <<allLayers, running, editing, editor>>
      BY <1>2 DEF EditDeleteShape, layerVars
    <2>2. shapes[s] \in Seq(Shapes) /\ i \in 1..Len(shapes[s]) /\ DOMAIN shapes[s] = 1..Len(shapes[s])
          /\ Len(shapes[s]) \in Nat
      BY <1>0, LenProperties
    <2>3. /\ RemoveAt(shapes[s], i) \in Seq(Shapes)
          /\ Len(RemoveAt(shapes[s], i)) = Len(shapes[s]) - 1
          /\ \A k \in 1..Len(shapes[s]) - 1 :
               RemoveAt(shapes[s], i)[k] = IF k < i THEN shapes[s][k] ELSE shapes[s][k + 1]
      BY <2>2, RemovedAt
    <2>4. shapes' \in [Source -> Seq(Shapes)] /\ shapes'[s] = RemoveAt(shapes[s], i)
          /\ \A t \in Source : t # s => shapes'[t] = shapes[t]
      BY <1>0, <2>1, <2>3
    <2>5. Edited'
      BY <1>0, <2>1, <2>4 DEF Edited
    <2>6. SUFFICES ASSUME "astray" \notin lapses', editor.shape # NULL, editor.handle # 0
                   PROVE  AtHome'
      BY <2>1, <2>5 DEF EInv, Home
    <2>7. AtHome /\ ~ Shifted(s, i)
      BY <2>1, <2>6 DEF EInv, Home
    <2>. DEFINE t == allLayers[editor.handle]
    <2>8. t \in Source
      BY <2>7, SlotFacts DEF AtHome, IsValidLayer, Handles
    <2>9. editor.index \in DOMAIN shapes'[t] => shapes'[t][editor.index] = editor.shape
      <3>1. CASE t # s
        BY <2>4, <2>7, <2>8, <3>1 DEF AtHome
      <3>2. CASE t = s
        <4>1. ~ (i <= editor.index)
          BY <2>6, <2>7, <3>2 DEF Shifted, AtHome
        <4>2. SUFFICES ASSUME editor.index \in DOMAIN shapes'[s]
                       PROVE  shapes'[s][editor.index] = editor.shape
          BY <3>2
        <4>3. DOMAIN shapes'[s] = 1..Len(shapes[s]) - 1
          BY <2>3, <2>4, LenProperties
        <4>4. editor.index \in 1..Len(shapes[s]) - 1 /\ editor.index < i
              /\ editor.index \in DOMAIN shapes[s]
          BY <1>0, <2>2, <4>1, <4>2, <4>3
        <4>. QED
          BY <2>3, <2>4, <2>7, <3>2, <4>4 DEF AtHome
      <3>. QED
        BY <3>1, <3>2
    <2>. QED
      BY <2>1, <2>7, <2>9 DEF AtHome, IsValidLayer
  <1>. QED
    BY <1>1, <1>2

(* The user selects a shape, draws or is done.                             *)
LEMMA HomeClick ==
  ASSUME IInv, EInv, ClickShape
  PROVE  EInv' /\ ("astray" \notin lapses => shapes' = shapes)
  <1>0. /\ shapes \in [Source -> Seq(Shapes)] /\ editing \subseteq Source
        /\ editor \in [shape : Shapes \cup {NULL}, handle : Nat, index : Nat]
    BY DEF EInv, Edited
  <1>1. /\ running = <<>>
        /\ shapes' = IF editor.shape = NULL THEN shapes ELSE SaveEditShape
        /\ SelectSingleShape \/ ClientSelects
        /\ UNCHANGED <<allLayers, running, editing>>
    BY DEF ClickShape, UserCall, layerVars
  <1>2. shapes' \in [Source -> Seq(Shapes)]
    BY <1>0, <1>1, SavedTyped
  <1>3. "astray" \notin lapses => shapes' = shapes
    BY <1>1, HomeIsSafe
  <1>4. CASE UNCHANGED <<editor, lapses>>
    <2>1. Edited'
      BY <1>0, <1>1, <1>2, <1>4 DEF Edited
    <2>2. Home'
      BY <1>1, <1>3, <1>4 DEF EInv, Home, AtHome, IsValidLayer
    <2>. QED
      BY <1>3, <2>1, <2>2 DEF EInv
  <1>5. CASE editor' = Cleared
    <2>1. editor' \in [shape : Shapes \cup {NULL}, handle : Nat, index : Nat] /\ editor'.shape = NULL
      BY <1>0, <1>5 DEF Cleared
    <2>. QED
      BY <1>0, <1>1, <1>2, <1>3, <2>1 DEF EInv, Edited, Home
  <1>6. ASSUME Drawable(allLayers, activeLayers), NEW h \in ToSet(activeLayers),
               NEW i \in DOMAIN shapes'[allLayers[h]], SetEditShape(h, i)
        PROVE  EInv'
    <2>1. /\ editor' = [shape |-> shapes'[allLayers[h]][i], handle |-> h, index |-> i]
      BY <1>6 DEF SetEditShape
    <2>2. h \in Handles /\ allLayers[h] # NULL
      BY <1>6 DEF Drawable, IsValidLayer, ToSet, Handles
    <2>3. allLayers[h] \in Source /\ h \in Nat
      BY <2>2, SlotFacts, FreeSlot
    <2>4. shapes'[allLayers[h]] \in Seq(Shapes)
      BY <1>2, <2>3
    <2>5. i \in Nat /\ shapes'[allLayers[h]][i] \in Shapes
      <3>1. i \in 1..Len(shapes'[allLayers[h]]) /\ Len(shapes'[allLayers[h]]) \in Nat
        BY <1>6, <2>4, LenProperties
      <3>. QED
        BY <2>4, <3>1, ElementOfSeq
    <2>6. Edited'
      BY <1>0, <1>1, <1>2, <2>1, <2>3, <2>5 DEF Edited
    <2>7. AtHome'
      <3>1. editor'.handle = h /\ editor'.index = i /\ editor'.shape = shapes'[allLayers[h]][i]
        BY <2>1
      <3>2. DOMAIN running' = {}
        BY <1>1
      <3>. QED
        BY <1>1, <2>2, <3>1, <3>2 DEF AtHome, IsValidLayer, Handles
    <2>. QED
      BY <2>6, <2>7 DEF EInv, Home
  <1>. QED
    BY <1>1, <1>3, <1>4, <1>5, <1>6 DEF SelectSingleShape, ClientSelects

LEMMA HomeDraw ==
  ASSUME IInv, EInv, DrawShape \/ ClearEditor
  PROVE  EInv'
  <1>0. /\ shapes \in [Source -> Seq(Shapes)] /\ editing \subseteq Source
        /\ editor \in [shape : Shapes \cup {NULL}, handle : Nat, index : Nat]
    BY DEF EInv, Edited
  <1>1. UNCHANGED <<shapes, editing>>
    BY DEF DrawShape, ClearEditor
  <1>2. CASE DrawShape
    <2>1. /\ editor' = [editor EXCEPT !.shape = New] /\ New \in Shapes
          /\ lapses' = lapses \cup (IF editor.handle # 0 THEN {"astray"} ELSE {})
      BY <1>2 DEF DrawShape, Shapes
    <2>2. /\ editor' \in [shape : Shapes \cup {NULL}, handle : Nat, index : Nat]
          /\ editor'.handle = editor.handle
      BY <1>0, <2>1
    <2>3. Home'
      BY <2>1, <2>2 DEF Home
    <2>. QED
      BY <1>0, <1>1, <2>2, <2>3 DEF EInv, Edited
  <1>3. CASE ClearEditor
    <2>1. editor' \in [shape : Shapes \cup {NULL}, handle : Nat, index : Nat] /\ editor'.shape = NULL
      BY <1>0, <1>3 DEF ClearEditor, Cleared
    <2>. QED
      BY <1>0, <1>1, <2>1 DEF EInv, Edited, Home
  <1>. QED
    BY <1>2, <1>3

LEMMA NextEInv == IInv /\ EInv /\ [Next]_vars => EInv'
  <1>. SUFFICES ASSUME IInv, EInv, [Next]_vars
                PROVE  EInv'
    OBVIOUS
  <1>1. ASSUME NEW s \in Source, AddLayer(s) \/ RefuseLayer(s) PROVE EInv'
    BY <1>1, HomeAdd
  <1>2. ASSUME NEW s \in Source,
               \/ StartEditingShapes(s) \/ StopEditingShapes(s)
               \/ \E i \in DOMAIN shapes[s] : EditDeleteShape(s, i)
        PROVE  EInv'
    BY <1>2, HomeEdit
  <1>3. CASE \/ \E h \in Handles, close \in BOOLEAN : RemoveLayer(h, close)
             \/ RemoveAllLayers \/ Sweep
    BY <1>3, HomeRemove
  <1>4. CASE RemoveNone \/ Swept
    BY <1>4, HomeDrop
  <1>5. CASE \/ UNCHANGED vars \/ Move \/ AddClosed \/ LayerAdded
             \/ ClientLocks \/ ClientUnlocks \/ DoPanning \/ ClickCrashes
    BY <1>5, HomeElsewhere
  <1>6. CASE ClickShape
    BY <1>6, HomeClick
  <1>7. CASE DrawShape \/ ClearEditor
    BY <1>7, HomeDraw
  <1>. QED
    BY <1>1, <1>2, <1>3, <1>4, <1>5, <1>6, <1>7 DEF Next

(* What the step may do to the shapes.                                     *)
EditGoesHome ==
  "astray" \notin lapses =>
    /\ \A s \in Source : Len(shapes'[s]) = Len(shapes[s]) => shapes'[s] = shapes[s]
    /\ fault' # "handle"

LEMMA HomeStep == IInv /\ EInv /\ [Next]_vars => [EditGoesHome]_vars
  <1>. SUFFICES ASSUME IInv, EInv, Next, "astray" \notin lapses
                PROVE  EditGoesHome
    BY DEF EditGoesHome
  <1>1. shapes \in [Source -> Seq(Shapes)]
    BY DEF EInv, Edited
  <1>2. fault' # "handle"
    <2>1. fault = "none"
      BY DEF Next, AddLayer, RefuseLayer, StartEditingShapes, StopEditingShapes, EditDeleteShape,
         RemoveLayer, AddClosed, LayerAdded, RemoveAllLayers, RemoveNone, Sweep, Swept, InSweep,
         Move, ClientLocks, ClientUnlocks, DoPanning, ClickShape, ClickCrashes, DrawShape,
         ClearEditor, Call, UserCall
    <2>2. ~ClickCrashes
      BY HomeIsSafe DEF ClickCrashes
    <2>3. fault' \in {fault, "layer"}
      BY <2>2 DEF Next, AddLayer, RefuseLayer, StartEditingShapes, StopEditingShapes,
         EditDeleteShape, RemoveLayer, AddClosed, LayerAdded, RemoveAllLayers, RemoveNone, Sweep,
         Swept, Move, ClientLocks, ClientUnlocks, DoPanning, ClickShape, DrawShape, ClearEditor,
         LockAndUnlock, UnlockWindow, ReloadImageBuffers, SelectSingleShape, ClientSelects
    <2>. QED
      BY <2>1, <2>3
  <1>3. ASSUME NEW s \in Source, Len(shapes'[s]) = Len(shapes[s])
        PROVE  shapes'[s] = shapes[s]
    <2>0. shapes[s] \in Seq(Shapes) /\ Len(shapes[s]) \in Nat
      BY <1>1, LenProperties
    <2>1. ASSUME NEW h \in Handles, NEW close, RemoveLayerCore(h, close)
          PROVE  shapes'[s] = shapes[s]
      <3>1. shapes'[s] = shapes[s] \/ shapes'[s] = <<>>
        BY <1>1, <2>1 DEF RemoveLayerCore
      <3>2. shapes'[s] = <<>> => shapes[s] = <<>>
        BY <1>3, <2>0, EmptySeq
      <3>. QED
        BY <3>1, <3>2
    <2>2. ASSUME NEW t \in Source, NEW i \in DOMAIN shapes[t], EditDeleteShape(t, i)
          PROVE  shapes'[s] = shapes[s]
      <3>1. shapes' = [shapes EXCEPT ![t] = RemoveAt(@, i)]
        BY <2>2 DEF EditDeleteShape
      <3>2. t = s => FALSE
        <4>1. SUFFICES ASSUME t = s PROVE FALSE
          OBVIOUS
        <4>2. i \in 1..Len(shapes[s])
          BY <2>0, <4>1, LenProperties
        <4>3. Len(RemoveAt(shapes[s], i)) = Len(shapes[s]) - 1
          BY <2>0, <4>2, RemovedAt
        <4>. QED
          BY <1>1, <1>3, <2>0, <3>1, <4>1, <4>3
      <3>. QED
        BY <1>1, <3>1, <3>2
    <2>3. CASE ClickShape
      BY <2>3, HomeClick
    <2>4. CASE RemoveAllLayers
      <3>1. NextValid(1) \in Handles
        BY <2>4, SlotFacts, NextSlot DEF RemoveAllLayers
      <3>. QED
        BY <2>1, <2>4, <3>1 DEF RemoveAllLayers
    <2>5. CASE Sweep
      <3>. DEFINE m == Last(running) + 1
      <3>1. m \in Nat /\ NextValid(m) # 0
        BY <2>5, SlotFacts, Nesting DEF Sweep, InSweep
      <3>2. NextValid(m) \in Handles
        BY <3>1, SlotFacts, NextSlot
      <3>. QED
        BY <2>1, <2>5, <3>2 DEF Sweep
    <2>6. CASE UNCHANGED shapes
      BY <2>6
    <2>7. \/ UNCHANGED shapes
          \/ ClickShape \/ RemoveAllLayers \/ Sweep
          \/ \E t \in Source : \E i \in DOMAIN shapes[t] : EditDeleteShape(t, i)
          \/ \E h \in Handles, close \in BOOLEAN : RemoveLayerCore(h, close)
      BY DEF Next, AddLayer, RefuseLayer, StartEditingShapes, StopEditingShapes,
         RemoveLayer, AddClosed, LayerAdded, RemoveNone, Swept, DropSlots,
         Move, ClientLocks, ClientUnlocks, DoPanning, ClickCrashes, DrawShape, ClearEditor,
         editVars
    <2>. QED
      BY <2>1, <2>2, <2>3, <2>4, <2>5, <2>6, <2>7
  <1>. QED
    BY <1>2, <1>3 DEF EditGoesHome

(* An edited shape goes back to where it was taken from, or nowhere, and   *)
(* is never looked for in a layer that is gone (Map_Events.cpp:743), until *)
(* something the property names has led the editor astray.                 *)
THEOREM ShapesGoHome == Spec => EditsGoHome
  BY InitIInv, NextIInv, InitEInv, NextEInv, HomeStep, PTL DEF Spec, EditsGoHome, EditGoesHome

-----------------------------------------------------------------------------
(* The list of layers is a stack.  Shown is the list of handles, mapped to *)
(* what is in their slots; each operation on the one is that on the other. *)

LEMMA SweptStays == Next => ("swept" \in lapses => "swept" \in lapses')
  BY DEF Next, AddLayer, RefuseLayer, StartEditingShapes, StopEditingShapes, EditDeleteShape,
     RemoveLayer, RemoveLayerCore, AddClosed, LayerAdded, RemoveAllLayers, RemoveNone, Sweep,
     Swept, DropSlots, Move, ClientLocks, ClientUnlocks, DoPanning, ClickShape, ClickCrashes,
     DrawShape, ClearEditor, SelectSingleShape, ClientSelects, SetEditShape

LEMMA ShownIs ==
  ASSUME IInv, "swept" \notin lapses
  PROVE  /\ activeLayers \in Seq(Nat) /\ IsInjective(activeLayers)
         /\ Len(activeLayers) \in Nat /\ DOMAIN activeLayers = 1..Len(activeLayers)
         /\ \A i \in 1..Len(activeLayers) :
              activeLayers[i] \in Handles /\ allLayers[activeLayers[i]] \in Source
         /\ Shown = Mapped(allLayers, activeLayers)
         /\ Shown \in Seq(Source) /\ Len(Shown) = Len(activeLayers)
         /\ DOMAIN Shown = 1..Len(activeLayers)
         /\ \A i \in 1..Len(activeLayers) : Shown[i] = allLayers[activeLayers[i]]
  <1>1. activeLayers \in Seq(Nat) /\ Agreed(allLayers, activeLayers)
    BY DEF IInv, Synced
  <1>2. Len(activeLayers) \in Nat /\ DOMAIN activeLayers = 1..Len(activeLayers)
    BY <1>1, LenProperties
  <1>3. \A i \in 1..Len(activeLayers) :
          activeLayers[i] \in Handles /\ allLayers[activeLayers[i]] \in Source
    BY <1>1, <1>2, SlotFacts DEF Agreed, ToSet, Handles
  <1>4. Shown = Mapped(allLayers, activeLayers)
    BY <1>2, <1>3 DEF Shown, Mapped
  <1>5. /\ Shown \in Seq(Source) /\ Len(Shown) = Len(activeLayers)
        /\ \A i \in 1..Len(activeLayers) : Shown[i] = allLayers[activeLayers[i]]
    BY <1>1, <1>3, <1>4, MappedSeq
  <1>6. DOMAIN Shown = 1..Len(activeLayers)
    BY <1>2 DEF Shown
  <1>. QED
    BY <1>1, <1>2, <1>3, <1>4, <1>5, <1>6 DEF Agreed

(* What is shown in the next state, of slots that are full in both.        *)
LEMMA ShownNext ==
  ASSUME NEW S, NEW s \in Seq(S), activeLayers' = s,
         \A i \in 1..Len(s) : s[i] \in Handles'
  PROVE  Shown' = Mapped(allLayers', s)
  <1>1. DOMAIN s = 1..Len(s)
    BY LenProperties
  <1>. QED
    BY <1>1 DEF Shown, Mapped, Handles

LEMMA StackAdd ==
  ASSUME IInv, "swept" \notin lapses, NEW s \in Source, AddLayer(s)
  PROVE  Stack!Put
  <1>. DEFINE h == FreeHandle
             n == Len(activeLayers)
  <1>1. allLayers' = WithLayer(h, s) /\ activeLayers' = Append(activeLayers, h)
    BY DEF AddLayer
  <1>2. allLayers \in Seq(Slots) /\ s \in Slots
    BY SlotFacts DEF Slots
  <1>3. /\ Handles' = Handles \cup {h} /\ allLayers'[h] = s
        /\ \A k \in Handles : k # h => allLayers'[k] = allLayers[k]
        /\ h \in Handles => allLayers[h] = NULL
        /\ h \in Nat
    BY <1>1, <1>2, SlotFilled, FreeSlot DEF Handles
  <1>. HIDE DEF h
  <1>4. /\ activeLayers \in Seq(Nat) /\ n \in Nat
        /\ \A i \in 1..n : activeLayers[i] \in Handles /\ allLayers[activeLayers[i]] \in Source
        /\ Shown \in Seq(Source) /\ Len(Shown) = n
        /\ Shown = Mapped(allLayers, activeLayers)
    BY ShownIs
  <1>5. activeLayers' \in Seq(Nat) /\ IsWith(activeLayers', activeLayers, n + 1, h)
    BY <1>1, <1>3, <1>4, AddedLast
  <1>6. \A i \in 1..n : /\ activeLayers[i] # h
                        /\ allLayers'[activeLayers[i]] = allLayers[activeLayers[i]]
    BY <1>3, <1>4, MapLayersAssumption
  <1>7. Mapped(allLayers', activeLayers) = Shown
    BY <1>4, <1>6, MappedAlike
  <1>8. Shown' = Mapped(allLayers', activeLayers')
    <2>1. PICK t \in Seq(Nat) : t = activeLayers'
      BY <1>5
    <2>2. \A i \in 1..Len(t) : t[i] \in Handles'
      <3>1. Len(t) = n + 1 /\ \A i \in 1..n + 1 : t[i] = IF i < n + 1 THEN activeLayers[i]
              ELSE IF i = n + 1 THEN h ELSE activeLayers[i - 1]
        BY <1>5, <2>1 DEF IsWith
      <3>2. h \in Handles' /\ \A i \in 1..n : activeLayers[i] \in Handles'
        BY <1>3, <1>4
      <3>3. ASSUME NEW i \in 1..n + 1 PROVE t[i] \in Handles'
        <4>1. CASE i = n + 1
          BY ONLY <1>4, <3>1, <3>2, <4>1
        <4>2. CASE i # n + 1
          <5>1. i \in 1..n /\ i < n + 1
            BY ONLY <1>4, <4>2, i \in 1..n + 1
          <5>. QED
            BY ONLY <3>1, <3>2, <5>1, i \in 1..n + 1
        <4>. QED
          BY <4>1, <4>2
      <3>. QED
        BY ONLY <3>1, <3>3
    <2>. QED
      BY <2>1, <2>2, ShownNext
  <1>9. Shown' \in Seq(Source) /\ IsWith(Shown', Shown, n + 1, s)
    <2>1. PICK t \in Seq(Nat), f \in {allLayers'} : t = activeLayers' /\ f = allLayers'
      BY <1>5
    <2>2. /\ IsWith(t, activeLayers, n + 1, h) /\ f[h] = s
          /\ \A i \in 1..n : f[activeLayers[i]] \in Source
          /\ n + 1 \in 1..n + 1
      BY <1>3, <1>4, <1>5, <1>6, <2>1
    <2>3. Mapped(f, t) \in Seq(Source) /\ IsWith(Mapped(f, t), Mapped(f, activeLayers), n + 1, f[h])
      BY <1>4, <2>2, MappedWith
    <2>. QED
      BY <1>7, <1>8, <2>1, <2>2, <2>3
  <1>10. Append(Shown, s) \in Seq(Source) /\ IsWith(Append(Shown, s), Shown, n + 1, s)
    BY <1>4, AddedLast
  <1>11. Shown' = Append(Shown, s)
    BY <1>4, <1>9, <1>10, IsWithUnique
  <1>. QED
    BY <1>11 DEF Stack!Put

(* A layer that is refused comes and goes on top, before anyone looks.     *)
LEMMA StackRefuse ==
  ASSUME IInv, "swept" \notin lapses, NEW s \in Source, RefuseLayer(s)
  PROVE  Shown' = Shown
  <1>. DEFINE h == FreeHandle
             n == Len(activeLayers)
             a == Append(activeLayers, h)
  <1>1. allLayers' = WithLayer(h, NULL) /\ activeLayers' = WithoutHandle(a, h)
    BY DEF RefuseLayer
  <1>2. allLayers \in Seq(Slots) /\ NULL \in Slots
    BY SlotFacts DEF Slots
  <1>3. /\ Handles' = Handles \cup {h}
        /\ \A k \in Handles : k # h => allLayers'[k] = allLayers[k]
        /\ h \in Handles => allLayers[h] = NULL
        /\ h \in Nat
    BY <1>1, <1>2, SlotFilled, FreeSlot DEF Handles
  <1>. HIDE DEF h
  <1>4. /\ activeLayers \in Seq(Nat) /\ n \in Nat
        /\ \A i \in 1..n : activeLayers[i] \in Handles /\ allLayers[activeLayers[i]] \in Source
        /\ Shown = Mapped(allLayers, activeLayers)
        /\ Shown \in Seq(Source) /\ Len(Shown) = n
        /\ \A i \in 1..n : Shown[i] = allLayers[activeLayers[i]]
    BY ShownIs
  <1>5. \A i \in 1..n : /\ activeLayers[i] # h
                        /\ allLayers'[activeLayers[i]] = allLayers[activeLayers[i]]
    BY <1>3, <1>4, MapLayersAssumption
  <1>6. a \in Seq(Nat) /\ IsWith(a, activeLayers, n + 1, h)
    BY <1>3, <1>4, AddedLast
  <1>. HIDE DEF a
  <1>7. Len(a) = n + 1 /\ \A i \in 1..n + 1 : a[i] = IF i = n + 1 THEN h ELSE activeLayers[i]
    <2>1. \A i \in 1..n + 1 : i = n + 1 \/ (i # n + 1 /\ i < n + 1)
      BY <1>4
    <2>2. ~(n + 1 < n + 1)
      BY <1>4
    <2>. QED
      BY <1>6, <2>1, <2>2 DEF IsWith
  <1>8. WithoutHandle(a, h) = RemoveAt(a, n + 1)
    <2>1. h \in ToSet(a)
      <3>1. n + 1 \in DOMAIN a /\ a[n + 1] = h
        BY <1>4, <1>6, <1>7, LenProperties
      <3>. QED
        BY <3>1 DEF ToSet
    <2>2. PICK i \in 1..Len(a) : a[i] = h /\ WithoutHandle(a, h) = RemoveAt(a, i)
      BY <1>6, <2>1, FirstTaken
    <2>3. i = n + 1 \/ i \in 1..n
      BY <1>4, <1>7
    <2>4. i = n + 1
      BY <1>4, <1>5, <1>7, <2>2, <2>3
    <2>. QED
      BY <2>2, <2>4
  <1>9. activeLayers' = activeLayers
    <2>1. n + 1 \in 1..Len(a) /\ Len(a) - 1 = n
      BY <1>4, <1>7
    <2>2. /\ RemoveAt(a, n + 1) \in Seq(Nat) /\ Len(RemoveAt(a, n + 1)) = n
          /\ \A k \in 1..n : RemoveAt(a, n + 1)[k] = IF k < n + 1 THEN a[k] ELSE a[k + 1]
      BY <1>6, <2>1, RemovedAt
    <2>3. \A k \in 1..n : k < n + 1 /\ k # n + 1 /\ k \in 1..n + 1
      BY <1>4
    <2>4. \A k \in 1..n : RemoveAt(a, n + 1)[k] = activeLayers[k]
      BY <1>7, <2>2, <2>3
    <2>. QED
      BY <1>1, <1>4, <1>8, <2>2, <2>4, SeqEqual
  <1>10. Shown' = Mapped(allLayers', activeLayers)
    BY <1>3, <1>4, <1>9, ShownNext
  <1>11. Mapped(allLayers', activeLayers) = Shown
    BY <1>4, <1>5, MappedAlike
  <1>. QED
    BY <1>10, <1>11

LEMMA StackTake ==
  ASSUME IInv, "swept" \notin lapses, NEW h \in Handles, allLayers[h] # NULL, NEW close,
         RemoveLayerCore(h, close)
  PROVE  Stack!Take
  <1>. DEFINE n == Len(activeLayers)
  <1>1. allLayers' = [allLayers EXCEPT ![h] = NULL] /\ activeLayers' = WithoutHandle(activeLayers, h)
    BY DEF RemoveLayerCore
  <1>2. /\ activeLayers \in Seq(Nat) /\ n \in Nat /\ IsInjective(activeLayers)
        /\ DOMAIN activeLayers = 1..n /\ DOMAIN Shown = 1..n
        /\ \A i \in 1..n : activeLayers[i] \in Handles /\ allLayers[activeLayers[i]] \in Source
        /\ Shown = Mapped(allLayers, activeLayers)
    BY ShownIs
  <1>3. h \in ToSet(activeLayers)
    BY DEF IInv, Synced, Agreed, Handles
  <1>4. PICK i \in 1..n : activeLayers[i] = h /\ activeLayers' = RemoveAt(activeLayers, i)
    BY <1>1, <1>2, <1>3, FirstTaken
  <1>. DEFINE r == RemoveAt(activeLayers, i)
  <1>5. r \in Seq(Nat) /\ ToSet(r) = ToSet(activeLayers) \ {h} /\ activeLayers' = r
    BY <1>2, <1>4, TakenOut
  <1>. HIDE DEF r
  <1>6. \A k \in 1..Len(r) : r[k] \in Handles /\ r[k] # h /\ allLayers[r[k]] \in Source
    <2>1. \A k \in 1..Len(r) : r[k] \in ToSet(r)
      BY <1>5, Elements
    <2>2. \A x \in ToSet(activeLayers) : x \in Handles /\ allLayers[x] \in Source
      BY <1>2 DEF ToSet
    <2>. QED
      BY <1>5, <2>1, <2>2
  <1>7. Handles' = Handles /\ \A k \in 1..Len(r) : allLayers'[r[k]] = allLayers[r[k]]
    BY <1>1, <1>6 DEF Handles
  <1>8. Shown' = Mapped(allLayers', r)
    BY <1>5, <1>6, <1>7, ShownNext
  <1>9. Mapped(allLayers', r) = Mapped(allLayers, r)
    BY <1>5, <1>7, MappedAlike
  <1>10. Mapped(allLayers, r) = RemoveAt(Shown, i)
    <2>1. PICK s \in Seq(Nat), f \in {allLayers} : s = activeLayers /\ f = allLayers
      BY <1>2
    <2>2. \A k \in 1..Len(s) : f[s[k]] \in Source
      BY <1>2, <2>1
    <2>3. i \in 1..Len(s)
      BY <2>1
    <2>4. /\ Mapped(f, RemoveAt(s, i)) = RemoveAt(Mapped(f, s), i)
          /\ RemoveAt(Mapped(f, s), i) \in Seq(Source)
      BY ONLY <2>2, <2>3, MappedRemoved
    <2>. QED
      BY <1>2, <2>1, <2>4 DEF r
  <1>11. Shown' = RemoveAt(Shown, i) /\ i \in DOMAIN Shown
    BY <1>2, <1>8, <1>9, <1>10
  <1>. QED
    BY <1>11 DEF Stack!Take, Stack!RemoveAt, RemoveAt

(* Each way of moving a layer puts it into one place of the others.        *)
LEMMA MovedTo ==
  ASSUME NEW S, activeLayers \in Seq(S),
         NEW i \in DOMAIN activeLayers, NEW j \in DOMAIN activeLayers
  PROVE  \A t \in {MoveLayerUp(i), MoveLayerDown(i), MoveLayerTop(i),
                   MoveLayerBottom(i), MoveLayer(i, j)} :
           /\ t \in Seq(S)
           /\ \E k \in DOMAIN activeLayers :
                IsWith(t, RemoveAt(activeLayers, i), k, activeLayers[i])
  <1>. SUFFICES ASSUME NEW t, t \in {MoveLayerUp(i), MoveLayerDown(i), MoveLayerTop(i),
                                     MoveLayerBottom(i), MoveLayer(i, j)}
                PROVE  /\ t \in Seq(S)
                       /\ \E k \in DOMAIN activeLayers :
                            IsWith(t, RemoveAt(activeLayers, i), k, activeLayers[i])
    OBVIOUS
  <1>. DEFINE n == Len(activeLayers)
             r == RemoveAt(activeLayers, i)
             e == activeLayers[i]
  <1>0. n \in Nat /\ DOMAIN activeLayers = 1..n /\ i \in 1..n /\ j \in 1..n /\ e \in S
    BY LenProperties, ElementOfSeq
  <1>1. r \in Seq(S) /\ Len(r) = n - 1
    BY <1>0, RemovedAt
  <1>. HIDE DEF r, e
  <1>2. ASSUME NEW k \in 1..n, t = Moved(i, k)
        PROVE  t \in Seq(S) /\ \E m \in 1..n : IsWith(t, r, m, e)
    <2>1. k \in 1..Len(r) + 1
      BY <1>0, <1>1
    <2>2. InsertAt(r, k, e) \in Seq(S) /\ IsWith(InsertAt(r, k, e), r, k, e)
      BY <1>0, <1>1, <2>1, InsertedAt
    <2>. QED
      BY <1>2, <2>2 DEF Moved, r, e
  <1>3. CASE t = MoveLayerUp(i)
    <2>1. (IF i = n THEN i ELSE i + 1) \in 1..n
      BY <1>0
    <2>. QED
      BY <1>0, <1>2, <1>3, <2>1 DEF MoveLayerUp, r, e
  <1>4. CASE t = MoveLayerDown(i)
    <2>1. (IF i = 1 THEN 1 ELSE i - 1) \in 1..n
      BY <1>0
    <2>. QED
      BY <1>0, <1>2, <1>4, <2>1 DEF MoveLayerDown, r, e
  <1>5. CASE t = MoveLayer(i, j)
    BY <1>0, <1>2, <1>5 DEF MoveLayer, r, e
  <1>6. CASE t = MoveLayerTop(i)
    <2>1. t = Append(r, e)
      BY <1>6 DEF MoveLayerTop, r, e
    <2>2. Append(r, e) \in Seq(S) /\ IsWith(Append(r, e), r, Len(r) + 1, e)
      BY <1>0, <1>1, AddedLast
    <2>3. Len(r) + 1 \in 1..n
      BY <1>0, <1>1
    <2>. QED
      BY <1>0, <2>1, <2>2, <2>3 DEF r, e
  <1>7. CASE t = MoveLayerBottom(i)
    <2>1. t = <<e>> \o r
      BY <1>7 DEF MoveLayerBottom, r, e
    <2>2. <<e>> \o r \in Seq(S) /\ IsWith(<<e>> \o r, r, 1, e)
      BY <1>0, <1>1, AddedFirst
    <2>3. 1 \in 1..n
      BY <1>0
    <2>. QED
      BY <1>0, <2>1, <2>2, <2>3 DEF r, e
  <1>. QED
    BY <1>3, <1>4, <1>5, <1>6, <1>7

LEMMA StackMove ==
  ASSUME IInv, "swept" \notin lapses, Move
  PROVE  Stack!Move
  <1>. DEFINE n == Len(activeLayers)
  <1>1. /\ activeLayers \in Seq(Nat) /\ n \in Nat /\ IsInjective(activeLayers)
        /\ DOMAIN activeLayers = 1..n /\ DOMAIN Shown = 1..n
        /\ \A i \in 1..n : activeLayers[i] \in Handles /\ allLayers[activeLayers[i]] \in Source
        /\ Shown = Mapped(allLayers, activeLayers)
        /\ Shown \in Seq(Source) /\ Len(Shown) = n
        /\ \A i \in 1..n : Shown[i] = allLayers[activeLayers[i]]
    BY ShownIs
  <1>2. PICK i \in 1..n, j \in 1..n :
          activeLayers' \in {MoveLayerUp(i), MoveLayerDown(i), MoveLayerTop(i),
                             MoveLayerBottom(i), MoveLayer(i, j)}
    BY <1>1 DEF Move
  <1>3. /\ activeLayers' \in Seq(Nat)
        /\ \E k \in DOMAIN activeLayers :
             IsWith(activeLayers', RemoveAt(activeLayers, i), k, activeLayers[i])
    <2>1. activeLayers \in Seq(Nat) /\ i \in DOMAIN activeLayers /\ j \in DOMAIN activeLayers
      BY <1>1
    <2>2. \A t \in {MoveLayerUp(i), MoveLayerDown(i), MoveLayerTop(i),
                    MoveLayerBottom(i), MoveLayer(i, j)} :
            /\ t \in Seq(Nat)
            /\ \E k \in DOMAIN activeLayers :
                 IsWith(t, RemoveAt(activeLayers, i), k, activeLayers[i])
      BY ONLY <2>1, MovedTo
    <2>. QED
      BY <1>2, <2>2
  <1>4. PICK k \in 1..n, t \in Seq(Nat) :
          t = activeLayers' /\ IsWith(t, RemoveAt(activeLayers, i), k, activeLayers[i])
    BY <1>1, <1>3
  <1>5. ToSet(activeLayers') = ToSet(activeLayers) /\ allLayers' = allLayers /\ Handles' = Handles
    BY <1>1, <1>2, LayerMoved DEF Move, Handles
  <1>. DEFINE r == RemoveAt(activeLayers, i)
             q == RemoveAt(Shown, i)
             e == activeLayers[i]
  <1>6. /\ r \in Seq(Nat) /\ Len(r) = n - 1 /\ ToSet(r) \subseteq ToSet(activeLayers)
        /\ Mapped(allLayers, r) = q /\ q \in Seq(Source) /\ Len(q) = n - 1
        /\ e \in Handles /\ allLayers[e] = Shown[i] /\ Shown[i] \in Source
    <2>0. /\ activeLayers \in Seq(Nat) /\ IsInjective(activeLayers) /\ i \in 1..Len(activeLayers)
          /\ \A m \in 1..Len(activeLayers) : allLayers[activeLayers[m]] \in Source
      BY <1>1
    <2>1. r \in Seq(Nat) /\ Len(r) = n - 1 /\ ToSet(r) \subseteq ToSet(activeLayers)
      BY ONLY <2>0, TakenOut
    <2>2. Mapped(allLayers, r) = q
      <3>1. PICK s \in Seq(Nat), f \in {allLayers} : s = activeLayers /\ f = allLayers
        BY <2>0
      <3>2. i \in 1..Len(s) /\ \A m \in 1..Len(s) : f[s[m]] \in Source
        BY <2>0, <3>1
      <3>3. /\ Mapped(f, RemoveAt(s, i)) = RemoveAt(Mapped(f, s), i)
            /\ RemoveAt(Mapped(f, s), i) \in Seq(Source)
        BY ONLY <3>2, MappedRemoved
      <3>. QED
        BY <1>1, <3>1, <3>3
    <2>3. q \in Seq(Source) /\ Len(q) = n - 1
      BY <1>1, RemovedAt
    <2>. QED
      BY <1>1, <2>1, <2>2, <2>3
  <1>. HIDE DEF r, q, e
  <1>7. \A m \in ToSet(activeLayers) : m \in Handles /\ allLayers[m] \in Source
    BY <1>1 DEF ToSet
  <1>8. Shown' = Mapped(allLayers, t)
    <2>1. \A m \in 1..Len(t) : t[m] \in Handles'
      BY <1>4, <1>5, <1>7, Elements
    <2>. QED
      BY <1>4, <1>5, <2>1, ShownNext
  <1>9. /\ Mapped(allLayers, t) \in Seq(Source)
        /\ IsWith(Mapped(allLayers, t), q, k, Shown[i])
    <2>1. IsWith(t, r, k, e)
      BY <1>4 DEF r, e
    <2>2. \A m \in 1..Len(r) : allLayers[r[m]] \in Source
      BY <1>6, <1>7, Elements
    <2>3. k \in 1..Len(r) + 1
      BY <1>1, <1>6
    <2>4. /\ Mapped(allLayers, t) \in Seq(Source)
          /\ IsWith(Mapped(allLayers, t), Mapped(allLayers, r), k, allLayers[e])
      <3>1. allLayers[e] \in Source
        BY <1>6
      <3>. QED
        BY <1>6, <2>1, <2>2, <2>3, <3>1, MappedWith
    <2>. QED
      BY <1>6, <2>4
  <1>10. InsertAt(q, k, Shown[i]) \in Seq(Source) /\ IsWith(InsertAt(q, k, Shown[i]), q, k, Shown[i])
    <2>1. k \in 1..Len(q) + 1
      BY <1>1, <1>6
    <2>. QED
      BY <1>6, <2>1, InsertedAt
  <1>11. Shown' = InsertAt(q, k, Shown[i])
    BY <1>6, <1>8, <1>9, <1>10, IsWithUnique
  <1>12. i \in DOMAIN Shown /\ k \in DOMAIN Shown /\ Shown' = InsertAt(RemoveAt(Shown, i), k, Shown[i])
    BY <1>1, <1>11 DEF q
  <1>. QED
    BY <1>12 DEF Stack!Move, Stack!RemoveAt, RemoveAt, Stack!InsertAt, InsertAt

(* When the slots are dropped, nothing is drawn any more.                  *)
LEMMA StackDrop ==
  ASSUME IInv, "swept" \notin lapses, RemoveNone \/ Swept
  PROVE  Shown' = Shown
  <1>1. allLayers' = <<>> /\ activeLayers' = activeLayers /\ lapses' = lapses
    BY DEF RemoveNone, Swept, DropSlots
  <1>2. Agreed(allLayers, activeLayers)'
    BY <1>1, DropStep DEF IInv, Synced
  <1>3. DOMAIN activeLayers = {}
    BY <1>1, <1>2 DEF Agreed, ToSet
  <1>. QED
    BY <1>1, <1>3 DEF Shown

LEMMA StackElsewhere ==
  ASSUME UNCHANGED layerVars
  PROVE  Shown' = Shown
  BY DEF layerVars, Shown, Handles

LEMMA InitStack == Init => Stack!Init
  BY DEF Init, Stack!Init, Shown

(* Each step of the map is one of the stack, or none, until a handler adds *)
(* a layer while all of them are being removed.                            *)
LEMMA StackStep ==
  ASSUME IInv, Next
  PROVE  \/ Stack!Next \/ "swept" \in lapses'
         \/ Shown' = Shown
  <1>. SUFFICES ASSUME "swept" \notin lapses
                PROVE  Stack!Next \/ "swept" \in lapses' \/ Shown' = Shown
    BY SweptStays
  <1>1. ASSUME NEW s \in Source, AddLayer(s) PROVE Stack!Put
    BY <1>1, StackAdd
  <1>2. ASSUME NEW s \in Source, RefuseLayer(s) PROVE Shown' = Shown
    BY <1>2, StackRefuse
  <1>3. ASSUME NEW h \in Handles, NEW close, RemoveLayer(h, close)
        PROVE  Stack!Take
    BY <1>3, StackTake DEF RemoveLayer, IsValidLayer
  <1>4. ASSUME RemoveAllLayers PROVE Stack!Take
    <2>1. NextValid(1) \in Handles /\ allLayers[NextValid(1)] # NULL
      BY <1>4, SlotFacts, NextSlot DEF RemoveAllLayers
    <2>2. RemoveLayerCore(NextValid(1), TRUE)
      BY <1>4 DEF RemoveAllLayers
    <2>. QED
      BY <2>1, <2>2, StackTake
  <1>5. ASSUME Sweep PROVE Stack!Take
    <2>. DEFINE m == Last(running) + 1
    <2>0. m \in Nat
      BY <1>5, SlotFacts, Nesting DEF Sweep, InSweep
    <2>1. NextValid(m) # 0 /\ RemoveLayerCore(NextValid(m), TRUE)
      BY <1>5 DEF Sweep
    <2>. HIDE DEF m
    <2>2. NextValid(m) \in Handles /\ allLayers[NextValid(m)] # NULL
      BY <2>0, <2>1, SlotFacts, NextSlot
    <2>. QED
      BY <2>1, <2>2, StackTake
  <1>6. ASSUME RemoveNone \/ Swept PROVE Shown' = Shown
    BY <1>6, StackDrop
  <1>7. ASSUME Move PROVE Stack!Move
    BY <1>7, StackMove
  <1>8. ASSUME UNCHANGED layerVars PROVE Shown' = Shown
    BY <1>8, StackElsewhere
  <1>9. \/ \E s \in Source : AddLayer(s) \/ RefuseLayer(s)
        \/ \E h \in Handles, close \in BOOLEAN : RemoveLayer(h, close)
        \/ RemoveAllLayers \/ Sweep \/ RemoveNone \/ Swept \/ Move
        \/ UNCHANGED layerVars
    BY DEF Next, StartEditingShapes, StopEditingShapes, EditDeleteShape,
       AddClosed, LayerAdded, ClientLocks, ClientUnlocks, DoPanning,
       ClickShape, ClickCrashes, DrawShape, ClearEditor
  <1>. QED
    BY <1>1, <1>2, <1>3, <1>4, <1>5, <1>6, <1>7, <1>8, <1>9 DEF Stack!Next

(* The layers of a map are drawn as a stack: they are added on top, taken  *)
(* out and moved, and the others keep their order, through all reuse of    *)
(* handles and all nesting of calls and handlers (Map_Layer.cpp:758 apart).*)
THEOREM LayersAreAStack == Spec => ImplementsStack
  <1>1. IInv /\ [Next]_vars => [Stack!Next \/ "swept" \in lapses']_Shown
    <2>. SUFFICES ASSUME IInv, [Next]_vars
                  PROVE  Stack!Next \/ "swept" \in lapses' \/ Shown' = Shown
      OBVIOUS
    <2>1. CASE Next
      BY <2>1, StackStep
    <2>2. CASE UNCHANGED vars
      BY <2>2, StackElsewhere DEF vars
    <2>. QED
      BY <2>1, <2>2
  <1>. QED
    BY <1>1, InitIInv, NextIInv, InitStack, PTL DEF Spec, ImplementsStack
=============================================================================
