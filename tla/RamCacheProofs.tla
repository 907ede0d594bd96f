--------------------------- MODULE RamCacheProofs ---------------------------
(***************************************************************************)
(* TLAPS proofs about RamCache, for any number of tiles, keys and workers: *)
(* reference counts are exact and nothing that is held has been freed.     *)
(***************************************************************************)
EXTENDS RamCache, FiniteSetTheorems, TLAPS

(* Only the task that has downloaded a tile knows it until AddToCache, and *)
(* nobody knows an address that was never allocated.                       *)
Private(t) ==
  /\ refs[t] = 0
  /\ found # t
  /\ \A k \in Key : tilesMap[k] # t

Ownership ==
  /\ \A w \in Worker : pc[w] # "idle" => own[w] \in Tile
  /\ \A w \in Worker : pc[w] = "loaded" =>
       /\ heap[own[w]] = "live"
       /\ Private(own[w])
       /\ \A v \in Worker \ {w} : own[v] # own[w]
  /\ \A t \in Tile : heap[t] = "unborn" =>
       /\ Private(t)
       /\ \A w \in Worker : own[w] # t

(* The inductive invariant.                                                *)
IInv == TypeOK /\ RefsExact /\ HeldAreLive /\ SizeMatchesMap /\ Ownership

-----------------------------------------------------------------------------
(* The tiles that Release is called on keep exact counts, and only those   *)
(* whose count drops to zero are freed.                                    *)
LEMMA ReleaseCounts ==
  ASSUME TypeOK, NEW n \in [Tile -> Nat], \A t \in Tile : n[t] <= refs[t],
         ReleaseAll(n)
  PROVE  /\ refs' \in [Tile -> Nat]
         /\ heap' \in [Tile -> {"unborn", "live", "freed"}]
         /\ \A t \in Tile :
              /\ refs'[t] = refs[t] - n[t]
              /\ refs'[t] > 0 \/ n[t] = 0 => heap'[t] = heap[t]
              /\ heap'[t] = "unborn" => heap[t] = "unborn"
  BY DEF TypeOK, ReleaseAll

(* The map loses as many entries as RamCache subtracts from m_size.        *)
LEMMA MapSize ==
  ASSUME NEW M, NEW D, D \subseteq M, M \subseteq Key
  PROVE  /\ Cardinality(M) \in Nat
         /\ Cardinality(D) \in Nat
         /\ Cardinality(D) <= Cardinality(M)
         /\ Cardinality(M \ D) = Cardinality(M) - Cardinality(D)
  <1>1. IsFiniteSet(M) /\ IsFiniteSet(D)
    BY RamCacheAssumption, FS_Subset
  <1>2. Cardinality(M \ D) = Cardinality(M) - Cardinality(M \cap D)
    BY <1>1, FS_Difference
  <1>3. M \cap D = D
    OBVIOUS
  <1>. QED
    BY <1>1, <1>2, <1>3, FS_CardinalityType, FS_Subset

LEMMA MapGrows ==
  ASSUME NEW M, NEW k \in Key, M \subseteq Key, k \notin M
  PROVE  Cardinality(M \cup {k}) = Cardinality(M) + 1
  <1>1. IsFiniteSet(M)
    BY RamCacheAssumption, FS_Subset
  <1>. QED
    BY <1>1, FS_AddElement

Mapped == {k \in Key : tilesMap[k] # NoTile}

-----------------------------------------------------------------------------
LEMMA InitIInv == Init => IInv
  <1> SUFFICES ASSUME Init PROVE IInv
    OBVIOUS
  <1>1. TypeOK
    BY DEF Init, TypeOK
  <1>2. RefsExact /\ HeldAreLive
    BY DEF Init, RefsExact, HeldAreLive, InList
  <1>3. SizeMatchesMap
    <2>1. {k \in Key : tilesMap[k] # NoTile} = {}
      BY DEF Init
    <2>. QED
      BY <2>1, FS_EmptySet DEF Init, SizeMatchesMap
  <1>4. Ownership
    BY RamCacheAssumption DEF Init, Ownership, Private
  <1>. QED
    BY <1>1, <1>2, <1>3, <1>4 DEF IInv

(* Steps that touch neither the map nor m_size keep SizeMatchesMap.        *)
LEMMA SameMap ==
  SizeMatchesMap /\ UNCHANGED <<tilesMap, size>> => SizeMatchesMap'
  BY DEF SizeMatchesMap

LEMMA DownloadIInv ==
  ASSUME IInv, NEW w \in Worker, NEW t \in Tile, Download(w, t)
  PROVE  IInv'
  <1> USE DEF IInv
  <1>1. TypeOK'
    BY DEF TypeOK, Download, cacheVars, holderVars, uiVars
  <1>2. RefsExact' /\ HeldAreLive'
    BY DEF TypeOK, Download, RefsExact, HeldAreLive, InList, cacheVars, holderVars
  <1>3. SizeMatchesMap'
    BY SameMap DEF Download, cacheVars
  <1>4. Ownership'
    BY DEF TypeOK, Download, Ownership, Private, cacheVars, uiVars
  <1>. QED
    BY <1>1, <1>2, <1>3, <1>4

(* A new tile is the youngest of the list and has one reference.           *)
LEMMA Inserted ==
  ASSUME TypeOK, NEW t \in Tile, refs[t] = 0,
         tilesMap[KeyOf[t]] = NoTile, Insert(t)
  PROVE  /\ listAge' \in [Tile -> Nat]
         /\ refs' \in [Tile -> Nat]
         /\ \A u \in Tile : InList(u)' <=> u = t \/ InList(u)
         /\ \A u \in Tile : refs'[u] = IF u = t THEN 1 ELSE refs[u]
  <1>1. listAge' = [u \in Tile |->
                      IF u = t \/ listAge[u] > 0 THEN listAge[u] + 1 ELSE 0]
    BY DEF Insert, InList
  <1>2. listAge' \in [Tile -> Nat]
    BY <1>1 DEF TypeOK
  <1>3. \A u \in Tile : InList(u)' <=> u = t \/ InList(u)
    BY <1>1 DEF TypeOK, InList
  <1>4. refs' = [refs EXCEPT ![t] = refs[t] + 1]
    BY DEF Insert
  <1>5. /\ refs' \in [Tile -> Nat]
        /\ \A u \in Tile : refs'[u] = IF u = t THEN 1 ELSE refs[u]
    BY <1>4 DEF TypeOK
  <1>. QED
    BY <1>2, <1>3, <1>5

LEMMA AddToCacheIInv ==
  ASSUME IInv, NEW w \in Worker, AddToCache(w)
  PROVE  IInv'
  <1> USE DEF IInv
  <1> DEFINE t == own[w]
  <1>1. /\ t \in Tile /\ heap[t] = "live" /\ refs[t] = 0 /\ ~InList(t)
        /\ KeyOf[t] \in Key
    BY RamCacheAssumption DEF TypeOK, AddToCache, Ownership, Private, RefsExact, InList
  <1>2. CASE UNCHANGED <<refs, cacheVars>>
    <2>1. TypeOK'
      BY <1>2 DEF TypeOK, AddToCache, cacheVars, holderVars, uiVars
    <2>2. RefsExact' /\ HeldAreLive'
      BY <1>2 DEF AddToCache, RefsExact, HeldAreLive, InList, cacheVars, holderVars
    <2>3. Ownership'
      BY <1>2 DEF TypeOK, AddToCache, Ownership, Private, cacheVars, uiVars
    <2>. QED
      BY <1>2, <2>1, <2>2, <2>3, SameMap DEF cacheVars
  <1>3. CASE tilesMap[KeyOf[t]] = NoTile /\ Insert(t) /\ DoRamCaching
    <2>1. TypeOK'
      <3>1. /\ size' \in Nat
            /\ tilesMap' \in [Key -> Tile \cup {NoTile}]
        BY <1>1, <1>3 DEF TypeOK, Insert
      <3>2. pc' \in [Worker -> {"idle", "loaded", "stored", "select", "marked", "cached", "finish"}]
        BY DEF TypeOK, AddToCache
      <3>. QED
        BY <1>1, <1>3, <3>1, <3>2, Inserted DEF TypeOK, AddToCache, holderVars, uiVars
    <2>2. RefsExact' /\ HeldAreLive'
      <3>1. UNCHANGED <<heap, buffer, queued>>
        BY DEF AddToCache, holderVars
      <3>2. /\ \A u \in Tile : InList(u)' <=> u = t \/ InList(u)
            /\ \A u \in Tile : refs'[u] = IF u = t THEN 1 ELSE refs[u]
        BY <1>1, <1>3, Inserted
      <3>3. RefsExact'
        <4>1. \A u \in Tile : (IF InList(u)' THEN 1 ELSE 0) =
                              IF u = t THEN 1 ELSE IF InList(u) THEN 1 ELSE 0
          BY <3>2
        <4>2. buffer[t] = 0 /\ queued[t] = 0
          BY <1>1 DEF TypeOK, RefsExact
        <4>. QED
          BY <1>1, <3>1, <3>2, <4>1, <4>2 DEF TypeOK, RefsExact
      <3>4. HeldAreLive'
        BY <1>1, <3>1, <3>2 DEF TypeOK, HeldAreLive
      <3>. QED
        BY <3>3, <3>4
    <2>3. SizeMatchesMap'
      <3>1. Mapped' = Mapped \cup {KeyOf[t]} /\ KeyOf[t] \notin Mapped
        BY <1>1, <1>3, RamCacheAssumption DEF TypeOK, Insert, Mapped
      <3>2. Cardinality(Mapped') = Cardinality(Mapped) + 1
        BY <1>1, <3>1, MapGrows DEF Mapped
      <3>. QED
        BY <1>3, <3>2 DEF SizeMatchesMap, Mapped, Insert
    <2>4. Ownership'
      BY <1>1, <1>3 DEF TypeOK, AddToCache, Insert, Ownership, Private, uiVars
    <2>. QED
      BY <2>1, <2>2, <2>3, <2>4
  <1>. QED
    BY <1>2, <1>3 DEF AddToCache, Insert

LEMMA SelectIInv ==
  ASSUME IInv, NEW w \in Worker, CheckSize(w) \/ Mark(w) \/ Outdated(w)
  PROVE  IInv'
  <1> USE DEF IInv
  <1>1. TypeOK'
    <2>1. CASE CheckSize(w)
      BY <2>1 DEF TypeOK, CheckSize, Listed, tileVars, cacheVars, holderVars, uiVars
    <2>2. CASE Mark(w)
      <3>1. CASE \E t \in oldest[w] : heap[t] = "freed"
        BY <2>2, <3>1 DEF TypeOK, Mark, Crash, tileVars, cacheVars, holderVars, workerVars, uiVars
      <3>2. CASE ~ \E t \in oldest[w] : heap[t] = "freed"
        <4>1. toDelete' \in [Tile -> BOOLEAN]
          <5>1. toDelete' = [t \in Tile |-> toDelete[t] \/ t \in oldest[w]]
            BY <2>2, <3>2 DEF Mark
          <5>. QED
            BY <5>1, Zenon DEF TypeOK
        <4>2. /\ oldest' \in [Worker -> SUBSET Tile]
              /\ pc' \in [Worker -> {"idle", "loaded", "stored", "select", "marked", "cached", "finish"}]
          BY <2>2, <3>2 DEF TypeOK, Mark
        <4>. QED
          BY <2>2, <3>2, <4>1, <4>2 DEF TypeOK, Mark, cacheVars, holderVars, uiVars
      <3>. QED
        BY <3>1, <3>2
    <2>3. CASE Outdated(w)
      BY <2>3 DEF TypeOK, Outdated, tileVars, cacheVars, holderVars, uiVars
    <2>. QED
      BY <2>1, <2>2, <2>3
  <1>2. UNCHANGED <<heap, refs, cacheVars, holderVars, own, found>>
    BY DEF CheckSize, Mark, Outdated, Crash, tileVars, workerVars, uiVars
  <1>3. RefsExact' /\ HeldAreLive'
    BY <1>2 DEF RefsExact, HeldAreLive, InList, cacheVars, holderVars
  <1>4. Ownership'
    BY <1>2 DEF TypeOK, CheckSize, Mark, Outdated, Crash, Ownership, Private,
                cacheVars, workerVars
  <1>. QED
    BY <1>1, <1>2, <1>3, <1>4, SameMap DEF cacheVars

Holders(t) == (IF InList(t) THEN 1 ELSE 0) + buffer[t] + queued[t]

(* A step that lets holders go and calls Release once for each of them.    *)
LEMMA Released ==
  ASSUME TypeOK, RefsExact, HeldAreLive, NEW n \in [Tile -> Nat], ReleaseAll(n),
         listAge' \in [Tile -> Nat], buffer' \in [Tile -> Nat], queued' \in [Tile -> Nat],
         \A t \in Tile : /\ Holders(t) = Holders(t)' + n[t]
                         /\ InList(t)' => InList(t)
                         /\ buffer'[t] <= buffer[t]
                         /\ queued'[t] <= queued[t]
  PROVE  /\ RefsExact' /\ HeldAreLive'
         /\ refs' \in [Tile -> Nat]
         /\ heap' \in [Tile -> {"unborn", "live", "freed"}]
         /\ \A t \in Tile : refs[t] = 0 => refs'[t] = 0 /\ heap'[t] = heap[t]
         /\ \A t \in Tile : heap'[t] = "unborn" => heap[t] = "unborn"
  <1>1. \A t \in Tile : /\ Holders(t) \in Nat /\ Holders(t)' \in Nat
                        /\ n[t] \in Nat /\ refs[t] = Holders(t)
    BY DEF TypeOK, RefsExact, Holders
  <1>2. \A t \in Tile : n[t] <= refs[t]
    BY <1>1
  <1>3. /\ refs' \in [Tile -> Nat]
        /\ heap' \in [Tile -> {"unborn", "live", "freed"}]
        /\ \A t \in Tile :
             /\ refs'[t] = refs[t] - n[t]
             /\ refs'[t] > 0 \/ n[t] = 0 => heap'[t] = heap[t]
             /\ heap'[t] = "unborn" => heap[t] = "unborn"
    BY <1>2, ReleaseCounts
  <1>4. \A t \in Tile : refs'[t] = Holders(t)'
    BY <1>1, <1>3
  <1>5. RefsExact'
    BY <1>4 DEF RefsExact, Holders
  <1>6. ASSUME NEW t \in Tile, (InList(t) \/ buffer[t] > 0 \/ queued[t] > 0)'
        PROVE  heap'[t] = "live"
    <2>1. Holders(t)' > 0
      BY <1>6 DEF Holders
    <2>2. heap'[t] = heap[t]
      BY <2>1, <1>4, <1>3
    <2>3. InList(t) \/ buffer[t] > 0 \/ queued[t] > 0
      BY <1>6 DEF TypeOK
    <2>. QED
      BY <2>2, <2>3 DEF HeldAreLive
  <1>7. HeldAreLive'
    BY <1>6 DEF HeldAreLive
  <1>8. \A t \in Tile : refs[t] = 0 => n[t] = 0
    BY <1>1
  <1>. QED
    BY <1>1, <1>3, <1>5, <1>7, <1>8

(* A live tile gets into the screen buffer.                                *)
LEMMA Shown ==
  ASSUME TypeOK, RefsExact, HeldAreLive, NEW t \in Tile, AddTileNoCaching(t),
         heap' = [heap EXCEPT ![t] = "live"], UNCHANGED <<listAge, queued>>
  PROVE  /\ RefsExact' /\ HeldAreLive'
         /\ refs' \in [Tile -> Nat] /\ buffer' \in [Tile -> Nat]
         /\ heap' \in [Tile -> {"unborn", "live", "freed"}]
         /\ inBuffer' \in [Tile -> BOOLEAN] /\ toDelete' \in [Tile -> BOOLEAN]
         /\ \A u \in Tile \ {t} : refs'[u] = refs[u] /\ heap'[u] = heap[u]
         /\ heap'[t] = "live"
  BY DEF TypeOK, RefsExact, HeldAreLive, AddTileNoCaching, InList

(* The tiles that DeleteMarkedTiles removes lose one holder each.          *)
LEMMA DeletedMarked ==
  ASSUME TypeOK, RefsExact, HeldAreLive, NEW flag, DeleteMarkedTiles(flag),
         UNCHANGED <<buffer, queued>>
  PROVE  /\ RefsExact' /\ HeldAreLive'
         /\ listAge' \in [Tile -> Nat]
         /\ refs' \in [Tile -> Nat]
         /\ heap' \in [Tile -> {"unborn", "live", "freed"}]
         /\ \A t \in Tile : refs[t] = 0 => refs'[t] = 0 /\ heap'[t] = heap[t]
         /\ \A t \in Tile : heap'[t] = "unborn" => heap[t] = "unborn"
  <1> DEFINE gone == {t \in Listed : flag[t]}
             n == Once(gone)
  <1>1. n \in [Tile -> Nat] /\ \A t \in Tile : n[t] = IF t \in gone THEN 1 ELSE 0
    BY DEF Once
  <1>2. listAge' = [t \in Tile |-> IF t \in gone THEN 0 ELSE listAge[t]]
    BY DEF DeleteMarkedTiles
  <1>3. /\ listAge' \in [Tile -> Nat]
        /\ \A t \in Tile : InList(t)' <=> InList(t) /\ t \notin gone
    <2> HIDE DEF gone
    <2>. QED
      BY <1>2 DEF TypeOK, InList
  <1>4. \A t \in gone : InList(t)
    BY DEF Listed
  <1>5. ReleaseAll(n)
    BY DEF DeleteMarkedTiles
  <1>6. \A t \in Tile : /\ Holders(t) = Holders(t)' + n[t]
                        /\ buffer'[t] <= buffer[t] /\ queued'[t] <= queued[t]
    <2> HIDE DEF gone, n
    <2>. QED
      BY <1>1, <1>3, <1>4 DEF Holders, TypeOK
  <1>7. buffer' \in [Tile -> Nat] /\ queued' \in [Tile -> Nat]
    BY DEF TypeOK
  <1> HIDE DEF n, gone
  <1>. QED
    BY <1>1, <1>3, <1>5, <1>6, <1>7, Released

-----------------------------------------------------------------------------
LEMMA CrashIInv ==
  ASSUME IInv, Crash
  PROVE  IInv'
  <1> USE DEF IInv
  <1>1. UNCHANGED <<tileVars, cacheVars, holderVars, workerVars, uiVars>> /\ fault' = TRUE
    BY DEF Crash
  <1>2. TypeOK'
    BY <1>1 DEF TypeOK, tileVars, cacheVars, holderVars, workerVars, uiVars
  <1>3. RefsExact' /\ HeldAreLive'
    BY <1>1 DEF RefsExact, HeldAreLive, InList, tileVars, cacheVars, holderVars
  <1>4. Ownership'
    BY <1>1 DEF Ownership, Private, tileVars, cacheVars, workerVars, uiVars
  <1>. QED
    BY <1>1, <1>2, <1>3, <1>4, SameMap DEF cacheVars

(* What is private stays private while references come and go elsewhere.   *)
LEMMA OwnershipKept ==
  ASSUME IInv, UNCHANGED <<tilesMap, found, own>>,
         \A t \in Tile : /\ heap'[t] = "unborn" => heap[t] = "unborn"
                         /\ refs[t] = 0 => refs'[t] = 0 /\ heap'[t] = heap[t],
         \A w \in Worker : pc'[w] = "loaded" => pc[w] = "loaded",
         \A w \in Worker : pc'[w] # "idle" => pc[w] # "idle"
  PROVE  Ownership'
  BY DEF IInv, TypeOK, Ownership, Private

LEMMA ClearOldestIInv ==
  ASSUME IInv, NEW w \in Worker, ClearOldest(w)
  PROVE  IInv'
  <1> USE DEF IInv
  <1>1. DeleteMarkedTiles(toDelete) /\ UNCHANGED <<buffer, queued, tilesMap, size, found, own>>
    BY DEF ClearOldest, holderVars, uiVars
  <1>2. /\ RefsExact' /\ HeldAreLive'
        /\ listAge' \in [Tile -> Nat]
        /\ refs' \in [Tile -> Nat]
        /\ heap' \in [Tile -> {"unborn", "live", "freed"}]
        /\ \A t \in Tile : refs[t] = 0 => refs'[t] = 0 /\ heap'[t] = heap[t]
        /\ \A t \in Tile : heap'[t] = "unborn" => heap[t] = "unborn"
    BY <1>1, DeletedMarked
  <1>3. TypeOK'
    BY <1>2 DEF TypeOK, ClearOldest, holderVars, uiVars
  <1>4. /\ \A v \in Worker : pc'[v] = "loaded" => pc[v] = "loaded"
        /\ \A v \in Worker : pc'[v] # "idle" => pc[v] # "idle"
    BY DEF TypeOK, ClearOldest
  <1>5. Ownership'
    BY <1>1, <1>2, <1>4, OwnershipKept
  <1>. QED
    BY <1>1, <1>2, <1>3, <1>5, SameMap

LEMMA ShowIInv ==
  ASSUME IInv, NEW w \in Worker, Show(w)
  PROVE  IInv'
  <1> USE DEF IInv
  <1>1. CASE heap[own[w]] = "freed"
    BY <1>1, CrashIInv DEF Show
  <1>2. CASE heap[own[w]] # "freed"
    <2>1. /\ own[w] \in Tile
          /\ AddTileNoCaching(own[w])
          /\ pc[w] = "cached" /\ pc' = [pc EXCEPT ![w] = "finish"]
          /\ UNCHANGED <<heap, cacheVars, queued, own, oldest, uiVars, fault>>
      BY <1>2 DEF Show, Ownership
    <2>2. heap[own[w]] = "live" /\ heap' = [heap EXCEPT ![own[w]] = "live"]
      BY <1>2, <2>1 DEF TypeOK, Ownership
    <2>3. /\ RefsExact' /\ HeldAreLive'
          /\ refs' \in [Tile -> Nat] /\ buffer' \in [Tile -> Nat]
          /\ inBuffer' \in [Tile -> BOOLEAN] /\ toDelete' \in [Tile -> BOOLEAN]
          /\ \A u \in Tile \ {own[w]} : refs'[u] = refs[u] /\ heap'[u] = heap[u]
      BY <2>1, <2>2, Shown DEF cacheVars
    <2>4. TypeOK'
      BY <2>1, <2>3 DEF TypeOK, cacheVars, uiVars
    <2>5. Ownership'
      BY <2>1, <2>2, <2>3 DEF TypeOK, Ownership, Private, cacheVars, uiVars
    <2>. QED
      BY <2>1, <2>3, <2>4, <2>5, SameMap DEF cacheVars
  <1>. QED
    BY <1>1, <1>2

LEMMA ScheduleIInv ==
  ASSUME IInv, NEW w \in Worker, Schedule(w)
  PROVE  IInv'
  <1> USE DEF IInv
  <1>1. CASE DoDiskCaching /\ heap[own[w]] = "freed"
    BY <1>1, CrashIInv DEF Schedule
  <1>2. CASE ~(DoDiskCaching /\ heap[own[w]] = "freed")
    <2>1. /\ own[w] \in Tile /\ pc[w] = "finish"
          /\ pc' = [pc EXCEPT ![w] = "idle"]
          /\ own' = [own EXCEPT ![w] = NoTile]
          /\ UNCHANGED <<heap, inBuffer, toDelete, cacheVars, buffer, oldest, uiVars, fault>>
      BY <1>2 DEF Schedule, Ownership
    <2>2. \/ UNCHANGED <<refs, queued>>
          \/ /\ heap[own[w]] = "live"
             /\ refs' = [refs EXCEPT ![own[w]] = refs[own[w]] + 1]
             /\ queued' = [queued EXCEPT ![own[w]] = queued[own[w]] + 1]
      BY <1>2, <2>1 DEF Schedule, TypeOK, Ownership
    <2>3. TypeOK'
      BY <2>1, <2>2 DEF TypeOK, cacheVars, uiVars
    <2>4. RefsExact' /\ HeldAreLive'
      BY <2>1, <2>2 DEF TypeOK, RefsExact, HeldAreLive, InList, cacheVars
    <2>5. Ownership'
      BY <2>1, <2>2, RamCacheAssumption DEF TypeOK, Ownership, Private, cacheVars, uiVars
    <2>. QED
      BY <2>1, <2>3, <2>4, <2>5, SameMap DEF cacheVars
  <1>. QED
    BY <1>1, <1>2

LEMMA WrittenIInv ==
  ASSUME IInv, NEW t \in Tile, Written(t)
  PROVE  IInv'
  <1> USE DEF IInv
  <1> DEFINE n == Once({t})
  <1>1. /\ queued[t] > 0 /\ queued' = [queued EXCEPT ![t] = queued[t] - 1] /\ ReleaseAll(n)
        /\ UNCHANGED <<inBuffer, toDelete, cacheVars, buffer, workerVars, uiVars, fault>>
    BY DEF Written
  <1>2. n \in [Tile -> Nat] /\ \A u \in Tile : n[u] = IF u = t THEN 1 ELSE 0
    BY DEF Once
  <1>3. /\ queued' \in [Tile -> Nat]
        /\ \A u \in Tile : queued[u] = queued'[u] + n[u] /\ queued'[u] <= queued[u]
    <2> HIDE DEF n
    <2>1. /\ queued \in [Tile -> Nat] /\ queued[t] > 0
          /\ queued' = [queued EXCEPT ![t] = queued[t] - 1]
      BY <1>1 DEF TypeOK
    <2>2. queued' \in [Tile -> Nat]
      BY <2>1
    <2>3. \A u \in Tile : queued'[u] = IF u = t THEN queued[t] - 1 ELSE queued[u]
      BY <2>1
    <2>. QED
      BY <1>2, <2>1, <2>2, <2>3
  <1>4. listAge' = listAge /\ buffer' = buffer
    BY <1>1 DEF cacheVars
  <1>5. \A u \in Tile : Holders(u) = Holders(u)' + n[u] /\ (InList(u)' => InList(u))
    <2> HIDE DEF n
    <2>. QED
      BY <1>2, <1>3, <1>4 DEF Holders, InList, TypeOK
  <1> HIDE DEF n
  <1>6. /\ RefsExact' /\ HeldAreLive'
        /\ refs' \in [Tile -> Nat]
        /\ heap' \in [Tile -> {"unborn", "live", "freed"}]
        /\ \A u \in Tile : refs[u] = 0 => refs'[u] = 0 /\ heap'[u] = heap[u]
        /\ \A u \in Tile : heap'[u] = "unborn" => heap[u] = "unborn"
    <2>1. listAge' \in [Tile -> Nat] /\ buffer' \in [Tile -> Nat]
      BY <1>4 DEF TypeOK
    <2>2. \A u \in Tile : buffer'[u] <= buffer[u]
      BY <1>4 DEF TypeOK
    <2>. QED
      BY <1>1, <1>2, <1>3, <1>5, <2>1, <2>2, Released
  <1>7. TypeOK'
    BY <1>1, <1>3, <1>6 DEF TypeOK, cacheVars, workerVars, uiVars
  <1>8. Ownership'
    BY <1>1, <1>6, OwnershipKept DEF cacheVars, workerVars, uiVars
  <1>. QED
    BY <1>1, <1>6, <1>7, <1>8, SameMap DEF cacheVars

LEMMA LoadTilesIInv ==
  ASSUME IInv, NEW wanted \in SUBSET Key, LoadTiles(wanted)
  PROVE  IInv'
  <1> USE DEF IInv
  <1>1. /\ inBuffer' = [t \in Tile |-> inBuffer[t] /\ buffer[t] = 0]
        /\ toDelete' = [t \in Tile |-> toDelete[t] \/ buffer[t] > 0]
    BY DEF LoadTiles
  <1>2. inBuffer' \in [Tile -> BOOLEAN] /\ toDelete' \in [Tile -> BOOLEAN]
    BY <1>1, Zenon DEF TypeOK
  <1>3. TypeOK'
    BY <1>2 DEF TypeOK, LoadTiles, cacheVars, holderVars, workerVars
  <1>4. RefsExact' /\ HeldAreLive'
    BY DEF LoadTiles, RefsExact, HeldAreLive, InList, cacheVars, holderVars
  <1>5. Ownership'
    BY DEF LoadTiles, Ownership, Private, cacheVars, workerVars
  <1>. QED
    BY <1>3, <1>4, <1>5, SameMap DEF LoadTiles, cacheVars

LEMMA LookUpIInv ==
  ASSUME IInv, NEW k \in Key, LookUp(k)
  PROVE  IInv'
  <1> USE DEF IInv
  <1>1. UNCHANGED <<cacheVars, queued, workerVars, ui, fault>> /\ todo' \subseteq Key
    BY DEF LookUp, TypeOK
  <1>2. CASE InScreenBuffer(k) \/ NotFound(k)
    <2>1. UNCHANGED <<heap, refs, buffer, found>>
      BY <1>2 DEF InScreenBuffer, NotFound, tileVars
    <2>2. inBuffer' \in [Tile -> BOOLEAN] /\ toDelete' \in [Tile -> BOOLEAN]
      BY <1>2 DEF TypeOK, InScreenBuffer, NotFound, tileVars
    <2>3. TypeOK'
      BY <1>1, <2>1, <2>2 DEF TypeOK, cacheVars, workerVars
    <2>4. RefsExact' /\ HeldAreLive' /\ Ownership'
      BY <1>1, <2>1 DEF RefsExact, HeldAreLive, InList, Ownership, Private, cacheVars, workerVars
    <2>. QED
      BY <1>1, <2>3, <2>4, SameMap DEF cacheVars
  <1>3. CASE InRamCache(k)
    <2>1. UNCHANGED <<tileVars, buffer>> /\ found' = tilesMap[k] /\ found' # NoTile
      BY <1>3 DEF InRamCache
    <2>2. TypeOK'
      BY <1>1, <2>1 DEF TypeOK, tileVars, cacheVars, workerVars
    <2>3. RefsExact' /\ HeldAreLive'
      BY <1>1, <2>1 DEF RefsExact, HeldAreLive, InList, tileVars, cacheVars
    <2>4. Ownership'
      BY <1>1, <2>1 DEF TypeOK, Ownership, Private, tileVars, cacheVars, workerVars
    <2>. QED
      BY <1>1, <2>2, <2>3, <2>4, SameMap DEF cacheVars
  <1>4. CASE InDiskCache(k)
    <2>1. PICK t \in Tile : /\ heap[t] = "unborn"
                           /\ heap' = [heap EXCEPT ![t] = "live"]
                           /\ AddTileNoCaching(t)
                           /\ found' = found
      BY <1>4 DEF InDiskCache
    <2>2. /\ RefsExact' /\ HeldAreLive'
          /\ refs' \in [Tile -> Nat] /\ buffer' \in [Tile -> Nat]
          /\ heap' \in [Tile -> {"unborn", "live", "freed"}]
          /\ inBuffer' \in [Tile -> BOOLEAN] /\ toDelete' \in [Tile -> BOOLEAN]
          /\ \A u \in Tile \ {t} : refs'[u] = refs[u] /\ heap'[u] = heap[u]
          /\ heap'[t] = "live"
      BY <1>1, <2>1, Shown DEF cacheVars
    <2>3. TypeOK'
      BY <1>1, <2>1, <2>2 DEF TypeOK, cacheVars, workerVars
    <2>4. Ownership'
      BY <1>1, <2>1, <2>2 DEF TypeOK, Ownership, Private, cacheVars, workerVars
    <2>. QED
      BY <1>1, <2>2, <2>3, <2>4, SameMap DEF cacheVars
  <1>. QED
    BY <1>2, <1>3, <1>4 DEF LookUp

LEMMA UseFoundIInv ==
  ASSUME IInv, UseFound
  PROVE  IInv'
  <1> USE DEF IInv
  <1>1. found \in Tile
    BY DEF UseFound, TypeOK
  <1>2. CASE heap[found] = "freed"
    BY <1>2, CrashIInv DEF UseFound
  <1>3. CASE heap[found] # "freed"
    <2>1. /\ AddTileNoCaching(found) /\ found' = NoTile
          /\ UNCHANGED <<heap, cacheVars, queued, workerVars, ui, todo, fault>>
      BY <1>3 DEF UseFound
    <2>2. heap[found] = "live" /\ heap' = [heap EXCEPT ![found] = "live"]
      BY <1>1, <1>3, <2>1 DEF TypeOK, Ownership, Private
    <2>3. /\ RefsExact' /\ HeldAreLive'
          /\ refs' \in [Tile -> Nat] /\ buffer' \in [Tile -> Nat]
          /\ inBuffer' \in [Tile -> BOOLEAN] /\ toDelete' \in [Tile -> BOOLEAN]
          /\ \A u \in Tile \ {found} : refs'[u] = refs[u]
      BY <1>1, <2>1, <2>2, Shown DEF cacheVars
    <2>4. TypeOK'
      BY <2>1, <2>3 DEF TypeOK, cacheVars, workerVars
    <2>5. Ownership'
      BY <1>1, <2>1, <2>2, <2>3, RamCacheAssumption
         DEF TypeOK, Ownership, Private, cacheVars, workerVars
    <2>. QED
      BY <2>1, <2>3, <2>4, <2>5, SameMap DEF cacheVars
  <1>. QED
    BY <1>2, <1>3

(* The screen buffer drops n[t] references to each tile t.                 *)
LEMMA BufferReleased ==
  ASSUME TypeOK, RefsExact, HeldAreLive, NEW n \in [Tile -> Nat], ReleaseAll(n),
         buffer' \in [Tile -> Nat], \A t \in Tile : buffer[t] = buffer'[t] + n[t],
         UNCHANGED <<listAge, queued>>
  PROVE  /\ RefsExact' /\ HeldAreLive'
         /\ refs' \in [Tile -> Nat]
         /\ heap' \in [Tile -> {"unborn", "live", "freed"}]
         /\ \A t \in Tile : refs[t] = 0 => refs'[t] = 0 /\ heap'[t] = heap[t]
         /\ \A t \in Tile : heap'[t] = "unborn" => heap[t] = "unborn"
  <1>1. \A t \in Tile : /\ Holders(t) = Holders(t)' + n[t]
                        /\ InList(t)' => InList(t)
                        /\ buffer'[t] <= buffer[t]
                        /\ queued'[t] <= queued[t]
    BY DEF Holders, InList, TypeOK
  <1>2. listAge' \in [Tile -> Nat] /\ queued' \in [Tile -> Nat]
    BY DEF TypeOK
  <1>. QED
    BY <1>1, <1>2, Released

LEMMA ReleaseUnusedIInv ==
  ASSUME IInv, ReleaseUnused
  PROVE  IInv'
  <1> USE DEF IInv
  <1> DEFINE n == [t \in Tile |-> IF toDelete[t] THEN buffer[t] ELSE 0]
  <1>1. /\ ReleaseAll(n) /\ buffer' = [t \in Tile |-> IF toDelete[t] THEN 0 ELSE buffer[t]]
        /\ UNCHANGED <<inBuffer, toDelete, cacheVars, queued, workerVars, todo, found, fault>>
        /\ ui' = "idle"
    BY DEF ReleaseUnused
  <1>2. n \in [Tile -> Nat] /\ buffer' \in [Tile -> Nat]
    BY <1>1 DEF TypeOK
  <1>3. \A t \in Tile : buffer[t] = buffer'[t] + n[t]
    BY <1>1 DEF TypeOK
  <1> HIDE DEF n
  <1>4. UNCHANGED <<listAge, queued>>
    BY <1>1 DEF cacheVars
  <1>5. /\ RefsExact' /\ HeldAreLive'
        /\ refs' \in [Tile -> Nat]
        /\ heap' \in [Tile -> {"unborn", "live", "freed"}]
        /\ \A t \in Tile : refs[t] = 0 => refs'[t] = 0 /\ heap'[t] = heap[t]
        /\ \A t \in Tile : heap'[t] = "unborn" => heap[t] = "unborn"
    BY <1>1, <1>2, <1>3, <1>4, BufferReleased
  <1>6. TypeOK'
    BY <1>1, <1>2, <1>5 DEF TypeOK, cacheVars, workerVars
  <1>7. Ownership'
    BY <1>1, <1>5, OwnershipKept DEF cacheVars, workerVars
  <1>. QED
    BY <1>1, <1>5, <1>6, <1>7, SameMap DEF cacheVars

LEMMA ClearIInv ==
  ASSUME IInv, Clear
  PROVE  IInv'
  <1> USE DEF IInv
  <1>1. /\ ReleaseAll(buffer) /\ buffer' = [t \in Tile |-> 0]
        /\ inBuffer' = [t \in Tile |-> inBuffer[t] /\ buffer[t] = 0]
        /\ UNCHANGED <<toDelete, cacheVars, queued, workerVars, uiVars, fault>>
    BY DEF Clear
  <1>2. inBuffer' \in [Tile -> BOOLEAN]
    BY <1>1, Zenon DEF TypeOK
  <1>3. /\ buffer \in [Tile -> Nat] /\ buffer' \in [Tile -> Nat]
        /\ \A t \in Tile : buffer[t] = buffer'[t] + buffer[t]
        /\ UNCHANGED <<listAge, queued>>
    BY <1>1 DEF TypeOK, cacheVars
  <1>4. /\ RefsExact' /\ HeldAreLive'
        /\ refs' \in [Tile -> Nat]
        /\ heap' \in [Tile -> {"unborn", "live", "freed"}]
        /\ \A t \in Tile : refs[t] = 0 => refs'[t] = 0 /\ heap'[t] = heap[t]
        /\ \A t \in Tile : heap'[t] = "unborn" => heap[t] = "unborn"
    BY <1>1, <1>3, BufferReleased
  <1>5. TypeOK'
    BY <1>1, <1>2, <1>3, <1>4 DEF TypeOK, cacheVars, workerVars, uiVars
  <1>6. Ownership'
    BY <1>1, <1>4, OwnershipKept DEF cacheVars, workerVars, uiVars
  <1>. QED
    BY <1>1, <1>4, <1>5, <1>6, SameMap DEF cacheVars

LEMMA ClearByProviderIInv ==
  ASSUME IInv, NEW S \in Selection, ClearByProvider(S)
  PROVE  IInv'
  <1> USE DEF IInv
  <1> DEFINE hit == {k \in S : tilesMap[k] # NoTile}
             out == {k \in hit : ~inBuffer[tilesMap[k]]}
             flag == [t \in Tile |-> toDelete[t] \/ \E k \in out : tilesMap[k] = t]
  <1>1. CASE \E k \in hit : heap[tilesMap[k]] = "freed"
    BY <1>1, CrashIInv DEF ClearByProvider
  <1>2. CASE ~ \E k \in hit : heap[tilesMap[k]] = "freed"
    <2>1. /\ tilesMap' = [k \in Key |-> IF k \in out THEN NoTile ELSE tilesMap[k]]
          /\ size' = size - Cardinality(out)
          /\ toDelete' = flag
          /\ DeleteMarkedTiles(flag)
          /\ UNCHANGED <<inBuffer, holderVars, workerVars, uiVars, fault>>
      BY <1>2 DEF ClearByProvider
    <2>2. flag \in [Tile -> BOOLEAN]
      BY Zenon DEF TypeOK
    <2>3. out \subseteq Mapped
      BY RamCacheAssumption DEF Mapped
    <2> HIDE DEF flag, out
    <2>4. /\ RefsExact' /\ HeldAreLive'
          /\ listAge' \in [Tile -> Nat]
          /\ refs' \in [Tile -> Nat]
          /\ heap' \in [Tile -> {"unborn", "live", "freed"}]
          /\ \A t \in Tile : refs[t] = 0 => refs'[t] = 0 /\ heap'[t] = heap[t]
          /\ \A t \in Tile : heap'[t] = "unborn" => heap[t] = "unborn"
      BY <2>1, DeletedMarked DEF holderVars
    <2>5. size' \in Nat /\ SizeMatchesMap'
      <3>1. Mapped' = Mapped \ out
        BY <2>1 DEF Mapped, TypeOK
      <3>2. /\ Cardinality(Mapped') = Cardinality(Mapped) - Cardinality(out)
            /\ Cardinality(out) <= Cardinality(Mapped)
            /\ Cardinality(out) \in Nat /\ Cardinality(Mapped) \in Nat
        BY <2>3, <3>1, MapSize DEF Mapped
      <3>3. size = Cardinality(Mapped)
        BY DEF SizeMatchesMap, Mapped
      <3>. QED
        BY <2>1, <3>2, <3>3 DEF SizeMatchesMap, Mapped
    <2>6. TypeOK'
      <3>1. tilesMap' \in [Key -> Tile \cup {NoTile}]
        BY <2>1 DEF TypeOK
      <3>. QED
        BY <2>1, <2>2, <2>4, <2>5, <3>1 DEF TypeOK, holderVars, workerVars, uiVars
    <2>7. Ownership'
      <3>1. \A k \in Key : tilesMap'[k] \in {tilesMap[k], NoTile}
        BY <2>1 DEF TypeOK
      <3>. QED
        BY <2>1, <2>4, <3>1, RamCacheAssumption
           DEF TypeOK, Ownership, Private, workerVars, uiVars
    <2>. QED
      BY <2>4, <2>5, <2>6, <2>7
  <1>. QED
    BY <1>1, <1>2

-----------------------------------------------------------------------------
LEMMA NextIInv == IInv /\ [Next]_vars => IInv'
  <1> SUFFICES ASSUME IInv, [Next]_vars PROVE IInv'
    OBVIOUS
  <1>1. CASE UNCHANGED vars
    <2>1. UNCHANGED <<tileVars, cacheVars, holderVars, workerVars, uiVars, fault>>
      BY <1>1 DEF vars
    <2>2. TypeOK'
      BY <2>1 DEF IInv, TypeOK, tileVars, cacheVars, holderVars, workerVars, uiVars
    <2>3. RefsExact' /\ HeldAreLive' /\ Ownership'
      BY <2>1 DEF IInv, RefsExact, HeldAreLive, InList, Ownership, Private,
                  tileVars, cacheVars, holderVars, workerVars, uiVars
    <2>. QED
      BY <2>1, <2>2, <2>3, SameMap DEF IInv, cacheVars
  <1>2. ASSUME NEW w \in Worker, WorkerStep(w) PROVE IInv'
    <2>1. CASE ListRace(w)
      BY <2>1, CrashIInv DEF ListRace
    <2>. QED
      BY <1>2, <2>1, DownloadIInv, AddToCacheIInv, SelectIInv, ClearOldestIInv,
         ShowIInv, ScheduleIInv DEF WorkerStep
  <1>3. CASE UiStep
    BY <1>3, LoadTilesIInv, LookUpIInv, UseFoundIInv, ReleaseUnusedIInv, ClearIInv,
       ClearByProviderIInv DEF UiStep
  <1>. QED
    BY <1>1, <1>2, <1>3, WrittenIInv DEF Next, Stopped

LEMMA Invariance == Spec => []IInv
  BY InitIInv, NextIInv, PTL DEF Spec

(* The types of the C++ variables: in particular no reference count and no *)
(* cache size is ever negative.                                            *)
THEOREM TypeCorrect == Spec => []TypeOK
  <1>1. IInv => TypeOK
    BY DEF IInv
  <1>. QED
    BY <1>1, Invariance, PTL

(* The reference count of every TileCore is the number of its holders,     *)
(* however AddRef and Release interleave (TileCore.h:118).                 *)
THEOREM RefsAreExact == Spec => []RefsExact
  <1>1. IInv => RefsExact
    BY DEF IInv
  <1>. QED
    BY <1>1, Invariance, PTL

(* No tile of the screen buffer, the list of the RAM cache or the queue of *)
(* the disk cacher has been deleted (TileCore.h:40).                       *)
THEOREM NothingHeldIsFreed == Spec => []HeldAreLive
  <1>1. IInv => HeldAreLive
    BY DEF IInv
  <1>. QED
    BY <1>1, Invariance, PTL

(* RamCache::m_size is the number of entries of m_tilesMap, hence not the  *)
(* length of m_list, which ClearOldest shortens.                           *)
THEOREM SizeIsMapSize == Spec => []SizeMatchesMap
  <1>1. IInv => SizeMatchesMap
    BY DEF IInv
  <1>. QED
    BY <1>1, Invariance, PTL
=============================================================================
