------------------------------ MODULE RamCache ------------------------------
(***************************************************************************)
(* The life of a map tile in memory.  A TileCore object is created by a    *)
(* loading task, may be kept by the RAM cache (src/Tiles/RamCache.cpp), by *)
(* the screen buffer CTiles::m_tiles and by the queue of the disk cacher,  *)
(* and deletes itself when its reference count drops to zero.  Worker      *)
(* threads store downloaded tiles while the UI thread rebuilds the screen  *)
(* buffer and clears caches.                                               *)
(*                                                                         *)
(* A step is what one thread does inside one critical section, or between  *)
(* two of them.  RamCache::ClearOldest runs outside any critical section,  *)
(* so it is three steps.  Every tile has size 1.  Once freed memory has    *)
(* been used, or m_list has been used by two threads at once, nothing is   *)
(* known of the program any more: fault becomes TRUE and nothing changes.  *)
(***************************************************************************)
EXTENDS Naturals, FiniteSets

CONSTANTS
  Tile,          \* addresses of TileCore objects; no address is used twice
  NoTile,        \* the null pointer
  Key,           \* (provider, scale, x, y) of a tile
  KeyOf,         \* the key of each tile object
  Worker,        \* threads of the loading pools
  Selection,     \* sets of keys a (provider, fromScale, toScale) filter selects
  MaxSize,       \* RamCache::m_maxSize
  SizeToClear,   \* SIZE_TO_CLEAR
  DoRamCaching,  \* CTiles::m_doRamCaching
  DoDiskCaching  \* CTiles::m_doDiskCaching

ASSUME RamCacheAssumption ==
  /\ NoTile \notin Tile
  /\ IsFiniteSet(Key)
  /\ KeyOf \in [Tile -> Key]
  /\ Selection \subseteq SUBSET Key
  /\ MaxSize \in Nat
  /\ SizeToClear \in Nat
  /\ DoRamCaching \in BOOLEAN
  /\ DoDiskCaching \in BOOLEAN

VARIABLES
  heap,      \* [Tile -> {"unborn", "live", "freed"}]
  refs,      \* TileCore::m_refCount
  inBuffer,  \* TileCore::m_inBuffer
  toDelete,  \* TileCore::m_toDelete
  tilesMap,  \* RamCache::m_tilesMap
  listAge,   \* RamCache::m_list: 0 if not in it, larger means older
  size,      \* RamCache::m_size
  buffer,    \* CTiles::m_tiles: how many times each tile is in it
  queued,    \* how many times each tile waits for the disk cacher
  pc,        \* [Worker -> where in LoadingTask::DoTask the thread is]
  own,       \* [Worker -> the tile the task has downloaded]
  oldest,    \* [Worker -> the tiles ClearOldest has selected]
  ui,        \* "idle", or "scan" while CTiles::LoadTiles runs
  todo,      \* the keys LoadTiles still has to look up
  found,     \* the pointer get_Tile has returned to LoadTiles
  fault      \* a freed tile was used, or m_list was used by two threads

tileVars   == <<heap, refs, inBuffer, toDelete>>
cacheVars  == <<tilesMap, listAge, size>>
holderVars == <<buffer, queued>>
workerVars == <<pc, own, oldest>>
uiVars     == <<ui, todo, found>>
vars == <<tileVars, cacheVars, holderVars, workerVars, uiVars, fault>>

InList(t) == listAge[t] > 0
Listed == {t \in Tile : InList(t)}

-----------------------------------------------------------------------------
Init ==
  /\ heap = [t \in Tile |-> "unborn"]
  /\ refs = [t \in Tile |-> 0]
  /\ inBuffer = [t \in Tile |-> FALSE]
  /\ toDelete = [t \in Tile |-> FALSE]
  /\ tilesMap = [k \in Key |-> NoTile]
  /\ listAge = [t \in Tile |-> 0]
  /\ size = 0
  /\ buffer = [t \in Tile |-> 0]
  /\ queued = [t \in Tile |-> 0]
  /\ pc = [w \in Worker |-> "idle"]
  /\ own = [w \in Worker |-> NoTile]
  /\ oldest = [w \in Worker |-> {}]
  /\ ui = "idle"
  /\ todo = {}
  /\ found = NoTile
  /\ fault = FALSE

(* TileCore::Release called n[t] times on every tile t.                    *)
ReleaseAll(n) ==
  /\ refs' = [t \in Tile |-> refs[t] - n[t]]
  /\ heap' = [t \in Tile |->
                IF n[t] > 0 /\ refs[t] = n[t] THEN "freed" ELSE heap[t]]

Once(S) == [t \in Tile |-> IF t \in S THEN 1 ELSE 0]

(* The program uses memory it has freed.                                   *)
Crash == fault' = TRUE /\ UNCHANGED <<tileVars, cacheVars, holderVars, workerVars, uiVars>>

-----------------------------------------------------------------------------
(* Loading tasks.                                                          *)

(* The http request has answered with a new tile.  The constructor leaves  *)
(* m_inBuffer uninitialized.                                               *)
Download(w, t) ==
  /\ ~fault
  /\ pc[w] = "idle"
  /\ heap[t] = "unborn"
  /\ heap' = [heap EXCEPT ![t] = "live"]
  /\ \E garbage \in BOOLEAN : inBuffer' = [inBuffer EXCEPT ![t] = garbage]
  /\ pc' = [pc EXCEPT ![w] = "loaded"]
  /\ own' = [own EXCEPT ![w] = t]
  /\ UNCHANGED <<refs, toDelete, cacheVars, holderVars, oldest, uiVars, fault>>

(* Mutants of Insert: the cache takes no reference; the size grows even    *)
(* when the key is there already.                                          *)
InsertWithoutRef(t) ==
  IF tilesMap[KeyOf[t]] = NoTile
    THEN /\ tilesMap' = [tilesMap EXCEPT ![KeyOf[t]] = t]
         /\ size' = size + 1
         /\ listAge' = [u \in Tile |->
                        IF u = t \/ InList(u) THEN listAge[u] + 1 ELSE 0]
         /\ UNCHANGED refs
    ELSE UNCHANGED <<refs, cacheVars>>

InsertCountsAlways(t) ==
  IF tilesMap[KeyOf[t]] = NoTile
    THEN /\ tilesMap' = [tilesMap EXCEPT ![KeyOf[t]] = t]
         /\ refs' = [refs EXCEPT ![t] = @ + 1]
         /\ size' = size + 1
         /\ listAge' = [u \in Tile |->
                        IF u = t \/ InList(u) THEN listAge[u] + 1 ELSE 0]
    ELSE size' = size + 1 /\ UNCHANGED <<refs, tilesMap, listAge>>

(* The part of AddToCache under the lock: the tile is added, and a         *)
(* reference taken, unless its key is there already.                       *)
Insert(t) ==
  IF tilesMap[KeyOf[t]] = NoTile
    THEN /\ tilesMap' = [tilesMap EXCEPT ![KeyOf[t]] = t]
         /\ refs' = [refs EXCEPT ![t] = @ + 1]
         /\ size' = size + 1
         /\ listAge' = [u \in Tile |->
                        IF u = t \/ InList(u) THEN listAge[u] + 1 ELSE 0]
    ELSE UNCHANGED <<refs, cacheVars>>

AddToCache(w) ==
  /\ ~fault
  /\ pc[w] = "loaded"
  /\ IF DoRamCaching
       THEN /\ Insert(own[w])
            /\ pc' = [pc EXCEPT ![w] = "stored"]
       ELSE /\ pc' = [pc EXCEPT ![w] = "cached"]
            /\ UNCHANGED <<refs, cacheVars>>
  /\ UNCHANGED <<heap, inBuffer, toDelete, holderVars, own, oldest, uiVars, fault>>

(* The check after the lock is released, and the scan of ClearOldest: the  *)
(* oldest tiles that are not displayed, until more than SizeToClear.       *)
IsOldest(S) ==
  LET idle == {t \in Listed : ~inBuffer[t]}
  IN /\ S \subseteq idle
     /\ \A t \in S, u \in idle : listAge[u] > listAge[t] => u \in S
     /\ \/ S = idle /\ Cardinality(S) <= SizeToClear
        \/ Cardinality(S) = SizeToClear + 1

CheckSize(w) ==
  /\ ~fault
  /\ pc[w] = "stored"
  /\ IF size > MaxSize
       THEN \E S \in SUBSET Listed :
              /\ IsOldest(S)
              /\ oldest' = [oldest EXCEPT ![w] = S]
              /\ pc' = [pc EXCEPT ![w] = "select"]
       ELSE /\ pc' = [pc EXCEPT ![w] = "cached"]
            /\ UNCHANGED oldest
  /\ UNCHANGED <<tileVars, cacheVars, holderVars, own, uiVars, fault>>

(* ClearOldest sets m_toDelete; the UI thread may have shown a selected    *)
(* tile, or the tile may have been freed, since it was selected.           *)
Mark(w) ==
  /\ ~fault
  /\ pc[w] = "select"
  /\ IF \E t \in oldest[w] : heap[t] = "freed"
       THEN Crash
       ELSE /\ toDelete' = [t \in Tile |-> toDelete[t] \/ t \in oldest[w]]
            /\ oldest' = [oldest EXCEPT ![w] = {}]
            /\ pc' = [pc EXCEPT ![w] = "marked"]
            /\ UNCHANGED <<heap, refs, inBuffer, cacheVars, holderVars, own, uiVars, fault>>

(* Mutant of DeleteMarkedTiles: m_list.erase is forgotten.                 *)
DeleteMarkedTilesKeepsList(flag) ==
  /\ listAge' = listAge
  /\ ReleaseAll(Once({t \in Listed : flag[t]}))

(* DeleteMarkedTiles, as a function of the flags it finds: the tiles leave *)
(* m_list and lose the reference of the cache.  m_tilesMap is not touched. *)
DeleteMarkedTiles(flag) ==
  LET gone == {t \in Listed : flag[t]}
  IN /\ listAge' = [t \in Tile |-> IF t \in gone THEN 0 ELSE listAge[t]]
     /\ ReleaseAll(Once(gone))

ClearOldest(w) ==
  /\ ~fault
  /\ pc[w] = "marked"
  /\ DeleteMarkedTiles(toDelete)
  /\ pc' = [pc EXCEPT ![w] = "cached"]
  /\ UNCHANGED <<inBuffer, toDelete, tilesMap, size, holderVars, own, oldest, uiVars, fault>>

(* ClearOldest takes no lock, so it can meet any other user of m_list.     *)
UsesList(w) == pc[w] \in {"select", "marked"}

ListRace(w) ==
  /\ ~fault
  /\ UsesList(w)
  /\ \/ \E v \in Worker \ {w} : UsesList(v) \/ (pc[v] = "loaded" /\ DoRamCaching)
     \/ ui = "idle"
  /\ Crash

(* Mutant of AddTileNoCaching: the screen buffer takes no reference.       *)
AddTileNoCachingWithoutRef(t) ==
  /\ inBuffer' = [inBuffer EXCEPT ![t] = TRUE]
  /\ toDelete' = [toDelete EXCEPT ![t] = FALSE]
  /\ buffer' = [buffer EXCEPT ![t] = @ + 1]
  /\ UNCHANGED refs

(* CTiles::AddTileNoCaching: the tile gets into the screen buffer.         *)
AddTileNoCaching(t) ==
  /\ inBuffer' = [inBuffer EXCEPT ![t] = TRUE]
  /\ toDelete' = [toDelete EXCEPT ![t] = FALSE]
  /\ refs' = [refs EXCEPT ![t] = @ + 1]
  /\ buffer' = [buffer EXCEPT ![t] = @ + 1]

(* The task belongs to the current generation: its tile is displayed.      *)
Show(w) ==
  /\ ~fault
  /\ pc[w] = "cached"
  /\ IF heap[own[w]] = "freed"
       THEN Crash
       ELSE /\ AddTileNoCaching(own[w])
            /\ pc' = [pc EXCEPT ![w] = "finish"]
            /\ UNCHANGED <<heap, cacheVars, queued, own, oldest, uiVars, fault>>

(* The task is outdated: its tile is not displayed.                        *)
Outdated(w) ==
  /\ ~fault
  /\ pc[w] = "cached"
  /\ pc' = [pc EXCEPT ![w] = "finish"]
  /\ UNCHANGED <<tileVars, cacheVars, holderVars, own, oldest, uiVars, fault>>

(* CTiles::AddTileOnlyCaching; the task forgets the tile.                  *)
Schedule(w) ==
  /\ ~fault
  /\ pc[w] = "finish"
  /\ IF DoDiskCaching /\ heap[own[w]] = "freed"
       THEN Crash
       ELSE /\ IF DoDiskCaching
                 THEN /\ refs' = [refs EXCEPT ![own[w]] = @ + 1]
                      /\ queued' = [queued EXCEPT ![own[w]] = @ + 1]
                 ELSE UNCHANGED <<refs, queued>>
            /\ pc' = [pc EXCEPT ![w] = "idle"]
            /\ own' = [own EXCEPT ![w] = NoTile]
            /\ UNCHANGED <<heap, inBuffer, toDelete, cacheVars, buffer, oldest, uiVars, fault>>

(* The disk cacher has written a tile and releases it.                     *)
Written(t) ==
  /\ ~fault
  /\ queued[t] > 0
  /\ queued' = [queued EXCEPT ![t] = @ - 1]
  /\ ReleaseAll(Once({t}))
  /\ UNCHANGED <<inBuffer, toDelete, cacheVars, buffer, workerVars, uiVars, fault>>

-----------------------------------------------------------------------------
(* The UI thread: CTiles::LoadTiles.                                       *)

(* The tiles of the screen buffer are marked for deletion, with the flag   *)
(* the RAM cache uses too.                                                 *)
LoadTiles(wanted) ==
  /\ ~fault
  /\ ui = "idle"
  /\ ui' = "scan"
  /\ todo' = wanted
  /\ inBuffer' = [t \in Tile |-> inBuffer[t] /\ buffer[t] = 0]
  /\ toDelete' = [t \in Tile |-> toDelete[t] \/ buffer[t] > 0]
  /\ UNCHANGED <<heap, refs, cacheVars, holderVars, workerVars, found, fault>>

Displayed(k) == {t \in Tile : buffer[t] > 0 /\ KeyOf[t] = k}

InScreenBuffer(k) ==
  \E t \in Displayed(k) :
    /\ toDelete' = [toDelete EXCEPT ![t] = FALSE]
    /\ inBuffer' = [inBuffer EXCEPT ![t] = TRUE]
    /\ UNCHANGED <<heap, refs, buffer, found>>

(* RamCache::get_Tile returns the pointer and takes no reference.          *)
InRamCache(k) ==
  /\ Displayed(k) = {}
  /\ tilesMap[k] # NoTile
  /\ found' = tilesMap[k]
  /\ UNCHANGED <<tileVars, buffer>>

(* SQLiteCache::get_Tile makes a new tile, which is displayed.             *)
InDiskCache(k) ==
  /\ Displayed(k) = {}
  /\ tilesMap[k] = NoTile
  /\ \E t \in Tile :
       /\ heap[t] = "unborn" /\ KeyOf[t] = k
       /\ heap' = [heap EXCEPT ![t] = "live"]
       /\ AddTileNoCaching(t)
  /\ UNCHANGED found

(* Nowhere: the tile is requested from the server.                         *)
NotFound(k) ==
  /\ Displayed(k) = {}
  /\ tilesMap[k] = NoTile
  /\ UNCHANGED <<tileVars, buffer, found>>

LookUp(k) ==
  /\ ~fault
  /\ ui = "scan"
  /\ found = NoTile
  /\ k \in todo
  /\ todo' = todo \ {k}
  /\ InScreenBuffer(k) \/ InRamCache(k) \/ InDiskCache(k) \/ NotFound(k)
  /\ UNCHANGED <<cacheVars, queued, workerVars, ui, fault>>

UseFound ==
  /\ ~fault
  /\ found # NoTile
  /\ IF heap[found] = "freed"
       THEN Crash
       ELSE /\ AddTileNoCaching(found)
            /\ found' = NoTile
            /\ UNCHANGED <<heap, cacheVars, queued, workerVars, ui, todo, fault>>

(* The tiles still marked leave the screen buffer.                         *)
ReleaseUnused ==
  /\ ~fault
  /\ ui = "scan"
  /\ todo = {}
  /\ found = NoTile
  /\ ReleaseAll([t \in Tile |-> IF toDelete[t] THEN buffer[t] ELSE 0])
  /\ buffer' = [t \in Tile |-> IF toDelete[t] THEN 0 ELSE buffer[t]]
  /\ ui' = "idle"
  /\ UNCHANGED <<inBuffer, toDelete, cacheVars, queued, workerVars, todo, found, fault>>

(* CTiles::Clear.                                                          *)
Clear ==
  /\ ~fault
  /\ ui = "idle"
  /\ ReleaseAll(buffer)
  /\ buffer' = [t \in Tile |-> 0]
  /\ inBuffer' = [t \in Tile |-> inBuffer[t] /\ buffer[t] = 0]
  /\ UNCHANGED <<toDelete, cacheVars, queued, workerVars, uiVars, fault>>

(* RamCache::ClearByProvider for the keys S the filter selects; tiles that *)
(* are displayed stay.                                                     *)
ClearByProvider(S) ==
  LET hit == {k \in S : tilesMap[k] # NoTile}
      out == {k \in hit : ~inBuffer[tilesMap[k]]}
      flag == [t \in Tile |-> toDelete[t] \/ \E k \in out : tilesMap[k] = t]
  IN /\ ~fault
     /\ ui = "idle"
     /\ IF \E k \in hit : heap[tilesMap[k]] = "freed"
          THEN Crash
          ELSE /\ tilesMap' = [k \in Key |-> IF k \in out THEN NoTile ELSE tilesMap[k]]
               /\ size' = size - Cardinality(out)
               /\ toDelete' = flag
               /\ DeleteMarkedTiles(flag)
               /\ UNCHANGED <<inBuffer, holderVars, workerVars, uiVars, fault>>

-----------------------------------------------------------------------------
WorkerStep(w) ==
  \/ \E t \in Tile : Download(w, t)
  \/ AddToCache(w)
  \/ CheckSize(w)
  \/ Mark(w)
  \/ ClearOldest(w)
  \/ ListRace(w)
  \/ Show(w)
  \/ Outdated(w)
  \/ Schedule(w)

UiStep ==
  \/ \E wanted \in SUBSET Key \ {{}} : LoadTiles(wanted)
  \/ \E k \in Key : LookUp(k)
  \/ UseFound
  \/ ReleaseUnused
  \/ Clear
  \/ \E S \in Selection : ClearByProvider(S)

Stopped == fault /\ UNCHANGED vars

Next ==
  \/ \E w \in Worker : WorkerStep(w)
  \/ \E t \in Tile : Written(t)
  \/ UiStep
  \/ Stopped

Spec == Init /\ [][Next]_vars

-----------------------------------------------------------------------------
(* The variables hold values of their C++ types.                           *)
TypeOK ==
  /\ heap \in [Tile -> {"unborn", "live", "freed"}]
  /\ refs \in [Tile -> Nat]
  /\ inBuffer \in [Tile -> BOOLEAN]
  /\ toDelete \in [Tile -> BOOLEAN]
  /\ tilesMap \in [Key -> Tile \cup {NoTile}]
  /\ listAge \in [Tile -> Nat]
  /\ size \in Nat
  /\ buffer \in [Tile -> Nat]
  /\ queued \in [Tile -> Nat]
  /\ pc \in [Worker -> {"idle", "loaded", "stored", "select", "marked", "cached", "finish"}]
  /\ own \in [Worker -> Tile \cup {NoTile}]
  /\ oldest \in [Worker -> SUBSET Tile]
  /\ ui \in {"idle", "scan"}
  /\ todo \subseteq Key
  /\ found \in Tile \cup {NoTile}
  /\ fault \in BOOLEAN

(* The reference count of a tile is the number of its holders: the list of *)
(* the RAM cache, the screen buffer and the queue of the disk cacher       *)
(* (TileCore.h:118).  It takes AddRef and Release calls in nine places of  *)
(* three threads to keep it so.                                            *)
RefsExact ==
  \A t \in Tile :
    refs[t] = (IF InList(t) THEN 1 ELSE 0) + buffer[t] + queued[t]

(* Until the program is at fault, nothing that is displayed, listed by the *)
(* RAM cache or waiting to be written to disk has been freed, whatever was *)
(* cleared meanwhile (TileCore.h:40).                                      *)
HeldAreLive ==
  \A t \in Tile :
    InList(t) \/ buffer[t] > 0 \/ queued[t] > 0 => heap[t] = "live"

(* m_size is the size of the tiles m_tilesMap refers to.                   *)
SizeMatchesMap == size = Cardinality({k \in Key : tilesMap[k] # NoTile})

-----------------------------------------------------------------------------
(* What the comments of the code say and the code does not do.             *)

(* Tiles are removed from the fast access storage, m_tilesMap, before they *)
(* are deleted from the list (RamCache.cpp:242).                           *)
MapHasNoDangling ==
  \A k \in Key : tilesMap[k] # NoTile => heap[tilesMap[k]] = "live"

(* ClearByProvider "removes tiles of the specified provider"               *)
(* (RamCache.cpp:164), so those of other providers stay in the list.       *)
ClearsOnlySelected ==
  [][\A S \in Selection : ClearByProvider(S) =>
       \A t \in Listed : KeyOf[t] \notin S => listAge'[t] > 0]_vars
=============================================================================
