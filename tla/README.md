# MapWinGIS: models, checks and proofs

MapWinGIS is a GIS control for Windows: a COM library in C++ with an ActiveX
map (`CMapView`), shapefiles and their attribute tables, images, grids and
tiles from web servers. This directory holds TLA+ modules that model parts of
it, the configurations with which TLC checks them on small instances, and
theorems with proofs for TLAPS. `PROJECT.json` is the index: for each
definition the lines of code it models, the runs, the hazards of the code with
the properties that watch them, and the theorems.

    tlc -workers 2 -config TileLoader.cfg MCTileLoader   # a run
    tlapm DiskCacheProofs.tla                            # proofs

## 1. The system

### Components

| component | state | operations | what makes it correct |
|---|---|---|---|
| RAM tile cache and screen buffer (`Tiles/RamCache`, `CTiles::m_tiles`) | `m_tilesMap`, `m_list`, `m_size`; the tiles displayed; reference counts and flags of each `TileCore` | add, look up, clear oldest / provider; rebuild the screen buffer | nothing in use is freed, counts are exact, map and list agree |
| tile loading (`CTiles::LoadTiles`, `Tiles/TileLoader`) | generation, active tasks, two thread pools, counters | request a view, answer of the server, stop | each tile of the view gets to the screen, tasks do not outlive the map |
| prefetching and snapshots (`CTiles::m_prefetchLoader`) | a second loader, whose counters, flags, key and stop function all requests share | prefetch to the database or a folder, load for a snapshot, stop | each request gets its event and its tiles go where it wants them |
| disk cacher (`Tiles/TileCacher`) | queue, pool with one thread, coarse lock | schedule, run, write, stop | no tile lost or written twice, queue drains |
| tile database (`Tiles/SQLiteCache`) | connection, two tables, name, flags, size | open, create, write, read, clear, rename | rows and images keep together, the database of the present name is used, oldest tiles go first |
| attribute table (`CTableClass`) | cached rows, fields, indices into the `.dbf`, editing flags | open, edit rows / fields / cells, save, dump, discard | edits are shown at once and saved or lost as a whole |
| shapefile (`CShapefile`) | shapes, table, labels, quadtree, three files | create, open, insert, delete, edit, save, dump, close | everything kept per shape is in step, by index; the three files agree |
| quadtree (`Processing/QTree`) | nested trees with a few nodes each | add, remove, query | finds what a list would find |
| layers of the map (`CMapView`, `Map_Layer.cpp`) | `m_allLayers` by handle, `m_activeLayers` in order of drawing, lock counter | add, move, remove layers; lock and redraw; handlers within calls | handles and positions agree, the lock is balanced |
| shape editor, measuring (`EditShape`, `ActiveShape`) | the shape, its layer and index; points, parts, undo list | take, draw, save, clear; add, undo | a shape is saved where it came from; undo restores |
| network, TIN, coloring, Jenks breaks, expressions | none, or a data structure each | pure algorithms | result equals a reference definition |
| grids, images, drawing, projections, utilities, settings | mostly values and handles of libraries | input, output, geometry | mostly numeric |

### Interactions

The UI thread redraws the map. For tiles it calls `CTiles::LoadTiles`, which
takes tiles from the RAM cache and the database and queues a `LoadingTask` for
each one that is missing. The threads of two pools run these tasks: they wait
for the server, put the tile in the RAM cache, add it to the screen buffer, and
hand it to the `TileCacher`, whose single thread writes it to SQLite. A tile
object is shared by these three holders and by the task that made it, through
a reference count. When all tiles of a request have been dealt with, the
control fires `TilesLoaded`.

Prefetching and snapshots use a second `TileLoader` with pools and a cacher of
its own. The two cachers write to the same database, while the UI thread looks
tiles up, clears the database, or gives it another name.

A shapefile keeps its attributes in a `CTableClass`, one row per shape, and is
edited in the same sessions; it may have labels and a quadtree, which follow
its edits by calls of their own. The map shows shapefiles and images as layers.
Each change of the list fires events, whose handlers may change the list
again. The shape editor of the map takes a shape of a layer and, later, saves
it there. All of this runs on the UI thread; what is hard there is order:
caches and indices that must survive any sequence of edits, saves and
discards, and calls within calls.

### What is hard to test

* threads in the tile subsystem: the same tile requested twice, a view that
  changes while answers come in, a cache that is cleared while it is filled,
  counters without a lock, requests that overlap, stopping;
* objects that delete themselves when their count drops to zero;
* chains of tasks that must be restarted by somebody when the lock is released;
* a database that is renamed, cleared or fails between two statements;
* rows that are read lazily, long after rows and fields have moved;
* saving through a temporary file or over a truncated one, and failing
  half-way;
* four structures for one shape, each changed by a call of its own;
* a tree that is split, grown and given up as boxes come and go;
* handlers that add or remove layers in the middle of a call that does; handles
  that are used again for another layer.

`hazards` in `PROJECT.json` lists these at their lines.

## 2. The modules

| module | models | how |
|---|---|---|
| `RamCache` | life of a tile object | below |
| `RamCacheProofs` | | theorems on `RamCache` |
| `TileLoader` | requests, tasks, stopping of the loader of the map | below |
| `TileLoaderProofs` | | theorems on `TileLoader` |
| `TilePrefetch` | requests and tasks of the second loader | below |
| `TilePrefetchProofs` | | theorems on `TilePrefetch` |
| `TileWriter` | what the disk cacher promises | abstract |
| `TileCacher` | disk cacher, detailed | implements `TileWriter` |
| `SQLiteCache` | the tile database | below |
| `DiskCacheProofs` | | theorems on `TileCacher` and its refinement, and on `SQLiteCache` |
| `TableSession` | what an attribute table promises | abstract |
| `TableClass` | `CTableClass` over a `.dbf` | implements `TableSession` |
| `TableClassProofs` | | theorems on `TableClass` and its refinement |
| `ShapefileEdit` | `CShapefile` while it is edited | below |
| `ShapeIndex` | what an index of shapes promises | abstract |
| `QTree` | the quadtree | implements `ShapeIndex` |
| `ShapefileProofs` | | theorems on `ShapefileEdit`, and on `QTree` and its refinement |
| `LayerStack` | what the list of layers promises | abstract |
| `MapLayers` | layers, handlers, redraw lock, shape editor | implements `LayerStack` |
| `MapLayersProofs` | | theorems on `MapLayers` and its refinement |
| `SequenceLemmas` | | sequences, least elements, cardinalities: lemmas the proofs share |
| `MC...` | | instances for TLC |

The modules of the tile subsystem look at the same threads from several sides;
each takes the others by what they do to it. `TileLoader` sees the caches as
sets of tiles. `RamCache` sees the generation test of a loading task as a
choice (`Show` or `Outdated`). `TileCacher` sees a tile as something that comes
once from a loading thread, and `SQLiteCache` sees a cacher as a thread that
writes one tile after the other. `ShapefileEdit` takes its table by what
`TableSession` says and its tree by what `ShapeIndex` says: `TableClass` and
`QTree` are proved to implement these. `MapLayers` has of a shapefile its
shapes and whether it is being edited.

Several modules keep a set `lapses`: what has happened in this behaviour after
which the code keeps less of what it should. A property names the lapses it
makes an exception for, and holds without them and after all others. A variable
`fault` says that a null pointer, a freed object or an index that does not
exist was used; the program is undefined from there on, and nothing happens any
more.

### RamCache

One variable per member: `tilesMap` and `size` are `m_tilesMap` and `m_size`,
`listAge` gives the position in `m_list` (0: not in it), `refs`, `inBuffer`
and `toDelete` are those of `TileCore`. `heap` says whether an address has
been allocated and freed. An action is what a thread does inside one critical
section. `AddToCache` is followed by the size check and by `ClearOldest`,
which both run after the lock is released: `CheckSize`, `Mark` and
`ClearOldest` are separate steps. `LoadTiles`, `LookUp`, `UseFound` and
`ReleaseUnused` are the parts of `CTiles::LoadTiles` that touch the screen
buffer and the cache.

The constructor of `TileCore` leaves `m_inBuffer` unset, hence the choice in
`Download`. Using a freed tile, or `m_list` by two threads at once
(`ListRace`), is undefined: `fault` is set and nothing happens any more. The
code does get there (see section 5), so the invariants say that all is well up
to the first such step; they are not weaker before it.

### TileLoader

A task is at one of the places of `LoadingTask::DoTask`, named by `pc`; a step
has at most one access to what threads share, or what is done under one lock.
`m_count++` is two steps, `ReadCount` and `StoreCount`. `Request`, `Reassign`,
`LookUp`, `Count`, `Load` and `NothingToLoad` follow `CTiles::LoadTiles` in
order. `active` keeps the order of `_activeTasks`, since `RemoveActiveTask`
takes the first task with the same x, y and zoom, whoever's it is: `collided`
remembers that two tasks for one coord have been listed together.
`m_totalCount` is `Counting` (a large number) while the tiles are counted, as
in the code.

### TileCacher and TileWriter

`TileWriter` accepts each tile once and handles tiles in that order; to handle
is to write or to give up. `TileCacher` has the queue, the requests waiting in
the pool, the tile in work, the coarse lock `m_locked` and the position of
each thread in `TileCacher::Run` (`run` before the test of the lock, `post`
after it). The refinement mapping is the identity on the three variables of
`TileWriter`, which `TileCacher` records.

### TableClass and TableSession

`TableSession` has what a user sees: files, the table shown, whether it is
being edited. Each edit changes what is shown, at once; a commit stores it or
loses it; nothing else changes a file, but saving to a new name.

`TableClass` has what the code has: rows that are not read until they are
needed (`row = NULL`), fields and rows with the index of their record and
column in the file (0 for none; the code has -1 and counts from 0), the flags
that decide how a table is saved, `ReadRecord`, which fills a row, and saving
through a temporary file, which is copied over the old one and opened again. The
mapping computes `shown` with `CellValue`, what `get_CellValue` would return
for each cell. Fields are numeric, so a value is a number or empty. `Dump`
during editing drops the cached rows and with them the edits; `dumped`
records that, and the session promises nothing of what is shown (it becomes
`spoiled`) until the table is loaded again.

### TilePrefetch

A task is at a place of `LoadingTask::DoTask`, as in `TileLoader`; what is kept
here is what the requests share. Requests are numbered. `label` stands for the
key and the snapshot flag that the event will carry, `doCache` for the flags
that say where tiles go, `m_stopCallback` for the function that is asked
whether to stop: each is a member of the loader, set by the request that came
last. `Prefetch`, `Snapshot` and `TileLoader::Load` set them in the order of the code,
with steps of the loading threads in between. `alone` has the requests that
have not overlapped with another one; the properties are about those, as it is
what a client can rely on.

### SQLiteCache

A step is a statement of SQL, or what is done between two of them. The two
tables are sets of rows with an id; a new row has the id after the largest one,
and a query without an order finds the row with the least. `section` is the thread that
holds the lock of the cache; `Initialize`, the writing of a tile and `Clear` take
it, `set_DbName` and `CreateDatabase` do not and so may come between the two
statements that write a tile. A connection is not there, broken (`sqlite3_open`
has failed), or that of a file with the id of the last row inserted, which
`sqlite3_last_insert_rowid` returns even if the insertion before has failed. A
provider that draws several others on top of each other has a piece for each:
a hybrid has a map of satellite images, which is a provider of its own, and itself; the
two pieces of Rosreestr's have the same provider id. Lapses: a statement that
failed, a rename while a tile was being written, and a file that appeared after
the flag `_openNeeded` had been cleared.

### ShapefileEdit

`disk` has a `.shp`, `.shx` and `.dbf` for each name, the first two of which
are truncated before they are written (`Broken`). `shapeData` has the shapes,
or `NULL` for those that are read from the file when they are needed, for which
`offsets` must be long enough and the files open. The rows, the labels and the
tree are `dbf`, `labels` and `qtree`. Each public method is an action with all
it calls: `Close` and `Open`, `CreateNew`, `StartEditingShapes` and
`StopEditingShapes` with the edit session of the table, `Save`, `SaveAs`,
`Dump`, the edits, the settings of the tree and the
labels. Writing may fail at each of the files. Lapses: a file that could not be
written, an edit session of shapes that was ended without that of the table
(`split`), edits of the number of shapes that were discarded (`torn`), shapes
that were moved in the list under the tree, and edits the labels do not follow.

### ShapeIndex and QTree

`ShapeIndex` is a bag of nodes with `AddNode` and `Reregister`, which replaces a
node of the same index, and the number of these calls.

`QTree` numbers the trees as they are made: the first one is `m_qtree`. A tree
has its extent, the flag `isFull`, and the trees at its corners (0 for none);
`in` has the trees it is in, itself too, so that what a walk down the tree does
is said without recursion: `GetNodes` asks a tree if all trees it is in meet the
query, and `RemoveNode` takes from the tree that is `Before` all others that
have the index. A node is in the vector of its tree at a place given by `nr`.
`AddNode` calls itself; `calls` are those that have not returned, and a step is
one of them: `TakeExtent` (an extent of zeros is replaced by that of the node),
`Grow` (what is in the tree goes to a new one at a corner of the doubled
extent), `Put`, `Regenerate` (a full leaf moves one node down, by a call within
the call), and `Down` (the node goes to its corner). `Hang` is `Grow` when no
doubling will do. Coordinates are integers; in the instances halves are, too, in
the proofs they are rounded down. The mapping takes the bag of the nodes in all
trees and those on their way.

### LayerStack and MapLayers

`LayerStack` is a sequence of sources, to which one is added on top, taken out,
or moved. `MapLayers` has the two lists of `CMapView`. A handle is the lowest
free slot of `allLayers`, so a handle that was removed is used again.
`running` is the stack of calls whose handler is running: while it is not
empty, the next step is a call from within the innermost handler, or its
return, with which the rest of the outer call is done. That is how
`RemoveAllLayers` removes a layer, runs the handler, and goes on with the next
slot, whatever has become of it. `lockCount` counts `LockWindow`, and panning
with the mouse changes it, too. `editor` is the shape that is being edited
with the layer and index it will be saved to.

Lapses: `panned` (a drag with seamless panning opens a lock it never took,
`Map_Events.cpp:1172`), `swept` (a handler has added a layer while
`RemoveAllLayers` was on its way), and `astray` (the layer of the edited shape
was removed, a shape before it was deleted, or it has no place of its own). The
mapping to `LayerStack` shows the source of each handle in the order of
drawing.

## 3. What the runs check

All of these finish; 2 workers, times on a small machine.

| run | instance | states | time |
|---|---|---|---|
| `ram_cache` | 3 tiles, 2 of them for one key, 2 keys of 2 providers, 2 workers, cache of 1 tile | 7.0 M | 2 min |
| `tile_loader` | 3 tasks, 3 views (two coords; one; the same with another provider), 3 requests, 2 threads per pool | 7.3 M | 1.5 min |
| `tile_loader_live` | 3 tasks, 2 views, 2 requests, 1 thread per pool, fairness | | 2 min |
| `tile_prefetch` | 3 tasks, 3 requests of any kind, 2 threads per pool | 13 M | 2 min |
| `tile_cacher` | 3 tiles, 2 loading threads, 2 calls of `LoadTiles`, fairness | 160 k | 10 s |
| `sqlite_cache` | 2 caching threads, 2 files, 3 providers (plain, hybrid, two pieces of one id), 4 calls, symmetry | 5.8 M | 1 min |
| `table_class` | 2 files, up to 2 rows and 2 fields, 3 edits between loads | 0.67 M | 2 min |
| `shapefile_edit` | 2 names, 2 boxes, up to 2 shapes, 3 edits, 2 files written | 5.2 M | 2 min |
| `qtree` | 2 shapes, 6 boxes, 5 calls, 2 nodes per leaf, 4 first extents, symmetry | 1.9 M | 2 min |
| `map_layers` | shapefiles of 2 shapes and 1, an image, 7 calls, 2 calls in each other | 0.9 M | 1 min |

The type invariants of `TilePrefetch`, `TileCacher`, `SQLiteCache` (`DbTypeOK`),
`ShapefileEdit`, `QTree` (`TreeTypeOK`) and `MapLayers` are not listed in their
configurations; they hold if they are added. All of them but that of
`MapLayers`, whose proof has its own, are proved.

**ram_cache.** `RefsExact`: the count of a tile is the number of its holders,
through all `AddRef` and `Release` calls. `HeldAreLive`: nothing displayed,
listed or queued has been freed. `SizeMatchesMap`: `m_size` is what
`m_tilesMap` holds (and so overstates `m_list` after `ClearOldest`). Two tiles
with one key are needed for the loser of a race to be thrown away, two
providers for selective clearing, a cache of one tile for `ClearOldest`.

**tile_loader.** `CoveredUnlessCollided`: between calls of `LoadTiles` every
tile of the view is on the screen, or the server had none, or a task of the
current generation will show it, whatever the interleaving of answers and
requests, as long as no coord has been listed twice. `ListedUnlessCollided`:
until then a task that is still listed will do what `LoadTiles` expects of a
task it reassigns. `ListDrains`: even with collisions, when no task runs, none
is listed. Three tasks and three requests let a tile be requested, reassigned
and requested again for another provider.

**tile_loader_live.** `TasksComplete` and `StopTerminates`: queued tasks are
completed or dropped, and the polling loop in `Stop` ends. Here symmetry is
off.

**tile_prefetch.** `HonestEvents`: `TilesLoaded` with the key of a request that
ran alone does not come before all of its tiles are counted. `EventComes`: it
does come, at most once per thread, unless the request was stopped, two
tasks met in `m_count++`, or it is a prefetch after a snapshot (section 5).
`DeliveredAsAsked`: the tiles of such a request are sent to where it asked.
`StopIsPrompt`: after the client has said stop, each thread caches at most one
tile more, until another request comes. Three requests let a middle one have
one before it that changes the loader and one after it that ends its being
alone; two threads per pool are needed for counts to be lost.

**tile_cacher.** `InOrder`, `ImplementsWriter`: nothing is lost, overtaken or
written twice between queue, pool and thread although four kinds of threads
call `Run`. `QueueServed` and, with fairness, `TilesAreHandled`: the chain of
tasks goes on, whatever `LoadTiles` locks, except after one of the two steps
that leave the queue without a call of `Run` (`neglected`: an outdated tile is
queued by `AddTileOnlyCaching`; a snapshot unlocks the database but runs
another cacher). `OneLateWrite`: at most the tile in work is written after
`StopCaching`.

**sqlite_cache.** `Paired`: when no thread holds the lock, each row has its
image and each image its row, unless a statement has failed or the database
was renamed in between. `ExistingAreFound`: what prefetching skips because it
is there will be found when it is drawn, for providers whose pieces are of one
kind (but see `HybridsAreFound` in section 5). `DatabaseIsUsed`: the connection is
that of the present name, and a database that is there is used, unless it came
too late. `CrashesOnlyRenamed`: a null connection is used only if a rename came
between two statements. Two threads and two files let one write, one wait for
the lock and the map rename; a tile of two pieces makes a write four
statements long; four calls are a write, a clear or a second write, a rename
and a rename back.

**table_class.** `ImplementsSession` and `Aligned`. Three edits suffice to
insert and delete both a row and a field and to read a row afterwards, and a
table of two rows for one to be read and the other not; two files let one be
saved, dumped or opened while another is edited. `Aligned` is the reason why
it works: unless dumped, a row has a value per field or can still be read.

**shapefile_edit.** `RowsFollow`: shape i has row i, through every order of
insertion, deletion, clearing, saving and discarding. `FilesAgree`: at rest
the three files have the same shapes. `TreeFollows`: the tree has all shapes
where they are, unless they moved in the list; there is none only if there are
no shapes. `LabelsFollow`: labels that claim to be synchronized belong to their
shapes. `DamageIsMendable`: a shapefile whose files were left truncated can
still be saved, as its shapes are in memory. `FaultsHaveCauses`: null pointers
are met only in the ways listed. Two shapes are the least for one to be before
another; three edits make an insertion, a deletion and a change of the same
session possible; two files are written by a save, or by one that fails and is
repeated.

**qtree.** `Nested`: each tree but the first is at one corner of one tree, also
in the middle of a call. `QueriesAreExact`: a query finds each node of the tree
that intersects it, once (boxes at the origin excepted, section 5).
`HangsOnlyOnLine`: `AddNode` returns unless all shapes are on one line parallel
to an axis, or one was at the origin. `ImplementsIndex`: the tree has the nodes
it was given, and only calls change that. The six boxes are two points of one
corner, one on a middle line, a box that crosses the other one, and one outside
to either side; with two nodes per leaf (the code has 100) five calls split the
tree, fill a corner, and let it grow twice. The two shapes are
interchangeable.

**map_layers.** `ListsAgree`: each handle that is drawn is a layer and each
layer is drawn once, in the middle of calls, too. `LockBalanced`: the window is
locked as often as the client and the running calls have locked it.
`ImplementsStack`: the layers form a stack, and each of the calls puts, takes
or moves one. `EditsGoHome`: an edited shape is saved where it came from. Three
sources and seven calls let layers be added, removed from the middle and added
again in the freed slot, by a handler of `RemoveAllLayers` among others, and a
shape be taken from a layer before and saved after that.

### Fairness

`TileLoader!FairSpec`: the UI thread goes on with the handler it is in, each
task's thread runs, and the server answers or the request times out (ATL
sockets have a timeout). Nothing forces the user to do anything: `Request`,
`Clear` and `Stop` are not fair. `TileCacher!FairSpec`: the thread of the
cacher runs, `LoadTiles` ends, and a loading thread that is in `Run` goes on.
All of it is weak fairness, of the operating system's scheduler. The other
modules are checked for safety only: what they promise to do eventually
depends on calls that nobody is bound to make.

### Deadlock

Deadlock is checked in `RamCache`, which says in `Stopped` where it may end.
It is not in the others: each of them may stop for good (the tiles, requests
or calls of the instance are used up, the map is gone, or undefined behaviour
has happened).

## 4. What is proved

TLC checks the instances of section 3; the theorems hold for every value of the
constants that the named assumption of the module allows. All of them are about
the specification without fairness. Each proof has an inductive invariant
(`IInv`, `DbIInv`, `TreeIInv`), and one lemma for each action (or group of alike
actions) that says that the action preserves it.

| module | theorems | about |
|---|---|---|
| `RamCacheProofs` | 4 | all properties of `ram_cache` |
| `TileLoaderProofs` | 4 | all properties of `tile_loader` |
| `TilePrefetchProofs` | 4, and types | all properties of `tile_prefetch` |
| `DiskCacheProofs` | 4, and types; 4, and types | all safety properties of `tile_cacher`, refinement included; all properties of `sqlite_cache` |
| `TableClassProofs` | 3 | all properties of `table_class`, refinement included |
| `ShapefileProofs` | 6, and types; 4, and types | all properties of `shapefile_edit`; all properties of `qtree`, refinement included |
| `MapLayersProofs` | 4 | all properties of `map_layers`, refinement included |

### RamCacheProofs

`TypeCorrect`, `RefsAreExact`, `NothingHeldIsFreed` and `SizeIsMapSize`, for
any finite set of keys and any tiles, threads, selections and limits
(`RamCacheAssumption`). `HeldAreLive` alone is not inductive: to know that a
release does not free a tile that is held, its count must be exact, and to know
that it does not drop below the number of holders all counts must be. `IInv`
therefore joins `TypeOK`, `RefsExact`, `HeldAreLive` and `SizeMatchesMap`, and
adds `Ownership`: a tile that has been downloaded and not yet passed to the
cache is live and known to its task alone (no reference, not in the map, not
found by `LoadTiles`), and an address that was never allocated is known to
nobody. One lemma per action shows that `IInv` is preserved; `ReleaseCounts`
and `Released`, on what `ReleaseAll` does to counts and holders, are shared by
all actions that release, `MapSize` and `MapGrows`, on the number of keys in
the map, by those that change it.

### DiskCacheProofs: the cacher

`IInv == TypeOK /\ InOrder /\ QueueServed /\ Late`, where `Late` says that
after a late write the cacher is stopped and no tile is in work: since `Take`
gives tiles up once `stopped` is set, there is no second one. `TypeOK` says
that a tile is in work exactly when the thread is about to write it. From it
follow `TypeCorrect`, `TilesStayInOrder`, `QueueIsServed`, `OneTileIsLate`.
`CacherImplementsWriter` shows that initial states map to initial states, that
`DoTask` and a `Take` after the stop are `Handle` steps (by `InOrder` the
tile in work is the first one accepted that has not been handled), that the
two ways to schedule are `Accept`, and that all else stutters. Any sets of
tiles and threads; the only assumptions are that `NoTile` is no tile and that
the loading threads are neither the UI thread nor the cacher
(`TileCacherAssumption`).

### DiskCacheProofs: the database

`RowsArePaired`, `PrefetchedAreFound`, `PresentDatabaseIsUsed` and
`OnlyRenamingCrashes`, and `DbTypeCorrect`, for any threads, names, providers
with any pieces (a provider is one of its own, `SQLiteCacheAssumption`), limits
and number of calls. `Paired` speaks of the time when no thread has the lock;
the inductive invariant `DbIInv` has to say what holds while one has it.
`Locked`: a thread that is between the two statements for a piece holds the
lock and, unless renamed, the connection, so that there is one such thread at
most. `Pairing`: every row has its image and every image its row, but for the
row that this thread has inserted last, which is there and of the right kind
(`Finished` are the rows without it). The next image is then that of this row,
also if other statements of clearing come before it. `Numbered`: the ids of a
table are bounded and unique, so that `NewId`, the largest and one, is new, and
an image never overwrites another (`NewIdIsNew`). `InUse` is `DatabaseIsUsed`
in the middle of a renaming. For `ExistingAreFound`, the row that a query finds
first (`FirstIsOne`) has its image by `Paired`.

### TileLoaderProofs

`TypeCorrect`, `ListAlwaysDrains`, `ListedInTime` and `NoTileIsLost`, for any
finite set of tasks, any views with finitely many coords and pools of any size
(`TileLoaderAssumption`). The list of active tasks drains although
`RemoveActiveTask` may take the entry of another task: `Listing` says that a
coord is not listed more often than there are tasks that have yet to remove an
entry with this coord, so that at the end, with no such task, none is listed.
`OwnEntries` says that before a collision each task removes its own entry, which
gives `ListedUnlessCollided`. For `CoveredUnlessCollided`, `Covered` follows
`LoadTiles` through its phases: each tile of the view is still to be looked up,
to be requested, displayed, not to be had, or fetched by a task that will show
it. A task that is reassigned must be one that can still do so; that is why the
list must be exact. The other parts are about what these lean on: `Queued` (the
queues of the pools have the waiting tasks once each), `Born`, `Phase` (what
`LoadTiles` knows where it is), `Aborted` (a task is aborted only after `Stop`).
`Counts` bounds `m_count`, whose lost updates only make it smaller.

### TilePrefetchProofs

`EventsAreHonest`, `EventIsNotLost`, `TilesGoWhereAsked` and `StopsPromptly`, for
any finite set of tasks, any number of requests and any size of the pools
(`TilePrefetchAssumption`). All but the last one are about requests that ran
alone, and `Alone` says what that means in every phase of the next request:
while such a request has tasks at work there are no others. With this,
`Current` bounds the shared counter by the tasks of the request that have been
counted, and the events fired by the threads, before and after the count is
complete; `CurrentWell` makes it exact if no two tasks met in `m_count++` and
nobody stopped the request, so that the last task to be counted, or a task
after it, fires. `Finished` keeps the result when the next request resets the
counter. `Tasks` and `Phase` say what a task and the loader know where they are;
`Delivered` that a tile was sent to where its request asked. For `StopIsPrompt`
it is not enough that at most one tile per thread is cached late: `Prompt` adds
those that are late and those that still may be, and bounds the sum by the
number of threads, `Threads`.

### TableClassProofs

`TypeCorrect`, `RowsStayAligned` and `TableIsASession`, for tables of any size,
any set of files and any number of edits (`TableAssumption`: `Empty` and `NULL`
are no values, and `NULL` is neither a table nor a row). `IInv == Files /\ Flags
/\ Contents /\ Structure /\ Untouched`. A row that has not been read is only
good if its record and all columns are still there in the file: `Contents` says
of each row and field that what it refers to exists, and, unless dumped, that a
row that was not read is in the file with all of the fields, while one that was
read has one value for each field (`InLine`). `Structure` says that without the
flag `needToSaveAsNewFile` there are as many fields as columns, which makes it
sound to write single records; `Untouched`, that outside the editing mode the
table is what was loaded, so that discarding and saving may forget it.

The refinement shows that each step is a step of `TableSession` on the table
that `CellValue` shows, or a stutter. Reading a row is a stutter, because what
it caches is what would have been read; insertion of a field is an `InsertField`
because all rows are read before; saving writes what is shown, by `UpdatedFile`
or `NewFile`, and loading the result shows the same. For the latter the proof
follows `ReadRecord`, `SaveToFile` and `LoadDefault` cell by cell.

### ShapefileProofs: the shapefile

`EachShapeHasItsRow`, `TheThreeFilesAgree`, `TheTreeFollows`, `LabelsAreTheirs`,
`NothingIsLostByAFailedSave` and `NoOtherFaults`, for any names, boxes, numbers of
shapes, edits and writes, and any files on the disk at first
(`ShapefileAssumption`: `NULL` and `Broken` are no names, numbers, shapes or
sequences of them; a tree is a function and not `NULL`). The properties are about
shapes that can be read, but the calls that follow build on the shapes whether
or not they could be read in between. `IInv` therefore speaks of the shapes that
count, `Kept`: those in the memory or, on the disk when they are not edited,
those in the file. `RowsKept` and `LabelsKept` are
`RowsFollow` and `LabelsFollow` for them; `LabelsKept` has to say of labels that
are not synchronized now, but may be declared so later, that they are none, too
many, or the right ones. `Life` says what can be relied on where: nothing is
kept of a shapefile that is not opened; one in the memory is edited as long as
it has a name; one on the disk has whole files, or is edited after a failed
save, and, unless torn, has as many shapes and offsets as its file. `Table` says
that a table that is not edited shows its file. From the last two,
`TheThreeFilesAgree` follows. The lemmas on trees (`TreeWith`, `TreeWithout`,
`IndexedAppended`, `IndexedUpdated`) say that appending a shape and replacing
its node, as `ShapeIndex` describes it, give the tree of the new shapes.

### ShapefileProofs: the quadtree

`TreesAreNested`, `NoShapeIsMissed`, `AddNodeHangsOnlyOnLines`,
`TreeImplementsIndex` and `TreeTypesCorrect`, for any boxes and queries, any
first extents, and leaves of two nodes or more (`QTreeAssumption`; with fewer,
two nodes at one place would be moved down for ever). Shapes that were inserted
long ago are found although the trees above them have been split and doubled
since, and a corner may have grown over the middle of its tree, so that extents
do not nest. `TreeIInv == TreeTypeOK /\ Nested /\ Rooted /\ Enclosed /\ Returning`
has what is left of that order: `Enclosed` says that the box of a node is in the extent
of every tree the node is in, and that of a node on its way in all of those but
the last, which it has not been compared with yet. Growing keeps it, since the
doubled extent contains the old one, and moving down keeps it, since a node is
put in a tree only after the comparison. It makes queries exact: a tree that
is not asked has nothing that intersects the query. Boxes of zeros are excepted,
because `TakeExtent` replaces such an extent with one that need not contain them.

`Returning` is about hanging, and holds as long as no shape was at the origin.
`CornersFit`: the tree at a corner contains that quarter. `CallsReturn`: all
calls but the innermost are at trees that contain their box, and each but that
of the client at the first tree is for a box that the tree contains or can be
doubled towards (`CanTake`). `NoZero`: no tree with
something in its corners has an extent of zeros. Only the first call, at the
first tree, may then find an extent without width or height, and all nodes are
in that one.

For the refinement, `NodesOf` and `CallsOf` count the copies of a node in trees
and on their way. `Put` takes one from the calls to the trees (`PutKeepsBag`),
`Regenerate` one back, `Grow` maps the nodes of a tree to those of the new one,
one to one (`GrowKeepsBag`), and `Down` changes no node; a call adds one copy
(`CallBrings`), and `RemoveNode` takes one that is there (`RemovedFromBag`) or,
if none is (`NotInBag`), nothing.

### MapLayersProofs

`ListsAlwaysAgree`, `LockIsBalanced`, `ShapesGoHome` and `LayersAreAStack`, for
any sources and shapes, any depth of nesting and any number of calls
(`MapLayersAssumption`: images are sources without shapes, and `NULL` is no
source). `IInv == Typed /\ Synced /\ LockBalanced`. `Synced` says, unless
`swept`, that the two lists agree and adds `PassedOver`: for each
`RemoveAllLayers` that is running, at whatever depth, the slots up to the one
whose handler runs are empty. Without that the lists could differ at the end of
such a call, which drops all slots: that is sound only if they are empty by
then. The exception is needed for the same reason, as a handler may put a layer
in a slot that the loop has passed. The lock is balanced because each call
locks before its handler runs and unlocks after it: the number of locks of
running calls is the length of `running`, on every way out.

`EditsGoHome` is an action property. It follows from a second invariant,
`EInv == Edited /\ Home`, where `Edited` has the types and `Home` says: unless
astray, a shape in the editor is a new one without a layer, or the layer of its
handle is there, has this shape at its index (if it still has the index), and
has not been passed by a `RemoveAllLayers` that is running. Saving then writes
to where the shape was, and its handle has not become that of another layer.

For the refinement, `Shown` maps the handles in the order of drawing to their
sources; as each handle that is drawn is a layer and stands there once, adding,
taking out and moving handles is adding, taking out and moving sources, and
filling a free slot changes none of those shown. All other steps stutter.

### SequenceLemmas

What the proofs need of sequences and the library's theorems do not say: an
element removed (`RemovedAt`), inserted (`InsertedAt`, `IsWith`), moved or added
last, with what it does to their range, to sequences without repetition and to
their images under a function (`Mapped`); least elements; cardinalities.

### Only model-checked

* All liveness: `TasksComplete`, `StopTerminates` and `TilesAreHandled`. The
  prover has no rules for `ENABLED`, on which fairness rests.
* That the tree of a search is what the recursion of `RemoveNode` and
  `GetNodes` comes to. Both are defined in `QTree` by the trees that a tree is
  in; recursive forms of them gave the same nodes in every state of an
  instance with two shapes, seven boxes and four calls.

## 5. Disagreements between the code and what it says

Two have a run that ends with a counterexample (`findings` in `PROJECT.json`).

| run | what happens |
|---|---|
| `ram_cache_Dangling` | `ClearOldest` frees tiles that `m_tilesMap` still refers to |
| `sqlite_cache_oldest` | a database that is too large loses its newest tiles, not its oldest |

Others are stated as a definition at the end of a module, under "What comments
say and the code does not do". TLC finds each violated if it is put in place of
the properties in the configuration of the passing run of that module.

| definition | what happens |
|---|---|
| `RamCache!ClearsOnlySelected` (a `PROPERTY`) | clearing one provider deletes tiles of another from the list, since `LoadTiles` leaves `m_toDelete` set on tiles that leave the screen |
| `TileLoader!EventComes` | `TilesLoaded` never comes: a task that has been counted is reassigned and counted in the new total |
| `TileLoader!NotBusyOnceStopped` | `Stop` returns while a task is about to become busy |
| `TileCacher!HandledAreReleased` | a tile handled while the database is not open keeps its reference |
| `TableClass!NullsAreKept` (a `PROPERTY`) | empty numeric cells become 0 in a session without an edit |
| `QTree!OriginIsFound` | shapes at the origin are dropped when a tree grows, as its root is taken to be empty |
| `SQLiteCache!HybridsAreFound` | prefetching skips tiles of a hybrid provider whose satellite piece has been cleared, though they cannot be drawn |
| `ShapefileEdit!DiscardRestores` | shapes that were inserted are still counted after they have been discarded, and shapes that were deleted still missing |

Met on the way, and visible in the models as steps, lapses or exceptions:

* **Tiles.** `TilesLoaded` may be fired twice, or before reassigned tasks are
  done; a tile of the view before may stay on the screen; `m_size` is never
  lowered by `ClearOldest`, so that from then on every tile added clears again;
  a tile that lost a race for its key may have no owner; the coarse lock does
  not keep a task that is posted already from writing.
* **Prefetching.** A prefetch after a snapshot fetches nothing: its tasks have
  generation 0, the loader a higher one. Requests that overlap share count, key,
  flags and stop function, and a new one takes back the stop of those before.
  `m_callback` is used without a test for `NULL` (`TileLoader.cpp:297`). A
  snapshot that has nothing to load fires the event with an empty key. `Stop`
  does not wait for this loader.
* **Tile database.** A missing file clears `_openNeeded`, so that it is not
  opened when it appears (`SQLiteCache.cpp:59`). `set_DbName` and
  `CreateDatabase` do not take the lock. After an insertion that failed, the
  image overwrites that of another row. `get_Exists` looks only for the piece of the
  provider itself, so that a hybrid counts as there when its satellite piece was
  cleared; the pieces of Rosreestr share one id. `REPLACE` never replaces, as
  there is no unique index.
  `SIZE_TO_CLEAR` is 2 MB where its comment says 20. A `catch` in `AutoClear`
  leaves the lock held.
* **Tables.** Saving in place never happens for a table with fields; a dump
  during editing loses the edits.
* **Shapefiles.** A save that fails leaves truncated files, and discarding or
  closing then reads from files that are not open. A new shapefile with a name
  is saved even if its edits are to be discarded; one without a name cannot be
  read after editing has ended. Labels are put at the end wherever a shape is
  inserted, and not at all when the count is asked after the insertion;
  `EditClear` keeps them. The tree is not moved along when a shape is deleted
  or inserted in the middle, and is used without a test after `EditClear`.
  `EditUpdateShape` does not report success. `Dump` writes the projection next
  to the old file. `Save` does not look at the result of saving the table.
* **Quadtree.** `AddNode` does not return if there are more shapes than a leaf
  takes and all are on one line; shapes at the origin, which are taken for an
  empty tree, can make it hang, too. `Regenerate` leaks what it moves.
* **Layers.** Removing the layer of the edited shape leaves its handle in the
  editor: saving then crashes, or writes over a shape of the layer that got the
  handle. `Clear` of the editor keeps handle and index. `RemoveAllLayers` drops
  what its handlers have added. Seamless panning unlocks without a lock. A
  layer that is refused for its projection leaves an empty slot.
  `SelectSingleShape` reports failure if the client has dealt with the event.
* **Read, not modelled.** `ColoringGraph` may use an uninitialised `maxNode` and
  divides by `nodes.size() - 1`, which may be 0.

## 6. Not modelled, and why

* `TileLoader`: the error counter, tiles that come from the database.
  `TilePrefetch`: a snapshot for which nothing is to be loaded, the active list
  of that loader, which nobody reads, and the end of the map. `RamCache`:
  statistics, tiles of different sizes. `SQLiteCache`: clearing by zoom level
  and extents, which selects fewer rows.
* `TableClass`: joins, strings, widths and precision; calculations and queries
  read rows through `ReadRecord` as `get_CellValue` does.
* `ShapefileEdit`: the selection and visibility of shapes, charts, categories,
  the fast reading mode and the formats of the files.
* `MapLayers`: reprojection of layers that are added, a grid that cannot be
  shown as an image, visibility and buffers of images, saved options, the
  history of extents, image groups, and the vertices of the edited shape with
  their undo.
* Geometry, projections, rasters and drawing: floating point, or done by
  third-party libraries (GDAL, GEOS, Clipper, GeographicLib, SQLite, PROJ),
  which are left out everywhere.
* Serialization, COM registration, settings: wording and plain values.

Most of the lines of the repository belong to those two groups; the models
cover a small part of the whole, which is the part with state that outlives a
call. The list of components in `PROJECT.json` is complete.

## 7. Plan

1. Done: `RamCache`, `TileLoader`, `TileCacher`, `TableClass`; then
   `TilePrefetch`, `SQLiteCache`, `ShapefileEdit`, `QTree`, `MapLayers`, as
   above.
2. Joins in `TableClass`: joined fields are inserted and removed outside the
   editing mode, dropped before a save and restored through the serialized
   state after it, but not after a dump or `EditClear`.
3. Undo of points in `ActiveShape`, the history of extents, visibility of
   layers and buffers of images.
4. The drawing of tiles, which copies the screen buffer without its lock,
   composed with `RamCache`.
5. Pure algorithms against reference definitions: the heap of the shape
   network, coloring.
6. Done: proofs of all safety properties of all modules that have runs.
