# A formal model of tcl-map

tcl-map is a geographic viewer for Tcl/Tk. Its repository holds the application
(`src/GISViewer`), a patched GDAL 1.6.1 with Tcl bindings
(`src/gdal-1.6.1-tcl_patched`), a patched NAP array extension
(`src/tcl-nap-2009_08_23-patched`) and tests of the bindings (`src/test_suite`).
Every map the application shows is read by GDAL through one global cache of
raster blocks, and through one global pool of open datasets when it is a
virtual one. That shared, multi-threaded state is what this project models
first, then what is built on it and around it: the registry of shared datasets,
the warp in several threads, the files in memory, and the application's own map.
These are the places where a mistake loses data or uses freed memory, and where a
test would hardly reach.

Paths below are relative to `src/gdal-1.6.1-tcl_patched` unless they begin with
`src/`. `PROJECT.json` maps every definition to the lines it models and lists
the runs, mutants, hazards, findings and theorems.

## 1. Inventory

### The core of GDAL

| component | state | operations | interacts with | what is hard | what makes it correct |
|---|---|---|---|---|---|
| **Block cache** `gcore/gdalrasterblock.cpp`, `gcore/gdalrasterband.cpp` | global: `poNewest`/`poOldest` list, `nCacheUsed`, `nCacheMax`, `hRBMutex`; per band: `papoBlocks`; per block: lock count, dirty mark, data | `GetLockedBlockRef`, `TryGetLockedBlockRef`, `AdoptBlock`, `FlushBlock`, `FlushCache`, `Internalize`, `FlushCacheBlock`, `Touch`, `Detach`, `Write`, band destructor, `GDALSetCacheMax` | raster I/O above; drivers below (`IReadBlock`, `IWriteBlock`), called from eviction in whatever thread needs memory | a thread evicts blocks of another thread's band; slot, lock count and dirty mark are used without the mutex; I/O and allocations fail half way | lock counts exact, one block per slot, no locked block deleted, memory bounded and accounted for, no update lost, everything written by a flush, nothing left by a close |
| **Raster I/O** `gcore/rasterio.cpp` | the position of one request, its locked block | `GDALRasterBand::IRasterIO` (three cases), `GDALDataset::BlockBasedRasterIO`, `Fill` | block cache | partial edge blocks, resampling, `bJustInitialize`, a block evicted between two visits of one request, and perhaps not written; samples computed in doubles | a write sets its window and nothing else, and what fails to be written is reported |
| **Dataset pool** `gcore/gdalproxypool.cpp`, `gcore/gdalproxydataset.cpp` | singleton: its count of toplevel proxies, entries (file, thread, count, dataset) in a linked list; per proxy: `cacheEntry` | every call on a proxy: `RefUnderlyingDataset`, the call, `UnrefUnderlyingDataset`; proxy creation and destruction | dataset registry (opens and closes under `hDLMutex`); VRTs create the proxies, "inner" ones when the pool opens the VRT, which the pool is not counted for | eviction while others hold references, cached failures, nesting, a pool at its limit | a dataset in use is never closed or exchanged; counts exact; one entry per key; the list well formed |
| **Dataset registry** `gcore/gdaldataset.cpp` | sets of all and of shared datasets, `hDLMutex`, `nRefCount` | `GDALOpen`, `GDALOpenShared`, `GDALClose`, `Reference`, `Dereference`, destructor | pool, VRT, block cache (the destructor flushes) | lookup and insertion are two critical sections; a close flushes under the mutex | a shared dataset is open exactly while referenced, and found by whoever may share it |
| **Multi-threaded warp** `alg/gdalwarpoperation.cpp` | two worker slots, four mutexes, progress members | `ChunkAndWarpMulti`, `ChunkThreadMain`, `WarpRegion`, `WarpRegionToBuffer` | raster I/O of two datasets | completion flags read by polling, error paths that keep or release a mutex wrongly | every chunk is processed once, every error reaches the caller, the call returns |
| **Portability layer** `port/cpl_multiproc.cpp`, `port/cpl_vsi_mem.cpp`, `port/cpl_error.cpp`, ... | mutexes, thread-local storage; files in memory with reference counts | create/acquire/release, lock files; open, close, unlink, seize | everyone | first use of a mutex; a count changed without the mutex | mutual exclusion; a file lives as long as its handles; its memory has one owner |
| Drivers, PAM, overviews, VRT (`gcore`, `frmts`) | one file each | open, read and write blocks, metadata | below the cache | formats | out of a model checker's scope |
| OGR (`ogr`) | features, geometries | parse, transform | viewer | formats, numerics | same |
| Warp kernel and algorithms (`alg`) | one chunk | resampling | warp | floating point | same |

### Around it

* **Tcl bindings** (`swig/tcl`): generated, stateless.
* **NAP** (`src/tcl-nap-2009_08_23-patched/generic`): arrays with reference counts bound to Tcl commands; a parser of expressions.
* **GISViewer** (`src/GISViewer/source`): `GIScanvas.tcl` keeps one map (`Dataset`,
  `Map(...)`, `Cursor(...)`) and answers events: `openMap`, `closeMap`, `zoom`,
  `motion`; `gisv.tcl` drives it from menus. One thread, but `update` and dialogs
  let events in. It is correct when every event after a failed or finished
  operation finds a map that is either complete or absent.
* **Not our code**: vendored Tcl libraries, `InstallTree`, `installers`, data.

`PROJECT.json` lists all of these under "components" and 40 hazards with the line
where each bites and the properties about it; the few without a property say why.

## 2. Modules

| module | models | state variables and code |
|---|---|---|
| `LruSeq` | the two most-recently-used lists as sequences | — |
| `BlockCache` | the block cache and the block management of bands | `slot` papoBlocks; `block` GDALRasterBlock; `order` the list; `used`, `cacheMax`, `maxRead` nCacheUsed, nCacheMax, bCacheMaxInitialized; `mutex` hRBMutex; `disk` the file; `open` existing bands; `pc`, `local` the call each thread is in |
| `Raster` | what callers expect: one register per block | abstract specification, implemented by `BlockCache` |
| `BlockList` | the pointers behind `order` of BlockCache, joined with each of its steps | `poNewest`, `poOldest`, `poNext`, `poPrevious` |
| `RasterIO` | one request walking over blocks | `call`, `window`, `buf` the request; `line`, `column` the loops; `cached`, `dirty`, `locked`, `mem`, `file`, `result`; `error` how the doubles of the samples are rounded; `lost` the blocks whose writing failed in an eviction |
| `DatasetPool` | pool and proxies | `poolRefCount`, `order`, `key`, `isOpen`, `refCount` the singleton and its entries; `proxy`, `cacheEntry` the proxies; `keptBy` the VRTs they are sources of, in entries or outside; `calls` the proxies each thread is in calls on |
| `DatasetPoolLinks` | the pointers behind `order` of DatasetPool, joined with each of its steps | `firstEntry`, `lastEntry`, `prev`, `next` |
| `SharedDatasets` | datasets opened once and shared: registry, counts, responsible PIDs | `mutex` hDLMutex as the pool holds it; `ds` the GDALDataset objects; `sharedSet` phSharedDatasetSet; `handles` who was given what; `job` a call between two critical sections |
| `WarpMulti` | ChunkAndWarpMulti and the threads of its chunks | `owner` the four mutexes; `parent`, `iChunk`, `eErr` the parent; `inUse`, `data` papThreadDataList; `thread`, `err` the threads; `progressBase`, `progress` the progress members |
| `ChunkedWarp` | what a warp in chunks promises | abstract specification: `done`, `outcome`; ChunkAndWarpImage with one chunk under way, implemented by `WarpMulti` with two |
| `MemFiles` | the files of /vsimem/ | `oFileList` the list; `file`, `handle` the VSIMemFile and VSIMemHandle objects; `callers` who owns a buffer; `job` a call between its steps |
| `MapCanvas` | the map of GISViewer | `map` the members of GIScanvas and the Tcl commands that exist; `opens`, `failed` the file_open calls |
| `MC...` | instances for TLC | — |
| `...Proofs` | theorems (section 5) | — |

**Granularity of BlockCache.** `Internalize` holds `hRBMutex` from end to end, its
evictions included; `Touch`, `Detach`, `SafeLockBlock` and the search of
`FlushCacheBlock` hold it for a moment. Everything else (the slot, lock counts, dirty
marks, I/O) runs without it. A step is what the code does between two points
where another thread can intervene; for example `FlushBlock` is `FlushLock`
(SafeLockBlock), `FlushTake` (the slot is read and cleared), `FlushDetach` (Detach,
clean), `WriteOut` (IWriteBlock), `Delete`. `FlushBlock` is one piece of code with three
callers, the eviction loop, `FlushCache` and a failed `IReadBlock`, and it is
one set of actions here; `FlushBack` is its return to each of them. Threads own one band each, as
the documentation of `GDALOpen` asks (gcore/gdaldataset.cpp:1960-1964): two
threads on the same dataset are outside of what the code supports. Increments of
lock counts are taken as atomic.

**Granularity of DatasetPool.** `RefDataset` and `UnrefDataset` hold the recursive
`hDLMutex` throughout, opening and closing included, so each is one step, a call on a
proxy being two. `GDALOpen` is a choice between success and failure; that of a VRT makes a proxy for each of its
`Sources`. The proxies made while `refCountOfDisableRefCount` is above 0 take no reference on the pool and are
deleted with the dataset of the entry that made them. `Spec` takes it that nothing outside shares what the pool
opens; `SharingSpec` has a VRT outside that does.

**Granularity of RasterIO.** A step visits one block for one line of the walk or
evicts a block, whose writing may fail: `FlushCacheBlock` ignores that, and the block is `lost`. The position of a
sample is the exact one, off by at most 1 / `Resolution` of a pixel either way: that is what the doubles of the code may
add. Pixels carry "old", "new" or "junk" (what malloc left), which is all
the properties tell apart. A raster whose size is not a multiple of
the block size has `Pixels` beyond its edge, as its edge blocks have in memory.

**Granularity of SharedDatasets.** What holds `hDLMutex` is one step; `GDALOpenShared` is
three (lookup, `GDALOpen`, `MarkAsShared`), except that the pool keeps the mutex through all of them
while it opens a file for the thread that made the proxy. `Reference` and `Dereference` take no
mutex: a load and a store. A dataset is used by one thread at a time, as `GDALOpen` asks
(`NotInUse`).

**Granularity of WarpMulti.** A step is what a thread does between two operations on mutexes or
slots. `dfProgressBase` and `dfProgressScale` are written and read one after the other. `CPLAcquireMutex` is modelled twice, as `threadingModel` says: with pthreads it never times out
and a mutex of a thread that ended stays locked; on Windows it may time out while somebody holds the mutex,
and an abandoned mutex is free. Releasing a mutex one does not hold changes nothing.

**Granularity of MemFiles.** `VSIMemHandle::Close` decrements the count without the mutex (a load, a
store, with other closes and unlinks in between); `VSIFileFromMemBuffer` enters the file under the name it is given
and then opens the name with slashes (`Normalized`). All else is one step. `Allowed` names two
things that callers may do; see finding 10.

**Granularity of MapCanvas.** Tcl runs one event handler at a time, so a `file_open` is one step. Each
procedure is an operator from a state to the set of states it may leave, with the
way it ended (`Then` is the sequence of commands, where a Tcl error stops the rest and undoes nothing), because what
is hard here is which of twenty commands failed, not interleaving.

**What is abstracted.** Pixel values, data types, spacing and conversion (`GDALCopyWords`);
the split of `papoBlocks` into sub-grids, except for its allocation failing; the
cached copies of metadata that proxies return; the access mode of pool entries.

## 3. Runs

All passing runs are exhaustive. "(v)" marks a run that shows a
disagreement between the code and what the repository says of it.

| run | instance | states | shows |
|---|---|---|---|
| `cache_threads` | 2 threads, 2 blocks per band, room for 2 of 4, with the pointers of the list | 760,000 | `ListInv`: at every step the pointers spell the order of use; `LocksMatchUsers`, `OneBlockPerSlot`, `UnlockedIsEvictable`, `CacheBounded`, and that BlockCache implements `Raster` (`RasterSpec`): no update is lost and no read is stale while two threads evict each other's blocks |
| `cache_failures` | 2 threads, 1 block each of sizes 1 and 2, room for 2 bytes, any read, write or allocation (of a sub-grid too) may fail | 119,000 | `UsedIsAllocated`, `UnlockedIsEvictable`, `DeletedUnlocked`, and `MutexReleased` under fairness |
| `cache_alone` | 1 thread, 3 blocks, read/update/flush/close/GDALSetCacheMax | 466,000 | `CallsReturn` under fairness, `FlushStores`, `ClosedBandLeavesNoBlock`, `CacheBounded` with a limit that changes |
| `rasterio` | 3x3 raster of 2x2 blocks, every window, buffers 1x1, 2x1, 3x5 and the window's size, five calls, failing reads and writes, evictions that fail to write, samples off by a quarter of a pixel | 895,000 | `WindowWrittenByBlocks`, `OutsideKept`, `SamplesInWindow` |
| `rasterio_rows_lost` (v) | the same, writes of a 6x6 buffer, no failures | — | `WindowWritten` fails: a resampled write comes back to a block that was evicted half written and takes it as uninitialised |
| `pool` | 2 threads that nest 2 calls, 2 files, one a VRT of the other, which lacks the band, 3 proxies, 3 entries, with the pointers of the list | 988,000 | `RefsMatchHolders`, `PoolOutlivesProxies`, `OneEntryPerKey`, `CheckLinks`, `DatasetStaysWhileHeld`, although calls are refused and references leak |
| `pool_shared` (v) | 2 entries, and a VRT outside that shares a source with a pooled one | — | `PoolTaken` fails: the pool is deleted while an uncounted proxy is used from outside |
| `shared_datasets` | 2 threads, one opening and closing sources without the mutex, the pool opening for the other; 1 file, both access modes, 3 datasets | 111,000 | `HeldIsOpen`, `RefsMatchHandles`, `EntriesValid`, `ThreadsApart` |
| `warp_multi` | 4 chunks, both threading models, any call may fail | 152,000 | `OneAtATime`, `NoWorkLeft`, `ProgressNearby`, that WarpMulti implements `ChunkedWarp` (`WarpKept`), and `CallReturns` under fairness |
| `warp_multi_hangs` (v) | the same | — | `AlwaysReturns` fails: an error on the destination leaves `hIOMutex` locked |
| `mem_files` | 2 threads, 2 names, one with a backslash, 2 files, 2 handles, lengths up to 2, counts up to 4 | 648,000 | `HandlesUsable`, `RefsEnough`, `MemoryOwnedOnce` |
| `map_canvas` | 3 files opened one after the other, every file of up to 3 bands and colours with 3 more, every command may fail | 92,000 | `LoadedMapUsable`, `SizesOwn`, `ShownMapsClosed`, `LayersApart` |

**Why the bounds are enough.** A race in the block cache involves a block, the
thread that uses it and a thread that evicts it; two threads and a cache that
holds fewer blocks than the bands have reach every pair of program points, and the
invariants relate at most two blocks and two threads. Equal blocks make the
limit exact in `cache_threads`; `cache_failures` has unequal ones, so that
one eviction is not always enough. A 3x3 raster of 2x2 blocks has a
whole block, two edges and a corner, and an error of a quarter of a pixel is as much as the smallest window and buffer can
bear. Three pool entries have a first, a middle and
a last one, and are fewer than the four references two threads can nest and the one that is lost, so that calls are refused and the first
entry may be the only one to recycle, where the behaviour ends (`Looped`). `NContents` = 2 makes a lost
update visible (an update adds one modulo 2); `MaxLeaks` and `Depth` bound lost
references and nesting. The registry needs one file: what it holds
of two is twice the same; three datasets are one that is used, one that a second thread or access
opens, and one that `MarkAsShared` refuses (with four, 616,000 states, nothing changes). Four chunks use
both slots of the warp twice. Two files in memory of two names are enough for a name to be taken over
by another file while a handle on the first is open; two threads that close and unlink lose at most the decrements that
`MaxRefs` has room for. Of a raster file the order of the bands matters, and
no group has more than four. What the bounds may hide is what section 5 proves for
every value. Symmetry is used only in runs without liveness.

**Deadlock** is checked everywhere but where the system stops by itself: a request ends
(RasterIO), a call returns (WarpMulti), the list of the pool is a loop (`pool`), the last file is open (MapCanvas, at its
bound).

**Fairness.** `FairSpec` is weak fairness of the steps of each thread: a call that
can go on does so, I/O included. Nothing forces a thread to begin a call. Under it,
`MutexReleased` says that whoever is inside of `Internalize` leaves it. That
every call returns is claimed for one thread only: with two, a thread waiting for
`hRBMutex` needs it to be granted fairly, which the code does not ask of the operating
system. Calls return errors rather than hang: `IReadBlock` and `IWriteBlock` are
assumed to return. The warp's `FairSpec` is weak fairness of the parent and strong fairness of
the threads taken together: the threads take finitely many steps, and the parent, which takes the mutex of a slot
and gives it back over and over (lines 825-829), must not keep them from it for ever, which the sleep inside of
the wait of any mutex implementation grants. `CallReturns` makes its claim unless a thread
ended with a mutex or with its slot still set; `AlwaysReturns` drops that condition and is false.

**Limits on what a property says.** `FlushStores` is stated of calls that
return without error. `DeletedUnlocked` is checked without
`GDALSetCacheMax`, whose loop chooses a victim under the mutex and
flushes it after giving it up: with it, a second thread can lock the block in between
(see the hazards). `UnlockedIsEvictable` leaves out one block: that for which `AdoptBlock` found no memory (line 1228
of gdalrasterband.cpp unlocks it, line 1229 deletes it, and an eviction may pick it in between and free nothing); for the
same reason `CacheBounded` is claimed without such failures. `CacheBounded` allows one
block per thread beyond the limit, because locked blocks cannot be evicted.

`WindowWrittenByBlocks` is about full resolution and leaves out the blocks that were lost in an eviction, wholly (finding 5). `SamplesInWindow`
is about windows in which doubles tell more than twice as many positions apart as the buffer has samples.
`RefsMatchHolders` admits that an entry of a file without the band is counted too often. `CheckLinks` ends where the list becomes a loop.
`RefsMatchHandles` admits that a dataset which is not shared is left open with a count of 0 by `~VRTSimpleSource` (vrtsources.cpp:77).
`NoWorkLeft` admits that a thread has yet to release the mutex of its slot when the parent returns, and the thread left behind by
line 807. `RefsEnough` says that a count is never too low; it may be too high, and then the file is never freed. `SizesOwn` leaves
out a vector map whose opening failed: that one is zoomed by the sizes of the map before (openVector sets them last).

Every property of a passing run has a mutant, a plausible bug in one
definition, written just before it, that makes TLC find the property violated.

## 4. Findings

Shown by a run marked (v):

1. `gcore/rasterio.cpp:335` — `bJustInitialize` is asked for again on each line of a resampled write;
   when the block was evicted in between, the lines written before are lost. A
   write with a buffer smaller than its window through `BlockBasedRasterIO` loses the pixels between the samples.
2. `alg/gdalwarpoperation.cpp:1172` — WarpRegion returns with `hIOMutex` locked when the destination
   cannot be read (also lines 1091 and 1298); with pthreads ChunkAndWarpMulti never returns.

3. `gcore/gdalproxypool.cpp:321` — a proxy is counted, or not, when it is made. A source of a pooled VRT that a VRT outside shares
   has uncounted proxies which are used after the pool was deleted.

Met while modelling; the models have them, and one changed bound or definition makes TLC show them:

4. `gcore/gdalproxypool.cpp:262` — with as many threads as entries (lines 91-92 call that enough) the only entry to recycle may
   be the first; the code asserts, and with assertions compiled out makes the list a loop (`Looped`, where the run `pool` ends).
5. `gcore/gdalrasterblock.cpp:169` — `FlushCacheBlock` ignores that the block it evicts could not be written: a request that returned
   CE_None has lost pixels (`lost` in `WindowWrittenByBlocks`).
6. `gcore/rasterio.cpp:1831` — the resampled path returns CE_None when it could not obtain a block; and after a resampled write
   a read may return what malloc left.
7. `gcore/gdalrasterband.cpp:868` — FlushCache does not wait for a block another thread is writing (`FlushStores`, two threads),
   and neither does a close: the other thread then calls IWriteBlock of a deleted band (`ClosedBandLeavesNoBlock`, two
   threads). `FlushedOrEvicted` and `ClosedOrEvicted` say that nothing else stays behind while no write fails.
8. `gcore/gdalrasterband.cpp:874` — two failed writes during a close leave blocks of a deleted band in the list
   (`ClosedBandLeavesNoBlock`, failing writes).
9. `alg/gdalwarpoperation.cpp:807` — when a thread cannot be created the call returns while another one goes on with an
   array on its stack and with members of the operation. And at every return the last thread may still have its mutex to release (line 724),
   which `~GDALWarpOperation` destroys and frees (lines 149-152): it saw the slot cleared, which comes before (line 721).
10. `port/cpl_vsi_mem.cpp` — each member of `Allowed`, given to `MemFiles.cfg`, breaks a property:

   | callers may | line | broken |
   |---|---|---|
   | open a file that another thread is closing | 223 | `RefsEnough`, `HandlesUsable`: the increment is lost, although rule 2 of lines 67-72 lets threads read a file together |
   | seize a file that is open | 801 | `HandlesUsable`: the handles keep a deleted file |

   Closes that lose each other's decrements, a file that `VSIFileFromMemBuffer` replaces (line 745) and a name with a backslash, entered as
   it is given and opened with slashes (749), leave a file that is never freed. A lent buffer that a file outgrows is freed by `CPLRealloc` (196),
   so it is the file's from then on. A file truncated under another handle makes the unsigned `nLength - nOffset` of Read wrap
   around (301); the model does not let such a Read return. The comment "zero-extended by
   seek past end" (line 269) is not what `SetLength` does.
11. `gcore/gdaldataset.cpp:1081` — "This should not happen" happens in one thread: many drivers do not look at the access
   asked for, so a file opened twice with `GDALOpenShared(f, GA_Update)` is not found the second time, is opened
   again, and `MarkAsShared` refuses it. `EntriesValid` shows that the registry survives it.
12. `frmts/vrt/vrtsources.cpp:77` — a source whose dataset is not shared, because the driver renamed it, takes its reference
   away and does not close it: it stays open with nobody to close it.
13. `alg/gdalgeoloc.cpp:716` and `frmts/vrt/vrtwarped.cpp:320` change a count outside of the mutex and then close: two threads
   that do so on datasets of one responsible PID lose a reference. The run keeps the threads that use these calls
   (`Unlocked`) and those whose proxies the pool serves (`Impersonated`) apart.
14. `GISViewer/source/GIScanvas.tcl:427` — `$sref -delete` in openVector deletes the command `Map` keeps as its projection, so
   closeMap stops with an error before the transformations are deleted, for every vector map. `motion` does not look
   at `Map(loaded)` and uses a deleted dataset after a failed openMap; file_open zooms and shows the map after an error, a vector map
   with the sizes of the map before it. The band after each group is skipped (the loop advances
   `bandNo` once more), and an alpha channel that is the last band is not used, which the comments of lines 572, 577
   and 585 say it is.

## 5. Proofs

TLAPS proves the following for every value of the constants that the named
assumptions allow. The assumptions are typing only (sizes positive, sets finite, NULL distinct). The type of each
variable is the first conjunct of each inductive invariant.

* **`ListsAndSums`** — lemmas of several components: on `Without`, `MoveToFront` and `OldestIn` (no duplicates appear, the
  elements are what they should be, the walk from the oldest end finds a candidate when there is one, and not the first
  entry when there are two), and on sums over finite functions
  (one more, one less, one changed, one function within another), which bytes and references are counted with.
* **`DatasetPoolProofs`** — `TypeCorrect`, `KeysUnique` (`OneEntryPerKey`), `HeldDatasetSteady`
  (`DatasetStaysWhileHeld`) and `PoolCounted` (`PoolOutlivesProxies`), all from `PoolInv`: an entry that a call uses is in the list,
  under the key of the proxy of that call, and is counted at least as often as it is used; the pool is counted once per toplevel proxy,
  and an inner proxy is kept by an entry that is open. Whoever calls an inner proxy is in a call on the entry that made it
  (`CallsNested`), so that neither the entry nor the pool goes meanwhile. That is where sharing with the outside is left out: it lets
  others in, and finding 3 is what happens then. "At least" and not
  "exactly" is what makes it inductive in spite of the references `BandMissing` loses, and it
  is enough: an entry with a count of 0 has no user. `LossesInvariant` says where the surplus can be: on entries whose file lacks the
  band (`LosableKeys`), which keep their key for good. So counts are exact on all others: `RefsExactHolds` (`RefsMatchHolders`).
  `CheckLinksHolds` (`CheckLinks`) is about the pointers of the list: `LinkInv`
  adds that they spell a sequence of all entries, until the first one is recycled (`Looped`), and that calls under way hold at most `Depth` entries each. With
  more entries than `Cardinality(Threads) * Depth`, plus one for each thread and file that lacks the band (`Roomy`), two entries are free
  whenever one is recycled, so the older of them is not the first and the code never comes to `CPLAssert(0)`: `NeverLooped`. Without the
  spare entry it does: finding 4; and a pool with room for the calls alone fills up with entries nobody uses.
* **`BlockCacheProofs`** — under `Orderly` (threads read, modify, set, flush and close, with failures unless bands are closed, and
  GDALSetCacheMax is called only where one thread is alone): `OneBlockPerSlotHolds`, `LocksMatchUsersHolds`, `DeletedUnlockedHolds`,
  `UnlockedIsEvictableHolds`. The invariant `Inv` says of every program point which local variables
  are set and where their block is (`Control`, `Place`), and that a block has at most one holder
  (`OneHolder`). The central argument: `SafeLockBlock` and the search of `FlushCacheBlock` exclude each other
  through `hRBMutex`, so a victim is unlocked, therefore has no holder, and
  stays so until its evictor locks it, because its owner cannot pass SafeLockBlock while the mutex
  is held (the last conjunct of `Place`). A block for which `AdoptBlock` has no memory is the exception: its thread unlocks it and
  then deletes it, and an eviction that picks it in between only finds its slot empty. Closing needs `SweptInv` as well: what a sweep has passed is out of papoBlocks, so the
  destructor frees an empty array. `Findable` shows that any other unlocked block is in the list.
  A thread that is alone in `GDALSetCacheMax` holds nothing but its victim (`SettersAlone`), so no one can lock that in between.
  `Orderly` is needed: with several threads `GDALSetCacheMax` evicts without the mutex, and a band closed after a write
  error leaves blocks whose slot is gone; both are hazards above, and the second is finding 8.
  * `UsedIsAllocatedHolds`, `CacheBoundedHolds` — `Bounded`: a round of the eviction loop that freed nothing found only blocks
    in use, at most one per thread and each of its own band, so their sizes are within those of one block per band. It is stated for `~GridFails`: a block that `AdoptBlock` refused and its thread is deleting ends a
    round that freed nothing as well.
    In `GDALSetCacheMax` nothing is in use, so its loop gives up only on an empty cache.
  * `RasterSpecHolds`, `RasterSpecWithoutFailures` — the refinement of `Raster`, step by step, for every behaviour in which no
    IWriteBlock fails (reads and allocations may). `DataInv` says that a block in memory is not filled yet, and then only the thread of its band knows it, or
    is dirty, or is being written, or equals the file. A failed write is the only thing that loses data.
  * `FlushedOrEvictedHolds`, `ClosedOrEvictedHolds` — what a flush and a close leave in memory is what another thread is evicting;
    in one thread that is nothing: `FlushStoresHolds`, `ClosedBandLeavesNoBlockHolds`.
  * `ListCorrect`, `VerifyHolds` — `ListInv` is inductive for the pointers joined to any run of BlockCache. `Verify` alone is
    not: the pointers of blocks outside of the list must be NULL, and `order` ties them to a sequence.
* **`WarpMultiProofs`** — `TypeCorrect`, `OneAtATimeHolds`, `NoWorkLeftHolds`, `ProgressNearbyHolds` and `WarpKeptHolds`, the
  refinement, for any number of chunks, both threading models and any set of failing calls. `WarpInv` says that the launched chunks
  are the first ones and all but the last two have cleared their slots (`Recent`, `InOrder`); that a slot belongs to
  the newer of the two chunks that use it (`SlotsOfRecent`); that whoever is at the datasets or in the kernel owns the mutex of
  that place (`MutexesHeld`: a thread that released what it did not hold changed nothing); and that a cleared slot has the
  chunk's result in it (`ResultKept`). The refinement then needs that the parent launches chunk k + 2 only after
  it saw that chunk k ended without error.
* **`MemFilesProofs`** — `HandlesUsableHolds`, `RefsEnoughHolds`, `MemoryOwnedOnceHolds`, for any number of threads, names, files and
  handles, and any closes and unlinks of one file at the same time; assuming that no file is opened while a thread is closing it and none is seized
  while it is open (`Allowed = {}`). Neither is forbidden by the rules for callers, the first is what rule 2 lets threads do, and finding 10 is what happens then.
  `MemInv` says of each file what the list, its handles, the threads that close one of them and the owner of its memory agree on. `Due(f)` is what its count should at
  least be: one for the list and one per handle (`Enough`). A close turns a handle into a thread on its way, which is no longer due, and what that thread loaded is at
  least what is due once it stores it (`Found`), since other closes and unlinks only lower that; an open would raise it. `Owned` says the same of the memory.
  A step is about one file, and what is said of the others stays.
* **`SharedDatasetsProofs`** — `EntriesValidHolds`, `ThreadsApartHolds`, for any threads, with or without proxies and unlocked counting. `SharedInv`
  says of each dataset what its object, its entry, those who hold it and the calls under way agree on. Nobody but its opener knows a
  dataset before `MarkAsShared` (`OpenedByOne`), which closes the gap in which hDLMutex is free; all who hold it hold it for
  the creator of the entry (`HeldForOne`). Nothing about counts is used for these two: `Reference` and `Dereference` may lose updates.
  `HeldIsOpenHolds`, `RefsMatchHandlesHolds`: `CountInv` says that the count of a dataset is the sum of what its holders hold, plus what
  a thread between load and store is about to add or drop; a dataset that is not shared may be open with a count of 0, and then nobody holds it.
  They assume that the threads that count without the mutex are
  none of those the pool opens for (`Impersonated \cap Unlocked = {}`): finding 13 is what happens otherwise.
* **`MapCanvasProofs`** — `LoadedMapUsableHolds`, `SizesOwnHolds`, `ShownMapsClosedHolds`, `LayersApartHolds`, for any
  files, numbers of bands and colours, and any command failing. `CanvasInv` says that what a loaded map refers to exists (`Usable`), that a loaded map
  has its own sizes (`OwnSizes`) and that the datasets of other maps are closed, unless opening them failed (`OthersClosed`). There is one lemma per procedure: from which states it may be
  called and in which it leaves the map, whether it returns or stops with an error. The band loop is a recursive function that
  counts turns. No theorem of the library can say what it computes, so `TurnsExist` and `RenderingApart` argue by the least turn for
  which there is no value, or which breaks `Apart`: the layers so far have bands before the next one, no band in common, and their
  alpha channels but one that is the last band (`TurnKeeps`). `RenderingApart` also says that a loop that is not cut short has passed all bands, so a turn per band is enough.
* **`RasterIOProofs`** — `SamplesInWindowHolds` (for all sizes and any rounding of the samples within 1 / `Resolution`, through lemmas on integer division),
  `OutsideKeptHolds`. `IOInv` says that every pixel of the raster outside of the window, or any
  pixel while the request reads, has its old value wherever a later
  reader would look for it; `bJustInitialize` preserves it because the window then covers the block, and a lost block because the file has the old values.
  `WindowWrittenByBlocksHolds`: `WrittenInv` says that the pixels of the window which the walk has passed are
  written, in the cache or in the file, but for those of lost blocks, which are as they were before (`PixelInv`), and that a block which is not dirty is the same
  in both, so that an eviction which succeeds loses nothing; `AdvancePasses` says that the walk skips no block.

**Only model-checked**: liveness (`MutexReleased`, `CallsReturn`, `CallReturns`), which is beyond the prover: it takes
fairness and ENABLED. Every safety property of a passing run is a theorem, for all constants its hypotheses allow.

## 6. What could come next

1. `LockOrder` — BlockCache's mutex with that of the registry: eviction into a proxied dataset against a close.
2. `FirstUse`, `ProxyBands` — the first use of a mutex; overview and mask proxies and their shared member.
3. The access mode in the keys of the dataset pool, and the window check of RasterIO on bounded integers.
4. Proofs: theorems for the components of 1 to 3.

## 7. Not modelled

Format drivers, OGR, warp kernels, PAM and overviews: formats and floating point, with no shared state of
their own. The SWIG wrappers are generated. Requests that a driver makes inside of `IReadBlock`
(a band that reads another band's blocks while its own is locked), `ReadBlock`/`WriteBlock` that bypass the cache and
failures of `InitBlockInfo` are left out of BlockCache. What ~GDALWarpOperation does to a thread that is still releasing its mutex is left out of WarpMulti. `GDALGetOpenDatasets`, which hands out an array that other
threads may free (its comment says so), is left out of SharedDatasets; how a region is split into chunks, also out of WarpMulti; the
bytes of files, out of MemFiles; VRTs outside of the pool are in `SharingSpec` of DatasetPool only, about which nothing is proved; zooming, coordinates and widgets, out of MapCanvas. The repository is a patched GDAL with
hundreds of drivers, command line programs and generated wrappers: the models cover the parts with state that
outlives a call and is shared, which is a small share of its lines. Two threads on one dataset are excluded by the documentation.

## 8. Reproducing

    tlc -config BlockCacheThreads.cfg MCBlockCache.tla
    tlapm BlockCacheProofs.tla

`PROJECT.json` names the module and the configuration of each run.
