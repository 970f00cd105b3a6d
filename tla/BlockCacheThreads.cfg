\* Two threads and bands of two blocks, a cache of two blocks: most requests
\* evict, often a block of the other thread's band; with the pointers of the list.
CONSTANTS
  t1 = t1 t2 = t2
  b1 = b1 b2 = b2 b3 = b3
  Threads <- MCTwoThreads
  NBlocks = 2
  Blocks <- MCThreeBlocks
  BlockSize <- MCUnitBlocks
  NContents = 2
  CacheMax = 2
  NewMaxes = {}
  ConfigMax = NULL
  Kinds <- MCReadUpdateFlush
  IOFails = FALSE
  GridFails = FALSE
  NULL = NULL
SPECIFICATION ListSpec
SYMMETRY MCSymmetry
INVARIANTS LocksMatchUsers OneBlockPerSlot UnlockedIsEvictable CacheBounded ListInv
PROPERTIES RasterSpec
