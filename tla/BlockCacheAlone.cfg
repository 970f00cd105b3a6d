\* One thread that reads, updates, flushes, closes and sets the limit, fairly.
CONSTANTS
  t1 = t1 t2 = t2
  b1 = b1 b2 = b2 b3 = b3
  Threads <- MCOneThread
  NBlocks = 3
  Blocks <- MCThreeBlocks
  BlockSize <- MCUnitBlock
  NContents = 2
  CacheMax = 3
  NewMaxes <- MCNewMaxes
  ConfigMax = NULL
  Kinds <- MCAllButFill
  IOFails = FALSE
  GridFails = FALSE
  NULL = NULL
SPECIFICATION FairSpec
INVARIANTS ClosedBandLeavesNoBlock CacheBounded
PROPERTIES CallsReturn FlushStores
