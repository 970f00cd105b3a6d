\* Two threads, one block each, of different sizes and never both in the
\* cache; reads, writes and allocations, of sub-grids too, fail at will.
CONSTANTS
  t1 = t1 t2 = t2
  b1 = b1 b2 = b2 b3 = b3
  Threads <- MCTwoThreads
  NBlocks = 1
  Blocks <- MCTwoBlocks
  BlockSize <- MCUnequalBlocks
  NContents = 2
  CacheMax = 2
  NewMaxes = {}
  ConfigMax = NULL
  Kinds <- MCAccess
  IOFails = TRUE
  GridFails = TRUE
  NULL = NULL
SPECIFICATION FairSpec
INVARIANTS UsedIsAllocated UnlockedIsEvictable
PROPERTIES DeletedUnlocked MutexReleased
