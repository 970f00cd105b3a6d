\* Every window of a raster whose last column and line of blocks are only
\* partly inside of it, at full resolution and with buffers smaller and larger
\* than the window: decimation and replication, of reads and of writes.
CONSTANTS
  Width = 3
  Height = 3
  BlockW = 2
  BlockH = 2
  Windows <- MCWindows
  BufSizes <- MCBufs
  Calls <- MCAllCalls
  IOFails = TRUE
  Resolution = 4
  Errors <- MCErrors
SPECIFICATION Spec
CHECK_DEADLOCK FALSE
INVARIANTS WindowWrittenByBlocks OutsideKept SamplesInWindow
