\* A resampled write comes back to a block that was evicted half written.
CONSTANTS
  Width = 3
  Height = 3
  BlockW = 2
  BlockH = 2
  Windows <- MCWindows
  BufSizes <- MCDouble
  Calls <- MCBandWrite
  IOFails = FALSE
  Resolution = 4
  Errors <- MCExact
SPECIFICATION Spec
CHECK_DEADLOCK FALSE
INVARIANTS WindowWritten
