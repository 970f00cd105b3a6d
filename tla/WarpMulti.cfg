\* Four chunks, so that both slots are used twice; every call may fail.
CONSTANTS
  N = 4
  ThreadingModels <- MCBothModels
  MayFail <- Calls
  Parent = Parent
  NoOwner = NoOwner
SPECIFICATION FairSpec
INVARIANTS OneAtATime NoWorkLeft ProgressNearby
PROPERTIES WarpKept CallReturns
CHECK_DEADLOCK FALSE
