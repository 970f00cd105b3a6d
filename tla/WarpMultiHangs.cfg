\* The destination of a chunk cannot be read.
CONSTANTS
  N = 2
  ThreadingModels <- MCPthread
  MayFail <- MCDestination
  Parent = Parent
  NoOwner = NoOwner
SPECIFICATION FairSpec
PROPERTIES AlwaysReturns
CHECK_DEADLOCK FALSE
