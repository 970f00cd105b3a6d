\* Two threads that nest two calls each, in a pool of two entries, and a VRT outside.
CONSTANTS
  t1 = t1 t2 = t2
  f1 = f1 f2 = f2
  p1 = p1 p2 = p2 p3 = p3
  Threads <- MCThreads
  Files <- MCFiles
  FilesWithBand <- MCFilesWithBand
  Sources <- MCSources
  Proxies <- MCProxies
  MaxSize = 2
  NoKey = NoKey
  MaxLeaks = 1
  Depth = 2
SPECIFICATION SharingSpec
SYMMETRY MCSymmetry
INVARIANTS PoolTaken
