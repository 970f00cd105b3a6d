\* Three files; the last map stays, so the system stops at the bound.
CONSTANTS
  MaxOpens = 3
  Rasters <- MCRasters
CHECK_DEADLOCK FALSE
SPECIFICATION Spec
INVARIANTS
  LoadedMapUsable
  SizesOwn
  ShownMapsClosed
  LayersApart
