\* Two threads, two handles and two names, of which one has a backslash.
CONSTANTS
  Slashed = Slashed
  Backslashed = Backslashed
  Threads = {t1, t2}
  Names <- MCNames
  Normalized <- MCNormalized
  Files = {f1, f2}
  Handles = {h1, h2}
  MaxLength = 2
  MaxRefs = 4
  Allowed = {}
  NULL = NULL
SYMMETRY Interchangeable
SPECIFICATION Spec
INVARIANTS
  HandlesUsable
  RefsEnough
  MemoryOwnedOnce
