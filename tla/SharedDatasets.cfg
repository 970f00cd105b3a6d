\* Proxies of A are used by B, which also creates and drops transformers.
CONSTANTS
  Threads = {A, B}
  Impersonated = {A}
  Unlocked = {B}
  Files = {f}
  Accesses = {"ReadOnly", "Update"}
  Datasets = {d1, d2, d3}
  MaxHandles = 2
  None = None
SYMMETRY Interchangeable
SPECIFICATION Spec
INVARIANTS
  HeldIsOpen
  RefsMatchHandles
  EntriesValid
  ThreadsApart
