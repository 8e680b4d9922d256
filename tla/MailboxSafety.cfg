SPECIFICATION Spec
CONSTANTS
  Node = {n1, n2, n3}
  NULL = NULL
  MaxSend = 3
  Producer = {p1, p2}
  Scheduler = {s1, s2}
  Embedder = {e1}
  SchedBatch = 2
  MaxCont = 1
SYMMETRY Symmetry
INVARIANTS
  TypeOK
  OneOwner
  NoUseAfterFree
  NothingStranded
  DestroyIsSafe
CHECK_DEADLOCK FALSE
