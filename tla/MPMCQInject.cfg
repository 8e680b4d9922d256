SPECIFICATION Spec
CONSTANTS
  Node = {n1, n2, n3}
  NULL = NULL
  Thread = {t1, t2}
  Pusher = {t1, t2}
  Single = FALSE
  MaxPush = 4
SYMMETRY Symmetry
INVARIANTS
  TypeOK
  TakesInOrder
  SafeAccess
  NoLeak
