SPECIFICATION FairSpec
CONSTANTS
  Node = {n1, n2, n3}
  NULL = NULL
  MaxSend = 3
  Producer = {p1, p2}
  Scheduler = {s1}
  Embedder = {}
  SchedBatch = 2
  MaxCont = 0
PROPERTIES
  RefinesMailbox
  Delivered
  DestroyEnds
CHECK_DEADLOCK FALSE
