SPECIFICATION FairSpec
CONSTANTS
  Node = {n1, n2, n3}
  NULL = NULL
  Thread = {t1, t2}
  Pusher = {t1}
  Single = TRUE
  MaxPush = 4
PROPERTIES
  RefinesActorQueue
  CallsEnd
