SPECIFICATION StartOrSettledSpec
CONSTANTS
  NActors = 3
  IncMore = 2
  MaxOps = 2
  Threads = 1
  ConfGroup = 2
  MinDeferred = 0
  MaxDeferred = 1
  Asserts = TRUE
INVARIANT RcExact
INVARIANT NoUnderflow
INVARIANT ReachableIsCounted
INVARIANT NothingLeftBehind
INVARIANT CyclesAreDisjoint
PROPERTY CollectsOnlyGarbage
CHECK_DEADLOCK FALSE
