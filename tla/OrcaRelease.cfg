SPECIFICATION SettledSpec
CONSTANTS
  NActors = 3
  IncMore = 2
  MaxOps = 2
  Threads = 1
  ConfGroup = 2
  MinDeferred = 0
  MaxDeferred = 0
  Asserts = FALSE
INVARIANT CollectedIsPerceived
CHECK_DEADLOCK FALSE
