SPECIFICATION FairSpec
CONSTANTS
  a = a
  b = b
  c = c
  View = {a, b, c}
  Root = a
  RcMod = 8
  ConfGroup = 2
  MaxEdge = 1
  MaxRc = 2
  InitRc <- MCRc
  InitMaps <- MCMaps
  InitDeltas <- MCDeltas
INVARIANT TypeOK
INVARIANT FindsExactlyGarbage
INVARIANT ScansRestoreViews
INVARIANT CountsAgree
INVARIANT ColouredViewsAreQuiet
INVARIANT CollectedCycleConfirmed
PROPERTY ScanEnds
PROPERTY CycleResolved
CHECK_DEADLOCK FALSE
