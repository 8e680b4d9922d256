SPECIFICATION Spec
CONSTANTS
  N = 2
  Actor = {main, a, cd}
  Main = main
  CD = cd
  NONE = NONE
  Options <- Program
INVARIANTS
  TypeOK
  BlockAccounting
  AckAccounting
  NothingLeftAtExit
  OnePlace
