SPECIFICATION Spec
CONSTANTS
  N = 3
  Actor = {main, a, b, cd}
  Main = main
  CD = cd
  NONE = NONE
  Options <- Racing
INVARIANTS
  AssertAtExit
CONSTRAINT
  Race
