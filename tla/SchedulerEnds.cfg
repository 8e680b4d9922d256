SPECIFICATION FairSpec
CONSTANTS
  N = 2
  Actor = {main, a, cd}
  Main = main
  CD = cd
  NONE = NONE
  Options <- Ending
PROPERTIES
  StopsWhenWaiting
  StopsIfEarly
