SPECIFICATION Spec
CONSTANTS
  t1 = t1
  t2 = t2
  o1 = o1
  o2 = o2
  f = f
  Null = Null
  Thread = {t1, t2}
  Object = {o1, o2}
  MaxVars = 3
  Field = {f}
  FieldCaps <- AnyCaps
  Gaps = {}
SYMMETRY Symmetry
INVARIANTS
  NoDataRace
  DeniesKept
  TablesAgree
  ViewBoundsHold
  AskingIsWeaker
CHECK_DEADLOCK FALSE
