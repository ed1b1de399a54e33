SPECIFICATION Spec
CONSTANTS
  Resolved <- AllNames
  Proc = {p1}
  Forked = {p1}
  Thread = {t1}
  Main = t1
  NoEngine = NoEngine
  MaxRelease = 1
CHECK_DEADLOCK FALSE
INVARIANTS
  CreatesAfresh
