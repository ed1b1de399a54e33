SPECIFICATION Spec
CONSTANTS
  Uuid = {u1, u2, u3}
  Key <- MCKey
  MaxId = 3
  MaxLimit = 0
  Limits <- NoLimit
  None = None
  NoRow = NoRow
CHECK_DEADLOCK FALSE
INVARIANTS
  VisitsAll
