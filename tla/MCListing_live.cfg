SPECIFICATION FairSpec
CONSTANTS
  Uuid = {u1, u2}
  Key <- MCKey
  MaxId = 3
  MaxLimit = 2
  Limits <- MCLimits
  None = None
  NoRow = NoRow
CHECK_DEADLOCK FALSE
PROPERTIES
  WalkAdvances
  WalkEnds
