SPECIFICATION Spec
CONSTANTS
  Uuid = {u1, u2, u3}
  Key <- MCKey
  MaxId = 3
  MaxLimit = 2
  Limits <- MCLimits
  None = None
  NoRow = NoRow
SYMMETRY MCSymmetry
CHECK_DEADLOCK FALSE
INVARIANTS
  ListingTypeOK
  VisitsAll
  NoRepeats
  OnePage
