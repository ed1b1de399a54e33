SPECIFICATION FairApiSpec
CONSTANTS
  Uuid = {u1, u2}
  i1 = i1
  i2 = i2
  qcow2 = qcow2
  Image <- MCImage
  Format <- MCFormat
  Null = Null
  Unset = Unset
  NoRow = NoRow
  Request = {r1, r2}
  Resolved <- AllNames
  Bodies <- MCBodies
  Patches <- MCPatches
  Shows <- MCShows
  Faults = FALSE
CHECK_DEADLOCK FALSE
INVARIANTS
  HandlersNeverStuck
PROPERTIES
  EveryRequestAnswered
