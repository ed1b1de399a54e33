SPECIFICATION ApiSpec
CONSTANTS
  Uuid = {u1, u2}
  i1 = i1
  i2 = i2
  qcow2 = qcow2
  Image <- MCImage
  Format <- MCFormat
  Null = Null
  Unset = Unset
  NoRow = NoRow
  Request = {r1, r2, r3}
  Resolved <- AllNames
  Bodies <- MCBodies
  Patches <- MCPatches
  Shows <- MCShows
  Faults = TRUE
SYMMETRY Symmetry
CHECK_DEADLOCK FALSE
INVARIANTS
  ApiTypeOK
  OneCreator
  LaunchAfterCommit
  AnswersHold
  DeletedRowSaysSo
  PatchTakesEffect
PROPERTIES
  DeletionIsFinal
  NoStaleWriteBack
