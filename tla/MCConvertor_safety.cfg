SPECIFICATION Spec
CONSTANTS
  Uuid = {u1, u2}
  i1 = i1
  i2 = i2
  qcow2 = qcow2
  disk = disk
  Image <- MCImage
  Format <- MCFormat
  Null = Null
  Unset = Unset
  NoRow = NoRow
  Request = {r1, r2, r3}
  Resolved <- AllNames
  Bodies <- MCBodies
  Patches <- MCPatches
  Shows <- MCShows
  Faults = TRUE
  Slot = {s1, s2}
  Name <- MCName
  NameOf <- MCNameOf
  ChunksOf <- MCChunksOf
  MaxChunks = 2
  MaxCrashes = 1
SYMMETRY Symmetry
CHECK_DEADLOCK FALSE
INVARIANTS
  WorkerTypeOK
  OneRun
  JobHasRow
PROPERTIES
  LaunchesMoveOn
  KeepsContract
