SPECIFICATION FairSpec
CONSTANTS
  Uuid = {u1}
  i1 = i1
  i2 = i2
  qcow2 = qcow2
  disk = disk
  Image <- MCImage
  Format <- MCFormat
  Null = Null
  Unset = Unset
  NoRow = NoRow
  Request = {r1}
  Resolved <- NoEndpoint
  Bodies <- OneBody
  Patches <- MCPatches
  Shows <- MCShows
  Faults = FALSE
  Slot = {s1}
  Name <- MCName
  NameOf <- MCNameOf
  ChunksOf <- MCChunksOf
  MaxChunks = 2
  MaxCrashes = 0
CHECK_DEADLOCK FALSE
PROPERTIES
  LaunchRuns
