SPECIFICATION Spec
CONSTANTS
  Resolved <- AllNames
  Proc = {p1, p2}
  Forked = {p1, p2}
  Thread = {t1, t2}
  Main = t1
  NoEngine = NoEngine
  MaxRelease = 2
SYMMETRY MCSymmetry
CHECK_DEADLOCK FALSE
INVARIANTS
  DeploymentTypeOK
  GlobalsSet
  OneEngineEach
  VersionTrue
PROPERTIES
  EngineSettles
  KeepsSchema
