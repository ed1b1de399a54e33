SPECIFICATION Spec
CONSTANTS
  Caller = {c1, c2}
  UserId <- MCUserId
  Name <- MCName
  Roles <- MCRoles
  Projects <- MCProjects
  Domains <- MCDomains
  RoleArg <- MCRoleArg
  ProjectArg <- MCProjectArg
  DomainArg <- MCDomainArg
  NoUser = NoUser
  NoId = NoId
SYMMETRY MCSymmetry
CHECK_DEADLOCK FALSE
INVARIANTS
  KeystoneTypeOK
  ReturnedIsComplete
  DeletedIsGone
PROPERTIES
  DeletesTheOneFound
  KeepsUsers
