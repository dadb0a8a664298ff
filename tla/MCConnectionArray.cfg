CONSTANTS
  Owners = {o1, o2, o3}
  NoHandle = NoHandle
  InitialSize = 2
  ExtendBy = 2
  MaxSize = 6
  StrayIds = {0}
  Realm = 0
SYMMETRY Symmetry
SPECIFICATION Spec
CHECK_DEADLOCK FALSE
INVARIANTS
  TypeOK
  HolesOnlyAtSeams
  TakenIsFound
  OnlyTheRobbedShare
  GetAllComplete
PROPERTY
  ImplementsPool
