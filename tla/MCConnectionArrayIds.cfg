CONSTANTS
  Owners = {o1, o2, o3}
  NoHandle = NoHandle
  InitialSize = 2
  ExtendBy = 2
  MaxSize = 6
  StrayIds = {}
  Realm = 0
SYMMETRY Symmetry
SPECIFICATION Spec
CHECK_DEADLOCK FALSE
INVARIANT
  IdsUnique
