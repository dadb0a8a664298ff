CONSTANTS
  Senders = {s1, s2, s3, s4, s5}
  InitialSize = 4
SPECIFICATION Spec
CHECK_DEADLOCK FALSE
INVARIANTS
  TypeOK
  OneHolder
  NothingFreeBelow
  FaultsOnlyWhenFull
PROPERTY
  ImplementsPool
