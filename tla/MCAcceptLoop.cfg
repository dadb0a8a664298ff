CONSTANTS
  Remotes = {r1, r2, r3}
  NoRemote = NoRemote
  maxConnections = 2
  StringStorage = 1
  StackAsConnection = {"tcp", "other", "hangs", "faults"}
  ClientLock = {"enters", "hangs", "faults"}
  StrayWrite = {"kept", "faults"}
SPECIFICATION FairSpec
CHECK_DEADLOCK FALSE
INVARIANTS
  TypeOK
  WithinBudget
  NoSocketLost
  PassMeansIn
PROPERTIES
  ImplementsDoor
  WaitBounded
  EveryoneServed
  ShutdownEndsLoop
