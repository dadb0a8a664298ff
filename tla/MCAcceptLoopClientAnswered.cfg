CONSTANTS
  Remotes = {r1, r2}
  NoRemote = NoRemote
  maxConnections = 2
  StringStorage = 2
  StackAsConnection = {"tcp"}
  ClientLock = {"enters", "hangs"}
  StrayWrite = {"kept"}
SPECIFICATION FairSpec
CHECK_DEADLOCK FALSE
PROPERTY
  ClientAnswered
