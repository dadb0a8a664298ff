CONSTANTS
  Conns = {c1, c2}
  NoConn = NoConn
  Workers = {w1, w2}
  EventTypes = {"listen"}
  Realms = {"service","client","uninit"}
  Commands = {"CONNECT","MESSAGE_CLIENT"}
  MaxShutdowns = 1
  StaleUse = {"works"}
  Waits = {"end", "last"}
  ClientLock = {"enters"}
SPECIFICATION MCFairSpec
CHECK_DEADLOCK FALSE
INVARIANTS
  TypeOK
  OneReader
  ListenedTo
  NothingPendingOnFreed
PROPERTIES
  ImplementsBaton
  HangUpDisposed
