CONSTANTS
  Conns = {c1, c2}
  NoConn = NoConn
  Workers = {w1, w2}
  EventTypes = {"accept"}
  Realms = {"service"}
  Commands = {"MESSAGE_SERVICE"}
  MaxShutdowns = 0
  StaleUse = {"works"}
  Waits = {"end"}
  ClientLock = {"enters"}
SPECIFICATION FairSpec
CHECK_DEADLOCK FALSE
PROPERTY
  CommandsProcessed
