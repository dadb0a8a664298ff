CONSTANTS
  Threads = {t1, t2}
  Nobody = Nobody
  Lost = Lost
  MaxId = 0
  MaxDepth = 1
  Ops = {"allocate", "free", "remove", "find"}
  ForeignLeave = {"ignored", "broken", "released"}
SPECIFICATION FairSpec
CHECK_DEADLOCK FALSE
INVARIANTS
  TypeOK
  PeersAlone
PROPERTY
  WaitsOnlyOnLeaks
