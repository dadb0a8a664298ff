CONSTANTS
  Threads = {t1, t2}
  Nobody = Nobody
  Lost = Lost
  MaxId = 0
  MaxDepth = 1
  Ops = {"allocate", "remove"}
  ForeignLeave = {"ignored"}
SPECIFICATION FairSpec
CHECK_DEADLOCK FALSE
PROPERTY
  RebuildCompletes
