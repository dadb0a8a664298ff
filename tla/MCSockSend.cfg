CONSTANTS
  Workers = {w1, w2}
  Connections = {1, 2}
  Nobody = Nobody
  Lost = Lost
  NoJob = NoJob
  Places = {p1, p2}
  Messages <- MCMessages
  MaxAttempts = 3
SPECIFICATION FairSpec
CHECK_DEADLOCK FALSE
INVARIANTS
  TypeOK
  HeardAsSaid
  WholeIfReported
PROPERTIES
  ImplementsAtomicSend
  WaitsOnlyOnSends
