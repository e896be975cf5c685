SPECIFICATION Spec
CONSTANTS
  Run = {r1}
  Stream = {s1, s2, s3}
  Steps = 1
  Threads = 2
  MaxCliRows = 1
  MaxRestarts = 1
INVARIANTS
  TypeOK
  EachEventOnce
  SoleReaderSeesRun
  DoneIsStored
PROPERTY StreamsEnd
CHECK_DEADLOCK FALSE
