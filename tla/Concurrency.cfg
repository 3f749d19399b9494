\* Three threads, so that two readers remain when one of three releases; three clients
\* for two workers and a queue of two; two scans on up to two threads; two events over
\* four ticks; two sessions with transactions of two statements on one table.
SPECIFICATION AllSpec
CONSTANTS
  Threads = {t1, t2, t3}
  Tables = {A, B}
  RowKeys = {k1}
  NoThread = NoThread
  Clients = {c1, c2, c3}
  Workers = {w1, w2}
  NoClient = NoClient
  MaxQueue = 2
  Scans = {1, 2}
  MaxWorkers = 2
  Inputs <- ScanInputs
  Names <- EventNames
  Schedules <- EventSchedules
  Day = 2
  MaxTime = 3
  Sessions = {x1, x2}
  MaxOps = 2
  MaxRows = 2
  PruneAt = 1
  MaxTxId = 2
INVARIANTS
  AllTypeOK
  WriteLockIsExclusive
  QueueIsAttended
  ScanSeesEveryRowOnce
PROPERTIES
  ImplementsReadersWriterLock
  RowLockNotStolen
  PoolServes
  ScanEnds
  NoExtraRun
  DueIsRun
  ImplementsSerialStore
  VacuumReclaims
\* The server's pool ends.
CHECK_DEADLOCK FALSE
