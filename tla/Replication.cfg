\* One replica, synchronous writes.
SPECIFICATION Spec
CONSTANTS
  Slaves = {r1}
  SyncMode = TRUE
  MaxBatch = 2
  Base = 2
  MaxPos = 3
  MaxFaults = 2
INVARIANTS
  TypeOK
  ReplicaFollows
  AckIsExecuted
PROPERTY
  CatchesUp
