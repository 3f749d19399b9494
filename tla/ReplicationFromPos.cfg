\* One replica; nothing breaks or restarts.
SPECIFICATION Spec
CONSTANTS
  Slaves = {r1}
  SyncMode = FALSE
  MaxBatch = 3
  Base = 2
  MaxPos = 3
  MaxFaults = 0
INVARIANT
  FromPosIsApplied
