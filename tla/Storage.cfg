\* The HTTP server with two sessions, and the REPL with one, which saves from two threads;
\* up to three transactions of two operations; logs of two transactions, with ids written in
\* base 2, and short ones that fail or that a restart left; three clients for at most two
\* connections; two paged tables with a cache of two pages, each of two rows, rows that fit
\* no page, and files that may fail in the first three INSERTs.
SPECIFICATION AllSpec
CONSTANTS
  Sessions = {s1, s2}
  NoSession = NoSession
  ReplSession = s1
  BaseLog = BaseLog
  Steps = 2
  MaxTx = 3
  Writers = {repl, writeBehind}
  Chunks = 2
  Inodes = {1, 2, 3, 4, 5}
  MaxVersion = 3
  Ops = {a, b}
  MaxOps = 2
  MaxRecords = 9
  MaxSpoiled = 2
  MaxTxId = 2
  Radix = 2
  Clients = {c1, c2, c3}
  Conns = {1, 2, 3, 4}
  NoConn = 0
  Sizes <- PoolSizes
  Paged = {p1, p2}
  RowSizes = {1, 3}
  Capacity = 2
  MaxPages = 2
  MaxIssued = 5
  MaxFaulty = 3
SYMMETRY Symmetric
INVARIANTS
  AllTypeOK
  AckedIsDurable
  DiskIsAtomic
  UnsavedIsReported
  FileIsWhole
  ReplaysTheCommitted
  CountersAgree
  NoSharing
  NoLostWakeup
  PagedRowsAreKept
