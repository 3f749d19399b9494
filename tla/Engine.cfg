\* PruneAt 2 stands for 10000: pruning happens while older transactions run.  The
\* join threshold of 2 stands for 10.  Three statements on a table of one row, in two transactions.
SPECIFICATION AllSpec
CONSTANTS
  PruneAt = 2
  MaxTxId = 6
  Number <- Strings
  Prefix <- Beginnings
  Lefts <- LeftSides
  Null = 5
  MaxRows = 3
  Threshold = 2
  Sessions = {s1}
  NoSession = NoSession
  Tables <- TwoTables
  Parent <- Inherits
  Queries <- ThreeQueries
  MaxSize = 1
  UserSizes = {1, 2}
  TTL = 1
  Writers = {w1, w2}
  RowKeys = {"a", "b"}
  Loaded <- OneRow
  NVals = 2
  Statements <- EveryKind
  MaxStatements = 3
SYMMETRY Symmetric
INVARIANTS
  AllTypeOK
  CommittedForEver
  
  JoinsAgree
  
  AnswersExpire
  
PROPERTY
  HorizonOnlyAdvances
\* The behaviours of the transaction manager end with its last id.
CHECK_DEADLOCK FALSE
