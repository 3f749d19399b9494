SPECIFICATION StoreSpec
CONSTANTS
  PruneAt = 2
  MaxTxId = 6
  Number <- Strings
  Prefix <- Beginnings
  Lefts <- LeftSides
  Null = 5
  MaxRows = 3
  Threshold = 2
  Sessions = {s1, s2}
  NoSession = NoSession
  Tables <- TwoTables
  Parent <- Inherits
  Queries <- ThreeQueries
  MaxSize = 1
  UserSizes = {1, 2}
  TTL = 1
  Writers = {w1, w2}
  RowKeys = {"a", "b"}
  Loaded <- OneRow
  NVals = 2
  Statements <- EveryKind
  MaxStatements = 3
INVARIANT
  DeletedIsNotJoined
