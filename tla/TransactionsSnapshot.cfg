SPECIFICATION TransactionsSpec
CONSTANTS
  k1 = k1  k2 = k2  v1 = v1  v2 = v2
  Sessions = {s1, s2}
  Keys = {k1, k2}
  Vals = {v1, v2}
  Parent = P
  Child = C
  Tables = {P}
  Ops <- OneTableOps
  Unique = {}
  OnDelete = "NONE"
  Names = {}
  MaxOps = 2
  MaxRows = 2
  PruneAt = 1
  MaxTxId = 2
  T = 2
  NKeys = 8
  Rows = {1, 2}
  MaxKeys = 8
PROPERTY
  RepeatableRead
