\* A UNIQUE key on the parent table, a cascading foreign key from the child, savepoints.
\* Eight keys of a B-tree of degree 2 make it three levels deep.
SPECIFICATION AllSpec
CONSTANTS
  k1 = k1  k2 = k2  v1 = v1  v2 = v2
  Sessions = {s1, s2}
  Keys = {k1, k2}
  Vals = {v1}
  Parent = P
  Child = C
  Tables = {P, C}
  Ops <- BothOps
  Unique = {P}
  OnDelete = "CASCADE"
  Names = {a, b}
  MaxOps = 2
  MaxRows = 2
  PruneAt = 1
  MaxTxId = 2
  T = 2
  NKeys = 8
  Rows = {1, 2}
  MaxKeys = 8
SYMMETRY Symmetric
INVARIANTS
  TypeOK
  UniqueKeys
  TreeIsBalanced
PROPERTIES
  SavepointKeepsPrefix
  ImplementsOrderedIndex
