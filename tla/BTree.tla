------------------------------- MODULE BTree -------------------------------
(***************************************************************************)
(* src/engine/btree.hpp: the B-tree behind CREATE INDEX.  A node is a      *)
(* record of its keys, the rows of each key and its children; a leaf has   *)
(* no children.  Keys are numbered in the order of their strings.          *)
(*                                                                         *)
(* Checked by TLC only: the descent is recursive.                          *)
(***************************************************************************)
EXTENDS Naturals, Sequences, SequencesExt, FiniteSets

CONSTANTS T,         \* minimum degree
          NKeys,     \* the keys are 1..NKeys
          Rows,      \* row indices, numbers from 1
          MaxKeys    \* bound: different keys in the tree

VARIABLE root    \* root_

KeyRange == 1..NKeys

Node(ks, rs, cs) == [keys |-> ks, rows |-> rs, kids |-> cs]
Empty == Node(<<>>, <<>>, <<>>)
IsLeaf(n) == n.kids = <<>>
IsFull(n) == Len(n.keys) = 2 * T - 1
\* The entries of n below k, and the one of k or 0.
Below(n, k) == Cardinality({i \in DOMAIN n.keys : n.keys[i] < k})
Find(n, k) == IF k \in Range(n.keys) THEN Below(n, k) + 1 ELSE 0

\* The row joins those of the key.
AddRow(n, i, r) == [n EXCEPT !.rows[i] = Append(@, r)]
Kids(n, i, j) == IF IsLeaf(n) THEN <<>> ELSE SubSeq(n.kids, i, j)
\* A new key at its place in a leaf.
AddKey(n, k, r) ==
  LET i == Below(n, k) + 1
  IN  [n EXCEPT !.keys = InsertAt(@, i, k), !.rows = InsertAt(@, i, <<r>>)]

\* Mutant: the median's rows stay behind and the upper node takes the next ones.
SplitChild_RowsShifted(p, i) ==
  LET y  == p.kids[i]
      lo == Node(SubSeq(y.keys, 1, T - 1), SubSeq(y.rows, 1, T - 1), Kids(y, 1, T))
      hi == Node(SubSeq(y.keys, T + 1, 2 * T - 1), SubSeq(y.rows, T, 2 * T - 2),
                 Kids(y, T + 1, 2 * T))
  IN  [keys |-> InsertAt(p.keys, i, y.keys[T]),
       rows |-> InsertAt(p.rows, i, y.rows[2 * T - 1]),
       kids |-> InsertAt([p.kids EXCEPT ![i] = lo], i + 1, hi)]
\* splitChild: the full child i becomes two, around its median, which moves up.
SplitChild(p, i) ==
  LET y  == p.kids[i]
      lo == Node(SubSeq(y.keys, 1, T - 1), SubSeq(y.rows, 1, T - 1), Kids(y, 1, T))
      hi == Node(SubSeq(y.keys, T + 1, 2 * T - 1), SubSeq(y.rows, T + 1, 2 * T - 1),
                 Kids(y, T + 1, 2 * T))
  IN  [keys |-> InsertAt(p.keys, i, y.keys[T]),
       rows |-> InsertAt(p.rows, i, y.rows[T]),
       kids |-> InsertAt([p.kids EXCEPT ![i] = lo], i + 1, hi)]

RECURSIVE InsertNonFull(_, _, _)

\* Into child i, which is split first when it is full; its median may be the key.
Descend(n, k, r) ==
  LET i == Below(n, k) + 1
      s == IF IsFull(n.kids[i]) THEN SplitChild(n, i) ELSE n
      j == Below(s, k) + 1
  IN  IF Find(s, k) # 0 THEN AddRow(s, Find(s, k), r)
      ELSE [s EXCEPT !.kids[j] = InsertNonFull(@, k, r)]

\* insertNonFull.
InsertNonFull(n, k, r) ==
  IF Find(n, k) # 0 THEN AddRow(n, Find(n, k), r)
  ELSE IF IsLeaf(n) THEN AddKey(n, k, r)
  ELSE Descend(n, k, r)

\* Mutant: the root is split only after it has overflowed.
Inserted_LateSplit(k, r) ==
  IF Len(root.keys) > 2 * T - 1
  THEN InsertNonFull(SplitChild(Node(<<>>, <<>>, <<root>>), 1), k, r)
  ELSE InsertNonFull(root, k, r)
\* insert: a full root becomes the child of a new one.
Inserted(k, r) ==
  InsertNonFull(IF IsFull(root) THEN SplitChild(Node(<<>>, <<>>, <<root>>), 1) ELSE root, k, r)

RECURSIVE SearchNode(_, _)
\* search.
SearchNode(n, k) ==
  IF Find(n, k) # 0 THEN n.rows[Find(n, k)]
  ELSE IF IsLeaf(n) THEN <<>>
  ELSE SearchNode(n.kids[Below(n, k) + 1], k)

RECURSIVE RangeCollect(_, _)
\* rangeSearch: the rows of the keys in match, in order.
RangeCollect(n, match) ==
  LET at(i) == IF n.keys[i] \in match THEN n.rows[i] ELSE <<>>
      kid(i) == IF IsLeaf(n) THEN <<>> ELSE RangeCollect(n.kids[i], match)
  IN  FlattenSeq([i \in DOMAIN n.keys |-> kid(i) \o at(i)]) \o kid(Len(n.keys) + 1)

RECURSIVE CountKeys(_)
\* keyCount.
CountKeys(n) ==
  Len(n.keys) + FoldFunction(LAMBDA c, sum : CountKeys(c) + sum, 0, n.kids)
-----------------------------------------------------------------------------
Search(k) == SearchNode(root, k)

Init == root = Empty

\* The rows of a key come in increasing order, as rebuildAll inserts them.
Insert(k) ==
  /\ Len(Search(k)) < Cardinality(Rows)
  /\ Search(k) = <<>> => CountKeys(root) < MaxKeys
  /\ root' = Inserted(k, Len(Search(k)) + 1)

\* clear.
Clear == root' = Empty

Next == Clear \/ \E k \in KeyRange : Insert(k)

Spec == Init /\ [][Next]_root
-----------------------------------------------------------------------------
RECURSIVE Depths(_)
\* The distances of the leaves below n.
Depths(n) == IF IsLeaf(n) THEN {0} ELSE {d + 1 : d \in UNION {Depths(c) : c \in Range(n.kids)}}

RECURSIVE Nodes(_)
Nodes(n) == {n} \cup UNION {Nodes(c) : c \in Range(n.kids)}

\* The tree stays a B-tree: as deep everywhere, nodes neither too small nor too full, a
\* child on each side of every key, and rows collected in the order of the keys, each once.
TreeIsBalanced ==
  /\ Cardinality(Depths(root)) = 1
  /\ \A n \in Nodes(root) :
       /\ Len(n.rows) = Len(n.keys) /\ Len(n.keys) <= 2 * T - 1
       /\ n # root => Len(n.keys) >= T - 1
       /\ ~IsLeaf(n) => Len(n.kids) = Len(n.keys) + 1
  /\ \A k \in KeyRange :
       RangeCollect(root, k..NKeys) = FlattenSeq([i \in 1..(NKeys - k + 1) |-> Search(k + i - 1)])

\* Whatever the order of the insertions, a search finds the rows of its key, all of them.
Index == INSTANCE OrderedIndex WITH Keys <- KeyRange, map <- [k \in KeyRange |-> Search(k)]
ImplementsOrderedIndex == Index!Spec
=============================================================================
