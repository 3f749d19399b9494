------------------------------- MODULE Joins -------------------------------
(***************************************************************************)
(* One step of Engine::executeJoins: the rows joined so far, of which only *)
(* the values of the join column matter, with a table.  The result is a    *)
(* sequence of pairs of positions; 0 stands for the NULLs of a side that   *)
(* has no match.                                                           *)
(***************************************************************************)
EXTENDS TableStore

CONSTANTS Lefts,       \* the left sides: sequences of values
          Threshold    \* JoinPlanner::THRESHOLD

Types == {"INNER", "LEFT", "RIGHT", "FULL"}
Methods == {"", "hash", "nested_loop_indexed"}

Pairs(i, js) == [k \in DOMAIN js |-> <<i, js[k]>>]
Flip(ps) == [k \in DOMAIN ps |-> <<ps[k][2], ps[k][1]>>]
\* The positions of v in a sequence of values: what a nested loop or a hash table finds.
At(vs, v) == Ascending({i \in DOMAIN vs : vs[i] = v})
Right == [i \in DOMAIN rows |-> rows[i].val]

\* The rows of outer, each with its matches in inner, or with none if it is to be kept.
Probe(outer, matches, keep) ==
  FlattenSeq([i \in DOMAIN outer |->
    IF matches[outer[i]] # <<>> THEN Pairs(i, matches[outer[i]])
    ELSE IF keep THEN <<<<i, 0>>>> ELSE <<>>])

\* The rows of the table without a match, after the others.
AntiRight(matched) == Pairs(0, Ascending(DOMAIN rows \ matched))

\* The nested loops of executeJoins.
NestedLoop(L, type) ==
  CASE type \in {"INNER", "LEFT"} -> Probe(L, [v \in Vals |-> At(Right, v)], type = "LEFT")
    [] type = "RIGHT" -> Flip(Probe(Right, [v \in Vals |-> At(L, v)], TRUE))
    [] type = "FULL" -> Probe(L, [v \in Vals |-> At(Right, v)], TRUE)
                          \o AntiRight({j \in DOMAIN rows : Right[j] \in Range(L)})

\* The hash table of a side.
HashTable(vs) == [v \in Vals |-> At(vs, v)]

\* HashJoin::execute: RIGHT builds on the left side; FULL remembers what was matched.
HashJoin(L, type) ==
  LET left == Probe(L, HashTable(Right), type # "INNER")
  IN  CASE type \in {"INNER", "LEFT"} -> left
        [] type = "RIGHT" -> Flip(Probe(Right, HashTable(L), TRUE))
        [] type = "FULL" -> left \o AntiRight({left[k][2] : k \in DOMAIN left})

\* The positions sorted by value.  Among equal values std::sort may choose any order.
Sorted(vs) == FlattenSeq([v \in Vals |-> At(vs, v)])

\* Where the run of equal values that begins at place a ends; s lists positions in vs.
RunEnd(vs, s, a) ==
  CHOOSE e \in a + 1 .. Len(s) + 1 :
    /\ \A x \in a .. e - 1 : vs[s[x]] = vs[s[a]]
    /\ e = Len(s) + 1 \/ vs[s[e]] # vs[s[a]]

\* The two-pointer merge from a and b on, where rest is what it finds from later pointers: the
\* smaller value is passed over; equal ones are two runs, of which every row meets every row.
MergeFrom(L, li, ri, rest, a, b) ==
  LET l == L[li[a]]
      r == Right[ri[b]]
      m == RunEnd(L, li, a)
      n == RunEnd(Right, ri, b)
  IN  IF a > Len(li) \/ b > Len(ri) THEN <<>>
      ELSE IF l < r THEN rest[<<a + 1, b>>]
      ELSE IF l > r THEN rest[<<a, b + 1>>]
      ELSE FlattenSeq([k \in 1 .. m - a |-> Pairs(li[a + k - 1], SubSeq(ri, b, n - 1))])
             \o rest[<<m, n>>]

\* MergeJoin::execute.
MergeJoin(L) ==
  LET li == Sorted(L)
      ri == Sorted(Right)
      merge[p \in (1 .. Len(li) + 1) \X (1 .. Len(ri) + 1)] ==
        MergeFrom(L, li, ri, merge, p[1], p[2])
  IN  merge[<<1, 1>>]

\* IndexedNestedLoop::execute: the value of what the index gives is looked at again.
IndexedNestedLoop(L, type) ==
  Probe(L,
        [v \in Vals |-> Picked(index[v], {k \in DOMAIN index[v] : index[v][k] \in Having(v)})],
        type = "LEFT")

\* JoinPlanner::choose.
Choose(l, r, leftIdx, rightIdx) ==
  IF l < Threshold /\ r < Threshold THEN "NESTED_LOOP"
  ELSE IF leftIdx /\ rightIdx THEN "MERGE_JOIN" ELSE "HASH_JOIN"

\* Mutant: the merge join is used for outer joins too.
Execute_MergeAll(L, type, leftIdx, method) ==
  LET strategy == Choose(Len(L), Len(rows), leftIdx, indexed)
  IN  IF strategy = "MERGE_JOIN" THEN MergeJoin(L) ELSE HashJoin(L, type)
\* executeJoins' choice; method is what the cost-based advisor says.
Execute(L, type, leftIdx, method) ==
  LET strategy == IF method = "hash" THEN "HASH_JOIN"
                  ELSE Choose(Len(L), Len(rows), leftIdx, indexed)
  IN  IF method = "nested_loop_indexed" /\ type \in {"INNER", "LEFT"}
      THEN IndexedNestedLoop(L, type)
      ELSE IF strategy = "HASH_JOIN" \/ (strategy = "MERGE_JOIN" /\ type # "INNER")
      THEN HashJoin(L, type)
      ELSE IF strategy = "MERGE_JOIN" THEN MergeJoin(L)
      ELSE NestedLoop(L, type)

\* The advisor speaks of the index only when there is one.
Advice == IF indexed THEN Methods ELSE Methods \ {"nested_loop_indexed"}
-----------------------------------------------------------------------------
\* What a join is, over all rows of the table.
Joined(L, type) ==
  LET pairs == {p \in (DOMAIN L) \X (DOMAIN rows) : L[p[1]] = rows[p[2]].val}
      left  == {<<i, 0>> : i \in {i \in DOMAIN L : \A p \in pairs : p[1] # i}}
      right == {<<0, j>> : j \in {j \in DOMAIN rows : \A p \in pairs : p[2] # j}}
  IN  pairs \cup (IF type \in {"LEFT", "FULL"} THEN left ELSE {})
            \cup (IF type \in {"RIGHT", "FULL"} THEN right ELSE {})

\* Whatever the sizes, the indexes and the advice, a join is the same rows, each once, while
\* the table holds no deleted row.
JoinsAgree ==
  (\A j \in DOMAIN rows : ~rows[j].dead) =>
    \A L \in Lefts, type \in Types, leftIdx \in BOOLEAN, method \in Advice :
      LET result == Execute(L, type, leftIdx, method)
      IN  Range(result) = Joined(L, type) /\ Len(result) = Cardinality(Range(result))

\* docs/internals.html:181, "visible = (xmin <= txid) AND (xmax == 0 OR xmax > txid)": a row
\* that a committed transaction has deleted is not visible; here, not to a join.
DeletedIsNotJoined ==
  \A L \in Lefts, type \in Types, leftIdx \in BOOLEAN, method \in Advice :
    \A p \in Range(Execute(L, type, leftIdx, method)) : p[2] # 0 => ~rows[p[2]].dead
=============================================================================
