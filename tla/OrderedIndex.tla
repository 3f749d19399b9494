---------------------------- MODULE OrderedIndex ----------------------------
(***************************************************************************)
(* What an index promises: for every key the rows inserted under it, in    *)
(* the order in which they were inserted.                                  *)
(***************************************************************************)
EXTENDS Sequences

CONSTANTS Keys, Rows

VARIABLE map    \* key -> rows

vars == <<map>>

TypeOK == map \in [Keys -> Seq(Rows)]

Init == map = [k \in Keys |-> <<>>]

\* The row joins those of its key, and the other keys keep theirs.
Insert(k, r) ==
  /\ map'[k] = Append(map[k], r)
  /\ map' = [map EXCEPT ![k] = map'[k]]
Clear == map' = [k \in Keys |-> <<>>]

Next == Clear \/ \E k \in Keys, r \in Rows : Insert(k, r)

Spec == Init /\ [][Next]_vars
=============================================================================
