----------------------------- MODULE TableStore -----------------------------
(***************************************************************************)
(* A table and an index on one of its columns (class Table of              *)
(* src/engine/engine.hpp): the rows in a vector, dead ones included, and   *)
(* the positions of every value in a B-tree, which is the map that         *)
(* OrderedIndex specifies and BTree implements.  A statement runs under    *)
(* the table's write lock, so it is one action.                            *)
(*                                                                         *)
(* A value is a string.  It is represented by its rank among the strings.  *)
(* Number gives the number that it is, Prefix the one that std::stod reads *)
(* at its beginning: "2024-03-01" is none and begins with 2024.  0 is none.*)
(***************************************************************************)
EXTENDS Naturals, Sequences, SequencesExt, Selections

CONSTANTS Number,    \* rank of a string -> its number or 0
          Prefix,    \* ... -> the number it begins with or 0
          Null,      \* the rank of the string "NULL"
          MaxRows    \* bound: rows, dead ones included

VARIABLES rows,       \* rows_: the column's value, and xmax # 0
          indexed,    \* there is an index on the column
          index       \* its B-tree: value -> positions in rows

vars == <<rows, indexed, index>>

Vals == DOMAIN Number
Row(v) == [val |-> v, dead |-> FALSE]

\* rebuildAll: the index of the rows that are alive.
Rebuilt(rs) ==
  IF indexed THEN [v \in Vals |-> Ascending({i \in DOMAIN rs : rs[i].val = v /\ ~rs[i].dead})]
  ELSE index

\* The rows become rs; a statement that touches one rebuilds the indexes.
Replace(rs, touched) ==
  /\ rows' = rs
  /\ index' = IF touched THEN Rebuilt(rs) ELSE index
  /\ UNCHANGED indexed

\* Positions of the rows that have the value, dead or not.
Having(w) == {i \in DOMAIN rows : rows[i].val = w}
Alive == {i \in DOMAIN rows : ~rows[i].dead}

\* The rows at the positions in S get the value v.
SetVal(S, v) == [i \in DOMAIN rows |-> IF i \in S THEN [rows[i] EXCEPT !.val = v] ELSE rows[i]]
\* ... are stamped with an xmax.
Stamp(S) == [i \in DOMAIN rows |-> IF i \in S THEN [rows[i] EXCEPT !.dead = TRUE] ELSE rows[i]]
\* ... are erased.
Erase(S) == Picked(rows, DOMAIN rows \ S)
-----------------------------------------------------------------------------
Init == rows = <<>> /\ indexed = FALSE /\ index = [v \in Vals |-> <<>>]

\* Table::insert.
Insert(v) ==
  /\ Len(rows) < MaxRows
  /\ rows' = Append(rows, Row(v))
  /\ index' = IF indexed THEN [index EXCEPT ![v] = Append(@, Len(rows'))] ELSE index
  /\ UNCHANGED indexed

\* updateWhere: the dead rows too.
UpdateWhere(w, v) == Replace(SetVal(Having(w), v), Having(w) # {})

\* updateAll.
UpdateAll(v) == Replace(SetVal(DOMAIN rows, v), TRUE)

\* deleteWhere: the dead rows too.
DeleteWhere(w) == Replace(Erase(Having(w)), Having(w) # {})

\* deleteAll.
DeleteAll == Replace(<<>>, TRUE)

\* stampDeleteWhere, when the DELETE is applied by a COMMIT.
StampDeleteWhere(w) == Replace(Stamp(Having(w) \cap Alive), Having(w) \cap Alive # {})

\* stampDeleteAll.
StampDeleteAll == Replace(Stamp(Alive), Alive # {})

\* vacuum: the dead rows below the horizon, here any of them.
Vacuum == \E gone \in SUBSET (DOMAIN rows \ Alive) : Replace(Erase(gone), gone # {})

\* createIndex: of all rows, the dead ones too.
CreateIndex ==
  /\ ~indexed /\ indexed' = TRUE
  /\ index' = [v \in Vals |-> Ascending(Having(v))]
  /\ UNCHANGED rows

\* dropIndex.
DropIndex ==
  /\ indexed /\ indexed' = FALSE
  /\ index' = [v \in Vals |-> <<>>]
  /\ UNCHANGED rows

Next ==
  \/ \E v \in Vals :
       Insert(v) \/ UpdateAll(v) \/ DeleteWhere(v) \/ StampDeleteWhere(v)
         \/ \E w \in Vals : UpdateWhere(w, v)
  \/ DeleteAll \/ StampDeleteAll \/ Vacuum \/ CreateIndex \/ DropIndex

Spec == Init /\ [][Next]_vars
-----------------------------------------------------------------------------
(* SELECT ... WHERE col op val.  BETWEEN has the bounds lo and hi, the other *)
(* operators have lo.                                                        *)

\* Mutant: numbers are compared as strings.
Less_AsText(a, b) == a < b
\* compareValues: strings that are numbers to their ends are compared as such.
Less(a, b) == IF Number[a] # 0 /\ Number[b] # 0 THEN Number[a] < Number[b] ELSE a < b

\* What is compared as numbers if every value begins with one, otherwise as strings.
LessIn(vals, a, b) ==
  IF \A x \in vals : Prefix[x] # 0 THEN Prefix[a] < Prefix[b] ELSE a < b
Between(v, c) ==
  LET vals == {v, c.lo, c.hi} IN ~LessIn(vals, v, c.lo) /\ ~LessIn(vals, c.hi, v)

\* search for "=", and rangeCollect.
Compare(v, c) ==
  CASE c.op = "="  -> v = c.lo
    [] c.op = "<"  -> LessIn({v, c.lo}, v, c.lo)
    [] c.op = ">"  -> LessIn({v, c.lo}, c.lo, v)
    [] c.op = "<=" -> ~LessIn({v, c.lo}, c.lo, v)
    [] c.op = ">=" -> ~LessIn({v, c.lo}, v, c.lo)
    [] c.op = "BETWEEN" -> Between(v, c)

\* evalCond and compareValues: what is compared with NULL does not match.
EvalCond(v, c) ==
  /\ Null \notin {v, c.lo} \cup (IF c.op = "BETWEEN" THEN {c.hi} ELSE {})
  /\ CASE c.op = "="  -> ~Less(v, c.lo) /\ ~Less(c.lo, v)
       [] c.op \in {"<", "<="} -> Less(v, c.lo) \/ (c.op = "<=" /\ ~Less(c.lo, v))
       [] c.op \in {">", ">="} -> Less(c.lo, v) \/ (c.op = ">=" /\ ~Less(v, c.lo))
       [] c.op = "BETWEEN" -> Between(v, c)

\* selectWhere without an index: the positions of the rows, in order.
ScanSelect(c) == Ascending({i \in Alive : EvalCond(rows[i].val, c)})

\* selectWhere with an index: the keys in order, the rows of each that are alive.
IndexSelect(c) ==
  LET found == FlattenSeq([v \in Vals |-> IF Compare(v, c) THEN index[v] ELSE <<>>])
  IN  Picked(found, {k \in DOMAIN found : found[k] \in Alive})

Conds == {[op |-> o, lo |-> a, hi |-> b] :
            o \in {"=", "<", ">", "<=", ">=", "BETWEEN"}, a \in Vals, b \in Vals}
-----------------------------------------------------------------------------
TypeOK ==
  /\ rows \in Seq([val : Vals, dead : BOOLEAN]) /\ Len(rows) <= MaxRows
  /\ indexed \in BOOLEAN
  /\ index \in [Vals -> Seq(1..MaxRows)]

\* What both evaluate alike.  The index finds NULLs, finds for "=" the string and not the
\* number, and takes for the number it begins with what only begins with one, as a date does.
Alike(v, c) ==
  /\ Null \notin {v, c.lo, c.hi}
  /\ c.op = "=" => (Number[v] = Number[c.lo] /\ Number[v] # 0 => v = c.lo)
  /\ c.op \in {"<", ">", "<=", ">="} =>
       (Prefix[v] # 0 /\ Prefix[c.lo] # 0 => Number[v] # 0 /\ Number[c.lo] # 0)

\* However rows were updated in place, deleted, stamped or reclaimed, a SELECT that uses the
\* index and one that scans the table find the same rows, each once, of those whose values
\* the two evaluate alike.
IndexAgreesWithScan ==
  indexed =>
    \A c \in Conds :
      LET Agreed(s) == Picked(s, {k \in DOMAIN s : Alike(rows[s[k]].val, c)})
      IN  /\ Range(Agreed(IndexSelect(c))) = Range(Agreed(ScanSelect(c)))
          /\ Len(Agreed(IndexSelect(c))) = Len(Agreed(ScanSelect(c)))
=============================================================================
