------------------------- MODULE TransactionsProofs -------------------------
(***************************************************************************)
(* Transactions, for any sessions, tables, statements and savepoints: keys *)
(* stay unique, savepoints keep their prefix, the transaction manager is   *)
(* used as it expects, and sessions see one transaction after the other.   *)
(***************************************************************************)
EXTENDS Transactions, SelectionsProofs

\* Versions with stamps of any size.
Version == [key : Keys, val : Vals, xmin : Nat, xmax : Nat, rekeyed : BOOLEAN]
Database == [Tables -> Seq(Version)]
TxState == [active : BOOLEAN, txBuffer : Seq(Ops), mvccTxId : Nat,
            savepoints : Seq([name : Names, txSize : Nat])]

Shape == tables \in Database /\ tx \in [Sessions -> TxState] /\ globalTxId \in Nat
-----------------------------------------------------------------------------
(* What statements do to the versions of a table *)

\* What UPDATE and DELETE do to a version.
LEMMA ChangedVersion ==
  ASSUME NEW r \in Version, NEW op \in BufferedOp, NEW id \in Nat
  PROVE  /\ Set(r, op) \in Version /\ Set(r, op).xmin = r.xmin /\ Set(r, op).xmax = r.xmax
         /\ Set(r, op).key = (IF op.set = "val" THEN r.key ELSE op.to)
         /\ Set(r, op).val = (IF op.set = "val" THEN op.val ELSE r.val)
         /\ Set(r, op).rekeyed \/ (Set(r, op).key = r.key /\ Set(r, op).rekeyed = r.rekeyed)
         /\ Stamp(r, id) \in Version /\ Stamp(r, id).key = r.key /\ Stamp(r, id).val = r.val
         /\ Stamp(r, id).xmax = (IF r.xmax = 0 THEN id ELSE r.xmax)
         /\ Stamp(r, id).rekeyed = r.rekeyed /\ Stamp(r, id).xmin = r.xmin
<1>1. /\ Set(r, op) \in Version /\ Set(r, op).xmin = r.xmin /\ Set(r, op).xmax = r.xmax
      /\ Set(r, op).key = (IF op.set = "val" THEN r.key ELSE op.to)
      /\ Set(r, op).val = (IF op.set = "val" THEN op.val ELSE r.val)
      /\ Set(r, op).rekeyed \/ (Set(r, op).key = r.key /\ Set(r, op).rekeyed = r.rekeyed)
  <2>1. op.val \in Vals /\ op.to \in Keys
    BY DEF BufferedOp
  <2>2. CASE op.set = "val"
    BY <2>1, <2>2 DEF Set, Version
  <2>3. CASE op.set # "val"
    <3>1. PICK k, v, x, y, z : r = [key |-> k, val |-> v, xmin |-> x, xmax |-> y, rekeyed |-> z]
      BY DEF Version
    <3>2. Set(r, op) = [[r EXCEPT !.key = op.to] EXCEPT !.rekeyed = TRUE]
      BY <2>3 DEF Set
    <3>3. Set(r, op) = [key |-> op.to, val |-> v, xmin |-> x, xmax |-> y, rekeyed |-> TRUE]
      BY <3>1, <3>2
    <3>4. PICK w : w = [key |-> op.to, val |-> v, xmin |-> x, xmax |-> y, rekeyed |-> TRUE]
      OBVIOUS
    <3>5. /\ r.key = k /\ r.val = v /\ r.xmin = x /\ r.xmax = y
          /\ v \in Vals /\ x \in Nat /\ y \in Nat
      BY <3>1 DEF Version
    <3>6. w.key = op.to /\ w.val = v /\ w.xmin = x /\ w.xmax = y /\ w.rekeyed
      BY <3>4
    <3>7. w \in Version
      BY <2>1, <3>4, <3>5 DEF Version
    <3> QED
      BY <2>3, <3>3, <3>4, <3>5, <3>6, <3>7
  <2> QED
    BY <2>2, <2>3
<1>2. CASE Alive(r)
  BY <1>1, <1>2 DEF Stamp, Version, Alive
<1>3. CASE ~Alive(r)
  BY <1>1, <1>3 DEF Stamp, Alive
<1> QED
  BY <1>2, <1>3

\* A statement leaves a table of versions.
LEMMA ApplyOpType ==
  ASSUME NEW rows \in Seq(Version), NEW op \in BufferedOp, NEW id \in Nat
  PROVE  ApplyOp(rows, op, id) \in Seq(Version)
<1>1. CASE op.type = "INSERT"
  <2>1. NewRow(op, id) \in Version
    BY DEF NewRow, Version, BufferedOp
  <2> QED
    BY <1>1, <2>1, AppendProperties DEF ApplyOp
<1>2. CASE op.type \in {"UPDATE_WHERE", "UPDATE_ALL"}
  <2>1. \A i \in DOMAIN rows : Set(rows[i], op) \in Version
    BY ChangedVersion
  <2>2. Update(rows, op) \in Seq(Version)
    BY <2>1 DEF Update
  <2> QED
    BY <1>2, <2>2 DEF ApplyOp
<1>3. CASE op.type \in {"DELETE_WHERE", "DELETE_ALL"}
  <2>1. \A i \in DOMAIN rows : Stamp(rows[i], id) \in Version
    BY ChangedVersion
  <2>2. Delete(rows, op, id) \in Seq(Version)
    <3>1. CASE id = 0
      <4>1. {i \in DOMAIN rows : ~Matches(op, rows[i])} \in SUBSET DOMAIN rows
        OBVIOUS
      <4> QED
        BY <3>1, <4>1, PickedReads DEF Delete
    <3>2. CASE id # 0
      BY <2>1, <3>2 DEF Delete
    <3> QED
      BY <3>1, <3>2
  <2> QED
    BY <1>3, <2>2 DEF ApplyOp
<1> QED
  BY <1>1, <1>2, <1>3 DEF BufferedOp, OpTypes

\* No two versions of a key are alive, unless an UPDATE has set it.
OneAlive(rows) ==
  \A i, j \in DOMAIN rows :
    Alive(rows[i]) /\ Alive(rows[j]) /\ rows[i].key = rows[j].key
      => i = j \/ rows[i].rekeyed \/ rows[j].rekeyed

\* Taking versions out keeps keys unique.
LEMMA PickedOneAlive ==
  ASSUME NEW rows \in Seq(Version), OneAlive(rows), NEW P \in SUBSET DOMAIN rows
  PROVE  OneAlive(Picked(rows, P))
<1> DEFINE p == Ascending(P)
           n == Cardinality(P)
<1>1. n \in Nat /\ DOMAIN Picked(rows, P) = 1 .. n /\ \A i \in 1 .. n : p[i] \in P /\ Picked(rows, P)[i] = rows[p[i]]
  BY PickedReads, PickedShape
<1>2. \A i, j \in 1 .. n : i < j => p[i] < p[j]
  BY PickedReads, AscendingLists
<1>3. P \in SUBSET Nat
  BY PickedReads
<1> HIDE DEF p, n
<1>4. ASSUME NEW i \in 1 .. n, NEW j \in 1 .. n, p[i] = p[j]
      PROVE  i = j
  <2>1. p[i] \in Nat /\ p[j] \in Nat
    BY <1>1, <1>3
  <2>2. ~(i < j) /\ ~(j < i)
    BY <1>2, <1>4, <2>1
  <2> QED
    BY <1>1, <2>2
<1> QED
  BY <1>1, <1>4 DEF OneAlive

\* Changing versions keeps keys unique when none comes alive and a key that changes is marked.
LEMMA ChangedOneAlive ==
  ASSUME NEW rows, OneAlive(rows), NEW new, DOMAIN new = DOMAIN rows,
         \A i \in DOMAIN rows :
           /\ Alive(new[i]) => Alive(rows[i])
           /\ new[i].rekeyed \/ (new[i].key = rows[i].key /\ new[i].rekeyed = rows[i].rekeyed)
  PROVE  OneAlive(new)
BY DEF OneAlive

\* A statement that does not throw keeps the keys of its table unique.
LEMMA ApplyOpOneAlive ==
  ASSUME NEW rows \in Seq(Version), OneAlive(rows), NEW op \in BufferedOp, NEW id \in Nat,
         op.type = "INSERT" => ~\E i \in DOMAIN rows : Alive(rows[i]) /\ rows[i].key = op.key
  PROVE  OneAlive(ApplyOp(rows, op, id))
<1>1. CASE op.type = "INSERT"
  <2> DEFINE r == NewRow(op, id)
             n == Len(rows)
  <2>1. r \in Version /\ r.key = op.key
    BY DEF NewRow, Version, BufferedOp
  <2>2. n \in Nat /\ DOMAIN rows = 1 .. n
    OBVIOUS
  <2> HIDE DEF r, n
  <2>3. /\ Append(rows, r) \in Seq(Version) /\ Len(Append(rows, r)) = n + 1 /\ Append(rows, r)[n + 1] = r
        /\ \A i \in 1 .. n : Append(rows, r)[i] = rows[i]
    BY <2>1, <2>2, AppendProperties DEF n
  <2>4. DOMAIN Append(rows, r) = 1 .. n + 1 /\ \A i \in 1 .. n + 1 : i \in 1 .. n \/ i = n + 1
    BY <2>2, <2>3
  <2>5. OneAlive(Append(rows, r))
    BY <1>1, <2>1, <2>2, <2>3, <2>4 DEF OneAlive
  <2> QED
    BY <1>1, <2>5 DEF ApplyOp, r
<1>2. CASE op.type \in {"UPDATE_WHERE", "UPDATE_ALL"}
  <2>1. \A i \in DOMAIN rows :
          /\ Set(rows[i], op).xmax = rows[i].xmax
          /\ Set(rows[i], op).rekeyed \/ (Set(rows[i], op).key = rows[i].key /\ Set(rows[i], op).rekeyed = rows[i].rekeyed)
    BY ChangedVersion
  <2>2. OneAlive(Update(rows, op))
    BY <2>1, ChangedOneAlive DEF Update, Alive
  <2> QED
    BY <1>2, <2>2 DEF ApplyOp
<1>3. CASE op.type \in {"DELETE_WHERE", "DELETE_ALL"}
  <2>1. \A i \in DOMAIN rows : /\ Stamp(rows[i], id).key = rows[i].key /\ Stamp(rows[i], id).rekeyed = rows[i].rekeyed
                               /\ Alive(Stamp(rows[i], id)) => Alive(rows[i])
    BY DEF Stamp, Alive, Version
  <2>2. CASE id = 0
    <3>1. {i \in DOMAIN rows : ~Matches(op, rows[i])} \in SUBSET DOMAIN rows
      OBVIOUS
    <3> QED
      BY <1>3, <2>2, <3>1, PickedOneAlive DEF ApplyOp, Delete
  <2>3. CASE id # 0
    <3>1. OneAlive(Delete(rows, op, id))
      BY <2>1, <2>3, ChangedOneAlive DEF Delete
    <3> QED
      BY <1>3, <3>1 DEF ApplyOp
  <2> QED
    BY <2>2, <2>3
<1> QED
  BY <1>1, <1>2, <1>3 DEF BufferedOp, OpTypes
-----------------------------------------------------------------------------
(* The loop of applyAndCommit *)

Results == [db : Database, ok : BOOLEAN]

\* The UNIQUE constraints of a database.
Keyed(db) == \A t \in Unique \cap Tables : OneAlive(db[t])

\* One turn of the loop.
LEMMA ApplyNextStep ==
  ASSUME NEW acc \in Results, Keyed(acc.db), NEW op \in BufferedOp, NEW id \in Nat
  PROVE  /\ ApplyNext(acc, op, id) \in Results /\ Keyed(ApplyNext(acc, op, id).db)
         /\ ApplyNext(acc, op, id).ok =>
              acc.ok /\ ApplyNext(acc, op, id).db = [acc.db EXCEPT ![op.tbl] = ApplyOp(@, op, id)]
         /\ acc.ok /\ Unique \cap Tables = {} => ApplyNext(acc, op, id).ok
<1> DEFINE stops == ~acc.ok \/ (op.type = "INSERT" /\ InsertFails(acc.db[op.tbl], op.tbl, op.key))
           new == [acc.db EXCEPT ![op.tbl] = ApplyOp(@, op, id)]
<1>1. op.tbl \in Tables /\ acc.db \in Database /\ acc.ok \in BOOLEAN
  BY DEF BufferedOp, Results
<1>2. ApplyOp(acc.db[op.tbl], op, id) \in Seq(Version)
  BY <1>1, ApplyOpType DEF Database
<1>3. /\ new \in Database /\ new[op.tbl] = ApplyOp(acc.db[op.tbl], op, id)
      /\ \A t \in Tables \ {op.tbl} : new[t] = acc.db[t]
  BY <1>1, <1>2 DEF Database
<1>4. CASE stops
  <2>1. ApplyNext(acc, op, id) = [db |-> acc.db, ok |-> FALSE]
    BY <1>4 DEF ApplyNext
  <2>2. Unique \cap Tables = {} => ~acc.ok
    BY <1>1, <1>4 DEF InsertFails
  <2> QED
    BY <1>1, <2>1, <2>2 DEF Results
<1>5. CASE ~stops
  <2>1. ApplyNext(acc, op, id) = [db |-> new, ok |-> TRUE]
    BY <1>5 DEF ApplyNext
  <2>2. Keyed(new)
    <3>1. ASSUME op.tbl \in Unique
          PROVE  OneAlive(new[op.tbl])
      <4>1. OneAlive(acc.db[op.tbl]) /\ acc.db[op.tbl] \in Seq(Version)
        BY <1>1, <3>1 DEF Keyed, Database
      <4>2. op.type = "INSERT" =>
              ~\E i \in DOMAIN acc.db[op.tbl] : Alive(acc.db[op.tbl][i]) /\ acc.db[op.tbl][i].key = op.key
        BY <1>5, <3>1 DEF InsertFails
      <4> QED
        BY <1>3, <4>1, <4>2, ApplyOpOneAlive
    <3> QED
      BY <1>3, <3>1 DEF Keyed
  <2> QED
    BY <1>3, <1>5, <2>1, <2>2 DEF Results
<1> QED
  BY <1>4, <1>5

\* f holds the states of the loop over the first N statements.
Loop(f, ops, N, id, init) ==
  f = [n \in 0 .. N |-> IF n = 0 THEN init ELSE ApplyNext(f[n - 1], ops[n], id)]

\* The recursive definition of the loop's states has a solution.
LEMMA LoopExists ==
  ASSUME NEW ops, NEW N \in Nat, NEW id, NEW init
  PROVE  \E f : Loop(f, ops, N, id, init)
<1> DEFINE Solves(f, m) == f = [n \in 0 .. m |-> IF n = 0 THEN init ELSE ApplyNext(f[n - 1], ops[n], id)]
           S == {m \in Nat : \E f : Solves(f, m)}
<1>1. 0 \in S
  <2> DEFINE f == [n \in 0 .. 0 |-> init]
  <2>1. Solves(f, 0)
    OBVIOUS
  <2> QED
    BY <2>1
<1>2. ASSUME NEW m \in Nat, m \in S
      PROVE  m + 1 \in S
  <2>1. PICK f : Solves(f, m)
    BY <1>2
  <2> DEFINE g == [n \in 0 .. m + 1 |-> IF n = m + 1 THEN ApplyNext(f[m], ops[m + 1], id) ELSE f[n]]
  <2>2. \A n \in 0 .. m : f[n] = IF n = 0 THEN init ELSE ApplyNext(f[n - 1], ops[n], id)
    BY <2>1
  <2>3. \A n \in 0 .. m : n \in 0 .. m + 1 /\ n # m + 1 /\ g[n] = f[n]
    OBVIOUS
  <2>4. g[m + 1] = ApplyNext(f[m], ops[m + 1], id) /\ m + 1 \in 0 .. m + 1 /\ m \in 0 .. m
    OBVIOUS
  <2>5. \A n \in 0 .. m + 1 : n \in 0 .. m \/ n = m + 1
    OBVIOUS
  <2>6. \A n \in 0 .. m : n # 0 => n - 1 \in 0 .. m
    OBVIOUS
  <2>7. g = [n \in 0 .. m + 1 |-> g[n]]
    OBVIOUS
  <2> HIDE DEF g
  <2>8. ASSUME NEW n \in 0 .. m + 1
        PROVE  g[n] = IF n = 0 THEN init ELSE ApplyNext(g[n - 1], ops[n], id)
    <3>1. CASE n \in 0 .. m
      BY <2>2, <2>3, <2>6, <3>1
    <3>2. CASE n = m + 1
      <4>1. n # 0 /\ n - 1 = m
        BY <3>2
      <4> QED
        BY <2>3, <2>4, <3>2, <4>1
    <3> QED
      BY <2>5, <3>1, <3>2
  <2>9. Solves(g, m + 1)
    BY <2>7, <2>8
  <2> QED
    BY <2>9
<1>3. N \in S
  <2> HIDE DEF S
  <2> QED
    BY <1>1, <1>2, SetInduction
<1> QED
  BY <1>3 DEF Loop

\* applyAndCommit applies the buffer statement by statement.
LEMMA ApplyAllIsLoop ==
  ASSUME NEW s \in Sessions, Shape
  PROVE  \E f : /\ ApplyAll(s) = f[Len(tx[s].txBuffer)]
                /\ f[0] = [db |-> tables, ok |-> TRUE]
                /\ \A n \in 1 .. Len(tx[s].txBuffer) :
                     f[n] = ApplyNext(f[n - 1], tx[s].txBuffer[n], tx[s].mvccTxId)
<1> DEFINE ops == tx[s].txBuffer
           N == Len(ops)
           id == tx[s].mvccTxId
           init == [db |-> tables, ok |-> TRUE]
           f == CHOOSE g : Loop(g, ops, N, id, init)
<1>1. N \in Nat
  BY DEF Shape, TxState
<1>2. ApplyAll(s) = f[N]
  BY DEF ApplyAll, Loop
<1> HIDE DEF ops, N, id, init
<1>3. Loop(f, ops, N, id, init)
  BY <1>1, LoopExists
<1> HIDE DEF f
<1>4. 0 \in 0 .. N /\ \A n \in 1 .. N : n \in 0 .. N /\ n # 0
  BY <1>1
<1>5. f[0] = init /\ \A n \in 1 .. N : f[n] = ApplyNext(f[n - 1], ops[n], id)
  BY <1>3, <1>4 DEF Loop
<1> QED
  BY <1>2, <1>5 DEF ops, N, id, init

\* What applyAndCommit leaves, whether it throws or not: tables with unique keys.
LEMMA ApplyAllResult ==
  ASSUME NEW s \in Sessions, Shape, UniqueKeys
  PROVE  ApplyAll(s) \in Results /\ Keyed(ApplyAll(s).db)
<1> DEFINE N == Len(tx[s].txBuffer)
<1>1. PICK f : /\ ApplyAll(s) = f[N] /\ f[0] = [db |-> tables, ok |-> TRUE]
               /\ \A n \in 1 .. N : f[n] = ApplyNext(f[n - 1], tx[s].txBuffer[n], tx[s].mvccTxId)
  BY ApplyAllIsLoop
<1>2. /\ N \in Nat /\ tx[s].mvccTxId \in Nat /\ tables \in Database
      /\ \A n \in 1 .. N : tx[s].txBuffer[n] \in BufferedOp
  BY StatementsAssumption DEF Shape, TxState
<1> DEFINE S == {n \in Nat : n <= N => f[n] \in Results /\ Keyed(f[n].db)}
<1> HIDE DEF N
<1>3. 0 \in S
  <2>1. f[0] \in Results /\ f[0].db = tables
    BY <1>1, <1>2 DEF Results
  <2> QED
    BY <2>1 DEF UniqueKeys, Keyed, OneAlive
<1>4. ASSUME NEW n \in Nat, n \in S
      PROVE  n + 1 \in S
  <2> SUFFICES ASSUME n + 1 <= N
               PROVE  f[n + 1] \in Results /\ Keyed(f[n + 1].db)
    OBVIOUS
  <2>1. n + 1 \in 1 .. N /\ n + 1 - 1 = n /\ n <= N
    BY <1>2
  <2>2. f[n + 1] = ApplyNext(f[n], tx[s].txBuffer[n + 1], tx[s].mvccTxId)
    BY <1>1, <2>1
  <2>3. f[n] \in Results /\ Keyed(f[n].db) /\ tx[s].txBuffer[n + 1] \in BufferedOp
    BY <1>2, <1>4, <2>1
  <2>4. PICK acc, op, id : acc = f[n] /\ op = tx[s].txBuffer[n + 1] /\ id = tx[s].mvccTxId
    OBVIOUS
  <2>5. acc \in Results /\ Keyed(acc.db) /\ op \in BufferedOp /\ id \in Nat
    BY <1>2, <2>3, <2>4
  <2>6. ApplyNext(acc, op, id) \in Results /\ Keyed(ApplyNext(acc, op, id).db)
    BY <2>5, ApplyNextStep
  <2> QED
    BY <2>2, <2>4, <2>6
<1>5. N \in S
  <2> HIDE DEF S
  <2> QED
    BY <1>2, <1>3, <1>4, SetInduction
<1>6. N <= N
  BY <1>2
<1> QED
  BY <1>1, <1>5, <1>6
-----------------------------------------------------------------------------
(* The buffer of a transaction and its savepoints *)

\* SavepointsNest, of a state of a transaction.
Nested(st) ==
  \A i \in DOMAIN st.savepoints :
    /\ st.savepoints[i].txSize <= Len(st.txBuffer)
    /\ \A j \in 1 .. i : st.savepoints[j].txSize <= st.savepoints[i].txSize

\* SavepointKeepsPrefix, of a step from st to new.
Keeps(st, new) ==
  \A i \in DOMAIN st.savepoints \cap DOMAIN new.savepoints :
    new.savepoints[i] = st.savepoints[i] =>
      SubSeq(new.txBuffer, 1, st.savepoints[i].txSize) = SubSeq(st.txBuffer, 1, st.savepoints[i].txSize)

Tidy(st, new) == new \in TxState /\ Nested(new) /\ Keeps(st, new)

\* The entries of a sequence.
LEMMA Entries ==
  ASSUME NEW V, NEW s \in Seq(V)
  PROVE  \A i \in DOMAIN s : s[i] \in V
OBVIOUS

\* The parts of a transaction's state.
LEMMA TxParts ==
  ASSUME NEW st \in TxState
  PROVE  /\ Len(st.txBuffer) \in Nat /\ Len(st.savepoints) \in Nat
         /\ DOMAIN st.savepoints = 1 .. Len(st.savepoints)
         /\ \A i \in DOMAIN st.savepoints : st.savepoints[i].txSize \in Nat
         /\ \A b \in Seq(Ops) : [st EXCEPT !.txBuffer = b] \in TxState
         /\ \A p \in Seq([name : Names, txSize : Nat]) : [st EXCEPT !.savepoints = p] \in TxState
<1>1. st.txBuffer \in Seq(Ops) /\ st.savepoints \in Seq([name : Names, txSize : Nat])
  BY DEF TxState
<1>2. Len(st.txBuffer) \in Nat /\ Len(st.savepoints) \in Nat /\ DOMAIN st.savepoints = 1 .. Len(st.savepoints)
  BY <1>1
<1>3. \A i \in DOMAIN st.savepoints : st.savepoints[i] \in [name : Names, txSize : Nat]
  BY <1>1, Entries
<1> QED
  BY <1>2, <1>3 DEF TxState

\* The first m entries of a sequence.
LEMMA Prefix ==
  ASSUME NEW V, NEW b \in Seq(V), NEW m \in Nat, m <= Len(b)
  PROVE  SubSeq(b, 1, m) \in Seq(V) /\ Len(SubSeq(b, 1, m)) = m /\ \A i \in 1 .. m : SubSeq(b, 1, m)[i] = b[i]
BY SubSeqProperties

\* The first m entries of two sequences that agree on them.
LEMMA SamePrefix ==
  ASSUME NEW V, NEW b \in Seq(V), NEW c \in Seq(V), NEW m \in Nat, m <= Len(b), m <= Len(c),
         \A i \in 1 .. m : b[i] = c[i]
  PROVE  SubSeq(b, 1, m) = SubSeq(c, 1, m)
<1>1. SubSeq(b, 1, m) = [i \in 1 .. m |-> b[i]] /\ SubSeq(c, 1, m) = [i \in 1 .. m |-> c[i]]
  BY SubSeqProperties
<1> QED
  BY <1>1

\* BEGIN, COMMIT and ROLLBACK leave no savepoint.
LEMMA NoneTidy ==
  ASSUME NEW st, NEW new \in TxState, new.savepoints = <<>>
  PROVE  Tidy(st, new)
<1>1. DOMAIN new.savepoints = {}
  OBVIOUS
<1> QED
  BY <1>1 DEF Tidy, Nested, Keeps

\* A statement is buffered.
LEMMA BufferTidy ==
  ASSUME NEW st \in TxState, Nested(st), NEW op \in Ops
  PROVE  Tidy(st, [st EXCEPT !.txBuffer = Append(@, op)])
<1> DEFINE b == st.txBuffer
           c == Append(b, op)
           new == [st EXCEPT !.txBuffer = c]
<1>1. b \in Seq(Ops) /\ Len(b) \in Nat
  BY DEF TxState
<1>2. c \in Seq(Ops) /\ Len(c) = Len(b) + 1 /\ \A i \in 1 .. Len(b) : c[i] = b[i]
  BY <1>1, AppendProperties
<1>3. new \in TxState /\ new.txBuffer = c /\ new.savepoints = st.savepoints
  BY <1>2, TxParts DEF TxState
<1> HIDE DEF new, c
<1>4. ASSUME NEW i \in DOMAIN st.savepoints
      PROVE  /\ st.savepoints[i].txSize <= Len(c)
             /\ SubSeq(c, 1, st.savepoints[i].txSize) = SubSeq(b, 1, st.savepoints[i].txSize)
  <2> DEFINE m == st.savepoints[i].txSize
  <2>1. m \in Nat /\ m <= Len(b)
    BY TxParts DEF Nested
  <2> HIDE DEF m, b
  <2>2. m <= Len(c) /\ \A j \in 1 .. m : j \in 1 .. Len(b)
    BY <1>1, <1>2, <2>1
  <2>3. SubSeq(c, 1, m) = SubSeq(b, 1, m)
    BY <1>1, <1>2, <2>1, <2>2, SamePrefix
  <2> QED
    BY <2>2, <2>3 DEF m
<1>5. Nested(new)
  BY <1>3, <1>4 DEF Nested
<1>6. Keeps(st, new)
  BY <1>3, <1>4 DEF Keeps
<1> QED
  BY <1>3, <1>5, <1>6 DEF Tidy, new, c

\* The latest savepoints go, and perhaps what was buffered after the first of them.
LEMMA CutTidy ==
  ASSUME NEW st \in TxState, Nested(st), NEW k \in DOMAIN st.savepoints, NEW m \in Nat,
         m = st.savepoints[k].txSize \/ m = Len(st.txBuffer)
  PROVE  Tidy(st, [st EXCEPT !.txBuffer = SubSeq(@, 1, m), !.savepoints = SubSeq(@, 1, k - 1)])
<1> DEFINE b == st.txBuffer
           p == st.savepoints
           c == SubSeq(b, 1, m)
           q == SubSeq(p, 1, k - 1)
           new == [st EXCEPT !.txBuffer = c, !.savepoints = q]
<1>1. /\ b \in Seq(Ops) /\ Len(b) \in Nat /\ p \in Seq([name : Names, txSize : Nat]) /\ Len(p) \in Nat
      /\ k \in 1 .. Len(p) /\ DOMAIN p = 1 .. Len(p) /\ \A i \in 1 .. Len(p) : p[i].txSize \in Nat
  BY TxParts DEF TxState
<1>2. m <= Len(b) /\ \A i \in 1 .. (k - 1) : p[i].txSize <= m
  <2>1. p[k].txSize <= Len(b) /\ \A i \in 1 .. (k - 1) : i \in 1 .. Len(p) /\ i \in 1 .. k
    BY <1>1 DEF Nested
  <2>2. \A i \in 1 .. (k - 1) : p[i].txSize <= p[k].txSize /\ p[i].txSize <= Len(b)
    BY <1>1, <2>1 DEF Nested
  <2> HIDE DEF b, p
  <2> QED
    BY SMTT(40), <1>1, <2>1, <2>2 DEF b, p
<1> HIDE DEF b, p
<1>3. c \in Seq(Ops) /\ Len(c) = m /\ \A i \in 1 .. m : c[i] = b[i]
  BY <1>1, <1>2, SubSeqProperties
<1>4. /\ q \in Seq([name : Names, txSize : Nat]) /\ DOMAIN q = 1 .. (k - 1)
      /\ \A i \in 1 .. (k - 1) : q[i] = p[i] /\ i \in 1 .. Len(p)
  <2>1. k - 1 \in Nat /\ k - 1 <= Len(p)
    BY <1>1
  <2>2. q \in Seq([name : Names, txSize : Nat]) /\ Len(q) = k - 1 /\ \A i \in 1 .. (k - 1) : q[i] = p[i]
    <3>1. PICK Z, n : Z = [name : Names, txSize : Nat] /\ n = k - 1
      OBVIOUS
    <3>2. SubSeq(p, 1, n) \in Seq(Z) /\ Len(SubSeq(p, 1, n)) = n /\ \A i \in 1 .. n : SubSeq(p, 1, n)[i] = p[i]
      BY ZenonT(60), <1>1, <2>1, <3>1, Prefix
    <3> QED
      BY <3>1, <3>2
  <2> QED
    BY <1>1, <2>1, <2>2
<1> HIDE DEF c, q
<1>5. new \in TxState /\ new.txBuffer = c /\ new.savepoints = q
  BY <1>3, <1>4 DEF TxState
<1> HIDE DEF new
<1>6. Nested(new)
  <2>1. \A i \in 1 .. (k - 1) : \A j \in 1 .. i : j \in 1 .. (k - 1)
    BY <1>1
  <2>2. \A i \in 1 .. (k - 1) : \A j \in 1 .. i : p[j].txSize <= p[i].txSize
    BY <1>1, <1>4 DEF Nested, p
  <2> QED
    BY <1>2, <1>3, <1>4, <1>5, <2>1, <2>2 DEF Nested
<1>7. Keeps(st, new)
  <2>1. ASSUME NEW i \in 1 .. (k - 1)
        PROVE  SubSeq(c, 1, p[i].txSize) = SubSeq(b, 1, p[i].txSize)
    <3> DEFINE n == p[i].txSize
    <3>1. n \in Nat /\ n <= m /\ n <= Len(b) /\ \A j \in 1 .. n : j \in 1 .. m
      <4>1. n \in Nat /\ n <= m
        BY <1>1, <1>2, <1>4
      <4> HIDE DEF n
      <4> QED
        BY <1>1, <1>2, <4>1
    <3> HIDE DEF n
    <3>2. SubSeq(c, 1, n) = SubSeq(b, 1, n)
      BY <1>1, <1>3, <3>1, SamePrefix
    <3> QED
      BY <3>2 DEF n
  <2> QED
    BY <1>4, <1>5, <2>1 DEF Keeps, p, b
<1> QED
  BY <1>5, <1>6, <1>7 DEF Tidy, new, c, q, b, p

\* SAVEPOINT: a position at the end of the buffer.
LEMMA MarkTidy ==
  ASSUME NEW st \in TxState, Nested(st), NEW n \in Names
  PROVE  Tidy(st, [st EXCEPT !.savepoints = Append(@, [name |-> n, txSize |-> Len(st.txBuffer)])])
<1> DEFINE b == st.txBuffer
           p == st.savepoints
           k == Len(p)
           e == [name |-> n, txSize |-> Len(b)]
           q == Append(p, e)
           new == [st EXCEPT !.savepoints = q]
<1>1. /\ b \in Seq(Ops) /\ Len(b) \in Nat /\ p \in Seq([name : Names, txSize : Nat]) /\ k \in Nat
      /\ DOMAIN p = 1 .. k /\ \A i \in 1 .. k : p[i].txSize \in Nat
  BY TxParts DEF TxState
<1>2. e \in [name : Names, txSize : Nat] /\ e.txSize = Len(b)
  BY <1>1
<1>3. \A i \in 1 .. k : p[i].txSize <= Len(b) /\ \A j \in 1 .. i : p[j].txSize <= p[i].txSize
  BY <1>1 DEF Nested
<1> HIDE DEF b, p, e, k
<1>4. /\ q \in Seq([name : Names, txSize : Nat]) /\ Len(q) = k + 1 /\ q[k + 1] = e
      /\ \A i \in 1 .. k : q[i] = p[i]
  BY <1>1, <1>2, AppendProperties DEF k
<1>5. DOMAIN q = 1 .. k + 1 /\ \A i \in 1 .. k + 1 : i \in 1 .. k \/ i = k + 1
  BY <1>1, <1>4
<1> HIDE DEF q
<1>6. new \in TxState /\ new.txBuffer = b /\ new.savepoints = q
  BY <1>4, TxParts DEF TxState, b
<1> HIDE DEF new
<1>7. Nested(new)
  <2>1. ASSUME NEW i \in 1 .. k + 1
        PROVE  q[i].txSize <= Len(b) /\ \A j \in 1 .. i : q[j].txSize <= q[i].txSize
    <3>1. CASE i \in 1 .. k
      <4>1. \A j \in 1 .. i : j \in 1 .. k
        BY <1>1, <3>1
      <4> QED
        BY <1>3, <1>4, <3>1, <4>1
    <3>2. CASE i = k + 1
      <4>1. Len(b) <= Len(b) /\ \A j \in 1 .. i : j \in 1 .. k \/ j = k + 1
        BY <1>1, <1>5, <3>2
      <4> QED
        BY <1>2, <1>3, <1>4, <3>2, <4>1
    <3> QED
      BY <1>5, <3>1, <3>2
  <2> QED
    BY <1>5, <1>6, <2>1 DEF Nested
<1>8. Keeps(st, new)
  BY <1>6 DEF Keeps, b
<1> QED
  BY <1>6, <1>7, <1>8 DEF Tidy, new, q, e, p, b
-----------------------------------------------------------------------------
(* The invariant *)

Inv == Shape /\ (\A s \in Sessions : Nested(tx[s])) /\ Keyed(tables)

\* The state of the sessions after a step.
SessionsTidy == tx' \in [Sessions -> TxState] /\ \A s \in Sessions : Nested(tx'[s]) /\ Keeps(tx[s], tx'[s])

\* A step of one session.
LEMMA OneSession ==
  ASSUME Inv, NEW s \in Sessions, NEW st, Tidy(tx[s], st), tx' = [tx EXCEPT ![s] = st]
  PROVE  SessionsTidy
<1>1. tx \in [Sessions -> TxState] /\ \A u \in Sessions : Nested(tx[u])
  BY DEF Inv, Shape
<1>2. st \in TxState /\ Nested(st) /\ Keeps(tx[s], st)
  BY DEF Tidy
<1>3. tx' \in [Sessions -> TxState] /\ tx'[s] = st /\ \A u \in Sessions \ {s} : tx'[u] = tx[u]
  BY <1>1, <1>2
<1>4. \A u \in Sessions : Keeps(tx[u], tx[u])
  BY DEF Keeps
<1> QED
  BY <1>1, <1>2, <1>3, <1>4 DEF SessionsTidy

\* A step of none.
LEMMA NoSession ==
  ASSUME Inv, tx' = tx
  PROVE  SessionsTidy
BY DEF Inv, Shape, SessionsTidy, Keeps

\* The latest savepoint of a name is one of the session's.
LEMMA LatestIsKnown ==
  ASSUME Inv, NEW s \in Sessions, NEW n, Known(s, n)
  PROVE  Latest(s, n) \in DOMAIN tx[s].savepoints
<1> DEFINE k == Len(tx[s].savepoints)
           found == {i \in DOMAIN tx[s].savepoints : tx[s].savepoints[i].name = n}
           T == {i \in Nat : \A j \in found : j <= i}
<1>1. k \in Nat /\ DOMAIN tx[s].savepoints = 1 .. k
  BY TxParts DEF Inv, Shape
<1>2. found \subseteq 1 .. k /\ found # {}
  BY <1>1 DEF Known
<1> HIDE DEF k
<1>3. Latest(s, n) = CHOOSE i \in found : \A j \in found : j <= i
  BY DEF Latest
<1> HIDE DEF found
<1>4. k \in T
  BY <1>1, <1>2
<1>5. PICK m \in T : \A i \in T : m <= i
  <2>1. T \in SUBSET Nat
    OBVIOUS
  <2> HIDE DEF T
  <2> QED
    BY <1>4, <2>1, NatMin
<1>6. m \in found
  <2> SUFFICES ASSUME m \notin found
               PROVE  FALSE
    OBVIOUS
  <2>1. m \in Nat /\ \A j \in found : j <= m /\ j # m /\ j \in Nat /\ j >= 1
    BY <1>1, <1>2
  <2>2. m - 1 \in Nat /\ \A j \in found : j <= m - 1
    <3>1. PICK j \in found : TRUE
      BY <1>2
    <3>2. m - 1 \in Nat
      BY <2>1, <3>1
    <3>3. ASSUME NEW i \in found
          PROVE  i <= m - 1
      BY <2>1
    <3> QED
      BY <3>2, <3>3
  <2>3. m <= m - 1
    BY <1>5, <2>2
  <2> QED
    BY <2>1, <2>3
<1>7. Latest(s, n) \in found
  BY <1>3, <1>5, <1>6
<1> QED
  BY <1>1, <1>2, <1>7

\* The sessions' part of every step.
LEMMA SessionStep ==
  ASSUME Inv, [Next]_vars
  PROVE  SessionsTidy
<1>1. tx \in [Sessions -> TxState] /\ globalTxId \in Nat /\ \A s \in Sessions : Nested(tx[s])
  BY DEF Inv, Shape
<1>2. NoTx \in TxState /\ NoTx.savepoints = <<>>
  BY DEF NoTx, TxState
<1>3. CASE VacuumAll \/ (\E t \in Tables : TruncateTable(t)) \/ UNCHANGED vars
  BY <1>3, NoSession DEF VacuumAll, TruncateTable, vars
<1>4. ASSUME NEW s \in Sessions, BeginTransaction(s)
      PROVE  SessionsTidy
  <2> DEFINE st == [NoTx EXCEPT !.active = TRUE, !.mvccTxId = globalTxId']
  <2>1. globalTxId' \in Nat /\ tx' = [tx EXCEPT ![s] = st]
    BY <1>1, <1>4 DEF BeginTransaction, TM!BeginTx
  <2>2. st \in TxState /\ st.savepoints = <<>>
    BY <1>2, <2>1 DEF NoTx, TxState
  <2> HIDE DEF st
  <2>3. Tidy(tx[s], st)
    BY <2>2, NoneTidy
  <2> QED
    BY <2>1, <2>3, OneSession
<1>5. ASSUME NEW s \in Sessions, ApplyAndCommit(s) \/ RollbackTransaction(s)
      PROVE  SessionsTidy
  <2>1. tx' = [tx EXCEPT ![s] = NoTx]
    BY <1>5 DEF ApplyAndCommit, RollbackTransaction
  <2>2. Tidy(tx[s], NoTx)
    BY <1>2, NoneTidy
  <2> QED
    BY <2>1, <2>2, OneSession
<1>6. ASSUME NEW s \in Sessions, ApplyAndCommitThrows(s)
      PROVE  SessionsTidy
  BY <1>6, NoSession DEF ApplyAndCommitThrows
<1>7. ASSUME NEW s \in Sessions, NEW op \in Ops, BufferOp(s, op)
      PROVE  SessionsTidy
  <2>1. PICK st : st = [tx[s] EXCEPT !.txBuffer = Append(@, op)]
    OBVIOUS
  <2>2. tx' = [tx EXCEPT ![s] = st]
    BY <1>7, <2>1 DEF BufferOp
  <2>3. Tidy(tx[s], st)
    BY <1>1, <2>1, BufferTidy
  <2> QED
    BY <2>2, <2>3, OneSession
<1>8. ASSUME NEW s \in Sessions, NEW op \in Ops, DirectOp(s, op)
      PROVE  SessionsTidy
  BY <1>8, NoSession DEF DirectOp
<1>9. ASSUME NEW s \in Sessions, NEW n \in Names, CreateSavepoint(s, n)
      PROVE  SessionsTidy
  <2>1. PICK st : st = [tx[s] EXCEPT !.savepoints = Append(@, [name |-> n, txSize |-> Len(tx[s].txBuffer)])]
    OBVIOUS
  <2>2. tx' = [tx EXCEPT ![s] = st]
    BY <1>9, <2>1 DEF CreateSavepoint
  <2>3. Tidy(tx[s], st)
    BY <1>1, <2>1, MarkTidy
  <2> QED
    BY <2>2, <2>3, OneSession
<1>10. ASSUME NEW s \in Sessions, NEW n \in Names, RollbackToSavepoint(s, n)
       PROVE  SessionsTidy
  <2>1. PICK k, m : k = Latest(s, n) /\ m = tx[s].savepoints[k].txSize
    OBVIOUS
  <2>2. k \in DOMAIN tx[s].savepoints /\ m \in Nat
    BY <1>1, <1>10, <2>1, LatestIsKnown, TxParts DEF RollbackToSavepoint
  <2>3. PICK st : st = [tx[s] EXCEPT !.txBuffer = SubSeq(@, 1, m), !.savepoints = SubSeq(@, 1, k - 1)]
    OBVIOUS
  <2>4. tx' = [tx EXCEPT ![s] = st]
    BY <1>10, <2>1, <2>3 DEF RollbackToSavepoint
  <2>5. Tidy(tx[s], st)
    BY <1>1, <2>1, <2>2, <2>3, CutTidy
  <2> QED
    BY <2>4, <2>5, OneSession
<1>11. ASSUME NEW s \in Sessions, NEW n \in Names, ReleaseSavepoint(s, n)
       PROVE  SessionsTidy
  <2>1. PICK k, m : k = Latest(s, n) /\ m = Len(tx[s].txBuffer)
    OBVIOUS
  <2>2. k \in DOMAIN tx[s].savepoints /\ m \in Nat
    BY <1>1, <1>11, <2>1, LatestIsKnown, TxParts DEF ReleaseSavepoint
  <2>3. PICK st : st = [tx[s] EXCEPT !.txBuffer = SubSeq(@, 1, m), !.savepoints = SubSeq(@, 1, k - 1)]
    OBVIOUS
  <2>4. SubSeq(tx[s].txBuffer, 1, m) = tx[s].txBuffer
    <3>1. tx[s].txBuffer \in Seq(Ops)
      BY <1>1 DEF TxState
    <3> QED
      BY <2>1, <3>1, SubSeqFull
  <2>5. st = [tx[s] EXCEPT !.savepoints = SubSeq(@, 1, k - 1)]
    BY <1>1, <2>3, <2>4 DEF TxState
  <2>6. tx' = [tx EXCEPT ![s] = st]
    BY <1>11, <2>1, <2>5 DEF ReleaseSavepoint
  <2>7. Tidy(tx[s], st)
    BY <1>1, <2>1, <2>2, <2>3, CutTidy
  <2> QED
    BY <2>6, <2>7, OneSession
<1> QED
  BY <1>3, <1>4, <1>5, <1>6, <1>7, <1>8, <1>9, <1>10, <1>11 DEF Next

\* Versions are taken out of every table.
LEMMA TakenOut ==
  ASSUME NEW db \in Database, Keyed(db), NEW new, DOMAIN new = Tables, new = [t \in Tables |-> new[t]],
         \A t \in Tables : \E P \in SUBSET DOMAIN db[t] : new[t] = Picked(db[t], P)
  PROVE  new \in Database /\ Keyed(new)
<1>1. ASSUME NEW t \in Tables
      PROVE  new[t] \in Seq(Version) /\ (OneAlive(db[t]) => OneAlive(new[t]))
  <2>1. db[t] \in Seq(Version)
    BY DEF Database
  <2>2. PICK P \in SUBSET DOMAIN db[t] : new[t] = Picked(db[t], P)
    OBVIOUS
  <2> QED
    BY <2>1, <2>2, PickedReads, PickedOneAlive
<1> QED
  BY <1>1 DEF Database, Keyed

\* All of a table, and none of it.
LEMMA AllPicked ==
  ASSUME NEW V, NEW s \in Seq(V)
  PROVE  Picked(s, DOMAIN s) = s
<1> DEFINE n == Len(s)
           a == [i \in 1 .. n |-> i]
<1>1. n \in Nat /\ DOMAIN s = 1 .. n /\ 1 .. n \in SUBSET Nat /\ s = [i \in 1 .. n |-> s[i]]
  OBVIOUS
<1>2. /\ a \in [1 .. n -> 1 .. n] /\ \A i \in 1 .. n : a[i] = i
  OBVIOUS
<1> HIDE DEF n, a
<1>3. /\ \A i, j \in 1 .. n : i < j => a[i] < a[j]
      /\ \A x \in 1 .. n : \E i \in 1 .. n : a[i] = x
  BY <1>2
<1>4. Cardinality(1 .. n) = n /\ \A i \in 1 .. n : Ascending(1 .. n)[i] = a[i]
  BY <1>1, <1>2, <1>3, EnumerationIsAscending
<1>5. /\ Picked(s, 1 .. n) = [i \in 1 .. n |-> Picked(s, 1 .. n)[i]]
      /\ \A i \in 1 .. n : Picked(s, 1 .. n)[i] = s[Ascending(1 .. n)[i]]
  <2>1. 1 .. n \in SUBSET DOMAIN s
    BY <1>1
  <2>2. \A i \in 1 .. Cardinality(1 .. n) : Picked(s, 1 .. n)[i] = s[Ascending(1 .. n)[i]]
    BY <2>1, PickedReads
  <2>3. Picked(s, 1 .. n) = [i \in 1 .. Cardinality(1 .. n) |-> Picked(s, 1 .. n)[i]]
    BY <2>1, PickedShape
  <2> QED
    BY <1>4, <2>2, <2>3
<1>6. \A i \in 1 .. n : Picked(s, 1 .. n)[i] = s[i]
  BY <1>2, <1>4, <1>5
<1> QED
  BY <1>1, <1>5, <1>6, SameEntries

\* ON DELETE CASCADE takes rows out of the child table.
LEMMA CascadeTakesOut ==
  ASSUME Inv, NEW op \in Ops
  PROVE  /\ Cascade(op) \in Database /\ Keyed(Cascade(op))
         /\ OnDelete = "NONE" => Cascade(op) = tables
         /\ op.type = "INSERT" => Cascade(op) = tables
<1>1. tables \in Database /\ Keyed(tables)
  BY DEF Inv, Shape
<1>2. CASE Cascade(op) = tables
  BY <1>1, <1>2 DEF Cascade
<1>3. CASE Cascade(op) # tables
  <2> DEFINE P == {i \in DOMAIN tables[Child] : tables[Child][i].key \notin DeletedKeys(op)}
  <2>1. /\ op.type \in {"DELETE_WHERE", "DELETE_ALL"} /\ OnDelete = "CASCADE"
        /\ Cascade(op) = [tables EXCEPT ![Child] = Picked(tables[Child], P)]
    BY <1>3 DEF Cascade
  <2>2. Child \in Tables /\ P \in SUBSET DOMAIN tables[Child]
    BY <2>1, ForeignKeyAssumption
  <2> HIDE DEF P
  <2>3. PICK new : new = Cascade(op)
    OBVIOUS
  <2>4. /\ DOMAIN new = Tables /\ new = [t \in Tables |-> new[t]]
        /\ new[Child] = Picked(tables[Child], P) /\ \A t \in Tables \ {Child} : new[t] = tables[t]
    BY <1>1, <2>1, <2>2, <2>3 DEF Database
  <2>5. \A t \in Tables : \E Q \in SUBSET DOMAIN tables[t] : new[t] = Picked(tables[t], Q)
    <3>1. \A t \in Tables : Picked(tables[t], DOMAIN tables[t]) = tables[t]
      BY <1>1, AllPicked DEF Database
    <3> QED
      BY <2>2, <2>4, <3>1
  <2>6. new \in Database /\ Keyed(new)
    BY <1>1, <2>4, <2>5, TakenOut
  <2> QED
    BY <2>1, <2>3, <2>6
<1> QED
  BY <1>2, <1>3

\* The tables' part of every step.
LEMMA TablesStep ==
  ASSUME Inv, [Next]_vars
  PROVE  tables' \in Database /\ Keyed(tables')
<1>1. tables \in Database /\ Keyed(tables)
  BY DEF Inv, Shape
<1>2. CASE tables' = tables
  BY <1>1, <1>2
<1>3. CASE VacuumAll
  <2>1. tables' = [t \in Tables |-> Picked(tables[t], {i \in DOMAIN tables[t] : ~Reclaimable(tables[t][i])})]
    BY <1>3 DEF VacuumAll
  <2>2. PICK new : new = tables'
    OBVIOUS
  <2>3. DOMAIN new = Tables /\ new = [t \in Tables |-> new[t]]
    BY <2>1, <2>2
  <2>4. \A t \in Tables : \E P \in SUBSET DOMAIN tables[t] : new[t] = Picked(tables[t], P)
    BY <2>1, <2>2
  <2> QED
    BY <1>1, <2>2, <2>3, <2>4, TakenOut
<1>4. ASSUME NEW u \in Tables, TruncateTable(u)
      PROVE  tables' \in Database /\ Keyed(tables')
  <2>1. PICK new : new = tables' /\ new = [tables EXCEPT ![u] = <<>>]
    BY <1>4 DEF TruncateTable
  <2>2. /\ DOMAIN new = Tables /\ new = [t \in Tables |-> new[t]]
        /\ new[u] = <<>> /\ \A t \in Tables \ {u} : new[t] = tables[t]
    BY <1>1, <2>1 DEF Database
  <2>3. \A t \in Tables : Picked(tables[t], DOMAIN tables[t]) = tables[t] /\ Picked(tables[t], {}) = <<>>
    BY <1>1, AllPicked, PickedNowhere DEF Database
  <2>4. \A t \in Tables : \E P \in SUBSET DOMAIN tables[t] : new[t] = Picked(tables[t], P)
    BY <2>2, <2>3
  <2>5. DOMAIN new = Tables /\ new = [t \in Tables |-> new[t]]
    BY <2>2
  <2>6. new \in Database /\ Keyed(new)
    BY <1>1, <2>4, <2>5, TakenOut
  <2> QED
    BY <2>1, <2>6
<1>5. ASSUME NEW s \in Sessions, ApplyAndCommit(s) \/ ApplyAndCommitThrows(s)
      PROVE  tables' \in Database /\ Keyed(tables')
  <2>1. tables' = ApplyAll(s).db
    BY <1>5 DEF ApplyAndCommit, ApplyAndCommitThrows
  <2>2. UniqueKeys
    BY <1>1 DEF Keyed, UniqueKeys, OneAlive
  <2>3. ApplyAll(s) \in Results /\ Keyed(ApplyAll(s).db)
    BY <2>2, ApplyAllResult DEF Inv
  <2> QED
    BY <2>1, <2>3 DEF Results
<1>6. ASSUME NEW s \in Sessions, NEW op \in Ops, BufferOp(s, op)
      PROVE  tables' \in Database /\ Keyed(tables')
  BY <1>6, CascadeTakesOut DEF BufferOp
<1>7. ASSUME NEW s \in Sessions, NEW op \in Ops, DirectOp(s, op)
      PROVE  tables' \in Database /\ Keyed(tables')
  <2>1. PICK db : db = Cascade(op)
    OBVIOUS
  <2>2. /\ db \in Database /\ Keyed(db) /\ op \in BufferedOp /\ op.tbl \in Tables
        /\ tables' = [db EXCEPT ![op.tbl] = ApplyOp(@, op, 0)]
        /\ op.type = "INSERT" => db = tables /\ ~InsertFails(tables[op.tbl], op.tbl, op.key)
    BY <1>7, <2>1, CascadeTakesOut, StatementsAssumption DEF DirectOp, BufferedOp
  <2>3. db[op.tbl] \in Seq(Version) /\ ApplyOp(db[op.tbl], op, 0) \in Seq(Version)
    BY <2>2, ApplyOpType DEF Database
  <2>4. /\ tables' \in Database /\ tables'[op.tbl] = ApplyOp(db[op.tbl], op, 0)
        /\ \A t \in Tables \ {op.tbl} : tables'[t] = db[t]
    BY <2>2, <2>3 DEF Database
  <2>5. ASSUME op.tbl \in Unique
        PROVE  OneAlive(tables'[op.tbl])
    <3>1. op.type = "INSERT" => ~\E i \in DOMAIN db[op.tbl] : Alive(db[op.tbl][i]) /\ db[op.tbl][i].key = op.key
      BY <2>2, <2>5 DEF InsertFails
    <3>2. OneAlive(db[op.tbl])
      BY <2>2, <2>5 DEF Keyed
    <3> QED
      BY <2>2, <2>3, <2>4, <3>1, <3>2, ApplyOpOneAlive
  <2> QED
    BY <2>2, <2>4, <2>5 DEF Keyed
<1>8. ASSUME NEW s \in Sessions
      PROVE  /\ BeginTransaction(s) \/ RollbackTransaction(s) => tables' = tables
             /\ \A n \in Names : CreateSavepoint(s, n) \/ RollbackToSavepoint(s, n) \/ ReleaseSavepoint(s, n)
                  => tables' = tables
  BY DEF BeginTransaction, RollbackTransaction, CreateSavepoint, RollbackToSavepoint, ReleaseSavepoint
<1>9. UNCHANGED vars => tables' = tables
  BY DEF vars
<1> QED
  BY <1>2, <1>3, <1>4, <1>5, <1>6, <1>7, <1>8, <1>9 DEF Next

\* The ids only grow.
LEMMA IdsStep ==
  ASSUME globalTxId \in Nat, [Next]_vars
  PROVE  globalTxId' \in Nat
<1>1. CASE UNCHANGED globalTxId
  BY <1>1
<1>2. ASSUME NEW s \in Sessions
      PROVE  /\ BeginTransaction(s) => globalTxId' \in Nat
             /\ ApplyAndCommit(s) \/ RollbackTransaction(s) => UNCHANGED globalTxId
             /\ ApplyAndCommitThrows(s) => UNCHANGED globalTxId
  BY DEF BeginTransaction, ApplyAndCommit, ApplyAndCommitThrows, RollbackTransaction, mgr,
         TM!BeginTx, TM!CommitTx, TM!RollbackTx
<1>3. ASSUME NEW s \in Sessions, NEW op \in Ops, BufferOp(s, op) \/ DirectOp(s, op)
      PROVE  UNCHANGED globalTxId
  BY <1>3 DEF BufferOp, DirectOp, mgr
<1>4. ASSUME NEW s \in Sessions, NEW n \in Names,
             CreateSavepoint(s, n) \/ RollbackToSavepoint(s, n) \/ ReleaseSavepoint(s, n)
      PROVE  UNCHANGED globalTxId
  BY <1>4 DEF CreateSavepoint, RollbackToSavepoint, ReleaseSavepoint, mgr
<1>5. CASE VacuumAll \/ (\E t \in Tables : TruncateTable(t)) \/ UNCHANGED vars
  BY <1>5 DEF VacuumAll, TruncateTable, vars, mgr
<1> QED
  BY <1>1, <1>2, <1>3, <1>4, <1>5 DEF Next

\* The invariant holds at first ...
LEMMA InvInit == Init => Inv
<1> SUFFICES ASSUME Init
             PROVE  Inv
  OBVIOUS
<1>1. tables \in Database /\ Keyed(tables)
  BY DEF Init, Database, Keyed, OneAlive
<1>2. NoTx \in TxState /\ NoTx.savepoints = <<>>
  BY DEF NoTx, TxState
<1>3. tx \in [Sessions -> TxState] /\ \A s \in Sessions : tx[s] = NoTx
  BY <1>2 DEF Init
<1>4. Tidy(NoTx, NoTx)
  BY <1>2, NoneTidy
<1>5. globalTxId \in Nat
  BY DEF Init, TM!Init
<1> QED
  BY <1>1, <1>3, <1>4, <1>5 DEF Inv, Shape, Tidy

\* ... and after every step.
LEMMA InvStep == Inv /\ [Next]_vars => Inv'
<1> SUFFICES ASSUME Inv, [Next]_vars
             PROVE  Inv'
  OBVIOUS
<1>1. SessionsTidy
  BY SessionStep
<1>2. tables' \in Database /\ Keyed(tables')
  BY TablesStep
<1>3. globalTxId' \in Nat
  BY IdsStep DEF Inv, Shape
<1> QED
  BY <1>1, <1>2, <1>3 DEF Inv, Shape, SessionsTidy

\* A table with a UNIQUE key has a key twice only where an UPDATE has set it, however many
\* transactions have buffered an INSERT of it, and also when a COMMIT stops in the middle of
\* its buffer (Table::insert, applyOp).
THEOREM KeysStayUnique == Spec => []UniqueKeys
<1>1. Inv => UniqueKeys
  BY DEF Inv, Keyed, UniqueKeys, OneAlive
<1> QED
  BY <1>1, InvInit, InvStep, PTL DEF Spec

\* What was buffered before a savepoint stays as it was for as long as it stands.
THEOREM SavepointsKeepTheirPrefix == Spec => SavepointKeepsPrefix
<1>1. Inv /\ [Next]_vars => SessionsTidy
  BY SessionStep
<1>2. SessionsTidy =>
        \A s \in Sessions : \A i \in DOMAIN tx[s].savepoints \cap DOMAIN tx'[s].savepoints :
          LET n == tx[s].savepoints[i].txSize
          IN  tx'[s].savepoints[i] = tx[s].savepoints[i] =>
                SubSeq(tx'[s].txBuffer, 1, n) = SubSeq(tx[s].txBuffer, 1, n)
  BY DEF SessionsTidy, Keeps
<1> QED
  BY <1>1, <1>2, InvInit, InvStep, PTL DEF Spec, SavepointKeepsPrefix
-----------------------------------------------------------------------------
(* The transaction manager *)

\* The ids of open transactions: one for each session, and no others are active.
Ids ==
  /\ \A id \in activeTxs : \E s \in Sessions : tx[s].active /\ tx[s].mvccTxId = id
  /\ \A s \in Sessions :
       tx[s].active => tx[s].mvccTxId \in activeTxs /\ tx[s].mvccTxId <= globalTxId /\ tx[s].mvccTxId # 0
  /\ \A s, u \in Sessions : tx[s].active /\ tx[u].active /\ tx[s].mvccTxId = tx[u].mvccTxId => s = u

\* A step that neither opens nor ends a transaction.
LEMMA SameIds ==
  ASSUME Inv, Ids, UNCHANGED mgr,
         \A s \in Sessions : tx'[s].active = tx[s].active /\ tx'[s].mvccTxId = tx[s].mvccTxId
  PROVE  Ids' /\ UNCHANGED TM!vars
BY DEF Ids, mgr, TM!vars

\* The end of a transaction.
LEMMA EndedIds ==
  ASSUME Inv, Ids, NEW s \in Sessions, tx[s].active, tx' = [tx EXCEPT ![s] = NoTx],
         activeTxs' = activeTxs \ {tx[s].mvccTxId}, globalTxId' = globalTxId
  PROVE  Ids'
<1>1. tx'[s] = NoTx /\ ~tx'[s].active /\ \A u \in Sessions \ {s} : tx'[u] = tx[u]
  BY DEF Inv, Shape, NoTx
<1> QED
  BY <1>1 DEF Ids

\* Every step of the engine is one of the transaction manager, called as it expects, or
\* does not touch it.
LEMMA ManagerStep ==
  ASSUME Inv, Ids, [Next]_vars
  PROVE  Ids' /\ [TM!Next]_(TM!vars)
<1>1. tx \in [Sessions -> TxState] /\ globalTxId \in Nat
  BY DEF Inv, Shape
<1>2. CASE UNCHANGED mgr /\ UNCHANGED tx
  BY <1>2, SameIds
<1>3. ASSUME NEW s \in Sessions, BeginTransaction(s)
      PROVE  Ids' /\ TM!Next
  <2>1. /\ globalTxId' = globalTxId + 1 /\ activeTxs' = activeTxs \cup {globalTxId + 1} /\ TM!BeginTx
        /\ ~tx[s].active
    BY <1>3 DEF BeginTransaction, TM!BeginTx
  <2>2. tx'[s].active /\ tx'[s].mvccTxId = globalTxId + 1 /\ \A u \in Sessions \ {s} : tx'[u] = tx[u]
    <3>1. PICK st : st = [NoTx EXCEPT !.active = TRUE, !.mvccTxId = globalTxId']
      OBVIOUS
    <3>2. tx' = [tx EXCEPT ![s] = st]
      BY <1>3, <3>1 DEF BeginTransaction
    <3>3. st.active /\ st.mvccTxId = globalTxId + 1
      BY <2>1, <3>1 DEF NoTx
    <3> QED
      BY <1>1, <3>2, <3>3
  <2>3. \A u \in Sessions : tx[u].active => tx[u].mvccTxId \in Nat /\ tx[u].mvccTxId <= globalTxId
    BY <1>1 DEF Ids, TxState
  <2>4. \A n \in Nat : n <= globalTxId => n # globalTxId + 1 /\ n <= globalTxId + 1
    BY <1>1
  <2>5. globalTxId + 1 <= globalTxId + 1 /\ globalTxId + 1 # 0
    BY <1>1
  <2>6. \A u \in Sessions : tx'[u].active => /\ tx'[u].mvccTxId \in activeTxs' /\ tx'[u].mvccTxId <= globalTxId'
                                             /\ tx'[u].mvccTxId # 0
    BY <2>1, <2>2, <2>3, <2>4, <2>5 DEF Ids
  <2>7. \A id \in activeTxs' : \E u \in Sessions : tx'[u].active /\ tx'[u].mvccTxId = id
    BY <2>1, <2>2 DEF Ids
  <2>8. \A v, u \in Sessions : tx'[v].active /\ tx'[u].active /\ tx'[v].mvccTxId = tx'[u].mvccTxId => v = u
    BY <2>2, <2>3, <2>4 DEF Ids
  <2> QED
    BY <2>1, <2>6, <2>7, <2>8 DEF Ids, TM!Next
<1>4. ASSUME NEW s \in Sessions, ApplyAndCommit(s)
      PROVE  Ids' /\ TM!Next
  <2>1. tx[s].active /\ TM!CommitTx(tx[s].mvccTxId) /\ tx' = [tx EXCEPT ![s] = NoTx]
    BY <1>4 DEF ApplyAndCommit
  <2>2. activeTxs' = activeTxs \ {tx[s].mvccTxId} /\ globalTxId' = globalTxId
    BY <2>1 DEF TM!CommitTx
  <2>3. tx[s].mvccTxId \in activeTxs
    BY <2>1 DEF Ids
  <2> QED
    BY <2>1, <2>2, <2>3, EndedIds DEF TM!Next
<1>5. ASSUME NEW s \in Sessions, RollbackTransaction(s)
      PROVE  Ids' /\ TM!Next
  <2>1. tx[s].active /\ TM!RollbackTx(tx[s].mvccTxId) /\ tx' = [tx EXCEPT ![s] = NoTx]
    BY <1>5 DEF RollbackTransaction
  <2>2. activeTxs' = activeTxs \ {tx[s].mvccTxId} /\ globalTxId' = globalTxId
    BY <2>1 DEF TM!RollbackTx
  <2>3. tx[s].mvccTxId \in activeTxs
    BY <2>1 DEF Ids
  <2> QED
    BY <2>1, <2>2, <2>3, EndedIds DEF TM!Next
<1>6. ASSUME NEW s \in Sessions, NEW b, NEW p, UNCHANGED mgr,
             tx' = [tx EXCEPT ![s] = [tx[s] EXCEPT !.txBuffer = b, !.savepoints = p]]
      PROVE  Ids' /\ UNCHANGED TM!vars
  <2>1. /\ tx'[s].active = tx[s].active /\ tx'[s].mvccTxId = tx[s].mvccTxId
        /\ \A u \in Sessions \ {s} : tx'[u] = tx[u]
    BY <1>1, <1>6 DEF TxState
  <2>2. \A u \in Sessions : tx'[u].active = tx[u].active /\ tx'[u].mvccTxId = tx[u].mvccTxId
    BY <2>1
  <2> QED
    BY <1>6, <2>2, SameIds
<1>7. ASSUME NEW s \in Sessions, NEW op \in Ops, BufferOp(s, op)
      PROVE  Ids' /\ UNCHANGED TM!vars
  <2>1. /\ UNCHANGED mgr
        /\ tx' = [tx EXCEPT ![s] = [tx[s] EXCEPT !.txBuffer = Append(tx[s].txBuffer, op), !.savepoints = tx[s].savepoints]]
    BY <1>1, <1>7 DEF BufferOp, TxState
  <2> QED
    BY <1>6, <2>1
<1>8. ASSUME NEW s \in Sessions, NEW n \in Names,
             CreateSavepoint(s, n) \/ RollbackToSavepoint(s, n) \/ ReleaseSavepoint(s, n)
      PROVE  Ids' /\ UNCHANGED TM!vars
  <2>1. UNCHANGED mgr
    BY <1>8 DEF CreateSavepoint, RollbackToSavepoint, ReleaseSavepoint
  <2>2. \E b, p : tx' = [tx EXCEPT ![s] = [tx[s] EXCEPT !.txBuffer = b, !.savepoints = p]]
    <3>1. CASE CreateSavepoint(s, n)
      <4>1. tx' = [tx EXCEPT ![s] = [tx[s] EXCEPT !.txBuffer = tx[s].txBuffer,
                     !.savepoints = Append(tx[s].savepoints, [name |-> n, txSize |-> Len(tx[s].txBuffer)])]]
        BY <1>1, <3>1 DEF CreateSavepoint, TxState
      <4> QED
        BY <4>1
    <3>2. CASE RollbackToSavepoint(s, n)
      BY <3>2 DEF RollbackToSavepoint
    <3>3. CASE ReleaseSavepoint(s, n)
      <4>1. tx' = [tx EXCEPT ![s] = [tx[s] EXCEPT !.txBuffer = tx[s].txBuffer,
                     !.savepoints = SubSeq(tx[s].savepoints, 1, Latest(s, n) - 1)]]
        BY <1>1, <3>3 DEF ReleaseSavepoint, TxState
      <4> QED
        BY <4>1
    <3> QED
      BY <1>8, <3>1, <3>2, <3>3
  <2> QED
    BY <1>6, <2>1, <2>2
<1>9. ASSUME NEW s \in Sessions, NEW op \in Ops, DirectOp(s, op)
      PROVE  UNCHANGED mgr /\ UNCHANGED tx
  BY <1>9 DEF DirectOp
<1>10. ASSUME NEW s \in Sessions, ApplyAndCommitThrows(s)
       PROVE  UNCHANGED mgr /\ UNCHANGED tx
  BY <1>10 DEF ApplyAndCommitThrows
<1>11. CASE VacuumAll \/ (\E t \in Tables : TruncateTable(t)) \/ UNCHANGED vars
  BY <1>2, <1>11 DEF VacuumAll, TruncateTable, vars
<1> QED
  BY <1>2, <1>3, <1>4, <1>5, <1>7, <1>8, <1>9, <1>10, <1>11 DEF Next

\* The engine calls beginTx, commitTx and rollbackTx as TransactionManager assumes: it only
\* ever ends a transaction that is active.  What is proved there holds of the engine.
THEOREM EngineUsesTheManager == Spec => TM!Spec
<1>1. Init => TM!Init /\ Ids
  BY DEF Init, TM!Init, Ids, NoTx
<1>2. Inv /\ Ids /\ [Next]_vars => Ids' /\ [TM!Next]_(TM!vars)
  BY ManagerStep
<1> QED
  BY <1>1, <1>2, InvInit, InvStep, PTL DEF Spec, TM!Spec
-----------------------------------------------------------------------------
(* What a SELECT sees of a statement *)

\* SelectWhere is a selection of the versions, without their stamps.
Image(s) == [i \in DOMAIN s |-> [key |-> s[i].key, val |-> s[i].val]]
Live(rows) == {i \in DOMAIN rows : Alive(rows[i])}
Visible == [key : Keys, val : Vals]

\* The rows of a table are those of its versions that are alive.
LEMMA ViewIs ==
  ASSUME NEW rows \in Seq(Version)
  PROVE  View(rows) = Image(Picked(rows, Live(rows)))
BY DEF View, Image, Live

\* Rows without their stamps.
LEMMA ImageShape ==
  ASSUME NEW s \in Seq(Version)
  PROVE  /\ Image(s) \in Seq(Visible) /\ Len(Image(s)) = Len(s) /\ DOMAIN Image(s) = DOMAIN s
         /\ \A i \in DOMAIN s : Image(s)[i] = [key |-> s[i].key, val |-> s[i].val]
<1>1. \A i \in DOMAIN s : s[i] \in Version
  BY Entries
<1>2. \A i \in DOMAIN s : [key |-> s[i].key, val |-> s[i].val] \in Visible
  BY <1>1 DEF Version, Visible
<1> QED
  BY <1>2 DEF Image

\* Picking and removing the stamps commute.
LEMMA PickedImage ==
  ASSUME NEW s \in Seq(Version), NEW P \in SUBSET DOMAIN s
  PROVE  Picked(Image(s), P) = Image(Picked(s, P))
<1> DEFINE n == Cardinality(P)
           p == Ascending(P)
<1>1. /\ n \in Nat /\ DOMAIN Picked(s, P) = 1 .. n /\ Picked(s, P) \in Seq(Version)
      /\ \A i \in 1 .. n : p[i] \in P /\ Picked(s, P)[i] = s[p[i]]
  BY PickedReads, PickedShape
<1>2. Image(s) \in Seq(Visible) /\ P \in SUBSET DOMAIN Image(s)
  BY ImageShape
<1>3. /\ Picked(Image(s), P) = [i \in 1 .. n |-> Picked(Image(s), P)[i]]
      /\ \A i \in 1 .. n : Picked(Image(s), P)[i] = Image(s)[p[i]]
  BY <1>2, PickedReads, PickedShape
<1>4. /\ Image(Picked(s, P)) = [i \in 1 .. n |-> Image(Picked(s, P))[i]]
      /\ \A i \in 1 .. n : Image(Picked(s, P))[i] = [key |-> s[p[i]].key, val |-> s[p[i]].val]
  BY <1>1 DEF Image
<1>5. \A i \in 1 .. n : Picked(Image(s), P)[i] = Image(Picked(s, P))[i]
  BY <1>1, <1>3, <1>4, ImageShape
<1> HIDE DEF n
<1> QED
  BY <1>3, <1>4, <1>5, SameEntries

\* Versions that differ in their stamps only are the same rows.
LEMMA SameImage ==
  ASSUME NEW s \in Seq(Version), NEW t \in Seq(Version), DOMAIN t = DOMAIN s, NEW P \in SUBSET DOMAIN s,
         \A i \in P : s[i].key = t[i].key /\ s[i].val = t[i].val
  PROVE  Image(Picked(s, P)) = Image(Picked(t, P))
<1> DEFINE n == Cardinality(P)
           p == Ascending(P)
<1>1. /\ n \in Nat /\ DOMAIN Picked(s, P) = 1 .. n
      /\ \A i \in 1 .. n : p[i] \in P /\ Picked(s, P)[i] = s[p[i]]
  BY PickedReads, PickedShape
<1>2. /\ DOMAIN Picked(t, P) = 1 .. n /\ \A i \in 1 .. n : Picked(t, P)[i] = t[p[i]]
  BY PickedReads, PickedShape
<1> HIDE DEF n, p
<1> QED
  BY <1>1, <1>2 DEF Image

\* What is left visible when versions are taken out.
LEMMA PickedView ==
  ASSUME NEW rows \in Seq(Version), NEW P \in SUBSET DOMAIN rows
  PROVE  View(Picked(rows, P)) = Image(Picked(rows, P \cap Live(rows)))
<1>1. /\ Picked(rows, P) \in Seq(Version)
      /\ \A i \in DOMAIN Picked(rows, P) : Ascending(P)[i] \in P /\ Picked(rows, P)[i] = rows[Ascending(P)[i]]
  BY PickedReads, PickedShape
<1> DEFINE T == P \cap Live(rows)
           Q == {j \in DOMAIN Picked(rows, P) : Ascending(P)[j] \in T}
<1>2. Live(Picked(rows, P)) = Q
  BY <1>1 DEF Live
<1>3. T \in SUBSET P
  OBVIOUS
<1>4. Picked(Picked(rows, P), Q) = Picked(rows, T)
  <2> HIDE DEF T
  <2> QED
    BY <1>3, PickedTwice
<1> QED
  BY <1>1, <1>2, <1>4, ViewIs

\* VACUUM is invisible: it takes out dead versions.
LEMMA VacuumView ==
  ASSUME NEW rows \in Seq(Version), NEW P \in SUBSET DOMAIN rows, Live(rows) \subseteq P
  PROVE  View(Picked(rows, P)) = View(rows)
<1>1. P \cap Live(rows) = Live(rows)
  OBVIOUS
<1> QED
  BY <1>1, PickedView, ViewIs

\* The selections of SerialStore are those of this module.
LEMMA SamePicked ==
  ASSUME NEW s, NEW P
  PROVE  Store!Picked(s, P) = Picked(s, P)
<1>1. \A S : Store!Cardinality(S) = Cardinality(S)
  BY DEF Store!Cardinality, Cardinality
<1>2. \A S, i : Store!Nth(S, i) = Nth(S, i)
  BY <1>1 DEF Store!Nth, Nth
<1> QED
  BY <1>1, <1>2 DEF Store!Picked, Picked

\* INSERT adds a row at the end.
LEMMA InsertView ==
  ASSUME NEW rows \in Seq(Version), NEW op \in BufferedOp, NEW id \in Nat
  PROVE  View(Append(rows, NewRow(op, id))) = Append(View(rows), [key |-> op.key, val |-> op.val])
<1> DEFINE r == NewRow(op, id)
           new == Append(rows, r)
           n == Len(rows)
<1>1. r \in Version /\ Alive(r) /\ r.key = op.key /\ r.val = op.val
  BY DEF NewRow, Version, BufferedOp, Alive
<1> HIDE DEF r
<1>2. /\ new \in Seq(Version) /\ n \in Nat /\ DOMAIN rows = 1 .. n /\ DOMAIN new = 1 .. n + 1
      /\ new[n + 1] = r /\ \A i \in 1 .. n : new[i] = rows[i]
  BY <1>1, AppendProperties
<1> HIDE DEF new
<1>3. Live(new) = Live(rows) \cup {n + 1} /\ Live(rows) \in SUBSET DOMAIN rows
  <2>1. \A i : i \in 1 .. n + 1 <=> i \in 1 .. n \/ i = n + 1
    BY <1>2
  <2> QED
    BY <1>1, <1>2, <2>1 DEF Live
<1>4. Picked(new, Live(new)) = Append(Picked(rows, Live(rows)), r)
  BY <1>1, <1>3, PickedAppend DEF new
<1>5. PICK s \in Seq(Version) : s = Picked(rows, Live(rows))
  BY <1>3, PickedReads
<1>6. Image(Append(s, r)) = Append(Image(s), [key |-> op.key, val |-> op.val])
  <2> DEFINE m == Len(s)
             t == Append(s, r)
             e == [key |-> op.key, val |-> op.val]
             u == Append(Image(s), e)
  <2>1. /\ t \in Seq(Version) /\ m \in Nat /\ Len(t) = m + 1 /\ t[m + 1] = r /\ \A i \in 1 .. m : t[i] = s[i]
    BY <1>1, AppendProperties
  <2>2. /\ Image(t) \in Seq(Visible) /\ Len(Image(t)) = m + 1 /\ DOMAIN t = 1 .. m + 1
        /\ \A i \in 1 .. m + 1 : Image(t)[i] = [key |-> t[i].key, val |-> t[i].val]
    <3>1. DOMAIN t = 1 .. m + 1
      BY <2>1
    <3> HIDE DEF t, m
    <3> QED
      BY <2>1, <3>1, ImageShape
  <2>3. e \in Visible
    BY DEF BufferedOp, Visible
  <2>4. /\ Image(s) \in Seq(Visible) /\ Len(Image(s)) = m
        /\ \A i \in 1 .. m : Image(s)[i] = [key |-> s[i].key, val |-> s[i].val]
    BY ImageShape
  <2> HIDE DEF e
  <2>5. u \in Seq(Visible) /\ Len(u) = m + 1 /\ u[m + 1] = e /\ \A i \in 1 .. m : u[i] = Image(s)[i]
    BY <2>3, <2>4, AppendProperties
  <2> HIDE DEF m, t, u
  <2>6. \A i \in 1 .. m + 1 : i \in 1 .. m \/ i = m + 1
    BY <2>1
  <2>7. \A i \in 1 .. m + 1 : Image(t)[i] = u[i]
    <3>1. ASSUME NEW i \in 1 .. m
          PROVE  Image(t)[i] = u[i]
      <4>1. i \in 1 .. m + 1
        BY <2>1
      <4> QED
        BY <2>1, <2>2, <2>4, <2>5, <4>1
    <3>2. Image(t)[m + 1] = u[m + 1]
      <4>1. m + 1 \in 1 .. m + 1
        BY <2>1
      <4> QED
        BY <1>1, <2>1, <2>2, <2>5, <4>1 DEF e
    <3> QED
      BY <2>6, <3>1, <3>2
  <2>8. Image(t) = [i \in 1 .. m + 1 |-> Image(t)[i]] /\ u = [i \in 1 .. m + 1 |-> u[i]]
    BY <2>2, <2>5
  <2>9. Image(t) = u
    BY <2>7, <2>8, SameEntries
  <2> QED
    BY <2>9 DEF t, u, e
<1> QED
  BY <1>2, <1>4, <1>5, <1>6, ViewIs DEF new, r

\* The rows of a table, one by one.
LEMMA ViewRows ==
  ASSUME NEW rows \in Seq(Version)
  PROVE  /\ View(rows) \in Seq(Visible) /\ Cardinality(Live(rows)) \in Nat
         /\ DOMAIN View(rows) = 1 .. Cardinality(Live(rows))
         /\ \A i \in 1 .. Cardinality(Live(rows)) :
              /\ Ascending(Live(rows))[i] \in Live(rows)
              /\ View(rows)[i] = [key |-> rows[Ascending(Live(rows))[i]].key,
                                  val |-> rows[Ascending(Live(rows))[i]].val]
<1>1. Live(rows) \in SUBSET DOMAIN rows
  BY DEF Live
<1>2. PICK P : P = Live(rows)
  OBVIOUS
<1>3. /\ Cardinality(P) \in Nat /\ DOMAIN Picked(rows, P) = 1 .. Cardinality(P) /\ Picked(rows, P) \in Seq(Version)
      /\ \A i \in 1 .. Cardinality(P) : Ascending(P)[i] \in P /\ Picked(rows, P)[i] = rows[Ascending(P)[i]]
  BY <1>1, <1>2, PickedReads, PickedShape
<1> QED
  BY <1>2, <1>3, ViewIs, ImageShape

\* UPDATE sets a column of the rows it selects.
LEMMA UpdateView ==
  ASSUME NEW rows \in Seq(Version), NEW op \in BufferedOp
  PROVE  View(Update(rows, op)) =
           [i \in DOMAIN View(rows) |-> IF Matches(op, View(rows)[i]) THEN Store!Set(View(rows)[i], op)
                                                                      ELSE View(rows)[i]]
<1> DEFINE new == Update(rows, op)
           P == Live(rows)
           n == Cardinality(P)
           p == Ascending(P)
           v == View(rows)
<1>1. \A i \in DOMAIN rows : rows[i] \in Version /\ Set(rows[i], op) \in Version
  BY Entries, ChangedVersion
<1>2. /\ new \in Seq(Version) /\ DOMAIN new = DOMAIN rows
      /\ \A i \in DOMAIN rows : new[i] = IF Matches(op, rows[i]) THEN Set(rows[i], op) ELSE rows[i]
  BY <1>1 DEF Update
<1>3. \A i \in DOMAIN rows :
        /\ new[i].xmax = rows[i].xmax
        /\ ~Matches(op, rows[i]) => new[i] = rows[i]
        /\ Matches(op, rows[i]) => /\ new[i].key = (IF op.set = "val" THEN rows[i].key ELSE op.to)
                                  /\ new[i].val = (IF op.set = "val" THEN op.val ELSE rows[i].val)
  <2> SUFFICES ASSUME NEW i \in DOMAIN rows
               PROVE  /\ new[i].xmax = rows[i].xmax
                      /\ ~Matches(op, rows[i]) => new[i] = rows[i]
                      /\ Matches(op, rows[i]) => /\ new[i].key = (IF op.set = "val" THEN rows[i].key ELSE op.to)
                                                /\ new[i].val = (IF op.set = "val" THEN op.val ELSE rows[i].val)
    OBVIOUS
  <2>1. PICK r : r = rows[i]
    OBVIOUS
  <2>2. r \in Version /\ 0 \in Nat
    BY <1>1, <2>1
  <2>3. /\ Set(r, op).xmax = r.xmax
        /\ Set(r, op).key = (IF op.set = "val" THEN r.key ELSE op.to)
        /\ Set(r, op).val = (IF op.set = "val" THEN op.val ELSE r.val)
    BY <2>2, ChangedVersion
  <2>4. new[i] = IF Matches(op, r) THEN Set(r, op) ELSE r
    BY <1>2, <2>1
  <2> HIDE DEF new
  <2> QED
    BY <2>1, <2>3, <2>4
<1>4. Live(new) = P /\ P \in SUBSET DOMAIN rows
  BY <1>2, <1>3 DEF Live, Alive
<1>5. /\ n \in Nat /\ DOMAIN v = 1 .. n
      /\ \A i \in 1 .. n : p[i] \in P /\ v[i] = [key |-> rows[p[i]].key, val |-> rows[p[i]].val]
  BY ViewRows
<1>6. /\ DOMAIN View(new) = 1 .. n /\ View(new) \in Seq(Visible)
      /\ \A i \in 1 .. n : View(new)[i] = [key |-> new[p[i]].key, val |-> new[p[i]].val]
  BY <1>2, <1>4, ViewRows
<1> HIDE DEF new, n, p, P, v
<1>7. ASSUME NEW i \in 1 .. n
      PROVE  View(new)[i] = IF Matches(op, v[i]) THEN Store!Set(v[i], op) ELSE v[i]
  <2>1. p[i] \in DOMAIN rows
    BY <1>4, <1>5
  <2>2. Matches(op, v[i]) <=> Matches(op, rows[p[i]])
    BY <1>5 DEF Matches
  <2>3. Store!Set(v[i], op) = [key |-> IF op.set = "val" THEN rows[p[i]].key ELSE op.to,
                               val |-> IF op.set = "val" THEN op.val ELSE rows[p[i]].val]
    BY <1>5 DEF Store!Set
  <2> QED
    BY <1>3, <1>5, <1>6, <2>1, <2>2, <2>3
<1>8. View(new) = [i \in 1 .. n |-> View(new)[i]]
  BY <1>6
<1>9. View(new) = [i \in 1 .. n |-> IF Matches(op, v[i]) THEN Store!Set(v[i], op) ELSE v[i]]
  BY <1>7, <1>8
<1> QED
  BY <1>5, <1>9 DEF new, v

\* The rows that a DELETE selects, by removing them or by stamping them.
Selects(op, row, id) == IF id = 0 THEN Matches(op, row) ELSE Stamps(op, row)

\* DELETE, by removing or by stamping, leaves the rows it does not select.
LEMMA DeleteView ==
  ASSUME NEW rows \in Seq(Version), NEW op \in BufferedOp, NEW id \in Nat
  PROVE  View(Delete(rows, op, id)) = Picked(View(rows), {i \in DOMAIN View(rows) : ~Selects(op, View(rows)[i], id)})
<1> DEFINE K == {i \in DOMAIN rows : ~Selects(op, rows[i], id)}
           P == Live(rows)
           T == K \cap P
           s == Picked(rows, P)
           v == View(rows)
           Q == {i \in DOMAIN v : ~Selects(op, v[i], id)}
<1>1. View(Delete(rows, op, id)) = Image(Picked(rows, T))
  <2>1. CASE id = 0
    <3>1. K \in SUBSET DOMAIN rows
      OBVIOUS
    <3>2. Delete(rows, op, id) = Picked(rows, K)
      BY <2>1 DEF Delete, Selects
    <3> HIDE DEF K
    <3> QED
      BY <3>1, <3>2, PickedView
  <2>2. CASE id # 0
    <3> DEFINE new == Delete(rows, op, id)
    <3>1. \A i \in DOMAIN rows : rows[i] \in Version /\ Stamp(rows[i], id) \in Version
      BY Entries, ChangedVersion
    <3>2. /\ new \in Seq(Version) /\ DOMAIN new = DOMAIN rows
          /\ \A i \in DOMAIN rows : new[i] = IF Selects(op, rows[i], id) THEN Stamp(rows[i], id) ELSE rows[i]
      BY <2>2, <3>1 DEF Delete, Selects
    <3>3. \A i \in DOMAIN rows : Stamp(rows[i], id).xmax # 0
      <4>1. \A i \in DOMAIN rows : Stamp(rows[i], id).xmax = IF rows[i].xmax = 0 THEN id ELSE rows[i].xmax
        BY <3>1, ChangedVersion
      <4> QED
        BY <2>2, <4>1
    <3> HIDE DEF new
    <3>4. Live(new) = T
      BY <3>2, <3>3 DEF Live, Alive
    <3>5. T \in SUBSET DOMAIN rows /\ \A i \in T : new[i] = rows[i]
      BY <3>2
    <3>6. Image(Picked(new, T)) = Image(Picked(rows, T))
      <4> HIDE DEF T
      <4> QED
        BY <3>2, <3>5, SameImage
    <3> QED
      BY <3>2, <3>4, <3>6, ViewIs DEF new
  <2> QED
    BY <2>1, <2>2
<1>2. P \in SUBSET DOMAIN rows /\ T \in SUBSET P
  BY DEF Live
<1>3. /\ s \in Seq(Version) /\ v = Image(s) /\ DOMAIN v = DOMAIN s
      /\ \A i \in DOMAIN s : /\ Ascending(P)[i] \in P /\ s[i] = rows[Ascending(P)[i]]
                             /\ v[i] = [key |-> s[i].key, val |-> s[i].val]
  BY <1>2, PickedReads, PickedShape, ViewIs, ImageShape
<1>4. Q = {j \in DOMAIN s : Ascending(P)[j] \in T} /\ Q \in SUBSET DOMAIN s
  <2>1. \A i \in DOMAIN s : Selects(op, v[i], id) <=> Selects(op, rows[Ascending(P)[i]], id)
    BY <1>3 DEF Matches, Stamps, Selects
  <2> QED
    BY <1>2, <1>3, <2>1
<1>5. Picked(s, Q) = Picked(rows, T)
  <2> HIDE DEF P, T, Q
  <2> QED
    BY <1>2, <1>4, PickedTwice
<1>6. Picked(v, Q) = Image(Picked(s, Q))
  <2> HIDE DEF s, v, Q
  <2> QED
    BY <1>3, <1>4, PickedImage
<1> QED
  BY <1>1, <1>5, <1>6

\* The effect of a statement on its table, outside a transaction and at COMMIT.
Outcome(rows, op, id) == IF id = 0 THEN Store!Effect(rows, op) ELSE Store!EffectAtCommit(rows, op)

\* A statement has the effect on what is visible that SerialStore says.
LEMMA StatementView ==
  ASSUME NEW rows \in Seq(Version), NEW op \in BufferedOp, NEW id \in Nat
  PROVE  View(ApplyOp(rows, op, id)) = Outcome(View(rows), op, id)
<1> DEFINE v == View(rows)
           Q == {i \in DOMAIN v : ~Selects(op, v[i], id)}
           E == Outcome(v, op, id)
<1> USE DEF Outcome, Store!EffectAtCommit
<1>1. CASE op.type = "INSERT"
  BY <1>1, InsertView DEF ApplyOp, Store!Effect
<1>2. CASE op.type = "UPDATE_WHERE"
  BY <1>2, UpdateView DEF ApplyOp, Store!Effect, Matches
<1>3. CASE op.type = "UPDATE_ALL"
  BY <1>3, UpdateView DEF ApplyOp, Store!Effect, Matches
<1>4. CASE op.type \in {"DELETE_WHERE", "DELETE_ALL"}
  <2>1. View(ApplyOp(rows, op, id)) = Picked(v, Q)
    BY <1>4, DeleteView DEF ApplyOp
  <2>2. CASE op.type = "DELETE_WHERE"
    <3>1. CASE id # 0 /\ op.quoted
      <4>1. Q = DOMAIN v /\ E = v
        BY <2>2, <3>1 DEF Stamps, Selects
      <4>2. v \in Seq(Visible)
        BY ViewRows
      <4> QED
        BY <2>1, <4>1, <4>2, AllPicked
    <3>2. CASE ~(id # 0 /\ op.quoted)
      <4>1. Q = {i \in DOMAIN v : v[i].key # op.key}
        BY <2>2, <3>2 DEF Matches, Stamps, Selects
      <4>2. E = Store!Picked(v, {i \in DOMAIN v : v[i].key # op.key})
        BY <2>2, <3>2 DEF Store!Effect
      <4> QED
        BY <2>1, <4>1, <4>2, SamePicked
    <3> QED
      BY <3>1, <3>2
  <2>3. CASE op.type = "DELETE_ALL"
    <3>1. Q = {}
      BY <2>3 DEF Matches, Stamps, Selects
    <3>2. E = <<>>
      BY <2>3 DEF Store!Effect
    <3> QED
      BY <2>1, <3>1, <3>2, PickedNowhere
  <2> QED
    BY <1>4, <2>2, <2>3
<1> QED
  BY <1>1, <1>2, <1>3, <1>4 DEF BufferedOp, OpTypes

\* The contents of a database.
Views(db) == [t \in Tables |-> View(db[t])]

\* A statement on a database.
LEMMA RunView ==
  ASSUME NEW db \in Database, NEW op \in BufferedOp, NEW id \in Nat
  PROVE  Views([db EXCEPT ![op.tbl] = ApplyOp(@, op, id)]) = IF id = 0 THEN Store!Run(Views(db), op) ELSE Store!RunAtCommit(Views(db), op)
<1>1. op.tbl \in Tables /\ db[op.tbl] \in Seq(Version) /\ DOMAIN db = Tables
  BY DEF BufferedOp, Database
<1>2. PICK new : new = [db EXCEPT ![op.tbl] = ApplyOp(@, op, id)]
  OBVIOUS
<1>3. new[op.tbl] = ApplyOp(db[op.tbl], op, id) /\ \A t \in Tables \ {op.tbl} : new[t] = db[t]
  BY <1>1, <1>2
<1>4. View(new[op.tbl]) = Outcome(View(db[op.tbl]), op, id)
  BY <1>1, <1>3, StatementView
<1>5. (IF id = 0 THEN Store!Run(Views(db), op) ELSE Store!RunAtCommit(Views(db), op)) =
        [t \in Tables |-> IF t = op.tbl THEN Outcome(View(db[op.tbl]), op, id) ELSE View(db[t])]
  BY <1>1 DEF Store!Run, Store!RunAtCommit, Views, Outcome
<1>6. Views(new) = [t \in Tables |-> IF t = op.tbl THEN Outcome(View(db[op.tbl]), op, id) ELSE View(db[t])]
  BY <1>3, <1>4 DEF Views
<1> QED
  BY <1>2, <1>5, <1>6

\* f holds the contents after each of the first N statements.
Serial(f, ops, N, init) == f = [n \in 0 .. N |-> IF n = 0 THEN init ELSE Store!RunAtCommit(f[n - 1], ops[n])]

\* The recursive definition of RunAll has a solution.
LEMMA SerialExists ==
  ASSUME NEW ops, NEW N \in Nat, NEW init
  PROVE  \E f : Serial(f, ops, N, init)
<1> DEFINE Solves(f, m) == f = [n \in 0 .. m |-> IF n = 0 THEN init ELSE Store!RunAtCommit(f[n - 1], ops[n])]
           S == {m \in Nat : \E f : Solves(f, m)}
<1>1. 0 \in S
  <2> DEFINE f == [n \in 0 .. 0 |-> init]
  <2>1. Solves(f, 0)
    OBVIOUS
  <2> QED
    BY <2>1
<1>2. ASSUME NEW m \in Nat, m \in S
      PROVE  m + 1 \in S
  <2>1. PICK f : Solves(f, m)
    BY <1>2
  <2> DEFINE g == [n \in 0 .. m + 1 |-> IF n = m + 1 THEN Store!RunAtCommit(f[m], ops[m + 1]) ELSE f[n]]
  <2>2. \A n \in 0 .. m : f[n] = IF n = 0 THEN init ELSE Store!RunAtCommit(f[n - 1], ops[n])
    BY <2>1
  <2>3. \A n \in 0 .. m : n \in 0 .. m + 1 /\ n # m + 1 /\ g[n] = f[n]
    OBVIOUS
  <2>4. g[m + 1] = Store!RunAtCommit(f[m], ops[m + 1]) /\ m + 1 \in 0 .. m + 1 /\ m \in 0 .. m
    OBVIOUS
  <2>5. \A n \in 0 .. m + 1 : n \in 0 .. m \/ n = m + 1
    OBVIOUS
  <2>6. \A n \in 0 .. m : n # 0 => n - 1 \in 0 .. m
    OBVIOUS
  <2>7. g = [n \in 0 .. m + 1 |-> g[n]]
    OBVIOUS
  <2> HIDE DEF g
  <2>8. ASSUME NEW n \in 0 .. m + 1
        PROVE  g[n] = IF n = 0 THEN init ELSE Store!RunAtCommit(g[n - 1], ops[n])
    <3>1. CASE n \in 0 .. m
      BY <2>2, <2>3, <2>6, <3>1
    <3>2. CASE n = m + 1
      <4>1. n # 0 /\ n - 1 = m
        BY <3>2
      <4> QED
        BY <2>3, <2>4, <3>2, <4>1
    <3> QED
      BY <2>5, <3>1, <3>2
  <2>9. Solves(g, m + 1)
    BY <2>7, <2>8
  <2> QED
    BY <2>9
<1>3. N \in S
  <2> HIDE DEF S
  <2> QED
    BY <1>1, <1>2, SetInduction
<1> QED
  BY <1>3 DEF Serial

\* SerialStore runs a transaction statement by statement.
LEMMA RunAllIsSerial ==
  ASSUME NEW db, NEW ops, Len(ops) \in Nat
  PROVE  \E f : /\ Store!RunAll(db, ops) = f[Len(ops)] /\ f[0] = db
                /\ \A n \in 1 .. Len(ops) : f[n] = Store!RunAtCommit(f[n - 1], ops[n])
<1> DEFINE N == Len(ops)
           f == CHOOSE g : Serial(g, ops, N, db)
<1>1. Store!RunAll(db, ops) = f[N]
  BY DEF Store!RunAll, Serial
<1>2. N \in Nat
  OBVIOUS
<1> HIDE DEF N
<1>3. Serial(f, ops, N, db)
  BY <1>2, SerialExists
<1> HIDE DEF f
<1>4. 0 \in 0 .. N /\ \A n \in 1 .. N : n \in 0 .. N /\ n # 0
  BY <1>2
<1>5. f[0] = db /\ \A n \in 1 .. N : f[n] = Store!RunAtCommit(f[n - 1], ops[n])
  BY <1>3, <1>4 DEF Serial
<1> QED
  BY <1>1, <1>5 DEF N

\* A COMMIT that cannot throw applies the buffer as SerialStore does.
LEMMA CommitView ==
  ASSUME Inv, NEW s \in Sessions, tx[s].mvccTxId # 0, Unique \cap Tables = {}
  PROVE  ApplyAll(s).ok /\ Views(ApplyAll(s).db) = Store!RunAll(Views(tables), tx[s].txBuffer)
<1> DEFINE N == Len(tx[s].txBuffer)
<1>1. PICK f : /\ ApplyAll(s) = f[N] /\ f[0] = [db |-> tables, ok |-> TRUE]
               /\ \A n \in 1 .. N : f[n] = ApplyNext(f[n - 1], tx[s].txBuffer[n], tx[s].mvccTxId)
  BY ApplyAllIsLoop DEF Inv
<1>2. /\ N \in Nat /\ tx[s].mvccTxId \in Nat /\ tables \in Database
      /\ \A n \in 1 .. N : tx[s].txBuffer[n] \in BufferedOp
  BY StatementsAssumption DEF Inv, Shape, TxState
<1>3. PICK g : /\ Store!RunAll(Views(tables), tx[s].txBuffer) = g[N] /\ g[0] = Views(tables)
               /\ \A n \in 1 .. N : g[n] = Store!RunAtCommit(g[n - 1], tx[s].txBuffer[n])
  <2>1. PICK db, ops : db = Views(tables) /\ ops = tx[s].txBuffer
    OBVIOUS
  <2>2. Len(ops) \in Nat
    BY <1>2, <2>1
  <2>3. PICK h : /\ Store!RunAll(db, ops) = h[Len(ops)] /\ h[0] = db
                 /\ \A n \in 1 .. Len(ops) : h[n] = Store!RunAtCommit(h[n - 1], ops[n])
    BY <2>2, RunAllIsSerial
  <2> QED
    BY <2>1, <2>3
<1> DEFINE S == {n \in Nat : n <= N => f[n] \in Results /\ f[n].ok /\ Views(f[n].db) = g[n]}
<1> HIDE DEF N
<1>4. 0 \in S
  <2>1. f[0] \in Results
    BY <1>1, <1>2 DEF Results
  <2>2. f[0].ok /\ f[0].db = tables
    BY <1>1
  <2>3. Views(f[0].db) = g[0]
    BY <1>3, <2>2
  <2> QED
    BY <2>1, <2>2, <2>3
<1>5. ASSUME NEW n \in Nat, n \in S
      PROVE  n + 1 \in S
  <2> SUFFICES ASSUME n + 1 <= N
               PROVE  f[n + 1] \in Results /\ f[n + 1].ok /\ Views(f[n + 1].db) = g[n + 1]
    OBVIOUS
  <2>1. n + 1 \in 1 .. N /\ n + 1 - 1 = n /\ n <= N
    BY <1>2
  <2>2. PICK acc, op, id : acc = f[n] /\ op = tx[s].txBuffer[n + 1] /\ id = tx[s].mvccTxId
    OBVIOUS
  <2>3. acc \in Results /\ acc.ok /\ Views(acc.db) = g[n] /\ op \in BufferedOp /\ id \in Nat /\ id # 0
    BY <1>2, <1>5, <2>1, <2>2
  <2>4. f[n + 1] = ApplyNext(acc, op, id) /\ g[n + 1] = Store!RunAtCommit(g[n], op)
    BY <1>1, <1>3, <2>1, <2>2
  <2>5. Keyed(acc.db) /\ acc.db \in Database
    BY <2>3 DEF Keyed, Results
  <2>6. /\ ApplyNext(acc, op, id) \in Results /\ ApplyNext(acc, op, id).ok
        /\ ApplyNext(acc, op, id).db = [acc.db EXCEPT ![op.tbl] = ApplyOp(@, op, id)]
    BY <2>3, <2>5, ApplyNextStep
  <2>7. Views([acc.db EXCEPT ![op.tbl] = ApplyOp(@, op, id)]) = Store!RunAtCommit(Views(acc.db), op)
    BY <2>3, <2>5, RunView
  <2> QED
    BY <2>3, <2>4, <2>6, <2>7
<1>6. N \in S
  <2> HIDE DEF S
  <2> QED
    BY <1>2, <1>4, <1>5, SetInduction
<1>7. N <= N
  BY <1>2
<1> QED
  BY <1>1, <1>3, <1>6, <1>7
-----------------------------------------------------------------------------
(* The engine as a serial store *)

Opened(st) == {s \in Sessions : st[s].active}
Buffers(st) == [s \in Sessions |-> st[s].txBuffer]

\* How the transaction state of one session changes what SerialStore sees.
LEMMA SessionChange ==
  ASSUME NEW st \in [Sessions -> TxState], NEW s \in Sessions, NEW x \in TxState,
         NEW new, new = [st EXCEPT ![s] = x]
  PROVE  /\ Opened(new) = IF x.active THEN Opened(st) \cup {s} ELSE Opened(st) \ {s}
         /\ Buffers(new) = [Buffers(st) EXCEPT ![s] = x.txBuffer]
<1>1. new[s] = x /\ \A r \in Sessions \ {s} : new[r] = st[r]
  OBVIOUS
<1>2. Opened(new) = IF x.active THEN Opened(st) \cup {s} ELSE Opened(st) \ {s}
  BY <1>1 DEF Opened
<1>3. Buffers(new) = [Buffers(st) EXCEPT ![s] = x.txBuffer]
  BY <1>1 DEF Buffers
<1> QED
  BY <1>2, <1>3

\* What SELECT shows is Views(tables), before and after a step.
LEMMA StoreReads ==
  /\ [t \in Tables |-> SelectWhere(t)] = Views(tables)
  /\ [t \in Tables |-> SelectWhere(t)]' = Views(tables')
  /\ {s \in Sessions : tx[s].active} = Opened(tx)
  /\ {s \in Sessions : tx[s].active}' = Opened(tx')
  /\ [s \in Sessions |-> tx[s].txBuffer] = Buffers(tx)
  /\ [s \in Sessions |-> tx[s].txBuffer]' = Buffers(tx')
BY DEF SelectWhere, Views, Opened, Buffers

\* VACUUM removes versions no SELECT shows.
LEMMA VacuumStutters ==
  ASSUME Inv, VacuumAll
  PROVE  Views(tables') = Views(tables) /\ tx' = tx
<1>1. tables \in Database /\ tx' = tx
  BY DEF Inv, Shape, VacuumAll
<1>2. ASSUME NEW t \in Tables
      PROVE  View(tables'[t]) = View(tables[t])
  <2>1. PICK rows, P : rows = tables[t] /\ P = {i \in DOMAIN rows : ~Reclaimable(rows[i])}
    OBVIOUS
  <2>2. rows \in Seq(Version) /\ P \in SUBSET DOMAIN rows
    BY <1>1, <2>1 DEF Database
  <2>3. Live(rows) \subseteq P
    BY <2>1 DEF Live, Alive, Reclaimable
  <2>4. tables'[t] = Picked(rows, P)
    BY <2>1 DEF VacuumAll
  <2> QED
    BY <2>1, <2>2, <2>3, <2>4, VacuumView
<1> QED
  BY <1>1, <1>2 DEF Views

\* An empty table shows nothing.
LEMMA EmptyView == View(<<>>) = <<>>
<1>1. <<>> \in Seq(Version) /\ {} \in SUBSET DOMAIN <<>> /\ Live(<<>>) = {}
  BY DEF Live
<1>2. Picked(<<>>, {}) = <<>>
  BY <1>1, PickedNowhere
<1>3. Image(<<>>) = <<>>
  BY DEF Image
<1> QED
  BY <1>1, <1>2, <1>3, ViewIs

\* TRUNCATE empties what SELECT shows of its table.
LEMMA TruncateIsAStep ==
  ASSUME Inv, NEW t \in Tables, TruncateTable(t)
  PROVE  Views(tables') = [Views(tables) EXCEPT ![t] = <<>>] /\ tx' = tx
<1>1. tables \in Database /\ tx' = tx /\ tables' = [tables EXCEPT ![t] = <<>>]
  BY DEF Inv, Shape, TruncateTable
<1>2. View(<<>>) = <<>>
  BY EmptyView
<1>3. tables'[t] = <<>> /\ \A u \in Tables \ {t} : tables'[u] = tables[u]
  BY <1>1 DEF Database
<1>4. View(tables'[t]) = <<>> /\ \A u \in Tables \ {t} : View(tables'[u]) = View(tables[u])
  BY <1>2, <1>3
<1>5. PICK before, after : before = Views(tables) /\ after = Views(tables')
  OBVIOUS
<1>6. /\ before = [u \in Tables |-> before[u]] /\ after = [u \in Tables |-> after[u]]
      /\ after[t] = <<>> /\ \A u \in Tables \ {t} : after[u] = before[u]
  BY <1>4, <1>5 DEF Views
<1>7. after = [before EXCEPT ![t] = <<>>]
  BY <1>6
<1> QED
  BY <1>1, <1>5, <1>7

\* COMMIT runs the whole buffer, and never throws without UNIQUE columns.
LEMMA CommitIsAStep ==
  ASSUME Inv, Ids, NEW s \in Sessions, Unique \cap Tables = {}, ApplyAndCommit(s) \/ ApplyAndCommitThrows(s)
  PROVE  /\ Views(tables') = Store!RunAll(Views(tables), tx[s].txBuffer)
         /\ tx[s].active /\ tx' = [tx EXCEPT ![s] = NoTx]
<1>1. ApplyAll(s).ok /\ Views(ApplyAll(s).db) = Store!RunAll(Views(tables), tx[s].txBuffer)
  BY CommitView DEF Ids, ApplyAndCommit, ApplyAndCommitThrows
<1>2. ApplyAndCommit(s)
  BY <1>1 DEF ApplyAndCommitThrows
<1> QED
  BY <1>1, <1>2 DEF ApplyAndCommit

\* A statement outside a transaction.
LEMMA DirectIsAStep ==
  ASSUME Inv, NEW s \in Sessions, NEW op \in Ops, OnDelete = "NONE", DirectOp(s, op)
  PROVE  Views(tables') = Store!Run(Views(tables), op) /\ tx' = tx
<1>1. Cascade(op) = tables
  BY CascadeTakesOut
<1>2. tx' = tx /\ tables' = [tables EXCEPT ![op.tbl] = ApplyOp(@, op, 0)]
  BY <1>1 DEF DirectOp
<1>3. tables \in Database /\ op \in BufferedOp /\ 0 \in Nat
  BY StatementsAssumption DEF Inv, Shape
<1>4. Views([tables EXCEPT ![op.tbl] = ApplyOp(@, op, 0)]) = Store!Run(Views(tables), op)
  BY <1>3, RunView
<1> QED
  BY <1>2, <1>4

\* The state without a transaction and the one after BEGIN.
LEMMA TxChanges ==
  /\ NoTx \in TxState /\ ~NoTx.active /\ NoTx.txBuffer = <<>>
  /\ \A id \in Nat : LET y == [NoTx EXCEPT !.active = TRUE, !.mvccTxId = id]
                     IN  y \in TxState /\ y.active /\ y.txBuffer = <<>>
<1>1. <<>> \in Seq(Ops) /\ <<>> \in Seq([name : Names, txSize : Nat])
  OBVIOUS
<1>2. NoTx \in TxState /\ ~NoTx.active /\ NoTx.txBuffer = <<>>
  BY <1>1 DEF NoTx, TxState
<1>3. ASSUME NEW id \in Nat
      PROVE  LET y == [NoTx EXCEPT !.active = TRUE, !.mvccTxId = id]
             IN  y \in TxState /\ y.active /\ y.txBuffer = <<>>
  BY <1>1 DEF NoTx, TxState
<1> QED
  BY <1>2, <1>3

\* The initial states are those of SerialStore.
LEMMA StoreInit == Init => Store!Init
BY EmptyView DEF Init, Store!Init, SelectWhere, NoTx

\* Every step is a step of SerialStore or changes nothing of it.
LEMMA StoreStep ==
  ASSUME Inv, Ids, [Next]_vars, Unique \cap Tables = {}, OnDelete = "NONE"
  PROVE  [Store!Next]_(Store!vars)
<1> DEFINE Same == Views(tables') = Views(tables) /\ Opened(tx') = Opened(tx) /\ Buffers(tx') = Buffers(tx)
<1>1. tx \in [Sessions -> TxState] /\ tables \in Database /\ globalTxId \in Nat
  BY DEF Inv, Shape
<1>2. \A s \in Sessions : Buffers(tx)[s] = tx[s].txBuffer /\ (s \in Opened(tx) <=> tx[s].active)
  BY DEF Buffers, Opened
<1>3. Same => UNCHANGED Store!vars
  BY StoreReads DEF Store!vars
<1>4. CASE VacuumAll \/ UNCHANGED vars
  BY <1>3, <1>4, VacuumStutters DEF vars
<1>5. ASSUME NEW t \in Tables, TruncateTable(t)
      PROVE  Store!Truncate(t)
  BY <1>5, TruncateIsAStep, StoreReads DEF Store!Truncate
<1>6. ASSUME NEW s \in Sessions, NEW op \in Ops, DirectOp(s, op)
      PROVE  Store!AutoCommit(op)
  BY <1>6, DirectIsAStep, StoreReads DEF Store!AutoCommit
<1>7. ASSUME NEW s \in Sessions, BeginTransaction(s)
      PROVE  Store!Begin(s)
  <2>1. PICK x : x = [NoTx EXCEPT !.active = TRUE, !.mvccTxId = globalTxId']
    OBVIOUS
  <2>2. globalTxId' \in Nat /\ tx' = [tx EXCEPT ![s] = x] /\ ~tx[s].active /\ tables' = tables
    BY <1>1, <1>7, <2>1 DEF BeginTransaction, TM!BeginTx
  <2>3. x \in TxState /\ x.active /\ x.txBuffer = <<>>
    BY <1>1, <2>1, <2>2, TxChanges
  <2>4. Opened(tx') = Opened(tx) \cup {s} /\ Buffers(tx') = [Buffers(tx) EXCEPT ![s] = <<>>]
    BY <1>1, <2>2, <2>3, SessionChange
  <2> QED
    BY <1>2, <2>2, <2>4, StoreReads DEF Store!Begin
<1>8. ASSUME NEW s \in Sessions, tx' = [tx EXCEPT ![s] = NoTx]
      PROVE  Opened(tx') = Opened(tx) \ {s} /\ Buffers(tx') = [Buffers(tx) EXCEPT ![s] = <<>>]
  <2>1. NoTx \in TxState /\ ~NoTx.active /\ NoTx.txBuffer = <<>>
    BY <1>1, TxChanges
  <2>2. PICK x, new : x = NoTx /\ new = tx'
    OBVIOUS
  <2>3. x \in TxState /\ ~x.active /\ x.txBuffer = <<>> /\ new = [tx EXCEPT ![s] = x]
    BY <1>8, <2>1, <2>2
  <2>4. /\ Opened(new) = IF x.active THEN Opened(tx) \cup {s} ELSE Opened(tx) \ {s}
        /\ Buffers(new) = [Buffers(tx) EXCEPT ![s] = x.txBuffer]
    BY ZenonT(60), <1>1, <2>3, SessionChange
  <2> QED
    BY <2>2, <2>3, <2>4
<1>9. ASSUME NEW s \in Sessions, ApplyAndCommit(s) \/ ApplyAndCommitThrows(s)
      PROVE  Store!Commit(s)
  <2>1. /\ Views(tables') = Store!RunAll(Views(tables), Buffers(tx)[s])
        /\ s \in Opened(tx) /\ tx' = [tx EXCEPT ![s] = NoTx]
    BY <1>2, <1>9, CommitIsAStep
  <2> QED
    BY <1>8, <2>1, StoreReads DEF Store!Commit
<1>10. ASSUME NEW s \in Sessions, RollbackTransaction(s)
       PROVE  Store!Rollback(s)
  <2>1. tables' = tables /\ s \in Opened(tx) /\ tx' = [tx EXCEPT ![s] = NoTx]
    BY <1>2, <1>10 DEF RollbackTransaction
  <2> QED
    BY <1>8, <2>1, StoreReads DEF Store!Rollback
<1>11. ASSUME NEW s \in Sessions, NEW b \in Seq(Ops), NEW p \in Seq([name : Names, txSize : Nat]),
              tx[s].active, tx' = [tx EXCEPT ![s] = [tx[s] EXCEPT !.txBuffer = b, !.savepoints = p]]
       PROVE  Opened(tx') = Opened(tx) /\ Buffers(tx') = [Buffers(tx) EXCEPT ![s] = b] /\ s \in Opened(tx)
  <2>1. PICK x : x = [tx[s] EXCEPT !.txBuffer = b, !.savepoints = p]
    OBVIOUS
  <2>2. x \in TxState /\ x.active /\ x.txBuffer = b
    <3>1. tx[s] \in TxState
      BY <1>1
    <3> QED
      BY <1>11, <2>1, <3>1 DEF TxState
  <2>3. PICK new : new = tx' /\ new = [tx EXCEPT ![s] = x]
    BY <1>11, <2>1
  <2>4. Opened(new) = Opened(tx) \cup {s} /\ Buffers(new) = [Buffers(tx) EXCEPT ![s] = b]
    BY <1>1, <2>2, <2>3, SessionChange
  <2> QED
    BY ZenonT(60), <1>2, <1>11, <2>3, <2>4
<1>12. ASSUME NEW s \in Sessions
       PROVE  /\ tx[s].txBuffer \in Seq(Ops) /\ tx[s].savepoints \in Seq([name : Names, txSize : Nat])
              /\ \A b : [tx[s] EXCEPT !.txBuffer = b] = [tx[s] EXCEPT !.txBuffer = b, !.savepoints = tx[s].savepoints]
              /\ \A p : [tx[s] EXCEPT !.savepoints = p] = [tx[s] EXCEPT !.txBuffer = tx[s].txBuffer, !.savepoints = p]
              /\ [Buffers(tx) EXCEPT ![s] = tx[s].txBuffer] = Buffers(tx)
  BY <1>1 DEF TxState, Buffers
<1>13. ASSUME NEW s \in Sessions, NEW op \in Ops, BufferOp(s, op)
       PROVE  Store!Defer(s, op)
  <2>1. PICK b : b = Append(tx[s].txBuffer, op)
    OBVIOUS
  <2>2. tables' = tables
    BY <1>13, CascadeTakesOut DEF BufferOp
  <2>3. b \in Seq(Ops) /\ tx[s].active
    <3>1. tx[s].txBuffer \in Seq(Ops) /\ tx[s].active
      BY <1>12, <1>13 DEF BufferOp
    <3> QED
      BY <2>1, <3>1, AppendProperties
  <2>4. tx' = [tx EXCEPT ![s] = [tx[s] EXCEPT !.txBuffer = b]]
    BY <1>13, <2>1 DEF BufferOp
  <2>5. tx' = [tx EXCEPT ![s] = [tx[s] EXCEPT !.txBuffer = b, !.savepoints = tx[s].savepoints]]
    BY <1>12, <2>4
  <2>6. Opened(tx') = Opened(tx) /\ Buffers(tx') = [Buffers(tx) EXCEPT ![s] = b] /\ s \in Opened(tx)
    BY <1>11, <1>12, <2>3, <2>5
  <2> QED
    BY <1>2, <2>1, <2>2, <2>6, StoreReads DEF Store!Defer
<1>14. ASSUME NEW s \in Sessions, NEW n \in Names, CreateSavepoint(s, n) \/ ReleaseSavepoint(s, n)
       PROVE  Same
  <2>1. tables' = tables /\ tx[s].active
    BY <1>14 DEF CreateSavepoint, ReleaseSavepoint
  <2>2. PICK x : tx'[s] = x
    OBVIOUS
  <2>3. \E p : tx' = [tx EXCEPT ![s] = [tx[s] EXCEPT !.savepoints = p]]
    BY <1>14 DEF CreateSavepoint, ReleaseSavepoint
  <2>4. PICK p : tx' = [tx EXCEPT ![s] = [tx[s] EXCEPT !.savepoints = p]]
    BY <2>3
  <2>5. tx' \in [Sessions -> TxState]
    BY SessionStep DEF SessionsTidy
  <2>6. p \in Seq([name : Names, txSize : Nat])
    <3>1. tx'[s] \in TxState /\ tx'[s].savepoints = p
      BY <1>1, <2>4, <2>5 DEF TxState
    <3> QED
      BY <3>1 DEF TxState
  <2>7. tx' = [tx EXCEPT ![s] = [tx[s] EXCEPT !.txBuffer = tx[s].txBuffer, !.savepoints = p]]
    BY <1>12, <2>4
  <2> QED
    BY <1>11, <1>12, <2>1, <2>6, <2>7
<1>15. ASSUME NEW s \in Sessions, NEW n \in Names, RollbackToSavepoint(s, n)
       PROVE  \E m \in 0 .. Len(Buffers(tx)[s]) : Store!Forget(s, m)
  <2>1. PICK k, m : k = Latest(s, n) /\ m = tx[s].savepoints[k].txSize
    OBVIOUS
  <2>2. k \in DOMAIN tx[s].savepoints /\ m \in Nat
    BY <1>1, <1>15, <2>1, LatestIsKnown, TxParts DEF RollbackToSavepoint
  <2>3. m <= Len(tx[s].txBuffer)
    BY <2>1, <2>2 DEF Inv, Nested
  <2>4. m \in 0 .. Len(Buffers(tx)[s])
    <3>1. Len(tx[s].txBuffer) \in Nat
      BY <1>1, TxParts
    <3> QED
      BY <1>2, <2>2, <2>3, <3>1
  <2>5. PICK b, p : b = SubSeq(tx[s].txBuffer, 1, m) /\ p = SubSeq(tx[s].savepoints, 1, k - 1)
    OBVIOUS
  <2>6. /\ tx' = [tx EXCEPT ![s] = [tx[s] EXCEPT !.txBuffer = b, !.savepoints = p]]
        /\ tx[s].active /\ tables' = tables
    BY <1>15, <2>1, <2>5 DEF RollbackToSavepoint
  <2>7. b \in Seq(Ops) /\ p \in Seq([name : Names, txSize : Nat])
    <3>1. tx'[s] \in TxState
      BY <1>1, SessionStep DEF SessionsTidy
    <3>2. tx'[s].txBuffer = b /\ tx'[s].savepoints = p
      BY <1>1, <2>6 DEF TxState
    <3> QED
      BY <3>1, <3>2 DEF TxState
  <2>8. Opened(tx') = Opened(tx) /\ Buffers(tx') = [Buffers(tx) EXCEPT ![s] = b] /\ s \in Opened(tx)
    BY <1>11, <2>6, <2>7
  <2>9. Store!Forget(s, m)
    BY <1>2, <2>4, <2>5, <2>6, <2>8, StoreReads DEF Store!Forget
  <2> QED
    BY <2>4, <2>9
<1>16. CASE Next
  <2>1. CASE VacuumAll \/ \E s \in Sessions, n \in Names : CreateSavepoint(s, n) \/ ReleaseSavepoint(s, n)
    BY <1>3, <1>4, <1>14, <2>1
  <2>2. CASE \/ \E t \in Tables : TruncateTable(t)
             \/ \E s \in Sessions, op \in Ops : DirectOp(s, op) \/ BufferOp(s, op)
    BY <1>5, <1>6, <1>13, <2>2 DEF Store!Next
  <2>3. CASE \E s \in Sessions : \/ BeginTransaction(s) \/ ApplyAndCommit(s) \/ ApplyAndCommitThrows(s)
                                 \/ RollbackTransaction(s)
    BY <1>7, <1>9, <1>10, <2>3 DEF Store!Next
  <2>4. CASE \E s \in Sessions, n \in Names : RollbackToSavepoint(s, n)
    BY <1>15, <2>4, StoreReads DEF Store!Next
  <2> QED
    BY <1>16, <2>1, <2>2, <2>3, <2>4 DEF Next
<1> QED
  BY <1>4, <1>16

\* Whatever the stamps, the ids and VACUUM do, the sessions that read with a WHERE see tables
\* that change by whole statements and whole transactions, one after the other (applyOp,
\* applyAndCommit, vacuumAll, selectWhere).  Not so with a UNIQUE column, where an
\* applyAndCommit that throws leaves the first part of its buffer applied, and
\* not with CASCADE or RESTRICT, which act when the DELETE is buffered.
THEOREM SessionsSeeASerialStore ==
  ASSUME Unique \cap Tables = {}, OnDelete = "NONE"
  PROVE  Spec => ImplementsSerialStore
<1>1. Init => Store!Init
  BY StoreInit
<1>2. Inv /\ Ids /\ [Next]_vars => [Store!Next]_(Store!vars)
  BY StoreStep
<1>3. Init => Ids
  BY DEF Init, TM!Init, Ids, NoTx
<1>4. Inv /\ Ids /\ [Next]_vars => Ids'
  BY ManagerStep
<1> QED
  BY <1>1, <1>2, <1>3, <1>4, InvInit, InvStep, PTL DEF Spec, ImplementsSerialStore, Store!Spec
-----------------------------------------------------------------------------
(* Sizes and stamps *)

\* The stamps of versions are ids that were given out.
Stamped(rows) == \A i \in DOMAIN rows : rows[i].xmin <= MaxTxId /\ rows[i].xmax <= MaxTxId

\* Fewer versions are left when some are taken out, with the stamps they had.
LEMMA PickedStamped ==
  ASSUME NEW rows \in Seq(Version), NEW P \in SUBSET DOMAIN rows
  PROVE  /\ Stamped(rows) => Stamped(Picked(rows, P))
         /\ Len(Picked(rows, P)) <= Len(rows)
<1>1. /\ Len(Picked(rows, P)) = Cardinality(P) /\ DOMAIN Picked(rows, P) = 1 .. Cardinality(P)
      /\ \A i \in 1 .. Cardinality(P) : Picked(rows, P)[i] = rows[Ascending(P)[i]] /\ Ascending(P)[i] \in P
  BY PickedReads, PickedShape
<1>2. Stamped(rows) => Stamped(Picked(rows, P))
  BY <1>1 DEF Stamped
<1>3. Len(rows) \in Nat /\ P \in SUBSET (1 .. Len(rows))
  OBVIOUS
<1>4. IsFiniteSet(1 .. Len(rows)) /\ Cardinality(1 .. Len(rows)) = Len(rows)
  <2>1. \A n \in Nat : IsFiniteSet(1 .. n) /\ Cardinality(1 .. n) = n
    BY FS_Interval
  <2> QED
    BY <1>3, <2>1
<1>5. Cardinality(P) <= Len(rows)
  BY <1>3, <1>4, FS_Subset
<1> QED
  BY <1>1, <1>2, <1>5

\* A statement stamps versions with the id of its transaction only.
LEMMA ApplyOpStamped ==
  ASSUME NEW rows \in Seq(Version), Stamped(rows), NEW op \in BufferedOp, NEW id \in Nat, id <= MaxTxId
  PROVE  Stamped(ApplyOp(rows, op, id))
<1>1. CASE op.type = "INSERT"
  <2>1. NewRow(op, id).xmin = id /\ NewRow(op, id).xmax = 0 /\ 0 <= MaxTxId
    BY SizesAssumption DEF NewRow
  <2>2. PICK r : r = NewRow(op, id)
    OBVIOUS
  <2>3. \A i \in DOMAIN Append(rows, r) : Append(rows, r)[i] = r \/ (i \in DOMAIN rows /\ Append(rows, r)[i] = rows[i])
    OBVIOUS
  <2>4. Stamped(Append(rows, r))
    BY <2>1, <2>2, <2>3 DEF Stamped
  <2> QED
    BY <1>1, <2>2, <2>4 DEF ApplyOp
<1>2. CASE op.type \in {"UPDATE_WHERE", "UPDATE_ALL"}
  <2>1. \A i \in DOMAIN rows : Set(rows[i], op).xmin = rows[i].xmin /\ Set(rows[i], op).xmax = rows[i].xmax
    <3>1. \A r \in Version : Set(r, op).xmin = r.xmin /\ Set(r, op).xmax = r.xmax
      BY ChangedVersion
    <3>2. \A i \in DOMAIN rows : rows[i] \in Version
      BY Entries
    <3> QED
      BY <3>1, <3>2
  <2>2. Stamped(Update(rows, op))
    BY <2>1 DEF Update, Stamped
  <2> QED
    BY <1>2, <2>2 DEF ApplyOp
<1>3. CASE op.type \in {"DELETE_WHERE", "DELETE_ALL"}
  <2>1. \A i \in DOMAIN rows : /\ Stamp(rows[i], id).xmin = rows[i].xmin
                               /\ Stamp(rows[i], id).xmax \in {rows[i].xmax, id}
    BY DEF Stamp, Version
  <2>2. CASE id = 0
    <3>1. {i \in DOMAIN rows : ~Matches(op, rows[i])} \in SUBSET DOMAIN rows
      OBVIOUS
    <3> QED
      BY <1>3, <2>2, <3>1, PickedStamped DEF ApplyOp, Delete
  <2>3. CASE id # 0
    <3>1. Stamped(Delete(rows, op, id))
      BY <2>1, <2>3 DEF Delete, Stamped
    <3> QED
      BY <1>3, <3>1 DEF ApplyOp
  <2> QED
    BY <2>2, <2>3
<1> QED
  BY <1>1, <1>2, <1>3 DEF BufferedOp, OpTypes

\* The stamps of a database.
AllStamped(db) == \A t \in Tables : Stamped(db[t])

\* One turn of the loop of applyAndCommit.
LEMMA ApplyNextStamped ==
  ASSUME NEW acc \in Results, AllStamped(acc.db), NEW op \in BufferedOp, NEW id \in Nat, id <= MaxTxId
  PROVE  AllStamped(ApplyNext(acc, op, id).db)
<1> DEFINE new == [acc.db EXCEPT ![op.tbl] = ApplyOp(@, op, id)]
<1>1. op.tbl \in Tables /\ acc.db \in Database /\ acc.db[op.tbl] \in Seq(Version)
  BY DEF BufferedOp, Results, Database
<1>2. Stamped(ApplyOp(acc.db[op.tbl], op, id))
  BY <1>1, ApplyOpStamped DEF AllStamped
<1>3. new[op.tbl] = ApplyOp(acc.db[op.tbl], op, id) /\ \A t \in Tables \ {op.tbl} : new[t] = acc.db[t]
  BY <1>1 DEF Database
<1>4. AllStamped(new)
  BY <1>2, <1>3 DEF AllStamped
<1>5. ApplyNext(acc, op, id).db \in {acc.db, new}
  BY DEF ApplyNext
<1> QED
  BY <1>4, <1>5

\* applyAndCommit stamps versions with the id of the transaction.
LEMMA ApplyAllStamped ==
  ASSUME NEW s \in Sessions, Shape, Keyed(tables), AllStamped(tables), tx[s].mvccTxId <= MaxTxId
  PROVE  AllStamped(ApplyAll(s).db)
<1> DEFINE N == Len(tx[s].txBuffer)
<1>1. PICK f : /\ ApplyAll(s) = f[N] /\ f[0] = [db |-> tables, ok |-> TRUE]
               /\ \A n \in 1 .. N : f[n] = ApplyNext(f[n - 1], tx[s].txBuffer[n], tx[s].mvccTxId)
  BY ApplyAllIsLoop
<1>2. /\ N \in Nat /\ tx[s].mvccTxId \in Nat /\ tables \in Database
      /\ \A n \in 1 .. N : tx[s].txBuffer[n] \in BufferedOp
  BY StatementsAssumption DEF Shape, TxState
<1> DEFINE S == {n \in Nat : n <= N => f[n] \in Results /\ Keyed(f[n].db) /\ AllStamped(f[n].db)}
<1> HIDE DEF N
<1>3. 0 \in S
  <2>1. f[0] \in Results /\ f[0].db = tables
    BY <1>1, <1>2 DEF Results
  <2> QED
    BY <2>1
<1>4. ASSUME NEW n \in Nat, n \in S
      PROVE  n + 1 \in S
  <2> SUFFICES ASSUME n + 1 <= N
               PROVE  f[n + 1] \in Results /\ Keyed(f[n + 1].db) /\ AllStamped(f[n + 1].db)
    OBVIOUS
  <2>1. n + 1 \in 1 .. N /\ n + 1 - 1 = n /\ n <= N
    BY <1>2
  <2>2. f[n + 1] = ApplyNext(f[n], tx[s].txBuffer[n + 1], tx[s].mvccTxId)
    BY <1>1, <2>1
  <2>3. PICK acc, op, id : acc = f[n] /\ op = tx[s].txBuffer[n + 1] /\ id = tx[s].mvccTxId
    OBVIOUS
  <2>4. acc \in Results /\ Keyed(acc.db) /\ AllStamped(acc.db) /\ op \in BufferedOp /\ id \in Nat /\ id <= MaxTxId
    BY <1>2, <1>4, <2>1, <2>3
  <2>5. ApplyNext(acc, op, id) \in Results /\ Keyed(ApplyNext(acc, op, id).db)
    BY <2>4, ApplyNextStep
  <2>6. AllStamped(ApplyNext(acc, op, id).db)
    BY <2>4, ApplyNextStamped
  <2> QED
    BY <2>2, <2>3, <2>5, <2>6
<1>5. N \in S
  <2> HIDE DEF S
  <2> QED
    BY <1>2, <1>3, <1>4, SetInduction
<1>6. N <= N
  BY <1>2
<1> QED
  BY <1>1, <1>5, <1>6

\* ON DELETE CASCADE leaves fewer versions, with the stamps they had.
LEMMA CascadeStamped ==
  ASSUME Inv, NEW op \in Ops
  PROVE  /\ AllStamped(tables) => AllStamped(Cascade(op))
         /\ \A t \in Tables : Len(Cascade(op)[t]) <= Len(tables[t])
<1>1. tables \in Database /\ \A t \in Tables : tables[t] \in Seq(Version) /\ Len(tables[t]) \in Nat
  BY DEF Inv, Shape, Database
<1>2. CASE Cascade(op) = tables
  BY <1>1, <1>2
<1>3. CASE Cascade(op) # tables
  <2> DEFINE P == {i \in DOMAIN tables[Child] : tables[Child][i].key \notin DeletedKeys(op)}
  <2>1. OnDelete = "CASCADE" /\ Cascade(op) = [tables EXCEPT ![Child] = Picked(tables[Child], P)]
    BY <1>3 DEF Cascade
  <2>2. Child \in Tables /\ P \in SUBSET DOMAIN tables[Child]
    BY <2>1, ForeignKeyAssumption
  <2> HIDE DEF P
  <2>3. /\ Stamped(tables[Child]) => Stamped(Picked(tables[Child], P))
        /\ Len(Picked(tables[Child], P)) <= Len(tables[Child])
    BY <1>1, <2>2, PickedStamped
  <2>4. /\ Cascade(op)[Child] = Picked(tables[Child], P)
        /\ \A t \in Tables \ {Child} : Cascade(op)[t] = tables[t]
    BY <1>1, <2>1, <2>2 DEF Database
  <2> QED
    BY <1>1, <2>2, <2>3, <2>4 DEF AllStamped
<1> QED
  BY <1>2, <1>3

\* The bound on all versions is one on those of each table.
LEMMA RoomForEach ==
  ASSUME NEW db \in Database, HasRoom(db), NEW t \in Tables
  PROVE  Len(db[t]) <= MaxRows
<1> DEFINE f == [u \in Tables |-> {u} \X DOMAIN db[u]]
           S == {{u} \X DOMAIN db[u] : u \in Tables}
<1>1. \A n \in Nat : IsFiniteSet(1 .. n) /\ Cardinality(1 .. n) = n
  BY FS_Interval
<1>2. \A u \in Tables : Len(db[u]) \in Nat /\ DOMAIN db[u] = 1 .. Len(db[u])
  BY DEF Database
<1>3. \A u \in Tables : IsFiniteSet({u}) /\ Cardinality({u}) = 1
  BY FS_Singleton
<1>4. ASSUME NEW u \in Tables
      PROVE  IsFiniteSet({u} \X DOMAIN db[u]) /\ Cardinality({u} \X DOMAIN db[u]) = Len(db[u])
  <2>1. IsFiniteSet(DOMAIN db[u]) /\ Cardinality(DOMAIN db[u]) = Len(db[u])
    BY <1>1, <1>2
  <2>2. PICK A, C : A = {u} /\ C = DOMAIN db[u]
    OBVIOUS
  <2>3. IsFiniteSet(A \X C) /\ Cardinality(A \X C) = Cardinality(A) * Cardinality(C)
    BY <1>3, <2>1, <2>2, FS_Product
  <2>4. Cardinality(A) = 1 /\ Cardinality(C) = Len(db[u]) /\ \A k \in Nat : 1 * k = k
    BY <1>3, <2>1, <2>2
  <2> QED
    BY <1>2, <2>2, <2>3, <2>4
<1>5. f \in Surjection(Tables, S)
  BY DEF Surjection
<1>6. \A A \in S : IsFiniteSet(A)
  BY <1>4
<1>7. {t} \X DOMAIN db[t] \in S
  OBVIOUS
<1>8. Cardinality(UNION S) <= MaxRows
  BY DEF HasRoom
<1> HIDE DEF f, S
<1>9. IsFiniteSet(S)
  BY <1>5, SizesAssumption, FS_Surjection
<1>10. IsFiniteSet(UNION S)
  BY <1>6, <1>9, FS_UNION
<1>11. PICK T : T = {t} \X DOMAIN db[t]
  OBVIOUS
<1>12. T \in SUBSET UNION S
  BY <1>7, <1>11
<1>13. Cardinality(T) <= Cardinality(UNION S) /\ Cardinality(UNION S) \in Nat
  BY <1>10, <1>12, FS_Subset, FS_CardinalityType
<1>14. Cardinality(T) = Len(db[t]) /\ Len(db[t]) \in Nat /\ MaxRows \in Nat
  BY <1>2, <1>4, <1>11, SizesAssumption
<1> QED
  BY <1>8, <1>13, <1>14

\* The bounds of TypeOK on the tables.
Small(db) == AllStamped(db) /\ \A t \in Tables : Len(db[t]) <= MaxRows

\* The ids of transactions that are open, and of those that are not.
Numbered ==
  /\ globalTxId <= MaxTxId
  /\ \A s \in Sessions : IF tx[s].active THEN tx[s].mvccTxId >= 1 ELSE tx[s].mvccTxId = 0

\* No buffer is longer than its bound.
Short == \A s \in Sessions : Len(tx[s].txBuffer) <= MaxOps

Bounded == Small(tables) /\ Numbered /\ Short

\* The tables' part of every step.
LEMMA SmallStep ==
  ASSUME Inv, Ids, Bounded, [Next]_vars
  PROVE  Small(tables')
<1>1. tables \in Database /\ Keyed(tables) /\ Small(tables) /\ tables' \in Database
  BY TablesStep DEF Inv, Shape, Bounded
<1>2. \A t \in Tables : tables[t] \in Seq(Version) /\ Len(tables[t]) \in Nat /\ tables'[t] \in Seq(Version)
                          /\ Len(tables'[t]) \in Nat
  BY <1>1 DEF Database
<1>3. CASE tables' = tables
  BY <1>1, <1>3
<1>4. CASE VacuumAll
  <2>1. ASSUME NEW t \in Tables
        PROVE  Stamped(tables'[t]) /\ Len(tables'[t]) <= MaxRows
    <3> DEFINE P == {i \in DOMAIN tables[t] : ~Reclaimable(tables[t][i])}
    <3>1. tables'[t] = Picked(tables[t], P) /\ P \in SUBSET DOMAIN tables[t]
      BY <1>4 DEF VacuumAll
    <3> HIDE DEF P
    <3>2. Stamped(tables[t]) /\ Len(tables[t]) <= MaxRows
      BY <1>1 DEF Small, AllStamped
    <3>3. Stamped(tables'[t]) /\ Len(tables'[t]) <= Len(tables[t])
      BY <1>2, <3>1, <3>2, PickedStamped
    <3> QED
      BY <1>2, <3>2, <3>3, SizesAssumption
  <2> QED
    BY <2>1 DEF Small, AllStamped
<1>5. ASSUME NEW u \in Tables, TruncateTable(u)
      PROVE  Small(tables')
  <2>1. tables'[u] = <<>> /\ \A t \in Tables \ {u} : tables'[t] = tables[t]
    BY <1>1, <1>5 DEF TruncateTable, Database
  <2>2. Stamped(<<>>) /\ Len(<<>>) <= MaxRows
    BY SizesAssumption DEF Stamped
  <2> QED
    BY <1>1, <2>1, <2>2 DEF Small, AllStamped
<1>6. ASSUME HasRoom(tables')
      PROVE  \A t \in Tables : Len(tables'[t]) <= MaxRows
  <2>1. PICK db : db = tables'
    OBVIOUS
  <2>2. \A t \in Tables : Len(db[t]) <= MaxRows
    BY <1>1, <1>6, <2>1, RoomForEach
  <2> QED
    BY <2>1, <2>2
<1>7. ASSUME NEW s \in Sessions, ApplyAndCommit(s) \/ ApplyAndCommitThrows(s)
      PROVE  Small(tables')
  <2>1. tables' = ApplyAll(s).db /\ HasRoom(tables') /\ tx[s].active
    BY <1>7 DEF ApplyAndCommit, ApplyAndCommitThrows
  <2>2. tx[s].mvccTxId <= MaxTxId
    <3>1. tx[s].mvccTxId \in Nat /\ tx[s].mvccTxId <= globalTxId /\ globalTxId \in Nat /\ globalTxId <= MaxTxId
      BY <2>1 DEF Ids, Inv, Shape, TxState, Bounded, Numbered
    <3> QED
      BY <3>1, SizesAssumption
  <2>3. AllStamped(ApplyAll(s).db)
    BY <1>1, <2>2, ApplyAllStamped DEF Inv, Small
  <2> QED
    BY <1>6, <2>1, <2>3 DEF Small
<1>8. ASSUME NEW s \in Sessions, NEW op \in Ops, BufferOp(s, op)
      PROVE  Small(tables')
  <2>1. tables' = Cascade(op)
    BY <1>8 DEF BufferOp
  <2>2. AllStamped(tables') /\ \A t \in Tables : Len(tables'[t]) <= Len(tables[t])
    BY <1>1, <2>1, CascadeStamped DEF Small
  <2> QED
    BY <1>1, <1>2, <2>2, SizesAssumption DEF Small
<1>9. ASSUME NEW s \in Sessions, NEW op \in Ops, DirectOp(s, op)
      PROVE  Small(tables')
  <2>1. PICK db : db = Cascade(op)
    OBVIOUS
  <2>2. /\ db \in Database /\ AllStamped(db) /\ op \in BufferedOp /\ op.tbl \in Tables
        /\ tables' = [db EXCEPT ![op.tbl] = ApplyOp(@, op, 0)] /\ HasRoom(tables')
    BY <1>1, <1>9, <2>1, CascadeTakesOut, CascadeStamped, StatementsAssumption DEF DirectOp, BufferedOp, Small
  <2>3. 0 <= MaxTxId
    BY SizesAssumption
  <2>4. Stamped(ApplyOp(db[op.tbl], op, 0))
    BY <2>2, <2>3, ApplyOpStamped DEF Database, AllStamped
  <2>5. tables'[op.tbl] = ApplyOp(db[op.tbl], op, 0) /\ \A t \in Tables \ {op.tbl} : tables'[t] = db[t]
    BY <2>2 DEF Database
  <2> QED
    BY <1>6, <2>2, <2>4, <2>5 DEF Small, AllStamped
<1>10. ASSUME NEW s \in Sessions
      PROVE  /\ BeginTransaction(s) \/ RollbackTransaction(s) => tables' = tables
             /\ \A n \in Names : CreateSavepoint(s, n) \/ RollbackToSavepoint(s, n) \/ ReleaseSavepoint(s, n)
                  => tables' = tables
  BY DEF BeginTransaction, RollbackTransaction, CreateSavepoint, RollbackToSavepoint, ReleaseSavepoint
<1>11. UNCHANGED vars => tables' = tables
  BY DEF vars
<1> QED
  BY <1>3, <1>4, <1>5, <1>7, <1>8, <1>9, <1>10, <1>11 DEF Next

\* The sessions' part of every step.
LEMMA NumberedStep ==
  ASSUME Inv, Bounded, [Next]_vars
  PROVE  Numbered' /\ Short'
<1>1. /\ tx \in [Sessions -> TxState] /\ globalTxId \in Nat /\ MaxOps \in Nat /\ MaxTxId \in Nat
      /\ Numbered /\ Short /\ \A s \in Sessions : Len(tx[s].txBuffer) \in Nat
  <2>1. tx \in [Sessions -> TxState] /\ globalTxId \in Nat /\ Numbered /\ Short
    BY DEF Inv, Shape, Bounded
  <2>2. \A s \in Sessions : Len(tx[s].txBuffer) \in Nat
    BY <2>1, TxParts
  <2> QED
    BY <2>1, <2>2, SizesAssumption
<1>2. ASSUME NEW s \in Sessions, NEW st, tx' = [tx EXCEPT ![s] = st], globalTxId' <= MaxTxId,
             IF st.active THEN st.mvccTxId >= 1 ELSE st.mvccTxId = 0, Len(st.txBuffer) <= MaxOps
      PROVE  Numbered' /\ Short'
  <2>1. tx'[s] = st /\ \A u \in Sessions \ {s} : tx'[u] = tx[u]
    BY <1>1, <1>2
  <2> QED
    BY <1>1, <1>2, <2>1 DEF Numbered, Short
<1>3. ASSUME NEW s \in Sessions, NEW b, NEW p, UNCHANGED mgr, Len(b) <= MaxOps,
             tx' = [tx EXCEPT ![s] = [tx[s] EXCEPT !.txBuffer = b, !.savepoints = p]]
      PROVE  Numbered' /\ Short'
  <2>1. PICK st : st = [tx[s] EXCEPT !.txBuffer = b, !.savepoints = p]
    OBVIOUS
  <2>2. st.active = tx[s].active /\ st.mvccTxId = tx[s].mvccTxId /\ st.txBuffer = b
    BY <1>1, <2>1 DEF TxState
  <2>3. globalTxId' <= MaxTxId /\ IF st.active THEN st.mvccTxId >= 1 ELSE st.mvccTxId = 0
    BY <1>1, <1>3, <2>2 DEF Numbered, mgr
  <2> QED
    BY <1>2, <1>3, <2>1, <2>2, <2>3
<1>4. ASSUME NEW s \in Sessions, BeginTransaction(s)
      PROVE  Numbered' /\ Short'
  <2>1. PICK st : st = [NoTx EXCEPT !.active = TRUE, !.mvccTxId = globalTxId']
    OBVIOUS
  <2>2. tx' = [tx EXCEPT ![s] = st] /\ globalTxId' = globalTxId + 1 /\ globalTxId < MaxTxId
    BY <1>4, <2>1 DEF BeginTransaction, TM!BeginTx
  <2>3. st.active = TRUE /\ st.mvccTxId = globalTxId + 1 /\ st.txBuffer = <<>>
    BY <2>1, <2>2 DEF NoTx
  <2>4. globalTxId' <= MaxTxId /\ st.mvccTxId >= 1 /\ Len(st.txBuffer) <= MaxOps
    BY <1>1, <2>2, <2>3
  <2> QED
    BY <1>2, <2>2, <2>3, <2>4
<1>5. ASSUME NEW s \in Sessions, ApplyAndCommit(s) \/ RollbackTransaction(s)
      PROVE  Numbered' /\ Short'
  <2>1. tx' = [tx EXCEPT ![s] = NoTx] /\ globalTxId' = globalTxId
    BY <1>5 DEF ApplyAndCommit, RollbackTransaction, TM!CommitTx, TM!RollbackTx
  <2>2. NoTx.active = FALSE /\ NoTx.mvccTxId = 0 /\ Len(NoTx.txBuffer) <= MaxOps
    BY <1>1 DEF NoTx
  <2>3. globalTxId' <= MaxTxId
    BY <1>1, <2>1 DEF Numbered
  <2>4. PICK st : st = NoTx
    OBVIOUS
  <2> QED
    BY <1>2, <2>1, <2>2, <2>3, <2>4
<1>6. ASSUME NEW s \in Sessions, NEW op \in Ops, BufferOp(s, op)
      PROVE  Numbered' /\ Short'
  <2>1. PICK b : b = Append(tx[s].txBuffer, op)
    OBVIOUS
  <2>2. /\ UNCHANGED mgr /\ Len(tx[s].txBuffer) < MaxOps
        /\ tx' = [tx EXCEPT ![s] = [tx[s] EXCEPT !.txBuffer = b, !.savepoints = tx[s].savepoints]]
    BY <1>1, <1>6, <2>1 DEF BufferOp, TxState
  <2>3. tx[s].txBuffer \in Seq(Ops)
    BY <1>1 DEF TxState
  <2>4. Len(b) = Len(tx[s].txBuffer) + 1
    BY <2>1, <2>3
  <2>5. Len(b) <= MaxOps
    BY <1>1, <2>2, <2>4
  <2> QED
    BY <1>3, <2>2, <2>5
<1>7. ASSUME NEW s \in Sessions, NEW n \in Names,
             CreateSavepoint(s, n) \/ RollbackToSavepoint(s, n) \/ ReleaseSavepoint(s, n)
      PROVE  Numbered' /\ Short'
  <2>1. UNCHANGED mgr /\ Len(tx[s].txBuffer) <= MaxOps
    BY <1>1, <1>7 DEF CreateSavepoint, RollbackToSavepoint, ReleaseSavepoint, Short
  <2>2. CASE CreateSavepoint(s, n)
    <3>1. tx' = [tx EXCEPT ![s] = [tx[s] EXCEPT !.txBuffer = tx[s].txBuffer,
                   !.savepoints = Append(tx[s].savepoints, [name |-> n, txSize |-> Len(tx[s].txBuffer)])]]
      BY <1>1, <2>2 DEF CreateSavepoint, TxState
    <3> QED
      BY <1>3, <2>1, <3>1
  <2>3. CASE ReleaseSavepoint(s, n)
    <3>1. tx' = [tx EXCEPT ![s] = [tx[s] EXCEPT !.txBuffer = tx[s].txBuffer,
                   !.savepoints = SubSeq(tx[s].savepoints, 1, Latest(s, n) - 1)]]
      BY <1>1, <2>3 DEF ReleaseSavepoint, TxState
    <3> QED
      BY <1>3, <2>1, <3>1
  <2>4. CASE RollbackToSavepoint(s, n)
    <3>1. PICK k : k = tx[s].savepoints[Latest(s, n)].txSize
      OBVIOUS
    <3>2. tx[s] \in TxState /\ Latest(s, n) \in DOMAIN tx[s].savepoints /\ Nested(tx[s])
      BY <1>1, <2>4, LatestIsKnown DEF RollbackToSavepoint, Inv
    <3>3. k \in Nat /\ k <= Len(tx[s].txBuffer) /\ tx[s].txBuffer \in Seq(Ops)
      BY <3>1, <3>2, TxParts, Entries DEF Nested, TxState
    <3>4. Len(SubSeq(tx[s].txBuffer, 1, k)) = k
      BY <3>3, Prefix
    <3>5. Len(SubSeq(tx[s].txBuffer, 1, k)) <= MaxOps
      BY <1>1, <2>1, <3>3, <3>4
    <3>6. tx' = [tx EXCEPT ![s] = [tx[s] EXCEPT !.txBuffer = SubSeq(tx[s].txBuffer, 1, k),
                                                !.savepoints = SubSeq(tx[s].savepoints, 1, Latest(s, n) - 1)]]
      BY <2>4, <3>1 DEF RollbackToSavepoint
    <3> QED
      BY <1>3, <2>1, <3>5, <3>6
  <2> QED
    BY <1>7, <2>2, <2>3, <2>4
<1>8. CASE UNCHANGED <<tx, mgr>>
  BY <1>1, <1>8 DEF Numbered, Short, mgr
<1>9. ASSUME NEW s \in Sessions
      PROVE  /\ ApplyAndCommitThrows(s) => UNCHANGED <<tx, mgr>>
             /\ \A op \in Ops : DirectOp(s, op) => UNCHANGED <<tx, mgr>>
  BY DEF ApplyAndCommitThrows, DirectOp
<1>10. VacuumAll \/ (\E t \in Tables : TruncateTable(t)) \/ UNCHANGED vars => UNCHANGED <<tx, mgr>>
  BY DEF VacuumAll, TruncateTable, vars
<1> QED
  BY <1>4, <1>5, <1>6, <1>7, <1>8, <1>9, <1>10 DEF Next

\* What the invariants say of the tables and of the sessions.
LEMMA BoundsGiveTypes ==
  ASSUME Inv, Ids, Bounded
  PROVE  TypeOK
<1>1. /\ tables \in Database /\ tx \in [Sessions -> TxState] /\ Small(tables) /\ Numbered /\ Short
      /\ MaxOps \in Nat /\ MaxTxId \in Nat
  BY SizesAssumption DEF Inv, Shape, Bounded
<1>2. ASSUME NEW t \in Tables
      PROVE  tables[t] \in Seq(Row) /\ Len(tables[t]) <= MaxRows
  <2>1. tables[t] \in Seq(Version) /\ Stamped(tables[t]) /\ Len(tables[t]) <= MaxRows
    BY <1>1 DEF Database, Small, AllStamped
  <2>2. \A r \in Version : r.xmin <= MaxTxId /\ r.xmax <= MaxTxId => r \in Row
    BY <1>1 DEF Version, Row
  <2>3. \A i \in 1 .. Len(tables[t]) : tables[t][i] \in Row
    BY <2>1, <2>2 DEF Stamped
  <2> QED
    BY <2>1, <2>3, SeqOver
<1>3. ASSUME NEW s \in Sessions
      PROVE  tx[s].active = (tx[s].mvccTxId \in activeTxs)
  <2>1. tx[s].active \in BOOLEAN
    BY <1>1 DEF TxState
  <2>2. CASE tx[s].active
    BY <2>1, <2>2 DEF Ids
  <2>3. CASE ~tx[s].active
    <3>1. tx[s].mvccTxId = 0
      BY <1>1, <2>3 DEF Numbered
    <3>2. \A u \in Sessions : tx[u].active => tx[u].mvccTxId # 0
      BY <1>1 DEF Numbered
    <3>3. 0 \notin activeTxs
      BY <3>2 DEF Ids
    <3> QED
      BY <2>1, <2>3, <3>1, <3>3
  <2> QED
    BY <2>1, <2>2, <2>3
<1>4. ASSUME NEW s \in Sessions
      PROVE  tx[s].txBuffer \in Seq(Ops) /\ tx[s].savepoints \in Seq(SavepointEntry) /\ SavepointsNest(s)
  <2> DEFINE sp == tx[s].savepoints
  <2>1. /\ tx[s].txBuffer \in Seq(Ops) /\ Len(tx[s].txBuffer) \in Nat /\ Len(tx[s].txBuffer) <= MaxOps
        /\ sp \in Seq([name : Names, txSize : Nat]) /\ Nested(tx[s])
    <3>1. tx[s] \in TxState /\ Len(tx[s].txBuffer) <= MaxOps /\ Nested(tx[s])
      BY <1>1 DEF Short, Inv
    <3>2. tx[s].txBuffer \in Seq(Ops) /\ sp \in Seq([name : Names, txSize : Nat])
      BY <3>1 DEF TxState
    <3> QED
      BY <3>1, <3>2, TxParts
  <2>2. \A i \in DOMAIN sp : sp[i] \in [name : Names, txSize : Nat] /\ sp[i].txSize <= Len(tx[s].txBuffer)
    <3>1. \A i \in DOMAIN sp : sp[i] \in [name : Names, txSize : Nat]
      BY <2>1, Entries
    <3> QED
      BY <2>1, <3>1 DEF Nested
  <2>3. \A e \in [name : Names, txSize : Nat] : e.txSize <= MaxOps => e \in SavepointEntry
    BY <1>1 DEF SavepointEntry
  <2>4. \A i \in 1 .. Len(sp) : sp[i] \in SavepointEntry
    BY <1>1, <2>1, <2>2, <2>3
  <2>5. sp \in Seq(SavepointEntry)
    <3> HIDE DEF sp
    <3> QED
      BY <2>1, <2>4, SeqOver
  <2>6. SavepointsNest(s)
    BY <2>1 DEF SavepointsNest, Nested
  <2> QED
    BY <2>1, <2>5, <2>6
<1> QED
  BY <1>2, <1>3, <1>4 DEF TypeOK

\* The bounds hold at first ...
LEMMA BoundedInit == Init => Ids /\ Bounded
<1> SUFFICES ASSUME Init
             PROVE  Ids /\ Bounded
  OBVIOUS
<1>1. \A t \in Tables : tables[t] = <<>>
  BY DEF Init
<1>2. \A s \in Sessions : tx[s] = NoTx
  BY DEF Init
<1>3. Stamped(<<>>) /\ Len(<<>>) <= MaxRows
  BY SizesAssumption DEF Stamped
<1>4. Small(tables)
  BY <1>1, <1>3 DEF Small, AllStamped
<1>5. Numbered /\ Short
  BY <1>2, SizesAssumption DEF Init, TM!Init, Numbered, Short, NoTx
<1>6. Ids
  BY <1>2 DEF Init, TM!Init, Ids, NoTx
<1> QED
  BY <1>4, <1>5, <1>6 DEF Bounded

\* ... and after every step.
LEMMA BoundedStep == Inv /\ Ids /\ Bounded /\ [Next]_vars => Bounded'
<1> SUFFICES ASSUME Inv, Ids, Bounded, [Next]_vars
             PROVE  Bounded'
  OBVIOUS
<1>1. Small(tables') /\ Numbered' /\ Short'
  BY SmallStep, NumberedStep
<1>2. Small(tables') => Small(tables)'
  BY DEF Small, AllStamped, Stamped
<1> QED
  BY <1>1, <1>2 DEF Bounded

\* A session's id is active for exactly as long as its transaction is open, savepoints nest,
\* and the tables hold versions with ids that were given out (beginTx, applyAndCommit).
THEOREM TransactionsAreWellFormed == Spec => []TypeOK
<1>1. Init => Inv /\ Ids /\ Bounded
  BY InvInit, BoundedInit
<1>2. Inv /\ Ids /\ Bounded /\ [Next]_vars => Inv' /\ Ids' /\ Bounded'
  BY InvStep, ManagerStep, BoundedStep
<1>3. Inv /\ Ids /\ Bounded => TypeOK
  BY BoundsGiveTypes
<1> QED
  BY <1>1, <1>2, <1>3, PTL DEF Spec
=============================================================================
