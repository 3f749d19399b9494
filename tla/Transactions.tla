---------------------------- MODULE Transactions ----------------------------
(***************************************************************************)
(* Transactions of src/engine/engine.hpp, in memory: per-session buffers,  *)
(* savepoints, COMMIT, ROLLBACK, the xmin/xmax stamps on row versions and  *)
(* VACUUM.  A statement runs under the server's engineMutex_, so it is one *)
(* step; several sessions interleave statement by statement.               *)
(*                                                                         *)
(* A row has the two columns key and val.  UPDATE sets one of them and     *)
(* selects on key, DELETE selects on key.  An INSERT of a key that a       *)
(* UNIQUE column already holds fails.  Child references Parent by key with *)
(* OnDelete.  Left out: SET NULL, indexes, triggers, RLS, ALTER,           *)
(* statistics; UPDATE with an expression, the binlog and CDC are in        *)
(* ChangeFeeds.                                                            *)
(***************************************************************************)
EXTENDS Naturals, Sequences, FiniteSets, Selections

CONSTANTS Sessions, Keys, Vals, Tables,
          Ops,              \* the statements the sessions issue
          Parent, Child,    \* the tables of the foreign key
          Unique,           \* the tables whose key column is UNIQUE
          OnDelete,         \* Child's foreign key: NONE, CASCADE or RESTRICT
          Names,            \* names of savepoints
          MaxOps,           \* bound: statements buffered by one transaction
          MaxRows,          \* bound: row versions in all tables
          PruneAt, MaxTxId  \* as in TransactionManager

OpTypes == {"INSERT", "UPDATE_WHERE", "UPDATE_ALL", "DELETE_WHERE", "DELETE_ALL"}
\* UPDATE sets val, or key to the value of to; quoted: the value of the condition is written
\* in quotes, the rows have it without.
BufferedOp == [type : OpTypes, tbl : Tables, key : Keys, val : Vals,
               set : {"key", "val"}, to : Keys, quoted : BOOLEAN]

ASSUME StatementsAssumption == Ops \subseteq BufferedOp
ASSUME ForeignKeyAssumption ==
  /\ OnDelete \in {"NONE", "CASCADE", "RESTRICT"}
  /\ OnDelete # "NONE" => {Parent, Child} \subseteq Tables
ASSUME SizesAssumption == IsFiniteSet(Tables) /\ {MaxOps, MaxRows, MaxTxId} \subseteq Nat

VARIABLES tables,   \* tables_ : table -> sequence of row versions
          tx,       \* sessionTx_ : session -> TxState
          globalTxId, activeTxs, committedTxs, committedEver

TM == INSTANCE TransactionManager

mgr == <<globalTxId, activeTxs, committedTxs, committedEver>>
vars == <<tables, tx, mgr>>

\* rekeyed is history: an UPDATE has set the key.
Row == [key : Keys, val : Vals, xmin : 0 .. MaxTxId, xmax : 0 .. MaxTxId, rekeyed : BOOLEAN]
SavepointEntry == [name : Names, txSize : 0 .. MaxOps]

NoTx == [active |-> FALSE, txBuffer |-> <<>>, savepoints |-> <<>>, mvccTxId |-> 0]

\* Savepoints are positions in the buffer, each at or after the one before it.  One
\* beyond the end would make txBuffer.resize() invent operations.
SavepointsNest(s) ==
  LET at == [i \in DOMAIN tx[s].savepoints |-> tx[s].savepoints[i].txSize]
  IN  \A i \in DOMAIN at : at[i] <= Len(tx[s].txBuffer) /\ \A j \in 1 .. i : at[j] <= at[i]

\* The shape of the state: a session has an active transaction id exactly while
\* its transaction is open, and its savepoints nest.
TypeOK ==
  /\ \A t \in Tables : tables[t] \in Seq(Row) /\ Len(tables[t]) <= MaxRows
  /\ \A s \in Sessions :
       /\ tx[s].active = (tx[s].mvccTxId \in activeTxs)
       /\ tx[s].txBuffer \in Seq(Ops)
       /\ tx[s].savepoints \in Seq(SavepointEntry) /\ SavepointsNest(s)

Init ==
  /\ tables = [t \in Tables |-> <<>>]
  /\ tx = [s \in Sessions |-> NoTx]
  /\ TM!Init
-----------------------------------------------------------------------------
(* Table *)

Alive(row) == row.xmax = 0

\* Mutant: rows inserted by a transaction are not compared.
InsertFails_AutoOnly(rows, t, k) ==
  t \in Unique /\ \E i \in DOMAIN rows : Alive(rows[i]) /\ rows[i].xmin = 0 /\ rows[i].key = k
\* Table::insert throws on a UNIQUE conflict with a row that is not deleted.
InsertFails(rows, t, k) ==
  t \in Unique /\ \E i \in DOMAIN rows : Alive(rows[i]) /\ rows[i].key = k

NewRow(op, xmin) == [key |-> op.key, val |-> op.val, xmin |-> xmin, xmax |-> 0, rekeyed |-> FALSE]
\* UPDATE asks checkSetConstraints, which knows CHECK and not UNIQUE.
Set(row, op) ==
  IF op.set = "val" THEN [row EXCEPT !.val = op.val]
  ELSE [row EXCEPT !.key = op.to, !.rekeyed = TRUE]
Stamp(row, id) == IF Alive(row) THEN [row EXCEPT !.xmax = id] ELSE row

\* Table::updateWhere, updateAll, deleteWhere, deleteAll (physical) and
\* stampDeleteWhere, stampDeleteAll (logical); id = 0 outside a transaction.  The ones compare
\* with the value without its quotes too, stampDeleteWhere only as it is written.
Matches(op, row) == op.type \in {"UPDATE_ALL", "DELETE_ALL"} \/ row.key = op.key
Stamps(op, row) == op.type = "DELETE_ALL" \/ (row.key = op.key /\ ~op.quoted)
Update(rows, op) ==
  [i \in DOMAIN rows |-> IF Matches(op, rows[i]) THEN Set(rows[i], op) ELSE rows[i]]
Delete(rows, op, id) ==
  IF id = 0
  THEN Picked(rows, {i \in DOMAIN rows : ~Matches(op, rows[i])})
  ELSE [i \in DOMAIN rows |-> IF Stamps(op, rows[i]) THEN Stamp(rows[i], id) ELSE rows[i]]

\* Engine::applyOp, once it does not throw.
ApplyOp(rows, op, id) ==
  CASE op.type = "INSERT" -> Append(rows, NewRow(op, id))
    [] op.type \in {"UPDATE_WHERE", "UPDATE_ALL"} -> Update(rows, op)
    [] op.type \in {"DELETE_WHERE", "DELETE_ALL"} -> Delete(rows, op, id)

\* The loop of applyAndCommit over txBuffer: it stops where applyOp throws.
ApplyNext(acc, op, id) ==
  IF ~acc.ok \/ (op.type = "INSERT" /\ InsertFails(acc.db[op.tbl], op.tbl, op.key))
  THEN [db |-> acc.db, ok |-> FALSE]
  ELSE [db |-> [acc.db EXCEPT ![op.tbl] = ApplyOp(@, op, id)], ok |-> TRUE]
ApplyAll(s) ==
  LET ops == tx[s].txBuffer
      after[n \in 0 .. Len(ops)] ==
        IF n = 0 THEN [db |-> tables, ok |-> TRUE]
        ELSE ApplyNext(after[n - 1], ops[n], tx[s].mvccTxId)
  IN  after[Len(ops)]

\* cascadeDelete for every version of a parent row that the DELETE matches,
\* deleted versions included: it throws under RESTRICT and deletes the children
\* physically, at once, under CASCADE.
DeletedKeys(op) ==
  {tables[op.tbl][i].key : i \in {j \in DOMAIN tables[op.tbl] : Matches(op, tables[op.tbl][j])}}
Referenced(op) ==
  \E i \in DOMAIN tables[Child] : tables[Child][i].key \in DeletedKeys(op)
CascadeThrows(op) ==
  /\ op.type \in {"DELETE_WHERE", "DELETE_ALL"} /\ op.tbl = Parent
  /\ OnDelete = "RESTRICT" /\ Referenced(op)
Cascade(op) ==
  IF op.type \in {"DELETE_WHERE", "DELETE_ALL"} /\ op.tbl = Parent /\ OnDelete = "CASCADE"
  THEN [tables EXCEPT ![Child] = Picked(@, {i \in DOMAIN @ : @[i].key \notin DeletedKeys(op)})]
  ELSE tables

\* checkInsertFK: some version of the parent row exists, deleted or not.
ForeignKeyHolds(op) ==
  \/ op.type # "INSERT" \/ op.tbl # Child \/ OnDelete = "NONE"
  \/ \E i \in DOMAIN tables[Parent] : tables[Parent][i].key = op.key
-----------------------------------------------------------------------------
(* Statements *)

HasRoom(db) == Cardinality(UNION {{t} \X DOMAIN db[t] : t \in Tables}) <= MaxRows

\* insertRow, updateWhere, updateAll, deleteWhere, deleteAll in a transaction:
\* checked and cascaded now, buffered for COMMIT.
BufferOp(s, op) ==
  /\ tx[s].active
  /\ Len(tx[s].txBuffer) < MaxOps
  /\ ForeignKeyHolds(op) /\ ~CascadeThrows(op)
  /\ tables' = Cascade(op)
  /\ tx' = [tx EXCEPT ![s].txBuffer = Append(@, op)]
  /\ UNCHANGED mgr

\* The same statements outside a transaction.
DirectOp(s, op) ==
  /\ ~tx[s].active
  /\ ForeignKeyHolds(op) /\ ~CascadeThrows(op)
  /\ ~(op.type = "INSERT" /\ InsertFails(tables[op.tbl], op.tbl, op.key))
  /\ tables' = [Cascade(op) EXCEPT ![op.tbl] = ApplyOp(@, op, 0)]
  /\ HasRoom(tables')
  /\ UNCHANGED <<tx, mgr>>

\* truncateTable: at once, in a transaction too.
TruncateTable(t) ==
  /\ tables' = [tables EXCEPT ![t] = <<>>]
  /\ UNCHANGED <<tx, mgr>>

BeginTransaction(s) ==
  /\ ~tx[s].active
  /\ TM!BeginTx
  /\ tx' = [tx EXCEPT ![s] = [NoTx EXCEPT !.active = TRUE, !.mvccTxId = globalTxId']]
  /\ UNCHANGED tables

\* applyAndCommit; prepareTx (PREPARE TRANSACTION) applies and commits alike.
ApplyAndCommit(s) ==
  /\ tx[s].active
  /\ LET result == ApplyAll(s)
     IN  result.ok /\ HasRoom(result.db) /\ tables' = result.db
  /\ TM!CommitTx(tx[s].mvccTxId)
  /\ tx' = [tx EXCEPT ![s] = NoTx]

\* applyAndCommit when applyOp throws: the operations before it stay applied
\* and the transaction stays open with its whole buffer.
ApplyAndCommitThrows(s) ==
  /\ tx[s].active
  /\ LET result == ApplyAll(s)
     IN  ~result.ok /\ HasRoom(result.db) /\ tables' = result.db
  /\ UNCHANGED <<tx, mgr>>

RollbackTransaction(s) ==
  /\ tx[s].active
  /\ TM!RollbackTx(tx[s].mvccTxId)
  /\ tx' = [tx EXCEPT ![s] = NoTx]
  /\ UNCHANGED tables

CreateSavepoint(s, n) ==
  /\ tx[s].active
  /\ Len(tx[s].savepoints) < MaxOps
  /\ tx' = [tx EXCEPT ![s].savepoints =
                        Append(@, [name |-> n, txSize |-> Len(tx[s].txBuffer)])]
  /\ UNCHANGED <<tables, mgr>>

\* The search of rollbackToSavepoint and releaseSavepoint: the latest of a name.
Latest(s, n) ==
  LET found == {i \in DOMAIN tx[s].savepoints : tx[s].savepoints[i].name = n}
  IN  CHOOSE i \in found : \A j \in found : j <= i
Known(s, n) == \E i \in DOMAIN tx[s].savepoints : tx[s].savepoints[i].name = n

\* Mutant: the savepoints after the named one are kept.
RollbackToSavepoint_KeepLater(s, n) ==
  /\ tx[s].active /\ Known(s, n)
  /\ tx' = [tx EXCEPT ![s].txBuffer = SubSeq(@, 1, tx[s].savepoints[Latest(s, n)].txSize)]
  /\ UNCHANGED <<tables, mgr>>
\* Mutant: the right number of statements is kept, but the newest.
RollbackToSavepoint_Newest(s, n) ==
  /\ tx[s].active /\ Known(s, n)
  /\ tx' = [tx EXCEPT ![s].txBuffer =
                        SubSeq(@, Len(@) - tx[s].savepoints[Latest(s, n)].txSize + 1, Len(@)),
                      ![s].savepoints = SubSeq(@, 1, Latest(s, n) - 1)]
  /\ UNCHANGED <<tables, mgr>>
RollbackToSavepoint(s, n) ==
  /\ tx[s].active /\ Known(s, n)
  /\ tx' = [tx EXCEPT ![s].txBuffer = SubSeq(@, 1, tx[s].savepoints[Latest(s, n)].txSize),
                      ![s].savepoints = SubSeq(@, 1, Latest(s, n) - 1)]
  /\ UNCHANGED <<tables, mgr>>

ReleaseSavepoint(s, n) ==
  /\ tx[s].active /\ Known(s, n)
  /\ tx' = [tx EXCEPT ![s].savepoints = SubSeq(@, 1, Latest(s, n) - 1)]
  /\ UNCHANGED <<tables, mgr>>

\* Mutant: a version is dead as soon as its creator's id is below the horizon.
Reclaimable_Xmin(row) ==
  row.xmin # 0 /\ TM!BelowHorizon(row.xmin) /\ TM!IsCommitted(row.xmax)
\* vacuumAll: Table::vacuum on every table with the horizon of that moment.
Reclaimable(row) ==
  row.xmax # 0 /\ TM!BelowHorizon(row.xmax) /\ TM!IsCommitted(row.xmax)
VacuumAll ==
  /\ \E t \in Tables : \E i \in DOMAIN tables[t] : Reclaimable(tables[t][i])
  /\ tables' = [t \in Tables |->
                  Picked(tables[t], {i \in DOMAIN tables[t] : ~Reclaimable(tables[t][i])})]
  /\ UNCHANGED <<tx, mgr>>

Next ==
  \/ VacuumAll
  \/ \E t \in Tables : TruncateTable(t)
  \/ \E s \in Sessions :
       \/ BeginTransaction(s) \/ ApplyAndCommit(s) \/ ApplyAndCommitThrows(s)
       \/ RollbackTransaction(s)
       \/ \E op \in Ops : BufferOp(s, op) \/ DirectOp(s, op)
       \/ \E n \in Names :
            CreateSavepoint(s, n) \/ RollbackToSavepoint(s, n) \/ ReleaseSavepoint(s, n)

Spec == Init /\ [][Next]_vars

\* The auto-vacuum thread runs VACUUM again and again; sessions promise nothing.
FairSpec == Spec /\ WF_vars(VacuumAll)
-----------------------------------------------------------------------------
\* What a SELECT with a WHERE finds, in any session: the rows no transaction deleted.  (One
\* without a WHERE returns every version, deleted ones too, until VACUUM.)
View(rows) ==
  LET alive == Picked(rows, {i \in DOMAIN rows : Alive(rows[i])})
  IN  [i \in DOMAIN alive |-> [key |-> alive[i].key, val |-> alive[i].val]]
SelectWhere(t) == View(tables[t])

\* The row versions, stamps and VACUUM are invisible to sessions that read with a WHERE:
\* tables change as if transactions ran one after the other, each as a whole.
Store == INSTANCE SerialStore WITH
  content <- [t \in Tables |-> SelectWhere(t)],
  open    <- {s \in Sessions : tx[s].active},
  buffer  <- [s \in Sessions |-> tx[s].txBuffer]
ImplementsSerialStore == Store!Spec

\* What was buffered before a savepoint stays as it was for as long as the
\* savepoint stands, whatever is rolled back to or released after it.
SavepointKeepsPrefix ==
  [][\A s \in Sessions : \A i \in DOMAIN tx[s].savepoints \cap DOMAIN tx'[s].savepoints :
       LET n == tx[s].savepoints[i].txSize
       IN  tx'[s].savepoints[i] = tx[s].savepoints[i] =>
             SubSeq(tx'[s].txBuffer, 1, n) = SubSeq(tx[s].txBuffer, 1, n)]_vars

\* UNIQUE is checked when the buffered INSERT is applied, not when it is issued, and never by
\* an UPDATE: two open transactions may both hold an INSERT of a key, yet a table has
\* the key twice only where an UPDATE set it.
UniqueKeys ==
  \A t \in Unique \cap Tables : \A i, j \in DOMAIN tables[t] :
    Alive(tables[t][i]) /\ Alive(tables[t][j]) /\ tables[t][i].key = tables[t][j].key
      => i = j \/ tables[t][i].rekeyed \/ tables[t][j].rekeyed

\* A version deleted by a transaction older than every open one is reclaimed in
\* the end, however many younger transactions stay open.
DeadVersions(id) == {v \in Tables \X (1 .. MaxRows) :
                       v[2] \in DOMAIN tables[v[1]] /\ tables[v[1]][v[2]].xmax = id}
OlderThanOpen(id) == id <= globalTxId /\ \A s \in Sessions : tx[s].active => id < tx[s].mvccTxId
VacuumReclaims ==
  \A id \in 1 .. MaxTxId : OlderThanOpen(id) ~> DeadVersions(id) = {}

\* "Readers see a consistent snapshot": between its BEGIN and its COMMIT a
\* transaction reads the same rows.
RepeatableRead ==
  [][\A s \in Sessions : tx[s].active /\ tx'[s].active =>
       \A t \in Tables : SelectWhere(t)' = SelectWhere(t)]_vars
=============================================================================
