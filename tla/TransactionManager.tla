------------------------- MODULE TransactionManager -------------------------
(***************************************************************************)
(* src/mvcc/transaction_manager.hpp: transaction ids, the set of active    *)
(* transactions and the pruned set of committed ones.  The engine calls it *)
(* under its own lock, so a method is one step.                            *)
(*                                                                         *)
(* minActiveTxId() is used only to compare ids with it, so the model has   *)
(* the comparison, BelowHorizon(id), and not the number.                   *)
(*                                                                         *)
(* committedEver is a history variable: the ids that were committed, which *)
(* the program itself forgets when it prunes.                              *)
(***************************************************************************)
EXTENDS Naturals, FiniteSets

CONSTANTS PruneAt,   \* committedTxs_ is pruned above this size (10000)
          MaxTxId    \* bound of the model: no transaction starts beyond it

ASSUME BoundsAssumption == PruneAt \in Nat /\ MaxTxId \in Nat

VARIABLES globalTxId,     \* globalTxId_
          activeTxs,      \* keys of activeTxs_
          committedTxs,   \* committedTxs_
          committedEver   \* history: the ids commitTx was called with

mgrVars == <<globalTxId, activeTxs, committedTxs>>
vars == <<globalTxId, activeTxs, committedTxs, committedEver>>

TxIds == 1 .. MaxTxId

TypeOK ==
  /\ globalTxId \in 0 .. MaxTxId
  /\ activeTxs \subseteq 1 .. globalTxId
  /\ committedTxs \subseteq committedEver
  /\ committedEver \subseteq 1 .. globalTxId

Init ==
  /\ globalTxId = 0
  /\ activeTxs = {} /\ committedTxs = {}
  /\ committedEver = {}
-----------------------------------------------------------------------------
\* Mutant: the horizon is the newest active transaction, not the oldest.
Below_Newest(id, active, last) ==
  id <= last /\ (active = {} \/ \E a \in active : id < a)
\* Mutant: with no active transaction the horizon is the last id itself.
Below_OffByOne(id, active, last) == id < last /\ \A a \in active : id < a
\* id < minActiveTxId(), which is last + 1 when no transaction is active.
Below(id, active, last) == id <= last /\ \A a \in active : id < a
BelowHorizon(id) == Below(id, activeTxs, globalTxId)

\* isCommitted: id 0 is auto-commit, and an id below the horizon that is not
\* active is assumed to have been pruned.
IsCommitted(id) ==
  \/ id = 0
  \/ id \in committedTxs
  \/ id \notin activeTxs /\ BelowHorizon(id)

\* beginTx
BeginTx ==
  /\ globalTxId < MaxTxId
  /\ globalTxId' = globalTxId + 1
  /\ activeTxs' = activeTxs \cup {globalTxId + 1}
  /\ UNCHANGED <<committedTxs, committedEver>>

\* Mutant: prunes as if the committing transaction were the only active one.
Pruned_IgnoreActive(ids, active, last) ==
  IF Cardinality(ids) > PruneAt THEN {} ELSE ids
\* The pruning loop of commitTx: ids below the horizon are dropped.
Pruned(ids, active, last) ==
  IF Cardinality(ids) > PruneAt
  THEN {id \in ids : ~Below(id, active, last)}
  ELSE ids

\* commitTx; the engine passes the id of the session's open transaction.
CommitTx(id) ==
  /\ activeTxs' = activeTxs \ {id}
  /\ committedTxs' = Pruned(committedTxs \cup {id}, activeTxs', globalTxId)
  /\ committedEver' = committedEver \cup {id}
  /\ UNCHANGED globalTxId

\* rollbackTx
RollbackTx(id) ==
  /\ activeTxs' = activeTxs \ {id}
  /\ UNCHANGED <<globalTxId, committedTxs, committedEver>>

Next == \/ BeginTx
        \/ \E id \in activeTxs : CommitTx(id) \/ RollbackTx(id)

Spec == Init /\ [][Next]_vars
-----------------------------------------------------------------------------
\* commitTx prunes committedTxs_ and isCommitted must make up for it: a
\* transaction that was committed counts as committed for ever after, whatever
\* starts, ends or is pruned later.
CommittedForEver == \A id \in committedEver : IsCommitted(id)

\* isCommitted's shortcut for pruned ids must not catch a running transaction.
ActiveIsNotCommitted == \A id \in activeTxs : ~IsCommitted(id)

\* The VACUUM boundary (minActiveTxId) only moves up: an id that no active
\* transaction can be older than never comes back above it.
HorizonOnlyAdvances ==
  [][\A id \in TxIds : BelowHorizon(id) => BelowHorizon(id)']_vars
=============================================================================
