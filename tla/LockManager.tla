---------------------------- MODULE LockManager ----------------------------
(***************************************************************************)
(* src/locking/lock_manager.hpp: the process-wide g_lockManager behind     *)
(* LOCK TABLE, UNLOCK TABLES and SELECT ... FOR UPDATE.  Every method runs *)
(* under mutex_, so a method is one step.  No method waits: a request that *)
(* conflicts is refused (returns false) and the statement fails, so a      *)
(* refused request leaves the tables of locks alone.                       *)
(*                                                                         *)
(* The row key "table:rowKey" is the pair <<table, rowKey>>.  An absent    *)
(* entry of rowLocks_ is NoThread, one of tableLocks_ is NoLock.           *)
(***************************************************************************)
EXTENDS FiniteSets, TLC

CONSTANTS Threads,   \* std::thread::id of the threads that run statements
          Tables,    \* table names
          RowKeys,   \* values of a row's first column
          NoThread   \* "no holder"

ASSUME NoThreadAssumption == NoThread \notin Threads

VARIABLES rowLocks,    \* rowLocks_   : <<table, rowKey>> -> thread
          tableLocks   \* tableLocks_ : table -> TableLockEntry {holders, type}

vars == <<rowLocks, tableLocks>>

LockType == {"READ", "WRITE"}
NoLock == [holders |-> {}, type |-> "NONE"]
TableLockEntry == [holders : (SUBSET Threads) \ {{}}, type : LockType]

TypeOK ==
  /\ rowLocks \in [Tables \X RowKeys -> Threads \cup {NoThread}]
  /\ tableLocks \in [Tables -> TableLockEntry \cup {NoLock}]

Init ==
  /\ rowLocks = [r \in Tables \X RowKeys |-> NoThread]
  /\ tableLocks = [t \in Tables |-> NoLock]
-----------------------------------------------------------------------------
\* Mutant: whoever asks gets the row.
AcquireRowLock_Steal(th, t, k) ==
  /\ rowLocks' = [rowLocks EXCEPT ![<<t, k>>] = th]
  /\ UNCHANGED tableLocks
\* acquireRowLock: granted when the row is free; the same thread re-acquires.
AcquireRowLock(th, t, k) ==
  /\ rowLocks[<<t, k>>] \in {NoThread, th}
  /\ rowLocks' = [rowLocks EXCEPT ![<<t, k>>] = th]
  /\ UNCHANGED tableLocks

\* acquireTableLock returns true, and what it leaves in tableLocks_[table]:
\* a free table is taken, the sole holder gets the type it asks for (an
\* upgrade or a downgrade), one holder among several keeps what it has when
\* it asks for READ, and a READ joins the other READs.
SoleHolder(th, e) == e.holders = {th}
\* Mutant: any READ is granted, whatever the type of the lock it joins.
AcquireGranted_AnyRead(th, e, type) ==
  e = NoLock \/ SoleHolder(th, e) \/ type = "READ"
AcquireGranted(th, e, type) ==
  \/ e = NoLock
  \/ SoleHolder(th, e)
  \/ type = "READ" /\ (th \in e.holders \/ e.type = "READ")
AcquireEntry(th, e, type) ==
  [holders |-> e.holders \cup {th},
   type    |-> IF e = NoLock \/ SoleHolder(th, e) THEN type ELSE e.type]

AcquireTableLock(th, t, type) ==
  /\ AcquireGranted(th, tableLocks[t], type)
  /\ tableLocks' = [tableLocks EXCEPT ![t] = AcquireEntry(th, @, type)]
  /\ UNCHANGED rowLocks

\* The thread leaves the entry; an entry without holders is erased.
\* Mutant: an entry that lost its last holder stays, as a lock of nobody.
ReleasedEntry_KeepEmpty(th, e) ==
  IF e = NoLock THEN NoLock ELSE [e EXCEPT !.holders = @ \ {th}]
\* Mutant: the whole entry is erased, as when it could have one holder only.
ReleasedEntry_EraseAll(th, e) == IF th \in e.holders THEN NoLock ELSE e
ReleasedEntry(th, e) ==
  IF e.holders \ {th} = {} THEN NoLock ELSE [e EXCEPT !.holders = @ \ {th}]
ReleasedRow(th, holder) == IF holder = th THEN NoThread ELSE holder

\* releaseRowLocks: COMMIT, ROLLBACK and PREPARE TRANSACTION.
ReleaseRowLocks(th) ==
  /\ rowLocks' = [r \in Tables \X RowKeys |-> ReleasedRow(th, rowLocks[r])]
  /\ UNCHANGED tableLocks

\* releaseTableLocks: UNLOCK TABLES.
ReleaseTableLocks(th) ==
  /\ tableLocks' = [t \in Tables |-> ReleasedEntry(th, tableLocks[t])]
  /\ UNCHANGED rowLocks

\* releaseAllLocks.
ReleaseAllLocks(th) ==
  /\ rowLocks' = [r \in Tables \X RowKeys |-> ReleasedRow(th, rowLocks[r])]
  /\ tableLocks' = [t \in Tables |-> ReleasedEntry(th, tableLocks[t])]

Next == \E th \in Threads :
  \/ \E t \in Tables :
       \/ \E k \in RowKeys : AcquireRowLock(th, t, k)
       \/ \E type \in LockType : AcquireTableLock(th, t, type)
  \/ ReleaseRowLocks(th)
  \/ ReleaseTableLocks(th)
  \/ ReleaseAllLocks(th)

Spec == Init /\ [][Next]_vars
-----------------------------------------------------------------------------
\* acquireTableLock's "incompatible lock held by another thread": a table
\* locked WRITE has exactly one holder, whatever upgrades, downgrades and
\* releases led there.
WriteLockIsExclusive ==
  \A t \in Tables :
    tableLocks[t].type = "WRITE" => \E th \in Threads : tableLocks[t].holders = {th}

\* A row locked by SELECT ... FOR UPDATE changes hands only through a release:
\* no other thread's acquire may take it over.
RowLockNotStolen ==
  [][\A r \in Tables \X RowKeys :
       rowLocks[r] # NoThread => rowLocks'[r] \in {rowLocks[r], NoThread}]_vars

\* The table locks implement a readers-writer lock per table: no sequence of
\* acquire and release calls leads outside the abstract specification.
RW == INSTANCE ReadersWriterLock WITH
  readers <- [t \in Tables |-> IF tableLocks[t].type = "READ"
                               THEN tableLocks[t].holders ELSE {}],
  writers <- [t \in Tables |-> IF tableLocks[t].type = "WRITE"
                               THEN tableLocks[t].holders ELSE {}]
ImplementsReadersWriterLock == RW!Spec
=============================================================================
