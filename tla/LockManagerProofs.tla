------------------------- MODULE LockManagerProofs -------------------------
(* Proofs about LockManager for any threads, tables and row keys.          *)
EXTENDS LockManager, TLAPS

\* The inductive invariant.  TypeOK is needed in it: a lock that is READ or WRITE
\* has a holder, which a join or an upgrade relies on.
LockInv == TypeOK /\ WriteLockIsExclusive

\* An absent entry has no holder and is not an entry.
LEMMA NoLockFacts ==
  /\ NoLock.holders = {} /\ NoLock.type = "NONE"
  /\ NoLock \notin TableLockEntry
  PROOF BY DEF NoLock, TableLockEntry, LockType

\* An acquire that is granted leaves an entry with holders, and if that entry
\* is WRITE then the thread is its only holder.
LEMMA AcquireKeepsEntry ==
  ASSUME NEW th \in Threads, NEW type \in LockType,
         NEW e \in TableLockEntry \cup {NoLock},
         e.type = "WRITE" => \E h \in Threads : e.holders = {h},
         AcquireGranted(th, e, type)
  PROVE  LET n == AcquireEntry(th, e, type)
         IN  /\ n \in TableLockEntry
             /\ n.type = "WRITE" => n.holders = {th}
PROOF
  <1>0. e.holders \subseteq Threads /\ e.holders \cup {th} \in (SUBSET Threads) \ {{}}
    <2>1. e.holders \subseteq Threads
      BY NoLockFacts DEF TableLockEntry
    <2>2. th \in e.holders \cup {th}
      OBVIOUS
    <2> QED
      BY <2>1, <2>2
  <1>1. CASE e = NoLock
    BY <1>0, <1>1, NoLockFacts DEF AcquireEntry, TableLockEntry
  <1>2. CASE e # NoLock
    <2>1. e \in TableLockEntry
      BY <1>2
    <2>2. CASE SoleHolder(th, e)
      BY <1>0, <1>2, <2>1, <2>2 DEF AcquireEntry, SoleHolder, TableLockEntry, LockType
    <2>3. CASE ~SoleHolder(th, e)
      <3>1. type = "READ" /\ (th \in e.holders \/ e.type = "READ")
        BY <1>2, <2>3 DEF AcquireGranted
      <3>2. e.type = "READ"
        BY <2>1, <2>3, <3>1 DEF SoleHolder, TableLockEntry, LockType
      <3> QED
        BY <1>0, <1>2, <2>1, <2>3, <3>2 DEF AcquireEntry, TableLockEntry, LockType
    <2> QED
      BY <2>2, <2>3
  <1> QED
    BY <1>1, <1>2

\* A release leaves an entry with holders or none, never with more holders.
LEMMA ReleaseKeepsEntry ==
  ASSUME NEW th \in Threads,
         NEW e \in TableLockEntry \cup {NoLock},
         e.type = "WRITE" => \E h \in Threads : e.holders = {h}
  PROVE  LET n == ReleasedEntry(th, e)
         IN  /\ n \in TableLockEntry \cup {NoLock}
             /\ n # NoLock => n.type = e.type /\ n.holders = e.holders \ {th}
             /\ n.type = "WRITE" => \E h \in Threads : n.holders = {h}
PROOF
  <1>1. CASE e.holders \ {th} = {}
    BY <1>1, NoLockFacts DEF ReleasedEntry
  <1>2. CASE e.holders \ {th} # {}
    <2>1. e \in TableLockEntry
      BY <1>2, NoLockFacts
    <2>2. ReleasedEntry(th, e) = [e EXCEPT !.holders = @ \ {th}]
      BY <1>2 DEF ReleasedEntry
    <2>3. /\ ReleasedEntry(th, e) \in TableLockEntry
          /\ ReleasedEntry(th, e).type = e.type
          /\ ReleasedEntry(th, e).holders = e.holders \ {th}
      BY <1>2, <2>1, <2>2 DEF TableLockEntry
    <2> QED
      BY <1>2, <2>3
  <1> QED
    BY <1>1, <1>2

\* One step per operation of lock_manager.hpp preserves the invariant.
LEMMA LockInvStep == LockInv /\ [Next]_vars => LockInv'
PROOF
  <1> SUFFICES ASSUME LockInv, [Next]_vars PROVE LockInv'
    OBVIOUS
  <1> USE DEF LockInv
  <1>1. ASSUME NEW th \in Threads, NEW t \in Tables, NEW k \in RowKeys,
               AcquireRowLock(th, t, k)
        PROVE  LockInv'
    BY <1>1 DEF AcquireRowLock, TypeOK, WriteLockIsExclusive
  <1>2. ASSUME NEW th \in Threads, NEW t \in Tables, NEW type \in LockType,
               AcquireTableLock(th, t, type)
        PROVE  LockInv'
    <2> DEFINE n == AcquireEntry(th, tableLocks[t], type)
    <2>1. /\ n \in TableLockEntry
          /\ n.type = "WRITE" => n.holders = {th}
      BY <1>2, AcquireKeepsEntry
         DEF AcquireTableLock, TypeOK, WriteLockIsExclusive
    <2>2. /\ tableLocks' = [tableLocks EXCEPT ![t] = n]
          /\ rowLocks' = rowLocks
      BY <1>2 DEF AcquireTableLock
    <2> HIDE DEF n
    <2>3. TypeOK'
      BY <2>1, <2>2 DEF TypeOK
    <2>4. WriteLockIsExclusive'
      BY <2>1, <2>2 DEF TypeOK, WriteLockIsExclusive
    <2> QED
      BY <2>3, <2>4
  <1>3. ASSUME NEW th \in Threads,
               rowLocks' = [r \in Tables \X RowKeys |-> ReleasedRow(th, rowLocks[r])]
        PROVE  rowLocks' \in [Tables \X RowKeys -> Threads \cup {NoThread}]
    BY <1>3 DEF TypeOK, ReleasedRow
  <1>4. ASSUME NEW th \in Threads,
               tableLocks' = [t \in Tables |-> ReleasedEntry(th, tableLocks[t])]
        PROVE  /\ tableLocks' \in [Tables -> TableLockEntry \cup {NoLock}]
               /\ WriteLockIsExclusive'
    <2>1. \A t \in Tables :
            LET n == ReleasedEntry(th, tableLocks[t])
            IN  /\ n \in TableLockEntry \cup {NoLock}
                /\ n.type = "WRITE" => \E h \in Threads : n.holders = {h}
      BY ReleaseKeepsEntry DEF TypeOK, WriteLockIsExclusive
    <2> QED
      BY <1>4, <2>1 DEF WriteLockIsExclusive
  <1>5. ASSUME NEW th \in Threads, ReleaseRowLocks(th) PROVE LockInv'
    BY <1>5, <1>3 DEF ReleaseRowLocks, TypeOK, WriteLockIsExclusive
  <1>6. ASSUME NEW th \in Threads, ReleaseTableLocks(th) PROVE LockInv'
    BY <1>6, <1>4 DEF ReleaseTableLocks, TypeOK
  <1>7. ASSUME NEW th \in Threads, ReleaseAllLocks(th) PROVE LockInv'
    BY <1>7, <1>3, <1>4 DEF ReleaseAllLocks, TypeOK
  <1>8. CASE UNCHANGED vars
    BY <1>8 DEF vars, TypeOK, WriteLockIsExclusive
  <1> QED
    BY <1>1, <1>2, <1>5, <1>6, <1>7, <1>8 DEF Next

\* LOCK TABLE is exclusive for WRITE in every behaviour of the lock manager,
\* for any number of threads and tables.
THEOREM LocksAreExclusive == Spec => [](TypeOK /\ WriteLockIsExclusive)
PROOF
  <1>1. Init => LockInv
    BY NoLockFacts DEF Init, LockInv, TypeOK, WriteLockIsExclusive
  <1>2. LockInv => TypeOK /\ WriteLockIsExclusive
    BY DEF LockInv
  <1> QED
    BY <1>1, <1>2, LockInvStep, PTL DEF Spec
-----------------------------------------------------------------------------
\* SELECT ... FOR UPDATE: no step of any thread takes a row lock over.
THEOREM RowLocksAreNotStolen == Spec => RowLockNotStolen
PROOF
  <1>1. Init => LockInv
    BY NoLockFacts DEF Init, LockInv, TypeOK, WriteLockIsExclusive
  <1>2. ASSUME LockInv, [Next]_vars, NEW r \in Tables \X RowKeys,
               rowLocks[r] # NoThread
        PROVE  rowLocks'[r] \in {rowLocks[r], NoThread}
    BY <1>2 DEF Next, vars, LockInv, TypeOK, AcquireRowLock, AcquireTableLock,
                ReleaseRowLocks, ReleaseTableLocks, ReleaseAllLocks, ReleasedRow
  <1>3. LockInv /\ [Next]_vars =>
          [\A r \in Tables \X RowKeys :
             rowLocks[r] # NoThread => rowLocks'[r] \in {rowLocks[r], NoThread}]_vars
    BY <1>2
  <1> QED
    BY <1>1, <1>3, LockInvStep, PTL DEF Spec, RowLockNotStolen

Readers == [t \in Tables |-> IF tableLocks[t].type = "READ"
                             THEN tableLocks[t].holders ELSE {}]
Writers == [t \in Tables |-> IF tableLocks[t].type = "WRITE"
                             THEN tableLocks[t].holders ELSE {}]

\* UNLOCK TABLES is the abstract ReleaseAll, in whatever mode the thread holds.
LEMMA ReleaseIsAbstractRelease ==
  ASSUME LockInv, NEW th \in Threads,
         tableLocks' = [t \in Tables |-> ReleasedEntry(th, tableLocks[t])]
  PROVE  /\ Readers' = [t \in Tables |-> Readers[t] \ {th}]
         /\ Writers' = [t \in Tables |-> Writers[t] \ {th}]
PROOF
  <1>1. \A t \in Tables :
          /\ Readers'[t] = Readers[t] \ {th}
          /\ Writers'[t] = Writers[t] \ {th}
    <2> SUFFICES ASSUME NEW t \in Tables
                 PROVE  /\ Readers'[t] = Readers[t] \ {th}
                        /\ Writers'[t] = Writers[t] \ {th}
      OBVIOUS
    <2>1. tableLocks'[t] = ReleasedEntry(th, tableLocks[t])
      OBVIOUS
    <2>2. CASE tableLocks[t].holders \ {th} = {}
      <3>1. tableLocks'[t] = NoLock
        BY <2>1, <2>2 DEF ReleasedEntry
      <3> QED
        BY <2>2, <3>1, NoLockFacts DEF Readers, Writers
    <2>3. CASE tableLocks[t].holders \ {th} # {}
      <3>1. tableLocks[t] \in TableLockEntry
        BY <2>3, NoLockFacts DEF LockInv, TypeOK
      <3>2. /\ tableLocks'[t].type = tableLocks[t].type
            /\ tableLocks'[t].holders = tableLocks[t].holders \ {th}
        BY <2>1, <2>3, <3>1 DEF ReleasedEntry, TableLockEntry
      <3> QED
        BY <3>2 DEF Readers, Writers
    <2> QED
      BY <2>2, <2>3
  <1> QED
    BY <1>1 DEF Readers, Writers

\* LOCK TABLE is the abstract grant of the mode that was asked for; a READ that
\* joins other READs, and the re-acquire of one reader among several, too.
LEMMA AcquireIsAbstractGrant ==
  ASSUME LockInv, NEW th \in Threads, NEW t \in Tables, NEW type \in LockType,
         AcquireTableLock(th, t, type)
  PROVE  RW!GrantRead(th, t) \/ RW!GrantWrite(th, t)
PROOF
  <1> DEFINE e == tableLocks[t]
             n == AcquireEntry(th, e, type)
  <1>1. tableLocks' = [tableLocks EXCEPT ![t] = n] /\ AcquireGranted(th, e, type)
    BY DEF AcquireTableLock
  <1>2. e \in TableLockEntry \cup {NoLock} /\ tableLocks \in [Tables -> TableLockEntry \cup {NoLock}]
    BY DEF LockInv, TypeOK
  <1>3. n.holders = e.holders \cup {th} /\ n.type \in LockType
    BY <1>1, <1>2, AcquireKeepsEntry
       DEF LockInv, WriteLockIsExclusive, AcquireEntry, TableLockEntry
  <1>4. n.type = "WRITE" => n.holders = {th}
    BY <1>1, <1>2, AcquireKeepsEntry DEF LockInv, WriteLockIsExclusive
  <1>5. n.type = "READ" /\ e.type = "WRITE" => e.holders = {th}
    BY <1>1, <1>2, NoLockFacts DEF AcquireGranted, AcquireEntry, SoleHolder
  <1>6. e.type = "NONE" => e.holders = {}
    BY <1>2, NoLockFacts DEF TableLockEntry, LockType
  <1>7. e.type \in LockType \cup {"NONE"}
    BY <1>2, NoLockFacts DEF TableLockEntry
  <1> HIDE DEF n, e
  <1>8. /\ Readers' = [Readers EXCEPT ![t] = IF n.type = "READ" THEN n.holders ELSE {}]
        /\ Writers' = [Writers EXCEPT ![t] = IF n.type = "WRITE" THEN n.holders ELSE {}]
    BY <1>1, <1>2 DEF Readers, Writers
  <1>9. /\ Readers[t] = IF e.type = "READ" THEN e.holders ELSE {}
        /\ Writers[t] = IF e.type = "WRITE" THEN e.holders ELSE {}
    BY DEF Readers, Writers, e
  <1>10. CASE n.type = "READ"
    <2>1. Writers[t] \subseteq {th}
      BY <1>5, <1>9, <1>10
    <2>2. n.holders = Readers[t] \cup {th}
      BY <1>3, <1>5, <1>6, <1>7, <1>9, <1>10 DEF LockType
    <2> QED
      BY <1>8, <1>10, <2>1, <2>2 DEF RW!GrantRead, Readers, Writers
  <1>11. CASE n.type = "WRITE"
    <2>1. Readers[t] \cup Writers[t] \subseteq {th}
      BY <1>3, <1>4, <1>9, <1>11
    <2> QED
      BY <1>4, <1>8, <1>11, <2>1 DEF RW!GrantWrite, Readers, Writers
  <1> QED
    BY <1>3, <1>10, <1>11 DEF LockType

\* LOCK TABLE and UNLOCK TABLES behave as a readers-writer lock per table, for
\* any number of threads and tables.
THEOREM TableLocksImplementReadersWriterLock ==
  Spec => ImplementsReadersWriterLock
PROOF
  <1>1. Init => LockInv /\ RW!Init
    BY NoLockFacts DEF Init, RW!Init, LockInv, TypeOK, WriteLockIsExclusive
  <1>2. LockInv /\ [Next]_vars => [RW!Next]_(RW!vars)
    <2> SUFFICES ASSUME LockInv, [Next]_vars PROVE [RW!Next]_(RW!vars)
      OBVIOUS
    <2>1. CASE UNCHANGED tableLocks
      BY <2>1 DEF RW!vars
    <2>2. ASSUME NEW th \in Threads, NEW t \in Tables, NEW type \in LockType,
                 AcquireTableLock(th, t, type)
          PROVE  RW!Next
      BY <2>2, AcquireIsAbstractGrant DEF RW!Next
    <2>3. ASSUME NEW th \in Threads,
                 tableLocks' = [t \in Tables |-> ReleasedEntry(th, tableLocks[t])]
          PROVE  RW!Next
      BY <2>3, ReleaseIsAbstractRelease DEF RW!Next, RW!ReleaseAll, Readers, Writers
    <2> QED
      BY <2>1, <2>2, <2>3
         DEF Next, vars, AcquireRowLock, ReleaseRowLocks, ReleaseTableLocks,
             ReleaseAllLocks
  <1> QED
    BY <1>1, <1>2, LockInvStep, PTL DEF Spec, ImplementsReadersWriterLock, RW!Spec
=============================================================================
