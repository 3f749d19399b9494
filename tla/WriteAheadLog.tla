--------------------------- MODULE WriteAheadLog ---------------------------
(***************************************************************************)
(* The write-ahead log of one session, from both ends: the records that    *)
(* beginTransaction, appendWal, applyAndCommit and rollbackTransaction     *)
(* (src/engine/engine.hpp) append, and what scanWal and recover            *)
(* (src/wal/wal_recovery.hpp) make of the file after a crash.              *)
(*                                                                         *)
(* A record is a line, or an operation's lines up to "---".  TS lines are  *)
(* skipped by the scan and left out.  A CRC is that of the commit line     *)
(* before it; a damaged one matches none.  A crash keeps the records up to *)
(* the last fsync and any number after it, the last one perhaps torn: what *)
(* is left of an id is read as a shorter id.                               *)
(*                                                                         *)
(* Startup gives recover database.milan.wal only (src/main.cpp), while a   *)
(* session logs to a file of its own: what a crash leaves of that file is  *)
(* still there when ids start over, and the session appends to it.         *)
(***************************************************************************)
EXTENDS Selections

CONSTANTS Ops,          \* operations a statement can log
          MaxOps,       \* bound: operations of a transaction
          MaxRecords,   \* bound: records in the file when one is added
          MaxSpoiled,   \* bound: records in a file that fails, or that a restart left
          MaxTxId,      \* bound: transactions that start
          Radix         \* of a written id: 10, or less to have ids of several digits

VARIABLES file,     \* the records in the file; <<>> also when it does not exist
          synced,   \* how many of them are on disk
          tx,       \* the open transaction: its id (0 when there is none), its buffer
                    \* and, as history, whether statements of it were undone
          lastId,   \* the latest transaction id
          logged,   \* history: the transactions committed to this file, in order
          spoiled   \* history: what the file has met, "failed" when it could not be opened,
                    \* synced or removed, "restarted" when it is older than the process

vars == <<file, synced, tx, lastId, logged, spoiled>>

BeginRec(id) == [type |-> "TX_BEGIN", id |-> id]
OpRec(op) == [type |-> "OP", op |-> op]
CommitRec(id) == [type |-> "TX_COMMIT", id |-> id]
CrcRec(id) == [type |-> "CRC", id |-> id]
RollbackRec(id) == [type |-> "TX_ROLLBACK", id |-> id]

NoTx == [id |-> 0, buffer |-> <<>>, undone |-> FALSE]

\* rollbackTransaction is between its record and the removal of the file.
RollingBack == file # <<>> /\ file[Len(file)].type = "TX_ROLLBACK"

\* The shape of the state; an open transaction has its TX_BEGIN in the file.
TypeOK ==
  /\ synced \in 0 .. Len(file)
  /\ lastId \in 0 .. MaxTxId
  /\ tx.id \in 0 .. lastId /\ tx.buffer \in Seq(Ops)
  /\ spoiled \in SUBSET {"failed", "restarted"}
  /\ spoiled = {} /\ tx.id # 0 => \E i \in DOMAIN file : file[i] = BeginRec(tx.id)

Init == file = <<>> /\ synced = 0 /\ tx = NoTx /\ lastId = 0 /\ logged = <<>> /\ spoiled = {}

\* The file cannot be opened, synced or removed.
Fails == Len(file) <= MaxSpoiled /\ spoiled' = spoiled \cup {"failed"}

\* The file becomes new, unless it cannot be opened: then nothing is written, and the
\* session does not notice.
Writes(new) ==
  \/ file' = new /\ UNCHANGED spoiled
  \/ UNCHANGED file /\ Fails

\* The bounds leave room for a record.
HasRoom == Len(file) < (IF spoiled = {} THEN MaxRecords ELSE MaxSpoiled)

\* deleteWal, which does not ask whether the removal failed.
Removes ==
  \/ file' = <<>> /\ synced' = 0 /\ logged' = <<>> /\ spoiled' = {}
  \/ UNCHANGED <<file, synced, logged>> /\ Fails

\* The session is through with its last COMMIT or ROLLBACK: the sync was done, or failed.
Settled == tx.id = 0 /\ (synced = Len(file) \/ "failed" \in spoiled)
-----------------------------------------------------------------------------
(* The session *)

Begin ==
  /\ Settled /\ lastId < MaxTxId /\ HasRoom
  /\ lastId' = lastId + 1
  /\ tx' = [NoTx EXCEPT !.id = lastId']
  /\ Writes(Append(file, BeginRec(lastId')))
  /\ UNCHANGED <<synced, logged>>

\* A statement of the transaction: appendWal, then txBuffer.push_back.
BufferOp(op) ==
  /\ tx.id # 0 /\ Len(tx.buffer) < MaxOps /\ HasRoom
  /\ Writes(Append(file, OpRec(op)))
  /\ tx' = [tx EXCEPT !.buffer = Append(@, op)]
  /\ UNCHANGED <<synced, lastId, logged>>

\* rollbackToSavepoint shortens the buffer and writes nothing.
RollbackToSavepoint(n) ==
  /\ tx.id # 0 /\ n < Len(tx.buffer)
  /\ tx' = [tx EXCEPT !.buffer = SubSeq(@, 1, n), !.undone = TRUE]
  /\ UNCHANGED <<file, synced, lastId, logged, spoiled>>

\* Mutant: the commit line is written first, the checksum is computed of nothing.
CommitRecords_NoCrc(id) == <<CommitRec(id), CrcRec(0)>>
CommitRecords(id) == <<CommitRec(id), CrcRec(id)>>

\* applyAndCommit writes the commit record ...
WriteCommit ==
  /\ tx.id # 0
  /\ Writes(file \o CommitRecords(tx.id))
  /\ logged' = Append(logged, tx)
  /\ tx' = NoTx
  /\ UNCHANGED <<synced, lastId>>

\* ... and syncs it, if the file can be opened.
SyncCommit ==
  /\ tx.id = 0 /\ synced < Len(file) /\ ~RollingBack
  /\ \/ synced' = Len(file) /\ UNCHANGED spoiled
     \/ UNCHANGED synced /\ Fails
  /\ UNCHANGED <<file, tx, lastId, logged>>

\* persist succeeded: deleteWal.  After a failed persist the file stays, and the
\* session's next transaction is appended to it.
DeleteWal == Settled /\ Removes /\ UNCHANGED <<tx, lastId>>

\* rollbackTransaction writes TX_ROLLBACK ...
WriteRollback ==
  /\ tx.id # 0
  /\ Writes(Append(file, RollbackRec(tx.id)))
  /\ tx' = NoTx
  /\ UNCHANGED <<synced, lastId, logged>>

\* ... and then removes the file, older commits in it included.
RemoveLog == tx.id = 0 /\ RollingBack /\ synced < Len(file) /\ Removes /\ UNCHANGED <<tx, lastId>>
-----------------------------------------------------------------------------
(* scanWal and recover *)

NewEntry(id) == [txId |-> id, committed |-> FALSE, rolledBack |-> FALSE, ops |-> <<>>]

\* The first entry of an id, as the loops with "break" find it.
First(entries, id) ==
  LET found == {i \in DOMAIN entries : entries[i].txId = id}
  IN  IF found = {} THEN 0 ELSE CHOOSE i \in found : \A j \in found : i <= j
SetCommitted(entries, id, v) ==
  [i \in DOMAIN entries |->
     IF i = First(entries, id) THEN [entries[i] EXCEPT !.committed = v] ELSE entries[i]]
SetRolledBack(entries, id) ==
  [i \in DOMAIN entries |->
     IF i = First(entries, id) THEN [entries[i] EXCEPT !.rolledBack = TRUE] ELSE entries[i]]

\* pendingCommitLines is ordered by id: a CRC line checks the largest one.
LargestId(ids) == CHOOSE id \in ids : \A other \in ids : other <= id

ScanCrc(st, crc) ==
  IF st.pending = {} THEN st
  ELSE LET id == LargestId(st.pending)
       IN  [st EXCEPT !.pending = @ \ {id},
                      !.entries = IF crc = id THEN @ ELSE SetCommitted(@, id, FALSE)]

\* One record of scanWal's loop; current is the index of the open entry, 0 if none.
ScanRecord(st, r) ==
  CASE r.type = "TX_BEGIN" ->
         [st EXCEPT !.entries = Append(@, NewEntry(r.id)), !.current = Len(st.entries) + 1]
    [] r.type = "TX_COMMIT" ->
         [st EXCEPT !.entries = SetCommitted(@, r.id, TRUE),
                    !.pending = @ \cup {r.id}, !.current = 0]
    [] r.type = "CRC" -> ScanCrc(st, r.id)
    [] r.type = "TX_ROLLBACK" ->
         [st EXCEPT !.entries = SetRolledBack(@, r.id), !.current = 0]
    [] r.type = "OP" ->
         IF st.current = 0 THEN st
         ELSE [st EXCEPT !.entries[st.current].ops = Append(@, r.op)]

\* scanWal: the state of its loop after each record, and the entries at the end.
ScanStart == [entries |-> <<>>, current |-> 0, pending |-> {}]
ScanWal(records) ==
  LET after[n \in 0 .. Len(records)] ==
        IF n = 0 THEN ScanStart ELSE ScanRecord(after[n - 1], records[n])
  IN  after[Len(records)].entries

\* recover replays the committed entries in the order of the file.
Replayed(entries) == Picked(entries, {i \in DOMAIN entries : entries[i].committed})
Recovered(records) ==
  LET entries == Replayed(ScanWal(records))
  IN  [i \in DOMAIN entries |-> [id |-> entries[i].txId, buffer |-> entries[i].ops]]

\* The ids that are left of an id when its last digits are not written.
Cut(id) == {m \in 1 .. id - 1 : \E k \in 1 .. id : m = id \div Radix^k}

\* What a torn record is read as, unless it is no record: a torn operation, or a line
\* without a digit, is none, and a torn checksum is a wrong one.
Torn(r) ==
  CASE r.type = "CRC" -> {CrcRec(0)}
    [] r.type = "OP" -> {}
    [] OTHER -> {[r EXCEPT !.id = id] : id \in Cut(r.id)}

\* What a crash can leave.
Survivors ==
  LET kept(n) == SubSeq(file, 1, n)
  IN  {kept(n) : n \in synced .. Len(file)}
        \cup UNION {{Append(kept(n), r) : r \in Torn(file[n + 1])} : n \in synced .. Len(file) - 1}

\* Crash and restart: startup does not look at the session's file, and ids start over.
CrashAndRestart ==
  /\ file' \in Survivors /\ synced' = Len(file')
  /\ spoiled' = IF file' = <<>> THEN {} ELSE spoiled \cup {"restarted"}
  /\ tx' = NoTx /\ lastId' = 0 /\ logged' = <<>>

Next ==
  \/ Begin \/ WriteCommit \/ SyncCommit \/ DeleteWal \/ WriteRollback \/ RemoveLog \/ CrashAndRestart
  \/ \E op \in Ops : BufferOp(op)
  \/ \E n \in 0 .. MaxOps - 1 : RollbackToSavepoint(n)

Spec == Init /\ [][Next]_vars
-----------------------------------------------------------------------------
\* A replayed entry is the committed transaction: its id and, unless it used
\* ROLLBACK TO SAVEPOINT, exactly the operations that COMMIT applied, in order.
SameTx(entry, t) == entry.id = t.id /\ (~t.undone => entry.buffer = t.buffer)

\* A session's file that met no failure and no restart is one that recovery can read:
\* whatever a crash leaves of it, scanWal and recover replay committed transactions only,
\* in their order, and all of them once the commit record of the last is synced.
ReplaysTheCommitted ==
  spoiled = {} =>
    \A records \in Survivors :
      LET replayed == Recovered(records)
      IN  /\ Len(replayed) <= Len(logged) /\ (synced = Len(file) => Len(replayed) = Len(logged))
          /\ \A i \in DOMAIN replayed : SameTx(replayed[i], logged[i])
=============================================================================
