----------------------------- MODULE Durability -----------------------------
(***************************************************************************)
(* COMMIT across a crash: dispatch.hpp applies the buffer, logs and syncs  *)
(* TX_COMMIT, persists the whole database, deletes the log and answers;    *)
(* main.cpp loads the database file and recovers the log at startup.       *)
(*                                                                         *)
(* The server runs a statement under engineMutex_ (busy) and reports a     *)
(* failed persist to the client.  The REPL is one session whose persist    *)
(* swallows the failure, next to a write-behind thread without any lock.   *)
(*                                                                         *)
(* The save() of a statement is one step here; AtomicFile models it in     *)
(* detail and WriteAheadLog models the content of a log.  A row <<t, i>>   *)
(* stands for the i-th change of transaction t: one per buffered operation *)
(* and, as <<t, 0>>, what its statements change at once, before COMMIT.  A *)
(* statement outside a transaction makes all its changes in one step and   *)
(* has no log.                                                             *)
(***************************************************************************)
EXTENDS Naturals, FiniteSets

CONSTANTS Sessions,
          NoSession,
          ReplSession,      \* the only session of the REPL
          BaseLog,          \* the file database.milan.wal
          Steps,            \* operations of a transaction
          MaxTx             \* bound: transactions and single statements

ASSUME DurabilityAssumption ==
  /\ NoSession \notin Sessions /\ BaseLog \notin Sessions
  /\ ReplSession \in Sessions
  /\ Steps \in Nat \ {0} /\ MaxTx \in Nat

VARIABLES repl,     \* the process is the REPL, not the HTTP server; never changes
          up,       \* the process runs
          mem,      \* the rows <<tx, i>> in the tables
          disk,     \* the rows in the database file
          wal,      \* log file -> the transactions with a synced TX_COMMIT in it
          dirty,    \* the buffer pool has dirty pages
          session,  \* session -> where its statement is, its transaction, its progress
          busy,     \* the session that holds engineMutex_, or NoSession
          flusher,  \* what the write-behind thread does next
          image,    \* the rows in the tables when the write-behind thread began to read them
          lastTx,   \* the latest transaction
          acked,    \* history: transactions whose client was told success
          failed,   \* history: transactions whose save failed, as their client was told
          half,     \* history: transactions whose COMMIT, and INSERTs of several rows, that
                    \* failed half way, as their client was told
          raced,    \* history: transactions whose save overlapped one of the write-behind thread
          logged    \* history: transactions whose TX_COMMIT was synced

told == <<acked, failed, half>>
history == <<told, raced, logged>>
background == <<flusher, image>>
vars == <<repl, up, mem, disk, wal, dirty, session, busy, background, lastTx, history>>

\* beginTransaction appends ".sess_" and the session to the name of the log.
LogOf(s) == s

Txs == 1 .. MaxTx
Rows == Txs \X (0 .. Steps)
RowsOf(t) == {t} \X (1 .. Steps)
Idle == [pc |-> "idle", tx |-> 0, done |-> 0]
SessionState == [pc : {"idle", "open", "apply", "log", "persist", "deleteWal", "direct"},
                 tx : 0 .. MaxTx, done : 0 .. Steps]

\* The shape of the state.
TypeOK ==
  /\ repl \in BOOLEAN /\ up \in BOOLEAN /\ dirty \in BOOLEAN
  /\ mem \subseteq Rows /\ disk \subseteq Rows /\ image \subseteq Rows
  /\ wal \in [Sessions \cup {BaseLog} -> SUBSET Txs]
  /\ session \in [Sessions -> SessionState]
  /\ busy \in Sessions \cup {NoSession}
  /\ flusher \in {"sleep", "save", "clean"}
  /\ lastTx \in 0 .. MaxTx
  /\ acked \subseteq Txs /\ failed \subseteq Txs /\ half \subseteq Txs
  /\ raced \subseteq Txs /\ logged \subseteq Txs

Init ==
  /\ repl \in BOOLEAN
  /\ up = TRUE /\ mem = {} /\ disk = {} /\ dirty = FALSE
  /\ wal = [l \in Sessions \cup {BaseLog} |-> {}]
  /\ session = [s \in Sessions |-> Idle]
  /\ busy = NoSession /\ flusher = "sleep" /\ image = {}
  /\ lastTx = 0 /\ acked = {} /\ failed = {} /\ half = {} /\ raced = {} /\ logged = {}
-----------------------------------------------------------------------------
(* Statements.  One holds the mutex from its first step to its answer. *)

At(s, pc) == up /\ (repl => s = ReplSession) /\ session[s].pc = pc
Free == up /\ busy = NoSession
Answer(s) == session' = [session EXCEPT ![s] = Idle] /\ busy' = NoSession

Begin(s) ==
  /\ Free /\ At(s, "idle") /\ lastTx < MaxTx
  /\ lastTx' = lastTx + 1
  /\ session' = [session EXCEPT ![s] = [pc |-> "open", tx |-> lastTx', done |-> 0]]
  /\ UNCHANGED <<repl, up, mem, disk, wal, dirty, busy, background, history>>

\* A statement of the transaction changes tables at once: an UPDATE with an expression, the
\* action of a foreign key, TRUNCATE.  persistFn returns while the transaction is open.
ChangeAtOnce(s) ==
  /\ Free /\ At(s, "open")
  /\ mem' = mem \cup {<<session[s].tx, 0>>}
  /\ UNCHANGED <<repl, up, disk, wal, dirty, session, busy, background, lastTx, history>>

\* COMMIT arrives.
Commit(s) ==
  /\ Free /\ At(s, "open")
  /\ busy' = s
  /\ session' = [session EXCEPT ![s].pc = "apply"]
  /\ UNCHANGED <<repl, up, mem, disk, wal, dirty, background, lastTx, history>>

\* Mutant: the loop ends after the first operation.
ApplyOp_StopsEarly(s) ==
  /\ At(s, "apply")
  /\ mem' = mem \cup {<<session[s].tx, session[s].done + 1>>}
  /\ session' = [session EXCEPT ![s].done = @ + 1, ![s].pc = "log"]
  /\ UNCHANGED <<repl, up, disk, wal, dirty, busy, background, lastTx, history>>
\* applyAndCommit: one operation of the buffer.  No page is marked dirty.
ApplyOp(s) ==
  /\ At(s, "apply")
  /\ mem' = mem \cup {<<session[s].tx, session[s].done + 1>>}
  /\ session' = [session EXCEPT ![s].done = @ + 1,
                                ![s].pc = IF session[s].done + 1 = Steps THEN "log" ELSE "apply"]
  /\ UNCHANGED <<repl, up, disk, wal, dirty, busy, background, lastTx, history>>

\* applyOp throws, as on a UNIQUE conflict: what was applied before it stays in the tables,
\* nothing is logged or saved, and the transaction stays open with its whole buffer.
ApplyOpThrows(s) ==
  /\ At(s, "apply")
  /\ half' = half \cup {session[s].tx}
  /\ session' = [session EXCEPT ![s].done = 0, ![s].pc = "open"]
  /\ busy' = NoSession
  /\ UNCHANGED <<repl, up, mem, disk, wal, dirty, background, lastTx, acked, failed, raced, logged>>

\* Mutant: the database is not saved.
LogCommit_NoPersist(s) ==
  /\ At(s, "log")
  /\ wal' = [wal EXCEPT ![LogOf(s)] = @ \cup {session[s].tx}]
  /\ logged' = logged \cup {session[s].tx}
  /\ session' = [session EXCEPT ![s].pc = "deleteWal"]
  /\ UNCHANGED <<repl, up, mem, disk, dirty, busy, background, lastTx, told, raced>>
\* applyAndCommit: TX_COMMIT, fsync of the log and of its directory.
LogCommit(s) ==
  /\ At(s, "log")
  /\ wal' = [wal EXCEPT ![LogOf(s)] = @ \cup {session[s].tx}]
  /\ logged' = logged \cup {session[s].tx}
  /\ session' = [session EXCEPT ![s].pc = "persist"]
  /\ UNCHANGED <<repl, up, mem, disk, dirty, busy, background, lastTx, told, raced>>

\* A statement saves, or tries to, while the write-behind thread may be at it.
Saves(s) == raced' = IF flusher = "save" THEN raced \cup {session[s].tx} ELSE raced

\* persistFn() succeeds.
Persist(s) ==
  /\ At(s, "persist") /\ Saves(s)
  /\ disk' = mem
  /\ session' = [session EXCEPT ![s].pc = "deleteWal"]
  /\ UNCHANGED <<repl, up, mem, wal, dirty, busy, background, lastTx, told, logged>>

\* The server's persistFn rethrows: the client gets an error and the log stays.
\* The REPL's persist prints a warning and returns, and COMMIT goes on.
PersistFails(s) ==
  /\ At(s, "persist") /\ Saves(s)
  /\ failed' = failed \cup {session[s].tx}
  /\ IF repl THEN session' = [session EXCEPT ![s].pc = "deleteWal"] /\ busy' = busy
             ELSE Answer(s)
  /\ UNCHANGED <<repl, up, mem, disk, wal, dirty, background, lastTx, acked, half, logged>>

\* deleteWal, and the answer to the client.
DeleteWal(s) ==
  /\ At(s, "deleteWal")
  /\ wal' = [wal EXCEPT ![LogOf(s)] = {}]
  /\ acked' = acked \cup {session[s].tx}
  /\ Answer(s)
  /\ UNCHANGED <<repl, up, mem, disk, dirty, background, lastTx, failed, half, raced, logged>>

\* ROLLBACK drops the buffer and the session's log.
Rollback(s) ==
  /\ Free /\ At(s, "open")
  /\ wal' = [wal EXCEPT ![LogOf(s)] = {}]
  /\ Answer(s)
  /\ UNCHANGED <<repl, up, mem, disk, dirty, background, lastTx, history>>

\* An INSERT outside a transaction changes the table and marks its page dirty.
Direct(s) ==
  /\ Free /\ At(s, "idle") /\ lastTx < MaxTx
  /\ lastTx' = lastTx + 1
  /\ mem' = mem \cup RowsOf(lastTx') /\ dirty' = TRUE
  /\ busy' = s
  /\ session' = [session EXCEPT ![s] = [pc |-> "direct", tx |-> lastTx', done |-> Steps]]
  /\ UNCHANGED <<repl, up, disk, wal, background, history>>

\* An INSERT of several rows fails at a later one: the rows before it stay, and no save follows.
DirectThrows(s) ==
  /\ Free /\ At(s, "idle") /\ lastTx < MaxTx
  /\ lastTx' = lastTx + 1
  /\ \E n \in 1 .. Steps - 1 : mem' = mem \cup {lastTx'} \X (1 .. n)
  /\ dirty' = TRUE
  /\ half' = half \cup {lastTx'}
  /\ UNCHANGED <<repl, up, disk, wal, session, busy, background, acked, failed, raced, logged>>

\* Direct goes on: it persists and answers.
PersistDirect(s) ==
  /\ At(s, "direct") /\ Saves(s)
  /\ disk' = mem
  /\ acked' = acked \cup {session[s].tx}
  /\ Answer(s)
  /\ UNCHANGED <<repl, up, mem, wal, dirty, background, lastTx, failed, half, logged>>

\* Mutant: the server swallows the failure of a persist.
PersistDirectFails_Silent(s) ==
  /\ At(s, "direct") /\ Saves(s)
  /\ Answer(s)
  /\ UNCHANGED <<repl, up, mem, disk, wal, dirty, background, lastTx, told, logged>>
PersistDirectFails(s) ==
  /\ At(s, "direct") /\ Saves(s)
  /\ failed' = failed \cup {session[s].tx}
  /\ acked' = IF repl THEN acked \cup {session[s].tx} ELSE acked
  /\ Answer(s)
  /\ UNCHANGED <<repl, up, mem, disk, wal, dirty, background, lastTx, half, logged>>
-----------------------------------------------------------------------------
(* The write-behind thread of the REPL takes no lock. *)

\* It begins to read the tables ...
FlusherWakes ==
  /\ repl /\ up /\ flusher = "sleep" /\ dirty
  /\ flusher' = "save" /\ image' = mem
  /\ UNCHANGED <<repl, up, mem, disk, wal, dirty, session, busy, lastTx, history>>

\* ... and renames what it read, with any part of what statements changed meanwhile, whatever
\* was saved meanwhile; or swallows the failure.
FlusherSaves ==
  /\ up /\ flusher = "save"
  /\ disk' = disk \/ \E seen \in SUBSET (mem \ image) : disk' = image \cup seen
  /\ flusher' = "clean" /\ image' = {}
  /\ UNCHANGED <<repl, up, mem, wal, dirty, session, busy, lastTx, history>>

FlusherMarksClean ==
  /\ up /\ flusher = "clean"
  /\ dirty' = FALSE /\ flusher' = "sleep"
  /\ UNCHANGED <<repl, up, mem, disk, wal, session, busy, image, lastTx, history>>

Crash ==
  /\ up
  /\ up' = FALSE /\ mem' = {} /\ dirty' = FALSE
  /\ session' = [s \in Sessions |-> Idle]
  /\ busy' = NoSession /\ flusher' = "sleep" /\ image' = {}
  /\ UNCHANGED <<repl, disk, wal, lastTx, history>>

\* main: loadWithCount, then recover(database.milan.wal), which replays and
\* removes that file, then save.  The logs of the sessions are not opened.
Restart ==
  /\ ~up
  /\ up' = TRUE
  /\ mem' = disk \cup UNION {RowsOf(t) : t \in wal[BaseLog]}
  /\ wal' = [wal EXCEPT ![BaseLog] = {}]
  /\ disk' = mem'
  /\ UNCHANGED <<repl, dirty, session, busy, background, lastTx, history>>

Next ==
  \/ Crash \/ Restart \/ FlusherWakes \/ FlusherSaves \/ FlusherMarksClean
  \/ \E s \in Sessions :
       \/ Begin(s) \/ ChangeAtOnce(s) \/ Commit(s) \/ Rollback(s)
       \/ ApplyOp(s) \/ ApplyOpThrows(s) \/ LogCommit(s)
       \/ Persist(s) \/ PersistFails(s) \/ DeleteWal(s)
       \/ Direct(s) \/ DirectThrows(s) \/ PersistDirect(s) \/ PersistDirectFails(s)

Spec == Init /\ [][Next]_vars
-----------------------------------------------------------------------------
\* A COMMIT or a statement that was answered with success, without a warning that its
\* save failed, is in the database file from then on, whenever the process dies: in the server
\* always, in the REPL until the save of a statement overlaps one of the write-behind thread,
\* which can rename what it read before over what was answered.
AckedIsDurable == raced = {} => \A t \in acked \ failed : RowsOf(t) \subseteq disk

\* In the server the database file has all that a transaction buffered or nothing of it: a crash
\* between two operations of a COMMIT, or another session's save, exposes no half of it,
\* unless its client was told that its COMMIT or its INSERT failed half way.
DiskIsAtomic ==
  ~repl => \A t \in Txs \ half : RowsOf(t) \subseteq disk \/ RowsOf(t) \cap disk = {}

\* What a reader sees between two statements and a crash would take away again was reported to
\* its writer, as not saved or as failed half way, or was changed at once by a transaction
\* that has not committed.  In the REPL, until two saves overlap.
UnsavedIsReported ==
  Free /\ raced = {} =>
    \A row \in mem \ disk : row[1] \in failed \cup half \/ (row[2] = 0 /\ row[1] \notin acked)

\* "Replay WAL from last checkpoint to restore committed transactions": with its
\* TX_COMMIT on disk a transaction is in the tables after any restart.
LoggedIsRecovered == up => \A t \in logged : RowsOf(t) \subseteq mem
=============================================================================
