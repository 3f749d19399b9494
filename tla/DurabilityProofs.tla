-------------------------- MODULE DurabilityProofs --------------------------
(***************************************************************************)
(* Proofs about Durability: an answered COMMIT survives, the server's file *)
(* has whole transactions, and what is not saved was reported.             *)
(***************************************************************************)
EXTENDS Durability, TLAPS

\* The first n rows of transaction t are in rows.
Holds(rows, t, n) == \A i \in 1 .. n : <<t, i>> \in rows

\* How far a session's statement has got, and what is in memory and on disk by then.
SessionOK(s) ==
  /\ session[s].pc # "idle" => session[s].tx \in Txs
  /\ session[s].pc = "open" => session[s].done = 0
  /\ session[s].pc \in {"open", "apply"} => session[s].done < Steps
  /\ session[s].pc = "apply" => Holds(mem, session[s].tx, session[s].done)
  /\ session[s].pc \in {"log", "persist", "deleteWal", "direct"} => Holds(mem, session[s].tx, Steps)
  /\ session[s].pc = "deleteWal" /\ session[s].tx \notin failed /\ raced = {}
       => Holds(disk, session[s].tx, Steps)

\* The file is never ahead of the memory of a running process.
DiskInMem == up => disk \subseteq mem
DownIsEmpty == ~up => mem = {} /\ flusher = "sleep"
Durable == raced = {} => \A t \in acked \ failed : Holds(disk, t, Steps)

\* What the write-behind thread reads is not behind the file unless a statement saves meanwhile.
Reading == image \subseteq mem /\ (flusher = "save" /\ raced = {} => disk \subseteq image)

\* The inductive invariant.  AckedIsDurable alone is not inductive: an answer relies
\* on the save before it (SessionOK), the save on the operations before it, and no
\* later save takes rows away because memory, and the image that the write-behind thread
\* reads, have all the file has (DiskInMem, Reading).
DurInv ==
  /\ TypeOK /\ DiskInMem /\ DownIsEmpty /\ Durable /\ Reading
  /\ \A s \in Sessions : SessionOK(s)

\* RowsOf and Holds say the same.
LEMMA RowsAreHeld ==
  ASSUME NEW rows, NEW t
  PROVE  Holds(rows, t, Steps) <=> RowsOf(t) \subseteq rows
PROOF BY DEF Holds, RowsOf

\* Without overlapping saves no step of any thread takes rows out of the database file, and
\* only a crash takes rows out of memory.
LEMMA RowsStay ==
  ASSUME DurInv, [Next]_vars
  PROVE  /\ raced' = {} => raced = {} /\ disk \subseteq disk'
         /\ failed \subseteq failed' /\ half \subseteq half'
         /\ Crash \/ mem \subseteq mem'
PROOF
  <1> USE DEF history, told, background
  <1>1. CASE Crash
    BY <1>1 DEF Crash
  <1>2. CASE Restart
    BY <1>2 DEF Restart, DurInv, DownIsEmpty
  <1>3. CASE FlusherWakes \/ FlusherSaves \/ FlusherMarksClean
    BY <1>3 DEF FlusherWakes, FlusherSaves, FlusherMarksClean, DurInv, Reading
  <1>4. ASSUME NEW s \in Sessions,
               \/ Begin(s) \/ ChangeAtOnce(s) \/ Commit(s) \/ ApplyOp(s) \/ ApplyOpThrows(s)
               \/ LogCommit(s) \/ DeleteWal(s) \/ Rollback(s) \/ Direct(s) \/ DirectThrows(s)
        PROVE  /\ raced' = raced /\ disk' = disk
               /\ failed \subseteq failed' /\ half \subseteq half' /\ mem \subseteq mem'
    BY <1>4 DEF Begin, ChangeAtOnce, Commit, ApplyOp, ApplyOpThrows, LogCommit, DeleteWal, Rollback,
                Direct, DirectThrows
  <1>5. ASSUME NEW s \in Sessions,
               Persist(s) \/ PersistDirect(s) \/ PersistFails(s) \/ PersistDirectFails(s)
        PROVE  /\ raced' = {} => raced = {} /\ disk \subseteq disk'
               /\ failed \subseteq failed' /\ half \subseteq half' /\ mem \subseteq mem'
    BY <1>5 DEF Persist, PersistDirect, PersistFails, PersistDirectFails, Saves, At, DurInv, DiskInMem
  <1>6. CASE UNCHANGED vars
    BY <1>6 DEF vars
  <1> QED
    BY <1>1, <1>2, <1>3, <1>4, <1>5, <1>6 DEF Next

\* The write-behind thread reads what is in memory, and only a statement that saves meanwhile
\* puts the file ahead of it.
LEMMA ReadingStays ==
  ASSUME DurInv, [Next]_vars
  PROVE  Reading'
PROOF
  <1> USE DEF history, told, background
  <1>1. CASE Crash
    BY <1>1 DEF Crash, Reading
  <1>2. CASE Restart
    BY <1>2 DEF Restart, DurInv, DownIsEmpty, Reading, TypeOK
  <1>3. CASE FlusherWakes
    BY <1>3 DEF FlusherWakes, Reading, DurInv, DiskInMem
  <1>4. CASE FlusherSaves \/ FlusherMarksClean
    BY <1>4 DEF FlusherSaves, FlusherMarksClean, Reading, DurInv
  <1>5. ASSUME NEW s \in Sessions,
               \/ Begin(s) \/ ChangeAtOnce(s) \/ Commit(s) \/ ApplyOp(s) \/ ApplyOpThrows(s)
               \/ LogCommit(s) \/ DeleteWal(s) \/ Rollback(s) \/ Direct(s) \/ DirectThrows(s)
        PROVE  Reading'
    <2>1. raced' = raced /\ disk' = disk /\ flusher' = flusher /\ image' = image /\ mem \subseteq mem'
      BY <1>5 DEF Begin, ChangeAtOnce, Commit, ApplyOp, ApplyOpThrows, LogCommit, DeleteWal, Rollback,
                  Direct, DirectThrows
    <2> QED
      BY <2>1 DEF Reading, DurInv
  <1>6. ASSUME NEW s \in Sessions,
               Persist(s) \/ PersistDirect(s) \/ PersistFails(s) \/ PersistDirectFails(s)
        PROVE  Reading'
    <2>1. /\ flusher' = flusher /\ image' = image /\ mem' = mem
          /\ flusher = "save" => raced' # {}
      BY <1>6 DEF Persist, PersistDirect, PersistFails, PersistDirectFails, Saves
    <2> QED
      BY <2>1 DEF Reading, DurInv
  <1>7. CASE UNCHANGED vars
    BY <1>7 DEF vars, Reading, DurInv
  <1> QED
    BY <1>1, <1>2, <1>3, <1>4, <1>5, <1>6, <1>7 DEF Next

\* What a step leaves where it was stays right.
LEMMA UntouchedSession ==
  ASSUME DurInv, [Next]_vars, ~Crash, NEW x \in Sessions, session'[x] = session[x]
  PROVE  SessionOK(x)'
PROOF
  <1>1. SessionOK(x)
    BY DEF DurInv
  <1>2. /\ raced' = {} => raced = {} /\ disk \subseteq disk'
        /\ failed \subseteq failed' /\ mem \subseteq mem'
    BY RowsStay
  <1> QED
    BY <1>1, <1>2 DEF SessionOK, Holds

\* A step that answers no client keeps the promise to those answered.
LEMMA DurableStays ==
  ASSUME DurInv, [Next]_vars, acked' = acked
  PROVE  Durable'
PROOF
  <1>1. /\ raced' = {} => raced = {} /\ disk \subseteq disk'
        /\ failed \subseteq failed'
    BY RowsStay
  <1> QED
    BY <1>1 DEF DurInv, Durable, Holds

\* A crash loses what is in memory, and nothing of the file.
LEMMA CrashStep == DurInv /\ Crash => DurInv'
PROOF
  <1> SUFFICES ASSUME DurInv, Crash PROVE DurInv'
    OBVIOUS
  <1>1. TypeOK'
    <2>1. Idle \in SessionState
      BY DurabilityAssumption DEF Idle, SessionState
    <2> QED
      BY <2>1 DEF DurInv, TypeOK, Crash, history, told
  <1>2. DiskInMem' /\ DownIsEmpty' /\ Durable' /\ Reading'
    BY DEF DurInv, Crash, DiskInMem, DownIsEmpty, Durable, Holds, Reading, history, told
  <1>3. ASSUME NEW x \in Sessions PROVE SessionOK(x)'
    BY DEF Crash, SessionOK, Idle
  <1> QED
    BY <1>1, <1>2, <1>3 DEF DurInv

\* Restart and the write-behind thread leave the sessions alone.
LEMMA BackgroundStep ==
  DurInv /\ (Restart \/ FlusherWakes \/ FlusherSaves \/ FlusherMarksClean) => DurInv'
PROOF
  <1> SUFFICES ASSUME DurInv, Restart \/ FlusherWakes \/ FlusherSaves \/ FlusherMarksClean
               PROVE  DurInv'
    OBVIOUS
  <1>1. [Next]_vars
    BY DEF Next
  <1>2. ~Crash /\ session' = session /\ acked' = acked
    BY DEF Restart, FlusherWakes, FlusherSaves, FlusherMarksClean, Crash, DurInv, TypeOK, history, told
  <1>3. TypeOK'
    <2>1. CASE Restart
      <3>1. UNION {RowsOf(t) : t \in wal[BaseLog]} \subseteq Rows
        BY DurabilityAssumption DEF DurInv, TypeOK, RowsOf, Rows
      <3>2. mem' \subseteq Rows /\ disk' \subseteq Rows
        BY <2>1, <3>1 DEF Restart, DurInv, TypeOK
      <3>3. wal' \in [Sessions \cup {BaseLog} -> SUBSET Txs]
        BY <2>1 DEF Restart, DurInv, TypeOK
      <3> QED
        BY <2>1, <3>2, <3>3 DEF Restart, DurInv, TypeOK, history, told, background
    <2>2. CASE FlusherWakes \/ FlusherSaves \/ FlusherMarksClean
      BY <2>2 DEF FlusherWakes, FlusherSaves, FlusherMarksClean, DurInv, TypeOK, history, told
    <2> QED
      BY <2>1, <2>2
  <1>4. DiskInMem' /\ DownIsEmpty'
    BY DEF Restart, FlusherWakes, FlusherSaves, FlusherMarksClean, DurInv, TypeOK,
           DiskInMem, DownIsEmpty, Reading
  <1> QED
    BY <1>1, <1>2, <1>3, <1>4, UntouchedSession, DurableStays, ReadingStays DEF DurInv

\* A step of a statement touches one session: what is left to show of it.
LEMMA StatementStep ==
  ASSUME DurInv, [Next]_vars, up, up' = up, NEW s \in Sessions,
         \A x \in Sessions \ {s} : session'[x] = session[x],
         TypeOK', SessionOK(s)', DiskInMem', Durable'
  PROVE  DurInv'
PROOF
  <1>1. ~Crash
    BY DEF Crash, DurInv, TypeOK
  <1>2. ASSUME NEW x \in Sessions PROVE SessionOK(x)'
    BY <1>1, <1>2, UntouchedSession
  <1> QED
    BY <1>2, ReadingStays DEF DurInv, DownIsEmpty

\* BEGIN, COMMIT's arrival and ROLLBACK change no rows.
LEMMA OpenStep ==
  ASSUME DurInv, NEW s \in Sessions, Begin(s) \/ Commit(s) \/ Rollback(s)
  PROVE  DurInv'
PROOF
  <1> USE DEF history, told, background
  <1>1. [Next]_vars
    BY DEF Next
  <1>2. SessionOK(s) /\ session[s] \in SessionState
    BY DEF DurInv, TypeOK
  <1>3. /\ up /\ up' = up /\ mem' = mem /\ disk' = disk /\ acked' = acked /\ failed' = failed
        /\ \A x \in Sessions \ {s} : session'[x] = session[x]
    BY DEF Begin, Commit, Rollback, Free, Answer, DurInv, TypeOK
  <1>4. session' \in [Sessions -> SessionState]
    BY DurabilityAssumption
       DEF Begin, Commit, Rollback, Answer, DurInv, TypeOK, SessionState, Idle
  <1>5. TypeOK'
    BY <1>4, DurabilityAssumption
       DEF Begin, Commit, Rollback, Answer, LogOf, DurInv, TypeOK
  <1>6. SessionOK(s)'
    <2>1. CASE Begin(s)
      BY <2>1, DurabilityAssumption DEF Begin, SessionOK, DurInv, TypeOK, Txs
    <2>2. CASE Commit(s)
      <3>1. /\ session'[s].pc = "apply" /\ session'[s].tx = session[s].tx
            /\ session'[s].done = session[s].done /\ session[s].pc = "open"
        BY <2>2 DEF Commit, At, DurInv, TypeOK, SessionState
      <3> QED
        BY <1>2, <3>1, DurabilityAssumption DEF SessionOK, Holds
    <2>3. CASE Rollback(s)
      BY <2>3 DEF Rollback, Answer, SessionOK, Idle, DurInv, TypeOK
    <2> QED
      BY <2>1, <2>2, <2>3
  <1>7. DiskInMem'
    BY <1>3 DEF DurInv, DiskInMem
  <1> QED
    BY <1>1, <1>3, <1>5, <1>6, <1>7, DurableStays, StatementStep

\* applyAndCommit: rows reach memory one by one, all of them before TX_COMMIT.
LEMMA ApplyStep ==
  ASSUME DurInv, NEW s \in Sessions, ApplyOp(s)
  PROVE  DurInv'
PROOF
  <1> DEFINE n == session[s].done
  <1> USE DEF history, told, background
  <1>1. [Next]_vars
    BY DEF Next
  <1>2. SessionOK(s) /\ session[s] \in SessionState
    BY DEF DurInv, TypeOK
  <1>3. /\ up /\ up' = up /\ disk' = disk /\ acked' = acked /\ failed' = failed
        /\ \A x \in Sessions \ {s} : session'[x] = session[x]
    BY DEF ApplyOp, At, DurInv, TypeOK
  <1>4. session[s].tx \in Txs /\ n \in 0 .. Steps /\ n < Steps /\ Holds(mem, session[s].tx, n)
    BY <1>2 DEF ApplyOp, At, SessionOK, SessionState
  <1>5. /\ session'[s].tx = session[s].tx /\ session'[s].done = n + 1
        /\ session'[s].pc = IF n + 1 = Steps THEN "log" ELSE "apply"
    BY <1>2 DEF ApplyOp, DurInv, TypeOK, SessionState
  <1>6. mem' = mem \cup {<<session[s].tx, n + 1>>}
    BY DEF ApplyOp
  <1>7. Holds(mem', session[s].tx, n + 1)
    BY <1>4, <1>6, DurabilityAssumption DEF Holds
  <1>8. TypeOK'
    <2>1. session' \in [Sessions -> SessionState]
      <3>1. n + 1 \in 0 .. Steps
        BY <1>4, DurabilityAssumption
      <3> DEFINE r == [session[s] EXCEPT !.done = n + 1,
                                         !.pc = IF n + 1 = Steps THEN "log" ELSE "apply"]
      <3>2. r \in SessionState
        BY <1>2, <3>1 DEF SessionState
      <3>3. session' = [session EXCEPT ![s] = r]
        BY <1>2 DEF ApplyOp, DurInv, TypeOK, SessionState
      <3> QED
        BY <3>2, <3>3 DEF DurInv, TypeOK
    <2>2. mem' \subseteq Rows
      BY <1>4, <1>6, DurabilityAssumption DEF DurInv, TypeOK, Rows
    <2> QED
      BY <2>1, <2>2 DEF ApplyOp, DurInv, TypeOK
  <1>9. SessionOK(s)'
    BY <1>4, <1>5, <1>7, DurabilityAssumption DEF SessionOK
  <1>10. DiskInMem'
    BY <1>3, <1>6 DEF DurInv, DiskInMem
  <1> QED
    BY <1>1, <1>3, <1>8, <1>9, <1>10, DurableStays, StatementStep

\* The commit record, a save that succeeds, and one that fails.
LEMMA SaveStep ==
  ASSUME DurInv, NEW s \in Sessions, LogCommit(s) \/ Persist(s) \/ PersistFails(s)
  PROVE  DurInv'
PROOF
  <1> USE DEF history, told, background
  <1>1. [Next]_vars
    BY DEF Next
  <1>2. SessionOK(s) /\ session[s] \in SessionState
    BY DEF DurInv, TypeOK
  <1>3. /\ up /\ up' = up /\ mem' = mem /\ acked' = acked
        /\ \A x \in Sessions \ {s} : session'[x] = session[x]
    BY DEF LogCommit, Persist, PersistFails, At, Answer, DurInv, TypeOK
  <1>4. session[s].tx \in Txs /\ Holds(mem, session[s].tx, Steps)
    BY <1>2 DEF LogCommit, Persist, PersistFails, At, SessionOK
  <1>5. session' \in [Sessions -> SessionState]
    BY DurabilityAssumption
       DEF LogCommit, Persist, PersistFails, Answer, DurInv, TypeOK, SessionState, Idle
  <1>6. TypeOK'
    <2>1. CASE LogCommit(s)
      BY <1>4, <1>5, <2>1 DEF LogCommit, LogOf, DurInv, TypeOK
    <2>2. CASE Persist(s) \/ PersistFails(s)
      BY <1>4, <1>5, <2>2 DEF Persist, PersistFails, Saves, Answer, DurInv, TypeOK
    <2> QED
      BY <2>1, <2>2
  <1>7. SessionOK(s)'
    <2>1. CASE session'[s] = Idle
      BY <2>1 DEF SessionOK, Idle
    <2>2. CASE session'[s] # Idle
      <3>1. /\ session'[s].tx = session[s].tx
            /\ LogCommit(s) => session'[s].pc = "persist"
            /\ Persist(s) => session'[s].pc = "deleteWal" /\ disk' = mem
            /\ PersistFails(s) => session'[s].pc = "deleteWal" /\ session[s].tx \in failed'
        BY <1>2, <2>2 DEF LogCommit, Persist, PersistFails, Answer, DurInv, TypeOK, SessionState
      <3> QED
        BY <1>3, <1>4, <3>1 DEF SessionOK
    <2> QED
      BY <2>1, <2>2
  <1>8. DiskInMem'
    BY DEF LogCommit, Persist, PersistFails, DurInv, DiskInMem
  <1> QED
    BY <1>1, <1>3, <1>6, <1>7, <1>8, DurableStays, StatementStep

\* The steps that answer a client.
LEMMA AnswerStep ==
  ASSUME DurInv, NEW s \in Sessions,
         DeleteWal(s) \/ PersistDirect(s) \/ PersistDirectFails(s)
  PROVE  DurInv'
PROOF
  <1> DEFINE t == session[s].tx
  <1> USE DEF history, told, background
  <1>1. [Next]_vars
    BY DEF Next
  <1>2. SessionOK(s) /\ session[s] \in SessionState
    BY DEF DurInv, TypeOK
  <1>3. /\ up /\ up' = up /\ mem' = mem
        /\ session' = [session EXCEPT ![s] = Idle] /\ acked' \subseteq acked \cup {t}
    BY DEF DeleteWal, PersistDirect, PersistDirectFails, At, Answer
  <1>4. t \in Txs /\ Holds(mem, t, Steps)
    BY <1>2 DEF DeleteWal, PersistDirect, PersistDirectFails, At, SessionOK
  <1>5. TypeOK'
    <2>1. Idle \in SessionState
      BY DurabilityAssumption DEF Idle, SessionState
    <2>2. session' \in [Sessions -> SessionState] /\ acked' \subseteq Txs
      BY <1>3, <1>4, <2>1 DEF DurInv, TypeOK
    <2> QED
      BY <1>4, <2>2
         DEF DeleteWal, PersistDirect, PersistDirectFails, Saves, Answer, LogOf, DurInv, TypeOK
  <1>6. SessionOK(s)'
    BY <1>3 DEF SessionOK, Idle, DurInv, TypeOK
  <1>7. DiskInMem'
    BY DEF DeleteWal, PersistDirect, PersistDirectFails, DurInv, DiskInMem
  <1>8. t \in failed' \/ raced' # {} \/ Holds(disk', t, Steps)
    <2>1. CASE DeleteWal(s)
      BY <1>2, <2>1 DEF DeleteWal, At, SessionOK
    <2>2. CASE PersistDirect(s) \/ PersistDirectFails(s)
      BY <1>4, <2>2 DEF PersistDirect, PersistDirectFails
    <2> QED
      BY <2>1, <2>2
  <1>9. Durable'
    <2>1. /\ raced' = {} => raced = {} /\ disk \subseteq disk'
          /\ failed \subseteq failed'
      BY <1>1, RowsStay
    <2> QED
      BY <1>3, <1>8, <2>1 DEF Durable, DurInv, Holds
  <1>10. \A x \in Sessions \ {s} : session'[x] = session[x]
    BY <1>3 DEF DurInv, TypeOK
  <1> QED
    BY <1>1, <1>3, <1>5, <1>6, <1>7, <1>9, <1>10, StatementStep

\* A statement outside a transaction.
LEMMA DirectStep ==
  ASSUME DurInv, NEW s \in Sessions, Direct(s)
  PROVE  DurInv'
PROOF
  <1> DEFINE r == [pc |-> "direct", tx |-> lastTx + 1, done |-> Steps]
  <1> USE DEF history, told, background
  <1>1. [Next]_vars
    BY DEF Next
  <1>2. /\ up /\ up' = up /\ disk' = disk /\ acked' = acked /\ failed' = failed
        /\ mem' = mem \cup RowsOf(lastTx + 1) /\ session' = [session EXCEPT ![s] = r]
    BY DEF Direct, Free
  <1>3. lastTx + 1 \in Txs /\ lastTx + 1 \in 0 .. MaxTx
    BY DurabilityAssumption DEF Direct, DurInv, TypeOK, Txs
  <1>4. TypeOK'
    <2>1. r \in SessionState
      BY <1>3, DurabilityAssumption DEF SessionState
    <2>2. session' \in [Sessions -> SessionState]
      BY <1>2, <2>1 DEF DurInv, TypeOK
    <2>3. mem' \subseteq Rows
      BY <1>2, <1>3 DEF DurInv, TypeOK, RowsOf, Rows
    <2> QED
      BY <1>3, <2>2, <2>3 DEF Direct, DurInv, TypeOK
  <1>5. Holds(mem', lastTx + 1, Steps)
    BY <1>2, RowsAreHeld
  <1>6. SessionOK(s)'
    <2>1. session'[s] = r
      BY <1>2 DEF DurInv, TypeOK
    <2> QED
      BY <1>3, <1>5, <2>1 DEF SessionOK
  <1>7. DiskInMem'
    BY <1>2 DEF DurInv, DiskInMem
  <1>8. \A x \in Sessions \ {s} : session'[x] = session[x]
    BY <1>2 DEF DurInv, TypeOK
  <1> QED
    BY <1>1, <1>2, <1>4, <1>6, <1>7, <1>8, DurableStays, StatementStep

\* A statement of a transaction that changes tables at once, and one that fails at a later row.
LEMMA OtherChangeStep ==
  ASSUME DurInv, NEW s \in Sessions, ChangeAtOnce(s) \/ DirectThrows(s)
  PROVE  DurInv'
PROOF
  <1> USE DEF history, told, background
  <1>1. [Next]_vars
    BY DEF Next
  <1>2. /\ up /\ up' = up /\ disk' = disk /\ acked' = acked /\ session' = session
        /\ mem \subseteq mem'
    BY DEF ChangeAtOnce, DirectThrows, Free
  <1>3. TypeOK'
    <2>1. CASE ChangeAtOnce(s)
      <3>1. session[s].tx \in Txs
        BY <2>1 DEF ChangeAtOnce, At, DurInv, SessionOK
      <3>2. mem' \subseteq Rows
        BY <2>1, <3>1, DurabilityAssumption DEF ChangeAtOnce, DurInv, TypeOK, Rows
      <3> QED
        BY <2>1, <3>2 DEF ChangeAtOnce, DurInv, TypeOK
    <2>2. CASE DirectThrows(s)
      <3>1. lastTx + 1 \in Txs /\ lastTx + 1 \in 0 .. MaxTx
        BY <2>2, DurabilityAssumption DEF DirectThrows, DurInv, TypeOK, Txs
      <3>2. \A n \in 1 .. Steps - 1 : {lastTx + 1} \X (1 .. n) \subseteq Rows
        BY <3>1, DurabilityAssumption DEF Rows
      <3>3. mem' \subseteq Rows
        BY <2>2, <3>2 DEF DirectThrows, DurInv, TypeOK
      <3> QED
        BY <2>2, <3>1, <3>3 DEF DirectThrows, DurInv, TypeOK
    <2> QED
      BY <2>1, <2>2
  <1>4. DiskInMem'
    BY <1>2 DEF DurInv, DiskInMem
  <1>5. ~Crash
    BY <1>2 DEF Crash, DurInv, TypeOK
  <1>6. SessionOK(s)'
    BY <1>1, <1>2, <1>5, UntouchedSession
  <1> QED
    BY <1>1, <1>2, <1>3, <1>4, <1>6, DurableStays, StatementStep

\* A COMMIT that stops half way opens the transaction again.
LEMMA ThrowStep ==
  ASSUME DurInv, NEW s \in Sessions, ApplyOpThrows(s)
  PROVE  DurInv'
PROOF
  <1> USE DEF history, told, background
  <1> DEFINE r == [session[s] EXCEPT !.done = 0, !.pc = "open"]
  <1>1. [Next]_vars
    BY DEF Next
  <1>2. SessionOK(s) /\ session[s] \in SessionState
    BY DEF DurInv, TypeOK
  <1>3. session[s].tx \in Txs
    BY <1>2 DEF ApplyOpThrows, At, SessionOK
  <1>4. PICK t, n, c : session[s] = [pc |-> c, tx |-> t, done |-> n] /\ t \in 0 .. MaxTx
    BY <1>2 DEF SessionState
  <1>5. r = [pc |-> "open", tx |-> t, done |-> 0] /\ t = session[s].tx
    <2>1. r = [[session[s] EXCEPT !.done = 0] EXCEPT !.pc = "open"]
      OBVIOUS
    <2> HIDE DEF r
    <2>2. PICK q : q = [session[s] EXCEPT !.done = 0]
      OBVIOUS
    <2>3. q = [pc |-> c, tx |-> t, done |-> 0] /\ t = session[s].tx
      BY <1>4, <2>2
    <2> QED
      BY <2>1, <2>2, <2>3
  <1>6. session' = [session EXCEPT ![s] = r]
    BY DEF ApplyOpThrows, DurInv, TypeOK
  <1> HIDE DEF r
  <1>7. r \in SessionState /\ r.pc = "open" /\ r.tx = session[s].tx /\ r.done = 0
    BY <1>4, <1>5, DurabilityAssumption DEF SessionState
  <1>8. /\ up /\ up' = up /\ disk' = disk /\ mem' = mem /\ acked' = acked
        /\ session'[s] = r /\ \A x \in Sessions \ {s} : session'[x] = session[x]
    BY <1>6 DEF ApplyOpThrows, At, DurInv, TypeOK
  <1>9. TypeOK'
    BY <1>3, <1>6, <1>7 DEF ApplyOpThrows, DurInv, TypeOK
  <1>10. SessionOK(s)'
    BY <1>3, <1>7, <1>8, DurabilityAssumption DEF SessionOK
  <1>11. DiskInMem'
    BY <1>8 DEF DurInv, DiskInMem
  <1> QED
    BY <1>1, <1>8, <1>9, <1>10, <1>11, DurableStays, StatementStep

\* One case per action of Next.
LEMMA DurInvStep == DurInv /\ [Next]_vars => DurInv'
PROOF
  <1> SUFFICES ASSUME DurInv, [Next]_vars PROVE DurInv'
    OBVIOUS
  <1>1. CASE UNCHANGED vars
    BY <1>1 DEF vars, history, told, background, DurInv, TypeOK, DiskInMem, DownIsEmpty, Durable,
                Reading, SessionOK, Holds
  <1> QED
    BY <1>1, CrashStep, BackgroundStep, OpenStep, ApplyStep, SaveStep, AnswerStep, DirectStep,
       OtherChangeStep, ThrowStep DEF Next

\* The database starts with an empty file and no session at work.
LEMMA DurInvInit == Init => DurInv
PROOF
  <1> SUFFICES ASSUME Init PROVE DurInv
    OBVIOUS
  <1>1. Idle \in SessionState
    BY DurabilityAssumption DEF Idle, SessionState
  <1>2. TypeOK
    <2>1. 0 \in 0 .. MaxTx
      BY DurabilityAssumption
    <2> QED
      BY <1>1, <2>1 DEF Init, TypeOK
  <1>3. \A s \in Sessions : SessionOK(s)
    BY DEF Init, SessionOK, Idle
  <1> QED
    BY <1>2, <1>3 DEF Init, DurInv, DiskInMem, DownIsEmpty, Durable, Reading

\* What a client was told is committed, without a warning that the save failed, is in
\* the database file for ever, for any number of sessions, transactions and operations,
\* and with crashes, failing saves, statements that fail half way and the write-behind thread
\* at any point; in the REPL until a save of that thread overlaps one of a statement.
THEOREM AnsweredIsDurable == Spec => [](TypeOK /\ AckedIsDurable)
PROOF
  <1>1. DurInv => TypeOK /\ AckedIsDurable
    BY RowsAreHeld DEF DurInv, Durable, AckedIsDurable
  <1> QED
    BY <1>1, DurInvInit, DurInvStep, PTL DEF Spec
-----------------------------------------------------------------------------
(* What is in the file and in memory while statements are under way. *)

\* The statement of a session holds the mutex from its first change to its answer.
Working == {"apply", "log", "persist", "deleteWal", "direct"}
MutexIsHeld == \A s \in Sessions : session[s].pc \in Working => busy = s

\* The write-behind thread belongs to the REPL.
FlusherSleeps == ~repl => flusher = "sleep"

Whole(rows, t) == RowsOf(t) \subseteq rows \/ RowsOf(t) \cap rows = {}
Applying(t) == \E s \in Sessions : session[s].pc = "apply" /\ session[s].tx = t

\* In the server only a transaction that is being applied is in memory in part, or one that
\* failed half way.
MemIsAtomic == ~repl => \A t \in Txs \ half : Whole(mem, t) \/ Applying(t)

\* A row that is in memory and not in the file was reported, or changed at once by a transaction
\* whose COMMIT has not saved yet, or its statement goes on.
Unsaved(row) ==
  \/ row[1] \in failed \cup half
  \/ /\ row[2] = 0 /\ row[1] \notin acked
     /\ \A s \in Sessions : session[s].pc = "deleteWal" => session[s].tx # row[1]
  \/ \E s \in Sessions : session[s].pc \in Working \ {"deleteWal"} /\ session[s].tx = row[1]
UnsavedIsKnown == raced = {} => \A row \in mem \ disk : Unsaved(row)

\* Every session has a transaction of its own, which no client was told of.
Fresh ==
  /\ \A t \in acked : t <= lastTx
  /\ \A s \in Sessions :
       session[s].pc # "idle" => session[s].tx <= lastTx /\ session[s].tx \notin acked
  /\ \A s, x \in Sessions :
       session[s].pc # "idle" /\ session[x].pc # "idle" /\ session[s].tx = session[x].tx => s = x

\* The inductive invariant.  DiskIsAtomic alone is not inductive: a save writes what is in
\* memory, which is whole because whoever saves holds the mutex and nobody else applies.
SaveInv ==
  /\ MutexIsHeld /\ FlusherSleeps /\ MemIsAtomic /\ DiskIsAtomic /\ UnsavedIsKnown

\* Transactions get new numbers.
LEMMA FreshStep ==
  ASSUME DurInv, Fresh, [Next]_vars
  PROVE  Fresh'
PROOF
  <1> USE DEF history, told, background
  <1>1. CASE Crash
    BY <1>1 DEF Crash, Idle, Fresh
  <1>2. CASE UNCHANGED <<session, lastTx, acked>>
    BY <1>2 DEF Fresh
  <1>3. ASSUME NEW s \in Sessions, Begin(s) \/ Direct(s)
        PROVE  Fresh'
    <2>1. /\ lastTx' = lastTx + 1 /\ lastTx \in Nat /\ acked' = acked
          /\ session'[s].tx = lastTx + 1 /\ \A x \in Sessions \ {s} : session'[x] = session[x]
      BY <1>3, DurabilityAssumption DEF Begin, Direct, DurInv, TypeOK
    <2>2. \A t \in acked : t \in Nat
      BY DEF DurInv, TypeOK, Txs
    <2>3. \A x \in Sessions : session[x].tx \in Nat
      BY DEF DurInv, TypeOK, SessionState
    <2>4. \A n \in Nat : n <= lastTx => n <= lastTx + 1 /\ n # lastTx + 1
      BY <2>1
    <2>5. lastTx + 1 <= lastTx + 1
      BY <2>1
    <2>6. \A t \in acked' : t <= lastTx'
      BY <2>1, <2>2, <2>4 DEF Fresh
    <2>7. \A x \in Sessions : session'[x].pc # "idle" => session'[x].tx <= lastTx' /\ session'[x].tx \notin acked'
      BY <2>1, <2>2, <2>3, <2>4, <2>5 DEF Fresh
    <2>8. \A x, y \in Sessions :
            session'[x].pc # "idle" /\ session'[y].pc # "idle" /\ session'[x].tx = session'[y].tx => x = y
      BY <2>1, <2>3, <2>4 DEF Fresh
    <2> QED
      BY <2>6, <2>7, <2>8 DEF Fresh
  <1>4. ASSUME NEW s \in Sessions, DirectThrows(s)
        PROVE  Fresh'
    <2>1. /\ lastTx' = lastTx + 1 /\ lastTx \in Nat /\ acked' = acked /\ session' = session
      BY <1>4, DurabilityAssumption DEF DirectThrows, DurInv, TypeOK
    <2>2. \A t \in acked : t \in Nat
      BY DEF DurInv, TypeOK, Txs
    <2>3. \A x \in Sessions : session[x].tx \in Nat
      BY DEF DurInv, TypeOK, SessionState
    <2>4. \A n \in Nat : n <= lastTx => n <= lastTx + 1
      BY <2>1
    <2> QED
      BY <2>1, <2>2, <2>3, <2>4 DEF Fresh
  <1>5. ASSUME NEW s \in Sessions,
               \/ Commit(s) \/ ApplyOp(s) \/ ApplyOpThrows(s) \/ LogCommit(s) \/ Persist(s)
               \/ PersistFails(s) \/ DeleteWal(s) \/ Rollback(s) \/ PersistDirect(s) \/ PersistDirectFails(s)
        PROVE  Fresh'
    <2>1. /\ lastTx' = lastTx /\ session[s].pc # "idle"
          /\ \A x \in Sessions \ {s} : session'[x] = session[x]
      BY <1>5 DEF Commit, ApplyOp, ApplyOpThrows, LogCommit, Persist, PersistFails, DeleteWal, Rollback,
                  PersistDirect, PersistDirectFails, At, Answer, DurInv, TypeOK
    <2>2. \/ session'[s].pc = "idle" /\ acked' \subseteq acked \cup {session[s].tx}
          \/ session'[s].tx = session[s].tx /\ acked' = acked
      <3>1. CASE Commit(s) \/ ApplyOp(s) \/ ApplyOpThrows(s) \/ LogCommit(s) \/ Persist(s)
        <4>1. session[s] \in SessionState /\ session \in [Sessions -> SessionState]
          BY DEF DurInv, TypeOK
        <4> QED
          BY <3>1, <4>1 DEF Commit, ApplyOp, ApplyOpThrows, LogCommit, Persist, SessionState
      <3>2. CASE PersistFails(s)
        <4>1. session[s] \in SessionState /\ session \in [Sessions -> SessionState]
          BY DEF DurInv, TypeOK
        <4> QED
          BY <3>2, <4>1 DEF PersistFails, Answer, Idle, SessionState
      <3>3. CASE DeleteWal(s) \/ Rollback(s) \/ PersistDirect(s) \/ PersistDirectFails(s)
        BY <3>3 DEF DeleteWal, Rollback, PersistDirect, PersistDirectFails, Answer, Idle, DurInv, TypeOK
      <3> QED
        BY <1>5, <3>1, <3>2, <3>3
    <2> QED
      BY <2>1, <2>2 DEF Fresh
  <1>6. CASE Restart \/ FlusherWakes \/ FlusherSaves \/ FlusherMarksClean
    BY <1>2, <1>6 DEF Restart, FlusherWakes, FlusherSaves, FlusherMarksClean
  <1>7. ASSUME NEW s \in Sessions, ChangeAtOnce(s)
        PROVE  Fresh'
    BY <1>2, <1>7 DEF ChangeAtOnce
  <1> QED
    BY <1>1, <1>2, <1>3, <1>4, <1>5, <1>6, <1>7 DEF Next, vars

\* Adding all rows of a transaction leaves the others as whole as they were.
LEMMA WholeStays ==
  ASSUME NEW rows, NEW t, NEW u, Whole(rows, u)
  PROVE  Whole(rows \cup RowsOf(t), u)
PROOF BY DEF Whole, RowsOf

\* Recovery adds whole transactions.
LEMMA WholeReplay ==
  ASSUME NEW rows, NEW T, NEW u, Whole(rows, u)
  PROVE  Whole(rows \cup UNION {RowsOf(t) : t \in T}, u)
PROOF
  <1>1. CASE u \in T
    BY <1>1 DEF Whole
  <1>2. CASE u \notin T
    <2>1. \A t \in T : RowsOf(t) \cap RowsOf(u) = {}
      BY <1>2 DEF RowsOf
    <2> QED
      BY <2>1 DEF Whole
  <1> QED
    BY <1>1, <1>2

\* Between statements nothing is half applied, and while one holds the mutex to save.
LEMMA MemIsWhole ==
  ASSUME SaveInv, ~repl, \A s \in Sessions : session[s].pc # "apply"
  PROVE  \A t \in Txs \ half : Whole(mem, t)
PROOF BY DEF SaveInv, MemIsAtomic, Applying

\* Crash and restart: all of a transaction's rows in memory come from the file or the log.
LEMMA SaveInvCrash ==
  ASSUME SaveInv, Crash \/ Restart
  PROVE  SaveInv'
PROOF
  <1>1. CASE Crash
    <2>1. /\ mem' = {} /\ disk' = disk /\ repl' = repl /\ flusher' = "sleep" /\ half' = half
          /\ \A s \in Sessions : session'[s].pc = "idle"
      BY <1>1 DEF Crash, Idle, history, told
    <2> QED
      BY <2>1 DEF SaveInv, MutexIsHeld, Working, FlusherSleeps, MemIsAtomic, Whole, DiskIsAtomic,
                  UnsavedIsKnown
  <1>2. CASE Restart
    <2>1. /\ mem' = disk \cup UNION {RowsOf(t) : t \in wal[BaseLog]} /\ disk' = mem'
          /\ repl' = repl /\ flusher' = flusher /\ session' = session /\ busy' = busy /\ half' = half
      BY <1>2 DEF Restart, history, told, background
    <2>2. ~repl => \A t \in Txs \ half : Whole(mem', t)
      BY <2>1, WholeReplay DEF SaveInv, DiskIsAtomic, Whole
    <2> QED
      BY <2>1, <2>2 DEF SaveInv, MutexIsHeld, FlusherSleeps, MemIsAtomic, Whole, DiskIsAtomic,
                        UnsavedIsKnown
  <1> QED
    BY <1>1, <1>2

\* The write-behind thread saves what it finds, but only in the REPL.
LEMMA SaveInvFlusher ==
  ASSUME DurInv, SaveInv, FlusherWakes \/ FlusherSaves \/ FlusherMarksClean
  PROVE  SaveInv'
PROOF
  <1>1. /\ repl /\ repl' /\ session' = session /\ busy' = busy /\ mem' = mem
        /\ failed' = failed /\ half' = half /\ acked' = acked
    BY DEF FlusherWakes, FlusherSaves, FlusherMarksClean, SaveInv, FlusherSleeps, history, told
  <1>2. raced' = {} => raced = {} /\ disk \subseteq disk'
    BY RowsStay DEF Next
  <1> QED
    BY <1>1, <1>2 DEF SaveInv, MutexIsHeld, FlusherSleeps, MemIsAtomic, DiskIsAtomic, UnsavedIsKnown,
                Unsaved

\* Whoever works has the mutex for itself.
LEMMA OthersRest ==
  ASSUME SaveInv, NEW s \in Sessions, session[s].pc \in Working
  PROVE  busy = s /\ \A x \in Sessions \ {s} : session[x].pc \notin Working
PROOF BY DEF SaveInv, MutexIsHeld

\* While nobody holds the mutex no statement is under way.
LEMMA AllRest ==
  ASSUME SaveInv, busy = NoSession
  PROVE  \A x \in Sessions : session[x].pc \notin Working
PROOF BY DurabilityAssumption DEF SaveInv, MutexIsHeld

\* BEGIN, the arrival of COMMIT, and ROLLBACK change no rows.
LEMMA SaveInvOpen ==
  ASSUME DurInv, SaveInv, NEW s \in Sessions, Begin(s) \/ Commit(s) \/ Rollback(s)
  PROVE  SaveInv'
PROOF
  <1> USE DEF history, told, background
  <1>1. /\ repl' = repl /\ flusher' = flusher /\ mem' = mem /\ disk' = disk /\ failed' = failed
        /\ busy = NoSession /\ half' = half /\ acked' = acked /\ raced' = raced
        /\ \A x \in Sessions \ {s} : session'[x] = session[x]
    BY DEF Begin, Commit, Rollback, Free, Answer, DurInv, TypeOK
  <1>2. session'[s].pc \in Working => busy' = s
    BY DEF Begin, Commit, Rollback, Answer, Idle, Working, DurInv, TypeOK
  <1>3. \A x \in Sessions : session[x].pc \notin Working
    BY <1>1, AllRest
  <1>4. MutexIsHeld' /\ FlusherSleeps'
    BY <1>1, <1>2, <1>3 DEF SaveInv, MutexIsHeld, FlusherSleeps
  <1>5. MemIsAtomic' /\ DiskIsAtomic'
    BY <1>1, <1>3 DEF SaveInv, MemIsAtomic, Applying, Whole, DiskIsAtomic, Working
  <1>6. session'[s].pc # "deleteWal"
    <2>1. session[s] \in SessionState /\ session \in [Sessions -> SessionState]
      BY DEF DurInv, TypeOK
    <2> QED
      BY <2>1 DEF Begin, Commit, Rollback, Answer, Idle, SessionState
  <1>7. UnsavedIsKnown'
    BY <1>1, <1>3, <1>6 DEF SaveInv, UnsavedIsKnown, Unsaved
  <1> QED
    BY <1>4, <1>5, <1>7 DEF SaveInv

\* An operation is applied: its transaction is in memory in part, or now as a whole.
LEMMA SaveInvApply ==
  ASSUME DurInv, DurInv', SaveInv, NEW s \in Sessions, ApplyOp(s)
  PROVE  SaveInv'
PROOF
  <1> USE DEF history, told, background
  <1> DEFINE t == session[s].tx
             row == <<t, session[s].done + 1>>
  <1>1. /\ repl' = repl /\ flusher' = flusher /\ disk' = disk /\ failed' = failed /\ busy' = busy
        /\ half' = half /\ acked' = acked /\ raced' = raced
        /\ mem' = mem \cup {row}
        /\ \A x \in Sessions \ {s} : session'[x] = session[x]
    BY DEF ApplyOp, DurInv, TypeOK
  <1>2. session[s].pc = "apply" /\ session'[s].tx = t /\ session'[s].pc \in {"apply", "log"}
    BY DEF ApplyOp, At, DurInv, TypeOK, SessionState
  <1>3. busy = s /\ \A x \in Sessions \ {s} : session[x].pc \notin Working
    BY <1>2, OthersRest DEF Working
  <1>4. MutexIsHeld' /\ FlusherSleeps' /\ DiskIsAtomic'
    BY <1>1, <1>3 DEF SaveInv, MutexIsHeld, FlusherSleeps, DiskIsAtomic
  <1>5. ASSUME NEW u \in Txs \ half, ~repl
        PROVE  Whole(mem', u) \/ Applying(u)'
    <2>1. CASE u # t
      <3>1. Whole(mem, u)
        BY <1>2, <1>3, <1>5, <2>1 DEF SaveInv, MemIsAtomic, Applying, Working
      <3>2. RowsOf(u) \cap {row} = {}
        BY <2>1 DEF RowsOf
      <3> QED
        BY <1>1, <3>1, <3>2 DEF Whole
    <2>2. CASE u = t /\ session'[s].pc = "apply"
      BY <1>2, <2>2 DEF Applying
    <2>3. CASE u = t /\ session'[s].pc = "log"
      <3>1. SessionOK(s)'
        BY DEF DurInv
      <3> QED
        BY <1>2, <2>3, <3>1, RowsAreHeld DEF SessionOK, Whole
    <2> QED
      BY <1>2, <2>1, <2>2, <2>3
  <1>6. ASSUME NEW r \in mem' \ disk', raced' = {}
        PROVE  Unsaved(r)'
    <2>1. CASE r = row
      BY <1>2, <2>1 DEF Unsaved, Working
    <2>2. CASE r \in mem \ disk
      BY <1>1, <1>2, <1>6, <2>2 DEF SaveInv, UnsavedIsKnown, Unsaved, Working
    <2> QED
      BY <1>1, <2>1, <2>2
  <1> QED
    BY <1>1, <1>4, <1>5, <1>6 DEF SaveInv, MemIsAtomic, UnsavedIsKnown

\* A step that saves, in COMMIT or after a single statement.
LEMMA SaveInvPersist ==
  ASSUME DurInv, SaveInv, NEW s \in Sessions, Persist(s) \/ PersistDirect(s)
  PROVE  SaveInv'
PROOF
  <1> USE DEF history, told, background
  <1>1. /\ repl' = repl /\ flusher' = flusher /\ disk' = mem /\ mem' = mem /\ half' = half
        /\ session[s].pc \in {"persist", "direct"}
        /\ \A x \in Sessions \ {s} : session'[x] = session[x]
    BY DEF Persist, PersistDirect, Answer, At, DurInv, TypeOK
  <1>2. session'[s].pc \in Working => busy' = busy
    BY DEF Persist, PersistDirect, Answer, Idle, Working, DurInv, TypeOK
  <1>3. busy = s /\ \A x \in Sessions \ {s} : session[x].pc \notin Working
    BY <1>1, OthersRest DEF Working
  <1>4. \A x \in Sessions : session[x].pc # "apply"
    BY <1>1, <1>3 DEF Working
  <1>5. ~repl => \A t \in Txs \ half : Whole(mem, t)
    BY <1>4, MemIsWhole
  <1>6. MutexIsHeld' /\ FlusherSleeps'
    BY <1>1, <1>2, <1>3 DEF SaveInv, MutexIsHeld, FlusherSleeps
  <1>7. MemIsAtomic' /\ DiskIsAtomic' /\ UnsavedIsKnown'
    BY <1>1, <1>5 DEF MemIsAtomic, DiskIsAtomic, Whole, UnsavedIsKnown
  <1> QED
    BY <1>6, <1>7 DEF SaveInv

\* A step of a working statement that leaves the rows alone: the commit record, a save that
\* fails and is reported, and the end of COMMIT.
LEMMA SaveInvRest ==
  ASSUME DurInv, SaveInv, NEW s \in Sessions,
         LogCommit(s) \/ PersistFails(s) \/ PersistDirectFails(s) \/ DeleteWal(s)
  PROVE  SaveInv'
PROOF
  <1> USE DEF history, told, background
  <1>1. /\ repl' = repl /\ flusher' = flusher /\ disk' = disk /\ mem' = mem
        /\ failed \subseteq failed' /\ half' = half
        /\ session[s].pc \in Working \ {"apply"}
        /\ \A x \in Sessions \ {s} : session'[x] = session[x]
    BY DEF LogCommit, PersistFails, PersistDirectFails, DeleteWal, Answer, At, Working, DurInv,
           TypeOK
  <1>2. session'[s].pc \in Working => busy' = busy
    BY DEF LogCommit, PersistFails, PersistDirectFails, DeleteWal, Answer, Idle, Working, DurInv,
           TypeOK
  <1>3. busy = s /\ \A x \in Sessions \ {s} : session[x].pc \notin Working
    BY <1>1, OthersRest
  <1>4. \/ session[s].pc = "deleteWal" \/ session[s].tx \in failed'
        \/ session'[s].pc = "persist" /\ session'[s].tx = session[s].tx
    BY DEF LogCommit, PersistFails, PersistDirectFails, DeleteWal, At, DurInv, TypeOK, SessionState
  <1>5. \A x \in Sessions : session[x].pc # "apply"
    BY <1>1, <1>3 DEF Working
  <1>6. MutexIsHeld' /\ FlusherSleeps' /\ MemIsAtomic' /\ DiskIsAtomic'
    BY <1>1, <1>2, <1>3, <1>5, MemIsWhole
       DEF SaveInv, MutexIsHeld, FlusherSleeps, MemIsAtomic, Whole, DiskIsAtomic
  <1>8. acked' \subseteq acked \cup {session[s].tx} /\ (raced' = {} => raced = {})
    BY DEF LogCommit, PersistFails, PersistDirectFails, DeleteWal, Saves
  <1>9. session'[s].pc = "deleteWal" => session'[s].tx = session[s].tx /\ session[s].tx \in failed'
    BY DEF LogCommit, PersistFails, PersistDirectFails, DeleteWal, Answer, Idle, DurInv, TypeOK, SessionState
  <1>7. ASSUME NEW r \in mem' \ disk', raced' = {}
        PROVE  Unsaved(r)'
    <2>1. Unsaved(r)
      BY <1>1, <1>7, <1>8 DEF SaveInv, UnsavedIsKnown
    <2>2. CASE r[1] # session[s].tx
      BY <1>1, <1>3, <1>8, <1>9, <2>1, <2>2 DEF Unsaved, Working
    <2>3. CASE r[1] = session[s].tx
      BY <1>1, <1>3, <1>4, <2>1, <2>3 DEF Unsaved, Working
    <2> QED
      BY <2>2, <2>3
  <1> QED
    BY <1>6, <1>7 DEF SaveInv, UnsavedIsKnown

\* A single statement puts all its rows into memory.
LEMMA SaveInvDirect ==
  ASSUME DurInv, SaveInv, NEW s \in Sessions, Direct(s)
  PROVE  SaveInv'
PROOF
  <1> USE DEF history, told, background
  <1> DEFINE n == lastTx + 1
  <1>1. /\ repl' = repl /\ flusher' = flusher /\ disk' = disk /\ failed' = failed
        /\ busy = NoSession /\ busy' = s /\ half' = half /\ acked' = acked /\ raced' = raced
        /\ mem' = mem \cup RowsOf(n)
        /\ session'[s].pc = "direct" /\ session'[s].tx = n
        /\ \A x \in Sessions \ {s} : session'[x] = session[x]
    BY DEF Direct, Free, DurInv, TypeOK
  <1>2. \A x \in Sessions : session[x].pc \notin Working
    BY <1>1, AllRest
  <1>3. MutexIsHeld' /\ FlusherSleeps' /\ DiskIsAtomic'
    BY <1>1, <1>2 DEF SaveInv, MutexIsHeld, FlusherSleeps, DiskIsAtomic
  <1>4. MemIsAtomic'
    <2>1. ~repl => \A t \in Txs \ half : Whole(mem, t)
      BY <1>2, MemIsWhole DEF Working
    <2> QED
      BY <1>1, <2>1, WholeStays DEF MemIsAtomic
  <1>5. ASSUME NEW r \in mem' \ disk', raced' = {}
        PROVE  Unsaved(r)'
    <2>1. CASE r \in RowsOf(n)
      BY <1>1, <2>1 DEF Unsaved, Working, RowsOf
    <2>2. CASE r \in mem \ disk
      BY <1>1, <1>2, <1>5, <2>2 DEF SaveInv, UnsavedIsKnown, Unsaved, Working
    <2> QED
      BY <1>1, <2>1, <2>2
  <1> QED
    BY <1>3, <1>4, <1>5 DEF SaveInv, UnsavedIsKnown

\* What a transaction changes at once belongs to no client that was answered, and is none
\* of the rows that it buffers.
LEMMA SaveInvAtOnce ==
  ASSUME DurInv, SaveInv, Fresh, NEW s \in Sessions, ChangeAtOnce(s)
  PROVE  SaveInv'
PROOF
  <1> USE DEF history, told, background
  <1> DEFINE row == <<session[s].tx, 0>>
  <1>1. /\ repl' = repl /\ flusher' = flusher /\ disk' = disk /\ failed' = failed /\ busy' = busy
        /\ half' = half /\ acked' = acked /\ raced' = raced /\ session' = session
        /\ mem' = mem \cup {row} /\ busy = NoSession /\ session[s].pc = "open"
    BY DEF ChangeAtOnce, Free, At
  <1>2. \A x \in Sessions : session[x].pc \notin Working
    BY <1>1, AllRest
  <1>3. MutexIsHeld' /\ FlusherSleeps' /\ DiskIsAtomic'
    BY <1>1 DEF SaveInv, MutexIsHeld, FlusherSleeps, DiskIsAtomic
  <1>4. MemIsAtomic'
    <2>1. ~repl => \A t \in Txs \ half : Whole(mem, t)
      BY <1>2, MemIsWhole DEF Working
    <2>2. \A t : RowsOf(t) \cap {row} = {}
      BY DurabilityAssumption DEF RowsOf
    <2>3. \A t : Whole(mem, t) => Whole(mem', t)
      BY <1>1, <2>2 DEF Whole
    <2> QED
      BY <1>1, <2>1, <2>3 DEF MemIsAtomic
  <1>5. ASSUME NEW r \in mem' \ disk', raced' = {}
        PROVE  Unsaved(r)'
    <2>1. CASE r = row
      <3>1. session[s].tx \notin acked
        BY <1>1 DEF Fresh
      <3> QED
        BY <1>1, <1>2, <2>1, <3>1 DEF Unsaved, Working
    <2>2. CASE r \in mem \ disk
      BY <1>1, <1>5, <2>2 DEF SaveInv, UnsavedIsKnown, Unsaved
    <2> QED
      BY <1>1, <2>1, <2>2
  <1> QED
    BY <1>3, <1>4, <1>5 DEF SaveInv, UnsavedIsKnown

\* A COMMIT that stops half way marks its transaction.
LEMMA SaveInvThrow ==
  ASSUME DurInv, SaveInv, NEW s \in Sessions, ApplyOpThrows(s)
  PROVE  SaveInv'
PROOF
  <1> USE DEF history, told, background
  <1> DEFINE t == session[s].tx
  <1>1. /\ repl' = repl /\ flusher' = flusher /\ disk' = disk /\ failed' = failed /\ mem' = mem
        /\ half' = half \cup {t} /\ acked' = acked /\ raced' = raced
        /\ session[s].pc = "apply" /\ \A x \in Sessions \ {s} : session'[x] = session[x]
    BY DEF ApplyOpThrows, At, DurInv, TypeOK
  <1>2. session'[s].pc = "open"
    BY DEF ApplyOpThrows, DurInv, TypeOK, SessionState
  <1>3. busy = s /\ \A x \in Sessions \ {s} : session[x].pc \notin Working
    BY <1>1, OthersRest DEF Working
  <1>4. \A x \in Sessions : session'[x].pc \notin Working
    BY <1>1, <1>2, <1>3 DEF Working
  <1>5. MutexIsHeld' /\ FlusherSleeps' /\ DiskIsAtomic'
    BY <1>1, <1>4 DEF SaveInv, MutexIsHeld, FlusherSleeps, DiskIsAtomic
  <1>6. MemIsAtomic'
    <2> SUFFICES ASSUME ~repl', NEW u \in Txs \ half'
                 PROVE  Whole(mem', u)
      BY DEF MemIsAtomic
    <2>1. Whole(mem, u) \/ Applying(u)
      BY <1>1 DEF SaveInv, MemIsAtomic
    <2>2. ~Applying(u)
      BY <1>1, <1>3 DEF Applying, Working
    <2> QED
      BY <1>1, <2>1, <2>2
  <1>7. UnsavedIsKnown'
    BY <1>1, <1>2, <1>3, <1>4 DEF SaveInv, UnsavedIsKnown, Unsaved, Working
  <1> QED
    BY <1>5, <1>6, <1>7 DEF SaveInv

\* An INSERT that fails at a later row marks its rows.
LEMMA SaveInvDirectThrows ==
  ASSUME DurInv, SaveInv, NEW s \in Sessions, DirectThrows(s)
  PROVE  SaveInv'
PROOF
  <1> USE DEF history, told, background
  <1>1. PICK k \in 1 .. Steps - 1 : mem' = mem \cup {lastTx + 1} \X (1 .. k)
    BY DEF DirectThrows
  <1>2. PICK n : n = lastTx + 1
    OBVIOUS
  <1>3. /\ repl' = repl /\ flusher' = flusher /\ disk' = disk /\ failed' = failed
        /\ half' = half \cup {n} /\ acked' = acked /\ raced' = raced /\ session' = session /\ busy' = busy
        /\ busy = NoSession
    BY <1>2 DEF DirectThrows, Free
  <1>4. \A x \in Sessions : session[x].pc \notin Working
    BY <1>3, AllRest
  <1>5. MutexIsHeld' /\ FlusherSleeps' /\ DiskIsAtomic'
    BY <1>3 DEF SaveInv, MutexIsHeld, FlusherSleeps, DiskIsAtomic
  <1>6. MemIsAtomic'
    <2> SUFFICES ASSUME ~repl', NEW u \in Txs \ half'
                 PROVE  Whole(mem', u)
      BY DEF MemIsAtomic
    <2>1. Whole(mem, u) /\ u # n
      BY <1>3, <1>4, MemIsWhole DEF Working
    <2>2. RowsOf(u) \cap ({n} \X (1 .. k)) = {}
      BY <2>1 DEF RowsOf
    <2> QED
      BY <1>1, <1>2, <2>1, <2>2 DEF Whole
  <1>7. ASSUME NEW r \in mem' \ disk', raced' = {}
        PROVE  Unsaved(r)'
    <2>1. CASE r \in {n} \X (1 .. k)
      BY <1>3, <2>1 DEF Unsaved
    <2>2. CASE r \in mem \ disk
      BY <1>3, <1>7, <2>2 DEF SaveInv, UnsavedIsKnown, Unsaved
    <2> QED
      BY <1>1, <1>2, <1>3, <2>1, <2>2
  <1> QED
    BY <1>5, <1>6, <1>7 DEF SaveInv, UnsavedIsKnown

\* The invariant of the saves is inductive.
LEMMA SaveInvStep == DurInv /\ DurInv' /\ SaveInv /\ Fresh /\ [Next]_vars => SaveInv'
PROOF
  <1> SUFFICES ASSUME DurInv, DurInv', SaveInv, Fresh, [Next]_vars PROVE SaveInv'
    OBVIOUS
  <1>1. CASE UNCHANGED vars
    BY <1>1 DEF vars, history, told, background, SaveInv, MutexIsHeld, FlusherSleeps, MemIsAtomic,
                Whole, Applying, DiskIsAtomic, UnsavedIsKnown, Unsaved
  <1> QED
    BY <1>1, SaveInvCrash, SaveInvFlusher, SaveInvOpen, SaveInvApply, SaveInvPersist,
       SaveInvRest, SaveInvDirect, SaveInvAtOnce, SaveInvThrow, SaveInvDirectThrows DEF Next

\* It holds throughout.
LEMMA SaveInvHolds == Spec => []SaveInv
PROOF
  <1>1. Init => DurInv
    BY DurInvInit
  <1>2. Init => SaveInv /\ Fresh
    BY DEF Init, SaveInv, Idle, Working, MutexIsHeld, FlusherSleeps, MemIsAtomic, Whole,
           DiskIsAtomic, UnsavedIsKnown, Fresh
  <1> QED
    BY <1>1, <1>2, DurInvStep, SaveInvStep, FreshStep, PTL DEF Spec

\* In the server the database file never has a part of what a transaction buffered, whoever
\* saves and whenever the process dies, for any number of sessions, transactions and operations;
\* except of one that failed half way, as its client was told (applyAndCommit, insertRow).
THEOREM FileHasWholeTransactions == Spec => []DiskIsAtomic
PROOF
  <1>1. SaveInv => DiskIsAtomic
    BY DEF SaveInv
  <1> QED
    BY <1>1, SaveInvHolds, PTL

\* Between two statements a row that is in memory and not in the file belongs to a transaction
\* whose client was told that a save or the statement failed, or was changed at once by one that
\* has not committed: in the server, and in the REPL until two saves overlap (persistFn).
THEOREM WhatIsUnsavedWasReported == Spec => []UnsavedIsReported
PROOF
  <1>1. SaveInv => UnsavedIsReported
    <2> SUFFICES ASSUME SaveInv, Free, raced = {}, NEW row \in mem \ disk
                 PROVE  row[1] \in failed \cup half \/ (row[2] = 0 /\ row[1] \notin acked)
      BY DEF UnsavedIsReported
    <2>1. \A x \in Sessions : session[x].pc \notin Working
      BY AllRest DEF Free
    <2> QED
      BY <2>1 DEF SaveInv, UnsavedIsKnown, Unsaved
  <1> QED
    BY <1>1, SaveInvHolds, PTL
=============================================================================
