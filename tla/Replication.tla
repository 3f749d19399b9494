---------------------------- MODULE Replication ----------------------------
(***************************************************************************)
(* Statement replication: the binlog and its positions                     *)
(* (src/replication/binlog.hpp), the master's handling of a poll           *)
(* (master_repl.hpp), acknowledgements (repl_state.hpp) and the replica's  *)
(* sync loop (slave_repl.hpp).                                             *)
(*                                                                         *)
(* A statement is its index in the binlog.  A poll is a connection of its  *)
(* own: the replica sends the position it has reached, the master answers  *)
(* with the statements after it or, when there are none for 3 s, with its  *)
(* own position.  A connection may fail without an answer or break within  *)
(* it; master and replica may restart.  Authentication, TLS, lag, status   *)
(* texts and failover detection by the clock are left out.                 *)
(***************************************************************************)
EXTENDS Naturals, Sequences, FiniteSets, Selections

CONSTANTS Slaves,
          SyncMode,    \* --sync: a write waits for an acknowledgement
          MaxBatch,    \* statements that fit in the replica's 1 MB limit
          Base,        \* base of the numerals that positions are sent as (10)
          MaxPos,      \* bound: binlog positions
          MaxFaults    \* bound: restarts and broken answers

ASSUME ReplicationAssumption ==
  /\ SyncMode \in BOOLEAN /\ MaxBatch \in Nat \ {0} /\ Base \in Nat \ {0, 1}
  /\ MaxPos \in Nat /\ MaxFaults \in Nat

VARIABLES log,       \* database.binlog: the position written on each line
          pos,       \* BinlogWriter::pos_
          ack,       \* maxSlaveAckPos
          waiting,   \* the position a synchronous write waits for, 0 if none
          slavePos,  \* replica -> slavePos
          paused,    \* replicas told STOP SLAVE
          conn,      \* replica -> its poll, as the master's handler thread has it
          todo,      \* replica -> what is left to replay of the answer it got
          executed,  \* replica -> the statements it executed
          faults,    \* restarts and broken answers so far
          skipped,   \* history: replicas told a position beyond statements they lack
          broken,    \* history: replicas that met a broken answer or restarted
          repeated,  \* history: replicas that executed a statement twice, out of order or cut off
          renumbered \* history: the master restarted with a smaller position

vars == <<log, pos, ack, waiting, slavePos, paused, conn, todo, executed, faults,
          skipped, broken, repeated, renumbered>>

NoConn == [pc |-> "none", from |-> 0, upto |-> 0]

\* The shape of the state.
TypeOK ==
  /\ log \in Seq(1 .. MaxPos) /\ pos \in 0 .. MaxPos
  /\ ack \in 0 .. MaxPos /\ waiting \in 0 .. pos
  /\ slavePos \in [Slaves -> 0 .. MaxPos] /\ paused \subseteq Slaves
  /\ conn \in [Slaves -> [pc : {"none", "read", "wait", "answer", "data", "uptodate"},
                          from : 0 .. MaxPos, upto : 0 .. MaxPos]]
  /\ executed \in [Slaves -> SUBSET DOMAIN log]
  /\ todo \in [Slaves -> Seq([stmt : 0 .. Len(log), pos : 0 .. MaxPos])]
  /\ faults \in 0 .. MaxFaults
  /\ skipped \subseteq Slaves /\ broken \subseteq Slaves /\ repeated \subseteq Slaves
  /\ renumbered \in BOOLEAN

Init ==
  /\ log = <<>> /\ pos = 0 /\ ack = 0 /\ waiting = 0
  /\ slavePos = [s \in Slaves |-> 0] /\ paused = {}
  /\ conn = [s \in Slaves |-> NoConn]
  /\ todo = [s \in Slaves |-> <<>>] /\ executed = [s \in Slaves |-> {}]
  /\ faults = 0 /\ skipped = {} /\ broken = {} /\ repeated = {} /\ renumbered = FALSE

history == <<faults, skipped, broken, repeated, renumbered>>
replica == <<slavePos, paused, todo, executed>>
-----------------------------------------------------------------------------
(* The master's writes.  Statements run one at a time under engineMutex_. *)

\* Mutant: the line carries the position before the increment.
Write_OldPos ==
  /\ waiting = 0 /\ pos < MaxPos
  /\ pos' = pos + 1
  /\ log' = Append(log, pos)
  /\ waiting' \in IF SyncMode /\ \E s \in Slaves : conn[s] # NoConn THEN {0, pos'} ELSE {0}
  /\ UNCHANGED <<ack, conn, replica, history>>
\* BinlogWriter::write and the binlog hook: a synchronous write then waits for the
\* acknowledgement if a handler thread counts a replica as connected, which it does
\* for a part of the poll.
Write ==
  /\ waiting = 0 /\ pos < MaxPos
  /\ pos' = pos + 1
  /\ log' = Append(log, pos')
  /\ waiting' \in IF SyncMode /\ \E s \in Slaves : conn[s] # NoConn THEN {0, pos'} ELSE {0}
  /\ UNCHANGED <<ack, conn, replica, history>>

\* The file does not open: the position is used up, the exception is swallowed.
WriteFails ==
  /\ waiting = 0 /\ pos < MaxPos
  /\ pos' = pos + 1
  /\ UNCHANGED <<log, ack, waiting, conn, replica, history>>

\* replWaitForAck returns, acknowledged or not; its result is not looked at.
WaitEnds ==
  /\ waiting # 0
  /\ waiting' = 0
  /\ UNCHANGED <<log, pos, ack, conn, replica, history>>
-----------------------------------------------------------------------------
(* A poll *)

\* The statements readFrom(from) finds among the first n lines.
Entries(from, n) == Ascending({i \in 1 .. n : log[i] > from})

\* trySync connects and asks.
Request(s) ==
  /\ s \notin paused /\ conn[s] = NoConn /\ todo[s] = <<>>
  /\ conn' = [conn EXCEPT ![s] = [pc |-> "read", from |-> slavePos[s], upto |-> 0]]
  /\ UNCHANGED <<log, pos, ack, waiting, replica, history>>

\* Mutant: the position is acknowledged when the statements are sent.
Read_AckSent(s) ==
  LET from == conn[s].from IN
  /\ conn[s].pc = "read"
  /\ ack' = IF Entries(from, Len(log)) # <<>> THEN pos ELSE IF from > ack THEN from ELSE ack
  /\ conn' = [conn EXCEPT ![s].pc = IF Entries(from, Len(log)) # <<>> THEN "data" ELSE "wait",
                          ![s].upto = Len(log)]
  /\ UNCHANGED <<log, pos, waiting, replica, history>>
\* processRequest: the position is recorded as acknowledged and the binlog is read.
Read(s) ==
  LET from == conn[s].from IN
  /\ conn[s].pc = "read"
  /\ ack' = IF from > ack THEN from ELSE ack
  /\ conn' = [conn EXCEPT ![s].pc = IF Entries(from, Len(log)) # <<>> THEN "data" ELSE "wait",
                          ![s].upto = Len(log)]
  /\ UNCHANGED <<log, pos, waiting, replica, history>>

\* Nothing was found: after a wakeup or 3 s it is read again.
Reread(s) ==
  /\ conn[s].pc = "wait"
  /\ conn' = [conn EXCEPT ![s].pc = IF Entries(conn[s].from, Len(log)) # <<>> THEN "data" ELSE "answer",
                          ![s].upto = Len(log)]
  /\ UNCHANGED <<log, pos, ack, waiting, replica, history>>

\* Still nothing: REPL_UPTODATE with getCurrentPos(), read under another lock.
Answer(s) ==
  /\ conn[s].pc = "answer"
  /\ conn' = [conn EXCEPT ![s].pc = "uptodate", ![s].upto = pos]
  /\ skipped' = IF Entries(conn[s].from, Len(log)) # <<>> THEN skipped \cup {s} ELSE skipped
  /\ UNCHANGED <<log, pos, ack, waiting, replica, faults, broken, repeated, renumbered>>
-----------------------------------------------------------------------------
(* The replica *)

Item(i) == [stmt |-> i, pos |-> log[i]]
Batch(s) == Entries(conn[s].from, conn[s].upto)

\* Mutant: the position of the last statement is taken over before they are replayed.
Deliver_PosFirst(s) ==
  /\ conn[s].pc \in {"data", "uptodate"}
  /\ conn' = [conn EXCEPT ![s] = NoConn]
  /\ IF conn[s].pc = "uptodate" THEN slavePos' = [slavePos EXCEPT ![s] = conn[s].upto] /\ todo' = todo
     ELSE IF Len(Batch(s)) > MaxBatch THEN UNCHANGED <<slavePos, todo>>
     ELSE /\ todo' = [todo EXCEPT ![s] = [i \in DOMAIN Batch(s) |-> Item(Batch(s)[i])]]
          /\ slavePos' = [slavePos EXCEPT ![s] = log[conn[s].upto]]
  /\ UNCHANGED <<log, pos, ack, waiting, paused, executed, history>>
\* Mutant: an answer of exactly the limit is thrown away too.
Deliver_AtLimit(s) ==
  /\ conn[s].pc \in {"data", "uptodate"}
  /\ conn' = [conn EXCEPT ![s] = NoConn]
  /\ IF conn[s].pc = "uptodate" THEN slavePos' = [slavePos EXCEPT ![s] = conn[s].upto] /\ todo' = todo
     ELSE /\ slavePos' = slavePos
          /\ todo' = IF Len(Batch(s)) >= MaxBatch THEN todo
                     ELSE [todo EXCEPT ![s] = [i \in DOMAIN Batch(s) |-> Item(Batch(s)[i])]]
  /\ UNCHANGED <<log, pos, ack, waiting, paused, executed, history>>
\* The whole answer arrives.  One above the limit is thrown away.
Deliver(s) ==
  /\ conn[s].pc \in {"data", "uptodate"}
  /\ conn' = [conn EXCEPT ![s] = NoConn]
  /\ IF conn[s].pc = "uptodate" THEN slavePos' = [slavePos EXCEPT ![s] = conn[s].upto] /\ todo' = todo
     ELSE /\ slavePos' = slavePos
          /\ todo' = IF Len(Batch(s)) > MaxBatch THEN todo
                     ELSE [todo EXCEPT ![s] = [i \in DOMAIN Batch(s) |-> Item(Batch(s)[i])]]
  /\ UNCHANGED <<log, pos, ack, waiting, paused, executed, history>>

\* What is left of a position when its line is cut off: nothing, or leading digits.
Cut(p) == {q \in 0 .. p : q = 0 \/ \E k \in 1 .. p : q = p \div (Base ^ k)}

\* The connection breaks within the answer and recv returns 0: what came is replayed
\* all the same, the last line as far as it got.
DeliverCut(s) ==
  /\ conn[s].pc \in {"data", "uptodate"} /\ faults < MaxFaults
  /\ conn' = [conn EXCEPT ![s] = NoConn]
  /\ \/ /\ conn[s].pc = "uptodate"
        /\ \E p \in Cut(conn[s].upto) \ {0} : slavePos' = [slavePos EXCEPT ![s] = p]
        /\ todo' = todo
     \/ /\ conn[s].pc = "data"
        /\ \E n \in 0 .. Len(Batch(s)) - 1 :
             LET next == Batch(s)[n + 1]
                 last == {[stmt |-> 0, pos |-> 0]} \cup [stmt : {next}, pos : Cut(log[next])]
             IN  /\ n <= MaxBatch
                 /\ \E item \in last :
                      todo' = [todo EXCEPT ![s] =
                                 Append([i \in 1 .. n |-> Item(Batch(s)[i])], item)]
        /\ slavePos' = slavePos
  /\ faults' = faults + 1 /\ broken' = broken \cup {s}
  /\ UNCHANGED <<log, pos, ack, waiting, paused, executed, skipped, repeated, renumbered>>

\* The connection fails, or 5 s pass, before anything of the answer arrives.
Drop(s) ==
  /\ conn[s] # NoConn
  /\ conn' = [conn EXCEPT ![s] = NoConn]
  /\ UNCHANGED <<log, pos, ack, waiting, replica, history>>

\* execFn_; 0 is a STMT line that was cut off: what is left of it is executed as a
\* statement, one the master never wrote.
Execute(s, stmt) ==
  /\ executed' = [executed EXCEPT ![s] = @ \cup ({stmt} \ {0})]
  /\ repeated' = IF stmt = 0 \/ \E i \in executed[s] : stmt <= i THEN repeated \cup {s} ELSE repeated

\* A STMT line is executed, errors ignored, and the POS line after it taken over.
Apply(s) ==
  LET item == Head(todo[s]) IN
  /\ todo[s] # <<>>
  /\ Execute(s, item.stmt)
  /\ slavePos' = [slavePos EXCEPT ![s] = IF item.pos = 0 THEN @ ELSE item.pos]
  /\ todo' = [todo EXCEPT ![s] = Tail(@)]
  /\ UNCHANGED <<log, pos, ack, waiting, paused, conn, faults, skipped, broken, renumbered>>

\* STOP SLAVE and START SLAVE; a poll that is under way goes on.
StopStart(s) ==
  /\ paused' = IF s \in paused THEN paused \ {s} ELSE paused \cup {s}
  /\ UNCHANGED <<log, pos, ack, waiting, slavePos, conn, todo, executed, history>>

\* The replica restarts: its tables are on disk, its position starts over at 0.
SlaveRestart(s) ==
  /\ faults < MaxFaults
  /\ slavePos' = [slavePos EXCEPT ![s] = 0]
  /\ todo' = [todo EXCEPT ![s] = <<>>] /\ conn' = [conn EXCEPT ![s] = NoConn]
  /\ paused' = paused \ {s}
  /\ faults' = faults + 1 /\ broken' = broken \cup {s}
  /\ UNCHANGED <<log, pos, ack, waiting, executed, skipped, repeated, renumbered>>

\* The master restarts: the position is the number of lines in the file.
MasterRestart ==
  /\ faults < MaxFaults
  /\ pos' = Len(log) /\ ack' = 0 /\ waiting' = 0
  /\ conn' = [s \in Slaves |-> NoConn]
  /\ faults' = faults + 1 /\ renumbered' = (renumbered \/ Len(log) < pos)
  /\ UNCHANGED <<log, replica, skipped, broken, repeated>>

Next ==
  \/ Write \/ WriteFails \/ WaitEnds \/ MasterRestart
  \/ \E s \in Slaves :
       \/ Request(s) \/ Read(s) \/ Reread(s) \/ Answer(s)
       \/ Deliver(s) \/ DeliverCut(s) \/ Drop(s) \/ Apply(s)
       \/ StopStart(s) \/ SlaveRestart(s)

\* The threads of both sides go on; a poll that is made again and again is answered
\* in the end.  Clients, operators and faults promise nothing.
Fairness ==
  /\ WF_vars(WaitEnds)
  /\ \A s \in Slaves :
       /\ WF_vars(Apply(s)) /\ SF_vars(Request(s)) /\ SF_vars(Read(s))
       /\ SF_vars(Reread(s)) /\ SF_vars(Answer(s)) /\ SF_vars(Deliver(s))

Spec == Init /\ [][Next]_vars /\ Fairness
-----------------------------------------------------------------------------
UpTo(p) == {i \in DOMAIN log : log[i] <= p}

\* However often the master and the replica restart, polls are lost or answers break, a
\* replica that was never told a position beyond what it lacks has executed every statement
\* up to its position; one that met no broken answer and did not restart has executed none
\* twice, out of order or cut off.
ReplicaFollows ==
  ~renumbered =>
    /\ \A s \in Slaves \ skipped : UpTo(slavePos[s]) \subseteq executed[s]
    /\ repeated \subseteq broken

\* What is acknowledged to synchronous writes some replica has executed, if none was
\* told too far a position.
AckIsExecuted ==
  ~renumbered /\ skipped = {} /\ ack > 0 => \E s \in Slaves : UpTo(ack) \subseteq executed[s]

\* A replica that is not stopped executes every statement in the end, unless it was
\* told too far a position or is behind by more than fits in one answer.
CatchesUp ==
  \A s \in Slaves : \A i \in 1 .. MaxPos :
    i \in DOMAIN log ~>
      \/ i \in executed[s] \/ s \in paused \cup skipped \/ renumbered
      \/ Len(Entries(slavePos[s], Len(log))) > MaxBatch

\* processRequest: "slave has durably applied everything up to fromPos".
FromPosIsApplied ==
  \A s \in Slaves : conn[s].pc = "read" => UpTo(conn[s].from) \subseteq executed[s]
=============================================================================
