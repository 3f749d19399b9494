------------------------- MODULE ReplicationProofs -------------------------
(***************************************************************************)
(* A replica has executed every statement up to its position, and what is  *)
(* acknowledged has been executed, for any number of replicas, statements, *)
(* lost and broken answers and restarts.                                   *)
(*                                                                         *)
(* Neither is inductive: a position is a promise only together with what   *)
(* is on its way.  Following says what makes it one: positions grow along  *)
(* the binlog and none lies beyond the master's; a poll under way still    *)
(* asks for the replica's position and has nothing waiting to be replayed; *)
(* an answer without statements names a position with nothing missing      *)
(* below it; and what waits to be replayed continues, without a gap, from  *)
(* what was executed.                                                      *)
(***************************************************************************)
EXTENDS Replication, SelectionsProofs, TLAPS

\* Positions grow along the binlog and none lies beyond the master's.
PositionsGrow ==
  /\ \A i \in DOMAIN log : log[i] <= pos
  /\ \A i, j \in DOMAIN log : i < j => log[i] < log[j]
  /\ ack <= pos
  /\ \A s \in Slaves :
       /\ slavePos[s] <= pos /\ conn[s].from <= pos
       /\ conn[s].pc = "uptodate" => conn[s].from <= conn[s].upto /\ conn[s].upto <= pos
       /\ \A k \in DOMAIN todo[s] : todo[s][k].pos <= pos

\* A poll asks for the position of its replica, which has nothing left to replay, and
\* the binlog still has the lines that were read for it.
PollIsCurrent ==
  \A s \in Slaves :
    /\ conn[s] # NoConn => conn[s].from = slavePos[s] /\ todo[s] = <<>>
    /\ conn[s].pc = "data" => conn[s].upto <= Len(log)

\* Nothing is missing below a replica's position, below the position an answer without
\* statements names, or below an item to replay, once those before it are replayed.
NothingMissing(s) ==
  /\ UpTo(slavePos[s]) \subseteq executed[s]
  /\ conn[s].pc = "uptodate" => UpTo(conn[s].upto) \subseteq executed[s]
  /\ \A k \in DOMAIN todo[s] : \A i \in UpTo(todo[s][k].pos) :
       i \in executed[s] \/ \E j \in 1 .. k : todo[s][j].stmt = i

\* A replica that met no fault has executed nothing beyond its position, and what it has
\* to replay lies beyond it, in the order of the binlog.
InOrder(s) ==
  /\ \A i \in executed[s] : log[i] <= slavePos[s]
  /\ \A k \in DOMAIN todo[s] :
       /\ todo[s][k].stmt \in DOMAIN log /\ todo[s][k].pos = log[todo[s][k].stmt]
       /\ todo[s][k].pos > slavePos[s]
  /\ \A k, l \in DOMAIN todo[s] : k < l => todo[s][k].stmt < todo[s][l].stmt

\* What holds of the state by its shape.
Shape == TypeOK /\ Len(log) <= pos /\ PollIsCurrent

\* What positions promise as long as they were not given out twice.
Kept ==
  /\ PositionsGrow
  /\ \A s \in Slaves \ skipped : NothingMissing(s)
  /\ \A s \in Slaves \ broken : InOrder(s) /\ s \notin repeated
  /\ AckIsExecuted

\* The inductive invariant.
Following == Shape /\ (~renumbered => Kept)

\* readFrom returns the lines beyond the position, all of them, in the order of the file.
LEMMA EntriesRead ==
  ASSUME log \in Seq(Nat), NEW from \in Nat, NEW n \in 0 .. Len(log)
  PROVE  /\ Entries(from, n) \in Seq(1 .. n)
         /\ \A k \in DOMAIN Entries(from, n) :
              Entries(from, n)[k] \in 1 .. n /\ log[Entries(from, n)[k]] > from
         /\ \A k, l \in DOMAIN Entries(from, n) : k < l => Entries(from, n)[k] < Entries(from, n)[l]
         /\ \A i \in 1 .. n : log[i] > from => \E k \in DOMAIN Entries(from, n) : Entries(from, n)[k] = i
<1> DEFINE S == {i \in 1 .. n : log[i] > from}
           e == Ascending(S)
<1>1. n \in Nat /\ IsFiniteSet(1 .. n) /\ S \in SUBSET (1 .. n)
  BY FS_Interval
<1>2. IsFiniteSet(S) /\ S \in SUBSET Nat
  BY <1>1, FS_Subset
<1> HIDE DEF S
<1>3. /\ Cardinality(S) \in Nat /\ Len(e) = Cardinality(S) /\ e \in Seq(S)
      /\ \A i \in 1 .. Cardinality(S) : e[i] \in S
      /\ \A i, j \in 1 .. Cardinality(S) : i < j => e[i] < e[j]
      /\ \A x \in S : \E i \in 1 .. Cardinality(S) : e[i] = x
  BY <1>2, AscendingLists
<1>4. DOMAIN e = 1 .. Cardinality(S)
  BY <1>3
<1>5. Entries(from, n) = e
  BY DEF Entries, S
<1>6. \A x : x \in S <=> x \in 1 .. n /\ log[x] > from
  BY DEF S
<1> HIDE DEF e
<1>7. e \in Seq(1 .. n)
  BY <1>3, <1>6, SeqOver
<1> QED
  BY <1>3, <1>4, <1>5, <1>6, <1>7

\* What a batch holds, for a poll whose lines were read.
LEMMA BatchRead ==
  ASSUME TypeOK, NEW s \in Slaves, conn[s].upto <= Len(log)
  PROVE  /\ Batch(s) \in Seq(1 .. conn[s].upto) /\ Batch(s) \in Seq(DOMAIN log)
         /\ Len(Batch(s)) \in Nat /\ DOMAIN Batch(s) = 1 .. Len(Batch(s))
         /\ \A k \in DOMAIN Batch(s) : /\ Batch(s)[k] \in 1 .. conn[s].upto
                                       /\ Batch(s)[k] \in DOMAIN log
                                       /\ log[Batch(s)[k]] > conn[s].from
                                       /\ log[Batch(s)[k]] \in 1 .. MaxPos
         /\ \A k, l \in DOMAIN Batch(s) : k < l => Batch(s)[k] < Batch(s)[l]
         /\ \A i \in 1 .. conn[s].upto :
              log[i] > conn[s].from => \E k \in DOMAIN Batch(s) : Batch(s)[k] = i
<1>1. MaxPos \in Nat
  BY ReplicationAssumption
<1>2. log \in Seq(Nat) /\ conn[s].from \in Nat /\ conn[s].upto \in 0 .. Len(log)
  <2>1. log \in Seq(1 .. MaxPos) /\ conn[s].from \in 0 .. MaxPos /\ conn[s].upto \in 0 .. MaxPos
    BY DEF TypeOK
  <2>2. \A i \in 1 .. Len(log) : log[i] \in 1 .. MaxPos
    BY <2>1, ElementOfSeq
  <2>3. log \in Seq(Nat) /\ Len(log) \in Nat
    BY <1>1, <2>1, <2>2, SeqOver, LenProperties
  <2> QED
    BY <1>1, <2>1, <2>3
<1>3. DOMAIN log = 1 .. Len(log) /\ Len(log) \in Nat /\ \A i \in DOMAIN log : log[i] \in 1 .. MaxPos
  <2>1. log \in Seq(1 .. MaxPos)
    BY DEF TypeOK
  <2> QED
    BY <2>1, LenProperties
<1>4. 1 .. conn[s].upto \subseteq DOMAIN log
  BY <1>2, <1>3
<1> DEFINE from == conn[s].from
           n == conn[s].upto
<1> HIDE DEF from, n
<1>5. Batch(s) = Entries(from, n)
  BY DEF Batch, from, n
<1>6. /\ Batch(s) \in Seq(1 .. n)
      /\ \A k \in DOMAIN Batch(s) : Batch(s)[k] \in 1 .. n /\ log[Batch(s)[k]] > from
      /\ \A k, l \in DOMAIN Batch(s) : k < l => Batch(s)[k] < Batch(s)[l]
      /\ \A i \in 1 .. n : log[i] > from => \E k \in DOMAIN Batch(s) : Batch(s)[k] = i
  <2>1. log \in Seq(Nat) /\ from \in Nat /\ n \in 0 .. Len(log)
    BY <1>2 DEF from, n
  <2>2. /\ Entries(from, n) \in Seq(1 .. n)
        /\ \A k \in DOMAIN Entries(from, n) :
              Entries(from, n)[k] \in 1 .. n /\ log[Entries(from, n)[k]] > from
        /\ \A k, l \in DOMAIN Entries(from, n) : k < l => Entries(from, n)[k] < Entries(from, n)[l]
        /\ \A i \in 1 .. n : log[i] > from => \E k \in DOMAIN Entries(from, n) : Entries(from, n)[k] = i
    BY <2>1, EntriesRead
  <2> QED
    BY <2>2, <1>5
<1>7. 1 .. n \subseteq DOMAIN log
  BY <1>4 DEF n
<1>8. Batch(s) \in Seq(DOMAIN log) /\ Len(Batch(s)) \in Nat /\ DOMAIN Batch(s) = 1 .. Len(Batch(s))
  <2>1. Len(Batch(s)) \in Nat /\ DOMAIN Batch(s) = 1 .. Len(Batch(s))
    BY <1>6, LenProperties
  <2> QED
    BY <1>6, <1>7, <2>1, SeqOver
<1> QED
  BY <1>3, <1>6, <1>7, <1>8 DEF from, n
-----------------------------------------------------------------------------
\* The items of a batch have the shape of something to replay.
LEMMA ItemShape ==
  ASSUME TypeOK, NEW i \in DOMAIN log
  PROVE  Item(i) \in [stmt : 0 .. Len(log), pos : 0 .. MaxPos]
<1>1. MaxPos \in Nat /\ log \in Seq(1 .. MaxPos)
  BY ReplicationAssumption DEF TypeOK
<1>2. Len(log) \in Nat /\ i \in 1 .. Len(log) /\ log[i] \in 1 .. MaxPos
  BY <1>1, LenProperties
<1> QED
  BY <1>1, <1>2 DEF Item

\* The master's writes keep the shape of the state.
LEMMA ShapeWrite ==
  ASSUME Shape, Write \/ WriteFails \/ WaitEnds
  PROVE  Shape'
<1> USE ReplicationAssumption DEF Shape, history, replica
<1>1. /\ log \in Seq(1 .. MaxPos) /\ pos \in 0 .. MaxPos /\ Len(log) \in Nat
      /\ todo \in [Slaves -> Seq([stmt : 0 .. Len(log), pos : 0 .. MaxPos])]
      /\ executed \in [Slaves -> SUBSET (1 .. Len(log))]
      /\ conn \in [Slaves -> [pc : {"none", "read", "wait", "answer", "data", "uptodate"},
                              from : 0 .. MaxPos, upto : 0 .. MaxPos]]
  BY LenProperties DEF TypeOK
<1>2. CASE Write
  <2>1. /\ log' = Append(log, pos + 1) /\ pos' = pos + 1 /\ pos + 1 \in 1 .. MaxPos
        /\ waiting' \in {0, pos + 1}
        /\ UNCHANGED <<ack, conn, slavePos, paused, todo, executed, history>>
    BY <1>2, <1>1 DEF Write
  <2>2. log' \in Seq(1 .. MaxPos) /\ Len(log') = Len(log) + 1 /\ DOMAIN log' = 1 .. Len(log) + 1
    BY <1>1, <2>1, AppendProperties, LenProperties
  <2>3. \A s \in Slaves : todo[s] \in Seq([stmt : 0 .. Len(log'), pos : 0 .. MaxPos])
    <3> SUFFICES ASSUME NEW s \in Slaves
                 PROVE  todo[s] \in Seq([stmt : 0 .. Len(log'), pos : 0 .. MaxPos])
      OBVIOUS
    <3>1. todo[s] \in Seq([stmt : 0 .. Len(log), pos : 0 .. MaxPos])
      BY <1>1
    <3>2. \A k \in 1 .. Len(todo[s]) : todo[s][k] \in [stmt : 0 .. Len(log), pos : 0 .. MaxPos]
      BY <3>1, ElementOfSeq
    <3>3. [stmt : 0 .. Len(log), pos : 0 .. MaxPos] \subseteq [stmt : 0 .. Len(log'), pos : 0 .. MaxPos]
      BY <2>2, <1>1
    <3> QED
      BY <3>1, <3>2, <3>3, SeqOver
  <2>4. todo' \in [Slaves -> Seq([stmt : 0 .. Len(log'), pos : 0 .. MaxPos])]
    BY <1>1, <2>1, <2>3
  <2>5. executed' \in [Slaves -> SUBSET DOMAIN log'] /\ waiting' \in 0 .. pos' /\ pos' \in 0 .. MaxPos
    BY <1>1, <2>1, <2>2
  <2>6. TypeOK'
    BY <2>1, <2>2, <2>4, <2>5 DEF TypeOK
  <2>7. PollIsCurrent'
    BY <1>1, <2>1, <2>2 DEF PollIsCurrent
  <2> QED
    BY <1>1, <2>1, <2>2, <2>6, <2>7
<1>3. CASE WriteFails
  <2>1. /\ pos' = pos + 1 /\ pos' \in 0 .. MaxPos
        /\ UNCHANGED <<log, ack, waiting, conn, slavePos, paused, todo, executed, history>>
    BY <1>3, <1>1 DEF WriteFails
  <2>2. waiting' \in 0 .. pos'
    BY <1>1, <2>1 DEF TypeOK
  <2>3. TypeOK'
    BY <2>1, <2>2 DEF TypeOK
  <2>4. PollIsCurrent'
    BY <2>1 DEF PollIsCurrent
  <2> QED
    BY <1>1, <2>1, <2>3, <2>4
<1>4. CASE WaitEnds
  <2>1. waiting' = 0 /\ UNCHANGED <<log, pos, ack, conn, slavePos, paused, todo, executed, history>>
    BY <1>4 DEF WaitEnds
  <2>2. waiting' \in 0 .. pos'
    BY <1>1, <2>1
  <2>3. TypeOK' /\ PollIsCurrent'
    BY <2>1, <2>2 DEF TypeOK, PollIsCurrent
  <2> QED
    BY <2>1, <2>3
<1> QED
  BY <1>2, <1>3, <1>4

\* So does a restart of the master.
LEMMA ShapeMaster ==
  ASSUME Shape, MasterRestart
  PROVE  Shape'
<1> USE ReplicationAssumption DEF Shape, history, replica
<1> DEFINE Conn == [pc : {"none", "read", "wait", "answer", "data", "uptodate"},
                    from : 0 .. MaxPos, upto : 0 .. MaxPos]
<1>1. /\ log \in Seq(1 .. MaxPos) /\ pos \in 0 .. MaxPos /\ Len(log) \in 0 .. MaxPos
      /\ conn \in [Slaves -> Conn] /\ NoConn \in Conn /\ slavePos \in [Slaves -> 0 .. MaxPos]
      /\ ack \in 0 .. MaxPos /\ skipped \subseteq Slaves /\ faults \in 0 .. MaxFaults
  <2>1. log \in Seq(1 .. MaxPos) /\ pos \in 0 .. MaxPos
    BY DEF TypeOK
  <2>2. Len(log) \in 0 .. MaxPos
    BY <2>1, LenProperties
  <2> QED
    BY <2>1, <2>2 DEF TypeOK, NoConn
<1>2. /\ conn' \in [Slaves -> Conn] /\ pos' \in 0 .. MaxPos /\ ack' \in 0 .. MaxPos
      /\ waiting' \in 0 .. pos' /\ faults' \in 0 .. MaxFaults
  BY <1>1 DEF MasterRestart
<1>3. renumbered' \in BOOLEAN
  BY DEF MasterRestart
<1>4. TypeOK'
  BY <1>2, <1>3 DEF TypeOK, MasterRestart
<1> QED
  BY <1>1, <1>4 DEF PollIsCurrent, MasterRestart, NoConn

\* So do the master's side of a poll and a lost connection.
LEMMA ShapePoll ==
  ASSUME Shape, NEW s \in Slaves,
         Request(s) \/ Read(s) \/ Reread(s) \/ Answer(s) \/ Drop(s) \/ StopStart(s)
  PROVE  Shape'
<1> USE ReplicationAssumption DEF Shape, history, replica
<1> DEFINE Conn == [pc : {"none", "read", "wait", "answer", "data", "uptodate"},
                    from : 0 .. MaxPos, upto : 0 .. MaxPos]
<1>1. /\ log \in Seq(1 .. MaxPos) /\ pos \in 0 .. MaxPos /\ Len(log) \in 0 .. MaxPos
      /\ conn \in [Slaves -> Conn] /\ NoConn \in Conn /\ slavePos \in [Slaves -> 0 .. MaxPos]
      /\ ack \in 0 .. MaxPos /\ skipped \subseteq Slaves /\ faults \in 0 .. MaxFaults
  <2>1. log \in Seq(1 .. MaxPos) /\ pos \in 0 .. MaxPos
    BY DEF TypeOK
  <2>2. Len(log) \in 0 .. MaxPos
    BY <2>1, LenProperties
  <2> QED
    BY <2>1, <2>2 DEF TypeOK, NoConn
<1>2. CASE Request(s)
  <2>1. conn' \in [Slaves -> Conn]
    BY <1>1, <1>2 DEF Request
  <2>2. TypeOK'
    BY <1>2, <2>1 DEF TypeOK, Request
  <2> QED
    BY <1>1, <1>2, <2>2 DEF PollIsCurrent, Request
<1>3. CASE Read(s)
  <2>1. conn' \in [Slaves -> Conn] /\ ack' \in 0 .. MaxPos
    BY ZenonT(60), <1>1, <1>3 DEF Read
  <2>2. TypeOK'
    BY <1>3, <2>1 DEF TypeOK, Read
  <2> QED
    BY SMTT(40), <1>1, <1>3, <2>2 DEF PollIsCurrent, Read, NoConn
<1>4. CASE Reread(s)
  <2>1. conn' \in [Slaves -> Conn]
    BY ZenonT(60), <1>1, <1>4 DEF Reread
  <2>2. TypeOK'
    BY <1>4, <2>1 DEF TypeOK, Reread
  <2> QED
    BY <1>1, <1>4, <2>2 DEF PollIsCurrent, Reread, NoConn
<1>5. CASE Answer(s)
  <2>1. conn' \in [Slaves -> Conn] /\ skipped' \subseteq Slaves
    BY <1>1, <1>5 DEF Answer
  <2>2. TypeOK'
    BY <1>5, <2>1 DEF TypeOK, Answer
  <2> QED
    BY <1>1, <1>5, <2>2 DEF PollIsCurrent, Answer, NoConn
<1>6. CASE Drop(s)
  <2>1. conn' \in [Slaves -> Conn]
    BY <1>1, <1>6 DEF Drop
  <2>2. TypeOK'
    BY <1>6, <2>1 DEF TypeOK, Drop
  <2> QED
    BY <1>1, <1>6, <2>2 DEF PollIsCurrent, Drop, NoConn
<1>7. CASE StopStart(s)
  <2>1. TypeOK'
    BY <1>7 DEF TypeOK, StopStart
  <2> QED
    BY <1>7, <2>1 DEF PollIsCurrent, StopStart
<1> QED
  BY <1>2, <1>3, <1>4, <1>5, <1>6, <1>7

\* What an answer gives the replica to replay has its shape, whole or cut off.
LEMMA ShapeDeliver ==
  ASSUME Shape, NEW s \in Slaves, Deliver(s) \/ DeliverCut(s)
  PROVE  Shape'
<1> USE ReplicationAssumption DEF Shape, history
<1> DEFINE Conn == [pc : {"none", "read", "wait", "answer", "data", "uptodate"},
                    from : 0 .. MaxPos, upto : 0 .. MaxPos]
           It == [stmt : 0 .. Len(log), pos : 0 .. MaxPos]
<1>1. /\ log \in Seq(1 .. MaxPos) /\ conn \in [Slaves -> Conn] /\ NoConn \in Conn
      /\ slavePos \in [Slaves -> 0 .. MaxPos] /\ faults \in 0 .. MaxFaults /\ broken \subseteq Slaves
      /\ todo \in [Slaves -> Seq(It)]
  <2>1. NoConn \in Conn
    BY DEF NoConn
  <2> QED
    BY <2>1 DEF TypeOK
<1>2. /\ conn' = [conn EXCEPT ![s] = NoConn]
      /\ UNCHANGED <<log, pos, ack, waiting, paused, executed, skipped, repeated, renumbered>>
      /\ faults' \in 0 .. MaxFaults /\ broken' \subseteq Slaves
  BY <1>1 DEF Deliver, DeliverCut
<1>3. \A k \in 1 .. Len(Batch(s)) : conn[s].pc = "data" => /\ Batch(s)[k] \in DOMAIN log
                                                          /\ Item(Batch(s)[k]) \in It
  <2> SUFFICES ASSUME conn[s].pc = "data", NEW k \in 1 .. Len(Batch(s))
               PROVE  Batch(s)[k] \in DOMAIN log /\ Item(Batch(s)[k]) \in It
    OBVIOUS
  <2>1. conn[s].upto <= Len(log)
    BY DEF PollIsCurrent
  <2>2. Batch(s)[k] \in DOMAIN log
    BY <2>1, BatchRead
  <2> QED
    BY <2>2, ItemShape
<1>4. conn[s].pc = "data" => Len(Batch(s)) \in Nat /\ DOMAIN Batch(s) = 1 .. Len(Batch(s))
  BY BatchRead DEF PollIsCurrent
<1>5. ASSUME conn[s].pc = "data", NEW n \in 0 .. Len(Batch(s))
      PROVE  [i \in 1 .. n |-> Item(Batch(s)[i])] \in Seq(It)
  <2> DEFINE f == [i \in 1 .. n |-> Item(Batch(s)[i])]
  <2>1. n \in Nat /\ \A i \in 1 .. n : f[i] \in It
    BY <1>3, <1>4, <1>5
  <2>2. f = [i \in 1 .. n |-> f[i]]
    OBVIOUS
  <2> HIDE DEF f, It
  <2>3. f \in Seq(It)
    BY <2>1, <2>2, FunctionIsSeq
  <2> QED
    BY <2>3 DEF f
<1>6. /\ slavePos' \in [Slaves -> 0 .. MaxPos] /\ todo' \in [Slaves -> Seq(It)]
      /\ \A t \in Slaves \ {s} : slavePos'[t] = slavePos[t] /\ todo'[t] = todo[t]
  <2>1. CASE Deliver(s) /\ conn[s].pc = "uptodate"
    BY <1>1, <2>1 DEF Deliver
  <2>2. CASE Deliver(s) /\ conn[s].pc = "data"
    <3>1. slavePos' = slavePos
          /\ (todo' = todo \/ todo' = [todo EXCEPT ![s] = [i \in 1 .. Len(Batch(s)) |-> Item(Batch(s)[i])]])
      BY <2>2, <1>4 DEF Deliver
    <3>2. [i \in 1 .. Len(Batch(s)) |-> Item(Batch(s)[i])] \in Seq(It)
      BY <2>2, <1>4, <1>5
    <3> HIDE DEF It
    <3> QED
      BY ZenonT(60), <1>1, <3>1, <3>2
  <2>3. CASE DeliverCut(s) /\ conn[s].pc = "uptodate"
    <3>1. PICK p \in Cut(conn[s].upto) : slavePos' = [slavePos EXCEPT ![s] = p] /\ todo' = todo
      BY <2>3 DEF DeliverCut
    <3>2. p \in 0 .. MaxPos
      BY <1>1, <3>1 DEF Cut
    <3> QED
      BY <1>1, <3>1, <3>2
  <2>4. CASE DeliverCut(s) /\ conn[s].pc = "data"
    <3>1. PICK n \in 0 .. Len(Batch(s)) - 1 :
            \E item \in {[stmt |-> 0, pos |-> 0]} \cup [stmt : {Batch(s)[n + 1]}, pos : Cut(log[Batch(s)[n + 1]])] :
               todo' = [todo EXCEPT ![s] = Append([i \in 1 .. n |-> Item(Batch(s)[i])], item)]
      BY <2>4 DEF DeliverCut
    <3>2. PICK item \in {[stmt |-> 0, pos |-> 0]} \cup [stmt : {Batch(s)[n + 1]}, pos : Cut(log[Batch(s)[n + 1]])] :
               todo' = [todo EXCEPT ![s] = Append([i \in 1 .. n |-> Item(Batch(s)[i])], item)]
      BY <3>1
    <3>3. n \in 0 .. Len(Batch(s)) /\ n + 1 \in 1 .. Len(Batch(s)) /\ Len(log) \in Nat /\ DOMAIN log = 1 .. Len(log)
      BY <1>1, <1>4, <2>4, LenProperties
    <3>4. Batch(s)[n + 1] \in DOMAIN log
      BY <3>3, <1>3, <2>4
    <3>5. log[Batch(s)[n + 1]] \in 1 .. MaxPos /\ Batch(s)[n + 1] \in 1 .. Len(log)
      BY SMTT(40), <1>1, <3>3, <3>4, ElementOfSeq
    <3>6. item \in It
      BY <3>2, <3>3, <3>5 DEF Cut
    <3>7. [i \in 1 .. n |-> Item(Batch(s)[i])] \in Seq(It)
      BY <1>5, <2>4, <3>3
    <3> HIDE DEF It
    <3>8. Append([i \in 1 .. n |-> Item(Batch(s)[i])], item) \in Seq(It)
      BY <3>6, <3>7, AppendProperties
    <3>9. slavePos' = slavePos
      BY <2>4 DEF DeliverCut
    <3> QED
      BY <1>1, <3>2, <3>8, <3>9
  <2> QED
    BY <2>1, <2>2, <2>3, <2>4 DEF Deliver, DeliverCut
<1>7. TypeOK'
  <2>1. conn' \in [Slaves -> Conn]
    BY <1>1, <1>2
  <2> QED
    BY <1>2, <1>6, <2>1 DEF TypeOK
<1>8. PollIsCurrent'
  BY <1>1, <1>2, <1>6 DEF PollIsCurrent, NoConn
<1> QED
  BY <1>2, <1>7, <1>8

\* Replaying an item, and a restart of the replica.
LEMMA ShapeApply ==
  ASSUME Shape, NEW s \in Slaves, Apply(s) \/ SlaveRestart(s)
  PROVE  Shape'
<1> USE ReplicationAssumption DEF Shape
<1> DEFINE Conn == [pc : {"none", "read", "wait", "answer", "data", "uptodate"},
                    from : 0 .. MaxPos, upto : 0 .. MaxPos]
           It == [stmt : 0 .. Len(log), pos : 0 .. MaxPos]
<1>1. /\ log \in Seq(1 .. MaxPos) /\ conn \in [Slaves -> Conn] /\ NoConn \in Conn
      /\ slavePos \in [Slaves -> 0 .. MaxPos] /\ faults \in 0 .. MaxFaults /\ broken \subseteq Slaves
      /\ todo \in [Slaves -> Seq(It)] /\ repeated \subseteq Slaves
      /\ executed \in [Slaves -> SUBSET DOMAIN log]
  <2>1. NoConn \in Conn
    BY DEF NoConn
  <2> QED
    BY <2>1 DEF TypeOK
<1>2. CASE Apply(s)
  <2>1. todo[s] \in Seq(It) /\ todo[s] # <<>> /\ conn[s] = NoConn
    BY <1>1, <1>2 DEF Apply, PollIsCurrent
  <2>2. Head(todo[s]) \in It /\ Tail(todo[s]) \in Seq(It)
    <3> HIDE DEF It
    <3> QED
      BY <2>1, HeadTailProperties
  <2>3. /\ todo' = [todo EXCEPT ![s] = Tail(todo[s])]
        /\ executed' = [executed EXCEPT ![s] = executed[s] \cup ({Head(todo[s]).stmt} \ {0})]
        /\ slavePos' = [slavePos EXCEPT ![s] = IF Head(todo[s]).pos = 0 THEN slavePos[s] ELSE Head(todo[s]).pos]
        /\ repeated' \in {repeated, repeated \cup {s}}
        /\ UNCHANGED <<log, pos, ack, waiting, paused, conn, faults, skipped, broken, renumbered>>
    BY <1>1, <1>2 DEF Apply, Execute
  <2>4. Len(log) \in Nat /\ DOMAIN log = 1 .. Len(log)
    BY <1>1, LenProperties
  <2>5. Head(todo[s]).stmt \in 0 .. Len(log) /\ Head(todo[s]).pos \in 0 .. MaxPos
    BY <2>2
  <2>6. /\ executed' \in [Slaves -> SUBSET DOMAIN log] /\ slavePos' \in [Slaves -> 0 .. MaxPos]
        /\ todo' \in [Slaves -> Seq(It)] /\ repeated' \subseteq Slaves
    <3>1. {Head(todo[s]).stmt} \ {0} \subseteq DOMAIN log
      BY <2>4, <2>5
    <3> HIDE DEF It
    <3> QED
      BY <1>1, <2>2, <2>3, <2>5, <3>1
  <2>7. TypeOK'
    BY <2>3, <2>6 DEF TypeOK
  <2>8. PollIsCurrent'
    <3> HIDE DEF It
    <3> QED
      BY <1>1, <2>1, <2>3 DEF PollIsCurrent, NoConn
  <2> QED
    BY <2>3, <2>7, <2>8
<1>3. CASE SlaveRestart(s)
  <2>1. /\ todo' \in [Slaves -> Seq(It)] /\ conn' \in [Slaves -> Conn] /\ slavePos' \in [Slaves -> 0 .. MaxPos]
        /\ paused' \subseteq Slaves /\ broken' \subseteq Slaves /\ faults' \in 0 .. MaxFaults
    <3>1. paused \subseteq Slaves
      BY DEF TypeOK
    <3>2. <<>> \in Seq(It)
      BY EmptySeq
    <3> HIDE DEF It
    <3> QED
      BY <1>1, <1>3, <3>1, <3>2 DEF SlaveRestart
  <2>2. TypeOK'
    BY <1>3, <2>1 DEF TypeOK, SlaveRestart
  <2>3. PollIsCurrent'
    BY <1>1, <1>3 DEF PollIsCurrent, SlaveRestart, NoConn
  <2> QED
    BY <1>3, <2>2, <2>3 DEF SlaveRestart
<1> QED
  BY <1>2, <1>3

\* Every step keeps the shape of the state.
LEMMA ShapeStep ==
  ASSUME Shape, [Next]_vars
  PROVE  Shape'
<1>1. CASE UNCHANGED vars
  BY <1>1 DEF Shape, vars, TypeOK, PollIsCurrent
<1> QED
  BY <1>1, ShapeWrite, ShapeMaster, ShapePoll, ShapeDeliver, ShapeApply DEF Next
-----------------------------------------------------------------------------
\* The numbers the state is made of.
LEMMA Numbers ==
  ASSUME TypeOK
  PROVE  /\ pos \in Nat /\ ack \in Nat
         /\ Len(log) \in Nat /\ DOMAIN log = 1 .. Len(log) /\ log \in Seq(1 .. MaxPos)
         /\ \A i \in DOMAIN log : log[i] \in Nat /\ log[i] > 0
         /\ \A s \in Slaves :
              /\ slavePos[s] \in Nat /\ conn[s].from \in Nat /\ conn[s].upto \in Nat
              /\ executed[s] \subseteq DOMAIN log
              /\ todo[s] \in Seq([stmt : 0 .. Len(log), pos : 0 .. MaxPos])
              /\ Len(todo[s]) \in Nat /\ DOMAIN todo[s] = 1 .. Len(todo[s])
              /\ \A k \in DOMAIN todo[s] : /\ todo[s][k].pos \in Nat /\ todo[s][k].stmt \in Nat
                                           /\ todo[s][k].stmt \in 0 .. Len(log)
<1>1. MaxPos \in Nat
  BY ReplicationAssumption
<1>2. log \in Seq(1 .. MaxPos) /\ pos \in Nat /\ ack \in Nat
  BY <1>1 DEF TypeOK
<1>3. /\ Len(log) \in Nat /\ DOMAIN log = 1 .. Len(log)
      /\ \A i \in DOMAIN log : log[i] \in 1 .. MaxPos
  BY <1>2, LenProperties
<1>4. ASSUME NEW s \in Slaves
      PROVE  /\ slavePos[s] \in Nat /\ conn[s].from \in Nat /\ conn[s].upto \in Nat
             /\ executed[s] \subseteq DOMAIN log
             /\ todo[s] \in Seq([stmt : 0 .. Len(log), pos : 0 .. MaxPos])
  <2>1. slavePos[s] \in 0 .. MaxPos /\ conn[s].from \in 0 .. MaxPos /\ conn[s].upto \in 0 .. MaxPos
    BY DEF TypeOK
  <2>2. executed[s] \subseteq DOMAIN log /\ todo[s] \in Seq([stmt : 0 .. Len(log), pos : 0 .. MaxPos])
    BY DEF TypeOK
  <2> QED
    BY <1>1, <2>1, <2>2
<1>5. ASSUME NEW s \in Slaves
      PROVE  /\ Len(todo[s]) \in Nat /\ DOMAIN todo[s] = 1 .. Len(todo[s])
             /\ \A k \in DOMAIN todo[s] : todo[s][k] \in [stmt : 0 .. Len(log), pos : 0 .. MaxPos]
  BY ZenonT(60), <1>4, LenProperties
<1>6. ASSUME NEW s \in Slaves, NEW k \in DOMAIN todo[s]
      PROVE  /\ todo[s][k].pos \in Nat /\ todo[s][k].stmt \in Nat
             /\ todo[s][k].stmt \in 0 .. Len(log)
  <2>1. todo[s][k] \in [stmt : 0 .. Len(log), pos : 0 .. MaxPos]
    BY <1>5
  <2> QED
    BY <2>1, <1>1, <1>3
<1>7. \A i \in DOMAIN log : log[i] \in Nat /\ log[i] > 0
  BY <1>1, <1>3
<1> QED
  BY <1>2, <1>3, <1>4, <1>5, <1>6, <1>7

\* A new line of the binlog lies beyond every position that was given out.
LEMMA KeptWrite ==
  ASSUME Shape, Kept, ~renumbered, Write \/ WriteFails
  PROVE  Kept'
<1> USE Numbers DEF Shape
<1>1. /\ pos' = pos + 1
      /\ UNCHANGED <<ack, conn, slavePos, paused, todo, executed, faults, skipped, broken, repeated, renumbered>>
      /\ log' = log \/ log' = Append(log, pos + 1)
  BY DEF Write, WriteFails, replica, history
<1>2. /\ DOMAIN log' \in {1 .. Len(log), 1 .. Len(log) + 1}
      /\ \A i \in DOMAIN log : i \in DOMAIN log' /\ log'[i] = log[i]
      /\ \A i \in DOMAIN log' : i \notin DOMAIN log => i = Len(log) + 1 /\ log'[i] = pos + 1
  <2>1. CASE log' = Append(log, pos + 1)
    <3>1. log \in Seq(Nat) /\ pos + 1 \in Nat
      BY SeqOver
    <3>2. /\ Append(log, pos + 1) \in Seq(Nat) /\ Len(Append(log, pos + 1)) = Len(log) + 1
          /\ \A i \in 1 .. Len(log) : Append(log, pos + 1)[i] = log[i]
          /\ Append(log, pos + 1)[Len(log) + 1] = pos + 1
      BY <3>1, AppendProperties
    <3>3. DOMAIN log' = 1 .. Len(log) + 1
      BY <2>1, <3>2, LenProperties
    <3> QED
      BY <2>1, <3>2, <3>3
  <2>2. CASE log' = log
    BY <2>2
  <2> QED
    BY <1>1, <2>1, <2>2
<1>3. \A p \in Nat : p <= pos => {i \in DOMAIN log' : log'[i] <= p} = {i \in DOMAIN log : log[i] <= p}
  <2> SUFFICES ASSUME NEW p \in Nat, p <= pos
               PROVE  \A i : i \in DOMAIN log' /\ log'[i] <= p <=> i \in DOMAIN log /\ log[i] <= p
    OBVIOUS
  <2>1. ~(pos + 1 <= p)
    OBVIOUS
  <2> QED
    BY <1>2, <2>1
<1>4. PositionsGrow'
  <2>1. /\ \A i \in DOMAIN log' : log'[i] <= pos'
        /\ \A i, j \in DOMAIN log' : i < j => log'[i] < log'[j]
    <3>1. \A i \in DOMAIN log : log[i] <= pos /\ log[i] < pos + 1
      BY DEF Kept, PositionsGrow
    <3>2. \A i \in DOMAIN log' : log'[i] <= pos'
      BY <1>1, <1>2, <3>1
    <3>3. \A i, j \in DOMAIN log : i < j => log[i] < log[j]
      BY DEF Kept, PositionsGrow
    <3>4. \A i, j \in DOMAIN log' : i < j => i \in DOMAIN log
      BY <1>2
    <3>5. \A i, j \in DOMAIN log' : i < j => log'[i] < log'[j]
      BY <1>2, <3>1, <3>3, <3>4
    <3> QED
      BY <3>2, <3>5
  <2>2. \A p \in Nat : p <= pos => p <= pos'
    BY <1>1
  <2>3. ack' <= pos'
    BY <1>1, <2>2 DEF Kept, PositionsGrow
  <2>4. ASSUME NEW s \in Slaves
        PROVE  /\ slavePos'[s] <= pos' /\ conn'[s].from <= pos'
               /\ conn'[s].pc = "uptodate" => conn'[s].from <= conn'[s].upto /\ conn'[s].upto <= pos'
               /\ \A k \in DOMAIN todo'[s] : todo'[s][k].pos <= pos'
    BY <1>1, <2>2 DEF Kept, PositionsGrow
  <2> QED
    BY <2>1, <2>3, <2>4 DEF PositionsGrow
<1>5. ASSUME NEW s \in Slaves \ skipped'
      PROVE  NothingMissing(s)'
  <2>1. NothingMissing(s)
    BY <1>1 DEF Kept
  <2>2. /\ slavePos[s] <= pos /\ (conn[s].pc = "uptodate" => conn[s].upto <= pos)
        /\ \A k \in DOMAIN todo[s] : todo[s][k].pos <= pos
    BY DEF Kept, PositionsGrow
  <2>3. /\ UpTo(slavePos[s])' = UpTo(slavePos[s])
        /\ conn[s].pc = "uptodate" => UpTo(conn[s].upto)' = UpTo(conn[s].upto)
        /\ \A k \in DOMAIN todo[s] : UpTo(todo[s][k].pos)' = UpTo(todo[s][k].pos)
    BY <1>1, <1>3, <2>2 DEF UpTo
  <2> QED
    BY <1>1, <2>1, <2>3 DEF NothingMissing
<1>6. ASSUME NEW s \in Slaves \ broken'
      PROVE  InOrder(s)' /\ s \notin repeated'
  <2>1. InOrder(s) /\ s \notin repeated
    BY <1>1 DEF Kept
  <2> QED
    BY <1>1, <1>2, <2>1 DEF InOrder
<1>7. AckIsExecuted'
  <2>1. AckIsExecuted /\ ack <= pos
    BY DEF Kept, PositionsGrow
  <2> QED
    BY <1>1, <1>3, <2>1 DEF AckIsExecuted, UpTo
<1> QED
  BY <1>4, <1>5, <1>6, <1>7 DEF Kept

\* Nothing is promised by asking; an answer without statements promises what was executed
\* when there was nothing to send, and an acknowledgement is the position of a poll.
LEMMA KeptPoll ==
  ASSUME Shape, Kept, ~renumbered, NEW s \in Slaves,
         Request(s) \/ Read(s) \/ Reread(s) \/ Answer(s) \/ Drop(s) \/ StopStart(s)
  PROVE  Kept'
<1> USE Numbers DEF Shape
<1>1. /\ UNCHANGED <<log, pos, slavePos, todo, executed, broken, repeated, renumbered>>
      /\ skipped \subseteq skipped'
      /\ \A t \in Slaves \ {s} : conn'[t] = conn[t]
      /\ conn[s] \in [pc : {"none", "read", "wait", "answer", "data", "uptodate"},
                      from : 0 .. MaxPos, upto : 0 .. MaxPos]
  BY DEF TypeOK, Request, Read, Reread, Answer, Drop, StopStart, replica, history
<1>2. /\ conn'[s].from \in {conn[s].from, slavePos[s], 0}
      /\ conn'[s].pc = "uptodate" => conn'[s] = conn[s] \/ Answer(s)
  BY SMTT(40), <1>1 DEF TypeOK, Request, Read, Reread, Answer, Drop, StopStart, NoConn
<1>3. ack' = ack \/ Read(s)
  BY DEF Request, Read, Reread, Answer, Drop, StopStart
<1>4. ASSUME Answer(s)
      PROVE  /\ conn'[s].from = conn[s].from /\ conn'[s].upto = pos /\ conn[s].from = slavePos[s]
             /\ s \notin skipped' => UpTo(pos) = UpTo(slavePos[s])
  <2>1. conn[s].pc = "answer" /\ conn' = [conn EXCEPT ![s].pc = "uptodate", ![s].upto = pos]
    BY <1>4 DEF Answer
  <2>2. conn'[s].from = conn[s].from /\ conn'[s].upto = pos
    BY <1>1, <2>1 DEF TypeOK
  <2>3. conn[s].from = slavePos[s]
    BY <2>1 DEF PollIsCurrent, NoConn
  <2>4. ASSUME s \notin skipped'
        PROVE  UpTo(pos) = UpTo(slavePos[s])
    <3>1. Entries(slavePos[s], Len(log)) = <<>>
      BY <1>4, <2>3, <2>4 DEF Answer
    <3>2. log \in Seq(Nat) /\ Len(log) \in 0 .. Len(log)
      BY SeqOver
    <3>3. \A i \in 1 .. Len(log) : log[i] > slavePos[s] =>
             \E k \in DOMAIN Entries(slavePos[s], Len(log)) : Entries(slavePos[s], Len(log))[k] = i
      BY ZenonT(60), <3>2, EntriesRead
    <3>4. \A i \in DOMAIN log : ~(log[i] > slavePos[s])
      BY <3>1, <3>3
    <3>5. \A i \in DOMAIN log : log[i] <= slavePos[s] /\ log[i] <= pos
      BY <3>4 DEF Kept, PositionsGrow
    <3> QED
      BY <3>5 DEF UpTo
  <2> QED
    BY <2>2, <2>3, <2>4
<1>5. ASSUME Read(s)
      PROVE  ack' \in {ack, slavePos[s]}
  BY <1>5 DEF Read, PollIsCurrent, NoConn
<1>6. PositionsGrow'
  <2>1. \A t \in Slaves : /\ slavePos[t] <= pos /\ conn[t].from <= pos
                          /\ conn[t].pc = "uptodate" => conn[t].from <= conn[t].upto /\ conn[t].upto <= pos
                          /\ \A k \in DOMAIN todo[t] : todo[t][k].pos <= pos
    BY DEF Kept, PositionsGrow
  <2>2. ack' <= pos'
    BY <1>1, <1>3, <1>5, <2>1 DEF Kept, PositionsGrow
  <2>3. /\ conn'[s].from <= pos'
        /\ conn'[s].pc = "uptodate" => conn'[s].from <= conn'[s].upto /\ conn'[s].upto <= pos'
    BY <1>1, <1>2, <1>4, <2>1
  <2>4. /\ \A i \in DOMAIN log' : log'[i] <= pos'
        /\ \A i, j \in DOMAIN log' : i < j => log'[i] < log'[j]
    BY <1>1 DEF Kept, PositionsGrow
  <2> QED
    BY <1>1, <2>1, <2>2, <2>3, <2>4 DEF PositionsGrow
<1>7. ASSUME NEW t \in Slaves \ skipped'
      PROVE  NothingMissing(t)'
  <2>1. NothingMissing(t)
    BY <1>1 DEF Kept
  <2>2. \A p : UpTo(p)' = UpTo(p)
    BY <1>1 DEF UpTo
  <2>3. conn'[t].pc = "uptodate" => UpTo(conn'[t].upto) \subseteq executed[t]
    <3>1. CASE conn'[t] = conn[t]
      BY <2>1, <3>1 DEF NothingMissing
    <3>2. CASE t = s /\ Answer(s)
      BY <1>4, <1>7, <2>1, <3>2 DEF NothingMissing
    <3> QED
      BY <1>1, <1>2, <3>1, <3>2
  <2> QED
    BY <1>1, <2>1, <2>2, <2>3 DEF NothingMissing, UpTo
<1>8. ASSUME NEW t \in Slaves \ broken'
      PROVE  InOrder(t)' /\ t \notin repeated'
  BY <1>1 DEF Kept, InOrder
<1>9. AckIsExecuted'
  <2> SUFFICES ASSUME skipped' = {}, ack' > 0
               PROVE  \E t \in Slaves : UpTo(ack') \subseteq executed[t]
    BY <1>1 DEF AckIsExecuted, UpTo
  <2>1. skipped = {}
    BY <1>1
  <2>2. CASE ack' = ack
    BY <2>1, <2>2 DEF Kept, AckIsExecuted
  <2>3. CASE ack' = slavePos[s]
    BY <2>1, <2>3 DEF Kept, NothingMissing
  <2> QED
    BY <1>3, <1>5, <2>2, <2>3
<1> QED
  BY <1>6, <1>7, <1>8, <1>9 DEF Kept

\* NothingMissing of the next state, when the binlog stays as it is.
LEMMA MissingNext ==
  ASSUME NEW t \in Slaves, UNCHANGED log,
         UpTo(slavePos'[t]) \subseteq executed'[t],
         conn'[t].pc = "uptodate" => UpTo(conn'[t].upto) \subseteq executed'[t],
         \A k \in DOMAIN todo'[t] : \A i \in UpTo(todo'[t][k].pos) :
           i \in executed'[t] \/ \E j \in 1 .. k : todo'[t][j].stmt = i
  PROVE  NothingMissing(t)'
BY DEF NothingMissing, UpTo

\* A step that leaves a replica and what is said to it alone leaves its promises alone.
LEMMA MissingStays ==
  ASSUME NEW t \in Slaves, NothingMissing(t), UNCHANGED log,
         slavePos'[t] = slavePos[t], todo'[t] = todo[t], executed'[t] = executed[t],
         conn'[t] = conn[t] \/ conn'[t] = NoConn
  PROVE  NothingMissing(t)'
<1>1. conn'[t].pc = "uptodate" => conn'[t] = conn[t]
  BY DEF NoConn
<1>2. /\ UpTo(slavePos'[t]) \subseteq executed'[t]
      /\ conn'[t].pc = "uptodate" => UpTo(conn'[t].upto) \subseteq executed'[t]
      /\ \A k \in DOMAIN todo'[t] : \A i \in UpTo(todo'[t][k].pos) :
           i \in executed'[t] \/ \E j \in 1 .. k : todo'[t][j].stmt = i
  BY <1>1 DEF NothingMissing
<1> QED
  BY <1>2, MissingNext

\* The positions of the next state, when only one replica moves, with its poll over.
LEMMA PositionsNext ==
  ASSUME PositionsGrow, pos \in Nat, UNCHANGED <<log, pos, ack>>, NEW s \in Slaves,
         \A t \in Slaves \ {s} : slavePos'[t] = slavePos[t] /\ todo'[t] = todo[t] /\ conn'[t] = conn[t],
         conn'[s] = NoConn, slavePos'[s] <= pos, \A k \in DOMAIN todo'[s] : todo'[s][k].pos <= pos
  PROVE  PositionsGrow'
<1>1. ASSUME NEW t \in Slaves
      PROVE  /\ slavePos'[t] <= pos /\ conn'[t].from <= pos
             /\ conn'[t].pc = "uptodate" => conn'[t].from <= conn'[t].upto /\ conn'[t].upto <= pos
             /\ \A k \in DOMAIN todo'[t] : todo'[t][k].pos <= pos
  <2>1. CASE t = s
    BY <2>1 DEF NoConn
  <2>2. CASE t # s
    BY <2>2 DEF PositionsGrow
  <2> QED
    BY <2>1, <2>2
<1>2. ack' <= pos' /\ \A i \in DOMAIN log' : log'[i] <= pos'
  BY DEF PositionsGrow
<1>3. \A i, j \in DOMAIN log' : i < j => log'[i] < log'[j]
  BY DEF PositionsGrow
<1> QED
  BY <1>1, <1>2, <1>3 DEF PositionsGrow

\* The order of a replica that does not move stays.
LEMMA OrderStays ==
  ASSUME NEW t \in Slaves, InOrder(t), UNCHANGED log,
         slavePos'[t] = slavePos[t], todo'[t] = todo[t], executed'[t] = executed[t]
  PROVE  InOrder(t)'
BY DEF InOrder

\* A restart of the master that gives no position out twice forgets only the polls.
LEMMA KeptMaster ==
  ASSUME Shape, Kept, ~renumbered, MasterRestart, ~renumbered'
  PROVE  Kept'
<1> USE Numbers DEF Shape
<1>1. /\ UNCHANGED <<log, slavePos, todo, executed, skipped, broken, repeated>>
      /\ ack' = 0 /\ pos' = Len(log) /\ ~(Len(log) < pos)
      /\ \A s \in Slaves : conn'[s] = NoConn
  BY DEF MasterRestart, replica
<1>2. pos' = pos
  BY <1>1
<1>3. PositionsGrow'
  BY <1>1, <1>2 DEF Kept, PositionsGrow, NoConn
<1>4. \A s \in Slaves \ skipped' : NothingMissing(s)'
  BY <1>1, MissingStays DEF Kept
<1>5. \A s \in Slaves \ broken' : InOrder(s)' /\ s \notin repeated'
  BY <1>1 DEF Kept, InOrder
<1>6. AckIsExecuted'
  BY <1>1 DEF AckIsExecuted
<1> QED
  BY <1>3, <1>4, <1>5, <1>6 DEF Kept

\* A restarted replica starts over below every position.
LEMMA KeptRestart ==
  ASSUME Shape, Kept, ~renumbered, NEW s \in Slaves, SlaveRestart(s)
  PROVE  Kept'
<1> USE Numbers DEF Shape
<1>1. /\ UNCHANGED <<log, pos, ack, executed, skipped, repeated, renumbered>>
      /\ slavePos'[s] = 0 /\ todo'[s] = <<>> /\ conn'[s] = NoConn /\ broken' = broken \cup {s}
      /\ \A t \in Slaves \ {s} : slavePos'[t] = slavePos[t] /\ todo'[t] = todo[t] /\ conn'[t] = conn[t]
  BY DEF SlaveRestart, TypeOK
<1>2. PositionsGrow'
  BY SMTT(40), <1>1 DEF Kept, PositionsGrow, NoConn
<1>3. ASSUME NEW t \in Slaves \ skipped'
      PROVE  NothingMissing(t)'
  <2>1. CASE t = s
    <3>1. UpTo(0) = {}
      BY DEF UpTo
    <3> QED
      BY <1>1, <2>1, <3>1 DEF NothingMissing, NoConn, UpTo
  <2>2. CASE t # s
    BY <1>1, <2>2, MissingStays DEF Kept
  <2> QED
    BY <2>1, <2>2
<1>4. \A t \in Slaves \ broken' : InOrder(t)' /\ t \notin repeated'
  BY <1>1, OrderStays DEF Kept
<1>5. AckIsExecuted'
  BY <1>1 DEF Kept, AckIsExecuted, UpTo
<1> QED
  BY <1>2, <1>3, <1>4, <1>5 DEF Kept

\* A batch continues what was executed without a gap.
LEMMA BatchContinues ==
  ASSUME Shape, Kept, NEW s \in Slaves \ skipped, conn[s].pc = "data",
         NEW k \in 1 .. Len(Batch(s)), NEW i \in UpTo(log[Batch(s)[k]])
  PROVE  i \in executed[s] \/ \E j \in 1 .. k : Batch(s)[j] = i
<1> USE Numbers DEF Shape
<1>1. conn[s].upto <= Len(log) /\ conn[s].from = slavePos[s]
  BY DEF PollIsCurrent, NoConn
<1>2. i \in DOMAIN log /\ log[i] <= log[Batch(s)[k]]
  BY DEF UpTo
<1>3. CASE log[i] <= slavePos[s]
  BY <1>2, <1>3 DEF Kept, NothingMissing, UpTo
<1>4. CASE log[i] > slavePos[s]
  <2>1. Batch(s)[k] \in 1 .. conn[s].upto /\ Batch(s)[k] \in DOMAIN log /\ k \in DOMAIN Batch(s)
    BY <1>1, BatchRead
  <2>2. ~(Batch(s)[k] < i)
    <3>1. Batch(s)[k] < i => log[Batch(s)[k]] < log[i]
      BY <1>2, <2>1 DEF Kept, PositionsGrow
    <3>2. log[Batch(s)[k]] \in Nat /\ log[i] \in Nat
      BY <1>2, <2>1
    <3> QED
      BY <1>2, <3>1, <3>2
  <2>3. i \in 1 .. conn[s].upto /\ i <= Batch(s)[k]
    BY <1>2, <2>1, <2>2
  <2>4. PICK j \in DOMAIN Batch(s) : Batch(s)[j] = i
    BY <1>1, <1>4, <2>3, BatchRead
  <2>5. j \in 1 .. Len(Batch(s)) /\ ~(k < j)
    <3>1. k < j => Batch(s)[k] < Batch(s)[j]
      BY <1>1, <2>1, BatchRead
    <3>2. DOMAIN Batch(s) = 1 .. Len(Batch(s))
      BY <1>1, BatchRead
    <3> QED
      BY <2>2, <2>4, <3>1, <3>2
  <2>6. j \in 1 .. k
    <3>1. Len(Batch(s)) \in Nat
      BY <1>1, BatchRead
    <3> QED
      BY <2>5, <3>1
  <2> QED
    BY <2>4, <2>6
<1>5. log[i] \in Nat /\ slavePos[s] \in Nat
  BY <1>2
<1> QED
  BY <1>3, <1>4, <1>5

\* An answer that arrives whole.
LEMMA KeptDeliver ==
  ASSUME Shape, Kept, ~renumbered, NEW s \in Slaves, Deliver(s)
  PROVE  Kept'
<1> USE Numbers DEF Shape
<1> DEFINE b == Batch(s)
<1>1. /\ UNCHANGED <<log, pos, ack, executed, skipped, broken, repeated, renumbered>>
      /\ conn'[s] = NoConn
      /\ \A t \in Slaves \ {s} : slavePos'[t] = slavePos[t] /\ todo'[t] = todo[t] /\ conn'[t] = conn[t]
  BY DEF Deliver, history, TypeOK
<1>2. conn[s].from = slavePos[s] /\ todo[s] = <<>> /\ conn[s].pc \in {"data", "uptodate"}
  BY DEF Deliver, PollIsCurrent, NoConn
<1>3. CASE conn[s].pc = "uptodate"
  <2>1. slavePos'[s] = conn[s].upto /\ todo' = todo
    BY <1>3 DEF Deliver, TypeOK
  <2>2. conn[s].from <= conn[s].upto /\ conn[s].upto <= pos
    BY <1>3 DEF Kept, PositionsGrow
  <2>3. PositionsGrow'
    BY <1>1, <1>2, <2>1, <2>2, PositionsNext DEF Kept
  <2>4. ASSUME NEW t \in Slaves \ skipped'
        PROVE  NothingMissing(t)'
    <3>1. CASE t = s
      <4>1. UpTo(slavePos[s])' \subseteq executed'[s]
        BY <1>1, <1>3, <2>1, <2>4, <3>1 DEF Kept, NothingMissing, UpTo
      <4> QED
        BY <1>1, <1>2, <2>1, <3>1, <4>1 DEF NothingMissing, NoConn
    <3>2. CASE t # s
      BY <1>1, <2>4, <3>2, MissingStays DEF Kept
    <3> QED
      BY <3>1, <3>2
  <2>5. ASSUME NEW t \in Slaves \ broken'
        PROVE  InOrder(t)' /\ t \notin repeated'
    <3>1. CASE t = s
      <4>1. \A i \in executed[s] : log[i] <= slavePos[s] /\ log[i] \in Nat
        BY <1>1, <2>5, <3>1 DEF Kept, InOrder
      <4>2. \A i \in executed[s] : log[i] <= conn[s].upto
        BY <1>2, <2>2, <4>1
      <4> QED
        BY <1>1, <1>2, <2>1, <2>5, <3>1, <4>2 DEF Kept, InOrder
    <3>2. CASE t # s
      BY <1>1, <2>5, <3>2, OrderStays DEF Kept
    <3> QED
      BY <3>1, <3>2
  <2>6. AckIsExecuted'
    BY <1>1 DEF Kept, AckIsExecuted, UpTo
  <2> QED
    BY <2>3, <2>4, <2>5, <2>6 DEF Kept
<1>4. CASE conn[s].pc = "data"
  <2>1. conn[s].upto <= Len(log)
    BY <1>4 DEF PollIsCurrent
  <2>2. /\ Len(b) \in Nat /\ DOMAIN b = 1 .. Len(b)
        /\ \A k \in 1 .. Len(b) : b[k] \in DOMAIN log /\ log[b[k]] > slavePos[s]
        /\ \A k, l \in 1 .. Len(b) : k < l => b[k] < b[l]
    BY <1>2, <2>1, BatchRead
  <2>3. slavePos'[s] = slavePos[s] /\ (todo'[s] = <<>> \/ todo'[s] = [k \in 1 .. Len(b) |-> Item(b[k])])
    BY <1>2, <1>4, <2>2 DEF Deliver, TypeOK
  <2>4. /\ DOMAIN todo'[s] = {} \/ DOMAIN todo'[s] = 1 .. Len(b)
        /\ \A k \in DOMAIN todo'[s] : /\ k \in 1 .. Len(b)
                                      /\ todo'[s][k].stmt = b[k] /\ todo'[s][k].pos = log[b[k]]
    BY <2>3 DEF Item
  <2> HIDE DEF b
  <2>5. PositionsGrow'
    <3>1. slavePos[s] <= pos /\ \A i \in DOMAIN log : log[i] <= pos
      BY DEF Kept, PositionsGrow
    <3>2. slavePos'[s] <= pos /\ \A k \in DOMAIN todo'[s] : todo'[s][k].pos <= pos
      BY <2>2, <2>3, <2>4, <3>1
    <3> QED
      BY <1>1, <3>2, PositionsNext DEF Kept
  <2>6. ASSUME NEW t \in Slaves \ skipped'
        PROVE  NothingMissing(t)'
    <3>1. CASE t = s
      <4>1. \A k \in 1 .. Len(b) : \A i \in UpTo(log[b[k]]) : i \in executed[s] \/ \E j \in 1 .. k : b[j] = i
        BY <1>1, <1>4, <2>6, <3>1, BatchContinues DEF b
      <4>2. \A k \in DOMAIN todo'[s] : \A j \in 1 .. k : todo'[s][j].stmt = b[j]
        <5>1. \A k \in DOMAIN todo'[s] : \A j \in 1 .. k : j \in DOMAIN todo'[s]
          BY <2>2, <2>4
        <5> QED
          BY <2>4, <5>1
      <4>3. \A k \in DOMAIN todo'[s] : \A i \in UpTo(todo'[s][k].pos) :
               i \in executed[s] \/ \E j \in 1 .. k : todo'[s][j].stmt = i
        <5> SUFFICES ASSUME NEW k \in DOMAIN todo'[s], NEW i \in UpTo(todo'[s][k].pos), i \notin executed[s]
                     PROVE  \E j \in 1 .. k : todo'[s][j].stmt = i
          OBVIOUS
        <5>1. k \in 1 .. Len(b) /\ i \in UpTo(log[b[k]])
          BY <2>4
        <5>2. PICK j \in 1 .. k : b[j] = i
          BY <4>1, <5>1
        <5> QED
          BY <4>2, <5>2
      <4>4. UpTo(slavePos[s]) \subseteq executed[s]
        BY <1>1, <2>6, <3>1 DEF Kept, NothingMissing
      <4> QED
        BY <1>1, <2>3, <3>1, <4>3, <4>4, MissingNext DEF NoConn
    <3>2. CASE t # s
      BY <1>1, <2>6, <3>2, MissingStays DEF Kept
    <3> QED
      BY <3>1, <3>2
  <2>7. ASSUME NEW t \in Slaves \ broken'
        PROVE  InOrder(t)' /\ t \notin repeated'
    <3>1. CASE t = s
      BY <1>1, <2>2, <2>3, <2>4, <2>7, <3>1 DEF Kept, InOrder
    <3>2. CASE t # s
      BY <1>1, <2>7, <3>2, OrderStays DEF Kept
    <3> QED
      BY <3>1, <3>2
  <2>8. AckIsExecuted'
    BY <1>1 DEF Kept, AckIsExecuted, UpTo
  <2> QED
    BY <2>5, <2>6, <2>7, <2>8 DEF Kept
<1> QED
  BY <1>2, <1>3, <1>4

\* An answer that is cut off: what is left of a position is none beyond it.
LEMMA KeptCut ==
  ASSUME Shape, Kept, ~renumbered, NEW s \in Slaves, DeliverCut(s)
  PROVE  Kept'
<1> USE Numbers DEF Shape
<1> DEFINE b == Batch(s)
<1>1. /\ UNCHANGED <<log, pos, ack, executed, skipped, repeated, renumbered>>
      /\ conn'[s] = NoConn /\ broken' = broken \cup {s}
      /\ \A t \in Slaves \ {s} : slavePos'[t] = slavePos[t] /\ todo'[t] = todo[t] /\ conn'[t] = conn[t]
  <2>1. conn' = [conn EXCEPT ![s] = NoConn]
    BY DEF DeliverCut
  <2>2. slavePos' = [slavePos EXCEPT ![s] = slavePos'[s]] /\ todo' = [todo EXCEPT ![s] = todo'[s]]
    BY DEF DeliverCut, TypeOK
  <2>3. /\ UNCHANGED <<log, pos, ack, executed, skipped, repeated, renumbered>>
        /\ broken' = broken \cup {s}
    BY DEF DeliverCut
  <2> QED
    BY <2>1, <2>2, <2>3 DEF TypeOK
<1>2. conn[s].from = slavePos[s] /\ todo[s] = <<>> /\ conn[s].pc \in {"data", "uptodate"}
  BY DEF DeliverCut, PollIsCurrent, NoConn
<1>3. \A p, q \in Nat : p <= q => UpTo(p) \subseteq UpTo(q)
  BY DEF UpTo
<1>4. /\ slavePos'[s] <= pos
      /\ \A k \in DOMAIN todo'[s] : todo'[s][k].pos <= pos
      /\ s \notin skipped =>
           /\ UpTo(slavePos'[s]) \subseteq executed[s]
           /\ \A k \in DOMAIN todo'[s] : \A i \in UpTo(todo'[s][k].pos) :
                i \in executed[s] \/ \E j \in 1 .. k : todo'[s][j].stmt = i
  <2>1. CASE conn[s].pc = "uptodate"
    <3>1. PICK p \in Cut(conn[s].upto) : slavePos' = [slavePos EXCEPT ![s] = p] /\ todo' = todo
      BY <2>1 DEF DeliverCut
    <3>2. p \in Nat /\ p <= conn[s].upto
      BY <3>1 DEF Cut
    <3>3. slavePos'[s] = p /\ DOMAIN todo'[s] = {}
      BY <1>2, <3>1 DEF TypeOK
    <3>4. conn[s].upto <= pos /\ (s \notin skipped => UpTo(conn[s].upto) \subseteq executed[s])
      BY <2>1 DEF Kept, PositionsGrow, NothingMissing
    <3>5. UpTo(p) \subseteq UpTo(conn[s].upto)
      BY <1>3, <3>2
    <3> QED
      BY <3>2, <3>3, <3>4, <3>5
  <2>2. CASE conn[s].pc = "data"
    <3>1. conn[s].upto <= Len(log)
      BY <2>2 DEF PollIsCurrent
    <3>2. /\ Len(b) \in Nat /\ DOMAIN b = 1 .. Len(b)
          /\ \A k \in 1 .. Len(b) : b[k] \in DOMAIN log
      BY <3>1, BatchRead
    <3>3. PICK n \in 0 .. Len(b) - 1 :
            \E item \in {[stmt |-> 0, pos |-> 0]} \cup [stmt : {b[n + 1]}, pos : Cut(log[b[n + 1]])] :
               todo' = [todo EXCEPT ![s] = Append([i \in 1 .. n |-> Item(b[i])], item)]
      BY <2>2 DEF DeliverCut
    <3>4. PICK item \in {[stmt |-> 0, pos |-> 0]} \cup [stmt : {b[n + 1]}, pos : Cut(log[b[n + 1]])] :
               todo' = [todo EXCEPT ![s] = Append([i \in 1 .. n |-> Item(b[i])], item)]
      BY <3>3
    <3>5. slavePos'[s] = slavePos[s] /\ todo'[s] = Append([i \in 1 .. n |-> Item(b[i])], item)
      BY <2>2, <3>4 DEF DeliverCut, TypeOK
    <3>6. n \in Nat /\ n + 1 \in 1 .. Len(b) /\ \A k \in 1 .. n : k \in 1 .. Len(b)
      BY <3>2
    <3> HIDE DEF b
    <3>7. item.pos = 0 \/ (item.stmt = b[n + 1] /\ item.pos \in Nat /\ item.pos <= log[b[n + 1]])
      <4>1. log[b[n + 1]] \in Nat
        BY <3>2, <3>6
      <4> QED
        BY <3>4, <4>1 DEF Cut
    <3>8. /\ DOMAIN todo'[s] = 1 .. n + 1 /\ todo'[s][n + 1] = item
          /\ \A k \in 1 .. n : todo'[s][k].stmt = b[k] /\ todo'[s][k].pos = log[b[k]]
      <4> DEFINE f == [i \in 1 .. n |-> Item(b[i])]
                 V == {Item(b[i]) : i \in 1 .. n} \cup {item}
      <4>1. f = [i \in 1 .. n |-> f[i]] /\ (\A i \in 1 .. n : f[i] \in V /\ f[i] = Item(b[i])) /\ item \in V
        OBVIOUS
      <4>2. todo'[s] = Append(f, item)
        BY <3>5
      <4> HIDE DEF f, V
      <4>3. f \in Seq(V) /\ Len(f) = n
        BY <3>6, <4>1, FunctionIsSeq
      <4>4. /\ Append(f, item) \in Seq(V) /\ Len(Append(f, item)) = n + 1
            /\ \A i \in 1 .. n : Append(f, item)[i] = f[i] /\ Append(f, item)[n + 1] = item
        BY <4>1, <4>3, AppendProperties
      <4>5. DOMAIN Append(f, item) = 1 .. n + 1 /\ Append(f, item)[n + 1] = item
        BY <4>1, <4>3, <4>4, LenProperties, AppendProperties
      <4> QED
        BY <4>1, <4>2, <4>4, <4>5 DEF Item
    <3>9. slavePos[s] <= pos /\ \A i \in DOMAIN log : log[i] <= pos /\ log[i] \in Nat
      BY DEF Kept, PositionsGrow
    <3>10. ASSUME NEW k \in DOMAIN todo'[s]
           PROVE  todo'[s][k].pos <= pos
      <4>1. k \in 1 .. n \/ k = n + 1
        BY <3>6, <3>8
      <4>2. CASE k \in 1 .. n
        BY <3>2, <3>6, <3>8, <3>9, <4>2
      <4>3. CASE k = n + 1
        <5>1. log[b[n + 1]] <= pos /\ log[b[n + 1]] \in Nat
          BY <3>2, <3>6, <3>9
        <5> QED
          BY <3>7, <3>8, <4>3, <5>1
      <4> QED
        BY <4>1, <4>2, <4>3
    <3>11. ASSUME s \notin skipped, NEW k \in DOMAIN todo'[s], NEW i \in UpTo(todo'[s][k].pos), i \notin executed[s]
           PROVE  \E j \in 1 .. k : todo'[s][j].stmt = i
      <4>1. k \in 1 .. n + 1 /\ k \in 1 .. Len(b)
        BY <3>2, <3>6, <3>8
      <4>2. i \in UpTo(log[b[k]]) /\ (k = n + 1 => item.stmt = b[k])
        <5>1. CASE k \in 1 .. n
          BY <3>6, <3>8, <3>11, <5>1
        <5>2. CASE k = n + 1
          <6>1. item.pos # 0
            BY <3>8, <3>11, <5>2 DEF UpTo
          <6>2. UpTo(item.pos) \subseteq UpTo(log[b[n + 1]])
            BY <1>3, <3>2, <3>6, <3>7, <6>1
          <6> QED
            BY <3>7, <3>8, <3>11, <5>2, <6>1, <6>2
        <5> QED
          BY <3>6, <4>1, <5>1, <5>2
      <4>3. PICK j \in 1 .. k : b[j] = i
        <5>1. s \in Slaves \ skipped
          BY <3>11
        <5> QED
          BY ZenonT(60), <2>2, <3>11, <4>1, <4>2, <5>1, BatchContinues DEF b
      <4>4. todo'[s][j].stmt = b[j]
        BY <3>6, <3>8, <4>1, <4>2, <4>3
      <4> QED
        BY <4>3, <4>4
    <3>12. s \notin skipped => UpTo(slavePos[s]) \subseteq executed[s]
      BY DEF Kept, NothingMissing
    <3> QED
      BY <3>5, <3>9, <3>10, <3>11, <3>12
  <2> QED
    BY <1>2, <2>1, <2>2
<1>5. PositionsGrow'
  BY <1>1, <1>4, PositionsNext DEF Kept
<1>6. ASSUME NEW t \in Slaves \ skipped'
      PROVE  NothingMissing(t)'
  <2>1. CASE t = s
    BY <1>1, <1>4, <1>6, <2>1, MissingNext DEF NoConn
  <2>2. CASE t # s
    BY <1>1, <1>6, <2>2, MissingStays DEF Kept
  <2> QED
    BY <2>1, <2>2
<1>7. \A t \in Slaves \ broken' : InOrder(t)' /\ t \notin repeated'
  BY <1>1, OrderStays DEF Kept
<1>8. AckIsExecuted'
  BY <1>1 DEF Kept, AckIsExecuted, UpTo
<1> QED
  BY <1>5, <1>6, <1>7, <1>8 DEF Kept

\* Replaying an item: its position is promised, its statement is executed.
LEMMA KeptApply ==
  ASSUME Shape, Kept, ~renumbered, NEW s \in Slaves, Apply(s)
  PROVE  Kept'
<1> USE Numbers DEF Shape
<1> DEFINE item == Head(todo[s])
<1>1. /\ UNCHANGED <<log, pos, ack, conn, skipped, broken, renumbered>>
      /\ conn[s] = NoConn /\ todo[s] # <<>>
      /\ todo'[s] = Tail(todo[s])
      /\ executed'[s] = executed[s] \cup ({item.stmt} \ {0})
      /\ slavePos'[s] = IF item.pos = 0 THEN slavePos[s] ELSE item.pos
      /\ repeated' = IF item.stmt = 0 \/ \E i \in executed[s] : item.stmt <= i
                     THEN repeated \cup {s} ELSE repeated
      /\ \A t \in Slaves \ {s} : /\ slavePos'[t] = slavePos[t] /\ todo'[t] = todo[t]
                                 /\ executed'[t] = executed[t]
  BY DEF Apply, Execute, PollIsCurrent, TypeOK
<1>2. /\ item = todo[s][1] /\ 1 \in DOMAIN todo[s]
      /\ \A k \in DOMAIN todo'[s] : k \in Nat \ {0} /\ k + 1 \in DOMAIN todo[s] /\ todo'[s][k] = todo[s][k + 1]
      /\ \A k \in DOMAIN todo[s] : k > 1 => k - 1 \in DOMAIN todo'[s]
  <2> DEFINE It == [stmt : 0 .. Len(log), pos : 0 .. MaxPos]
  <2>1. todo[s] \in Seq(It) /\ todo[s] # <<>>
    BY <1>1
  <2> HIDE DEF It
  <2>2. /\ Tail(todo[s]) \in Seq(It) /\ Len(Tail(todo[s])) = Len(todo[s]) - 1
        /\ \A i \in 1 .. Len(Tail(todo[s])) : Tail(todo[s])[i] = todo[s][i + 1]
        /\ Len(todo[s]) \in Nat \ {0}
    BY <2>1, HeadTailProperties, EmptySeq
  <2>3. DOMAIN Tail(todo[s]) = 1 .. Len(todo[s]) - 1
    BY <2>2, LenProperties
  <2>4. item = todo[s][1]
    BY <2>1
  <2>5. DOMAIN todo[s] = 1 .. Len(todo[s]) /\ todo'[s] = Tail(todo[s])
    BY <1>1
  <2> HIDE Numbers DEF item
  <2>6. \A k \in 1 .. Len(todo[s]) - 1 : k \in Nat \ {0} /\ k + 1 \in 1 .. Len(todo[s])
    BY <2>2
  <2>7. \A k \in 1 .. Len(todo[s]) : k > 1 => k - 1 \in 1 .. Len(todo[s]) - 1
    BY <2>2
  <2>8. 1 \in 1 .. Len(todo[s])
    BY <2>2
  <2> QED
    BY <2>2, <2>3, <2>4, <2>5, <2>6, <2>7, <2>8
<1> HIDE DEF item
<1>3. item.pos \in Nat /\ item.stmt \in Nat /\ item.pos <= pos
  BY <1>2 DEF Kept, PositionsGrow
<1>4. PositionsGrow'
  <2>1. slavePos'[s] <= pos /\ \A k \in DOMAIN todo'[s] : todo'[s][k].pos <= pos
    BY <1>1, <1>2, <1>3 DEF Kept, PositionsGrow
  <2> QED
    BY <1>1, <2>1, PositionsNext DEF Kept
<1>5. ASSUME NEW t \in Slaves \ skipped'
      PROVE  NothingMissing(t)'
  <2>1. CASE t = s
    <3>1. NothingMissing(s)
      BY <1>1, <1>5, <2>1 DEF Kept
    <3>2. ASSUME NEW i \in UpTo(item.pos)
          PROVE  i \in executed'[s]
      <4>1. i \in executed[s] \/ \E j \in 1 .. 1 : todo[s][j].stmt = i
        BY <1>2, <3>1, <3>2 DEF NothingMissing
      <4>2. i # 0
        BY <3>2 DEF UpTo
      <4> QED
        BY <1>1, <1>2, <4>1, <4>2
    <3>3. UpTo(slavePos'[s]) \subseteq executed'[s]
      BY <1>1, <3>1, <3>2 DEF NothingMissing
    <3>4. ASSUME NEW k \in DOMAIN todo'[s], NEW i \in UpTo(todo'[s][k].pos), i \notin executed'[s]
          PROVE  \E j \in 1 .. k : todo'[s][j].stmt = i
      <4>1. i \notin executed[s] /\ i # item.stmt
        <5>1. i # 0
          BY <3>4 DEF UpTo
        <5> QED
          BY <1>1, <3>4, <5>1
      <4>2. PICK j \in 1 .. k + 1 : todo[s][j].stmt = i
        BY <1>2, <3>1, <3>4, <4>1 DEF NothingMissing
      <4>3. j # 1 /\ j - 1 \in 1 .. k /\ j > 1
        <5>1. j # 1 /\ k \in Nat
          BY <1>2, <4>1, <4>2
        <5> QED
          BY SMTT(40), <4>2, <5>1
      <4>4. j \in DOMAIN todo[s]
        BY <1>2, <4>2
      <4>5. j - 1 \in DOMAIN todo'[s] /\ j - 1 + 1 = j
        <5>1. j - 1 \in DOMAIN todo'[s]
          BY <1>2, <4>3, <4>4
        <5>2. j \in Nat
          BY <4>4
        <5> QED
          BY <5>1, <5>2
      <4>6. todo'[s][j - 1] = todo[s][j]
        BY <1>2, <4>5
      <4> QED
        BY <4>2, <4>3, <4>6
    <3>5. conn'[s].pc # "uptodate"
      BY <1>1 DEF NoConn
    <3> QED
      BY ZenonT(60), <1>1, <2>1, <3>3, <3>4, <3>5, MissingNext
  <2>2. CASE t # s
    BY <1>1, <1>5, <2>2, MissingStays DEF Kept
  <2> QED
    BY <2>1, <2>2
<1>6. ASSUME NEW t \in Slaves \ broken'
      PROVE  InOrder(t)' /\ t \notin repeated'
  <2>1. CASE t = s
    <3>1. InOrder(s) /\ s \notin repeated
      BY <1>1, <1>6, <2>1 DEF Kept
    <3>2. /\ item.stmt \in DOMAIN log /\ item.pos = log[item.stmt] /\ item.pos > slavePos[s]
          /\ \A i \in executed[s] : log[i] <= slavePos[s]
      BY <1>2, <3>1 DEF InOrder
    <3>3. item.pos # 0 /\ slavePos'[s] = item.pos
      BY <1>1, <1>3, <3>2
    <3>4. ASSUME NEW i \in executed[s]
          PROVE  i < item.stmt /\ log[i] <= item.pos
      <4>1. i \in DOMAIN log /\ log[i] \in Nat /\ log[i] < item.pos
        BY <1>3, <3>2
      <4>2. item.stmt # i /\ ~(item.stmt < i)
        BY <3>2, <4>1 DEF Kept, PositionsGrow
      <4> QED
        BY <3>2, <4>1, <4>2
    <3>5. s \notin repeated'
      <4>1. item.stmt # 0 /\ ~ \E i \in executed[s] : item.stmt <= i
        BY <1>3, <3>2, <3>4
      <4> QED
        BY <1>1, <3>1, <4>1
    <3>6. \A i \in executed'[s] : log[i] <= slavePos'[s]
      BY <1>1, <1>3, <3>2, <3>3, <3>4
    <3>7. ASSUME NEW k \in DOMAIN todo'[s]
          PROVE  /\ todo'[s][k].stmt \in DOMAIN log /\ todo'[s][k].pos = log[todo'[s][k].stmt]
                 /\ todo'[s][k].pos > slavePos'[s]
      <4>1. k + 1 \in DOMAIN todo[s] /\ todo'[s][k] = todo[s][k + 1] /\ 1 < k + 1
        BY <1>2
      <4>2. /\ todo[s][k + 1].stmt \in DOMAIN log /\ todo[s][k + 1].pos = log[todo[s][k + 1].stmt]
            /\ item.stmt < todo[s][k + 1].stmt
        BY <1>2, <3>1, <4>1 DEF InOrder
      <4>3. log[item.stmt] < log[todo[s][k + 1].stmt]
        BY <3>2, <4>2 DEF Kept, PositionsGrow
      <4> QED
        BY <3>2, <3>3, <4>1, <4>2, <4>3
    <3>8. ASSUME NEW k \in DOMAIN todo'[s], NEW l \in DOMAIN todo'[s], k < l
          PROVE  todo'[s][k].stmt < todo'[s][l].stmt
      <4>1. /\ k + 1 \in DOMAIN todo[s] /\ todo'[s][k] = todo[s][k + 1]
            /\ l + 1 \in DOMAIN todo[s] /\ todo'[s][l] = todo[s][l + 1] /\ k + 1 < l + 1
        BY <1>2, <3>8
      <4> QED
        BY <3>1, <4>1 DEF InOrder
    <3> QED
      BY <1>1, <2>1, <3>5, <3>6, <3>7, <3>8 DEF InOrder
  <2>2. CASE t # s
    <3>1. InOrder(t) /\ t \notin repeated
      BY <1>1, <1>6 DEF Kept
    <3> QED
      BY <1>1, <1>6, <2>2, <3>1, OrderStays
  <2> QED
    BY <2>1, <2>2
<1>7. AckIsExecuted'
  <2>1. \A t \in Slaves : executed[t] \subseteq executed'[t]
    BY <1>1
  <2> QED
    BY <1>1, <2>1 DEF Kept, AckIsExecuted, UpTo
<1> QED
  BY <1>4, <1>5, <1>6, <1>7 DEF Kept

\* Every step keeps the inductive invariant.
LEMMA FollowingStep ==
  ASSUME Following, [Next]_vars
  PROVE  Following'
<1>1. Shape'
  BY ShapeStep DEF Following
<1>2. ASSUME ~renumbered'
      PROVE  Kept'
  <2>1. Shape
    BY DEF Following
  <2>2. ~renumbered
    <3>1. renumbered \in BOOLEAN /\ (renumbered' = renumbered \/ renumbered' = (renumbered \/ Len(log) < pos))
      BY <2>1 DEF Shape, TypeOK, Next, vars, Write, WriteFails, WaitEnds, MasterRestart, Request, Read,
           Reread, Answer, Deliver, DeliverCut, Drop, Apply, StopStart, SlaveRestart, history
    <3> QED
      BY <1>2, <3>1
  <2>3. Kept
    BY <2>2 DEF Following
  <2>4. CASE UNCHANGED vars \/ WaitEnds
    <3>1. UNCHANGED <<log, pos, ack, slavePos, conn, todo, executed, skipped, broken, repeated, renumbered>>
      BY <2>4 DEF vars, WaitEnds, replica, history
    <3> QED
      BY <2>3, <3>1 DEF Kept, PositionsGrow, NothingMissing, InOrder, AckIsExecuted, UpTo
  <2> QED
    BY <1>2, <2>1, <2>2, <2>3, <2>4, KeptWrite, KeptMaster, KeptPoll, KeptDeliver, KeptCut,
       KeptApply, KeptRestart DEF Next
<1> QED
  BY <1>1, <1>2 DEF Following

\* It holds when master and replicas start.
LEMMA FollowingInit ==
  ASSUME Init
  PROVE  Following
<1> USE ReplicationAssumption DEF Init
<1>1. log \in Seq(1 .. MaxPos) /\ Len(log) = 0 /\ DOMAIN log = {}
  BY EmptySeq
<1>2. TypeOK
  <2>1. conn \in [Slaves -> [pc : {"none", "read", "wait", "answer", "data", "uptodate"},
                             from : 0 .. MaxPos, upto : 0 .. MaxPos]]
    BY DEF NoConn
  <2>2. todo \in [Slaves -> Seq([stmt : 0 .. Len(log), pos : 0 .. MaxPos])]
    BY EmptySeq
  <2>3. /\ pos \in 0 .. MaxPos /\ ack \in 0 .. MaxPos /\ waiting \in 0 .. pos /\ faults \in 0 .. MaxFaults
        /\ slavePos \in [Slaves -> 0 .. MaxPos] /\ executed \in [Slaves -> SUBSET DOMAIN log]
    BY <1>1
  <2> QED
    BY <1>1, <2>1, <2>2, <2>3 DEF TypeOK
<1>3. PollIsCurrent
  BY DEF PollIsCurrent, NoConn
<1>4. Kept
  BY <1>1 DEF Kept, PositionsGrow, NothingMissing, InOrder, AckIsExecuted, UpTo, NoConn
<1> QED
  BY <1>1, <1>2, <1>3, <1>4 DEF Following, Shape

\* The inductive invariant holds throughout.
LEMMA FollowingHolds == Spec => []Following
<1>1. Init => Following
  BY FollowingInit
<1>2. Following /\ [Next]_vars => Following'
  BY FollowingStep
<1> QED
  BY <1>1, <1>2, PTL DEF Spec

\* Type correctness of master and replicas, whatever is lost, broken or restarted.
THEOREM TypeCorrect == Spec => []TypeOK
<1>1. Following => TypeOK
  BY DEF Following, Shape
<1> QED
  BY <1>1, FollowingHolds, PTL

\* trySync and processRequest: whatever is lost, broken or restarted, a replica that was told
\* no position beyond what it lacks has executed every statement up to its position, and one
\* that met no broken answer and did not restart has executed none twice, out of order or cut off.
THEOREM ReplicasFollow == Spec => []ReplicaFollows
<1>1. Following => ReplicaFollows
  <2> SUFFICES ASSUME Following, ~renumbered
               PROVE  /\ \A s \in Slaves \ skipped : UpTo(slavePos[s]) \subseteq executed[s]
                      /\ repeated \subseteq broken
    BY DEF ReplicaFollows
  <2>1. Kept /\ repeated \subseteq Slaves
    BY DEF Following, Shape, TypeOK
  <2> QED
    BY <2>1 DEF Kept, NothingMissing
<1> QED
  BY <1>1, FollowingHolds, PTL

\* replWaitForAck: what is acknowledged to synchronous writes some replica has executed, if
\* none was told too far a position.
THEOREM AcknowledgedIsExecuted == Spec => []AckIsExecuted
<1>1. Following => AckIsExecuted
  BY DEF Following, Kept, AckIsExecuted
<1> QED
  BY <1>1, FollowingHolds, PTL
=============================================================================
