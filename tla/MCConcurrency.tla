--------------------------- MODULE MCConcurrency ---------------------------
(***************************************************************************)
(* The components that threads and sessions share, side by side: part      *)
(* chooses the one that moves, so that TLC explores the graph of each.  An *)
(* idle component stays in its initial state.                              *)
(***************************************************************************)
EXTENDS LockManager, Naturals, Sequences, FiniteSets

CONSTANTS Clients, Workers, NoClient, MaxQueue, Scans, MaxWorkers, Inputs, Names, Schedules, Day, MaxTime,
          Sessions, MaxOps, MaxRows, PruneAt, MaxTxId

\* Rows and numWorkers of a scan: none, fewer rows than parts, a last chunk that is shorter,
\* and two chunks for three workers.
ScanInputs == {<<0, 2>>, <<1, 2>>, <<4, 3>>, <<3, 2>>}
\* Finitely many workers; scans of any number of rows, in any number of parts.
ASSUME ThreadsAssumption == IsFiniteSet(Workers) /\ MaxWorkers \in Nat \ {0} /\ Inputs \subseteq Nat \X Nat
ASSUME NoClientAssumption == NoClient \notin Clients

\* A recurring event, with and without a time of day, and one that runs once.
EventNames == {"a", "b"}
EventSchedules ==
  [n \in EventNames |->
    IF n = "a"
    THEN {[recurring |-> TRUE, interval |-> 2, hasAt |-> FALSE, at |-> 0],
          [recurring |-> TRUE, interval |-> 2, hasAt |-> TRUE, at |-> 1]}
    ELSE {[recurring |-> FALSE, interval |-> 0, hasAt |-> FALSE, at |-> 1]}]

\* Every name has its schedules, of natural numbers of ticks.
ASSUME SchedulesAssumption ==
  /\ Day \in Nat \ {0} /\ MaxTime \in Nat
  /\ \A n \in Names : \A s \in Schedules[n] :
       /\ s = [recurring |-> s.recurring, interval |-> s.interval, hasAt |-> s.hasAt, at |-> s.at]
       /\ s.recurring \in BOOLEAN /\ s.interval \in Nat /\ s.hasAt \in BOOLEAN /\ s.at \in Nat

ASSUME SessionsAssumption == {MaxOps, MaxRows, MaxTxId} \subseteq Nat

\* Statements of each kind on one table; only the columns a kind uses differ.
Op(type, k, v) ==
  [type |-> type, tbl |-> "p", key |-> k, val |-> v, set |-> "val", to |-> "k2", quoted |-> FALSE]
Ops ==
  {Op("INSERT", "k1", "v1"), [Op("UPDATE_WHERE", "k1", "v1") EXCEPT !.set = "key"],
   Op("UPDATE_ALL", "k1", "v2"), Op("DELETE_WHERE", "k1", "v1"),
   [Op("DELETE_WHERE", "k1", "v1") EXCEPT !.quoted = TRUE]}

VARIABLES part,
          q, worker, serving, client, stopping,
          tasks, thread, task, stop, resize, scan, input, next, count, ready,
          now, events, file, on, up, toExec, ran, lost,
          tables, tx, globalTxId, activeTxs, committedTxs, committedEver

Server == INSTANCE ServerPool
Parallel == INSTANCE ParallelPool
Scheduler == INSTANCE EventScheduler
Tx == INSTANCE Transactions WITH
  Tables <- {"p"}, Parent <- "p", Child <- "c", Keys <- {"k1", "k2"}, Vals <- {"v1", "v2"},
  Unique <- {}, OnDelete <- "NONE", Names <- {}

server == <<q, worker, serving, client, stopping>>
parallel == <<tasks, thread, task, stop, resize, scan, input, next, count, ready>>
scheduler == <<now, events, file, on, up, toExec, ran, lost>>
transactions == <<tables, tx, globalTxId, activeTxs, committedTxs, committedEver>>
all == <<part, vars, server, parallel, scheduler, transactions>>

InLocks(A) == part = "locks" /\ A /\ UNCHANGED <<part, server, parallel, scheduler, transactions>>
InServer(A) == part = "server" /\ A /\ UNCHANGED <<part, vars, parallel, scheduler, transactions>>
InParallel(A) == part = "parallel" /\ A /\ UNCHANGED <<part, vars, server, scheduler, transactions>>
InScheduler(A) == part = "scheduler" /\ A /\ UNCHANGED <<part, vars, server, parallel, transactions>>
InTransactions(A) ==
  part = "transactions" /\ A /\ UNCHANGED <<part, vars, server, parallel, scheduler>>

\* A part that does not move has one of its initial states.  Nothing tells one scan from the
\* other, so the first one has fewer rows.
AllInit ==
  /\ part \in {"locks", "server", "parallel", "scheduler", "transactions"}
  /\ Init /\ Server!Init /\ Parallel!Init /\ Scheduler!Init /\ Tx!Init
  /\ part # "parallel" => (\A s \in Scans : input[s][1] = 0) /\ thread[MaxWorkers] = "none"
  /\ part = "parallel" => input[1][1] < input[2][1]

AllNext ==
  InLocks(Next) \/ InServer(Server!Next) \/ InParallel(Parallel!Next)
    \/ InScheduler(Scheduler!Next) \/ InTransactions(Tx!Next)

\* The fairness of the components' specifications.
AllSpec ==
  /\ AllInit /\ [][AllNext]_all
  /\ \A w \in Workers : WF_all(InServer(Server!Take(w) \/ Server!Idle(w)))
  /\ WF_all(InParallel(Parallel!Joined))
  /\ WF_all(InParallel(\E n \in 1..MaxWorkers : Parallel!StartThreads(n)))
  /\ \A t \in 1..MaxWorkers :
       WF_all(InParallel(Parallel!Take(t) \/ Parallel!Idle(t) \/ Parallel!Run(t)))
  /\ \A s \in Scans : WF_all(InParallel(Parallel!Submit(s) \/ Parallel!Notify(s)
                                          \/ Parallel!Await(s) \/ Parallel!Combine(s)))
  /\ WF_all(InScheduler(Scheduler!Collect)) /\ WF_all(InScheduler(Scheduler!Execute))
  /\ WF_all(InTransactions(Tx!VacuumAll))
-----------------------------------------------------------------------------
\* The type invariants of the components.
AllTypeOK ==
  CASE part = "locks" -> TypeOK
    [] part = "server" -> Server!TypeOK
    [] part = "parallel" -> Parallel!TypeOK
    [] part = "scheduler" -> Scheduler!TypeOK
    [] part = "transactions" -> Tx!TypeOK

\* Stated in ServerPool: no wakeup of a worker is lost.
QueueIsAttended == Server!QueueIsAttended
\* Stated in ServerPool: only clients that never leave keep another one waiting.
PoolServes == Server!PoolServes

\* Stated in ParallelPool: a scan that returns has seen every row once.
ScanSeesEveryRowOnce == Parallel!ScanSeesEveryRowOnce
\* Stated in ParallelPool: a scan returns, also when the pool is resized.
ScanEnds == Parallel!ScanEnds

\* Stated in EventScheduler: no event runs more often than its schedule says.
NoExtraRun == Scheduler!NoExtraRun
\* Stated in EventScheduler: what is due is run.
DueIsRun == Scheduler!DueIsRun

\* Stated in Transactions: sessions see one transaction after the other, each as a whole.
ImplementsSerialStore == Tx!ImplementsSerialStore
\* Stated in Transactions: versions that are dead to everyone are reclaimed in the end.
VacuumReclaims == Tx!VacuumReclaims
=============================================================================
