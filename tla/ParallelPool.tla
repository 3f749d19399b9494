---------------------------- MODULE ParallelPool ----------------------------
(***************************************************************************)
(* src/parallel/thread_pool.hpp: the pool that splits a table scan over    *)
(* worker threads and is resized by SET parallel_workers.  A step is what  *)
(* a thread does under queueMutex_; submit notifies after the unlock.      *)
(***************************************************************************)
EXTENDS Naturals, Sequences, FiniteSets, FiniteSetsExt

CONSTANTS Scans,     \* calls of parallelScan, one per thread
          MaxWorkers,
          Inputs     \* the <<number of rows, numWorkers>> they are called with

ThreadIds == 1..MaxWorkers
None == <<>>

VARIABLES tasks,    \* tasks_: <<scan, chunk>>
          thread,   \* "none", "ready" to look at the queue, "waiting" on cv_, "busy"
          task,     \* thread -> the task it runs, or None
          stop,     \* stop_
          resize,   \* "no", "joining" the old threads or "starting" the new ones
          scan,     \* "idle", "submitting", "notifying", "collecting", "done", "failed"
          input,    \* scan -> its rows and numWorkers
          next,     \* scan -> the next chunk to submit
          count,    \* history: scan -> row -> how often a worker has processed it
          ready     \* scan -> the chunks whose future has a value

vars == <<tasks, thread, task, stop, resize, scan, input, next, count, ready>>

MostRows == Max({i[1] : i \in Inputs})
In(state) == {t \in ThreadIds : thread[t] = state}

TypeOK ==
  /\ tasks \in Seq(Scans \X Nat)
  /\ thread \in [ThreadIds -> {"none", "ready", "waiting", "busy"}]
  /\ \A t \in ThreadIds : (task[t] # None) = (thread[t] = "busy")
  /\ stop \in BOOLEAN /\ resize \in {"no", "joining", "starting"}
  /\ scan \in [Scans -> {"idle", "submitting", "notifying", "collecting", "done", "failed"}]
  /\ input \in [Scans -> Inputs] /\ next \in [Scans -> Nat]
  /\ count \in [Scans -> [0..(MostRows - 1) -> Nat]]

\* A pool of any size, and calls that have not begun.
Init ==
  /\ tasks = <<>> /\ stop = FALSE /\ resize = "no"
  /\ \E n \in ThreadIds : thread = [t \in ThreadIds |-> IF t <= n THEN "ready" ELSE "none"]
  /\ task = [t \in ThreadIds |-> None]
  /\ scan = [s \in Scans |-> "idle"] /\ input \in [Scans -> Inputs]
  /\ next = [s \in Scans |-> 0] /\ ready = [s \in Scans |-> {}]
  /\ count = [s \in Scans |-> [r \in 0..(MostRows - 1) |-> 0]]
-----------------------------------------------------------------------------
Rows(s) == input[s][1]
Parts(s) == input[s][2]
\* Mutant: rounded down.
ChunkSize_Floor(s) == Rows(s) \div Parts(s)
ChunkSize(s) == (Rows(s) + Parts(s) - 1) \div Parts(s)
\* The rows [start, end) of chunk i.
Chunk(s, i) == (i * ChunkSize(s))..(Min({(i + 1) * ChunkSize(s), Rows(s)}) - 1)

\* parallelScan with one part or no rows: the caller scans alone.
ScanAlone(s) ==
  /\ scan[s] = "idle" /\ (Rows(s) = 0 \/ Parts(s) <= 1)
  /\ scan' = [scan EXCEPT ![s] = "done"]
  /\ count' = [count EXCEPT ![s] = [r \in DOMAIN @ |-> IF r < Rows(s) THEN @[r] + 1 ELSE @[r]]]
  /\ UNCHANGED <<tasks, thread, task, stop, resize, input, next, ready>>

Begin(s) ==
  /\ scan[s] = "idle" /\ Rows(s) > 0 /\ Parts(s) > 1
  /\ scan' = [scan EXCEPT ![s] = "submitting"]
  /\ UNCHANGED <<tasks, thread, task, stop, resize, input, next, count, ready>>

More(s) == next[s] < Parts(s) /\ next[s] * ChunkSize(s) < Rows(s)

\* submit up to the unlock; a pool that is being resized throws and the scan fails.
Submit(s) ==
  /\ scan[s] = "submitting" /\ More(s)
  /\ IF stop
     THEN scan' = [scan EXCEPT ![s] = "failed"] /\ UNCHANGED <<tasks, next>>
     ELSE /\ tasks' = Append(tasks, <<s, next[s]>>)
          /\ next' = [next EXCEPT ![s] = @ + 1]
          /\ scan' = [scan EXCEPT ![s] = "notifying"]
  /\ UNCHANGED <<thread, task, stop, resize, input, count, ready>>

\* submit's notify_one.
Notify(s) ==
  /\ scan[s] = "notifying"
  /\ scan' = [scan EXCEPT ![s] = "submitting"]
  /\ IF In("waiting") = {} THEN UNCHANGED thread
     ELSE \E t \in In("waiting") : thread' = [thread EXCEPT ![t] = "ready"]
  /\ UNCHANGED <<tasks, task, stop, resize, input, next, count, ready>>

\* Everything is submitted: wait for the futures ...
Await(s) ==
  /\ scan[s] = "submitting" /\ ~More(s)
  /\ scan' = [scan EXCEPT ![s] = "collecting"]
  /\ UNCHANGED <<tasks, thread, task, stop, resize, input, next, count, ready>>

\* ... and combine what they hold.
Combine(s) ==
  /\ scan[s] = "collecting" /\ ready[s] = 0..(next[s] - 1)
  /\ scan' = [scan EXCEPT ![s] = "done"]
  /\ UNCHANGED <<tasks, thread, task, stop, resize, input, next, count, ready>>
-----------------------------------------------------------------------------
\* workerLoop: take a task ...
Take(t) ==
  /\ thread[t] = "ready" /\ tasks # <<>>
  /\ tasks' = Tail(tasks)
  /\ thread' = [thread EXCEPT ![t] = "busy"] /\ task' = [task EXCEPT ![t] = Head(tasks)]
  /\ UNCHANGED <<stop, resize, scan, input, next, count, ready>>

\* Mutant: a pool that stops leaves its queue unserved.
Idle_Abandon(t) ==
  /\ thread[t] = "ready" /\ (stop \/ tasks = <<>>)
  /\ thread' = [thread EXCEPT ![t] = IF stop THEN "none" ELSE "waiting"]
  /\ UNCHANGED <<tasks, task, stop, resize, scan, input, next, count, ready>>
\* ... or wait, or end when the pool stops and the queue is empty.
Idle(t) ==
  /\ thread[t] = "ready" /\ tasks = <<>>
  /\ thread' = [thread EXCEPT ![t] = IF stop THEN "none" ELSE "waiting"]
  /\ UNCHANGED <<tasks, task, stop, resize, scan, input, next, count, ready>>

\* The task scans its chunk and sets its future, also when nobody waits for it any more.
Run(t) ==
  /\ thread[t] = "busy"
  /\ LET s == task[t][1]
         i == task[t][2]
     IN  /\ count' = [count EXCEPT ![s] =
                        [r \in DOMAIN @ |-> IF r \in Chunk(s, i) THEN @[r] + 1 ELSE @[r]]]
         /\ ready' = [ready EXCEPT ![s] = @ \cup {i}]
  /\ thread' = [thread EXCEPT ![t] = "ready"] /\ task' = [task EXCEPT ![t] = None]
  /\ UNCHANGED <<tasks, stop, resize, scan, input, next>>

\* resize: stop the threads, which finish the queue first; bound: one at a time.
Resize ==
  /\ resize = "no" /\ resize' = "joining" /\ stop' = TRUE
  /\ thread' = [t \in ThreadIds |-> IF thread[t] = "waiting" THEN "ready" ELSE thread[t]]
  /\ UNCHANGED <<tasks, task, scan, input, next, count, ready>>

\* All are joined: clear the queue and accept tasks again ...
Joined ==
  /\ resize = "joining" /\ In("none") = ThreadIds
  /\ resize' = "starting" /\ stop' = FALSE /\ tasks' = <<>>
  /\ UNCHANGED <<thread, task, scan, input, next, count, ready>>

\* ... and start n threads.
StartThreads(n) ==
  /\ resize = "starting" /\ resize' = "no"
  /\ thread' = [t \in ThreadIds |-> IF t <= n THEN "ready" ELSE "none"]
  /\ UNCHANGED <<tasks, task, stop, scan, input, next, count, ready>>

Next ==
  \/ Resize \/ Joined
  \/ \E n \in ThreadIds : StartThreads(n)
  \/ \E t \in ThreadIds : Take(t) \/ Idle(t) \/ Run(t)
  \/ \E s \in Scans :
       ScanAlone(s) \/ Begin(s) \/ Submit(s) \/ Notify(s) \/ Await(s) \/ Combine(s)

\* Every thread runs.
Spec ==
  /\ Init /\ [][Next]_vars
  /\ WF_vars(Joined) /\ WF_vars(\E n \in ThreadIds : StartThreads(n))
  /\ \A t \in ThreadIds : WF_vars(Take(t) \/ Idle(t) \/ Run(t))
  /\ \A s \in Scans : WF_vars(Submit(s) \/ Notify(s) \/ Await(s) \/ Combine(s))
-----------------------------------------------------------------------------
\* A parallel scan that returns has seen every row once: the chunks cover the table without
\* overlapping, whatever its size, and no task is lost or run twice when the pool is resized.
ScanSeesEveryRowOnce ==
  \A s \in Scans : scan[s] = "done" =>
    \A r \in DOMAIN count[s] : count[s][r] = IF r < Rows(s) THEN 1 ELSE 0

\* A scan that has begun returns or is refused by a pool that is being resized.
ScanEnds == \A s \in Scans : scan[s] = "submitting" ~> scan[s] \in {"done", "failed"}
=============================================================================
