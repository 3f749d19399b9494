----------------------------- MODULE ServerPool -----------------------------
(***************************************************************************)
(* The worker pool of the TCP server: ThreadPool and the accept loop of    *)
(* src/server/server.hpp.  A task is a whole connection: the worker that   *)
(* takes it is busy until that client disconnects.  Everything happens     *)
(* under mu_; the statistics of g_poolStats are left out.                  *)
(***************************************************************************)
EXTENDS Naturals, Sequences, SequencesExt, FiniteSets

CONSTANTS Workers, Clients, NoClient, MaxQueue

VARIABLES q,         \* q_
          worker,    \* "ready" to look at the queue, "waiting" on cv_, "busy" or "gone"
          serving,   \* worker -> the client whose connection it handles
          client,    \* "out", "queued", "served" or "rejected"
          stopping   \* stopping_

vars == <<q, worker, serving, client, stopping>>

In(state) == {w \in Workers : worker[w] = state}

\* The shape of the state; a client is served by one worker at most.
TypeOK ==
  /\ q \in Seq(Clients) /\ IsInjective(q)
  /\ worker \in [Workers -> {"ready", "waiting", "busy", "gone"}]
  /\ serving \in [Workers -> Clients \cup {NoClient}]
  /\ \A w \in Workers : (serving[w] # NoClient) = (worker[w] = "busy")
  /\ client \in [Clients -> {"out", "queued", "served", "rejected"}]
  /\ stopping \in BOOLEAN

Init ==
  /\ q = <<>> /\ stopping = FALSE
  /\ worker = [w \in Workers |-> "ready"]
  /\ serving = [w \in Workers |-> NoClient]
  /\ client = [c \in Clients |-> "out"]
-----------------------------------------------------------------------------
\* notify_one, whose choice among the waiting workers is free.
Notified ==
  IF In("waiting") = {} THEN {worker}
  ELSE {[worker EXCEPT ![w] = "ready"] : w \in In("waiting")}

\* Mutant: a worker is woken for the first client of the queue only.
Enqueue_NotifyFirst(c) ==
  /\ Len(q) < MaxQueue
  /\ q' = Append(q, c)
  /\ client' = [client EXCEPT ![c] = "queued"]
  /\ IF q = <<>> THEN worker' \in Notified ELSE UNCHANGED worker
\* enqueue with room in the queue.
Enqueue(c) ==
  /\ Len(q) < MaxQueue
  /\ q' = Append(q, c)
  /\ client' = [client EXCEPT ![c] = "queued"]
  /\ worker' \in Notified

\* enqueue returns false: the client is told and disconnected.
Reject(c) ==
  /\ Len(q) >= MaxQueue
  /\ client' = [client EXCEPT ![c] = "rejected"]
  /\ UNCHANGED <<q, worker>>

\* The accept loop takes a connection; it ends before the pool stops.
Accept(c) ==
  /\ ~stopping /\ client[c] \in {"out", "rejected"}
  /\ Enqueue(c) \/ Reject(c)
  /\ UNCHANGED <<serving, stopping>>

\* workerLoop: take the first client ...
Take(w) ==
  /\ worker[w] = "ready" /\ q # <<>>
  /\ q' = Tail(q)
  /\ worker' = [worker EXCEPT ![w] = "busy"]
  /\ serving' = [serving EXCEPT ![w] = Head(q)]
  /\ client' = [client EXCEPT ![Head(q)] = "served"]
  /\ UNCHANGED stopping

\* ... or wait, or leave a pool that stops with an empty queue.
Idle(w) ==
  /\ worker[w] = "ready" /\ q = <<>>
  /\ worker' = [worker EXCEPT ![w] = IF stopping THEN "gone" ELSE "waiting"]
  /\ UNCHANGED <<q, serving, client, stopping>>

\* A spurious wakeup.
Wake(w) ==
  /\ worker[w] = "waiting"
  /\ worker' = [worker EXCEPT ![w] = "ready"]
  /\ UNCHANGED <<q, serving, client, stopping>>

\* The client disconnects: handleClient returns.
Disconnect(w) ==
  /\ worker[w] = "busy"
  /\ worker' = [worker EXCEPT ![w] = "ready"]
  /\ serving' = [serving EXCEPT ![w] = NoClient]
  /\ client' = [client EXCEPT ![serving[w]] = "out"]
  /\ UNCHANGED <<q, stopping>>

\* Mutant: one worker is told to stop.
Stop_NotifyOne ==
  /\ ~stopping /\ stopping' = TRUE
  /\ worker' \in Notified
  /\ UNCHANGED <<q, serving, client>>
\* The destructor up to the joins.
Stop ==
  /\ ~stopping /\ stopping' = TRUE
  /\ worker' = [w \in Workers |-> IF worker[w] = "waiting" THEN "ready" ELSE worker[w]]
  /\ UNCHANGED <<q, serving, client>>

Next ==
  \/ Stop
  \/ \E c \in Clients : Accept(c)
  \/ \E w \in Workers : Take(w) \/ Idle(w) \/ Wake(w) \/ Disconnect(w)

\* Workers run.  A client may stay connected for ever: the sockets have no timeout.
Spec ==
  /\ Init /\ [][Next]_vars
  /\ \A w \in Workers : WF_vars(Take(w) \/ Idle(w))
-----------------------------------------------------------------------------
\* No wakeup is lost: when a worker sleeps, there are as many workers on their way to the
\* queue as it has clients, however workers, wakeups and new clients overtake each other.
QueueIsAttended == In("waiting") # {} => Cardinality(In("ready")) >= Len(q)

\* A client waits in the queue for ever only while clients that never leave keep every
\* worker busy; a pool that stops serves its queue, and its workers end.
PoolServes ==
  /\ \A c \in Clients : <>[](client[c] = "queued") => <>[](In("busy") = Workers)
  /\ stopping ~> (q = <<>> /\ In("ready") \cup In("waiting") = {}) \/ In("busy") # {}
=============================================================================
