--------------------------- MODULE ConnectionPool ---------------------------
(***************************************************************************)
(* src/pool/connection_pool.hpp.  Every method holds mu_ except while it   *)
(* waits on cv_ or drainCv_, so a method is one step up to its wait and    *)
(* one from there on.                                                      *)
(*                                                                         *)
(* A notified waiter still has to get mu_ back; until then others may      *)
(* overtake it or its deadline may pass, and cv_.wait_until reports a      *)
(* timeout whenever the deadline has passed, notified or not.              *)
(* Statistics are left out, except the counters that guide the pool.       *)
(***************************************************************************)
EXTENDS Naturals, Sequences, SequencesExt, FiniteSets, Selections

CONSTANTS Clients, Conns, NoConn,
          Sizes     \* the <<min, max>> the pool is configured with, min <= max; there are
                    \* twice as many Conns as the largest max, so that ids never run out

VARIABLES idle,      \* idle_
          conn,      \* client -> the connection it holds
          status,    \* client -> "out", "waiting" (on cv_), "notified" or "active"
          dead,      \* connections whose healthy flag is false
          total,     \* totalConns_
          active,    \* active_
          size,      \* <<minConns_, maxConns_>>
          closing,   \* shuttingDown_
          draining,  \* a shutdown() waits on drainCv_
          warming,   \* the callers about to call prewarm: configure, reopen
          expired    \* history: some client's deadline has passed

vars == <<idle, conn, status, dead, total, active, size, closing, draining, warming,
          expired>>

Held == {conn[c] : c \in Clients} \ {NoConn}
Unused == Conns \ (Held \cup Range(idle))

\* The shape of the state.
TypeOK ==
  /\ idle \in Seq(Conns) /\ dead \subseteq Conns
  /\ conn \in [Clients -> Conns \cup {NoConn}]
  /\ status \in [Clients -> {"out", "waiting", "notified", "active"}]
  /\ \A c \in Clients : (conn[c] # NoConn) = (status[c] = "active")
  /\ total \in Nat /\ active \in Nat
  /\ size \in Nat \X Nat /\ size[1] <= size[2]
  /\ closing \in BOOLEAN /\ draining \in BOOLEAN
  /\ warming \subseteq {"configure", "reopen"} /\ expired \in BOOLEAN

\* createConnection, n times: ids nobody holds.
New(n) == SubSeq(SetToSeq(Unused), 1, n)
\* The connections missing to the minimum when there are m.
Missing(m) == IF m >= size[1] THEN 0 ELSE size[1] - m

Init ==
  /\ size \in Sizes
  /\ conn = [c \in Clients |-> NoConn] /\ status = [c \in Clients |-> "out"]
  /\ dead = {} /\ active = 0 /\ closing = FALSE /\ draining = FALSE /\ warming = {}
  /\ expired = FALSE
  /\ total = size[1]
  /\ idle = SubSeq(SetToSeq(Conns), 1, size[1])

NotifyAll(st) == [c \in Clients |-> IF st[c] = "waiting" THEN "notified" ELSE st[c]]
\* notify_one: one of the waiters, if there is one.
NotifyOne(st) ==
  LET waiting == {c \in Clients : st[c] = "waiting"}
  IN  IF waiting = {} THEN {st} ELSE {[st EXCEPT ![c] = "notified"] : c \in waiting}
-----------------------------------------------------------------------------
(* acquire *)

\* Where the first healthy connection of idle_ is, 0 if there is none; acquire discards
\* the dead ones in front of it.
Healthy == {i \in DOMAIN idle : idle[i] \notin dead}
FirstHealthy == IF Healthy = {} THEN 0 ELSE CHOOSE i \in Healthy : \A j \in Healthy : i <= j
Discarded == IF FirstHealthy = 0 THEN Len(idle) ELSE FirstHealthy - 1

\* Mutant: the connection stays in idle_.
TakeIdle_NotPopped(c) ==
  /\ FirstHealthy # 0
  /\ conn' = [conn EXCEPT ![c] = idle[FirstHealthy]]
  /\ idle' = SubSeq(idle, FirstHealthy, Len(idle))
  /\ total' = total - Discarded + 1
  /\ active' = active + 1
  /\ status' = [status EXCEPT ![c] = "active"]
  /\ UNCHANGED dead
\* Reuse an idle connection.
TakeIdle(c) ==
  /\ FirstHealthy # 0
  /\ conn' = [conn EXCEPT ![c] = idle[FirstHealthy]]
  /\ idle' = SubSeq(idle, FirstHealthy + 1, Len(idle))
  /\ total' = total - Discarded
  /\ active' = active + 1
  /\ status' = [status EXCEPT ![c] = "active"]
  /\ UNCHANGED dead

\* Mutant: the connections discarded on the way are not subtracted.
Grow_IgnoreDiscarded(c) ==
  /\ FirstHealthy = 0 /\ total - Discarded < size[2]
  /\ conn' = [conn EXCEPT ![c] = New(1)[1]]
  /\ dead' = dead \ Range(New(1))
  /\ idle' = <<>>
  /\ total' = total + 1
  /\ active' = active + 1
  /\ status' = [status EXCEPT ![c] = "active"]
\* Grow below the maximum.
Grow(c) ==
  /\ FirstHealthy = 0 /\ total - Discarded < size[2]
  /\ conn' = [conn EXCEPT ![c] = New(1)[1]]
  /\ dead' = dead \ Range(New(1))
  /\ idle' = <<>>
  /\ total' = total - Discarded + 1
  /\ active' = active + 1
  /\ status' = [status EXCEPT ![c] = "active"]

\* Exhausted: wait on cv_.
Wait(c) ==
  /\ FirstHealthy = 0 /\ total - Discarded >= size[2]
  /\ idle' = <<>>
  /\ total' = total - Discarded
  /\ status' = [status EXCEPT ![c] = "waiting"]
  /\ UNCHANGED <<conn, dead, active>>

\* acquire, and its loop after a wakeup that is not a timeout.
Acquire(c) ==
  /\ status[c] \in {"out", "notified"} /\ ~closing
  /\ TakeIdle(c) \/ Grow(c) \/ Wait(c)
  /\ UNCHANGED <<size, closing, draining, warming, expired>>

\* The deadline passes, before or after a notification: nullptr.
TimeOut(c) ==
  /\ status[c] \in {"waiting", "notified"} /\ ~closing
  /\ status' = [status EXCEPT ![c] = "out"]
  /\ expired' = TRUE
  /\ UNCHANGED <<idle, conn, dead, total, active, size, closing, draining, warming>>

\* A waiter wakes up in a pool that is closing: nullptr.
Refused(c) ==
  /\ status[c] \in {"waiting", "notified"} /\ closing
  /\ status' = [status EXCEPT ![c] = "out"]
  /\ UNCHANGED <<idle, conn, dead, total, active, size, closing, draining, warming, expired>>
-----------------------------------------------------------------------------
\* Mutant: nobody is woken for a connection that is not put back.
Release_NotifyIdleOnly(c) ==
  /\ status[c] = "active"
  /\ active' = active - 1
  /\ conn' = [conn EXCEPT ![c] = NoConn]
  /\ IF conn[c] \notin dead /\ ~closing
     THEN /\ idle' = Append(idle, conn[c]) /\ total' = total
          /\ status' \in NotifyOne([status EXCEPT ![c] = "out"])
     ELSE /\ idle' = idle /\ total' = total - 1
          /\ status' = [status EXCEPT ![c] = "out"]
  /\ UNCHANGED <<dead, size, closing, draining, warming, expired>>
\* release: a dead connection, or any when the pool is closing, is dropped.
Release(c) ==
  /\ status[c] = "active"
  /\ active' = active - 1
  /\ conn' = [conn EXCEPT ![c] = NoConn]
  /\ IF conn[c] \notin dead /\ ~closing
     THEN idle' = Append(idle, conn[c]) /\ total' = total
     ELSE idle' = idle /\ total' = total - 1
  /\ status' \in NotifyOne([status EXCEPT ![c] = "out"])
  /\ UNCHANGED <<dead, size, closing, draining, warming, expired>>

\* markUnhealthy, by a client that uses the connection or kept its pointer.
MarkUnhealthy(n) ==
  /\ n \in (Held \cup Range(idle)) \ dead
  /\ dead' = dead \cup {n}
  /\ UNCHANGED <<idle, conn, status, total, active, size, closing, draining, warming, expired>>

\* What a health check drops: the dead, and those that fail healthFn_ or are too old.
Doomed == {gone \in SUBSET Range(idle) : dead \cap Range(idle) \subseteq gone}

\* runHealthCheck drops connections and tops up to the minimum.  Nobody is notified.
RunHealthCheck ==
  /\ ~closing
  /\ \E gone \in Doomed :
       LET kept == Picked(idle, {i \in DOMAIN idle : idle[i] \notin gone})
           left == total - Cardinality(gone)
           new  == New(Missing(left))
       IN  /\ idle' = kept \o new
           /\ total' = left + Len(new)
           /\ dead' = dead \ Range(new)
  /\ UNCHANGED <<conn, status, active, size, closing, draining, warming, expired>>

\* configure up to its unlock; prewarm follows.
Configure(sz) ==
  /\ "configure" \notin warming
  /\ size' = sz /\ warming' = warming \cup {"configure"}
  /\ UNCHANGED <<idle, conn, status, dead, total, active, closing, draining, expired>>

\* prewarm, a no-op when the pool is closing; configure then notifies the waiters.
Prewarm(by) ==
  /\ by \in warming /\ warming' = warming \ {by}
  /\ LET new == New(IF closing THEN 0 ELSE Missing(total))
     IN  idle' = idle \o new /\ total' = total + Len(new) /\ dead' = dead \ Range(new)
  /\ status' = IF by = "configure" THEN NotifyAll(status) ELSE status
  /\ UNCHANGED <<conn, active, size, closing, draining, expired>>

\* Mutant: the minimum stays above a lowered maximum.
SetMaxConnections_KeepMin(n) ==
  /\ size' = <<size[1], n>>
  /\ status' = NotifyAll(status)
  /\ UNCHANGED <<idle, conn, dead, total, active, closing, draining, warming, expired>>
SetMaxConnections(n) ==
  /\ size' = <<IF size[1] > n THEN n ELSE size[1], n>>
  /\ status' = NotifyAll(status)
  /\ UNCHANGED <<idle, conn, dead, total, active, closing, draining, warming, expired>>

\* shutdown up to its wait for active_ = 0 ...
Shutdown ==
  /\ ~draining
  /\ closing' = TRUE /\ draining' = TRUE
  /\ status' = NotifyAll(status)
  /\ UNCHANGED <<idle, conn, dead, total, active, size, warming, expired>>

\* ... and after it, drained or timed out.
ShutdownReturns ==
  /\ draining
  /\ idle' = <<>> /\ total' = active
  /\ draining' = FALSE
  /\ UNCHANGED <<conn, status, dead, active, size, closing, warming, expired>>

\* reopen up to its unlock, also while another thread still drains.
Reopen ==
  /\ closing /\ "reopen" \notin warming
  /\ closing' = FALSE /\ warming' = warming \cup {"reopen"}
  /\ UNCHANGED <<idle, conn, status, dead, total, active, size, draining, expired>>

Next ==
  \/ RunHealthCheck \/ Shutdown \/ ShutdownReturns \/ Reopen
  \/ \E sz \in Sizes : Configure(sz) \/ SetMaxConnections(sz[2])
  \/ \E by \in {"configure", "reopen"} : Prewarm(by)
  \/ \E n \in Conns : MarkUnhealthy(n)
  \/ \E c \in Clients :
       Acquire(c) \/ TimeOut(c) \/ Refused(c) \/ Release(c)

Spec == Init /\ [][Next]_vars
-----------------------------------------------------------------------------
\* The counters agree with the connections, through growth, dropped and recycled
\* connections, shutdown while some are in use, and reopening.
CountersAgree ==
  /\ active = Cardinality({c \in Clients : status[c] = "active"})
  /\ total = active + Len(idle)

\* No connection is handed to two clients or is idle while somebody uses it.
NoSharing ==
  /\ \A c, d \in Clients : conn[c] = conn[d] /\ conn[c] # NoConn => c = d
  /\ Range(idle) \cap Held = {}
  /\ IsInjective(idle)

\* As long as no deadline has passed a client waits only while the pool is exhausted:
\* when a healthy connection is idle or the pool may grow, a wakeup is on its way to
\* some waiter, or configure is about to send one.
NoLostWakeup ==
  ~expired /\ (FirstHealthy # 0 \/ total < size[2]) /\ (\E c \in Clients : status[c] = "waiting")
    => (\E c \in Clients : status[c] = "notified") \/ "configure" \in warming
=============================================================================
