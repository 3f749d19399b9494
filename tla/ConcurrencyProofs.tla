-------------------------- MODULE ConcurrencyProofs --------------------------
(***************************************************************************)
(* Proofs about the composition of MCConcurrency: the pool of the server   *)
(* and the pool of the parallel scans, for any finite set of workers, any  *)
(* clients, scans and lengths; the sessions and their transactions; the    *)
(* events of the scheduler, for any events and schedules.                  *)
(*                                                                         *)
(* A component moves by its own steps and rests while another moves, so an *)
(* invariant of the component is one of the composition.                   *)
(***************************************************************************)
EXTENDS MCConcurrency, LockManagerProofs, SelectionsProofs, FiniteSetTheorems, SequenceTheorems, TLAPS
-----------------------------------------------------------------------------
(* The workers of the server *)

\* What the induction needs to know of the shape of the state.
PoolShape ==
  /\ q \in Seq(Clients)
  /\ worker \in [Workers -> {"ready", "waiting", "busy", "gone"}]

\* As many workers are on their way to the queue as it has clients, or nobody sleeps.
Attended == Server!In("waiting") # {} => Cardinality(Server!In("ready")) >= Len(q)

PoolInv == PoolShape /\ Attended

\* The sets of workers that In denotes are finite, with a cardinality.
LEMMA InIsFinite ==
  IsFiniteSet(Server!In("ready")) /\ Cardinality(Server!In("ready")) \in Nat
<1>1. Server!In("ready") \in SUBSET Workers
  BY DEF Server!In
<1>2. IsFiniteSet(Server!In("ready"))
  BY <1>1, ThreadsAssumption, FS_Subset
<1> QED
  BY <1>2, FS_CardinalityType

\* A worker that becomes ready adds one to those on their way to the queue.
LEMMA ReadyGains ==
  ASSUME PoolShape,
         NEW w \in Workers, worker[w] # "ready", worker' = [worker EXCEPT ![w] = "ready"]
  PROVE  /\ Cardinality(Server!In("ready")') = Cardinality(Server!In("ready")) + 1
         /\ Server!In("waiting")' \subseteq Server!In("waiting")
<1>1. Server!In("ready")' = Server!In("ready") \cup {w} /\ w \notin Server!In("ready")
  BY DEF Server!In, PoolShape
<1>2. Cardinality(Server!In("ready") \cup {w}) = Cardinality(Server!In("ready")) + 1
  BY <1>1, InIsFinite, FS_AddElement
<1>3. Server!In("waiting")' \subseteq Server!In("waiting")
  BY DEF Server!In, PoolShape
<1> QED
  BY <1>1, <1>2, <1>3

\* A worker that takes a client is one less.
LEMMA ReadyLoses ==
  ASSUME PoolShape,
         NEW w \in Workers, worker[w] = "ready", worker' = [worker EXCEPT ![w] = "busy"]
  PROVE  /\ Cardinality(Server!In("ready")') = Cardinality(Server!In("ready")) - 1
         /\ Server!In("waiting")' = Server!In("waiting")
<1>1. Server!In("ready")' = Server!In("ready") \ {w} /\ w \in Server!In("ready")
  BY DEF Server!In, PoolShape
<1>2. Cardinality(Server!In("ready") \ {w}) = Cardinality(Server!In("ready")) - 1
  BY <1>1, InIsFinite, FS_RemoveElement
<1>3. Server!In("waiting")' = Server!In("waiting")
  BY DEF Server!In, PoolShape
<1> QED
  BY <1>1, <1>2, <1>3
\* enqueue: the queue and the workers on their way to it grow together, or nobody sleeps.
LEMMA EnqueueAttends ==
  ASSUME PoolInv, NEW c \in Clients, Server!Enqueue(c)
  PROVE  PoolInv'
<1>1. q' \in Seq(Clients) /\ Len(q') = Len(q) + 1 /\ Len(q) \in Nat
  BY DEF Server!Enqueue, PoolInv, PoolShape
<1>2. CASE Server!In("waiting") = {}
  <2>1. worker' = worker
    BY <1>2 DEF Server!Enqueue, Server!Notified
  <2>2. Server!In("waiting")' = {}
    BY <1>2, <2>1 DEF Server!In
  <2> QED
    BY <1>1, <2>1, <2>2 DEF PoolInv, PoolShape, Attended
<1>3. CASE Server!In("waiting") # {}
  <2>1. PICK w \in Server!In("waiting") : worker' = [worker EXCEPT ![w] = "ready"]
    BY <1>3 DEF Server!Enqueue, Server!Notified
  <2>2. w \in Workers /\ worker[w] = "waiting"
    BY DEF Server!In
  <2>3. Cardinality(Server!In("ready")') = Cardinality(Server!In("ready")) + 1
    BY <2>1, <2>2, ReadyGains DEF PoolInv
  <2>4. Cardinality(Server!In("ready")) >= Len(q)
    BY <1>3 DEF PoolInv, Attended
  <2>5. worker' \in [Workers -> {"ready", "waiting", "busy", "gone"}]
    BY <2>1, <2>2 DEF PoolInv, PoolShape
  <2>6. Cardinality(Server!In("ready")') >= Len(q')
    BY <1>1, <2>3, <2>4, InIsFinite
  <2> QED
    BY <1>1, <2>5, <2>6 DEF PoolInv, PoolShape, Attended
<1> QED
  BY <1>2, <1>3

\* Every step of the pool keeps the invariant.
LEMMA PoolStep ==
  ASSUME PoolInv, Server!Next \/ UNCHANGED server
  PROVE  PoolInv'
<1> USE DEF PoolInv
<1>1. CASE Server!Stop
  <2>1. worker' \in [Workers -> {"ready", "waiting", "busy", "gone"}] /\ Server!In("waiting")' = {}
    BY <1>1 DEF Server!Stop, Server!In, PoolShape
  <2> QED
    BY <1>1, <2>1 DEF Server!Stop, PoolShape, Attended
<1>2. ASSUME NEW c \in Clients, Server!Accept(c)
      PROVE  PoolInv'
  <2>1. CASE Server!Enqueue(c)
    BY <2>1, EnqueueAttends
  <2>2. CASE Server!Reject(c)
    BY <2>2 DEF Server!Reject, PoolShape, Attended, Server!In
  <2> QED
    BY <1>2, <2>1, <2>2 DEF Server!Accept
<1>3. ASSUME NEW w \in Workers, Server!Take(w)
      PROVE  PoolInv'
  <2>1. q' \in Seq(Clients) /\ Len(q') = Len(q) - 1 /\ Len(q) \in Nat
    BY <1>3 DEF Server!Take, PoolShape
  <2>2. /\ Cardinality(Server!In("ready")') = Cardinality(Server!In("ready")) - 1
        /\ Server!In("waiting")' = Server!In("waiting")
    BY <1>3, ReadyLoses DEF Server!Take
  <2>3. worker' \in [Workers -> {"ready", "waiting", "busy", "gone"}]
    BY <1>3 DEF Server!Take, PoolShape
  <2>4. Attended'
    BY <2>1, <2>2, InIsFinite DEF Attended
  <2> QED
    BY <2>1, <2>3, <2>4 DEF PoolShape
<1>4. ASSUME NEW w \in Workers, Server!Idle(w)
      PROVE  PoolInv'
  <2>1. q' = q /\ Len(q) = 0
    BY <1>4 DEF Server!Idle
  <2>2. worker' \in [Workers -> {"ready", "waiting", "busy", "gone"}]
    BY <1>4 DEF Server!Idle, PoolShape
  <2>3. Server!In("ready")' \in SUBSET Workers
    BY DEF Server!In
  <2>4. Cardinality(Server!In("ready")') \in Nat
    BY <2>3, ThreadsAssumption, FS_Subset, FS_CardinalityType
  <2> QED
    BY <2>1, <2>2, <2>4 DEF PoolShape, Attended
<1>5. ASSUME NEW w \in Workers, Server!Wake(w) \/ Server!Disconnect(w)
      PROVE  PoolInv'
  <2>1. q' = q /\ worker[w] # "ready" /\ worker' = [worker EXCEPT ![w] = "ready"]
    BY <1>5 DEF Server!Wake, Server!Disconnect
  <2>2. /\ Cardinality(Server!In("ready")') = Cardinality(Server!In("ready")) + 1
        /\ Server!In("waiting")' \subseteq Server!In("waiting")
    BY <2>1, ReadyGains
  <2>3. worker' \in [Workers -> {"ready", "waiting", "busy", "gone"}]
    BY <2>1 DEF PoolShape
  <2>4. Len(q) \in Nat
    BY DEF PoolShape
  <2>5. Attended'
    BY <2>1, <2>2, <2>4, InIsFinite DEF Attended
  <2> QED
    BY <2>1, <2>3, <2>5 DEF PoolShape
<1>6. CASE UNCHANGED server
  BY <1>6 DEF server, PoolShape, Attended, Server!In
<1> QED
  BY <1>1, <1>2, <1>3, <1>4, <1>5, <1>6 DEF Server!Next

\* No wakeup of a worker is lost, whatever the number of workers and clients: a worker
\* sleeps only while as many others are on their way to the queue as it has clients.
THEOREM NoWakeupIsLost == AllSpec => []QueueIsAttended
<1>1. ASSUME AllInit
      PROVE  PoolInv
  <2>1. Server!Init
    BY <1>1 DEF AllInit
  <2>2. q \in Seq(Clients) /\ Server!In("waiting") = {}
    BY <2>1 DEF Server!Init, Server!In
  <2> QED
    BY <2>1, <2>2 DEF Server!Init, PoolInv, PoolShape, Attended
<1>2. [AllNext]_all => Server!Next \/ UNCHANGED server
  BY DEF AllNext, InLocks, InServer, InParallel, InScheduler, InTransactions, all
<1>3. PoolInv /\ [AllNext]_all => PoolInv'
  BY <1>2, PoolStep
<1>4. PoolInv => QueueIsAttended
  <2>1. \A S : Server!Cardinality(S) = Cardinality(S)
    BY DEF Server!Cardinality, Cardinality
  <2> QED
    BY <2>1 DEF PoolInv, Attended, QueueIsAttended, Server!QueueIsAttended
<1> QED
  BY <1>1, <1>3, <1>4, PTL DEF AllSpec
-----------------------------------------------------------------------------
(* The pool of the parallel scans *)

\* parallelScan is called with one part or no rows.
ByCaller(s) == Parallel!Rows(s) = 0 \/ Parallel!Parts(s) <= 1

\* The tasks that are queued or run: their chunk has been submitted and has no result yet.
Pending == {x \in Scans \X Nat : x[2] < next[x[1]] /\ x[2] \notin ready[x[1]]}

Busy == {t \in Parallel!ThreadIds : thread[t] = "busy"}

ScanShape ==
  /\ tasks \in Seq(Scans \X Nat)
  /\ thread \in [Parallel!ThreadIds -> {"none", "ready", "waiting", "busy"}]
  /\ task \in [Parallel!ThreadIds -> (Scans \X Nat) \cup {<<>>}]
  /\ scan \in [Scans -> {"idle", "submitting", "notifying", "collecting", "done", "failed"}]
  /\ input \in [Scans -> Inputs] /\ next \in [Scans -> Nat] /\ ready \in [Scans -> SUBSET Nat]
  /\ count \in [Scans -> [0 .. (Parallel!MostRows - 1) -> Nat]]

\* No task has two places, and what has a result is nowhere any more.
TasksOnce ==
  /\ \A i \in DOMAIN tasks : tasks[i] \in Pending
  /\ \A t \in Busy : task[t] \in Pending
  /\ \A i, j \in DOMAIN tasks : tasks[i] = tasks[j] => i = j
  /\ \A i \in DOMAIN tasks, t \in Busy : tasks[i] # task[t]
  /\ \A t, u \in Busy : task[t] = task[u] => t = u
  /\ \A s \in Scans : ready[s] \subseteq 0 .. (next[s] - 1)

\* The rows that have been processed are those of the chunks with a result, or of the
\* whole table when the caller scanned alone.
RowsCounted ==
  \A s \in Scans :
    IF ByCaller(s)
    THEN /\ scan[s] \in {"idle", "done"} /\ next[s] = 0
         /\ \A r \in DOMAIN count[s] : count[s][r] = IF scan[s] = "done" /\ r < Parallel!Rows(s) THEN 1 ELSE 0
    ELSE \A r \in DOMAIN count[s] :
           count[s][r] = IF \E i \in ready[s] : r \in Parallel!Chunk(s, i) THEN 1 ELSE 0

\* Nothing is submitted before the scan begins; who waits has submitted everything, and
\* who returns has every result.
ScanStages ==
  \A s \in Scans :
    /\ scan[s] \in {"collecting", "done"} /\ ~ByCaller(s) => ~Parallel!More(s)
    /\ scan[s] = "done" /\ ~ByCaller(s) => ready[s] = 0 .. (next[s] - 1)

ScanInv == ScanShape /\ TasksOnce /\ RowsCounted /\ ScanStages

\* Division rounds down.
LEMMA DivBounds ==
  ASSUME NEW a \in Nat, NEW b \in Nat \ {0}
  PROVE  a \div b \in Nat /\ (a \div b) * b <= a /\ a < (a \div b) * b + b
OBVIOUS

\* Multiplication is monotone.
LEMMA TimesGrows ==
  ASSUME NEW m \in Nat, NEW n \in Nat, NEW k \in Nat, m <= n
  PROVE  m * k <= n * k /\ m * k \in Nat /\ n * k \in Nat
<1> DEFINE d == n - m
<1>1. d \in Nat /\ n = m + d
  OBVIOUS
<1> HIDE DEF d
<1>2. n * k = m * k + d * k
  BY <1>1
<1>3. m * k \in Nat /\ d * k \in Nat /\ n * k \in Nat
  BY <1>1
<1> QED
  BY <1>2, <1>3

\* The size of the chunks, rounded up, is enough for all rows.
LEMMA ChunkSizes ==
  ASSUME NEW s \in Scans, input \in [Scans -> Inputs], ~ByCaller(s)
  PROVE  /\ Parallel!Rows(s) \in Nat \ {0} /\ Parallel!Parts(s) \in Nat \ {0}
         /\ Parallel!ChunkSize(s) \in Nat \ {0}
         /\ Parallel!Rows(s) <= Parallel!Parts(s) * Parallel!ChunkSize(s)
<1> DEFINE R == Parallel!Rows(s)
           P == Parallel!Parts(s)
           C == Parallel!ChunkSize(s)
<1>1. R \in Nat /\ P \in Nat
  <2>1. input[s] \in Nat \X Nat
    BY ThreadsAssumption
  <2> QED
    BY <2>1 DEF Parallel!Rows, Parallel!Parts
<1>2. R # 0 /\ P > 1
  BY <1>1 DEF ByCaller
<1>3. C = (R + P - 1) \div P
  BY DEF Parallel!ChunkSize
<1> HIDE DEF R, P, C
<1>4. R + P - 1 \in Nat /\ P \in Nat \ {0}
  BY <1>1, <1>2
<1>5. C \in Nat /\ R + P - 1 < C * P + P
  BY <1>3, <1>4, DivBounds
<1>6. C # 0
  BY <1>1, <1>2, <1>5
<1>7. R <= C * P /\ C * P = P * C
  <2>1. C * P \in Nat /\ C * P = P * C
    BY <1>1, <1>5
  <2> QED
    BY <1>1, <1>5, <2>1
<1> QED
  BY <1>1, <1>2, <1>4, <1>5, <1>6, <1>7 DEF R, P, C

\* The chunks of a scan: their rows, by number.
LEMMA ChunkRows ==
  ASSUME NEW s \in Scans, input \in [Scans -> Inputs], ~ByCaller(s), NEW i \in Nat, NEW r
  PROVE  r \in Parallel!Chunk(s, i) <=>
           /\ r \in Nat /\ i * Parallel!ChunkSize(s) <= r
           /\ r < (i + 1) * Parallel!ChunkSize(s) /\ r < Parallel!Rows(s)
<1> DEFINE C == Parallel!ChunkSize(s)
           R == Parallel!Rows(s)
           a == i * C
           b == (i + 1) * C
           m == Parallel!Min({b, R})
<1>1. C \in Nat /\ R \in Nat
  BY ChunkSizes
<1>2. a \in Nat /\ b \in Nat
  BY <1>1
<1>3. r \in Parallel!Chunk(s, i) <=> r \in a .. (m - 1)
  BY DEF Parallel!Chunk
<1> HIDE DEF a, b, R, C
<1>4. m = IF b <= R THEN b ELSE R
  <2>1. \E x \in {b, R} : \A y \in {b, R} : x <= y
    BY <1>1, <1>2
  <2>2. m \in {b, R} /\ \A y \in {b, R} : m <= y
    BY <2>1 DEF Parallel!Min
  <2> QED
    BY <1>1, <1>2, <2>2
<1> HIDE DEF m
<1>5. r \in a .. (m - 1) <=> r \in Nat /\ a <= r /\ r < b /\ r < R
  BY <1>1, <1>2, <1>4
<1> QED
  BY <1>3, <1>5 DEF a, b, R, C

\* No row is in two chunks.
LEMMA ChunksAreApart ==
  ASSUME NEW s \in Scans, input \in [Scans -> Inputs], ~ByCaller(s), NEW i \in Nat, NEW j \in Nat,
         NEW r \in Parallel!Chunk(s, i), r \in Parallel!Chunk(s, j)
  PROVE  i = j
<1> DEFINE C == Parallel!ChunkSize(s)
<1>1. C \in Nat
  BY ChunkSizes
<1>2. r \in Nat /\ i * C <= r /\ r < (i + 1) * C /\ j * C <= r /\ r < (j + 1) * C
  BY ChunkRows
<1> HIDE DEF C
<1>3. ASSUME NEW m \in Nat, NEW n \in Nat, m < n, r < (m + 1) * C, n * C <= r
      PROVE  FALSE
  <2>1. m + 1 \in Nat /\ m + 1 <= n
    BY <1>3
  <2>2. (m + 1) * C <= n * C /\ (m + 1) * C \in Nat /\ n * C \in Nat
    BY <1>1, <2>1, TimesGrows
  <2> QED
    BY <1>2, <1>3, <2>2
<1>4. i < j \/ j < i \/ i = j
  OBVIOUS
<1> QED
  BY <1>2, <1>3, <1>4

\* Once nothing is left to submit, every row of the table is in a submitted chunk.
LEMMA ChunksCover ==
  ASSUME NEW s \in Scans, input \in [Scans -> Inputs], next \in [Scans -> Nat], ~ByCaller(s),
         ~Parallel!More(s), NEW r \in Nat, r < Parallel!Rows(s)
  PROVE  \E i \in 0 .. (next[s] - 1) : r \in Parallel!Chunk(s, i)
<1> DEFINE C == Parallel!ChunkSize(s)
           R == Parallel!Rows(s)
           P == Parallel!Parts(s)
           i == r \div C
           n == next[s]
<1>1. C \in Nat \ {0} /\ R \in Nat /\ P \in Nat /\ R <= P * C
  BY ChunkSizes
<1>2. n \in Nat /\ (n >= P \/ n * C >= R)
  <2>1. n \in Nat /\ n * C \in Nat
    BY <1>1
  <2>2. ~(n < P /\ n * C < R)
    BY DEF Parallel!More
  <2> HIDE DEF n, P, R, C
  <2> QED
    BY <1>1, <2>1, <2>2
<1>3. i \in Nat /\ i * C <= r /\ r < i * C + C
  BY <1>1, DivBounds
<1> HIDE DEF n, P, R, C, i
<1>4. n * C >= R
  <2>1. CASE n >= P
    <3>1. P * C <= n * C /\ P * C \in Nat /\ n * C \in Nat
      BY <1>1, <1>2, <2>1, TimesGrows
    <3> QED
      BY <1>1, <3>1
  <2> QED
    BY <1>2, <2>1
<1>5. r < R
  BY DEF R
<1>6. i < n
  <2> SUFFICES ASSUME n <= i
               PROVE  FALSE
    BY <1>2, <1>3
  <2>1. n * C <= i * C /\ n * C \in Nat /\ i * C \in Nat
    BY <1>1, <1>2, <1>3, TimesGrows
  <2> QED
    BY <1>1, <1>3, <1>4, <1>5, <2>1
<1>7. i * C + C = (i + 1) * C
  BY <1>1, <1>3
<1>8. r \in Parallel!Chunk(s, i)
  BY <1>3, <1>5, <1>7, ChunkRows DEF C, R
<1>9. i \in 0 .. (n - 1)
  BY <1>2, <1>3, <1>6
<1> QED
  BY <1>8, <1>9 DEF n

\* A scan keeps its rows and parts.
LEMMA SameInput ==
  ASSUME input' = input
  PROVE  /\ \A s \in Scans : /\ ByCaller(s)' <=> ByCaller(s)
                             /\ Parallel!Rows(s)' = Parallel!Rows(s)
                             /\ Parallel!Parts(s)' = Parallel!Parts(s)
                             /\ Parallel!ChunkSize(s)' = Parallel!ChunkSize(s)
                             /\ next'[s] = next[s] => (Parallel!More(s)' <=> Parallel!More(s))
         /\ \A s \in Scans : \A i : Parallel!Chunk(s, i)' = Parallel!Chunk(s, i)
<1>1. ASSUME NEW s \in Scans
      PROVE  /\ Parallel!Rows(s)' = Parallel!Rows(s) /\ Parallel!Parts(s)' = Parallel!Parts(s)
             /\ Parallel!ChunkSize(s)' = Parallel!ChunkSize(s)
  BY DEF Parallel!Rows, Parallel!Parts, Parallel!ChunkSize
<1>2. ASSUME NEW s \in Scans
      PROVE  /\ ByCaller(s)' <=> ByCaller(s)
             /\ next'[s] = next[s] => (Parallel!More(s)' <=> Parallel!More(s))
  BY <1>1 DEF ByCaller, Parallel!More
<1>3. ASSUME NEW s \in Scans, NEW i
      PROVE  Parallel!Chunk(s, i)' = Parallel!Chunk(s, i)
  BY <1>1 DEF Parallel!Chunk
<1> QED
  BY <1>1, <1>2, <1>3

\* What a scan may do without a task: begin, fail, wait once everything is submitted,
\* return once every result is there.
Quiet(s) ==
  \/ scan'[s] = scan[s]
  \/ ~ByCaller(s) /\ scan'[s] \notin {"collecting", "done"}
  \/ ~ByCaller(s) /\ scan'[s] = "collecting" /\ ~Parallel!More(s)
  \/ ~ByCaller(s) /\ scan'[s] = "done" /\ scan[s] = "collecting" /\ ready[s] = 0 .. (next[s] - 1)

\* Steps that move no task.
LEMMA QuietStep ==
  ASSUME ScanInv, UNCHANGED <<input, next, count, ready, task>>, tasks' = tasks \/ tasks' = <<>>,
         thread' \in [Parallel!ThreadIds -> {"none", "ready", "waiting", "busy"}], Busy' \subseteq Busy,
         scan' \in [Scans -> {"idle", "submitting", "notifying", "collecting", "done", "failed"}],
         \A s \in Scans : Quiet(s)
  PROVE  ScanInv'
<1> USE DEF ScanInv
<1>1. tasks' \in Seq(Scans \X Nat) /\ \A i \in DOMAIN tasks' : i \in DOMAIN tasks /\ tasks'[i] = tasks[i]
  <2>1. tasks \in Seq(Scans \X Nat)
    BY DEF ScanShape
  <2>2. CASE tasks' = tasks
    BY <2>1, <2>2
  <2>3. CASE tasks' = <<>>
    <3>1. tasks' \in Seq(Scans \X Nat)
      BY <2>3, EmptySeq
    <3>2. DOMAIN tasks' = {}
      BY <2>3
    <3> QED
      BY <3>1, <3>2
  <2> QED
    BY <2>2, <2>3
<1>2. ScanShape'
  BY <1>1 DEF ScanShape
<1>3. Pending' = Pending
  BY DEF Pending
<1>4. TasksOnce'
  BY <1>1, <1>3 DEF TasksOnce
<1>5. RowsCounted'
  BY SameInput DEF RowsCounted, Quiet
<1>6. ScanStages'
  BY SameInput DEF ScanStages, Quiet
<1> QED
  BY <1>2, <1>4, <1>5, <1>6

\* One scan changes its stage.
LEMMA StageStep ==
  ASSUME ScanInv, NEW s \in Scans, NEW st \in {"idle", "submitting", "notifying", "collecting", "done", "failed"},
         scan' = [scan EXCEPT ![s] = st], scan'[s] = st => Quiet(s)
  PROVE  /\ scan' \in [Scans -> {"idle", "submitting", "notifying", "collecting", "done", "failed"}]
         /\ \A u \in Scans : Quiet(u)
<1>1. scan \in [Scans -> {"idle", "submitting", "notifying", "collecting", "done", "failed"}]
  BY DEF ScanInv, ScanShape
<1> QED
  BY <1>1 DEF Quiet

\* The caller scans alone.
LEMMA ScanAloneStep ==
  ASSUME ScanInv, NEW s \in Scans, Parallel!ScanAlone(s)
  PROVE  ScanInv'
<1> USE DEF ScanInv
<1>1. /\ scan[s] = "idle" /\ ByCaller(s) /\ scan' = [scan EXCEPT ![s] = "done"]
      /\ count' = [count EXCEPT ![s] =
                     [r \in DOMAIN count[s] |-> IF r < Parallel!Rows(s) THEN count[s][r] + 1 ELSE count[s][r]]]
      /\ UNCHANGED <<tasks, thread, task, input, next, ready>>
  BY DEF Parallel!ScanAlone, ByCaller
<1>2. /\ DOMAIN count[s] = 0 .. (Parallel!MostRows - 1) /\ \A r \in DOMAIN count[s] : count[s][r] = 0
  BY <1>1 DEF ScanShape, RowsCounted
<1>3. /\ count' \in [Scans -> [0 .. (Parallel!MostRows - 1) -> Nat]] /\ \A u \in Scans \ {s} : count'[u] = count[u]
      /\ DOMAIN count'[s] = DOMAIN count[s]
      /\ \A r \in DOMAIN count[s] : count'[s][r] = IF r < Parallel!Rows(s) THEN 1 ELSE 0
  BY <1>1, <1>2 DEF ScanShape
<1>4. scan'[s] = "done" /\ \A u \in Scans \ {s} : scan'[u] = scan[u]
  BY <1>1 DEF ScanShape
<1>5. ScanShape'
  BY <1>1, <1>3 DEF ScanShape
<1>6. TasksOnce'
  BY <1>1 DEF TasksOnce, Pending, Busy
<1>7. RowsCounted'
  <2> SUFFICES ASSUME NEW u \in Scans
               PROVE  RowsCounted!(u)'
    BY DEF RowsCounted
  <2>1. CASE u = s
    BY <1>1, <1>3, <1>4, <2>1, SameInput DEF RowsCounted
  <2>2. CASE u # s
    BY <1>1, <1>3, <1>4, <2>2, SameInput DEF RowsCounted
  <2> QED
    BY <2>1, <2>2
<1>8. ScanStages'
  BY <1>1, <1>4, SameInput DEF ScanStages
<1> QED
  BY <1>5, <1>6, <1>7, <1>8

\* submit: a chunk that was not submitted before is queued, or a pool that stops refuses.
LEMMA SubmitStep ==
  ASSUME ScanInv, NEW s \in Scans, Parallel!Submit(s)
  PROVE  ScanInv'
<1> USE DEF ScanInv
<1>1. scan[s] = "submitting" /\ UNCHANGED <<thread, task, input, count, ready>> /\ ~ByCaller(s)
  BY DEF Parallel!Submit, RowsCounted
<1>2. CASE scan' = [scan EXCEPT ![s] = "failed"] /\ UNCHANGED <<tasks, next>>
  <2>1. Busy' = Busy /\ thread' \in [Parallel!ThreadIds -> {"none", "ready", "waiting", "busy"}]
    BY <1>1 DEF Busy, ScanShape
  <2>2. scan'[s] = "failed" => Quiet(s)
    BY <1>1 DEF Quiet
  <2>3. /\ scan' \in [Scans -> {"idle", "submitting", "notifying", "collecting", "done", "failed"}]
        /\ \A u \in Scans : Quiet(u)
    BY <1>2, <2>2, StageStep
  <2> QED
    BY <1>1, <1>2, <2>1, <2>3, QuietStep
<1>3. CASE /\ tasks' = Append(tasks, <<s, next[s]>>) /\ next' = [next EXCEPT ![s] = next[s] + 1]
           /\ scan' = [scan EXCEPT ![s] = "notifying"]
  <2> DEFINE n == Len(tasks)
  <2>0. PICK new : new = <<s, next[s]>>
    OBVIOUS
  <2>1. new \in Scans \X Nat /\ new[1] = s /\ new[2] = next[s] /\ next[s] \in Nat
    BY <2>0 DEF ScanShape
  <2>2. /\ tasks \in Seq(Scans \X Nat) /\ n \in Nat /\ DOMAIN tasks = 1 .. n
    BY LenProperties DEF ScanShape
  <2> HIDE DEF n
  <2>3. /\ tasks' \in Seq(Scans \X Nat) /\ DOMAIN tasks' = 1 .. n + 1
        /\ \A i \in 1 .. n : tasks'[i] = tasks[i]
        /\ tasks'[n + 1] = new
    <3>1. tasks' = Append(tasks, new)
      BY <1>3, <2>0
    <3>2. /\ Append(tasks, new) \in Seq(Scans \X Nat) /\ Len(Append(tasks, new)) = n + 1
          /\ \A i \in 1 .. n : Append(tasks, new)[i] = tasks[i] /\ Append(tasks, new)[n + 1] = new
      BY <2>1, <2>2, AppendProperties DEF n
    <3>3. Append(tasks, new)[n + 1] = new
      BY <2>1, <2>2, AppendProperties DEF n
    <3> QED
      BY <3>1, <3>2, <3>3, LenProperties
  <2>4. \A i \in DOMAIN tasks' : (i \in DOMAIN tasks /\ tasks'[i] = tasks[i]) \/ (i = n + 1 /\ tasks'[i] = new)
    <3>1. \A i \in 1 .. n + 1 : i \in 1 .. n \/ i = n + 1
      BY <2>2
    <3> QED
      BY <2>2, <2>3, <3>1
  <2>5. /\ next' \in [Scans -> Nat] /\ next'[s] = next[s] + 1 /\ \A u \in Scans \ {s} : next'[u] = next[u]
    BY <1>3, <2>1 DEF ScanShape
  <2>6. scan' \in [Scans -> {"idle", "submitting", "notifying", "collecting", "done", "failed"}]
        /\ scan'[s] = "notifying" /\ \A u \in Scans \ {s} : scan'[u] = scan[u]
    BY <1>3 DEF ScanShape
  <2>7. ScanShape'
    BY <1>1, <2>3, <2>5, <2>6 DEF ScanShape
  <2>8. ASSUME NEW t, t \in Pending
        PROVE  t \in Pending' /\ t # new
    <3>1. t \in Scans \X Nat /\ t[1] \in Scans /\ t[2] \in Nat /\ t[2] < next[t[1]]
      BY <2>8 DEF Pending
    <3>2. t[2] < next'[t[1]]
      <4>1. CASE t[1] = s
        BY <2>1, <2>5, <3>1, <4>1
      <4>2. CASE t[1] # s
        BY <2>5, <3>1, <4>2
      <4> QED
        BY <4>1, <4>2
    <3>3. t # new
      BY <2>1, <3>1
    <3> QED
      BY <1>1, <2>8, <3>2, <3>3 DEF Pending
  <2>9. new \in Pending'
    <3>1. new[2] \notin ready[s]
      BY <2>1 DEF TasksOnce
    <3> QED
      BY <1>1, <2>1, <2>5, <3>1 DEF Pending
  <2>10. Busy' = Busy
    BY <1>1 DEF Busy
  <2>11. TasksOnce'
    <3>1. \A i \in DOMAIN tasks' : tasks'[i] \in Pending'
      BY <2>4, <2>8, <2>9 DEF TasksOnce
    <3>2. \A t \in Busy' : task'[t] \in Pending'
      BY <1>1, <2>8, <2>10 DEF TasksOnce
    <3>3. ASSUME NEW i \in DOMAIN tasks', NEW j \in DOMAIN tasks', tasks'[i] = tasks'[j]
          PROVE  i = j
      <4>1. \A m \in DOMAIN tasks : tasks[m] # new
        BY <2>8 DEF TasksOnce
      <4>2. CASE i \in DOMAIN tasks /\ j \in DOMAIN tasks
        BY <2>2, <2>3, <3>3, <4>2 DEF TasksOnce
      <4> QED
        BY <2>4, <3>3, <4>1, <4>2
    <3>4. \A i \in DOMAIN tasks', t \in Busy' : tasks'[i] # task'[t]
      BY <1>1, <2>4, <2>8, <2>10 DEF TasksOnce
    <3>5. \A t, u \in Busy' : task'[t] = task'[u] => t = u
      BY <1>1, <2>10 DEF TasksOnce
    <3>6. ASSUME NEW u \in Scans
          PROVE  ready'[u] \subseteq 0 .. (next'[u] - 1)
      <4>1. next[u] \in Nat /\ next'[u] \in Nat /\ next[u] <= next'[u]
        <5>1. next[u] \in Nat
          BY DEF ScanShape
        <5>2. CASE u = s
          BY <2>1, <2>5, <5>1, <5>2
        <5>3. CASE u # s
          BY <2>5, <5>1, <5>3
        <5> QED
          BY <5>2, <5>3
      <4>2. ready[u] \subseteq 0 .. (next[u] - 1)
        BY DEF TasksOnce
      <4> QED
        BY <1>1, <4>1, <4>2
    <3> QED
      BY <3>1, <3>2, <3>3, <3>4, <3>5, <3>6 DEF TasksOnce
  <2>12. RowsCounted'
    BY <1>1, <2>5, <2>6, SameInput DEF RowsCounted
  <2>13. ScanStages'
    BY <1>1, <2>5, <2>6, SameInput DEF ScanStages
  <2> QED
    BY <2>7, <2>11, <2>12, <2>13
<1> QED
  BY <1>2, <1>3 DEF Parallel!Submit

\* A thread takes the first task.
LEMMA TakeStep ==
  ASSUME ScanInv, NEW t \in Parallel!ThreadIds, Parallel!Take(t)
  PROVE  ScanInv'
<1> USE DEF ScanInv
<1>1. /\ thread[t] = "ready" /\ tasks # <<>> /\ tasks' = Tail(tasks)
      /\ thread' = [thread EXCEPT ![t] = "busy"] /\ task' = [task EXCEPT ![t] = Head(tasks)]
      /\ UNCHANGED <<scan, input, next, count, ready>>
  BY DEF Parallel!Take
<1> DEFINE n == Len(tasks)
<1>2. /\ tasks \in Seq(Scans \X Nat) /\ n \in Nat \ {0} /\ DOMAIN tasks = 1 .. n
  BY <1>1, EmptySeq, LenProperties DEF ScanShape
<1>3. /\ Head(tasks) = tasks[1] /\ 1 \in DOMAIN tasks /\ tasks[1] \in Scans \X Nat
      /\ tasks' \in Seq(Scans \X Nat) /\ DOMAIN tasks' = 1 .. n - 1
      /\ \A i \in DOMAIN tasks' : tasks'[i] = tasks[i + 1] /\ i + 1 \in DOMAIN tasks /\ i \in Nat /\ i + 1 # 1
  <2>1. Head(tasks) = tasks[1] /\ 1 \in DOMAIN tasks /\ tasks[1] \in Scans \X Nat
    BY <1>2
  <2>2. /\ Tail(tasks) \in Seq(Scans \X Nat) /\ Len(Tail(tasks)) = n - 1
        /\ \A i \in 1 .. n - 1 : Tail(tasks)[i] = tasks[i + 1]
    BY <1>1, <1>2, HeadTailProperties
  <2>3. \A i \in 1 .. n - 1 : i + 1 \in 1 .. n /\ i \in Nat /\ i + 1 # 1
    BY <1>2
  <2> QED
    BY <1>1, <1>2, <2>1, <2>2, <2>3, LenProperties
<1> HIDE DEF n
<1>4. /\ thread' \in [Parallel!ThreadIds -> {"none", "ready", "waiting", "busy"}]
      /\ task' \in [Parallel!ThreadIds -> (Scans \X Nat) \cup {<<>>}]
      /\ task'[t] = tasks[1] /\ \A u \in Parallel!ThreadIds \ {t} : task'[u] = task[u] /\ thread'[u] = thread[u]
      /\ thread'[t] = "busy"
  BY <1>1, <1>3 DEF ScanShape
<1>5. Busy' = Busy \cup {t} /\ t \notin Busy
  BY <1>1, <1>4 DEF Busy
<1>6. ScanShape'
  BY <1>1, <1>3, <1>4 DEF ScanShape
<1>7. Pending' = Pending
  BY <1>1 DEF Pending
<1>8. TasksOnce'
  <2>1. \A u \in Busy : u \in Parallel!ThreadIds \ {t} /\ task'[u] = task[u]
    BY <1>4, <1>5 DEF Busy
  <2>2. \A i \in DOMAIN tasks' : tasks'[i] \in Pending' /\ tasks'[i] # tasks[1]
    BY <1>3, <1>7 DEF TasksOnce
  <2>3. \A u \in Busy' : task'[u] \in Pending'
    BY <1>3, <1>4, <1>5, <1>7, <2>1 DEF TasksOnce
  <2>4. ASSUME NEW i \in DOMAIN tasks', NEW j \in DOMAIN tasks', tasks'[i] = tasks'[j]
        PROVE  i = j
    <3>1. i + 1 = j + 1
      BY <1>3, <2>4 DEF TasksOnce
    <3>2. i \in Nat /\ j \in Nat
      BY <1>3
    <3> QED
      BY <3>1, <3>2
  <2>5. \A i \in DOMAIN tasks', u \in Busy' : tasks'[i] # task'[u]
    BY <1>3, <1>4, <1>5, <2>1, <2>2 DEF TasksOnce
  <2>6. \A u, v \in Busy' : task'[u] = task'[v] => u = v
    BY <1>3, <1>4, <1>5, <2>1 DEF TasksOnce
  <2> QED
    BY <1>1, <2>2, <2>3, <2>4, <2>5, <2>6 DEF TasksOnce
<1>9. RowsCounted' /\ ScanStages'
  BY <1>1, SameInput DEF RowsCounted, ScanStages
<1> QED
  BY <1>6, <1>8, <1>9

\* A thread runs its task: the chunk's rows are processed for the first time.
LEMMA RunStep ==
  ASSUME ScanInv, NEW t \in Parallel!ThreadIds, Parallel!Run(t)
  PROVE  ScanInv'
<1> USE DEF ScanInv
<1> DEFINE s == task[t][1]
           i == task[t][2]
<1>1. /\ thread[t] = "busy"
      /\ count' = [count EXCEPT ![s] = [r \in DOMAIN count[s] |->
                     IF r \in Parallel!Chunk(s, i) THEN count[s][r] + 1 ELSE count[s][r]]]
      /\ ready' = [ready EXCEPT ![s] = ready[s] \cup {i}]
      /\ thread' = [thread EXCEPT ![t] = "ready"] /\ task' = [task EXCEPT ![t] = <<>>]
      /\ UNCHANGED <<tasks, scan, input, next>>
  BY DEF Parallel!Run, Parallel!None
<1>2. t \in Busy
  BY <1>1 DEF Busy
<1>3. /\ task[t] \in Scans \X Nat /\ task[t] = <<s, i>> /\ s \in Scans /\ i \in Nat /\ i < next[s] /\ i \notin ready[s]
  BY <1>2 DEF TasksOnce, Pending
<1>4. ~ByCaller(s) /\ next[s] \in Nat
  <2>1. next[s] \in Nat /\ next[s] # 0
    BY <1>3 DEF ScanShape
  <2> QED
    BY <1>3, <2>1 DEF RowsCounted
<1>5. /\ ready' \in [Scans -> SUBSET Nat] /\ ready'[s] = ready[s] \cup {i}
      /\ \A u \in Scans \ {s} : ready'[u] = ready[u] /\ count'[u] = count[u]
      /\ count' \in [Scans -> [0 .. (Parallel!MostRows - 1) -> Nat]] /\ DOMAIN count'[s] = DOMAIN count[s]
      /\ \A r \in DOMAIN count[s] :
           count'[s][r] = IF r \in Parallel!Chunk(s, i) THEN count[s][r] + 1 ELSE count[s][r]
  <2> HIDE DEF s, i
  <2> DEFINE f == [r \in DOMAIN count[s] |->
                     IF r \in Parallel!Chunk(s, i) THEN count[s][r] + 1 ELSE count[s][r]]
  <2>1. /\ ready' \in [Scans -> SUBSET Nat] /\ ready'[s] = ready[s] \cup {i}
        /\ \A u \in Scans \ {s} : ready'[u] = ready[u]
    BY <1>1, <1>3 DEF ScanShape
  <2>2. f \in [0 .. (Parallel!MostRows - 1) -> Nat]
    <3>1. count[s] \in [0 .. (Parallel!MostRows - 1) -> Nat]
      BY <1>3 DEF ScanShape
    <3>2. ASSUME NEW r \in DOMAIN count[s]
          PROVE  count[s][r] \in Nat /\ count[s][r] + 1 \in Nat
      <4> DEFINE c == count[s][r]
      <4>1. c \in Nat
        BY <3>1
      <4> HIDE DEF c
      <4>2. c + 1 \in Nat
        BY <4>1
      <4> QED
        BY <4>1, <4>2 DEF c
    <3> QED
      BY <3>1, <3>2
  <2>3. /\ count' = [count EXCEPT ![s] = f] /\ count \in [Scans -> [0 .. (Parallel!MostRows - 1) -> Nat]]
    BY <1>1 DEF ScanShape
  <2>4. /\ DOMAIN f = DOMAIN count[s]
        /\ \A r \in DOMAIN count[s] :
             f[r] = IF r \in Parallel!Chunk(s, i) THEN count[s][r] + 1 ELSE count[s][r]
    OBVIOUS
  <2> HIDE DEF f
  <2>5. /\ count' \in [Scans -> [0 .. (Parallel!MostRows - 1) -> Nat]] /\ count'[s] = f
        /\ \A u \in Scans \ {s} : count'[u] = count[u]
    BY <1>3, <2>2, <2>3
  <2> QED
    BY <2>1, <2>4, <2>5
<1>6. /\ thread' \in [Parallel!ThreadIds -> {"none", "ready", "waiting", "busy"}]
      /\ task' \in [Parallel!ThreadIds -> (Scans \X Nat) \cup {<<>>}]
      /\ \A u \in Parallel!ThreadIds \ {t} : task'[u] = task[u] /\ thread'[u] = thread[u]
      /\ thread'[t] = "ready"
  BY <1>1 DEF ScanShape
<1> HIDE DEF s, i
<1>7. Busy' = Busy \ {t}
  BY <1>6 DEF Busy
<1>8. ScanShape'
  BY <1>1, <1>5, <1>6 DEF ScanShape
<1>9. ASSUME NEW x, x \in Pending, x # task[t]
      PROVE  x \in Pending'
  <2>1. x \in Scans \X Nat /\ x = <<x[1], x[2]>> /\ x[1] \in Scans /\ x[2] < next[x[1]] /\ x[2] \notin ready[x[1]]
    BY <1>9 DEF Pending
  <2>2. x[1] = s => x[2] # i
    BY <1>3, <1>9, <2>1
  <2> QED
    BY <1>1, <1>5, <2>1, <2>2 DEF Pending
<1>10. TasksOnce'
  <2>1. \A m \in DOMAIN tasks' : tasks'[m] \in Pending'
    BY <1>1, <1>2, <1>9 DEF TasksOnce
  <2>2. \A u \in Busy' : u \in Busy /\ task'[u] = task[u] /\ task[u] # task[t]
    BY <1>2, <1>6, <1>7 DEF TasksOnce, Busy
  <2>3. \A u \in Busy' : task'[u] \in Pending'
    BY <1>9, <2>2 DEF TasksOnce
  <2>4. ASSUME NEW u \in Scans
        PROVE  ready'[u] \subseteq 0 .. (next'[u] - 1)
    <3>1. i \in 0 .. (next[s] - 1)
      BY <1>3, <1>4
    <3> QED
      BY <1>1, <1>5, <3>1 DEF TasksOnce
  <2> QED
    BY <1>1, <2>1, <2>2, <2>3, <2>4 DEF TasksOnce
<1>11. RowsCounted'
  <2>1. ASSUME NEW r \in DOMAIN count[s]
        PROVE  count'[s][r] = IF \E j \in ready'[s] : r \in Parallel!Chunk(s, j) THEN 1 ELSE 0
    <3>1. count[s][r] = IF \E j \in ready[s] : r \in Parallel!Chunk(s, j) THEN 1 ELSE 0
      BY <1>3, <1>4 DEF RowsCounted
    <3>2. CASE r \in Parallel!Chunk(s, i)
      <4>1. ASSUME NEW j \in ready[s], r \in Parallel!Chunk(s, j)
            PROVE  FALSE
        <5>1. j \in Nat /\ input \in [Scans -> Inputs]
          BY <1>3 DEF ScanShape
        <5>2. i = j
          BY <1>3, <1>4, <3>2, <4>1, <5>1, ChunksAreApart
        <5> QED
          BY <1>3, <5>2
      <4>2. count[s][r] = 0
        BY <3>1, <4>1
      <4> QED
        BY <1>5, <3>2, <4>2
    <3>3. CASE r \notin Parallel!Chunk(s, i)
      BY <1>5, <3>1, <3>3
    <3> QED
      BY <3>2, <3>3
  <2>2. ASSUME NEW u \in Scans
        PROVE  RowsCounted!(u)'
    <3>1. CASE u = s
      BY <1>1, <1>4, <1>5, <2>1, <3>1, SameInput DEF RowsCounted
    <3>2. CASE u # s
      BY <1>1, <1>5, <3>2, SameInput DEF RowsCounted
    <3> QED
      BY <3>1, <3>2
  <2> QED
    BY <2>2 DEF RowsCounted
<1>12. ScanStages'
  <2>1. i \in 0 .. (next[s] - 1)
    BY <1>3, <1>4
  <2> QED
    BY ZenonT(60), <1>1, <1>5, <2>1, SameInput DEF ScanStages
<1> QED
  BY <1>8, <1>10, <1>11, <1>12

\* A step that changes only what threads do between tasks.
LEMMA ThreadsStep ==
  ASSUME ScanInv, UNCHANGED <<input, next, count, ready, task, scan>>, tasks' = tasks \/ tasks' = <<>>,
         thread' \in [Parallel!ThreadIds -> {"none", "ready", "waiting", "busy"}], Busy' \subseteq Busy
  PROVE  ScanInv'
<1>1. scan' \in [Scans -> {"idle", "submitting", "notifying", "collecting", "done", "failed"}]
  BY DEF ScanInv, ScanShape
<1>2. \A s \in Scans : Quiet(s)
  BY DEF Quiet
<1> QED
  BY <1>1, <1>2, QuietStep

\* A step that changes only the stage of one scan.
LEMMA StageOnlyStep ==
  ASSUME ScanInv, UNCHANGED <<input, next, count, ready, task, tasks>>,
         thread' \in [Parallel!ThreadIds -> {"none", "ready", "waiting", "busy"}], Busy' \subseteq Busy,
         NEW s \in Scans, NEW st \in {"idle", "submitting", "notifying", "collecting", "done", "failed"},
         scan' = [scan EXCEPT ![s] = st], scan'[s] = st => Quiet(s)
  PROVE  ScanInv'
<1>1. /\ scan' \in [Scans -> {"idle", "submitting", "notifying", "collecting", "done", "failed"}]
      /\ \A u \in Scans : Quiet(u)
  BY StageStep
<1> QED
  BY <1>1, QuietStep

\* Every step of the pool preserves the invariant of the scans.
LEMMA ScanStep ==
  ASSUME ScanInv, Parallel!Next \/ UNCHANGED parallel
  PROVE  ScanInv'
<1>1. /\ thread \in [Parallel!ThreadIds -> {"none", "ready", "waiting", "busy"}]
      /\ \A s \in Scans : scan[s] \in {"submitting", "notifying", "collecting"} => ~ByCaller(s)
  BY DEF ScanInv, ScanShape, RowsCounted
<1>2. CASE UNCHANGED parallel
  BY <1>1, <1>2, ThreadsStep DEF parallel, Busy
<1>3. CASE Parallel!Resize
  BY <1>1, <1>3, ThreadsStep DEF Parallel!Resize, Busy
<1>4. CASE Parallel!Joined
  BY <1>1, <1>4, ThreadsStep DEF Parallel!Joined, Busy
<1>5. ASSUME NEW n \in Parallel!ThreadIds, Parallel!StartThreads(n)
      PROVE  ScanInv'
  BY <1>5, ThreadsStep DEF Parallel!StartThreads, Busy
<1>6. ASSUME NEW t \in Parallel!ThreadIds, Parallel!Idle(t)
      PROVE  ScanInv'
  BY <1>1, <1>6, ThreadsStep DEF Parallel!Idle, Busy
<1>7. ASSUME NEW s \in Scans, Parallel!Begin(s)
      PROVE  ScanInv'
  <2>1. scan' = [scan EXCEPT ![s] = "submitting"] /\ thread' = thread /\ UNCHANGED <<input, next, count, ready, task, tasks>>
    BY <1>7 DEF Parallel!Begin
  <2>2. ~ByCaller(s)
    <3>1. Parallel!Rows(s) \in Nat /\ Parallel!Parts(s) \in Nat
      BY ThreadsAssumption DEF ScanInv, ScanShape, Parallel!Rows, Parallel!Parts
    <3>2. Parallel!Rows(s) > 0 /\ Parallel!Parts(s) > 1
      BY <1>7 DEF Parallel!Begin
    <3> QED
      BY <3>1, <3>2 DEF ByCaller
  <2> QED
    BY <1>1, <2>1, <2>2, StageOnlyStep DEF Busy, Quiet
<1>8. ASSUME NEW s \in Scans, Parallel!Notify(s)
      PROVE  ScanInv'
  <2>1. scan' = [scan EXCEPT ![s] = "submitting"] /\ UNCHANGED <<input, next, count, ready, task, tasks>>
    BY <1>8 DEF Parallel!Notify
  <2>2. /\ thread' \in [Parallel!ThreadIds -> {"none", "ready", "waiting", "busy"}] /\ Busy' \subseteq Busy
    BY <1>1, <1>8 DEF Parallel!Notify, Parallel!In, Busy
  <2>3. ~ByCaller(s)
    BY <1>1, <1>8 DEF Parallel!Notify
  <2>4. scan'[s] = "submitting" => Quiet(s)
    BY <2>3 DEF Quiet
  <2> QED
    BY <2>1, <2>2, <2>4, StageOnlyStep
<1>9. ASSUME NEW s \in Scans, Parallel!Await(s)
      PROVE  ScanInv'
  <2>1. /\ scan' = [scan EXCEPT ![s] = "collecting"] /\ thread' = thread /\ UNCHANGED <<input, next, count, ready, task, tasks>>
        /\ ~ByCaller(s) /\ ~Parallel!More(s)
    BY <1>1, <1>9 DEF Parallel!Await
  <2>2. scan'[s] = "collecting" => Quiet(s)
    BY <2>1 DEF Quiet
  <2> QED
    BY <1>1, <2>1, <2>2, StageOnlyStep DEF Busy
<1>10. ASSUME NEW s \in Scans, Parallel!Combine(s)
       PROVE  ScanInv'
  <2>1. /\ scan' = [scan EXCEPT ![s] = "done"] /\ thread' = thread /\ UNCHANGED <<input, next, count, ready, task, tasks>>
        /\ ~ByCaller(s) /\ scan[s] = "collecting" /\ ready[s] = 0 .. (next[s] - 1)
    BY <1>1, <1>10 DEF Parallel!Combine
  <2>2. scan'[s] = "done" => Quiet(s)
    BY <2>1 DEF Quiet
  <2> QED
    BY <1>1, <2>1, <2>2, StageOnlyStep DEF Busy
<1> QED
  BY <1>2, <1>3, <1>4, <1>5, <1>6, <1>7, <1>8, <1>9, <1>10, ScanAloneStep, SubmitStep, TakeStep, RunStep
     DEF Parallel!Next

\* The pool and its scans begin with nothing submitted and nothing processed.
LEMMA ScanInvInit ==
  ASSUME Parallel!Init
  PROVE  ScanInv
<1> USE DEF Parallel!Init
<1>1. ScanShape
  <2>1. tasks \in Seq(Scans \X Nat)
    BY EmptySeq
  <2>2. thread \in [Parallel!ThreadIds -> {"none", "ready", "waiting", "busy"}]
    OBVIOUS
  <2>3. task \in [Parallel!ThreadIds -> (Scans \X Nat) \cup {<<>>}]
    BY DEF Parallel!None
  <2>4. count \in [Scans -> [0 .. (Parallel!MostRows - 1) -> Nat]]
    OBVIOUS
  <2> QED
    BY <2>1, <2>2, <2>3, <2>4 DEF ScanShape
<1>2. DOMAIN tasks = {} /\ Busy = {}
  BY DEF Busy
<1>3. TasksOnce
  BY <1>2 DEF TasksOnce
<1>4. RowsCounted
  BY DEF RowsCounted
<1>5. ScanStages
  BY DEF ScanStages
<1> QED
  BY <1>1, <1>3, <1>4, <1>5 DEF ScanInv

\* What the invariant says of the scans that have returned.
LEMMA ScansComplete ==
  ASSUME ScanInv
  PROVE  ScanSeesEveryRowOnce
<1> USE DEF ScanInv
<1> SUFFICES ASSUME NEW s \in Scans, scan[s] = "done", NEW r \in DOMAIN count[s]
             PROVE  count[s][r] = IF r < Parallel!Rows(s) THEN 1 ELSE 0
  BY DEF ScanSeesEveryRowOnce, Parallel!ScanSeesEveryRowOnce
<1>1. CASE ByCaller(s)
  BY <1>1 DEF RowsCounted
<1>2. CASE ~ByCaller(s)
  <2>1. r \in Nat
    <3>1. PICK b : DOMAIN count[s] = 0 .. b
      BY DEF ScanShape
    <3> QED
      BY <3>1
  <2>2. ready[s] = 0 .. (next[s] - 1) /\ ~Parallel!More(s)
    BY <1>2 DEF ScanStages
  <2>3. count[s][r] = IF \E i \in ready[s] : r \in Parallel!Chunk(s, i) THEN 1 ELSE 0
    BY <1>2 DEF RowsCounted
  <2>4. input \in [Scans -> Inputs] /\ next \in [Scans -> Nat] /\ ready[s] \subseteq Nat
    BY DEF ScanShape
  <2>5. r < Parallel!Rows(s) => \E i \in ready[s] : r \in Parallel!Chunk(s, i)
    BY <1>2, <2>1, <2>2, <2>4, ChunksCover
  <2>6. (\E i \in ready[s] : r \in Parallel!Chunk(s, i)) => r < Parallel!Rows(s)
    BY <1>2, <2>4, ChunkRows
  <2> QED
    BY <2>3, <2>5, <2>6
<1> QED
  BY <1>1, <1>2

\* The invariant of the scans holds throughout.
THEOREM ScansAreExact == AllSpec => []ScanInv
<1>1. AllInit => ScanInv
  BY ScanInvInit DEF AllInit
<1>2. ScanInv /\ [AllNext]_all => ScanInv'
  <2> SUFFICES ASSUME ScanInv, [AllNext]_all
               PROVE  ScanInv'
    OBVIOUS
  <2>1. Parallel!Next \/ UNCHANGED parallel
    BY DEF AllNext, all, InLocks, InServer, InParallel, InScheduler, InTransactions
  <2> QED
    BY <2>1, ScanStep
<1> QED
  BY <1>1, <1>2, PTL DEF AllSpec

\* A parallel scan that returns has seen every row once, for every number of rows, parts,
\* threads and scans, whenever the pool is resized.
THEOREM ScansSeeEveryRowOnce == AllSpec => []ScanSeesEveryRowOnce
<1>1. ScanInv => ScanSeesEveryRowOnce
  BY ScansComplete
<1> QED
  BY <1>1, ScansAreExact, PTL
-----------------------------------------------------------------------------
(* The sessions and their transactions *)

Sess == INSTANCE TransactionsProofs WITH
  Tables <- {"p"}, Parent <- "p", Child <- "c", Keys <- {"k1", "k2"}, Vals <- {"v1", "v2"},
  Unique <- {}, OnDelete <- "NONE", Names <- {}

\* What TransactionsProofs assumes holds of this composition.
LEMMA SessAssumptions ==
  /\ Ops \subseteq Sess!BufferedOp /\ {} \cap {"p"} = {}
  /\ "NONE" \in {"NONE", "CASCADE", "RESTRICT"}
  /\ Sess!IsFiniteSet({"p"}) /\ {MaxOps, MaxRows, MaxTxId} \subseteq Nat
<1>1. IsFiniteSet({"p"})
  BY FS_Singleton
<1>2. Sess!IsFiniteSet({"p"})
  BY <1>1 DEF Sess!IsFiniteSet, IsFiniteSet
<1>3. Ops \subseteq Sess!BufferedOp
  <2>1. \A ty \in Sess!OpTypes, k \in {"k1", "k2"}, v \in {"v1", "v2"} : Op(ty, k, v) \in Sess!BufferedOp
    BY DEF Op, Sess!BufferedOp
  <2>2. \A op \in Sess!BufferedOp : /\ [op EXCEPT !.set = "key"] \in Sess!BufferedOp
                                    /\ [op EXCEPT !.quoted = TRUE] \in Sess!BufferedOp
    BY DEF Sess!BufferedOp
  <2>3. {"INSERT", "UPDATE_WHERE", "UPDATE_ALL", "DELETE_WHERE"} \subseteq Sess!OpTypes
    BY DEF Sess!OpTypes
  <2> QED
    BY <2>1, <2>2, <2>3 DEF Ops
<1> QED
  BY <1>2, <1>3, SessionsAssumption

\* Sess has the initial states and the steps of Tx: it extends the same module.
LEMMA SameTransactions ==
  /\ Tx!Init => Sess!Init
  /\ Tx!Next => Sess!Next
<1>1. Tx!Init => Sess!Init
  BY DEF Tx!Init, Tx!NoTx, Tx!TM!Init, Sess!Init, Sess!NoTx, Sess!TM!Init
<1>2. Tx!Next => Sess!Next
  BY Zenon DEF Tx!NoTx, Tx!Alive, Tx!InsertFails, Tx!NewRow, Tx!Set, Tx!Stamps, Tx!Stamp, Tx!Matches, Tx!Update,
    Tx!Delete, Tx!ApplyOp, Tx!ApplyNext, Tx!ApplyAll, Tx!DeletedKeys, Tx!Referenced,
    Tx!CascadeThrows, Tx!Cascade, Tx!ForeignKeyHolds, Tx!HasRoom, Tx!BufferOp, Tx!DirectOp,
    Tx!TruncateTable, Tx!BeginTransaction, Tx!ApplyAndCommit, Tx!ApplyAndCommitThrows,
    Tx!RollbackTransaction, Tx!CreateSavepoint, Tx!Latest, Tx!Known, Tx!RollbackToSavepoint,
    Tx!ReleaseSavepoint, Tx!Reclaimable, Tx!VacuumAll, Tx!Next, Tx!mgr, Tx!Picked, Tx!Nth,
    Tx!Ascending, Tx!Cardinality, Tx!TM!BeginTx, Tx!TM!CommitTx, Tx!TM!RollbackTx,
    Tx!TM!BelowHorizon, Tx!TM!IsCommitted, Tx!TM!Below, Tx!TM!Pruned, Tx!TM!Cardinality,
    Sess!NoTx, Sess!Alive, Sess!InsertFails, Sess!NewRow, Sess!Set, Sess!Stamps, Sess!Stamp,
    Sess!Matches, Sess!Update, Sess!Delete, Sess!ApplyOp, Sess!ApplyNext, Sess!ApplyAll,
    Sess!DeletedKeys, Sess!Referenced, Sess!CascadeThrows, Sess!Cascade,
    Sess!ForeignKeyHolds, Sess!HasRoom, Sess!BufferOp, Sess!DirectOp, Sess!TruncateTable,
    Sess!BeginTransaction, Sess!ApplyAndCommit, Sess!ApplyAndCommitThrows,
    Sess!RollbackTransaction, Sess!CreateSavepoint, Sess!Latest, Sess!Known,
    Sess!RollbackToSavepoint, Sess!ReleaseSavepoint, Sess!Reclaimable, Sess!VacuumAll,
    Sess!Next, Sess!mgr, Sess!Picked, Sess!Nth, Sess!Ascending, Sess!Cardinality,
    Sess!TM!BeginTx, Sess!TM!CommitTx, Sess!TM!RollbackTx, Sess!TM!BelowHorizon,
    Sess!TM!IsCommitted, Sess!TM!Below, Sess!TM!Pruned, Sess!TM!Cardinality
<1> QED
  BY <1>1, <1>2

\* Likewise of the abstract store.
LEMMA SameStore ==
  /\ Sess!Store!Init => Tx!Store!Init
  /\ [Sess!Store!Next]_(Sess!Store!vars) => [Tx!Store!Next]_(Tx!Store!vars)
<1>1. Sess!Store!Init => Tx!Store!Init
  BY DEF Tx!Store!Init, Tx!View, Tx!SelectWhere, Tx!Alive, Tx!Picked, Tx!Nth, Tx!Ascending,
    Tx!Cardinality, Sess!Store!Init, Sess!View, Sess!SelectWhere, Sess!Alive, Sess!Picked,
    Sess!Nth, Sess!Ascending, Sess!Cardinality
<1>2. Sess!Store!Next => Tx!Store!Next
  BY Zenon DEF Tx!View, Tx!SelectWhere, Tx!Alive, Tx!Picked, Tx!Nth, Tx!Ascending, Tx!Cardinality,
    Tx!Store!Set, Tx!Store!Effect, Tx!Store!EffectAtCommit,
    Tx!Store!Run, Tx!Store!RunAtCommit, Tx!Store!RunAll, Tx!Store!Begin, Tx!Store!AutoCommit,
    Tx!Store!Defer, Tx!Store!Forget, Tx!Store!Truncate, Tx!Store!Commit, Tx!Store!Rollback,
    Tx!Store!Next, Tx!Store!Picked, Tx!Store!Nth, Tx!Store!Ascending, Tx!Store!Cardinality,
    Sess!View, Sess!SelectWhere, Sess!Alive, Sess!Picked, Sess!Nth, Sess!Ascending,
    Sess!Cardinality, Sess!Store!Set, Sess!Store!Effect, Sess!Store!EffectAtCommit,
    Sess!Store!Run, Sess!Store!RunAtCommit, Sess!Store!RunAll,
    Sess!Store!Begin, Sess!Store!AutoCommit, Sess!Store!Defer, Sess!Store!Forget,
    Sess!Store!Truncate, Sess!Store!Commit, Sess!Store!Rollback, Sess!Store!Next,
    Sess!Store!Picked, Sess!Store!Nth, Sess!Store!Ascending, Sess!Store!Cardinality
<1>3. UNCHANGED Sess!Store!vars => UNCHANGED Tx!Store!vars
  BY Zenon DEF Tx!View, Tx!SelectWhere, Tx!Alive, Tx!Picked, Tx!Nth, Tx!Ascending, Tx!Cardinality,
    Tx!Store!vars, Sess!View, Sess!SelectWhere, Sess!Alive, Sess!Picked, Sess!Nth,
    Sess!Ascending, Sess!Cardinality, Sess!Store!vars
<1> QED
  BY SMTT(40), <1>1, <1>2, <1>3

\* The sessions of the server that read with a WHERE see one transaction after the other, each
\* as a whole, however their statements, the stamps and VACUUM interleave (applyAndCommit,
\* vacuumAll, selectWhere).
THEOREM TransactionsAreSerial == AllSpec => ImplementsSerialStore
<1>1. AllInit => Sess!Init
  BY SameTransactions DEF AllInit
<1>2. [AllNext]_all => [Sess!Next]_(Sess!vars)
  <2>1. [AllNext]_all => Tx!Next \/ UNCHANGED transactions
    BY DEF AllNext, all, InLocks, InServer, InParallel, InScheduler, InTransactions
  <2>2. UNCHANGED transactions => UNCHANGED Sess!vars
    BY DEF transactions, Sess!vars, Sess!mgr
  <2> QED
    BY <2>1, <2>2, SameTransactions
<1>3. Sess!Init => Sess!Inv
  BY SessAssumptions, Sess!InvInit
<1>4. Sess!Inv /\ [Sess!Next]_(Sess!vars) => Sess!Inv'
  BY SessAssumptions, Sess!InvStep
<1>5. Sess!Inv /\ Sess!Ids /\ [Sess!Next]_(Sess!vars) => [Sess!Store!Next]_(Sess!Store!vars)
  BY SessAssumptions, Sess!StoreStep
<1>7. Sess!Init => Sess!Ids
  BY DEF Sess!Init, Sess!TM!Init, Sess!Ids, Sess!NoTx
<1>8. Sess!Inv /\ Sess!Ids /\ [Sess!Next]_(Sess!vars) => Sess!Ids'
  BY SessAssumptions, Sess!ManagerStep
<1>6. Sess!Init => Sess!Store!Init
  BY SessAssumptions, Sess!StoreInit
<1> QED
  BY <1>1, <1>2, <1>3, <1>4, <1>5, <1>6, <1>7, <1>8, SameStore, PTL DEF AllSpec, ImplementsSerialStore, Tx!ImplementsSerialStore, Tx!Store!Spec
-----------------------------------------------------------------------------
(* The events of the scheduler *)

Entry == [name : Names, sched : UNION {Schedules[n] : n \in Names}, nextRun : Nat, enabled : BOOLEAN]

\* The least time between two runs of a recurring event.
Gap(s) == IF s.hasAt THEN 1 ELSE s.interval

\* An entry that ran at time last is not due before it may run again.
Spaced(e, last) ==
  last # -1 => IF e.sched.recurring THEN e.nextRun >= last + Gap(e.sched) ELSE ~e.enabled

\* A name is used once.
Named(evs) == evs \in Seq(Entry) /\ \A i, j \in DOMAIN evs : evs[i].name = evs[j].name => i = j

\* All entries are spaced from the last runs r.
AllSpaced(evs, r) == \A i \in DOMAIN evs : Spaced(evs[i], r[evs[i].name])

\* Memory and file agree with what has run, as long as no save was lost.
EventInv ==
  /\ now \in Nat /\ ran \in [Names -> Int]
  /\ Named(events) /\ Named(file)
  /\ ~lost => AllSpaced(events, ran) /\ AllSpaced(file, ran)

\* A schedule is one of its name's.
LEMMA ScheduleParts ==
  ASSUME NEW s \in UNION {Schedules[n] : n \in Names}
  PROVE  s.recurring \in BOOLEAN /\ s.interval \in Nat /\ s.hasAt \in BOOLEAN /\ s.at \in Nat
BY SchedulesAssumption

\* A recurring event is next due after its gap, when AT goes with whole days.
LEMMA NextRunIsLater ==
  ASSUME NEW s \in UNION {Schedules[n] : n \in Names}, now \in Nat
  PROVE  /\ Scheduler!NextRun(s) \in Nat
         /\ (s.hasAt => s.interval >= Day) => Scheduler!NextRun(s) >= now + Gap(s)
<1>1. s.interval \in Nat /\ s.hasAt \in BOOLEAN /\ s.at \in Nat /\ Day \in Nat \ {0}
  BY ScheduleParts, SchedulesAssumption
<1>2. PICK m : m = now % Day
  OBVIOUS
<1>3. m \in Nat /\ m < Day /\ m <= now
  BY <1>1, <1>2
<1>4. PICK at, iv : at = s.at /\ iv = s.interval
  OBVIOUS
<1>5. at \in Nat /\ iv \in Nat
  BY <1>1, <1>4
<1>6. CASE s.hasAt
  <2>1. PICK c : c = now - m + at
    OBVIOUS
  <2>2. c \in Nat /\ c > now - Day
    BY <1>1, <1>3, <1>5, <2>1
  <2>3. Scheduler!NextRun(s) = IF c <= now THEN c + iv ELSE c
    BY <1>2, <1>4, <1>6, <2>1 DEF Scheduler!NextRun, Scheduler!AtTime
  <2>4. Scheduler!NextRun(s) \in Nat
    BY <1>5, <2>2, <2>3
  <2>5. iv >= Day => Scheduler!NextRun(s) >= now + 1
    BY <1>1, <1>5, <2>2, <2>3
  <2> QED
    BY <1>4, <1>6, <2>4, <2>5 DEF Gap
<1>7. CASE ~s.hasAt
  BY <1>1, <1>7 DEF Scheduler!NextRun, Gap
<1> QED
  BY <1>1, <1>6, <1>7

\* The scheduler's Picked is the one of Selections.
LEMMA SchedulerPicks == \A s, P : Scheduler!Picked(s, P) = Picked(s, P)
BY DEF Picked, Nth, Scheduler!Picked, Scheduler!Nth, Cardinality, Scheduler!Cardinality

\* Some of the events, in order.
LEMMA PickedNamed ==
  ASSUME NEW evs, Named(evs), NEW P \in SUBSET DOMAIN evs
  PROVE  /\ Named(Picked(evs, P))
         /\ \A i \in DOMAIN Picked(evs, P) : \E k \in P : Picked(evs, P)[i] = evs[k]
<1>1. evs \in Seq(Entry)
  BY DEF Named
<1>2. PICK p, a : p = Picked(evs, P) /\ a = Ascending(P)
  OBVIOUS
<1>3. /\ IsFiniteSet(P) /\ P \in SUBSET Nat /\ p \in Seq(Entry) /\ DOMAIN p = 1 .. Cardinality(P)
      /\ Cardinality(P) \in Nat
      /\ \A i \in DOMAIN p : a[i] \in P /\ p[i] = evs[a[i]]
  BY SMTT(40), <1>1, <1>2, PickedReads, PickedShape
<1>4. \A i, j \in DOMAIN p : a[i] = a[j] => i = j
  BY SMTT(40), <1>2, <1>3, AscendingLists
<1>5. \A i, j \in DOMAIN p : p[i].name = p[j].name => i = j
  BY <1>3, <1>4 DEF Named
<1> QED
  BY <1>2, <1>3, <1>5 DEF Named

\* The events without one of a name.
LEMMA WithoutNamed ==
  ASSUME Named(events), NEW n \in Names
  PROVE  /\ Named(Scheduler!Without(n))
         /\ \A i \in DOMAIN Scheduler!Without(n) :
              \E k \in DOMAIN events : events[k].name # n /\ Scheduler!Without(n)[i] = events[k]
<1>1. PICK P : P = {i \in DOMAIN events : events[i].name # n}
  OBVIOUS
<1>2. Scheduler!Without(n) = Picked(events, P)
  BY <1>1, SchedulerPicks DEF Scheduler!Without
<1>3. P \in SUBSET DOMAIN events /\ Named(events)
  BY <1>1
<1>4. PICK evs : evs = events
  OBVIOUS
<1>5. /\ Named(Picked(evs, P))
      /\ \A i \in DOMAIN Picked(evs, P) : \E k \in P : Picked(evs, P)[i] = evs[k]
  BY <1>3, <1>4, PickedNamed
<1>6. PICK p : p = Scheduler!Without(n) /\ p = Picked(evs, P)
  BY <1>2, <1>4
<1>7. \A i \in DOMAIN p : \E k \in P : p[i] = evs[k]
  BY <1>5, <1>6
<1>8. \A i \in DOMAIN p : \E k \in DOMAIN events : events[k].name # n /\ p[i] = events[k]
  BY <1>1, <1>4, <1>7
<1> QED
  BY <1>5, <1>6, <1>8

\* What a save leaves, in memory and in the file, of events that are spaced.
LEMMA StoreKeeps ==
  ASSUME EventInv, NEW evs, NEW exec, NEW last \in [Names -> Int],
         Named(evs), ~lost => AllSpaced(evs, last), now' \in Nat, Scheduler!Store(evs, exec, last)
  PROVE  EventInv'
<1>1. ran' \in [Names -> Int] /\ (~lost' => ran' = last)
  <2>1. ran' = IF lost' THEN [n \in Names |-> -1] ELSE last
    BY DEF Scheduler!Store, Scheduler!Never
  <2>2. -1 \in Int
    OBVIOUS
  <2> QED
    BY <2>1, <2>2
<1>2. evs \in Seq(Entry) /\ Named(<<>>) /\ AllSpaced(<<>>, last)
  BY DEF Named, AllSpaced
<1>3. CASE events' = evs /\ file' = evs /\ lost' = lost
  BY <1>1, <1>3 DEF EventInv
<1>4. CASE events' = evs /\ file' = file /\ lost'
  BY <1>1, <1>4 DEF EventInv
<1>5. ASSUME NEW k \in 0 .. Len(evs), file' = SubSeq(evs, 1, k), events' = <<>>, lost' = lost
      PROVE  EventInv'
  <2>1. PICK p : p = SubSeq(evs, 1, k)
    OBVIOUS
  <2>2. /\ p \in Seq(Entry) /\ DOMAIN p \subseteq DOMAIN evs
        /\ \A i \in DOMAIN p : p[i] = evs[i]
    BY <1>2, <2>1
  <2>3. Named(p) /\ (~lost => AllSpaced(p, last))
    BY <2>2 DEF Named, AllSpaced
  <2> QED
    BY <1>1, <1>2, <1>5, <2>1, <2>3 DEF EventInv
<1> QED
  BY <1>3, <1>4, <1>5 DEF Scheduler!Store

\* Every event is an entry.
LEMMA EntriesNamed ==
  ASSUME Named(events), NEW k \in DOMAIN events
  PROVE  events[k] \in Entry /\ events[k].name \in Names
<1>1. PICK evs : evs = events /\ evs \in Seq(Entry)
  BY DEF Named
<1>2. evs[k] \in Entry
  BY <1>1
<1> QED
  BY <1>1, <1>2 DEF Entry

\* Events changed one by one, but for their names.
LEMMA ChangedNamed ==
  ASSUME Named(events), NEW evs, DOMAIN evs = DOMAIN events, evs = [i \in DOMAIN events |-> evs[i]],
         \A i \in DOMAIN events : evs[i] \in Entry /\ evs[i].name = events[i].name
  PROVE  Named(evs)
<1>1. PICK old : old = events /\ old \in Seq(Entry)
  BY DEF Named
<1>2. evs \in Seq(Entry)
  BY <1>1
<1> QED
  BY <1>2 DEF Named

\* CREATE EVENT and DROP EVENT.
LEMMA ReplacedKeeps ==
  ASSUME EventInv, NEW n \in Names, now' \in Nat
  PROVE  /\ \A s \in Schedules[n] : Scheduler!CreateEvent(n, s) => EventInv'
         /\ Scheduler!DropEvent(n) => EventInv'
<1>1. PICK w, last : w = Scheduler!Without(n) /\ last = [ran EXCEPT ![n] = -1]
  OBVIOUS
<1>2. /\ ran \in [Names -> Int] /\ last \in [Names -> Int] /\ last[n] = -1
      /\ \A m \in Names : m # n => last[m] = ran[m]
  <2>1. ran \in [Names -> Int] /\ -1 \in Int
    BY DEF EventInv
  <2> QED
    BY <1>1, <2>1
<1>3. /\ Named(w) /\ w \in Seq(Entry)
      /\ \A i \in DOMAIN w : \E k \in DOMAIN events : events[k].name # n /\ w[i] = events[k]
  BY <1>1, WithoutNamed DEF EventInv, Named
<1>4. \A k \in DOMAIN events : events[k].name \in Names
  BY EntriesNamed DEF EventInv
<1>5. ~lost => AllSpaced(w, last)
  BY <1>2, <1>3, <1>4 DEF AllSpaced, EventInv
<1>6. ASSUME NEW s \in Schedules[n], Scheduler!CreateEvent(n, s)
      PROVE  EventInv'
  <2>1. PICK next_ : next_ = IF s.recurring THEN Scheduler!NextRun(s) ELSE s.at
    OBVIOUS
  <2>2. PICK e : e = [name |-> n, sched |-> s, nextRun |-> next_, enabled |-> s.recurring \/ next_ > now]
    OBVIOUS
  <2>3. next_ \in Nat /\ s \in UNION {Schedules[m] : m \in Names} /\ s.recurring \in BOOLEAN
    BY <2>1, NextRunIsLater, ScheduleParts DEF EventInv
  <2>4. e \in Entry /\ e.name = n
    BY <2>2, <2>3 DEF Entry
  <2>5. PICK evs : evs = Append(w, e)
    OBVIOUS
  <2>6. /\ evs \in Seq(Entry) /\ DOMAIN evs = 1 .. Len(w) + 1 /\ DOMAIN w = 1 .. Len(w) /\ Len(w) \in Nat
        /\ evs[Len(w) + 1] = e /\ \A i \in DOMAIN w : evs[i] = w[i]
    BY <1>3, <2>4, <2>5, AppendProperties
  <2>7. \A i \in DOMAIN evs : i \in DOMAIN w \/ i = Len(w) + 1
    BY <2>6
  <2>8. \A i \in DOMAIN w : evs[i].name # n
    BY <1>3, <2>6
  <2>9. Named(evs)
    BY <1>3, <2>4, <2>6, <2>7, <2>8 DEF Named
  <2>10. ~lost => AllSpaced(evs, last)
    BY <1>2, <1>5, <2>4, <2>6, <2>7 DEF AllSpaced, Spaced
  <2>11. Scheduler!Store(evs, toExec, last)
    BY <1>1, <1>6, <2>1, <2>2, <2>5 DEF Scheduler!CreateEvent, Scheduler!Never
  <2> QED
    BY <1>2, <2>9, <2>10, <2>11, StoreKeeps
<1>7. ASSUME Scheduler!DropEvent(n)
      PROVE  EventInv'
  <2>1. Scheduler!Store(w, toExec, last)
    BY <1>1, <1>7 DEF Scheduler!DropEvent, Scheduler!Never
  <2> QED
    BY <1>2, <1>3, <1>5, <2>1, StoreKeeps
<1> QED
  BY <1>6, <1>7

\* ALTER EVENT.
LEMMA AlteredKeeps ==
  ASSUME EventInv, NEW n \in Names, NEW b \in BOOLEAN, now' \in Nat, Scheduler!SetEventEnabled(n, b)
  PROVE  EventInv'
<1> DEFINE single == \A i \in DOMAIN events : events[i].name = n => ~events[i].sched.recurring
<1>1. PICK evs : evs = [i \in DOMAIN events |->
                          IF events[i].name = n THEN [events[i] EXCEPT !.enabled = b] ELSE events[i]]
  OBVIOUS
<1>2. PICK last : last = IF b /\ single THEN [ran EXCEPT ![n] = -1] ELSE ran
  OBVIOUS
<1>3. Scheduler!Store(evs, toExec, last)
  BY <1>1, <1>2 DEF Scheduler!SetEventEnabled, Scheduler!Never
<1>4. /\ last \in [Names -> Int] /\ (b /\ single => last[n] = -1)
      /\ \A m \in Names : last[m] = ran[m] \/ last[m] = -1
  <2>1. ran \in [Names -> Int] /\ -1 \in Int
    BY DEF EventInv
  <2> QED
    BY <1>2, <2>1
<1>5. \A i \in DOMAIN events : /\ evs[i] \in Entry /\ evs[i].name = events[i].name
                               /\ evs[i].sched = events[i].sched /\ evs[i].nextRun = events[i].nextRun
                               /\ evs[i].name = n => evs[i].enabled = b
                               /\ evs[i].name # n => evs[i].enabled = events[i].enabled
  BY <1>1, EntriesNamed DEF Entry, EventInv
<1>6. Named(evs) /\ DOMAIN evs = DOMAIN events
  BY <1>1, <1>5, ChangedNamed DEF EventInv
<1>7. ASSUME ~lost, NEW i \in DOMAIN events
      PROVE  Spaced(evs[i], last[evs[i].name])
  <2>1. Spaced(events[i], ran[events[i].name]) /\ events[i].name \in Names
    BY <1>7, EntriesNamed DEF EventInv, AllSpaced
  <2>2. CASE last[events[i].name] = -1
    BY <1>5, <2>2 DEF Spaced
  <2>3. CASE last[events[i].name] = ran[events[i].name] /\ last[events[i].name] # -1
    <3>1. CASE events[i].sched.recurring \/ events[i].name # n
      BY <1>5, <2>1, <2>3, <3>1 DEF Spaced
    <3>2. CASE ~events[i].sched.recurring /\ events[i].name = n
      <4>1. single
        BY <3>2 DEF EventInv, Named
      <4>2. ~b
        BY <1>4, <2>3, <3>2, <4>1
      <4> QED
        BY <1>5, <3>2, <4>2 DEF Spaced
    <3> QED
      BY <3>1, <3>2
  <2> QED
    BY <1>4, <2>1, <2>2, <2>3
<1>8. ~lost => AllSpaced(evs, last)
  BY <1>6, <1>7 DEF AllSpaced
<1> QED
  BY <1>3, <1>4, <1>6, <1>8, StoreKeeps

\* An event that is collected is next due after its gap, or disabled.
LEMMA CollectedKeeps ==
  ASSUME EventInv, now' \in Nat, Scheduler!Collect,
         \A n \in Names : \A s \in Schedules[n] : s.recurring /\ s.hasAt => s.interval >= Day
  PROVE  EventInv'
<1>1. PICK evs : evs = [i \in DOMAIN events |->
                          IF Scheduler!Due(events[i]) THEN Scheduler!Fired(events[i]) ELSE events[i]]
  OBVIOUS
<1>2. PICK due : due = {i \in DOMAIN events : Scheduler!Due(events[i])}
  OBVIOUS
<1>3. PICK last : last = [n \in Names |-> IF \E i \in due : events[i].name = n THEN now ELSE ran[n]]
  OBVIOUS
<1>4. \E exec : Scheduler!Store(evs, exec, last)
  BY <1>1, <1>2, <1>3 DEF Scheduler!Collect
<1>5. last \in [Names -> Int] /\ now \in Nat
  BY <1>3 DEF EventInv
<1>6. ASSUME NEW i \in DOMAIN events, Scheduler!Due(events[i])
      PROVE  /\ evs[i] \in Entry /\ evs[i].name = events[i].name /\ evs[i].sched = events[i].sched
             /\ IF evs[i].sched.recurring THEN evs[i].nextRun >= now + Gap(evs[i].sched) ELSE ~evs[i].enabled
  <2>1. PICK e : e = events[i] /\ e \in Entry
    BY EntriesNamed DEF EventInv
  <2>2. e.sched \in UNION {Schedules[n] : n \in Names} /\ evs[i] = Scheduler!Fired(e)
    BY <1>1, <1>6, <2>1 DEF Entry
  <2>3. CASE e.sched.recurring
    <3>1. PICK t : t = Scheduler!NextRun(e.sched)
      OBVIOUS
    <3>2. e.sched.hasAt => e.sched.interval >= Day
      BY <2>2, <2>3
    <3>3. t \in Nat /\ t >= now + Gap(e.sched)
      BY <1>5, <2>2, <3>1, <3>2, NextRunIsLater
    <3>4. evs[i] = [e EXCEPT !.nextRun = t]
      BY <2>2, <2>3, <3>1 DEF Scheduler!Fired
    <3>5. evs[i] \in Entry /\ evs[i].name = e.name /\ evs[i].sched = e.sched /\ evs[i].nextRun = t
      BY <2>1, <3>3, <3>4 DEF Entry
    <3> QED
      BY <2>1, <2>3, <3>3, <3>5
  <2>4. CASE ~e.sched.recurring
    <3>1. evs[i] = [e EXCEPT !.enabled = FALSE]
      BY <2>2, <2>4 DEF Scheduler!Fired
    <3> QED
      BY <2>1, <2>4, <3>1 DEF Entry
  <2> QED
    BY <2>3, <2>4
<1>7. ASSUME NEW i \in DOMAIN events, ~Scheduler!Due(events[i])
      PROVE  evs[i] = events[i] /\ evs[i] \in Entry
  BY <1>1, <1>7, EntriesNamed DEF EventInv
<1>8. Named(evs) /\ DOMAIN evs = DOMAIN events
  BY <1>1, <1>6, <1>7, ChangedNamed DEF EventInv
<1>9. ASSUME ~lost, NEW i \in DOMAIN events
      PROVE  Spaced(evs[i], last[evs[i].name])
  <2>1. Spaced(events[i], ran[events[i].name]) /\ events[i].name \in Names
    BY <1>9, EntriesNamed DEF EventInv, AllSpaced
  <2>2. CASE Scheduler!Due(events[i])
    <3>1. last[events[i].name] = now
      BY <1>2, <1>3, <2>1, <2>2
    <3> QED
      BY <1>6, <2>2, <3>1 DEF Spaced
  <2>3. CASE ~Scheduler!Due(events[i])
    <3>1. \A j \in due : events[j].name # events[i].name
      BY <1>2, <2>3 DEF EventInv, Named
    <3>2. last[events[i].name] = ran[events[i].name]
      BY <1>3, <2>1, <3>1
    <3> QED
      BY <1>7, <2>1, <2>3, <3>2
  <2> QED
    BY <2>2, <2>3
<1>10. ~lost => AllSpaced(evs, last)
  BY <1>8, <1>9 DEF AllSpaced
<1> QED
  BY <1>4, <1>5, <1>8, <1>10, StoreKeeps

\* As long as every save opens its file, an event runs no more often than its schedule says,
\* for any events and schedules in which AT goes with an interval of whole days, through
\* crashes, restarts and torn files (EventScheduler::run, saveEvents_, loadEvents).
THEOREM EventsRunNoMoreOften ==
  ASSUME \A n \in Names : \A s \in Schedules[n] : s.recurring /\ s.hasAt => s.interval >= Day
  PROVE  AllSpec => NoExtraRun
<1>1. AllInit => EventInv
  BY DEF AllInit, Scheduler!Init, Scheduler!Never, EventInv, Named, AllSpaced
<1>2. [AllNext]_all => Scheduler!Next \/ UNCHANGED scheduler
  BY DEF AllNext, all, InLocks, InServer, InParallel, InScheduler, InTransactions
<1>3. ASSUME EventInv, Scheduler!Next \/ UNCHANGED scheduler
      PROVE  EventInv'
  <2>1. now' \in Nat
    <3>1. now' = now \/ now' = now + 1
      BY <1>3, Zenon DEF scheduler, Scheduler!Next, Scheduler!CreateEvent, Scheduler!DropEvent,
        Scheduler!SetEventEnabled, Scheduler!SetOn, Scheduler!Collect, Scheduler!Execute,
        Scheduler!Tick, Scheduler!Crash, Scheduler!Start
    <3>2. now \in Nat
      BY <1>3 DEF EventInv
    <3> QED
      BY <3>1, <3>2
  <2>2. CASE (\E b \in BOOLEAN : Scheduler!SetOn(b)) \/ Scheduler!Execute \/ Scheduler!Tick \/ UNCHANGED scheduler
    <3>1. events' = events /\ file' = file /\ ran' = ran /\ lost' = lost
      BY <2>2 DEF scheduler, Scheduler!SetOn, Scheduler!Execute, Scheduler!Tick
    <3> QED
      BY <1>3, <2>1, <3>1 DEF EventInv
  <2>3. CASE Scheduler!Crash \/ Scheduler!Start
    <3>1. (events' = <<>> \/ events' = file) /\ file' = file /\ ran' = ran /\ lost' = lost
      BY <2>3 DEF Scheduler!Crash, Scheduler!Start
    <3>2. Named(<<>>) /\ AllSpaced(<<>>, ran)
      BY DEF Named, AllSpaced
    <3> QED
      BY <1>3, <2>1, <3>1, <3>2 DEF EventInv
  <2>4. CASE \E n \in Names : (\E s \in Schedules[n] : Scheduler!CreateEvent(n, s)) \/ Scheduler!DropEvent(n)
    BY <1>3, <2>1, <2>4, ReplacedKeeps
  <2>5. CASE \E n \in Names : \E b \in BOOLEAN : Scheduler!SetEventEnabled(n, b)
    BY <1>3, <2>1, <2>5, AlteredKeeps
  <2>6. CASE Scheduler!Collect
    BY <1>3, <2>1, <2>6, CollectedKeeps
  <2> QED
    BY <1>3, <2>2, <2>3, <2>4, <2>5, <2>6 DEF Scheduler!Next
<1>4. ASSUME EventInv, ~lost, NEW i \in DOMAIN events,
             Scheduler!Due(events[i]), ran[events[i].name] # Scheduler!Never
      PROVE  /\ events[i].sched.recurring
             /\ now >= ran[events[i].name] + (IF events[i].sched.hasAt THEN 1 ELSE events[i].sched.interval)
  <2>1. PICK e, r : e = events[i] /\ r = ran[events[i].name]
    OBVIOUS
  <2>2. /\ e \in Entry /\ r \in Int /\ now \in Nat /\ r # -1 /\ Spaced(e, r)
        /\ e.enabled /\ e.nextRun <= now
    BY <1>4, <2>1, EntriesNamed DEF EventInv, AllSpaced, Scheduler!Due, Scheduler!Never
  <2>3. e.sched.recurring /\ e.nextRun >= r + Gap(e.sched)
    BY <2>2 DEF Spaced
  <2>4. PICK g : g = Gap(e.sched) /\ g \in Int
    <3>1. e.sched \in UNION {Schedules[n] : n \in Names}
      BY <2>2 DEF Entry
    <3> QED
      BY <3>1, ScheduleParts DEF Gap
  <2>5. e.nextRun \in Int
    BY <2>2 DEF Entry
  <2>6. now >= r + g
    BY <2>2, <2>3, <2>4, <2>5
  <2> QED
    BY <2>1, <2>3, <2>4, <2>6 DEF Gap
<1>5. EventInv => [Scheduler!Collect /\ ~lost =>
                     \A i \in DOMAIN events :
                       LET e == events[i]
                       IN  Scheduler!Due(e) /\ ran[e.name] # Scheduler!Never =>
                             /\ e.sched.recurring
                             /\ now >= ran[e.name] + (IF e.sched.hasAt THEN 1 ELSE e.sched.interval)
                  ]_(Scheduler!vars)
  BY <1>4
<1>6. EventInv /\ [AllNext]_all => EventInv'
  BY <1>2, <1>3
<1> QED
  BY <1>1, <1>5, <1>6, PTL DEF AllSpec, NoExtraRun, Scheduler!NoExtraRun
-----------------------------------------------------------------------------
(* Types *)

\* A client is in the queue, served by one worker, or neither.
ServerTypes ==
  /\ Server!TypeOK
  /\ \A i \in DOMAIN q : client[q[i]] = "queued"
  /\ \A w \in Workers : worker[w] = "busy" => serving[w] \in Clients /\ client[serving[w]] = "served"
  /\ \A v, w \in Workers : worker[v] = "busy" /\ worker[w] = "busy" /\ serving[v] = serving[w] => v = w

\* The shape of the queue, with what TypeOK says of it spelled out.
LEMMA ServerParts ==
  ASSUME ServerTypes
  PROVE  /\ q \in Seq(Clients) /\ \A i, j \in DOMAIN q : q[i] = q[j] => i = j
         /\ \A i \in DOMAIN q : q[i] \in Clients
         /\ worker \in [Workers -> {"ready", "waiting", "busy", "gone"}]
         /\ serving \in [Workers -> Clients \cup {NoClient}]
         /\ client \in [Clients -> {"out", "queued", "served", "rejected"}]
         /\ stopping \in BOOLEAN
         /\ \A w \in Workers : worker[w] # "busy" => serving[w] = NoClient
<1>1. /\ q \in Seq(Clients) /\ \A i, j \in DOMAIN q : q[i] = q[j] => i = j
  BY DEF ServerTypes, Server!TypeOK, Server!IsInjective
<1>2. \A i \in DOMAIN q : q[i] \in Clients
  BY <1>1
<1> QED
  BY <1>1, <1>2 DEF ServerTypes, Server!TypeOK

\* Workers that wait, wake or leave keep their clients.
LEMMA WorkersRest ==
  ASSUME ServerTypes, q' = q, serving' = serving, client' = client, stopping' \in BOOLEAN,
         worker' \in [Workers -> {"ready", "waiting", "busy", "gone"}],
         \A w \in Workers : worker'[w] = "busy" <=> worker[w] = "busy"
  PROVE  ServerTypes'
<1>1. /\ q' \in Seq(Clients) /\ \A i, j \in DOMAIN q' : q'[i] = q'[j] => i = j
      /\ serving' \in [Workers -> Clients \cup {NoClient}]
      /\ client' \in [Clients -> {"out", "queued", "served", "rejected"}]
      /\ \A w \in Workers : worker'[w] # "busy" => serving'[w] = NoClient
  BY ServerParts
<1>2. /\ \A i \in DOMAIN q' : client'[q'[i]] = "queued"
      /\ \A w \in Workers : worker'[w] = "busy" => serving'[w] \in Clients /\ client'[serving'[w]] = "served"
      /\ \A v, w \in Workers : worker'[v] = "busy" /\ worker'[w] = "busy" /\ serving'[v] = serving'[w] => v = w
  BY DEF ServerTypes
<1>3. \A w \in Workers : (serving'[w] # NoClient) = (worker'[w] = "busy")
  BY <1>1, <1>2, NoClientAssumption
<1> QED
  BY <1>1, <1>2, <1>3 DEF ServerTypes, Server!TypeOK, Server!IsInjective

\* Every step of the server's pool keeps its types.
LEMMA ServerTypesStep ==
  ASSUME ServerTypes, Server!Next \/ UNCHANGED server
  PROVE  ServerTypes'
<1>1. CASE Server!Stop
  <2>1. /\ worker' \in [Workers -> {"ready", "waiting", "busy", "gone"}]
        /\ \A w \in Workers : worker'[w] = "busy" <=> worker[w] = "busy"
    BY <1>1, ServerParts DEF Server!Stop
  <2> QED
    BY <1>1, <2>1, WorkersRest DEF Server!Stop
<1>2. ASSUME NEW c \in Clients, Server!Accept(c), Server!Enqueue(c)
      PROVE  ServerTypes'
  <2>1. /\ worker' \in [Workers -> {"ready", "waiting", "busy", "gone"}]
        /\ \A w \in Workers : worker'[w] = "busy" <=> worker[w] = "busy"
    <3>1. worker' = worker \/ \E w \in Workers : worker[w] = "waiting" /\ worker' = [worker EXCEPT ![w] = "ready"]
      BY <1>2 DEF Server!Enqueue, Server!Notified, Server!In
    <3> QED
      BY <3>1, ServerParts
  <2>2. /\ client' = [client EXCEPT ![c] = "queued"] /\ q' = Append(q, c) /\ serving' = serving /\ stopping' = stopping
        /\ client[c] \in {"out", "rejected"}
    BY <1>2 DEF Server!Enqueue, Server!Accept
  <2>3. /\ client' \in [Clients -> {"out", "queued", "served", "rejected"}] /\ client'[c] = "queued"
        /\ \A d \in Clients \ {c} : client'[d] = client[d]
    BY <2>2, ServerParts
  <2>4. \A i \in DOMAIN q : q[i] \in Clients \ {c} /\ client[q[i]] = "queued"
    BY <2>2, ServerParts DEF ServerTypes
  <2>5. /\ q' \in Seq(Clients) /\ DOMAIN q' = 1 .. Len(q) + 1 /\ q'[Len(q) + 1] = c
        /\ DOMAIN q = 1 .. Len(q) /\ Len(q) \in Nat /\ \A i \in DOMAIN q : q'[i] = q[i]
    BY <2>2, ServerParts
  <2>6. \A i \in DOMAIN q' : i \in DOMAIN q \/ i = Len(q) + 1
    BY <2>5
  <2>7. \A i, j \in DOMAIN q' : q'[i] = q'[j] => i = j
    BY <2>4, <2>5, <2>6, ServerParts
  <2>8. \A i \in DOMAIN q' : client'[q'[i]] = "queued"
    BY <2>3, <2>4, <2>5, <2>6
  <2>9. /\ \A w \in Workers : worker'[w] = "busy" => serving'[w] \in Clients /\ client'[serving'[w]] = "served"
        /\ \A v, w \in Workers : worker'[v] = "busy" /\ worker'[w] = "busy" /\ serving'[v] = serving'[w] => v = w
    BY <2>1, <2>2, <2>3 DEF ServerTypes
  <2>10. /\ serving' \in [Workers -> Clients \cup {NoClient}] /\ stopping' \in BOOLEAN
         /\ \A w \in Workers : (serving'[w] # NoClient) = (worker'[w] = "busy")
    BY <2>1, <2>2, <2>9, ServerParts, NoClientAssumption
  <2> QED
    BY <2>1, <2>3, <2>5, <2>7, <2>8, <2>9, <2>10 DEF ServerTypes, Server!TypeOK, Server!IsInjective
<1>3. ASSUME NEW c \in Clients, Server!Accept(c), Server!Reject(c)
      PROVE  ServerTypes'
  <2>1. /\ client' = [client EXCEPT ![c] = "rejected"] /\ UNCHANGED <<q, worker, serving, stopping>>
        /\ client[c] \in {"out", "rejected"}
    BY <1>3 DEF Server!Reject, Server!Accept
  <2>2. /\ client' \in [Clients -> {"out", "queued", "served", "rejected"}]
        /\ \A d \in Clients : client[d] \in {"queued", "served"} => client'[d] = client[d]
    BY <2>1, ServerParts
  <2>3. /\ \A i \in DOMAIN q : client'[q[i]] = "queued"
        /\ \A w \in Workers : worker[w] = "busy" => serving[w] \in Clients /\ client'[serving[w]] = "served"
    BY <2>2, ServerParts DEF ServerTypes
  <2> QED
    BY <2>1, <2>2, <2>3 DEF ServerTypes, Server!TypeOK, Server!IsInjective
<1>4. ASSUME NEW w \in Workers, Server!Take(w)
      PROVE  ServerTypes'
  <2>1. /\ worker[w] = "ready" /\ q # <<>> /\ q' = Tail(q) /\ worker' = [worker EXCEPT ![w] = "busy"]
        /\ serving' = [serving EXCEPT ![w] = Head(q)] /\ client' = [client EXCEPT ![Head(q)] = "served"]
        /\ stopping' = stopping
    BY <1>4 DEF Server!Take
  <2>2. PICK c : c = Head(q)
    OBVIOUS
  <2>3. /\ 1 \in DOMAIN q /\ c = q[1] /\ q' \in Seq(Clients) /\ c \in Clients
        /\ \A i \in DOMAIN q' : i + 1 \in DOMAIN q /\ i + 1 # 1 /\ q'[i] = q[i + 1] /\ i \in Nat
    BY <2>1, <2>2, ServerParts
  <2>4. \A i \in DOMAIN q' : q'[i] # c /\ q'[i] \in Clients
    BY <2>3, ServerParts
  <2>5. \A i, j \in DOMAIN q' : q'[i] = q'[j] => i = j
    <3>1. \A i, j \in DOMAIN q' : q'[i] = q'[j] => i + 1 = j + 1
      BY <2>3, ServerParts
    <3> QED
      BY <2>3, <3>1
  <2>6. /\ client' \in [Clients -> {"out", "queued", "served", "rejected"}] /\ client'[c] = "served"
        /\ \A d \in Clients \ {c} : client'[d] = client[d]
    BY <2>1, <2>2, <2>3, ServerParts
  <2>7. /\ worker' \in [Workers -> {"ready", "waiting", "busy", "gone"}] /\ worker'[w] = "busy"
        /\ serving' \in [Workers -> Clients \cup {NoClient}] /\ serving'[w] = c
        /\ \A v \in Workers \ {w} : worker'[v] = worker[v] /\ serving'[v] = serving[v]
    BY <2>1, <2>2, <2>3, ServerParts
  <2>8. \A i \in DOMAIN q' : client'[q'[i]] = "queued"
    BY <2>3, <2>4, <2>6 DEF ServerTypes
  <2>9. client[c] = "queued"
    BY <2>3 DEF ServerTypes
  <2>10. \A v \in Workers \ {w} : worker[v] = "busy" => serving[v] \in Clients \ {c} /\ client[serving[v]] = "served"
    BY <2>9 DEF ServerTypes
  <2>11. \A v \in Workers : worker'[v] = "busy" => serving'[v] \in Clients /\ client'[serving'[v]] = "served"
    BY <2>3, <2>6, <2>7, <2>10
  <2>12. \A u, v \in Workers : worker'[u] = "busy" /\ worker'[v] = "busy" /\ serving'[u] = serving'[v] => u = v
    BY <2>7, <2>10 DEF ServerTypes
  <2>13. \A v \in Workers : (serving'[v] # NoClient) = (worker'[v] = "busy")
    BY <2>3, <2>7, ServerParts, NoClientAssumption DEF ServerTypes
  <2>14. stopping' \in BOOLEAN
    BY <2>1, ServerParts
  <2> QED
    BY <2>3, <2>5, <2>6, <2>7, <2>8, <2>11, <2>12, <2>13, <2>14 DEF ServerTypes, Server!TypeOK, Server!IsInjective
<1>5. ASSUME NEW w \in Workers, Server!Idle(w) \/ Server!Wake(w)
      PROVE  ServerTypes'
  <2>1. /\ UNCHANGED <<q, serving, client, stopping>> /\ worker[w] \in {"ready", "waiting"}
        /\ \E st \in {"ready", "waiting", "gone"} : worker' = [worker EXCEPT ![w] = st]
    BY <1>5 DEF Server!Idle, Server!Wake
  <2>2. /\ worker' \in [Workers -> {"ready", "waiting", "busy", "gone"}]
        /\ \A v \in Workers : worker'[v] = "busy" <=> worker[v] = "busy"
    BY <2>1, ServerParts
  <2> QED
    BY <2>1, <2>2, ServerParts, WorkersRest
<1>6. ASSUME NEW w \in Workers, Server!Disconnect(w)
      PROVE  ServerTypes'
  <2>1. /\ worker[w] = "busy" /\ worker' = [worker EXCEPT ![w] = "ready"]
        /\ serving' = [serving EXCEPT ![w] = NoClient] /\ client' = [client EXCEPT ![serving[w]] = "out"]
        /\ UNCHANGED <<q, stopping>>
    BY <1>6 DEF Server!Disconnect
  <2>2. PICK c : c = serving[w]
    OBVIOUS
  <2>3. c \in Clients /\ client[c] = "served"
    BY <2>1, <2>2 DEF ServerTypes
  <2>4. /\ client' \in [Clients -> {"out", "queued", "served", "rejected"}]
        /\ \A d \in Clients \ {c} : client'[d] = client[d]
    BY <2>1, <2>2, <2>3, ServerParts
  <2>5. /\ worker' \in [Workers -> {"ready", "waiting", "busy", "gone"}] /\ worker'[w] = "ready"
        /\ serving' \in [Workers -> Clients \cup {NoClient}] /\ serving'[w] = NoClient
        /\ \A v \in Workers \ {w} : worker'[v] = worker[v] /\ serving'[v] = serving[v]
    BY <2>1, ServerParts
  <2>6. \A i \in DOMAIN q : client'[q[i]] = "queued"
    BY <2>3, <2>4, ServerParts DEF ServerTypes
  <2>7. \A v \in Workers \ {w} : worker[v] = "busy" => serving[v] \in Clients \ {c} /\ client[serving[v]] = "served"
    BY <2>1, <2>2 DEF ServerTypes
  <2>8. \A v \in Workers : worker'[v] = "busy" => serving'[v] \in Clients /\ client'[serving'[v]] = "served"
    BY <2>4, <2>5, <2>7
  <2>9. \A u, v \in Workers : worker'[u] = "busy" /\ worker'[v] = "busy" /\ serving'[u] = serving'[v] => u = v
    BY <2>5 DEF ServerTypes
  <2>10. \A v \in Workers : (serving'[v] # NoClient) = (worker'[v] = "busy")
    BY <2>5, <2>8, ServerParts, NoClientAssumption
  <2> QED
    BY <2>1, <2>4, <2>5, <2>6, <2>8, <2>9, <2>10, ServerParts DEF ServerTypes, Server!TypeOK, Server!IsInjective
<1>7. CASE UNCHANGED server
  BY <1>7 DEF server, ServerTypes, Server!TypeOK, Server!IsInjective
<1> QED
  BY <1>1, <1>2, <1>3, <1>4, <1>5, <1>6, <1>7 DEF Server!Next, Server!Accept

\* A thread has a task for exactly as long as it is busy, and none runs while a pool that was
\* resized has yet to start its threads.
ParallelTypes ==
  /\ \A t \in Parallel!ThreadIds : (task[t] # Parallel!None) = (thread[t] = "busy")
  /\ stop \in BOOLEAN /\ resize \in {"no", "joining", "starting"}
  /\ resize = "starting" => \A t \in Parallel!ThreadIds : thread[t] = "none"

\* Threads that wait, wake, end or start have no task before or after.
LEMMA ThreadsRest ==
  ASSUME ParallelTypes, task' = task, stop' \in BOOLEAN, resize' \in {"no", "joining", "starting"},
         \A t \in Parallel!ThreadIds : thread'[t] = "busy" <=> thread[t] = "busy",
         resize' = "starting" => \A t \in Parallel!ThreadIds : thread'[t] = "none"
  PROVE  ParallelTypes'
BY DEF ParallelTypes, Parallel!ThreadIds, Parallel!None

\* Every step of the scans and their pool keeps its types.
LEMMA ParallelTypesStep ==
  ASSUME ScanInv, ParallelTypes, Parallel!Next \/ UNCHANGED parallel
  PROVE  ParallelTypes'
<1>1. /\ thread \in [Parallel!ThreadIds -> {"none", "ready", "waiting", "busy"}] /\ tasks \in Seq(Scans \X Nat)
      /\ task \in [Parallel!ThreadIds -> (Scans \X Nat) \cup {<<>>}]
      /\ stop \in BOOLEAN /\ resize \in {"no", "joining", "starting"}
      /\ resize = "starting" => \A t \in Parallel!ThreadIds : thread[t] = "none"
  BY DEF ScanInv, ScanShape, ParallelTypes
<1>2. CASE UNCHANGED <<thread, task, stop, resize>>
  BY <1>2 DEF ParallelTypes, Parallel!ThreadIds, Parallel!None
<1>3. ASSUME NEW s \in Scans
      PROVE  Parallel!ScanAlone(s) \/ Parallel!Begin(s) \/ Parallel!Submit(s) \/ Parallel!Await(s)
               \/ Parallel!Combine(s) => UNCHANGED <<thread, task, stop, resize>>
  BY DEF Parallel!ScanAlone, Parallel!Begin, Parallel!Submit, Parallel!Await, Parallel!Combine
<1>4. ASSUME NEW s \in Scans, Parallel!Notify(s)
      PROVE  ParallelTypes'
  <2>1. /\ UNCHANGED <<task, stop, resize>>
        /\ thread' = thread \/ \E t \in Parallel!ThreadIds : thread[t] = "waiting" /\ thread' = [thread EXCEPT ![t] = "ready"]
    BY <1>4 DEF Parallel!Notify, Parallel!In
  <2>2. \A t \in Parallel!ThreadIds : thread'[t] = "busy" <=> thread[t] = "busy"
    BY <1>1, <2>1
  <2>3. resize' = "starting" => \A t \in Parallel!ThreadIds : thread'[t] = "none"
    BY <1>1, <2>1
  <2> QED
    BY <1>1, <2>1, <2>2, <2>3, ThreadsRest
<1>5. ASSUME NEW t \in Parallel!ThreadIds, Parallel!Take(t)
      PROVE  ParallelTypes'
  <2>1. /\ thread[t] = "ready" /\ tasks # <<>> /\ UNCHANGED <<stop, resize>>
        /\ thread' = [thread EXCEPT ![t] = "busy"] /\ task' = [task EXCEPT ![t] = Head(tasks)]
    BY <1>5 DEF Parallel!Take
  <2>2. Head(tasks) \in Scans \X Nat
    BY <1>1, <2>1
  <2>3. Head(tasks) # Parallel!None
    BY SMTT(40), <2>2 DEF Parallel!None
  <2>4. /\ thread'[t] = "busy" /\ task'[t] = Head(tasks)
        /\ \A u \in Parallel!ThreadIds \ {t} : thread'[u] = thread[u] /\ task'[u] = task[u]
    BY <1>1, <2>1
  <2>5. \A u \in Parallel!ThreadIds : (task'[u] # Parallel!None) = (thread'[u] = "busy")
    BY <2>3, <2>4 DEF ParallelTypes
  <2>6. resize # "starting"
    BY <1>1, <2>1
  <2> QED
    BY <1>1, <2>1, <2>5, <2>6 DEF ParallelTypes, Parallel!ThreadIds, Parallel!None
<1>6. ASSUME NEW t \in Parallel!ThreadIds, Parallel!Idle(t)
      PROVE  ParallelTypes'
  <2>1. /\ UNCHANGED <<task, stop, resize>> /\ thread[t] = "ready"
        /\ \E st \in {"none", "waiting"} : thread' = [thread EXCEPT ![t] = st]
    BY <1>6 DEF Parallel!Idle
  <2>2. (\A u \in Parallel!ThreadIds : thread'[u] = "busy" <=> thread[u] = "busy") /\ resize # "starting"
    BY <1>1, <2>1
  <2> QED
    BY <1>1, <2>1, <2>2, ThreadsRest
<1>7. ASSUME NEW t \in Parallel!ThreadIds, Parallel!Run(t)
      PROVE  ParallelTypes'
  <2>1. /\ thread[t] = "busy" /\ UNCHANGED <<stop, resize>>
        /\ thread' = [thread EXCEPT ![t] = "ready"] /\ task' = [task EXCEPT ![t] = Parallel!None]
    BY <1>7 DEF Parallel!Run
  <2>2. /\ thread'[t] = "ready" /\ task'[t] = Parallel!None
        /\ \A u \in Parallel!ThreadIds \ {t} : thread'[u] = thread[u] /\ task'[u] = task[u]
    BY <1>1, <2>1
  <2>3. \A u \in Parallel!ThreadIds : (task'[u] # Parallel!None) = (thread'[u] = "busy")
    BY <2>2 DEF ParallelTypes
  <2>4. resize # "starting"
    BY <1>1, <2>1
  <2> QED
    BY <1>1, <2>1, <2>3, <2>4 DEF ParallelTypes, Parallel!ThreadIds, Parallel!None
<1>8. CASE Parallel!Resize
  <2>1. /\ task' = task /\ stop' = TRUE /\ resize' = "joining"
        /\ thread' = [t \in Parallel!ThreadIds |-> IF thread[t] = "waiting" THEN "ready" ELSE thread[t]]
    BY <1>8 DEF Parallel!Resize
  <2>2. \A t \in Parallel!ThreadIds : thread'[t] = "busy" <=> thread[t] = "busy"
    BY <2>1
  <2> QED
    BY <2>1, <2>2, ThreadsRest
<1>9. CASE Parallel!Joined
  <2>1. task' = task /\ stop' = FALSE /\ resize' = "starting" /\ thread' = thread
    BY <1>9 DEF Parallel!Joined
  <2>2. \A t \in Parallel!ThreadIds : thread[t] = "none"
    BY <1>9 DEF Parallel!Joined, Parallel!In
  <2> QED
    BY <2>1, <2>2, ThreadsRest
<1>10. ASSUME NEW n, Parallel!StartThreads(n)
       PROVE  ParallelTypes'
  <2>1. /\ resize = "starting" /\ resize' = "no" /\ UNCHANGED <<task, stop>>
        /\ thread' = [t \in Parallel!ThreadIds |-> IF t <= n THEN "ready" ELSE "none"]
    BY <1>10 DEF Parallel!StartThreads
  <2>2. \A t \in Parallel!ThreadIds : thread'[t] = "busy" <=> thread[t] = "busy"
    BY <1>1, <2>1
  <2> QED
    BY <1>1, <2>1, <2>2, ThreadsRest
<1>11. UNCHANGED parallel => UNCHANGED <<thread, task, stop, resize>>
  BY DEF parallel
<1> QED
  BY <1>2, <1>3, <1>4, <1>5, <1>6, <1>7, <1>8, <1>9, <1>10, <1>11 DEF Parallel!Next, Parallel!ThreadIds

\* Times, names and entries, in memory and in the file.
SchedulerTypes ==
  /\ now \in 0 .. MaxTime
  /\ Named(events) /\ Named(file)
  /\ on \in BOOLEAN /\ up \in BOOLEAN /\ lost \in BOOLEAN
  /\ toExec \in Seq(Names)
  /\ ran \in [Names -> 0 .. MaxTime \cup {-1}]

\* A save, whatever comes of it.
LEMMA StoreTypes ==
  ASSUME SchedulerTypes, NEW evs, NEW exec, NEW last, Named(evs), exec \in Seq(Names),
         last \in [Names -> 0 .. MaxTime \cup {-1}], UNCHANGED <<now, on>>, Scheduler!Store(evs, exec, last)
  PROVE  SchedulerTypes'
<1>1. /\ now' \in 0 .. MaxTime /\ on' \in BOOLEAN /\ up \in BOOLEAN /\ lost \in BOOLEAN /\ Named(file)
  BY DEF SchedulerTypes
<1>2. ran' \in [Names -> 0 .. MaxTime \cup {-1}]
  <2>1. ran' = IF lost' THEN [n \in Names |-> -1] ELSE last
    BY DEF Scheduler!Store, Scheduler!Never
  <2> QED
    BY <2>1
<1>3. evs \in Seq(Entry) /\ Named(<<>>) /\ <<>> \in Seq(Names)
  BY DEF Named
<1>4. ASSUME NEW k \in 0 .. Len(evs)
      PROVE  Named(SubSeq(evs, 1, k))
  <2>1. PICK p : p = SubSeq(evs, 1, k)
    OBVIOUS
  <2>2. p \in Seq(Entry) /\ DOMAIN p \subseteq DOMAIN evs /\ \A i \in DOMAIN p : p[i] = evs[i]
    BY <1>3, <2>1
  <2> QED
    BY <2>1, <2>2 DEF Named
<1>5. Named(events') /\ Named(file') /\ up' \in BOOLEAN /\ lost' \in BOOLEAN /\ toExec' \in Seq(Names)
  <2>1. \/ events' = evs /\ file' = evs /\ toExec' = exec /\ UNCHANGED <<up, lost>>
        \/ events' = evs /\ UNCHANGED <<file, up>> /\ toExec' = exec /\ lost' = TRUE
        \/ /\ \E k \in 0 .. Len(evs) : file' = SubSeq(evs, 1, k)
           /\ events' = <<>> /\ toExec' = <<>> /\ up' = FALSE /\ UNCHANGED lost
    BY DEF Scheduler!Store
  <2> QED
    BY <1>1, <1>3, <1>4, <2>1
<1>6. Named(events') /\ Named(file') => Named(events)' /\ Named(file)'
  BY DEF Named, Entry
<1> QED
  BY <1>1, <1>2, <1>5, <1>6 DEF SchedulerTypes

\* Every step of the scheduler keeps its types.
LEMMA SchedulerTypesStep ==
  ASSUME SchedulerTypes, Scheduler!Next \/ UNCHANGED scheduler
  PROVE  SchedulerTypes'
<1>1. /\ now \in Nat /\ now \in 0 .. MaxTime /\ MaxTime \in Nat /\ Named(events) /\ Named(file)
      /\ on \in BOOLEAN /\ up \in BOOLEAN /\ lost \in BOOLEAN /\ toExec \in Seq(Names)
      /\ ran \in [Names -> 0 .. MaxTime \cup {-1}]
  BY SchedulesAssumption DEF SchedulerTypes
<1>2. ASSUME NEW n \in Names, NEW s \in Schedules[n], Scheduler!CreateEvent(n, s)
      PROVE  SchedulerTypes'
  <2>1. PICK w, last, next_ : /\ w = Scheduler!Without(n) /\ last = [ran EXCEPT ![n] = -1]
                              /\ next_ = IF s.recurring THEN Scheduler!NextRun(s) ELSE s.at
    OBVIOUS
  <2>2. PICK e : e = [name |-> n, sched |-> s, nextRun |-> next_, enabled |-> s.recurring \/ next_ > now]
    OBVIOUS
  <2>3. next_ \in Nat /\ s \in UNION {Schedules[m] : m \in Names} /\ s.recurring \in BOOLEAN
    BY <1>1, <2>1, NextRunIsLater, ScheduleParts
  <2>4. e \in Entry /\ e.name = n
    BY <2>2, <2>3 DEF Entry
  <2>5. /\ Named(w) /\ w \in Seq(Entry)
        /\ \A i \in DOMAIN w : \E k \in DOMAIN events : events[k].name # n /\ w[i] = events[k]
    BY <1>1, <2>1, WithoutNamed DEF Named
  <2>6. PICK evs : evs = Append(w, e)
    OBVIOUS
  <2>7. /\ evs \in Seq(Entry) /\ DOMAIN evs = 1 .. Len(w) + 1 /\ DOMAIN w = 1 .. Len(w) /\ Len(w) \in Nat
        /\ evs[Len(w) + 1] = e /\ \A i \in DOMAIN w : evs[i] = w[i]
    BY <2>4, <2>5, <2>6, AppendProperties
  <2>8. \A i \in DOMAIN evs : i \in DOMAIN w \/ i = Len(w) + 1
    BY <2>7
  <2>9. \A i \in DOMAIN w : evs[i].name # n
    BY <2>5, <2>7
  <2>10. Named(evs)
    BY <2>4, <2>5, <2>7, <2>8, <2>9 DEF Named
  <2>11. Scheduler!Store(evs, toExec, last) /\ UNCHANGED <<now, on>>
    BY <1>2, <2>1, <2>2, <2>6 DEF Scheduler!CreateEvent, Scheduler!Never
  <2>12. last \in [Names -> 0 .. MaxTime \cup {-1}]
    BY <1>1, <2>1
  <2> QED
    BY <1>1, <2>10, <2>11, <2>12, StoreTypes
<1>3. ASSUME NEW n \in Names, Scheduler!DropEvent(n)
      PROVE  SchedulerTypes'
  <2>1. PICK w, last : w = Scheduler!Without(n) /\ last = [ran EXCEPT ![n] = -1]
    OBVIOUS
  <2>2. Named(w) /\ last \in [Names -> 0 .. MaxTime \cup {-1}]
    BY <1>1, <2>1, WithoutNamed
  <2>3. Scheduler!Store(w, toExec, last) /\ UNCHANGED <<now, on>>
    BY <1>3, <2>1 DEF Scheduler!DropEvent, Scheduler!Never
  <2> QED
    BY <1>1, <2>2, <2>3, StoreTypes
<1>4. ASSUME NEW n \in Names, NEW b \in BOOLEAN, Scheduler!SetEventEnabled(n, b)
      PROVE  SchedulerTypes'
  <2>1. PICK evs : evs = [i \in DOMAIN events |->
                            IF events[i].name = n THEN [events[i] EXCEPT !.enabled = b] ELSE events[i]]
    OBVIOUS
  <2>2. PICK last : last = IF b /\ \A i \in DOMAIN events : events[i].name = n => ~events[i].sched.recurring
                           THEN [ran EXCEPT ![n] = -1] ELSE ran
    OBVIOUS
  <2>3. Scheduler!Store(evs, toExec, last) /\ UNCHANGED <<now, on>>
    BY <1>4, <2>1, <2>2 DEF Scheduler!SetEventEnabled, Scheduler!Never
  <2>4. last \in [Names -> 0 .. MaxTime \cup {-1}]
    BY <1>1, <2>2
  <2>5. \A i \in DOMAIN events : evs[i] \in Entry /\ evs[i].name = events[i].name
    BY <1>1, <2>1, EntriesNamed DEF Entry
  <2>6. Named(evs)
    BY <1>1, <2>1, <2>5, ChangedNamed
  <2> QED
    BY <1>1, <2>3, <2>4, <2>6, StoreTypes
<1>5. CASE Scheduler!Collect
  <2>1. PICK evs : evs = [i \in DOMAIN events |->
                            IF Scheduler!Due(events[i]) THEN Scheduler!Fired(events[i]) ELSE events[i]]
    OBVIOUS
  <2>2. PICK due : due = {i \in DOMAIN events : Scheduler!Due(events[i])}
    OBVIOUS
  <2>3. PICK last : last = [n \in Names |-> IF \E i \in due : events[i].name = n THEN now ELSE ran[n]]
    OBVIOUS
  <2>4. PICK got : got = Picked(events, due)
    OBVIOUS
  <2>5. PICK exec : exec = [i \in DOMAIN got |-> got[i].name]
    OBVIOUS
  <2>6. Scheduler!Store(evs, exec, last) /\ UNCHANGED <<now, on>>
    BY <1>5, <2>1, <2>2, <2>3, <2>4, <2>5, SchedulerPicks DEF Scheduler!Collect
  <2>7. last \in [Names -> 0 .. MaxTime \cup {-1}]
    BY <1>1, <2>3
  <2>8. exec \in Seq(Names)
    <3>1. Named(got)
      BY <1>1, <2>2, <2>4, PickedNamed
    <3>2. got \in Seq(Entry)
      BY <3>1 DEF Named
    <3>3. \A i \in DOMAIN got : got[i].name \in Names
      <4>1. \A i \in DOMAIN got : got[i] \in Entry
        BY <3>2
      <4> QED
        BY <4>1 DEF Entry
    <3> QED
      BY <2>5, <3>2, <3>3
  <2>9. ASSUME NEW i \in DOMAIN events
        PROVE  evs[i] \in Entry /\ evs[i].name = events[i].name
    <3>1. PICK e : e = events[i] /\ e \in Entry
      BY <1>1, EntriesNamed
    <3>2. e.sched \in UNION {Schedules[n] : n \in Names}
      BY <3>1 DEF Entry
    <3>3. PICK t : t = Scheduler!NextRun(e.sched) /\ t \in Nat
      BY <1>1, <3>2, NextRunIsLater
    <3>4. evs[i] = e \/ evs[i] = [e EXCEPT !.nextRun = t] \/ evs[i] = [e EXCEPT !.enabled = FALSE]
      BY <2>1, <3>1, <3>3 DEF Scheduler!Fired
    <3> QED
      BY <3>1, <3>3, <3>4 DEF Entry
  <2>10. Named(evs)
    BY <1>1, <2>1, <2>9, ChangedNamed
  <2> QED
    BY <2>6, <2>7, <2>8, <2>10, StoreTypes
<1>6. Named(events)' = Named(events') /\ Named(file)' = Named(file')
  BY DEF Named, Entry
<1>7. ASSUME NEW b \in BOOLEAN, Scheduler!SetOn(b)
      PROVE  SchedulerTypes'
  BY <1>1, <1>6, <1>7 DEF Scheduler!SetOn, SchedulerTypes
<1>8. CASE Scheduler!Execute
  <2>1. toExec' \in Seq(Names)
    BY <1>1, <1>8 DEF Scheduler!Execute
  <2> QED
    BY <1>1, <1>6, <1>8, <2>1 DEF Scheduler!Execute, SchedulerTypes
<1>9. CASE Scheduler!Tick
  <2>1. now' \in 0 .. MaxTime
    BY <1>1, <1>9 DEF Scheduler!Tick
  <2> QED
    BY <1>1, <1>6, <1>9, <2>1 DEF Scheduler!Tick, SchedulerTypes
<1>10. CASE Scheduler!Crash \/ Scheduler!Start
  <2>1. Named(<<>>) /\ <<>> \in Seq(Names)
    BY DEF Named
  <2> QED
    BY <1>1, <1>6, <1>10, <2>1 DEF Scheduler!Crash, Scheduler!Start, SchedulerTypes
<1>11. CASE UNCHANGED scheduler
  BY <1>1, <1>6, <1>11 DEF scheduler, SchedulerTypes
<1> QED
  BY <1>2, <1>3, <1>4, <1>5, <1>7, <1>8, <1>9, <1>10, <1>11 DEF Scheduler!Next

\* The types of the sessions and their tables: the invariants of TransactionsProofs.
SessionTypes == Sess!Inv /\ Sess!Ids /\ Sess!Bounded

\* Sess says of the types what Tx does: it extends the same module.
LEMMA SameTypes == Sess!TypeOK => Tx!TypeOK
BY Zenon DEF Sess!TypeOK, Tx!TypeOK, Sess!Row, Tx!Row, Sess!SavepointEntry, Tx!SavepointEntry,
    Sess!SavepointsNest, Tx!SavepointsNest

\* Every step of a session keeps them.
LEMMA SessionTypesStep ==
  ASSUME SessionTypes, Tx!Next \/ UNCHANGED transactions
  PROVE  SessionTypes'
<1>1. [Sess!Next]_(Sess!vars)
  <2>1. UNCHANGED transactions => UNCHANGED Sess!vars
    BY DEF transactions, Sess!vars, Sess!mgr
  <2> QED
    BY <2>1, SameTransactions
<1>2. Sess!Inv' /\ Sess!Ids'
  BY <1>1, SessAssumptions, Sess!InvStep, Sess!ManagerStep DEF SessionTypes
<1>3. Sess!Bounded'
  BY <1>1, SessAssumptions, Sess!BoundedStep DEF SessionTypes
<1> QED
  BY <1>2, <1>3 DEF SessionTypes

\* The invariants of all components that move or rest together.
Types ==
  /\ part \in {"locks", "server", "parallel", "scheduler", "transactions"}
  /\ LockInv /\ ServerTypes /\ ScanInv /\ ParallelTypes /\ SchedulerTypes /\ SessionTypes

\* They hold at first.
LEMMA TypesInit == AllInit => Types
<1> SUFFICES ASSUME AllInit
             PROVE  Types
  OBVIOUS
<1>1. Init /\ Server!Init /\ Parallel!Init /\ Scheduler!Init /\ Sess!Init
  BY SameTransactions DEF AllInit
<1>2. LockInv
  BY <1>1, NoLockFacts DEF Init, LockInv, TypeOK, WriteLockIsExclusive
<1>3. ServerTypes
  <2>1. q \in Seq(Clients) /\ DOMAIN q = {}
    BY <1>1 DEF Server!Init
  <2> QED
    BY <1>1, <2>1 DEF Server!Init, ServerTypes, Server!TypeOK, Server!IsInjective
<1>4. ScanInv
  BY <1>1, ScanInvInit
<1>5. ParallelTypes
  <2>1. /\ stop = FALSE /\ resize = "no" /\ task = [t \in Parallel!ThreadIds |-> Parallel!None]
        /\ \A t \in Parallel!ThreadIds : thread[t] # "busy"
    BY <1>1 DEF Parallel!Init
  <2>2. \A t \in Parallel!ThreadIds : (task[t] # Parallel!None) = (thread[t] = "busy")
    BY <2>1
  <2> QED
    BY <2>1, <2>2 DEF ParallelTypes
<1>6. SchedulerTypes
  <2>1. Named(<<>>) /\ <<>> \in Seq(Names) /\ 0 \in 0 .. MaxTime
    BY SchedulesAssumption DEF Named
  <2>2. ran \in [Names -> 0 .. MaxTime \cup {-1}]
    BY <1>1 DEF Scheduler!Init, Scheduler!Never
  <2> QED
    BY <1>1, <2>1, <2>2 DEF Scheduler!Init, SchedulerTypes
<1>7. SessionTypes
  BY <1>1, SessAssumptions, Sess!InvInit, Sess!BoundedInit DEF SessionTypes
<1> QED
  BY <1>2, <1>3, <1>4, <1>5, <1>6, <1>7 DEF Types, AllInit

\* They hold after every step.
LEMMA TypesStep == Types /\ [AllNext]_all => Types'
<1> SUFFICES ASSUME Types, [AllNext]_all
             PROVE  Types'
  OBVIOUS
<1>1. /\ [Next]_vars /\ (Server!Next \/ UNCHANGED server) /\ (Parallel!Next \/ UNCHANGED parallel)
      /\ (Scheduler!Next \/ UNCHANGED scheduler) /\ (Tx!Next \/ UNCHANGED transactions)
  BY DEF AllNext, all, InLocks, InServer, InParallel, InScheduler, InTransactions
<1>2. LockInv'
  BY <1>1, LockInvStep DEF Types
<1>3. ServerTypes' /\ SchedulerTypes' /\ SessionTypes'
  BY <1>1, ServerTypesStep, SchedulerTypesStep, SessionTypesStep DEF Types
<1>4. ScanInv' /\ ParallelTypes'
  BY <1>1, ScanStep, ParallelTypesStep DEF Types
<1>5. part' = part
  BY DEF AllNext, all, InLocks, InServer, InParallel, InScheduler, InTransactions
<1> QED
  BY <1>2, <1>3, <1>4, <1>5 DEF Types

\* They are what the components' type invariants say.
LEMMA TypesAreTypes == Types => AllTypeOK
<1> SUFFICES ASSUME Types
             PROVE  AllTypeOK
  OBVIOUS
<1>1. TypeOK /\ Server!TypeOK
  BY DEF Types, LockInv, ServerTypes
<1>2. Parallel!TypeOK
  BY DEF Types, ScanInv, ScanShape, ParallelTypes, Parallel!TypeOK, Parallel!ThreadIds
<1>3. Scheduler!TypeOK
  BY DEF Types, SchedulerTypes, Scheduler!TypeOK, Scheduler!Event, Scheduler!Never, Named, Entry
<1>4. Tx!TypeOK
  BY SessAssumptions, Sess!BoundsGiveTypes, SameTypes DEF Types, SessionTypes
<1>5. part \in {"locks", "server", "parallel", "scheduler", "transactions"}
  BY DEF Types
<1> QED
  BY <1>1, <1>2, <1>3, <1>4, <1>5 DEF AllTypeOK

\* The state of the locks, of both pools, of the scheduler and of the sessions keeps its shape:
\* no client is queued or served twice (enqueue, workerLoop), a thread has a task while it is
\* busy and only then, an event's name is used once, also in a torn file (saveEvents_), and a
\* session's id is active for as long as its transaction is open.
THEOREM SharedStateIsWellFormed == AllSpec => []AllTypeOK
BY TypesInit, TypesStep, TypesAreTypes, PTL DEF AllSpec
=============================================================================
