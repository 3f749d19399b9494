---------------------------- MODULE StorageProofs ----------------------------
(***************************************************************************)
(* The connection pool, the replacement of the database file and the       *)
(* recovery from a session's log, for any number of clients, connections,  *)
(* writers, pieces of a file, transactions and operations.                 *)
(*                                                                         *)
(* A component moves by its own steps and rests while another moves, so an *)
(* invariant of the component is one of the composition.                   *)
(***************************************************************************)
EXTENDS MCStorage, DurabilityProofs, SelectionsProofs, TLAPS
-----------------------------------------------------------------------------
(* The connection pool *)

States == {"out", "waiting", "notified", "active"}

\* The clients in a state.
Those(st) == {c \in Clients : status[c] = st}

\* No connection has two places.
Apart ==
  /\ \A c, d \in Clients : conn[c] = conn[d] /\ conn[c] # NoConn => c = d
  /\ \A i \in DOMAIN idle, c \in Clients : idle[i] # conn[c]
  /\ \A i, j \in DOMAIN idle : idle[i] = idle[j] => i = j

\* The counters, and that there are always connections nobody has.
Counted ==
  /\ active = Cardinality(Those("active"))
  /\ total = active + Len(idle)
  /\ 2 * size[2] <= Cardinality(Conns) /\ 2 * total <= Cardinality(Conns)

\* As many waiters have been notified as there are connections to be had: the idle ones,
\* dead or not, or what the pool may grow by.  Nobody waits in a pool that is closing.
Woken ==
  /\ closing => Those("waiting") = {}
  /\ ~expired /\ Those("waiting") # {} /\ "configure" \notin warming =>
       /\ Len(idle) <= Cardinality(Those("notified"))
       /\ size[2] <= active + Cardinality(Those("notified"))

PoolInv == Pool!TypeOK /\ Apart /\ Counted /\ Woken

\* The sizes of sets, inside the pool's module and outside.
LEMMA PoolCardinality ==
  ASSUME NEW S
  PROVE  Pool!Cardinality(S) = Cardinality(S)
BY DEF Pool!Cardinality, Cardinality

\* The type invariant of the pool, in the terms that the proofs use.
LEMMA PoolTypes ==
  ASSUME Pool!TypeOK
  PROVE  /\ idle \in Seq(Conns) /\ Len(idle) \in Nat /\ DOMAIN idle = 1 .. Len(idle)
         /\ \A i \in DOMAIN idle : idle[i] \in Conns
         /\ conn \in [Clients -> Conns \cup {NoConn}] /\ status \in [Clients -> States]
         /\ \A c \in Clients : conn[c] # NoConn <=> status[c] = "active"
         /\ total \in Nat /\ active \in Nat
         /\ size \in Nat \X Nat /\ size[1] \in Nat /\ size[2] \in Nat /\ size[1] <= size[2]
         /\ \A st : IsFiniteSet(Those(st)) /\ Cardinality(Those(st)) \in Nat
<1>1. idle \in Seq(Conns)
  BY DEF Pool!TypeOK
<1>2. Len(idle) \in Nat /\ DOMAIN idle = 1 .. Len(idle) /\ \A i \in DOMAIN idle : idle[i] \in Conns
  BY <1>1, LenProperties
<1>3. ASSUME NEW st
      PROVE  IsFiniteSet(Those(st)) /\ Cardinality(Those(st)) \in Nat
  <2>1. Those(st) \in SUBSET Clients
    BY DEF Those
  <2>2. IsFiniteSet(Those(st))
    BY <2>1, PoolAssumption, FS_Subset
  <2> QED
    BY <2>2, FS_CardinalityType
<1>4. size \in Nat \X Nat /\ size[1] <= size[2]
  BY DEF Pool!TypeOK
<1>5. size[1] \in Nat /\ size[2] \in Nat
  BY <1>4
<1>6. \A c \in Clients : conn[c] # NoConn <=> status[c] = "active"
  BY DEF Pool!TypeOK
<1>7. conn \in [Clients -> Conns \cup {NoConn}] /\ status \in [Clients -> States] /\ total \in Nat /\ active \in Nat
  BY DEF Pool!TypeOK, States
<1> QED
  BY <1>1, <1>2, <1>3, <1>4, <1>5, <1>6, <1>7

\* A finite set as a sequence, which createConnection takes its ids from.
LEMMA SetAsSeq ==
  ASSUME NEW S, IsFiniteSet(S)
  PROVE  /\ Cardinality(S) \in Nat /\ Pool!SetToSeq(S) \in [1 .. Cardinality(S) -> S]
         /\ \A i, j \in 1 .. Cardinality(S) : Pool!SetToSeq(S)[i] = Pool!SetToSeq(S)[j] => i = j
<1>1. Cardinality(S) \in Nat /\ ExistsBijection(1 .. Cardinality(S), S)
  BY FS_CardinalityType
<1>2. PICK f \in [1 .. Cardinality(S) -> S] : \A i, j \in 1 .. Cardinality(S) : f[i] = f[j] => i = j
  BY <1>1 DEF ExistsBijection, Bijection, Injection, IsInjective
<1>3. Pool!SetToSeq(S) = CHOOSE g \in [1 .. Cardinality(S) -> S] : \A i, j \in DOMAIN g : g[i] = g[j] => i = j
  BY PoolCardinality DEF Pool!SetToSeq, Pool!IsInjective
<1>4. \E g \in [1 .. Cardinality(S) -> S] : \A i, j \in DOMAIN g : g[i] = g[j] => i = j
  BY <1>2
<1>5. /\ Pool!SetToSeq(S) \in [1 .. Cardinality(S) -> S]
      /\ \A i, j \in DOMAIN Pool!SetToSeq(S) : Pool!SetToSeq(S)[i] = Pool!SetToSeq(S)[j] => i = j
  BY <1>3, <1>4
<1> QED
  BY <1>1, <1>5

\* Enough connections are unused.
LEMMA UnusedSuffice ==
  ASSUME Pool!TypeOK, Apart, Counted
  PROVE  /\ IsFiniteSet(Pool!Unused)
         /\ Cardinality(Pool!Unused) \in Nat
         /\ Cardinality(Conns) <= Cardinality(Pool!Unused) + total
<1> USE PoolTypes
<1> DEFINE A == Those("active")
           f == [c \in A |-> conn[c]]
           g == [i \in 1 .. Len(idle) |-> idle[i]]
           R == {idle[i] : i \in 1 .. Len(idle)}
           H == {conn[c] : c \in A}
<1>1. IsFiniteSet(H) /\ Cardinality(H) <= active
  <2>1. f \in Surjection(A, H)
    BY DEF Surjection
  <2>2. IsFiniteSet(A) /\ Cardinality(A) = active
    BY DEF Counted
  <2> HIDE DEF f, A, H
  <2> QED
    BY <2>1, <2>2, FS_Surjection
<1>2. IsFiniteSet(R) /\ Cardinality(R) <= Len(idle)
  <2>1. g \in Surjection(1 .. Len(idle), R)
    BY DEF Surjection
  <2>2. IsFiniteSet(1 .. Len(idle)) /\ Cardinality(1 .. Len(idle)) = Len(idle)
    <3>1. 1 \in Int /\ Len(idle) \in Int /\ (1 > Len(idle) <=> Len(idle) = 0) /\ Len(idle) - 1 + 1 = Len(idle)
      OBVIOUS
    <3> QED
      BY <3>1, FS_Interval
  <2> HIDE DEF g, R
  <2> QED
    BY <2>1, <2>2, FS_Surjection
<1>3. Pool!Unused = Conns \ (H \cup R)
  <2>1. Pool!Held = H
    BY DEF Pool!Held, Those
  <2>2. Pool!Range(idle) = R
    BY DEF Pool!Range
  <2> QED
    BY <2>1, <2>2 DEF Pool!Unused
<1> HIDE DEF H, R
<1>4. IsFiniteSet(H \cup R) /\ Cardinality(H \cup R) <= active + Len(idle) /\ Cardinality(H \cup R) \in Nat
  <2>1. IsFiniteSet(H \cup R) /\ Cardinality(H \cup R) = Cardinality(H) + Cardinality(R) - Cardinality(H \cap R)
    BY <1>1, <1>2, FS_Union
  <2>2. IsFiniteSet(H \cap R)
    BY <1>1, FS_Intersection
  <2>3. Cardinality(H) \in Nat /\ Cardinality(R) \in Nat /\ Cardinality(H \cap R) \in Nat /\ Cardinality(H \cup R) \in Nat
    BY <1>1, <1>2, <2>1, <2>2, FS_CardinalityType
  <2> QED
    BY <1>1, <1>2, <2>1, <2>3
<1>5. /\ IsFiniteSet(Conns \ (H \cup R))
      /\ Cardinality(Conns \ (H \cup R)) = Cardinality(Conns) - Cardinality(Conns \cap (H \cup R))
  BY PoolAssumption, FS_Difference
<1>6. Cardinality(Conns \cap (H \cup R)) <= Cardinality(H \cup R)
  BY <1>4, FS_Intersection
<1>7. /\ Cardinality(Conns) \in Nat /\ Cardinality(Conns \cap (H \cup R)) \in Nat
      /\ Cardinality(Conns \ (H \cup R)) \in Nat
  BY <1>4, <1>5, PoolAssumption, FS_CardinalityType, FS_Intersection
<1>8. total = active + Len(idle)
  BY DEF Counted
<1> QED
  BY SMTT(40), <1>3, <1>4, <1>5, <1>6, <1>7, <1>8

\* createConnection gives ids that nobody has, each once.
LEMMA NewAreUnused ==
  ASSUME Pool!TypeOK, Apart, Counted, NEW n \in Nat, n + total <= Cardinality(Conns)
  PROVE  /\ Pool!New(n) \in Seq(Conns) /\ Len(Pool!New(n)) = n /\ DOMAIN Pool!New(n) = 1 .. n
         /\ \A i \in 1 .. n : /\ Pool!New(n)[i] \in Conns
                              /\ \A c \in Clients : Pool!New(n)[i] # conn[c]
                              /\ \A k \in DOMAIN idle : Pool!New(n)[i] # idle[k]
         /\ \A i, j \in 1 .. n : Pool!New(n)[i] = Pool!New(n)[j] => i = j
<1> USE PoolTypes
<1> DEFINE U == Pool!Unused
           u == Pool!SetToSeq(U)
<1>1. IsFiniteSet(U) /\ Cardinality(U) \in Nat /\ Cardinality(Conns) <= Cardinality(U) + total
  BY UnusedSuffice
<1>2. /\ u \in [1 .. Cardinality(U) -> U]
      /\ \A i, j \in 1 .. Cardinality(U) : u[i] = u[j] => i = j
  BY <1>1, SetAsSeq
<1>3. Cardinality(Conns) \in Nat
  BY PoolAssumption, FS_CardinalityType
<1>4. n <= Cardinality(U)
  BY <1>1, <1>3
<1>5. ASSUME NEW x \in U
      PROVE  x \in Conns /\ (\A c \in Clients : x # conn[c]) /\ \A k \in DOMAIN idle : x # idle[k]
  <2>1. x \in Conns /\ x \notin Pool!Held /\ x \notin Pool!Range(idle)
    BY DEF Pool!Unused
  <2>2. x # NoConn
    BY <2>1, PoolAssumption
  <2> QED
    BY <2>1, <2>2 DEF Pool!Held, Pool!Range
<1>6. Pool!New(n) = SubSeq(u, 1, n)
  BY DEF Pool!New
<1> HIDE DEF u, U
<1>7. \A i \in 1 .. n : u[i] \in U /\ u[i] \in Conns
  <2>1. \A i \in 1 .. n : i \in 1 .. Cardinality(U)
    BY <1>1, <1>4
  <2> QED
    BY <1>2, <1>5, <2>1
<1>8. /\ SubSeq(u, 1, n) \in Seq(Conns)
      /\ Len(SubSeq(u, 1, n)) = IF 1 <= n THEN n - 1 + 1 ELSE 0
      /\ \A i \in 1 .. n - 1 + 1 : SubSeq(u, 1, n)[i] = u[1 + i - 1]
  <2>1. 1 \in Int /\ n \in Int
    OBVIOUS
  <2> QED
    BY <1>7, <2>1, SubSeqProperties
<1>9. Len(SubSeq(u, 1, n)) = n /\ DOMAIN SubSeq(u, 1, n) = 1 .. n
  BY <1>8, LenProperties
<1>10. \A i \in 1 .. n : SubSeq(u, 1, n)[i] = u[i]
  <2>1. n - 1 + 1 = n /\ \A i \in 1 .. n : 1 + i - 1 = i
    OBVIOUS
  <2> QED
    BY <1>8, <2>1
<1>11. \A i, j \in 1 .. n : u[i] = u[j] => i = j
  <2>1. \A i \in 1 .. n : i \in 1 .. Cardinality(U)
    BY <1>1, <1>4
  <2> QED
    BY <1>2, <2>1
<1> QED
  BY <1>5, <1>6, <1>7, <1>8, <1>9, <1>10, <1>11

\* New connections behind some of the idle ones: every connection still has one place.
LEMMA NewKeepApart ==
  ASSUME Pool!TypeOK, Apart, Counted, NEW n \in Nat, n + total <= Cardinality(Conns),
         NEW k \in Seq(Conns), \A i \in DOMAIN k : \E m \in DOMAIN idle : k[i] = idle[m],
         \A i, j \in DOMAIN k : k[i] = k[j] => i = j,
         idle' = k \o Pool!New(n), conn' = conn
  PROVE  Apart' /\ idle' \in Seq(Conns) /\ Len(idle') = Len(k) + n
<1> USE PoolTypes
<1> DEFINE new == Pool!New(n)
<1>1. /\ new \in Seq(Conns) /\ Len(new) = n
      /\ \A i \in 1 .. n : /\ \A c \in Clients : new[i] # conn[c]
                           /\ \A m \in DOMAIN idle : new[i] # idle[m]
      /\ \A i, j \in 1 .. n : new[i] = new[j] => i = j
  BY NewAreUnused
<1> HIDE DEF new
<1>2. Len(k) \in Nat /\ DOMAIN k = 1 .. Len(k)
  BY LenProperties
<1>3. /\ k \o new \in Seq(Conns) /\ Len(k \o new) = Len(k) + n
      /\ \A i \in 1 .. Len(k) + n : (k \o new)[i] = IF i <= Len(k) THEN k[i] ELSE new[i - Len(k)]
  BY SMTT(40), <1>1, ConcatProperties
<1>4. idle' = k \o new
  BY DEF new
<1>5. DOMAIN idle' = 1 .. Len(k) + n
  BY <1>3, <1>4, LenProperties
<1>6. ASSUME NEW i \in DOMAIN idle'
      PROVE  \/ i \in DOMAIN k /\ idle'[i] = k[i]
             \/ i - Len(k) \in 1 .. n /\ idle'[i] = new[i - Len(k)] /\ i \notin DOMAIN k
  BY SMTT(40), <1>2, <1>3, <1>4, <1>5
<1>7. ASSUME NEW i \in DOMAIN idle', NEW c \in Clients
      PROVE  idle'[i] # conn[c]
  <2>1. CASE i \in DOMAIN k /\ idle'[i] = k[i]
    BY <2>1 DEF Apart
  <2>2. CASE i - Len(k) \in 1 .. n /\ idle'[i] = new[i - Len(k)]
    BY <1>1, <2>2
  <2> QED
    BY <1>6, <2>1, <2>2
<1>8. ASSUME NEW i \in DOMAIN idle', NEW j \in DOMAIN idle', idle'[i] = idle'[j]
      PROVE  i = j
  <2>1. i \in Nat /\ j \in Nat
    BY <1>2, <1>5
  <2>2. CASE i \in DOMAIN k /\ j \in DOMAIN k
    BY <1>6, <1>8, <2>2
  <2>3. CASE i \notin DOMAIN k /\ j \notin DOMAIN k
    <3>1. i - Len(k) = j - Len(k)
      BY SMTT(40), <1>1, <1>6, <1>8, <2>3
    <3> QED
      BY <1>2, <2>1, <3>1
  <2>4. CASE i \in DOMAIN k /\ j \notin DOMAIN k
    BY SMTT(40), <1>1, <1>6, <1>8, <2>4
  <2>5. CASE i \notin DOMAIN k /\ j \in DOMAIN k
    BY SMTT(40), <1>1, <1>6, <1>8, <2>5
  <2> QED
    BY <2>2, <2>3, <2>4, <2>5
<1>9. \A c, d \in Clients : conn'[c] = conn'[d] /\ conn'[c] # NoConn => c = d
  BY DEF Apart
<1> QED
  BY ZenonT(60), <1>3, <1>4, <1>7, <1>8, <1>9 DEF Apart

\* What is left of a sequence behind its f-th element.
LEMMA RestOfSeq ==
  ASSUME NEW S, NEW s \in Seq(S), NEW f \in 1 .. Len(s)
  PROVE  /\ SubSeq(s, f + 1, Len(s)) \in Seq(S) /\ Len(SubSeq(s, f + 1, Len(s))) = Len(s) - f
         /\ DOMAIN SubSeq(s, f + 1, Len(s)) = 1 .. Len(s) - f
         /\ \A i \in 1 .. Len(s) - f : SubSeq(s, f + 1, Len(s))[i] = s[f + i] /\ f + i \in DOMAIN s
<1> DEFINE n == Len(s)
           r == SubSeq(s, f + 1, n)
<1>1. n \in Nat /\ DOMAIN s = 1 .. n /\ \A i \in 1 .. n : s[i] \in S
  BY LenProperties
<1>2. f \in Nat /\ 1 <= f /\ f <= n
  BY <1>1
<1> HIDE DEF n
<1>3. f + 1 \in Int /\ n \in Int /\ \A i \in f + 1 .. n : s[i] \in S
  BY <1>1, <1>2
<1>4. /\ r \in Seq(S)
      /\ Len(r) = IF f + 1 <= n THEN n - (f + 1) + 1 ELSE 0
      /\ \A i \in 1 .. n - (f + 1) + 1 : r[i] = s[f + 1 + i - 1]
  BY <1>3, SubSeqProperties
<1> HIDE DEF r
<1>5. n - (f + 1) + 1 = n - f /\ Len(r) = n - f
  BY <1>1, <1>2, <1>4
<1>6. \A i \in 1 .. n - f : f + 1 + i - 1 = f + i /\ f + i \in 1 .. n
  BY <1>1, <1>2
<1>7. DOMAIN r = 1 .. Len(r)
  BY <1>4, LenProperties
<1> QED
  BY <1>1, <1>4, <1>5, <1>6, <1>7 DEF n, r

\* A client changes its state.
LEMMA StateChange ==
  ASSUME Pool!TypeOK, NEW c \in Clients, NEW st \in States, status[c] # st,
         status' = [status EXCEPT ![c] = st]
  PROVE  /\ status' \in [Clients -> States]
         /\ Those(st)' = Those(st) \cup {c} /\ c \notin Those(st)
         /\ Cardinality(Those(st)') = Cardinality(Those(st)) + 1
         /\ \A other \in States \ {st} :
              /\ Those(other)' = Those(other) \ {c}
              /\ Cardinality(Those(other)') =
                   IF status[c] = other THEN Cardinality(Those(other)) - 1 ELSE Cardinality(Those(other))
<1> USE PoolTypes
<1>1. status' \in [Clients -> States]
  OBVIOUS
<1>2. Those(st)' = Those(st) \cup {c} /\ c \notin Those(st)
  BY DEF Those
<1>3. Cardinality(Those(st) \cup {c}) = Cardinality(Those(st)) + 1
  BY <1>2, FS_AddElement
<1>4. ASSUME NEW other \in States \ {st}
      PROVE  /\ Those(other)' = Those(other) \ {c}
             /\ Cardinality(Those(other)') =
                  IF status[c] = other THEN Cardinality(Those(other)) - 1 ELSE Cardinality(Those(other))
  <2>1. Those(other)' = Those(other) \ {c} /\ (c \in Those(other) <=> status[c] = other)
    BY DEF Those
  <2>2. Cardinality(Those(other) \ {c}) =
          IF c \in Those(other) THEN Cardinality(Those(other)) - 1 ELSE Cardinality(Those(other))
    BY FS_RemoveElement
  <2> QED
    BY <2>1, <2>2
<1> QED
  BY <1>1, <1>2, <1>3, <1>4

\* Where the first healthy connection is, and how many acquire discards on the way.
LEMMA FirstHealthyFacts ==
  ASSUME Pool!TypeOK
  PROVE  \/ Pool!FirstHealthy = 0 /\ Pool!Discarded = Len(idle)
         \/ Pool!FirstHealthy \in 1 .. Len(idle) /\ Pool!Discarded = Pool!FirstHealthy - 1
<1> USE PoolTypes
<1>1. CASE Pool!Healthy = {}
  BY <1>1 DEF Pool!FirstHealthy, Pool!Discarded
<1>2. CASE Pool!Healthy # {}
  <2>1. Pool!Healthy \in SUBSET Nat /\ Pool!Healthy \subseteq DOMAIN idle
    BY DEF Pool!Healthy
  <2>2. \E i \in Pool!Healthy : \A j \in Pool!Healthy : i <= j
    BY <1>2, <2>1, NatMin
  <2>3. Pool!FirstHealthy \in Pool!Healthy
    BY <1>2, <2>2 DEF Pool!FirstHealthy
  <2>4. Pool!FirstHealthy \in 1 .. Len(idle) /\ Pool!FirstHealthy # 0
    BY <2>1, <2>3
  <2> QED
    BY <2>4 DEF Pool!Discarded
<1> QED
  BY <1>1, <1>2

\* acquire: an idle connection, a new one, or a wait.
LEMMA PoolAcquire ==
  ASSUME PoolInv, NEW c \in Clients, Pool!Acquire(c)
  PROVE  PoolInv'
<1> USE PoolTypes DEF PoolInv
<1>1. /\ status[c] \in {"out", "notified"} /\ ~closing
      /\ UNCHANGED <<size, closing, draining, warming, expired>>
      /\ conn[c] = NoConn
  BY DEF Pool!Acquire
<1>2. total = active + Len(idle) /\ Cardinality(Conns) \in Nat
  BY PoolAssumption, FS_CardinalityType DEF Counted
<1>3. CASE Pool!TakeIdle(c)
  <2>1. PICK F \in 1 .. Len(idle) :
             /\ conn' = [conn EXCEPT ![c] = idle[F]] /\ idle' = SubSeq(idle, F + 1, Len(idle))
             /\ total' = total - (F - 1) /\ active' = active + 1
             /\ status' = [status EXCEPT ![c] = "active"] /\ dead' = dead
    BY <1>3, FirstHealthyFacts DEF Pool!TakeIdle
  <2>0. F \in Nat /\ 1 <= F /\ F <= Len(idle) /\ Len(idle) \in Nat /\ F \in DOMAIN idle
    OBVIOUS
  <2>2. /\ idle' \in Seq(Conns) /\ Len(idle') = Len(idle) - F /\ DOMAIN idle' = 1 .. Len(idle) - F
        /\ \A i \in 1 .. Len(idle) - F : idle'[i] = idle[F + i] /\ F + i \in DOMAIN idle
    BY ZenonT(60), <2>1, RestOfSeq
  <2>3. /\ status' \in [Clients -> States] /\ Cardinality(Those("active")') = Cardinality(Those("active")) + 1
        /\ Those("waiting")' = Those("waiting")
        /\ Cardinality(Those("notified")') >= Cardinality(Those("notified")) - 1
        /\ Cardinality(Those("notified")') \in Nat
    <3>1. status[c] # "active"
      BY <1>1
    <3>2. /\ status' \in [Clients -> States] /\ Cardinality(Those("active")') = Cardinality(Those("active")) + 1
          /\ Those("waiting")' = Those("waiting") \ {c} /\ Those("notified")' = Those("notified") \ {c}
          /\ Cardinality(Those("notified")') =
               IF status[c] = "notified" THEN Cardinality(Those("notified")) - 1 ELSE Cardinality(Those("notified"))
      BY ZenonT(60), <2>1, <3>1, StateChange DEF States
    <3>3. IsFiniteSet(Those("notified") \ {c})
      BY FS_RemoveElement
    <3>4. Cardinality(Those("notified")') \in Nat
      BY <3>2, <3>3, FS_CardinalityType
    <3> QED
      BY <1>1, <3>2, <3>4 DEF Those
  <2>4. idle[F] \in Conns /\ idle[F] # NoConn
    BY <2>1, PoolAssumption
  <2>5. /\ conn' \in [Clients -> Conns \cup {NoConn}] /\ conn'[c] = idle[F]
        /\ \A d \in Clients \ {c} : conn'[d] = conn[d] /\ status'[d] = status[d]
        /\ status'[c] = "active"
    BY <2>1, <2>4
  <2>10. /\ active \in Nat /\ total \in Nat /\ size[2] \in Nat
         /\ Cardinality(Those("notified")) \in Nat /\ Cardinality(Those("active")) \in Nat
    OBVIOUS
  <2>11. /\ total' \in Nat /\ active' \in Nat /\ Len(idle') \in Nat
         /\ total' = active' + Len(idle') /\ total' <= total /\ Len(idle') <= Len(idle) - 1
    <3> HIDE PoolTypes
    <3>1. total' = total - (F - 1) /\ active' = active + 1 /\ Len(idle') = Len(idle) - F
      BY <2>1, <2>2
    <3>2. total = active + Len(idle)
      BY <1>2
    <3> HIDE <2>1, <2>2, <1>2
    <3>3. Len(idle') \in Nat /\ Len(idle') <= Len(idle) - 1
      BY <2>0, <3>1
    <3>4. total' = active' + Len(idle')
      BY <2>0, <2>10, <3>1, <3>2
    <3> QED
      BY <2>0, <2>10, <3>1, <3>2, <3>3, <3>4
  <2>6. Pool!TypeOK'
    BY <1>1, <2>1, <2>2, <2>3, <2>4, <2>5, <2>11 DEF Pool!TypeOK, States
  <2>7. Apart'
    <3>1. ASSUME NEW d \in Clients
          PROVE  idle[F] # conn[d]
      BY <2>0 DEF Apart
    <3>2. \A d, e \in Clients : conn'[d] = conn'[e] /\ conn'[d] # NoConn => d = e
      BY <2>5, <3>1 DEF Apart
    <3>3. ASSUME NEW i \in DOMAIN idle'
          PROVE  idle'[i] = idle[F + i] /\ F + i \in DOMAIN idle /\ F + i # F /\ i \in Nat
      <4> HIDE PoolTypes
      <4>1. i \in 1 .. Len(idle) - F
        BY <2>2
      <4>2. i \in Nat /\ F + i # F
        BY <2>0, <4>1
      <4> QED
        BY <2>2, <4>1, <4>2
    <3>4. ASSUME NEW i \in DOMAIN idle', NEW d \in Clients
          PROVE  idle'[i] # conn'[d]
      <4>1. idle'[i] # idle[F]
        BY <2>0, <3>3 DEF Apart
      <4>2. idle'[i] # conn[d]
        BY <3>3 DEF Apart
      <4> QED
        BY <2>5, <4>1, <4>2
    <3>5. ASSUME NEW i \in DOMAIN idle', NEW j \in DOMAIN idle', idle'[i] = idle'[j]
          PROVE  i = j
      <4>1. F + i = F + j
        BY <3>3, <3>5 DEF Apart
      <4> HIDE PoolTypes
      <4> QED
        BY <2>0, <3>3, <4>1
    <3> QED
      BY <3>2, <3>4, <3>5 DEF Apart
  <2>8. Counted'
    <3>1. 2 * total <= Cardinality(Conns) /\ 2 * size[2] <= Cardinality(Conns) /\ active = Cardinality(Those("active"))
      BY DEF Counted
    <3> HIDE PoolTypes
    <3>2. 2 * total' <= Cardinality(Conns)
      <4>1. total' \in Nat /\ total' <= total
        BY <2>11
      <4> QED
        BY <1>2, <2>10, <3>1, <4>1
    <3>3. active' = Cardinality(Those("active")')
      BY <2>1, <2>3, <2>10, <3>1
    <3> QED
      BY <1>1, <2>11, <3>1, <3>2, <3>3 DEF Counted
  <2>9. Woken'
    <3> SUFFICES ASSUME ~expired, Those("waiting") # {}, "configure" \notin warming
                 PROVE  /\ Len(idle') <= Cardinality(Those("notified")')
                        /\ size[2] <= active' + Cardinality(Those("notified")')
      BY <1>1, <2>3 DEF Woken
    <3>1. Len(idle) <= Cardinality(Those("notified")) /\ size[2] <= active + Cardinality(Those("notified"))
      BY DEF Woken
    <3> HIDE PoolTypes
    <3> QED
      BY SMTT(40), <2>0, <2>1, <2>3, <2>10, <2>11, <3>1
  <2> QED
    BY <2>6, <2>7, <2>8, <2>9
<1>4. CASE Pool!Grow(c)
  <2>1. /\ Pool!Discarded = Len(idle) /\ active < size[2]
        /\ conn' = [conn EXCEPT ![c] = Pool!New(1)[1]] /\ idle' = <<>>
        /\ total' = active + 1 /\ active' = active + 1
        /\ status' = [status EXCEPT ![c] = "active"] /\ dead' \subseteq dead
    <3>1. Pool!Discarded = Len(idle)
      BY <1>4, FirstHealthyFacts DEF Pool!Grow
    <3>2. total - Pool!Discarded = active
      BY <1>2, <3>1
    <3> QED
      BY <1>4, <3>1, <3>2 DEF Pool!Grow
  <2>2. Pool!New(1)[1] \in Conns /\ \A d \in Clients : Pool!New(1)[1] # conn[d]
    <3>1. 1 + total <= Cardinality(Conns)
      BY SMTT(40), <1>2, <2>1 DEF Counted
    <3>2. 1 \in 1 .. 1
      OBVIOUS
    <3> QED
      BY <3>1, <3>2, NewAreUnused
  <2> DEFINE new == Pool!New(1)[1]
  <2> HIDE DEF new
  <2>3. new # NoConn
    BY <2>2, PoolAssumption DEF new
  <2>4. /\ status' \in [Clients -> States] /\ Cardinality(Those("active")') = Cardinality(Those("active")) + 1
        /\ Those("waiting")' = Those("waiting")
        /\ Cardinality(Those("notified")') >= Cardinality(Those("notified")) - 1
        /\ Cardinality(Those("notified")') \in Nat
    <3>1. status[c] # "active"
      BY <1>1
    <3>2. /\ status' \in [Clients -> States] /\ Cardinality(Those("active")') = Cardinality(Those("active")) + 1
          /\ Those("waiting")' = Those("waiting") \ {c} /\ Those("notified")' = Those("notified") \ {c}
          /\ Cardinality(Those("notified")') =
               IF status[c] = "notified" THEN Cardinality(Those("notified")) - 1 ELSE Cardinality(Those("notified"))
      BY ZenonT(60), <2>1, <3>1, StateChange DEF States
    <3>3. IsFiniteSet(Those("notified") \ {c})
      BY FS_RemoveElement
    <3>4. Cardinality(Those("notified")') \in Nat
      BY <3>2, <3>3, FS_CardinalityType
    <3> QED
      BY <1>1, <3>2, <3>4 DEF Those
  <2>5. /\ conn' \in [Clients -> Conns \cup {NoConn}] /\ conn'[c] = new
        /\ \A d \in Clients \ {c} : conn'[d] = conn[d] /\ status'[d] = status[d]
        /\ status'[c] = "active" /\ total' \in Nat /\ active' \in Nat
        /\ idle' \in Seq(Conns) /\ Len(idle') = 0 /\ DOMAIN idle' = {}
    BY <2>1, <2>2, EmptySeq DEF new
  <2>6. Pool!TypeOK'
    BY <1>1, <2>1, <2>3, <2>4, <2>5 DEF Pool!TypeOK, States
  <2>7. Apart'
    BY <2>2, <2>3, <2>5 DEF Apart, new
  <2>8. Counted'
    <3>1. 2 * size[2] <= Cardinality(Conns) /\ active = Cardinality(Those("active")) /\ size' = size
      BY <1>1 DEF Counted
    <3>2. active \in Nat /\ size[2] \in Nat /\ Cardinality(Conns) \in Nat
      BY <1>2
    <3>3. total' = active + 1 /\ active' = active + 1 /\ active < size[2]
      BY <2>1
    <3> HIDE PoolTypes
    <3>4. 2 * total' <= Cardinality(Conns)
      BY <3>1, <3>2, <3>3
    <3>5. active' = Cardinality(Those("active")')
      BY <2>4, <3>1, <3>3
    <3>6. total' = active' + Len(idle')
      BY <2>5, <3>2, <3>3
    <3> QED
      BY <3>1, <3>4, <3>5, <3>6 DEF Counted
  <2>9. Woken'
    <3> SUFFICES ASSUME ~expired, Those("waiting") # {}, "configure" \notin warming
                 PROVE  /\ Len(idle') <= Cardinality(Those("notified")')
                        /\ size[2] <= active' + Cardinality(Those("notified")')
      BY <1>1, <2>4 DEF Woken
    <3>1. size[2] <= active + Cardinality(Those("notified"))
      BY DEF Woken
    <3> QED
      BY SMTT(40), <2>1, <2>4, <2>5, <3>1
  <2> QED
    BY <2>6, <2>7, <2>8, <2>9
<1>5. CASE Pool!Wait(c)
  <2>1. /\ size[2] <= active /\ idle' = <<>> /\ total' = active
        /\ status' = [status EXCEPT ![c] = "waiting"] /\ UNCHANGED <<conn, dead, active>>
    <3>1. Pool!Discarded = Len(idle)
      BY <1>5, FirstHealthyFacts DEF Pool!Wait
    <3>2. total - Pool!Discarded = active
      BY <1>2, <3>1
    <3> QED
      BY <1>5, <3>1, <3>2 DEF Pool!Wait
  <2>2. /\ status' \in [Clients -> States] /\ Those("active")' = Those("active")
        /\ Those("notified")' = Those("notified") \ {c}
    <3>1. status[c] # "waiting"
      BY <1>1
    <3>2. /\ status' \in [Clients -> States] /\ Those("active")' = Those("active") \ {c}
          /\ Those("notified")' = Those("notified") \ {c}
      BY <2>1, <3>1, StateChange DEF States
    <3> QED
      BY <1>1, <3>2 DEF Those
  <2>3. Cardinality(Those("notified")') \in Nat
    BY <2>2, FS_RemoveElement, FS_CardinalityType
  <2>4. idle' \in Seq(Conns) /\ Len(idle') = 0 /\ DOMAIN idle' = {}
    BY <2>1, EmptySeq
  <2>5. \A d \in Clients : (conn'[d] # NoConn) = (status'[d] = "active")
    BY <1>1, <2>1 DEF Pool!TypeOK
  <2>6. Pool!TypeOK'
    BY <1>1, <2>1, <2>2, <2>4, <2>5 DEF Pool!TypeOK, States
  <2>7. Apart'
    BY <2>1, <2>4 DEF Apart
  <2>8. Counted'
    BY <1>1, <1>2, <2>1, <2>2, <2>4 DEF Counted
  <2>9. Woken'
    BY <1>1, <2>1, <2>3, <2>4 DEF Woken
  <2> QED
    BY <2>6, <2>7, <2>8, <2>9
<1> QED
  BY <1>3, <1>4, <1>5 DEF Pool!Acquire

\* No entry of s is there twice.
NoRepeats(s) == \A i, j \in DOMAIN s : s[i] = s[j] => i = j
\* Every element of G is an entry of s.
Occur(G, s) == \A x \in G : \E i \in DOMAIN s : s[i] = x
\* Where the other entries of s are.
Others(G, s) == {i \in DOMAIN s : s[i] \notin G}

\* What is kept of a sequence without repetitions when some of its entries are dropped.
LEMMA DropsExactly ==
  ASSUME NEW V, NEW s \in Seq(V), NoRepeats(s), NEW G, Occur(G, s), NEW K, K = Others(G, s)
  PROVE  /\ Cardinality(G) \in Nat /\ Picked(s, K) \in Seq(V) /\ Len(Picked(s, K)) \in Nat
         /\ Len(Picked(s, K)) = Len(s) - Cardinality(G)
         /\ \A i \in DOMAIN Picked(s, K) : \E m \in DOMAIN s : Picked(s, K)[i] = s[m]
         /\ \A i, j \in DOMAIN Picked(s, K) : Picked(s, K)[i] = Picked(s, K)[j] => i = j
<1> USE DEF NoRepeats, Occur, Others
<1> DEFINE n == Len(s)
           D == 1 .. n
           L == D \ K
           f == [i \in L |-> s[i]]
<1>1. n \in Nat /\ DOMAIN s = D
  BY LenProperties
<1>2. IsFiniteSet(D) /\ Cardinality(D) = n
  <2>1. 1 \in Int /\ n \in Int /\ (1 > n <=> n = 0) /\ n - 1 + 1 = n
    BY <1>1
  <2> QED
    BY <1>1, <2>1, FS_Interval
<1> HIDE DEF D, n
<1>3. K \in SUBSET DOMAIN s /\ K \subseteq D
  BY <1>1
<1>4. /\ IsFiniteSet(K) /\ K \in SUBSET Nat /\ Len(Picked(s, K)) = Cardinality(K) /\ Picked(s, K) \in Seq(V)
      /\ \A i \in 1 .. Cardinality(K) : Picked(s, K)[i] = s[Ascending(K)[i]]
  BY <1>3, PickedReads
<1>5. /\ IsFiniteSet(L) /\ Cardinality(L) = n - Cardinality(K)
  <2>1. D \cap K = K
    BY <1>3
  <2>2. IsFiniteSet(D \ K) /\ Cardinality(D \ K) = Cardinality(D) - Cardinality(D \cap K)
    BY <1>2, FS_Difference
  <2> QED
    BY <1>2, <2>1, <2>2
<1>6. IsFiniteSet(G) /\ Cardinality(G) = Cardinality(L)
  <2>1. f \in [L -> G] /\ \A i, j \in L : f[i] = f[j] => i = j
    BY <1>1
  <2>2. \A x \in G : \E i \in L : f[i] = x
    BY <1>1
  <2>3. f \in Bijection(L, G)
    BY <2>1, <2>2 DEF Bijection, Injection, Surjection, IsInjective
  <2>4. ExistsBijection(L, G)
    BY <2>3 DEF ExistsBijection
  <2> HIDE DEF L
  <2> QED
    BY <1>5, <2>4, FS_Bijection
<1>7. Cardinality(G) \in Nat /\ Cardinality(K) \in Nat
  BY <1>4, <1>6, FS_CardinalityType
<1>8. Len(Picked(s, K)) = n - Cardinality(G) /\ Len(Picked(s, K)) \in Nat
  <2> HIDE DEF L
  <2> QED
    BY <1>1, <1>4, <1>5, <1>6, <1>7
<1>9. DOMAIN Picked(s, K) = 1 .. Cardinality(K)
  BY <1>4, LenProperties
<1>10. \A i \in 1 .. Cardinality(K) : Ascending(K)[i] \in K
  BY <1>4, AscendingLists
<1>11. \A i, j \in 1 .. Cardinality(K) : Ascending(K)[i] = Ascending(K)[j] => i = j
  <2>1. \A i, j \in 1 .. Cardinality(K) : i < j => Ascending(K)[i] < Ascending(K)[j]
    BY <1>4, AscendingLists
  <2>2. SUFFICES ASSUME NEW i \in 1 .. Cardinality(K), NEW j \in 1 .. Cardinality(K),
                        Ascending(K)[i] = Ascending(K)[j], i # j
                 PROVE  FALSE
    OBVIOUS
  <2>3. i < j \/ j < i
    BY <1>7, <2>2
  <2>4. Ascending(K)[i] \in Nat /\ Ascending(K)[j] \in Nat
    BY <1>4, <1>10
  <2> QED
    BY <2>1, <2>2, <2>3, <2>4
<1>12. \A i \in 1 .. Cardinality(K) : \E m \in DOMAIN s : Picked(s, K)[i] = s[m]
  BY ZenonT(60), <1>3, <1>4, <1>10
<1>13. \A i, j \in 1 .. Cardinality(K) : Picked(s, K)[i] = Picked(s, K)[j] => i = j
  BY <1>3, <1>4, <1>10, <1>11
<1> QED
  BY <1>4, <1>7, <1>8, <1>9, <1>12, <1>13 DEF n

\* notify_all leaves nobody waiting and nobody else touched.
LEMMA NotifyAllFacts ==
  ASSUME Pool!TypeOK, status' = Pool!NotifyAll(status)
  PROVE  /\ status' \in [Clients -> States] /\ Those("waiting")' = {} /\ Those("active")' = Those("active")
         /\ \A c \in Clients : status'[c] = "active" <=> status[c] = "active"
<1>1. \A c \in Clients : status'[c] = IF status[c] = "waiting" THEN "notified" ELSE status[c]
  BY PoolTypes DEF Pool!NotifyAll
<1>2. status' \in [Clients -> States]
  BY PoolTypes DEF Pool!NotifyAll, States
<1> QED
  BY <1>1, <1>2 DEF Those

\* The deadline of a waiter passes, or the pool is closing when it wakes up.
LEMMA PoolGiveUp ==
  ASSUME PoolInv, NEW c \in Clients, Pool!TimeOut(c) \/ Pool!Refused(c)
  PROVE  PoolInv'
<1> USE PoolTypes DEF PoolInv
<1>1. /\ status[c] \in {"waiting", "notified"} /\ status' = [status EXCEPT ![c] = "out"]
      /\ UNCHANGED <<idle, conn, dead, total, active, size, closing, draining, warming>>
      /\ (expired' = TRUE /\ ~closing) \/ (expired' = expired /\ closing)
  BY DEF Pool!TimeOut, Pool!Refused
<1>2. status' \in [Clients -> States] /\ Those("active")' = Those("active") /\ Those("waiting")' \subseteq Those("waiting")
  BY <1>1 DEF Those, States
<1>3. \A d \in Clients : (conn'[d] # NoConn) = (status'[d] = "active")
  BY <1>1, <1>2 DEF Pool!TypeOK
<1>4. Pool!TypeOK'
  BY <1>1, <1>2, <1>3 DEF Pool!TypeOK, States
<1>5. Apart' /\ Counted'
  BY <1>1, <1>2 DEF Apart, Counted
<1>6. Woken'
  BY <1>1, <1>2 DEF Woken
<1> QED
  BY <1>4, <1>5, <1>6

\* markUnhealthy changes a flag.
LEMMA PoolMarkUnhealthy ==
  ASSUME PoolInv, NEW n \in Conns, Pool!MarkUnhealthy(n)
  PROVE  PoolInv'
<1>1. dead' = dead \cup {n} /\ UNCHANGED <<idle, conn, status, total, active, size, closing, draining, warming, expired>>
  BY DEF Pool!MarkUnhealthy
<1>2. Pool!TypeOK'
  BY <1>1 DEF PoolInv, Pool!TypeOK
<1> QED
  BY <1>1, <1>2 DEF PoolInv, Apart, Counted, Woken, Those

\* configure up to its unlock.
LEMMA PoolConfigure ==
  ASSUME PoolInv, NEW sz \in Sizes, Pool!Configure(sz)
  PROVE  PoolInv'
<1>1. size' = sz /\ warming' = warming \cup {"configure"}
      /\ UNCHANGED <<idle, conn, status, dead, total, active, closing, draining, expired>>
  BY DEF Pool!Configure
<1>2. sz \in Nat \X Nat /\ sz[1] <= sz[2] /\ 2 * sz[2] <= Cardinality(Conns)
  BY PoolAssumption
<1>3. Pool!TypeOK'
  BY <1>1, <1>2 DEF PoolInv, Pool!TypeOK
<1> QED
  BY <1>1, <1>2, <1>3 DEF PoolInv, Apart, Counted, Woken, Those

\* setMaxConnections lowers the minimum with the maximum and wakes everybody.
LEMMA PoolSetMax ==
  ASSUME PoolInv, NEW sz \in Sizes, Pool!SetMaxConnections(sz[2])
  PROVE  PoolInv'
<1> USE PoolTypes DEF PoolInv
<1> DEFINE n == sz[2]
<1>1. /\ size' = <<IF size[1] > n THEN n ELSE size[1], n>> /\ status' = Pool!NotifyAll(status)
      /\ UNCHANGED <<idle, conn, dead, total, active, closing, draining, warming, expired>>
  BY DEF Pool!SetMaxConnections
<1>2. n \in Nat /\ 2 * n <= Cardinality(Conns)
  BY PoolAssumption
<1> HIDE DEF n
<1>3. size' \in Nat \X Nat /\ size'[1] <= size'[2] /\ size'[2] = n
  BY <1>1, <1>2
<1>4. /\ status' \in [Clients -> States] /\ Those("waiting")' = {} /\ Those("active")' = Those("active")
      /\ \A c \in Clients : status'[c] = "active" <=> status[c] = "active"
  BY <1>1, NotifyAllFacts
<1>5. \A d \in Clients : (conn'[d] # NoConn) = (status'[d] = "active")
  BY <1>1, <1>4 DEF Pool!TypeOK
<1>6. Pool!TypeOK'
  BY <1>1, <1>3, <1>4, <1>5 DEF Pool!TypeOK, States
<1> QED
  BY SMTT(40), <1>1, <1>2, <1>3, <1>4, <1>6 DEF Apart, Counted, Woken

\* shutdown up to its wait, its end, and reopen up to its unlock.
LEMMA PoolShutdown ==
  ASSUME PoolInv, Pool!Shutdown \/ Pool!ShutdownReturns \/ Pool!Reopen
  PROVE  PoolInv'
<1> USE PoolTypes DEF PoolInv
<1>1. CASE Pool!Shutdown
  <2>1. /\ closing' = TRUE /\ draining' = TRUE /\ status' = Pool!NotifyAll(status)
        /\ UNCHANGED <<idle, conn, dead, total, active, size, warming, expired>>
    BY <1>1 DEF Pool!Shutdown
  <2>2. /\ status' \in [Clients -> States] /\ Those("waiting")' = {} /\ Those("active")' = Those("active")
        /\ \A c \in Clients : status'[c] = "active" <=> status[c] = "active"
    BY <2>1, NotifyAllFacts
  <2>3. \A d \in Clients : (conn'[d] # NoConn) = (status'[d] = "active")
    BY <2>1, <2>2 DEF Pool!TypeOK
  <2>4. Pool!TypeOK'
    BY <2>1, <2>2, <2>3 DEF Pool!TypeOK, States
  <2> QED
    BY <2>1, <2>2, <2>4 DEF Apart, Counted, Woken
<1>2. CASE Pool!ShutdownReturns
  <2>1. /\ idle' = <<>> /\ total' = active /\ draining' = FALSE
        /\ UNCHANGED <<conn, status, dead, active, size, closing, warming, expired>>
    BY <1>2 DEF Pool!ShutdownReturns
  <2>2. idle' \in Seq(Conns) /\ Len(idle') = 0 /\ DOMAIN idle' = {}
    BY <2>1, EmptySeq
  <2>3. Pool!TypeOK'
    BY <2>1, <2>2 DEF Pool!TypeOK
  <2>4. Cardinality(Conns) \in Nat
    BY PoolAssumption, FS_CardinalityType
  <2>5. Counted'
    BY <2>1, <2>2, <2>4 DEF Counted, Those
  <2>6. Those("waiting")' = Those("waiting") /\ Those("notified")' = Those("notified")
    BY <2>1 DEF Those
  <2>7. Cardinality(Those("notified")) \in Nat
    OBVIOUS
  <2>8. Woken'
    BY <2>1, <2>2, <2>6, <2>7 DEF Woken
  <2> QED
    BY <2>1, <2>2, <2>3, <2>5, <2>8 DEF Apart
<1>3. CASE Pool!Reopen
  <2>1. /\ closing' = FALSE /\ warming' = warming \cup {"reopen"} /\ closing
        /\ UNCHANGED <<idle, conn, status, dead, total, active, size, draining, expired>>
    BY <1>3 DEF Pool!Reopen
  <2>2. Pool!TypeOK'
    BY <2>1 DEF Pool!TypeOK
  <2> QED
    BY <2>1, <2>2 DEF Apart, Counted, Woken, Those
<1> QED
  BY <1>1, <1>2, <1>3

\* notify_one after a client gave its connection back.
LEMMA NotifyOneFacts ==
  ASSUME Pool!TypeOK, NEW c \in Clients, status[c] = "active",
         status' \in Pool!NotifyOne([status EXCEPT ![c] = "out"])
  PROVE  /\ status' \in [Clients -> States] /\ status'[c] = "out"
         /\ \A d \in Clients \ {c} : status'[d] = "active" <=> status[d] = "active"
         /\ Those("active")' = Those("active") \ {c} /\ Those("waiting")' \subseteq Those("waiting")
         /\ Those("waiting")' = {} \/ \E w \in Clients \ Those("notified") : Those("notified")' = Those("notified") \cup {w}
<1> USE PoolTypes
<1> DEFINE st == [status EXCEPT ![c] = "out"]
           W == {d \in Clients : st[d] = "waiting"}
<1>1. st \in [Clients -> States] /\ st[c] = "out" /\ \A d \in Clients \ {c} : st[d] = status[d]
  BY DEF States
<1>2. status' \in IF W = {} THEN {st} ELSE {[st EXCEPT ![d] = "notified"] : d \in W}
  BY DEF Pool!NotifyOne
<1> HIDE DEF st
<1>3. CASE W = {}
  <2>1. status' = st
    BY <1>2, <1>3
  <2> QED
    BY <1>1, <1>3, <2>1 DEF Those
<1>4. CASE W # {}
  <2>1. PICK w \in W : status' = [st EXCEPT ![w] = "notified"]
    BY <1>2, <1>4
  <2>2. w \in Clients /\ w # c /\ status[w] = "waiting"
    BY <1>1
  <2>3. /\ status' \in [Clients -> States] /\ status'[w] = "notified" /\ status'[c] = "out"
        /\ \A d \in Clients \ {c, w} : status'[d] = status[d]
    BY <1>1, <2>1, <2>2 DEF States
  <2>4. Those("notified")' = Those("notified") \cup {w} /\ w \notin Those("notified")
    BY <2>2, <2>3 DEF Those
  <2> QED
    BY <2>2, <2>3, <2>4 DEF Those
<1> QED
  BY <1>3, <1>4

\* release puts the connection back or drops it, and wakes one waiter either way.
LEMMA PoolRelease ==
  ASSUME PoolInv, NEW c \in Clients, Pool!Release(c)
  PROVE  PoolInv'
<1> USE PoolTypes DEF PoolInv
<1>1. /\ status[c] = "active" /\ active' = active - 1 /\ conn' = [conn EXCEPT ![c] = NoConn]
      /\ status' \in Pool!NotifyOne([status EXCEPT ![c] = "out"])
      /\ UNCHANGED <<dead, size, closing, draining, warming, expired>>
      /\ \/ idle' = Append(idle, conn[c]) /\ total' = total
         \/ idle' = idle /\ total' = total - 1
  BY DEF Pool!Release
<1>2. /\ status' \in [Clients -> States] /\ status'[c] = "out"
      /\ \A d \in Clients \ {c} : status'[d] = "active" <=> status[d] = "active"
      /\ Those("active")' = Those("active") \ {c} /\ Those("waiting")' \subseteq Those("waiting")
      /\ Those("waiting")' = {} \/ \E w \in Clients \ Those("notified") : Those("notified")' = Those("notified") \cup {w}
  BY <1>1, NotifyOneFacts
<1>3. conn[c] \in Conns /\ conn[c] # NoConn /\ \A i \in DOMAIN idle : idle[i] # NoConn
  BY <1>1, PoolAssumption
<1>4. /\ conn' \in [Clients -> Conns \cup {NoConn}] /\ conn'[c] = NoConn
      /\ \A d \in Clients \ {c} : conn'[d] = conn[d]
  BY <1>1
<1>5. /\ active = Cardinality(Those("active")) /\ active >= 1 /\ active' \in Nat
      /\ active' = Cardinality(Those("active")')
  <2>1. active = Cardinality(Those("active"))
    BY DEF Counted
  <2>2. c \in Those("active")
    BY <1>1 DEF Those
  <2>3. IsFiniteSet(Those("active") \ {c}) /\ Cardinality(Those("active") \ {c}) = Cardinality(Those("active")) - 1
    BY <2>2, FS_RemoveElement
  <2>4. Cardinality(Those("active") \ {c}) \in Nat
    BY <2>3, FS_CardinalityType
  <2>5. active \in Nat
    OBVIOUS
  <2>6. active' = active - 1 /\ Those("active")' = Those("active") \ {c}
    BY <1>1, <1>2
  <2>7. active' = Cardinality(Those("active") \ {c})
    BY <2>1, <2>3, <2>6
  <2>8. active >= 1
    <3> DEFINE m == Cardinality(Those("active") \ {c})
    <3>1. m \in Nat /\ m = active - 1
      BY <2>1, <2>3, <2>4
    <3> HIDE PoolTypes
    <3> HIDE DEF m
    <3> QED
      BY <2>5, <3>1
  <2> QED
    BY <2>1, <2>4, <2>6, <2>7, <2>8
<1>6. /\ idle' \in Seq(Conns) /\ Len(idle') \in Nat /\ DOMAIN idle' = 1 .. Len(idle')
      /\ (Len(idle') = Len(idle) /\ total' = total - 1) \/ (Len(idle') = Len(idle) + 1 /\ total' = total)
      /\ \A i \in DOMAIN idle' : \/ i \in DOMAIN idle /\ idle'[i] = idle[i]
                                 \/ i = Len(idle) + 1 /\ idle'[i] = conn[c]
      /\ Len(idle) + 1 \notin DOMAIN idle
  <2>1. Len(idle) + 1 \notin DOMAIN idle
    OBVIOUS
  <2>2. CASE idle' = idle /\ total' = total - 1
    BY <2>1, <2>2
  <2>3. CASE idle' = Append(idle, conn[c]) /\ total' = total
    <3>1. /\ Append(idle, conn[c]) \in Seq(Conns) /\ Len(Append(idle, conn[c])) = Len(idle) + 1
          /\ \A i \in 1 .. Len(idle) : Append(idle, conn[c])[i] = idle[i]
          /\ Append(idle, conn[c])[Len(idle) + 1] = conn[c]
      BY <1>3, AppendProperties
    <3>2. DOMAIN Append(idle, conn[c]) = 1 .. Len(idle) + 1
      BY <3>1, LenProperties
    <3>3. \A i \in 1 .. Len(idle) + 1 : i \in 1 .. Len(idle) \/ i = Len(idle) + 1
      BY SMTT(40)
    <3> QED
      BY <2>1, <2>3, <3>1, <3>2, <3>3
  <2> QED
    BY <1>1, <2>2, <2>3
<1>7. total = active + Len(idle) /\ total' = active' + Len(idle') /\ total' \in Nat /\ total' <= total
  <2>1. total = active + Len(idle) /\ total \in Nat /\ active \in Nat /\ Len(idle) \in Nat
    BY DEF Counted
  <2>2. active' = active - 1 /\ active' \in Nat
    BY SMTT(40), <1>1, <1>5
  <2>3. Len(idle') \in Nat
    BY <1>6
  <2> HIDE PoolTypes
  <2>4. CASE Len(idle') = Len(idle) /\ total' = total - 1
    BY <2>1, <2>2, <2>3, <2>4
  <2>5. CASE Len(idle') = Len(idle) + 1 /\ total' = total
    BY <2>1, <2>2, <2>3, <2>5
  <2> QED
    BY <1>6, <2>4, <2>5
<1>8. \A d \in Clients : (conn'[d] # NoConn) = (status'[d] = "active")
  BY SMTT(40), <1>2, <1>4 DEF Pool!TypeOK
<1>9. Pool!TypeOK'
  BY <1>1, <1>2, <1>4, <1>5, <1>6, <1>7, <1>8 DEF Pool!TypeOK, States
<1>10. Apart'
  <2>1. \A d, e \in Clients : conn'[d] = conn'[e] /\ conn'[d] # NoConn => d = e
    BY SMTT(40), <1>4 DEF Apart
  <2>2. ASSUME NEW i \in DOMAIN idle', NEW d \in Clients
        PROVE  idle'[i] # conn'[d]
    <3>1. \A e \in Clients \ {c} : conn[c] # conn[e]
      BY <1>3 DEF Apart
    <3>2. CASE i \in DOMAIN idle /\ idle'[i] = idle[i]
      BY <1>3, <1>4, <3>2 DEF Apart
    <3>3. CASE idle'[i] = conn[c]
      BY <1>3, <1>4, <3>1, <3>3
    <3> QED
      BY <1>6, <3>2, <3>3
  <2>3. ASSUME NEW i \in DOMAIN idle', NEW j \in DOMAIN idle', idle'[i] = idle'[j]
        PROVE  i = j
    <3>1. \A m \in DOMAIN idle : idle[m] # conn[c]
      BY SMTT(40) DEF Apart
    <3>2. /\ \/ i \in DOMAIN idle /\ idle'[i] = idle[i]
             \/ i = Len(idle) + 1 /\ idle'[i] = conn[c]
          /\ \/ j \in DOMAIN idle /\ idle'[j] = idle[j]
             \/ j = Len(idle) + 1 /\ idle'[j] = conn[c]
      BY ZenonT(60), <1>6
    <3>3. CASE i \in DOMAIN idle /\ j \in DOMAIN idle
      BY <1>6, <2>3, <3>2, <3>3 DEF Apart
    <3> HIDE PoolTypes
    <3> QED
      BY <2>3, <3>1, <3>2, <3>3
  <2> QED
    BY <2>1, <2>2, <2>3 DEF Apart
<1>11. Counted'
  <2>1. 2 * total <= Cardinality(Conns) /\ 2 * size[2] <= Cardinality(Conns) /\ total \in Nat
    BY DEF Counted
  <2>2. Cardinality(Conns) \in Nat
    BY PoolAssumption, FS_CardinalityType
  <2>3. 2 * total' <= Cardinality(Conns)
    <3> HIDE PoolTypes
    <3> QED
      BY <1>7, <2>1, <2>2
  <2> QED
    BY <1>1, <1>5, <1>7, <2>1, <2>3 DEF Counted
<1>12. Woken'
  <2>1. closing' => Those("waiting")' = {}
    BY <1>1, <1>2 DEF Woken
  <2>2. ASSUME ~expired, Those("waiting")' # {}, "configure" \notin warming
        PROVE  /\ Len(idle') <= Cardinality(Those("notified")')
               /\ size[2] <= active' + Cardinality(Those("notified")')
    <3>1. Len(idle) <= Cardinality(Those("notified")) /\ size[2] <= active + Cardinality(Those("notified"))
      BY <1>2, <2>2 DEF Woken
    <3>2. PICK w \in Clients \ Those("notified") : Those("notified")' = Those("notified") \cup {w}
      BY <1>2, <2>2
    <3>3. Cardinality(Those("notified")') = Cardinality(Those("notified")) + 1
      BY SMTT(40), <3>2, FS_AddElement
    <3>4. /\ Cardinality(Those("notified")) \in Nat /\ active \in Nat /\ size[2] \in Nat /\ Len(idle) \in Nat
          /\ active' = active - 1
      BY SMTT(40), <1>1
    <3>5. Len(idle') \in Nat /\ (Len(idle') = Len(idle) \/ Len(idle') = Len(idle) + 1)
      BY <1>6
    <3> HIDE PoolTypes
    <3> QED
      BY <3>1, <3>3, <3>4, <3>5
  <2> QED
    BY <1>1, <2>1, <2>2 DEF Woken
<1> QED
  BY <1>9, <1>10, <1>11, <1>12

\* The pool tops itself up: some of the idle connections are kept and n new ones are
\* created, none or as many as there are missing to the minimum.
LEMMA PoolTopUp ==
  ASSUME PoolInv, NEW k \in Seq(Conns), \A i \in DOMAIN k : \E m \in DOMAIN idle : k[i] = idle[m],
         \A i, j \in DOMAIN k : k[i] = k[j] => i = j, Len(k) <= Len(idle),
         NEW n \in Nat, n = 0 \/ n + active + Len(k) <= size[1],
         idle' = k \o Pool!New(n), total' = active + Len(k) + n, dead' \subseteq dead,
         UNCHANGED <<conn, active, size, closing, draining, expired>>,
         warming' \subseteq warming,
         \/ status' = status /\ ("configure" \in warming' <=> "configure" \in warming)
         \/ status' = Pool!NotifyAll(status)
  PROVE  PoolInv'
<1> USE PoolTypes DEF PoolInv
<1>1. /\ Len(k) \in Nat /\ active \in Nat /\ total \in Nat /\ size[1] \in Nat /\ size[2] \in Nat /\ size[1] <= size[2]
      /\ Len(idle) \in Nat /\ Cardinality(Conns) \in Nat /\ total = active + Len(idle)
      /\ 2 * size[2] <= Cardinality(Conns) /\ 2 * total <= Cardinality(Conns)
      /\ Cardinality(Those("notified")) \in Nat
  BY LenProperties, PoolAssumption, FS_CardinalityType DEF Counted
<1>2. /\ n + total <= Cardinality(Conns) /\ total' \in Nat /\ 2 * total' <= Cardinality(Conns)
      /\ Len(k) + n <= Len(idle) \/ Len(k) + n + active <= size[2]
  <2> HIDE PoolTypes
  <2>1. n <= size[2]
    BY SMTT(40), <1>1
  <2>2. n + total <= Cardinality(Conns)
    BY SMTT(40), <1>1, <2>1
  <2>3. Len(k) + n <= Len(idle) \/ Len(k) + n + active <= size[2]
    BY SMTT(40), <1>1
  <2>4. total' \in Nat /\ 2 * total' <= Cardinality(Conns)
    BY SMTT(40), <1>1, <2>3
  <2> QED
    BY <2>2, <2>3, <2>4
<1>3. Apart' /\ idle' \in Seq(Conns) /\ Len(idle') = Len(k) + n
  BY <1>2, NewKeepApart
<1>4. /\ status' \in [Clients -> States] /\ Those("active")' = Those("active")
      /\ \A d \in Clients : status'[d] = "active" <=> status[d] = "active"
      /\ \/ Those("waiting")' = {}
         \/ /\ Those("waiting")' = Those("waiting") /\ Those("notified")' = Those("notified")
            /\ ("configure" \in warming' <=> "configure" \in warming)
  BY NotifyAllFacts DEF Those
<1>5. \A d \in Clients : (conn'[d] # NoConn) = (status'[d] = "active")
  BY <1>4 DEF Pool!TypeOK
<1>6. Pool!TypeOK'
  BY <1>2, <1>3, <1>4, <1>5 DEF Pool!TypeOK, States
<1>7. Counted'
  <2>1. total' = active' + Len(idle')
    BY <1>1, <1>3
  <2> HIDE PoolTypes
  <2> QED
    BY SMTT(60), <1>1, <1>2, <1>4, <2>1 DEF Counted
<1>8. Woken'
  <2>1. closing' => Those("waiting")' = {}
    BY <1>4 DEF Woken
  <2>2. ASSUME ~expired, Those("waiting")' # {}, "configure" \notin warming'
        PROVE  /\ Len(idle') <= Cardinality(Those("notified")')
               /\ size[2] <= active' + Cardinality(Those("notified")')
    <3>1. Those("waiting")' = Those("waiting") /\ Those("notified")' = Those("notified") /\ "configure" \notin warming
      BY <1>4, <2>2
    <3>2. Len(idle) <= Cardinality(Those("notified")) /\ size[2] <= active + Cardinality(Those("notified"))
      BY <2>2, <3>1 DEF Woken
    <3>3. Len(k) + n <= Cardinality(Those("notified"))
      <4> HIDE PoolTypes
      <4> QED
        BY SMTT(40), <1>1, <1>2, <3>2
    <3> QED
      BY <1>3, <3>1, <3>2, <3>3
  <2> QED
    BY <2>1, <2>2 DEF Woken
<1> QED
  BY <1>3, <1>6, <1>7, <1>8

\* The entries kept by a loop, inside the pool's module and outside.
LEMMA PoolPicked ==
  ASSUME NEW s, NEW P
  PROVE  Pool!Picked(s, P) = Picked(s, P)
<1>1. \A i : Pool!Nth(P, i) = Nth(P, i)
  BY PoolCardinality DEF Pool!Nth, Nth
<1> QED
  BY <1>1, PoolCardinality DEF Pool!Picked, Picked

\* How many connections the pool creates, and that they fit.
LEMMA MissingFits ==
  ASSUME PoolInv, NEW m \in Nat
  PROVE  /\ Pool!Missing(m) \in Nat /\ (Pool!Missing(m) = 0 \/ Pool!Missing(m) + m <= size[1])
         /\ Pool!Missing(m) + total <= Cardinality(Conns)
<1>1. /\ size[1] \in Nat /\ size[2] \in Nat /\ size[1] <= size[2] /\ total \in Nat /\ Cardinality(Conns) \in Nat
      /\ 2 * size[2] <= Cardinality(Conns) /\ 2 * total <= Cardinality(Conns)
  BY PoolTypes, PoolAssumption, FS_CardinalityType DEF PoolInv, Counted
<1>2. Pool!Missing(m) = IF m >= size[1] THEN 0 ELSE size[1] - m
  BY DEF Pool!Missing
<1>3. Pool!Missing(m) \in Nat /\ (Pool!Missing(m) = 0 \/ Pool!Missing(m) + m <= size[1]) /\ Pool!Missing(m) <= size[2]
  BY <1>1, <1>2
<1> QED
  BY <1>1, <1>3

\* runHealthCheck drops connections and tops up to the minimum.
LEMMA PoolHealthCheck ==
  ASSUME PoolInv, Pool!RunHealthCheck
  PROVE  PoolInv'
<1> USE DEF PoolInv
<1>1. PICK gone \in Pool!Doomed :
           /\ idle' = Pool!Picked(idle, {i \in DOMAIN idle : idle[i] \notin gone})
                        \o Pool!New(Pool!Missing(total - Pool!Cardinality(gone)))
           /\ total' = total - Pool!Cardinality(gone)
                         + Len(Pool!New(Pool!Missing(total - Pool!Cardinality(gone))))
           /\ dead' \subseteq dead
  BY DEF Pool!RunHealthCheck
<1>2. UNCHANGED <<conn, status, active, size, closing, draining, warming, expired>>
  BY DEF Pool!RunHealthCheck
<1> DEFINE K == {i \in DOMAIN idle : idle[i] \notin gone}
           k == Picked(idle, K)
           n == Pool!Missing(active + Len(k))
<1>3. idle \in Seq(Conns) /\ NoRepeats(idle) /\ Occur(gone, idle) /\ K = Others(gone, idle)
  BY PoolTypes DEF Apart, NoRepeats, Occur, Others, Pool!Doomed, Pool!Range
<1> HIDE DEF K
<1>4. /\ Cardinality(gone) \in Nat /\ k \in Seq(Conns) /\ Len(k) \in Nat
      /\ Len(k) = Len(idle) - Cardinality(gone)
      /\ \A i \in DOMAIN k : \E m \in DOMAIN idle : k[i] = idle[m]
      /\ \A i, j \in DOMAIN k : k[i] = k[j] => i = j
  BY <1>3, DropsExactly
<1>5. idle' = k \o Pool!New(Pool!Missing(total - Cardinality(gone)))
      /\ total' = total - Cardinality(gone) + Len(Pool!New(Pool!Missing(total - Cardinality(gone))))
  BY <1>1, PoolPicked, PoolCardinality DEF K
<1>6. active \in Nat /\ Len(idle) \in Nat /\ total = active + Len(idle)
  BY PoolTypes DEF Counted
<1> HIDE DEF k
<1>7. total - Cardinality(gone) = active + Len(k) /\ active + Len(k) \in Nat /\ Len(k) <= Len(idle)
  BY <1>4, <1>6
<1>8. /\ n \in Nat /\ (n = 0 \/ n + (active + Len(k)) <= size[1]) /\ n + total <= Cardinality(Conns)
  BY <1>7, MissingFits
<1>9. idle' = k \o Pool!New(n) /\ total' = active + Len(k) + Len(Pool!New(n))
  BY <1>5, <1>7
<1> HIDE DEF n
<1>10. Len(Pool!New(n)) = n
  BY <1>8, NewAreUnused
<1>11. n = 0 \/ n + active + Len(k) <= size[1]
  BY <1>4, <1>6, <1>8
<1> QED
  BY <1>1, <1>2, <1>4, <1>7, <1>8, <1>9, <1>10, <1>11, PoolTopUp

\* prewarm tops up to the minimum; configure then wakes everybody.
LEMMA PoolPrewarm ==
  ASSUME PoolInv, NEW by \in {"configure", "reopen"}, Pool!Prewarm(by)
  PROVE  PoolInv'
<1> USE DEF PoolInv
<1> DEFINE n == IF closing THEN 0 ELSE Pool!Missing(total)
<1>1. /\ by \in warming /\ warming' = warming \ {by}
      /\ idle' = idle \o Pool!New(n) /\ total' = total + Len(Pool!New(n)) /\ dead' \subseteq dead
      /\ status' = IF by = "configure" THEN Pool!NotifyAll(status) ELSE status
      /\ UNCHANGED <<conn, active, size, closing, draining, expired>>
  BY DEF Pool!Prewarm
<1>2. idle \in Seq(Conns) /\ active \in Nat /\ Len(idle) \in Nat /\ total = active + Len(idle) /\ total \in Nat
  BY PoolTypes DEF Counted
<1>3. Cardinality(Conns) \in Nat /\ 2 * total <= Cardinality(Conns)
  BY PoolAssumption, FS_CardinalityType DEF Counted
<1>4. n \in Nat /\ (n = 0 \/ n + total <= size[1]) /\ n + total <= Cardinality(Conns)
  <2>1. 0 + total <= Cardinality(Conns)
    BY <1>2, <1>3
  <2> QED
    BY <1>2, <2>1, MissingFits
<1> HIDE DEF n
<1>5. Len(Pool!New(n)) = n
  BY <1>4, NewAreUnused
<1>6. n = 0 \/ n + active + Len(idle) <= size[1]
  BY <1>2, <1>4
<1>7. total' = active + Len(idle) + n
  BY <1>1, <1>2, <1>5
<1>8. /\ \A i \in DOMAIN idle : \E m \in DOMAIN idle : idle[i] = idle[m]
      /\ \A i, j \in DOMAIN idle : idle[i] = idle[j] => i = j
      /\ Len(idle) <= Len(idle)
  BY <1>2 DEF Apart
<1>9. \/ status' = status /\ ("configure" \in warming' <=> "configure" \in warming)
      \/ status' = Pool!NotifyAll(status)
  BY <1>1
<1> QED
  BY <1>1, <1>2, <1>4, <1>6, <1>7, <1>8, <1>9, PoolTopUp

\* A new pool.
LEMMA PoolInvInit ==
  ASSUME Pool!Init
  PROVE  PoolInv
<1> DEFINE u == Pool!SetToSeq(Conns)
           n == size[1]
<1>1. /\ size \in Sizes /\ conn = [c \in Clients |-> NoConn] /\ status = [c \in Clients |-> "out"]
      /\ dead = {} /\ active = 0 /\ closing = FALSE /\ draining = FALSE /\ warming = {} /\ expired = FALSE
      /\ total = n /\ idle = SubSeq(u, 1, n)
  BY DEF Pool!Init
<1>2. size \in Nat \X Nat /\ n \in Nat /\ size[2] \in Nat /\ n <= size[2] /\ 2 * size[2] <= Cardinality(Conns)
  BY <1>1, PoolAssumption
<1>3. /\ Cardinality(Conns) \in Nat /\ u \in [1 .. Cardinality(Conns) -> Conns]
      /\ \A i, j \in 1 .. Cardinality(Conns) : u[i] = u[j] => i = j
  BY PoolAssumption, SetAsSeq
<1> HIDE DEF u, n
<1>4. 2 * n <= Cardinality(Conns) /\ n <= Cardinality(Conns)
  BY <1>2, <1>3
<1>5. \A i \in 1 .. n : i \in 1 .. Cardinality(Conns) /\ u[i] \in Conns
  <2>1. \A i \in 1 .. n : i \in 1 .. Cardinality(Conns)
    BY <1>2, <1>3, <1>4
  <2> QED
    BY <1>3, <2>1
<1>6. /\ SubSeq(u, 1, n) \in Seq(Conns)
      /\ Len(SubSeq(u, 1, n)) = IF 1 <= n THEN n - 1 + 1 ELSE 0
      /\ \A i \in 1 .. n - 1 + 1 : SubSeq(u, 1, n)[i] = u[1 + i - 1]
  <2>1. 1 \in Int /\ n \in Int
    BY <1>2
  <2> QED
    BY <1>5, <2>1, SubSeqProperties
<1>7. idle \in Seq(Conns) /\ Len(idle) = n /\ DOMAIN idle = 1 .. n
  BY <1>1, <1>2, <1>6, LenProperties
<1>8. \A i \in 1 .. n : idle[i] = u[i]
  <2>1. n - 1 + 1 = n /\ \A i \in 1 .. n : 1 + i - 1 = i
    BY <1>2
  <2> QED
    BY <1>1, <1>6, <2>1
<1>9. Pool!TypeOK
  BY <1>1, <1>2, <1>7 DEF Pool!TypeOK, n
<1>10. Apart
  <2>1. \A i \in DOMAIN idle, c \in Clients : idle[i] # conn[c]
    BY <1>1, <1>5, <1>7, <1>8, PoolAssumption
  <2>2. \A i, j \in DOMAIN idle : idle[i] = idle[j] => i = j
    BY <1>3, <1>5, <1>7, <1>8
  <2> QED
    BY <1>1, <2>1, <2>2 DEF Apart
<1>11. \A st : Those(st) = IF st = "out" THEN Clients ELSE {}
  BY <1>1 DEF Those
<1>12. Counted
  <2>1. Those("active") = {} /\ Cardinality({}) = 0
    BY <1>11, FS_EmptySet
  <2>2. total = active + Len(idle)
    BY <1>1, <1>2, <1>7
  <2> QED
    BY <1>1, <1>2, <1>4, <2>1, <2>2 DEF Counted
<1>13. Woken
  BY <1>11 DEF Woken
<1> QED
  BY <1>9, <1>10, <1>12, <1>13 DEF PoolInv

\* A step of the pool, and of a component next to it.
LEMMA PoolInvStep ==
  ASSUME PoolInv, Pool!Next \/ UNCHANGED poolVars
  PROVE  PoolInv'
<1>1. CASE UNCHANGED poolVars
  BY ZenonT(60), <1>1 DEF poolVars, PoolInv, Pool!TypeOK, Apart, Counted, Woken, Those
<1>2. CASE Pool!Next
  BY <1>2, PoolHealthCheck, PoolShutdown, PoolConfigure, PoolSetMax, PoolPrewarm, PoolMarkUnhealthy,
     PoolAcquire, PoolGiveUp, PoolRelease DEF Pool!Next
<1> QED
  BY <1>1, <1>2

\* The invariant of the pool.
LEMMA PoolInvHolds == AllSpec => []PoolInv
<1>1. AllInit => PoolInv
  BY PoolInvInit DEF AllInit
<1>2. PoolInv /\ [AllNext]_<<part, vars, fileVars, logVars, poolVars, pageVars>> => PoolInv'
  <2> SUFFICES ASSUME PoolInv, [AllNext]_<<part, vars, fileVars, logVars, poolVars, pageVars>>
               PROVE  PoolInv'
    OBVIOUS
  <2>1. Pool!Next \/ UNCHANGED poolVars
    BY DEF AllNext
  <2> QED
    BY <2>1, PoolInvStep
<1> QED
  BY <1>1, <1>2, PTL DEF AllSpec

\* The counters of the pool agree with its connections, whatever acquire, release, the
\* health check, configure, shutdown and reopen do in whatever order.
THEOREM PoolCountsItsConnections == AllSpec => []CountersAgree
<1>1. PoolInv => CountersAgree
  BY PoolCardinality DEF PoolInv, Counted, Those, CountersAgree, Pool!CountersAgree
<1> QED
  BY <1>1, PoolInvHolds, PTL

\* No connection of the pool is handed to two clients, or is idle while somebody uses it.
THEOREM ConnectionsHaveOneUser == AllSpec => []NoSharing
<1>1. ASSUME PoolInv
      PROVE  NoSharing
  <2>1. Pool!Range(idle) \cap Pool!Held = {}
    BY <1>1 DEF PoolInv, Apart, Pool!Range, Pool!Held
  <2>2. Pool!IsInjective(idle)
    BY <1>1 DEF PoolInv, Apart, Pool!IsInjective
  <2> QED
    BY <1>1, <2>1, <2>2 DEF PoolInv, Apart, NoSharing, Pool!NoSharing
<1> QED
  BY <1>1, PoolInvHolds, PTL

\* As long as no deadline has passed, a client waits only while the pool is exhausted:
\* release, configure and setMaxConnections wake enough waiters, and the health check,
\* which wakes nobody, never creates more connections than waiters were woken.
THEOREM NoWakeupIsLost == AllSpec => []NoLostWakeup
<1>1. ASSUME PoolInv
      PROVE  NoLostWakeup
  <2> USE PoolTypes DEF PoolInv
  <2>1. SUFFICES ASSUME ~expired, Pool!FirstHealthy # 0 \/ total < size[2], Those("waiting") # {},
                        "configure" \notin warming
                 PROVE  Those("notified") # {}
    BY <1>1 DEF NoLostWakeup, Pool!NoLostWakeup, Those
  <2>2. Len(idle) <= Cardinality(Those("notified")) /\ size[2] <= active + Cardinality(Those("notified"))
    BY <1>1, <2>1 DEF Woken
  <2>3. /\ Len(idle) \in Nat /\ active \in Nat /\ total = active + Len(idle) /\ size[2] \in Nat
        /\ Cardinality(Those("notified")) \in Nat
    BY <1>1 DEF Counted
  <2>4. Pool!FirstHealthy # 0 => Len(idle) >= 1
    BY <1>1, <2>3, FirstHealthyFacts
  <2>5. Cardinality(Those("notified")) # 0
    <3> HIDE PoolTypes
    <3> QED
      BY <2>1, <2>2, <2>3, <2>4
  <2> QED
    BY <2>5, FS_EmptySet
<1> QED
  BY <1>1, PoolInvHolds, PTL
-----------------------------------------------------------------------------
(* The replacement of the database file *)

\* The file under a name that was synced with its directory stays under that name or is
\* replaced by another, and a save returns after that sync.
Placed ==
  /\ \A w \in Writers : writer[w].pc = "syncdir" => dir.path # 0
  /\ dirDisk.path # 0 => dir.path # 0
  /\ saved > 0 => dirDisk.path # 0

\* Inode n holds version v, in the cache and on disk.
InodeHas(n, v) == \A c \in 1 .. Chunks : data[n][c] = v /\ dataDisk[n][c] = v

\* The names tmp and path are of different files, on disk too.
Distinct ==
  /\ dir.tmp # 0 => dir.tmp # dir.path /\ dir.tmp # dirDisk.path
  /\ dirDisk.tmp # 0 => dirDisk.tmp # dirDisk.path

\* Both the file named path and the one named so on disk are whole and new enough.
Versions ==
  /\ dir.path # 0 => \E v \in saved .. MaxVersion : InodeHas(dir.path, v)
  /\ dirDisk.path # 0 => \E v \in saved .. MaxVersion : InodeHas(dirDisk.path, v)

\* How far the only writer is.
Progress ==
  /\ \A w, u \in Writers : writer[w].pc # "idle" /\ writer[u].pc # "idle" => w = u
  /\ \A w \in Writers :
       /\ writer[w].pc # "idle" => writer[w].ver = version
       /\ writer[w].pc \in {"write", "fsync", "rename"} =>
            /\ dir.tmp # 0 /\ writer[w].fd = dir.tmp
            /\ \A c \in 1 .. writer[w].off : data[dir.tmp][c] = version
       /\ writer[w].pc \in {"fsync", "rename"} => writer[w].off = Chunks
       /\ writer[w].pc = "rename" => InodeHas(dir.tmp, version)
       /\ writer[w].pc = "syncdir" => InodeHas(dir.path, version)

\* A thread never writes past the end of its data, which are a version that was saved.
InFile ==
  \A w \in Writers : (writer[w].pc = "write" => writer[w].off < Chunks) /\ writer[w].ver <= version

\* As long as no two saves overlapped.
Alone == Distinct /\ Versions /\ Progress

FileInv == File!TypeOK /\ InFile /\ Placed /\ (~overlap => Alone)

WriterState ==
  [pc : {"idle", "write", "fsync", "rename", "syncdir"}, ver : 0 .. MaxVersion,
   fd : Inodes \cup {0}, off : 0 .. Chunks]

\* The type invariant of the file, in the terms that the proofs use.
LEMMA FileTypes ==
  ASSUME File!TypeOK
  PROVE  /\ dir \in File!Dir /\ dirDisk \in File!Dir
         /\ dir.tmp \in Inodes \cup {0} /\ dir.path \in Inodes \cup {0}
         /\ dirDisk.tmp \in Inodes \cup {0} /\ dirDisk.path \in Inodes \cup {0}
         /\ data \in [Inodes -> File!FileData] /\ dataDisk \in [Inodes -> File!FileData]
         /\ writer \in [Writers -> WriterState]
         /\ \A w \in Writers : /\ writer[w] \in WriterState
                               /\ writer[w].pc \in {"idle", "write", "fsync", "rename", "syncdir"}
                               /\ writer[w].ver \in 0 .. MaxVersion /\ writer[w].fd \in Inodes \cup {0}
                               /\ writer[w].off \in 0 .. Chunks
         /\ version \in 0 .. MaxVersion /\ saved \in 0 .. version /\ overlap \in BOOLEAN
BY DEF File!TypeOK, File!Dir, WriterState

\* What the steps of a writer do to the state of the writers.
Moves(w, new) == /\ new \in WriterState /\ writer' \in [Writers -> WriterState] /\ writer'[w] = new
                 /\ \A u \in Writers \ {w} : writer'[u] = writer[u]

\* Opening the temporary file.
LEMMA FileOpen ==
  ASSUME FileInv, NEW w \in Writers, File!Open(w)
  PROVE  FileInv'
<1> USE FileTypes, FileAssumption DEF FileInv
<1>1. PICK n \in IF dir.tmp # 0 THEN {dir.tmp} ELSE Inodes \ File!InUse :
           /\ dir' = [dir EXCEPT !.tmp = n] /\ data' = [data EXCEPT ![n] = File!Empty]
           /\ writer' = [writer EXCEPT ![w] = [pc |-> "write", ver |-> version', fd |-> n, off |-> 0]]
  BY DEF File!Open
<1>2. /\ writer[w].pc = "idle" /\ version < MaxVersion /\ version' = version + 1
      /\ overlap' = (overlap \/ \E u \in Writers : writer[u].pc # "idle")
      /\ UNCHANGED <<dirDisk, dataDisk, saved>>
  BY DEF File!Open
<1>3. n \in Inodes /\ n # 0
  BY <1>1
<1>4. dir' \in File!Dir /\ dir'.tmp = n /\ dir'.path = dir.path
  BY <1>1, <1>3 DEF File!Dir
<1>5. version' \in 1 .. MaxVersion /\ version' \in 0 .. MaxVersion /\ saved' \in 0 .. version' /\ overlap' \in BOOLEAN
  BY <1>2
<1>6. Moves(w, [pc |-> "write", ver |-> version', fd |-> n, off |-> 0])
  <2>1. [pc |-> "write", ver |-> version', fd |-> n, off |-> 0] \in WriterState
    BY <1>3, <1>5 DEF WriterState
  <2> QED
    BY <1>1, <2>1 DEF Moves
<1>7. data' \in [Inodes -> File!FileData] /\ \A m \in Inodes \ {n} : data'[m] = data[m]
  <2>1. File!Empty \in File!FileData
    BY DEF File!Empty, File!FileData, File!Hole
  <2> QED
    BY <1>1, <2>1
<1>8. File!TypeOK'
  BY <1>2, <1>4, <1>5, <1>6, <1>7 DEF File!TypeOK, Moves, WriterState
<1>9. InFile'
  BY <1>2, <1>5, <1>6 DEF InFile, Moves
<1>10. Placed'
  BY <1>2, <1>4, <1>6 DEF Placed, Moves
<1>11. ASSUME ~overlap'
       PROVE  Alone'
  <2>1. Alone /\ \A u \in Writers : writer[u].pc = "idle"
    BY <1>2, <1>11
  <2>2. n # dir.path /\ n # dirDisk.path
    BY <1>1, <1>3, <2>1 DEF Alone, Distinct, File!InUse
  <2>3. Distinct'
    BY <1>2, <1>4, <2>1, <2>2 DEF Alone, Distinct
  <2>4. \A m \in Inodes \ {n} : \A v : InodeHas(m, v) => InodeHas(m, v)'
    BY <1>2, <1>7 DEF InodeHas
  <2>5. Versions'
    BY <1>2, <1>4, <2>1, <2>2, <2>4 DEF Alone, Versions
  <2>6. Progress'
    BY <1>4, <1>6, <2>1 DEF Progress, Moves
  <2> QED
    BY <2>3, <2>5, <2>6 DEF Alone
<1> QED
  BY <1>8, <1>9, <1>10, <1>11

\* Writing a piece of it.
LEMMA FileWrite ==
  ASSUME FileInv, NEW w \in Writers, File!Write(w)
  PROVE  FileInv'
<1> USE FileTypes, FileAssumption DEF FileInv
<1> DEFINE fd == writer[w].fd
           off == writer[w].off
           pc == IF off + 1 = Chunks THEN "fsync" ELSE "write"
<1>1. /\ writer[w].pc = "write" /\ data' = [data EXCEPT ![fd][off + 1] = writer[w].ver]
      /\ writer' = [writer EXCEPT ![w].off = off + 1, ![w].pc = pc]
      /\ UNCHANGED <<dir, dirDisk, dataDisk, version, saved, overlap>>
  BY DEF File!Write
<1>2. off \in Nat /\ off + 1 \in 1 .. Chunks /\ (off + 1 # Chunks => off + 1 < Chunks)
  BY <1>1 DEF InFile
<1>3. Moves(w, [pc |-> pc, ver |-> writer[w].ver, fd |-> fd, off |-> off + 1])
  <2>1. [pc |-> pc, ver |-> writer[w].ver, fd |-> fd, off |-> off + 1] \in WriterState
    BY <1>2 DEF WriterState
  <2>2. writer'[w] = [pc |-> pc, ver |-> writer[w].ver, fd |-> fd, off |-> off + 1]
    BY ZenonT(60), <1>1 DEF WriterState
  <2>3. DOMAIN writer' = Writers /\ \A u \in Writers \ {w} : writer'[u] = writer[u]
    BY <1>1
  <2>4. writer' \in [Writers -> WriterState]
    BY <1>1, <2>1, <2>2, <2>3
  <2> QED
    BY <2>1, <2>2, <2>3, <2>4 DEF Moves
<1>4. /\ data' \in [Inodes -> File!FileData] /\ \A m \in Inodes \ {fd} : data'[m] = data[m]
      /\ fd # 0 => data'[fd] = [data[fd] EXCEPT ![off + 1] = writer[w].ver]
  <2>1. CASE fd \in Inodes
    <3>1. data[fd] \in File!FileData /\ writer[w].ver \in 0 .. File!Hole
      <4>1. writer[w].ver \in 0 .. MaxVersion /\ MaxVersion \in Nat
        OBVIOUS
      <4>2. writer[w].ver \in 0 .. MaxVersion + 1
        BY <4>1
      <4> QED
        BY <2>1, <4>2 DEF File!Hole
    <3>2. [data[fd] EXCEPT ![off + 1] = writer[w].ver] \in File!FileData
      BY <1>2, <3>1 DEF File!FileData
    <3> QED
      BY <1>1, <2>1, <3>2
  <2>2. CASE fd \notin Inodes
    BY <1>1, <2>2
  <2> QED
    BY <2>1, <2>2
<1>5. File!TypeOK'
  BY <1>1, <1>3, <1>4 DEF File!TypeOK, Moves, WriterState
<1>6. InFile'
  BY <1>1, <1>2, <1>3 DEF InFile, Moves
<1>7. Placed'
  BY <1>1, <1>3 DEF Placed, Moves
<1>8. ASSUME ~overlap'
      PROVE  Alone'
  <2>1. Alone /\ fd = dir.tmp /\ fd # 0 /\ fd \in Inodes /\ writer[w].ver = version
    BY <1>1, <1>8 DEF Alone, Progress
  <2>2. fd # dir.path /\ fd # dirDisk.path
    BY <2>1 DEF Alone, Distinct
  <2>3. Distinct'
    BY <1>1, <2>1 DEF Alone, Distinct
  <2>4. \A m \in Inodes \ {fd} : \A v : InodeHas(m, v) => InodeHas(m, v)'
    BY <1>1, <1>4 DEF InodeHas
  <2>5. Versions'
    BY <1>1, <2>1, <2>2, <2>4 DEF Alone, Versions
  <2>6. \A c \in 1 .. off + 1 : data'[fd][c] = version
    <3>1. \A c \in 1 .. off : data[fd][c] = version
      BY <1>1, <2>1 DEF Alone, Progress
    <3>2. data[fd] \in [1 .. Chunks -> 0 .. File!Hole]
      BY <2>1 DEF File!FileData
    <3>3. \A c \in 1 .. off + 1 : c \in 1 .. Chunks /\ (c = off + 1 \/ c \in 1 .. off)
      BY <1>2
    <3> QED
      BY SMTT(40), <1>4, <2>1, <3>1, <3>2, <3>3
  <2>7. \A u \in Writers \ {w} : writer[u].pc = "idle"
    BY <1>1, <2>1 DEF Alone, Progress
  <2>8. writer'[w].pc = pc /\ writer'[w].ver = version /\ writer'[w].fd = fd /\ writer'[w].off = off + 1
    BY <1>3, <2>1 DEF Moves
  <2>9. \A u \in Writers \ {w} : writer'[u].pc = "idle"
    BY <1>3, <2>7 DEF Moves
  <2>10. pc \in {"write", "fsync"} /\ (pc = "fsync" => off + 1 = Chunks)
    OBVIOUS
  <2> HIDE DEF fd, off, pc
  <2>11. Progress'
    BY <1>1, <2>1, <2>6, <2>8, <2>9, <2>10 DEF Progress
  <2> QED
    BY <2>3, <2>5, <2>11 DEF Alone
<1> QED
  BY <1>5, <1>6, <1>7, <1>8

\* A save that fails: the temporary file could not be written, or was gone.
LEMMA FileFails ==
  ASSUME FileInv, NEW w \in Writers, File!WriteFails(w) \/ File!RenameFails(w)
  PROVE  FileInv'
<1> USE FileTypes, FileAssumption DEF FileInv
<1>1. /\ writer[w].pc # "idle" /\ writer' = [writer EXCEPT ![w] = File!Idle]
      /\ dir' = [dir EXCEPT !.tmp = 0] \/ dir' = dir
      /\ UNCHANGED <<data, dirDisk, dataDisk, version, saved, overlap>>
  BY DEF File!WriteFails, File!RenameFails
<1>2. Moves(w, File!Idle) /\ File!Idle.pc = "idle" /\ File!Idle.ver = 0
  <2>1. File!Idle \in WriterState
    BY DEF File!Idle, WriterState
  <2> QED
    BY <1>1, <2>1 DEF Moves, File!Idle
<1>3. dir' \in File!Dir /\ (dir'.tmp = dir.tmp \/ dir'.tmp = 0) /\ dir'.path = dir.path
  BY <1>1 DEF File!Dir
<1>4. File!TypeOK'
  BY <1>1, <1>2, <1>3 DEF File!TypeOK, Moves, WriterState
<1>5. InFile' /\ Placed'
  BY <1>1, <1>2, <1>3 DEF InFile, Placed, Moves
<1>6. ASSUME ~overlap'
      PROVE  Alone'
  <2>1. Alone
    BY <1>1, <1>6
  <2>2. Distinct'
    BY <1>1, <1>3, <2>1 DEF Alone, Distinct
  <2>3. \A m, v : InodeHas(m, v)' <=> InodeHas(m, v)
    BY <1>1 DEF InodeHas
  <2>4. Versions'
    BY <1>1, <1>3, <2>1, <2>3 DEF Alone, Versions
  <2>5. \A u \in Writers : writer'[u].pc = "idle"
    BY <1>1, <1>2, <2>1 DEF Alone, Progress, Moves
  <2>6. Progress'
    BY <2>5 DEF Progress
  <2> QED
    BY <2>2, <2>4, <2>6 DEF Alone
<1> QED
  BY <1>4, <1>5, <1>6

\* The temporary file goes to the disk.
LEMMA FileFsync ==
  ASSUME FileInv, NEW w \in Writers, File!Fsync(w)
  PROVE  FileInv'
<1> USE FileTypes, FileAssumption DEF FileInv
<1>1. /\ writer[w].pc = "fsync" /\ writer' = [writer EXCEPT ![w].pc = "rename"]
      /\ dataDisk' = [n \in Inodes |-> IF n = dir.tmp THEN data[n] ELSE dataDisk[n]]
      /\ UNCHANGED <<dir, data, dirDisk, version, saved, overlap>>
  BY DEF File!Fsync
<1>2. Moves(w, [pc |-> "rename", ver |-> writer[w].ver, fd |-> writer[w].fd, off |-> writer[w].off])
  <2>1. [pc |-> "rename", ver |-> writer[w].ver, fd |-> writer[w].fd, off |-> writer[w].off] \in WriterState
    BY DEF WriterState
  <2>2. writer'[w] = [pc |-> "rename", ver |-> writer[w].ver, fd |-> writer[w].fd, off |-> writer[w].off]
    BY <1>1 DEF WriterState
  <2> QED
    BY <1>1, <2>1, <2>2 DEF Moves
<1>3. dataDisk' \in [Inodes -> File!FileData]
  BY <1>1
<1>4. File!TypeOK'
  BY <1>1, <1>2, <1>3 DEF File!TypeOK, Moves, WriterState
<1>5. InFile' /\ Placed'
  BY <1>1, <1>2 DEF InFile, Placed, Moves
<1>6. ASSUME ~overlap'
      PROVE  Alone'
  <2>1. /\ Alone /\ writer[w].fd = dir.tmp /\ dir.tmp # 0 /\ dir.tmp \in Inodes /\ writer[w].ver = version
        /\ writer[w].off = Chunks
    BY <1>1, <1>6 DEF Alone, Progress
  <2>2. Distinct'
    BY <1>1, <2>1 DEF Alone, Distinct
  <2>3. \A m \in Inodes \ {dir.tmp} : \A v : InodeHas(m, v) => InodeHas(m, v)'
    BY <1>1 DEF InodeHas
  <2>4. Versions'
    BY <1>1, <2>1, <2>3 DEF Alone, Versions, Distinct
  <2>5. \A c \in 1 .. Chunks : data[dir.tmp][c] = version
    BY <1>1, <2>1 DEF Alone, Progress
  <2>6. InodeHas(dir.tmp, version)'
    BY <1>1, <2>1, <2>5 DEF InodeHas
  <2>7. \A u \in Writers \ {w} : writer'[u].pc = "idle"
    BY <1>1, <1>2, <2>1 DEF Alone, Progress, Moves
  <2>8. /\ writer'[w].pc = "rename" /\ writer'[w].ver = version /\ writer'[w].fd = dir.tmp
        /\ writer'[w].off = Chunks
    BY <1>2, <2>1 DEF Moves
  <2>9. Progress'
    BY <1>1, <2>1, <2>5, <2>6, <2>7, <2>8 DEF Progress
  <2> QED
    BY <2>2, <2>4, <2>9 DEF Alone
<1> QED
  BY <1>4, <1>5, <1>6

\* The temporary file gets the name of the database file.
LEMMA FileRename ==
  ASSUME FileInv, NEW w \in Writers, File!Rename(w)
  PROVE  FileInv'
<1> USE FileTypes, FileAssumption DEF FileInv
<1>1. /\ writer[w].pc = "rename" /\ dir.tmp # 0 /\ writer' = [writer EXCEPT ![w].pc = "syncdir"]
      /\ dir' = [tmp |-> 0, path |-> dir.tmp]
      /\ UNCHANGED <<data, dirDisk, dataDisk, version, saved, overlap>>
  BY DEF File!Rename
<1>2. Moves(w, [pc |-> "syncdir", ver |-> writer[w].ver, fd |-> writer[w].fd, off |-> writer[w].off])
  <2>1. [pc |-> "syncdir", ver |-> writer[w].ver, fd |-> writer[w].fd, off |-> writer[w].off] \in WriterState
    BY DEF WriterState
  <2>2. writer'[w] = [pc |-> "syncdir", ver |-> writer[w].ver, fd |-> writer[w].fd, off |-> writer[w].off]
    BY <1>1 DEF WriterState
  <2> QED
    BY <1>1, <2>1, <2>2 DEF Moves
<1>3. dir' \in File!Dir /\ dir'.tmp = 0 /\ dir'.path = dir.tmp
  BY <1>1 DEF File!Dir
<1>4. File!TypeOK'
  BY <1>1, <1>2, <1>3 DEF File!TypeOK, Moves, WriterState
<1>5. InFile'
  <2>1. writer'[w].pc = "syncdir" /\ writer'[w].ver = writer[w].ver /\ version' = version
    BY <1>1, <1>2 DEF Moves
  <2>2. \A u \in Writers \ {w} : writer'[u] = writer[u]
    BY <1>2 DEF Moves
  <2> QED
    BY <2>1, <2>2 DEF InFile
<1>7. Placed'
  BY <1>1, <1>2, <1>3 DEF Placed, Moves
<1>6. ASSUME ~overlap'
      PROVE  Alone'
  <2>1. Alone /\ InodeHas(dir.tmp, version) /\ writer[w].ver = version
    BY <1>1, <1>6 DEF Alone, Progress
  <2>2. Distinct'
    BY <1>1, <1>3, <2>1 DEF Alone, Distinct
  <2>3. \A m, v : InodeHas(m, v)' <=> InodeHas(m, v)
    BY <1>1 DEF InodeHas
  <2>4. version \in saved .. MaxVersion
    OBVIOUS
  <2>5. Versions'
    BY <1>1, <1>3, <2>1, <2>3, <2>4 DEF Alone, Versions
  <2>6. \A u \in Writers \ {w} : writer'[u].pc = "idle"
    BY <1>1, <1>2, <2>1 DEF Alone, Progress, Moves
  <2>7. writer'[w].pc = "syncdir" /\ writer'[w].ver = version
    BY <1>2, <2>1 DEF Moves
  <2>8. Progress'
    BY <1>1, <1>3, <2>1, <2>3, <2>6, <2>7 DEF Progress
  <2> QED
    BY <2>2, <2>5, <2>8 DEF Alone
<1> QED
  BY <1>4, <1>5, <1>6, <1>7

\* The directory is synced, and save() returns.
LEMMA FileSyncDir ==
  ASSUME FileInv, NEW w \in Writers, File!SyncDir(w)
  PROVE  FileInv'
<1> USE FileTypes, FileAssumption DEF FileInv
<1>1. /\ writer[w].pc = "syncdir" /\ writer' = [writer EXCEPT ![w] = File!Idle] /\ dirDisk' = dir
      /\ saved' = IF writer[w].ver > saved THEN writer[w].ver ELSE saved
      /\ UNCHANGED <<dir, data, dataDisk, version, overlap>>
  BY DEF File!SyncDir
<1>2. Moves(w, File!Idle) /\ File!Idle.pc = "idle" /\ File!Idle.ver = 0
  <2>1. File!Idle \in WriterState
    BY DEF File!Idle, WriterState
  <2> QED
    BY <1>1, <2>1 DEF Moves, File!Idle
<1>3. InFile' /\ Placed'
  BY <1>1, <1>2 DEF InFile, Placed, Moves
<1>4. File!TypeOK'
  <2>1. saved' \in 0 .. version'
    BY <1>1 DEF InFile
  <2> QED
    BY <1>1, <1>2, <2>1 DEF File!TypeOK, Moves, WriterState
<1>5. ASSUME ~overlap'
      PROVE  Alone'
  <2>1. Alone /\ InodeHas(dir.path, version) /\ writer[w].ver = version /\ dir.path # 0
    BY <1>1, <1>5 DEF Alone, Progress, Placed
  <2>2. Distinct'
    BY <1>1, <2>1 DEF Alone, Distinct
  <2>3. \A m, v : InodeHas(m, v)' <=> InodeHas(m, v)
    BY <1>1 DEF InodeHas
  <2>4. saved' = version /\ version \in saved' .. MaxVersion
    BY <1>1, <2>1
  <2>5. Versions'
    BY <1>1, <2>1, <2>3, <2>4 DEF Versions
  <2>6. \A u \in Writers : writer'[u].pc = "idle"
    BY <1>1, <1>2, <2>1 DEF Alone, Progress, Moves
  <2>7. Progress'
    BY <2>6 DEF Progress
  <2> QED
    BY <2>2, <2>5, <2>7 DEF Alone
<1> QED
  BY <1>3, <1>4, <1>5

\* Power loss.
LEMMA FileCrash ==
  ASSUME FileInv, File!Crash
  PROVE  FileInv'
<1> USE FileTypes, FileAssumption DEF FileInv
<1>1. /\ dir' \in {dir, dirDisk} /\ dirDisk' = dir' /\ dataDisk' = data'
      /\ writer' = [w \in Writers |-> File!Idle] /\ UNCHANGED <<version, saved, overlap>>
  BY DEF File!Crash
<1>2. PICK lost \in SUBSET {u \in Inodes \X (1 .. Chunks) : data[u[1]][u[2]] # dataDisk[u[1]][u[2]]} :
           data' = [n \in Inodes |-> [c \in 1 .. Chunks |->
                      IF <<n, c>> \in lost THEN dataDisk[n][c] ELSE data[n][c]]]
  BY DEF File!Crash
<1>3. data' \in [Inodes -> File!FileData]
  BY <1>2 DEF File!FileData
<1>4. \A n \in Inodes, c \in 1 .. Chunks : data'[n][c] = data[n][c] \/ data'[n][c] = dataDisk[n][c]
  BY <1>2
<1>5. writer' \in [Writers -> WriterState] /\ \A w \in Writers : writer'[w].pc = "idle" /\ writer'[w].ver = 0
  BY <1>1 DEF File!Idle, WriterState
<1>6. File!TypeOK'
  BY <1>1, <1>3, <1>5 DEF File!TypeOK, WriterState
<1>7. InFile' /\ Placed'
  BY <1>1, <1>5 DEF InFile, Placed
<1>8. ASSUME ~overlap'
      PROVE  Alone'
  <2>1. Alone
    BY <1>1, <1>8
  <2>2. Distinct'
    BY <1>1, <2>1 DEF Alone, Distinct
  <2>3. \A m \in Inodes : \A v : InodeHas(m, v) => InodeHas(m, v)'
    BY <1>1, <1>4 DEF InodeHas
  <2>4. Versions'
    BY <1>1, <2>1, <2>3 DEF Alone, Versions
  <2>5. Progress'
    BY <1>5 DEF Progress
  <2> QED
    BY <2>2, <2>4, <2>5 DEF Alone
<1> QED
  BY <1>6, <1>7, <1>8

\* The invariant of the file.
LEMMA FileInvHolds == AllSpec => []FileInv
<1>1. ASSUME File!Init
      PROVE  FileInv
  <2>1. File!TypeOK
    <3>1. File!Empty \in File!FileData
      BY FileAssumption DEF File!Empty, File!FileData, File!Hole
    <3>2. data \in [Inodes -> File!FileData] /\ dataDisk \in [Inodes -> File!FileData]
      BY <1>1, <3>1 DEF File!Init
    <3>3. File!Idle \in WriterState
      BY FileAssumption DEF File!Idle, WriterState
    <3>4. writer \in [Writers -> WriterState]
      BY <1>1, <3>3 DEF File!Init
    <3>5. dir \in File!Dir /\ dirDisk \in File!Dir
      BY <1>1 DEF File!Init, File!Dir
    <3>6. version \in 0 .. MaxVersion /\ saved \in 0 .. version /\ overlap \in BOOLEAN
      <4>1. version = 0 /\ saved = 0 /\ overlap = FALSE
        BY <1>1 DEF File!Init
      <4>2. version \in 0 .. MaxVersion /\ saved \in 0 .. version
        BY <4>1, FileAssumption
      <4>3. overlap \in BOOLEAN
        BY <4>1
      <4> QED
        BY <4>2, <4>3
    <3> QED
      BY <3>2, <3>4, <3>5, <3>6 DEF File!TypeOK, WriterState
  <2>2. /\ \A w \in Writers : writer[w].pc = "idle" /\ writer[w].ver <= version
        /\ dir.tmp = 0 /\ dir.path = 0 /\ dirDisk.tmp = 0 /\ dirDisk.path = 0 /\ saved = 0
    BY <1>1, FileAssumption DEF File!Init, File!Idle
  <2> QED
    BY <2>1, <2>2 DEF FileInv, InFile, Placed, Alone, Distinct, Versions, Progress
<1>2. ASSUME FileInv, File!Next \/ UNCHANGED fileVars
      PROVE  FileInv'
  <2>1. CASE UNCHANGED fileVars
    BY <1>2, <2>1 DEF fileVars, FileInv, File!TypeOK, InFile, Placed, Alone, Distinct, Versions, Progress, InodeHas
  <2>2. CASE File!Next
    BY <1>2, <2>2, FileOpen, FileWrite, FileFails, FileFsync, FileRename, FileSyncDir, FileCrash DEF File!Next
  <2> QED
    BY <1>2, <2>1, <2>2
<1>3. AllInit => File!Init
  BY DEF AllInit
<1>4. [AllNext]_<<part, vars, fileVars, logVars, poolVars, pageVars>> => File!Next \/ UNCHANGED fileVars
  BY DEF AllNext
<1> QED
  BY <1>1, <1>2, <1>3, <1>4, PTL DEF AllSpec

\* Once a save has returned there is a database file, and as long as no two saves overlap
\* it is one whole version and not older than the last save that returned: at any moment
\* of atomicWriteFile and after any crash, for files of any number of pieces.
THEOREM DatabaseFileIsWhole == AllSpec => []FileIsWhole
<1>1. ASSUME FileInv
      PROVE  FileIsWhole
  <2> USE FileTypes, FileAssumption DEF FileInv
  <2>1. saved > 0 => dir.path # 0
    BY <1>1 DEF Placed
  <2>2. ASSUME ~overlap
        PROVE  \E v \in saved .. MaxVersion : \A c \in 1 .. Chunks : File!Content[c] = v
    <3>1. CASE dir.path = 0
      <4>1. saved = 0 /\ 0 \in saved .. MaxVersion
        BY <1>1, <2>1, <3>1
      <4>2. \A c \in 1 .. Chunks : File!Content[c] = 0
        BY <3>1 DEF File!Content
      <4> QED
        BY <4>1, <4>2
    <3>2. CASE dir.path # 0
      BY <1>1, <2>2, <3>2 DEF Alone, Versions, InodeHas, File!Content
    <3> QED
      BY <3>1, <3>2
  <2> QED
    BY <2>1, <2>2 DEF FileIsWhole, File!FileIsWhole
<1> QED
  BY <1>1, FileInvHolds, PTL
-----------------------------------------------------------------------------
(* The write-ahead log *)

Record == [type : {"TX_BEGIN", "TX_COMMIT", "CRC", "TX_ROLLBACK"}, id : Nat] \cup [type : {"OP"}, op : Ops]
Transaction == [id : Nat, buffer : Seq(Ops), undone : BOOLEAN]
Entry == [txId : Nat, committed : BOOLEAN, rolledBack : BOOLEAN, ops : Seq(Ops)]
ScanState == [entries : Seq(Entry), current : Nat, pending : SUBSET Nat]

\* f gives the state of the scan of the records after each of them.
Scanned(f, records) ==
  f = [n \in 0 .. Len(records) |->
         IF n = 0 THEN Log!ScanStart ELSE Log!ScanRecord(f[n - 1], records[n])]

\* The committed entries are the first m, and they are the first m transactions of txs.
CommittedUpTo(m, entries, txs) ==
  /\ m \in 0 .. Len(entries) /\ m <= Len(txs)
  /\ \A i \in 1 .. Len(entries) : entries[i].committed <=> i <= m
  /\ \A i \in 1 .. m : /\ entries[i].txId = txs[i].id
                       /\ ~txs[i].undone => entries[i].ops = txs[i].buffer

\* No two entries have one id, and the ids were given out.
OwnIds(entries, last) ==
  /\ \A i \in 1 .. Len(entries) : entries[i].txId >= 1 /\ entries[i].txId <= last
  /\ \A i, j \in 1 .. Len(entries) : entries[i].txId = entries[j].txId => i = j

\* A state of the scan of the records of the transactions txs, with ids up to last.
GoodState(st, txs, last) ==
  /\ st \in ScanState
  /\ \E m \in 0 .. Len(st.entries) : CommittedUpTo(m, st.entries, txs)
  /\ OwnIds(st.entries, last)

\* A commit line is about the last entry, the only one that is not committed; a checksum
\* is about the last entry, which has just been committed.
Fits(st, r) ==
  LET k == Len(st.entries)
  IN  /\ r.type = "TX_COMMIT" => /\ k >= 1 /\ st.entries[k].txId = r.id
                                 /\ \A i \in 1 .. k : st.entries[i].committed <=> i # k
      /\ r.type = "CRC" => k >= 1 /\ st.entries[k].committed /\ st.pending = {st.entries[k].txId}

\* What the scan goes through.
History(f, records, txs, last) ==
  /\ Scanned(f, records)
  /\ \A n \in 0 .. Len(records) : GoodState(f[n], txs, last)
  /\ \A n \in 0 .. Len(records) - 1 : Fits(f[n], records[n + 1])

\* Where the scan of the whole file ends, when t is the open transaction.
EndState(st, txs, t, rolling) ==
  /\ st.pending = {} /\ CommittedUpTo(Len(txs), st.entries, txs)
  /\ t.id = 0 /\ ~rolling => Len(st.entries) = Len(txs)
  /\ t.id # 0 => /\ Len(st.entries) = Len(txs) + 1 /\ st.current = Len(txs) + 1
                 /\ st.entries[Len(txs) + 1].txId = t.id
                 /\ ~t.undone => st.entries[Len(txs) + 1].ops = t.buffer

\* What the session has, whatever the file has met.
LogShape ==
  /\ file \in Seq(Record) /\ synced \in 0 .. Len(file) /\ loggedTxs \in Seq(Transaction)
  /\ lastId \in 0 .. MaxTxId /\ tx \in Transaction /\ tx.id <= lastId
  /\ spoiled \in SUBSET {"failed", "restarted"}

\* What it has while the file has met nothing.
LogTypes ==
  /\ file \in Seq(Record) /\ synced \in 0 .. Len(file) /\ loggedTxs \in Seq(Transaction)
  /\ lastId \in 0 .. MaxTxId /\ tx \in Transaction /\ tx.id <= lastId
  /\ tx.id # 0 => \E i \in DOMAIN file : file[i] = Log!BeginRec(tx.id)

\* The records of a transaction are on disk when its commit record is.
Unsynced ==
  /\ tx.id # 0 => synced < Len(file)
  /\ Log!RollingBack => synced < Len(file) /\ tx.id = 0

LogGood ==
  /\ LogTypes /\ Unsynced
  /\ \E f : /\ History(f, file, loggedTxs, lastId)
            /\ EndState(f[Len(file)], loggedTxs, tx, Log!RollingBack)

LogInv == LogShape /\ (spoiled = {} => LogGood)

\* The scan of a file is the one that goes from record to record.
LEMMA ScanIsUnique ==
  ASSUME NEW records \in Seq(Record), NEW f, NEW g, Scanned(f, records), Scanned(g, records)
  PROVE  \A n \in 0 .. Len(records) : f[n] = g[n]
<1> DEFINE S == {n \in Nat : n <= Len(records) => f[n] = g[n]}
<1>1. Len(records) \in Nat
  OBVIOUS
<1>2. 0 \in S
  BY <1>1 DEF Scanned
<1>3. ASSUME NEW n \in Nat, n \in S
      PROVE  n + 1 \in S
  <2> SUFFICES ASSUME n + 1 <= Len(records)
               PROVE  f[n + 1] = g[n + 1]
    OBVIOUS
  <2>1. f[n] = g[n] /\ n + 1 \in 0 .. Len(records) /\ n + 1 # 0 /\ n + 1 - 1 = n
    BY <1>1, <1>3
  <2>2. f[n + 1] = Log!ScanRecord(f[n], records[n + 1])
    BY <2>1 DEF Scanned
  <2>3. g[n + 1] = Log!ScanRecord(g[n], records[n + 1])
    BY <2>1 DEF Scanned
  <2> QED
    BY <2>1, <2>2, <2>3
<1> HIDE DEF S
<1>4. Nat \subseteq S
  BY <1>2, <1>3, SetInduction
<1> QED
  BY <1>1, <1>4 DEF S

\* What scanWal returns.
LEMMA ScanReturns ==
  ASSUME NEW records \in Seq(Record), NEW f, Scanned(f, records)
  PROVE  Log!ScanWal(records) = f[Len(records)].entries
<1> DEFINE g == CHOOSE h : Scanned(h, records)
<1>1. Scanned(g, records)
  OBVIOUS
<1>2. Log!ScanWal(records) = g[Len(records)].entries
  BY DEF Log!ScanWal, Scanned
<1>3. Len(records) \in 0 .. Len(records)
  OBVIOUS
<1> HIDE DEF g
<1> QED
  BY <1>1, <1>2, <1>3, ScanIsUnique

\* The scan of the first records.
LEMMA ScanOfPrefix ==
  ASSUME NEW records \in Seq(Record), NEW f, Scanned(f, records), NEW n \in 0 .. Len(records)
  PROVE  /\ SubSeq(records, 1, n) \in Seq(Record) /\ Len(SubSeq(records, 1, n)) = n
         /\ \A i \in 1 .. n : SubSeq(records, 1, n)[i] = records[i]
         /\ Scanned([i \in 0 .. n |-> f[i]], SubSeq(records, 1, n))
<1>1. /\ SubSeq(records, 1, n) \in Seq(Record) /\ Len(SubSeq(records, 1, n)) = n
      /\ \A i \in 1 .. n : SubSeq(records, 1, n)[i] = records[i]
  OBVIOUS
<1> DEFINE kept == SubSeq(records, 1, n)
           g == [i \in 0 .. n |-> f[i]]
<1>2. ASSUME NEW i \in 0 .. n
      PROVE  g[i] = IF i = 0 THEN Log!ScanStart ELSE Log!ScanRecord(g[i - 1], kept[i])
  <2>1. i \in 0 .. Len(records) /\ (i # 0 => i \in 1 .. n /\ i - 1 \in 0 .. n)
    OBVIOUS
  <2>2. f[i] = IF i = 0 THEN Log!ScanStart ELSE Log!ScanRecord(f[i - 1], records[i])
    BY <2>1 DEF Scanned
  <2> QED
    BY <1>1, <2>1, <2>2
<1>3. g = [i \in 0 .. n |-> IF i = 0 THEN Log!ScanStart ELSE Log!ScanRecord(g[i - 1], kept[i])]
  BY <1>2
<1> HIDE DEF g, kept
<1>4. Scanned(g, kept)
  BY <1>1, <1>3 DEF Scanned, kept
<1> QED
  BY <1>1, <1>4 DEF g, kept

\* The scan of one record more.
LEMMA ScanOfAppend ==
  ASSUME NEW records \in Seq(Record), NEW f, Scanned(f, records), NEW r \in Record
  PROVE  \E g : /\ Scanned(g, Append(records, r))
                /\ \A n \in 0 .. Len(records) : g[n] = f[n]
                /\ g[Len(records) + 1] = Log!ScanRecord(f[Len(records)], r)
<1> DEFINE k == Len(records)
           all == Append(records, r)
           g == [n \in 0 .. k + 1 |-> IF n = k + 1 THEN Log!ScanRecord(f[k], r) ELSE f[n]]
<1>1. /\ k \in Nat /\ Len(all) = k + 1 /\ all[k + 1] = r
      /\ \A n \in 1 .. k : all[n] = records[n]
  OBVIOUS
<1> HIDE DEF all
<1>2. /\ \A n \in 0 .. k : g[n] = f[n]
      /\ g[k + 1] = Log!ScanRecord(f[k], r)
  BY <1>1
<1>3. ASSUME NEW n \in 0 .. k + 1
      PROVE  g[n] = IF n = 0 THEN Log!ScanStart ELSE Log!ScanRecord(g[n - 1], all[n])
  <2>1. CASE n = k + 1
    <3>1. n # 0 /\ n - 1 = k /\ k \in 0 .. k
      BY <1>1, <2>1
    <3> QED
      BY <1>1, <1>2, <2>1, <3>1
  <2>2. CASE n # k + 1
    <3>1. n \in 0 .. k /\ (n # 0 => n \in 1 .. k /\ n - 1 \in 0 .. k)
      BY <1>1, <2>2
    <3>2. f[n] = IF n = 0 THEN Log!ScanStart ELSE Log!ScanRecord(f[n - 1], records[n])
      BY <3>1 DEF Scanned
    <3> QED
      BY <1>1, <1>2, <3>1, <3>2
  <2> QED
    BY SMTT(40), <2>1, <2>2
<1>4. g = [n \in 0 .. k + 1 |-> IF n = 0 THEN Log!ScanStart ELSE Log!ScanRecord(g[n - 1], all[n])]
  BY <1>3
<1> HIDE DEF g
<1>5. Scanned(g, all)
  BY <1>1, <1>4 DEF Scanned
<1> QED
  BY <1>2, <1>5 DEF all

\* The loop that searches an id finds an entry of that id, if there is one.
LEMMA FirstFinds ==
  ASSUME NEW entries \in Seq(Entry), NEW id
  PROVE  LET k == Log!First(entries, id)
         IN  /\ k = 0 \/ (k \in 1 .. Len(entries) /\ entries[k].txId = id)
             /\ \A i \in 1 .. Len(entries) : entries[i].txId = id => k \in 1 .. Len(entries)
<1> DEFINE found == {i \in DOMAIN entries : entries[i].txId = id}
<1>1. DOMAIN entries = 1 .. Len(entries) /\ Len(entries) \in Nat
  OBVIOUS
<1>2. CASE found = {}
  BY <1>1, <1>2 DEF Log!First
<1>3. CASE found # {}
  <2>1. found \in SUBSET Nat
    BY <1>1
  <2>2. \E i \in found : \A j \in found : i <= j
    BY <1>3, <2>1, NatMin
  <2>3. Log!First(entries, id) \in found
    BY <1>3, <2>2 DEF Log!First
  <2> QED
    BY <1>1, <2>3
<1> QED
  BY <1>2, <1>3

\* With ids of their own, it finds the only one.
LEMMA FirstIsOnly ==
  ASSUME NEW entries \in Seq(Entry), NEW last, OwnIds(entries, last), NEW k \in 1 .. Len(entries)
  PROVE  Log!First(entries, entries[k].txId) = k
<1>1. Log!First(entries, entries[k].txId) \in 1 .. Len(entries)
  BY FirstFinds
<1>2. entries[Log!First(entries, entries[k].txId)].txId = entries[k].txId
  BY <1>1, FirstFinds
<1> QED
  BY <1>1, <1>2 DEF OwnIds

\* Marking an entry as committed, or not, changes nothing else.
LEMMA MarkCommitted ==
  ASSUME NEW entries \in Seq(Entry), NEW id, NEW v \in BOOLEAN
  PROVE  LET new == Log!SetCommitted(entries, id, v)
             k == Log!First(entries, id)
         IN  /\ new \in Seq(Entry) /\ Len(new) = Len(entries)
             /\ \A i \in 1 .. Len(entries) :
                  /\ new[i].txId = entries[i].txId /\ new[i].ops = entries[i].ops
                  /\ i = k => (new[i].committed <=> v)
                  /\ i # k => new[i].committed = entries[i].committed
<1> DEFINE new == Log!SetCommitted(entries, id, v)
           k == Log!First(entries, id)
<1>1. DOMAIN entries = 1 .. Len(entries) /\ Len(entries) \in Nat /\ \A i \in 1 .. Len(entries) : entries[i] \in Entry
  OBVIOUS
<1>2. new = [i \in 1 .. Len(entries) |-> IF i = k THEN [entries[i] EXCEPT !.committed = v] ELSE entries[i]]
  BY <1>1 DEF Log!SetCommitted
<1> HIDE DEF new, k
<1>3. ASSUME NEW i \in 1 .. Len(entries)
      PROVE  /\ new[i] \in Entry
             /\ new[i].txId = entries[i].txId /\ new[i].ops = entries[i].ops
             /\ i = k => (new[i].committed <=> v)
             /\ i # k => new[i].committed = entries[i].committed
  <2>1. entries[i] \in Entry /\ new[i] = IF i = k THEN [entries[i] EXCEPT !.committed = v] ELSE entries[i]
    BY <1>1, <1>2
  <2> QED
    BY <2>1 DEF Entry
<1>4. new = [i \in 1 .. Len(entries) |-> new[i]]
  BY <1>2
<1>5. new \in Seq(Entry) /\ Len(new) = Len(entries)
  BY <1>1, <1>3, <1>4, FunctionIsSeq
<1> QED
  BY <1>3, <1>5 DEF new, k

\* The mark is set,
LEMMA MarksSet ==
  ASSUME NEW entries \in Seq(Entry), NEW id
  PROVE  LET new == Log!SetCommitted(entries, id, TRUE)
             k == Log!First(entries, id)
         IN  /\ new \in Seq(Entry) /\ Len(new) = Len(entries)
             /\ \A i \in 1 .. Len(entries) :
                  /\ new[i].txId = entries[i].txId /\ new[i].ops = entries[i].ops
                  /\ i = k => new[i].committed
                  /\ i # k => new[i].committed = entries[i].committed
<1> DEFINE new == Log!SetCommitted(entries, id, TRUE)
           k == Log!First(entries, id)
<1>1. PICK v \in BOOLEAN : v = TRUE
  OBVIOUS
<1> DEFINE m == Log!SetCommitted(entries, id, v)
<1>2. /\ m \in Seq(Entry) /\ Len(m) = Len(entries)
      /\ \A i \in 1 .. Len(entries) : /\ m[i].txId = entries[i].txId /\ m[i].ops = entries[i].ops
                                      /\ i = k => (m[i].committed <=> v)
                                      /\ i # k => m[i].committed = entries[i].committed
  BY MarkCommitted
<1>3. m = new
  BY <1>1
<1> HIDE DEF m, new
<1> QED
  BY <1>1, <1>2, <1>3 DEF new

\* or it is revoked.
LEMMA MarksRevoked ==
  ASSUME NEW entries \in Seq(Entry), NEW id
  PROVE  LET new == Log!SetCommitted(entries, id, FALSE)
             k == Log!First(entries, id)
         IN  /\ new \in Seq(Entry) /\ Len(new) = Len(entries)
             /\ \A i \in 1 .. Len(entries) :
                  /\ new[i].txId = entries[i].txId /\ new[i].ops = entries[i].ops
                  /\ i = k => ~new[i].committed
                  /\ i # k => new[i].committed = entries[i].committed
<1> DEFINE new == Log!SetCommitted(entries, id, FALSE)
           k == Log!First(entries, id)
<1>1. PICK v \in BOOLEAN : v = FALSE
  OBVIOUS
<1> DEFINE m == Log!SetCommitted(entries, id, v)
<1>2. /\ m \in Seq(Entry) /\ Len(m) = Len(entries)
      /\ \A i \in 1 .. Len(entries) : /\ m[i].txId = entries[i].txId /\ m[i].ops = entries[i].ops
                                      /\ i = k => (m[i].committed <=> v)
                                      /\ i # k => m[i].committed = entries[i].committed
  BY MarkCommitted
<1>3. m = new
  BY <1>1
<1> HIDE DEF m, new
<1> QED
  BY <1>1, <1>2, <1>3 DEF new

\* Marking an entry as rolled back changes nothing else.
LEMMA MarkRolledBack ==
  ASSUME NEW entries \in Seq(Entry), NEW id
  PROVE  LET new == Log!SetRolledBack(entries, id)
         IN  /\ new \in Seq(Entry) /\ Len(new) = Len(entries)
             /\ \A i \in 1 .. Len(entries) :
                  /\ new[i].txId = entries[i].txId /\ new[i].ops = entries[i].ops
                  /\ new[i].committed = entries[i].committed
<1> DEFINE new == Log!SetRolledBack(entries, id)
           k == Log!First(entries, id)
<1>1. DOMAIN entries = 1 .. Len(entries) /\ Len(entries) \in Nat /\ \A i \in 1 .. Len(entries) : entries[i] \in Entry
  OBVIOUS
<1>2. new = [i \in 1 .. Len(entries) |-> IF i = k THEN [entries[i] EXCEPT !.rolledBack = TRUE] ELSE entries[i]]
  BY <1>1 DEF Log!SetRolledBack
<1> HIDE DEF new, k
<1>3. ASSUME NEW i \in 1 .. Len(entries)
      PROVE  /\ new[i] \in Entry
             /\ new[i].txId = entries[i].txId /\ new[i].ops = entries[i].ops
             /\ new[i].committed = entries[i].committed
  <2>1. entries[i] \in Entry /\ new[i] = IF i = k THEN [entries[i] EXCEPT !.rolledBack = TRUE] ELSE entries[i]
    BY <1>1, <1>2
  <2> QED
    BY <2>1 DEF Entry
<1>4. new = [i \in 1 .. Len(entries) |-> new[i]]
  BY <1>2
<1>5. new \in Seq(Entry) /\ Len(new) = Len(entries)
  BY <1>1, <1>3, <1>4, FunctionIsSeq
<1> QED
  BY <1>3, <1>5 DEF new

\* What is said of the entries depends on their ids, operations and commit marks only.
LEMMA SameMarks ==
  ASSUME NEW entries \in Seq(Entry), NEW new \in Seq(Entry), Len(new) = Len(entries),
         \A i \in 1 .. Len(entries) : /\ new[i].txId = entries[i].txId /\ new[i].ops = entries[i].ops
                                      /\ new[i].committed = entries[i].committed,
         NEW txs, NEW last, OwnIds(entries, last)
  PROVE  /\ OwnIds(new, last)
         /\ \A m : CommittedUpTo(m, entries, txs) => CommittedUpTo(m, new, txs)
<1>1. OwnIds(new, last)
  BY DEF OwnIds
<1>2. ASSUME NEW m, CommittedUpTo(m, entries, txs)
      PROVE  CommittedUpTo(m, new, txs)
  <2>1. Len(entries) \in Nat /\ m \in 0 .. Len(entries) /\ \A i \in 1 .. m : i \in 1 .. Len(entries)
    BY <1>2 DEF CommittedUpTo
  <2> QED
    BY <1>2, <2>1 DEF CommittedUpTo
<1> QED
  BY <1>1, <1>2

\* TX_BEGIN: one entry more, open and not committed.
LEMMA ScanBegin ==
  ASSUME NEW st \in ScanState, NEW r \in Record, r.type = "TX_BEGIN", NEW txs, NEW last
  PROVE  LET new == Log!ScanRecord(st, r)
             k == Len(st.entries)
         IN  /\ new \in ScanState /\ new.pending = st.pending /\ new.current = k + 1
             /\ Len(new.entries) = k + 1 /\ new.entries[k + 1].txId = r.id /\ new.entries[k + 1].ops = <<>>
             /\ \A m : CommittedUpTo(m, st.entries, txs) => CommittedUpTo(m, new.entries, txs)
             /\ OwnIds(st.entries, last) /\ last \in Nat /\ r.id = last + 1 => OwnIds(new.entries, r.id)
<1> DEFINE new == Log!ScanRecord(st, r)
           e == Log!NewEntry(r.id)
           k == Len(st.entries)
<1>1. st.entries \in Seq(Entry) /\ k \in Nat /\ r.id \in Nat
  BY DEF ScanState, Record
<1>2. e \in Entry /\ e.txId = r.id /\ e.committed = FALSE /\ e.ops = <<>>
  BY <1>1 DEF Log!NewEntry, Entry
<1>3. new = [st EXCEPT !.entries = Append(@, e), !.current = k + 1]
  BY DEF Log!ScanRecord
<1> HIDE DEF new, e
<1>4. new.entries = Append(st.entries, e) /\ new.current = k + 1 /\ new.pending = st.pending
  BY <1>3 DEF ScanState
<1>5. /\ new.entries \in Seq(Entry) /\ Len(new.entries) = k + 1 /\ new.entries[k + 1] = e
      /\ \A i \in 1 .. k : new.entries[i] = st.entries[i]
  BY <1>1, <1>2, <1>4
<1>6. new \in ScanState
  <2>1. new.current \in Nat /\ new.pending \in SUBSET Nat
    BY <1>1, <1>4 DEF ScanState
  <2>2. new = [entries |-> new.entries, current |-> new.current, pending |-> new.pending]
    BY <1>3 DEF ScanState
  <2> QED
    BY <1>5, <2>1, <2>2 DEF ScanState
<1>7. ASSUME NEW m, CommittedUpTo(m, st.entries, txs)
      PROVE  CommittedUpTo(m, new.entries, txs)
  <2>1. m \in Nat /\ m <= k /\ m \in 0 .. k + 1 /\ (\A i \in 1 .. m : i \in 1 .. k) /\ ~(k + 1 <= m)
    BY <1>1, <1>7 DEF CommittedUpTo
  <2>2. ASSUME NEW i \in 1 .. k + 1
        PROVE  new.entries[i].committed <=> i <= m
    <3>1. CASE i = k + 1
      BY <1>2, <1>5, <2>1, <3>1
    <3>2. CASE i # k + 1
      <4>1. i \in 1 .. k
        BY <1>1, <3>2
      <4> QED
        BY <1>5, <1>7, <4>1 DEF CommittedUpTo
    <3> QED
      BY <3>1, <3>2
  <2> QED
    BY <1>5, <1>7, <2>1, <2>2 DEF CommittedUpTo
<1>8. ASSUME OwnIds(st.entries, last), last \in Nat, r.id = last + 1
      PROVE  OwnIds(new.entries, r.id)
  <2>1. ASSUME NEW i \in 1 .. k + 1
        PROVE  \/ i = k + 1 /\ new.entries[i].txId = last + 1
               \/ i \in 1 .. k /\ new.entries[i].txId = st.entries[i].txId
    <3>1. i = k + 1 \/ i \in 1 .. k
      BY <1>1
    <3> QED
      BY <1>2, <1>5, <1>8, <3>1
  <2>2. \A i \in 1 .. k : st.entries[i].txId \in Nat /\ 1 <= st.entries[i].txId /\ st.entries[i].txId <= last
    <3>1. \A i \in 1 .. k : st.entries[i] \in Entry
      BY <1>1
    <3> QED
      BY <1>8, <3>1 DEF OwnIds, Entry
  <2>3. \A i \in 1 .. k + 1 : new.entries[i].txId >= 1 /\ new.entries[i].txId <= r.id
    BY <1>8, <2>1, <2>2
  <2>4. ASSUME NEW i \in 1 .. k + 1, NEW j \in 1 .. k + 1, new.entries[i].txId = new.entries[j].txId
        PROVE  i = j
    <3>1. \A h \in 1 .. k : st.entries[h].txId # last + 1
      BY <1>8, <2>2
    <3> QED
      BY <1>8, <2>1, <2>4, <3>1 DEF OwnIds
  <2> QED
    BY <1>5, <2>3, <2>4 DEF OwnIds
<1> QED
  BY <1>2, <1>4, <1>5, <1>6, <1>7, <1>8 DEF new

\* A change of the entries, with ids as before.
LEMMA SameIds ==
  ASSUME NEW entries \in Seq(Entry), NEW new, Len(new) = Len(entries),
         \A i \in 1 .. Len(entries) : new[i].txId = entries[i].txId,
         NEW last, OwnIds(entries, last)
  PROVE  OwnIds(new, last)
BY DEF OwnIds

\* TX_COMMIT: the entry of that id is committed until a checksum says otherwise.
LEMMA ScanCommit ==
  ASSUME NEW st \in ScanState, NEW r \in Record, r.type = "TX_COMMIT"
  PROVE  LET new == Log!ScanRecord(st, r)
         IN  /\ new \in ScanState /\ new.entries = Log!SetCommitted(st.entries, r.id, TRUE)
             /\ new.pending = st.pending \cup {r.id}
<1> DEFINE new == Log!ScanRecord(st, r)
           es == Log!SetCommitted(st.entries, r.id, TRUE)
<1>1. r.id \in Nat /\ st.entries \in Seq(Entry) /\ st.pending \in SUBSET Nat
  BY DEF Record, ScanState
<1>2. new = [st EXCEPT !.entries = es, !.pending = @ \cup {r.id}, !.current = 0]
  BY DEF Log!ScanRecord
<1>3. es \in Seq(Entry)
  BY <1>1, MarkCommitted
<1> HIDE DEF new, es
<1>4. new = [entries |-> es, current |-> 0, pending |-> st.pending \cup {r.id}]
  BY <1>2 DEF ScanState
<1>5. st.pending \cup {r.id} \in SUBSET Nat
  BY <1>1
<1>6. new \in ScanState
  BY <1>3, <1>4, <1>5 DEF ScanState
<1> QED
  BY <1>4, <1>6 DEF new, es

\* A checksum of the only commit that waits for one: a wrong one revokes it.
LEMMA ScanChecksum ==
  ASSUME NEW st \in ScanState, NEW r \in Record, r.type = "CRC", NEW id \in Nat, st.pending = {id}
  PROVE  LET new == Log!ScanRecord(st, r)
         IN  /\ new \in ScanState /\ new.pending = {} /\ new.current = st.current
             /\ new.entries = IF r.id = id THEN st.entries ELSE Log!SetCommitted(st.entries, id, FALSE)
<1> DEFINE new == Log!ScanRecord(st, r)
           es == IF r.id = id THEN st.entries ELSE Log!SetCommitted(st.entries, id, FALSE)
<1>1. r.id \in Nat /\ st.entries \in Seq(Entry) /\ st.current \in Nat
  BY DEF Record, ScanState
<1>2. Log!LargestId(st.pending) = id
  <2>1. id <= id
    OBVIOUS
  <2> QED
    BY <2>1 DEF Log!LargestId
<1>3. new = [st EXCEPT !.pending = @ \ {id}, !.entries = es]
  BY <1>2 DEF Log!ScanRecord, Log!ScanCrc
<1>4. es \in Seq(Entry)
  BY <1>1, MarkCommitted
<1> HIDE DEF new, es
<1>5. new = [entries |-> es, current |-> st.current, pending |-> {}]
  BY <1>3 DEF ScanState
<1>6. new \in ScanState
  BY <1>1, <1>4, <1>5 DEF ScanState
<1> QED
  BY <1>5, <1>6 DEF new, es

\* TX_ROLLBACK: nothing that recover looks at.
LEMMA ScanRollback ==
  ASSUME NEW st \in ScanState, NEW r \in Record, r.type = "TX_ROLLBACK"
  PROVE  LET new == Log!ScanRecord(st, r)
         IN  /\ new \in ScanState /\ new.entries = Log!SetRolledBack(st.entries, r.id)
             /\ new.pending = st.pending
<1> DEFINE new == Log!ScanRecord(st, r)
           es == Log!SetRolledBack(st.entries, r.id)
<1>1. st.entries \in Seq(Entry) /\ st.pending \in SUBSET Nat
  BY DEF ScanState
<1>2. new = [st EXCEPT !.entries = es, !.current = 0]
  BY DEF Log!ScanRecord
<1>3. es \in Seq(Entry)
  BY <1>1, MarkRolledBack
<1> HIDE DEF new, es
<1>4. new = [entries |-> es, current |-> 0, pending |-> st.pending]
  BY <1>2 DEF ScanState
<1>5. new \in ScanState
  BY <1>1, <1>3, <1>4 DEF ScanState
<1> QED
  BY <1>4, <1>5 DEF new, es

\* An operation of the open entry.
LEMMA ScanOp ==
  ASSUME NEW st \in ScanState, NEW r \in Record, r.type = "OP", st.current \in 1 .. Len(st.entries)
  PROVE  LET new == Log!ScanRecord(st, r)
             k == st.current
         IN  /\ new \in ScanState /\ new.pending = st.pending /\ new.current = k
             /\ Len(new.entries) = Len(st.entries)
             /\ new.entries[k].ops = Append(st.entries[k].ops, r.op)
             /\ \A i \in 1 .. Len(st.entries) :
                  /\ new.entries[i].txId = st.entries[i].txId
                  /\ new.entries[i].committed = st.entries[i].committed
                  /\ i # k => new.entries[i] = st.entries[i]
<1> DEFINE new == Log!ScanRecord(st, r)
           es == st.entries
           k == st.current
           e == [es[k] EXCEPT !.ops = Append(@, r.op)]
           changed == [es EXCEPT ![k] = e]
<1>1. r.op \in Ops /\ es \in Seq(Entry) /\ k \in 1 .. Len(es) /\ k # 0 /\ k \in Nat /\ st.pending \in SUBSET Nat
  BY DEF Record, ScanState
<1>2. new = [st EXCEPT !.entries = changed]
  BY <1>1 DEF Log!ScanRecord
<1>3. es[k] \in Entry
  BY <1>1
<1>4. e \in Entry /\ e.txId = es[k].txId /\ e.committed = es[k].committed /\ e.ops = Append(es[k].ops, r.op)
  <2> DEFINE old == es[k]
  <2>1. old \in Entry /\ old.ops \in Seq(Ops)
    BY <1>3 DEF Entry
  <2>2. Append(old.ops, r.op) \in Seq(Ops)
    BY <1>1, <2>1
  <2> HIDE DEF old
  <2>3. [old EXCEPT !.ops = Append(@, r.op)] = [old EXCEPT !.ops = Append(old.ops, r.op)]
    BY <2>1 DEF Entry
  <2> DEFINE longer == Append(old.ops, r.op)
  <2> HIDE DEF longer
  <2>4. /\ [old EXCEPT !.ops = longer] \in Entry /\ [old EXCEPT !.ops = longer].ops = longer
        /\ [old EXCEPT !.ops = longer].txId = old.txId /\ [old EXCEPT !.ops = longer].committed = old.committed
    BY <2>1, <2>2 DEF Entry, longer
  <2> QED
    BY <2>3, <2>4 DEF old, longer
<1> HIDE DEF new, e
<1>5. /\ changed \in Seq(Entry) /\ Len(changed) = Len(es) /\ changed[k] = e
      /\ \A i \in 1 .. Len(es) : i # k => changed[i] = es[i]
  BY <1>1, <1>4
<1> HIDE DEF changed
<1>6. new = [entries |-> changed, current |-> k, pending |-> st.pending]
  BY <1>2 DEF ScanState
<1>7. new \in ScanState
  BY <1>1, <1>5, <1>6 DEF ScanState
<1>8. new.entries = changed /\ new.current = k /\ new.pending = st.pending
  BY <1>6
<1>9. \A i \in 1 .. Len(es) : /\ changed[i].txId = es[i].txId /\ changed[i].committed = es[i].committed
                              /\ i # k => changed[i] = es[i]
  BY <1>4, <1>5
<1>10. changed[k].ops = Append(es[k].ops, r.op)
  BY <1>4, <1>5
<1> QED
  BY <1>5, <1>7, <1>8, <1>9, <1>10 DEF new

\* One record more that fits, and is scanned well.
LEMMA HistoryAppend ==
  ASSUME NEW records \in Seq(Record), NEW f, NEW txs, NEW last, History(f, records, txs, last),
         NEW r \in Record, Fits(f[Len(records)], r),
         GoodState(Log!ScanRecord(f[Len(records)], r), txs, last)
  PROVE  \E g : /\ History(g, Append(records, r), txs, last)
                /\ g[Len(records) + 1] = Log!ScanRecord(f[Len(records)], r)
<1> DEFINE k == Len(records)
           all == Append(records, r)
<1>1. k \in Nat /\ Len(all) = k + 1 /\ all[k + 1] = r /\ \A n \in 1 .. k : all[n] = records[n]
  OBVIOUS
<1>2. PICK g : /\ Scanned(g, all) /\ \A n \in 0 .. k : g[n] = f[n]
               /\ g[k + 1] = Log!ScanRecord(f[k], r)
  BY ScanOfAppend DEF History
<1> HIDE DEF all
<1>3. ASSUME NEW n \in 0 .. k + 1
      PROVE  GoodState(g[n], txs, last)
  <2>1. CASE n = k + 1
    BY <1>2, <2>1
  <2>2. CASE n # k + 1
    <3>1. n \in 0 .. k
      BY <1>1, <2>2
    <3> QED
      BY <1>2, <3>1 DEF History
  <2> QED
    BY <2>1, <2>2
<1>4. ASSUME NEW n \in 0 .. k
      PROVE  Fits(g[n], all[n + 1])
  <2>1. CASE n = k
    BY <1>1, <1>2, <2>1
  <2>2. CASE n # k
    <3>1. n \in 0 .. k - 1 /\ n + 1 \in 1 .. k
      BY <1>1, <2>2
    <3>2. Fits(f[n], records[n + 1])
      BY <3>1 DEF History
    <3> QED
      BY <1>1, <1>2, <3>1, <3>2
  <2> QED
    BY <2>1, <2>2
<1>5. k + 1 - 1 = k
  BY <1>1
<1>6. History(g, all, txs, last)
  BY <1>1, <1>2, <1>3, <1>4, <1>5 DEF History
<1> QED
  BY <1>2, <1>6 DEF all

\* More transactions and more ids leave what was scanned well.
LEMMA HistoryGrows ==
  ASSUME NEW records \in Seq(Record), NEW txs \in Seq(Transaction), NEW more \in Seq(Transaction),
         Len(txs) <= Len(more), \A i \in 1 .. Len(txs) : more[i] = txs[i],
         NEW last \in Nat, NEW next \in Nat, last <= next,
         NEW f, History(f, records, txs, last)
  PROVE  History(f, records, more, next)
<1>1. ASSUME NEW n \in 0 .. Len(records)
      PROVE  GoodState(f[n], more, next)
  <2> DEFINE es == f[n].entries
  <2>1. f[n] \in ScanState /\ OwnIds(es, last) /\ \E m \in 0 .. Len(es) : CommittedUpTo(m, es, txs)
    BY DEF History, GoodState
  <2>2. es \in Seq(Entry) /\ Len(es) \in Nat /\ \A i \in 1 .. Len(es) : es[i].txId \in Nat
    <3>1. es \in Seq(Entry)
      BY <2>1 DEF ScanState
    <3>2. Len(es) \in Nat /\ \A i \in 1 .. Len(es) : es[i] \in Entry
      BY <3>1
    <3>3. \A e \in Entry : e.txId \in Nat
      BY DEF Entry
    <3> QED
      BY <3>1, <3>2, <3>3
  <2> HIDE DEF es
  <2>3. OwnIds(es, next)
    <3>1. ASSUME NEW i \in 1 .. Len(es)
          PROVE  es[i].txId <= next
      <4>1. es[i].txId \in Nat /\ es[i].txId <= last
        BY <2>1, <2>2 DEF OwnIds
      <4> QED
        BY <4>1
    <3> QED
      BY <2>1, <3>1 DEF OwnIds
  <2>4. PICK m \in 0 .. Len(es) : CommittedUpTo(m, es, txs)
    BY <2>1
  <2>5. CommittedUpTo(m, es, more)
    <3>1. m \in Nat /\ Len(txs) \in Nat /\ Len(more) \in Nat /\ m <= Len(txs)
      BY <2>2, <2>4 DEF CommittedUpTo
    <3>2. m <= Len(more) /\ \A i \in 1 .. m : i \in 1 .. Len(txs)
      BY <3>1
    <3> QED
      BY <2>4, <3>2 DEF CommittedUpTo
  <2> QED
    BY <2>1, <2>3, <2>5 DEF GoodState, es
<1> QED
  BY <1>1 DEF History

\* A file that is not there.
LEMMA EmptyHistory ==
  ASSUME NEW last, NEW t, t.id = 0, NEW rolling
  PROVE  \E f : History(f, <<>>, <<>>, last) /\ EndState(f[Len(<<>>)], <<>>, t, rolling)
<1> DEFINE f == [n \in 0 .. Len(<<>>) |-> Log!ScanStart]
<1>1. Len(<<>>) = 0 /\ <<>> \in Seq(Entry)
  OBVIOUS
<1>2. f[0] = Log!ScanStart /\ \A n \in 0 .. 0 : n = 0 /\ f[n] = Log!ScanStart
  BY <1>1
<1>3. Scanned(f, <<>>)
  BY <1>1 DEF Scanned
<1>4. /\ Log!ScanStart \in ScanState /\ Log!ScanStart.pending = {} /\ Log!ScanStart.entries = <<>>
  BY <1>1 DEF Log!ScanStart, ScanState
<1>5. CommittedUpTo(0, <<>>, <<>>) /\ OwnIds(<<>>, last)
  BY <1>1 DEF CommittedUpTo, OwnIds
<1>6. 0 \in 0 .. Len(<<>>)
  BY <1>1
<1>7. GoodState(Log!ScanStart, <<>>, last)
  BY <1>4, <1>5, <1>6 DEF GoodState
<1>8. EndState(Log!ScanStart, <<>>, t, rolling)
  BY <1>1, <1>4, <1>5 DEF EndState
<1> HIDE DEF f
<1>9. 0 .. Len(<<>>) - 1 = {}
  BY <1>1
<1>10. History(f, <<>>, <<>>, last)
  BY <1>1, <1>2, <1>3, <1>7, <1>9 DEF History
<1> QED
  BY <1>1, <1>2, <1>8, <1>10

\* Whether a rollback is going on, by the last record.
LEMMA LastRecord ==
  ASSUME file \in Seq(Record), NEW r \in Record, file' = Append(file, r)
  PROVE  /\ Log!RollingBack' <=> r.type = "TX_ROLLBACK"
         /\ file' \in Seq(Record) /\ Len(file') = Len(file) + 1 /\ Len(file) \in Nat
         /\ \A i \in DOMAIN file : i \in DOMAIN file' /\ file'[i] = file[i]
         /\ Len(file') \in DOMAIN file' /\ file'[Len(file')] = r
<1>1. /\ file' \in Seq(Record) /\ Len(file') = Len(file) + 1 /\ Len(file) \in Nat
      /\ \A i \in DOMAIN file : i \in DOMAIN file' /\ file'[i] = file[i]
      /\ Len(file') \in DOMAIN file' /\ file'[Len(file')] = r /\ file' # <<>>
  OBVIOUS
<1> QED
  BY <1>1 DEF Log!RollingBack

\* The records the session writes.
LEMMA SessionRecords ==
  ASSUME NEW id \in Nat
  PROVE  /\ Log!BeginRec(id) \in Record /\ Log!BeginRec(id).type = "TX_BEGIN" /\ Log!BeginRec(id).id = id
         /\ Log!CommitRec(id) \in Record /\ Log!CommitRec(id).type = "TX_COMMIT" /\ Log!CommitRec(id).id = id
         /\ Log!CrcRec(id) \in Record /\ Log!CrcRec(id).type = "CRC" /\ Log!CrcRec(id).id = id
         /\ Log!RollbackRec(id) \in Record /\ Log!RollbackRec(id).type = "TX_ROLLBACK"
         /\ Log!RollbackRec(id).id = id
BY DEF Log!BeginRec, Log!CommitRec, Log!CrcRec, Log!RollbackRec, Record

\* The record of an operation.
LEMMA OperationRecord ==
  ASSUME NEW op \in Ops
  PROVE  Log!OpRec(op) \in Record /\ Log!OpRec(op).type = "OP" /\ Log!OpRec(op).op = op
BY DEF Log!OpRec, Record

\* No transaction is open.
LEMMA NoTransaction ==
  Log!NoTx \in Transaction /\ Log!NoTx.id = 0 /\ Log!NoTx.buffer = <<>> /\ Log!NoTx.undone = FALSE
<1>1. <<>> \in Seq(Ops)
  OBVIOUS
<1> QED
  BY <1>1 DEF Log!NoTx, Transaction

\* The changes of the open transaction.
LEMMA IdChange ==
  ASSUME NEW t \in Transaction, NEW id \in Nat
  PROVE  LET new == [t EXCEPT !.id = id]
         IN  new \in Transaction /\ new.id = id /\ new.buffer = t.buffer /\ new.undone = t.undone
BY DEF Transaction

\* With another buffer it is the same transaction.
LEMMA BufferChange ==
  ASSUME NEW t \in Transaction, NEW buffer \in Seq(Ops)
  PROVE  /\ LET new == [t EXCEPT !.buffer = buffer]
            IN  new \in Transaction /\ new.id = t.id /\ new.buffer = buffer /\ new.undone = t.undone
         /\ LET new == [t EXCEPT !.buffer = buffer, !.undone = TRUE]
            IN  new \in Transaction /\ new.id = t.id /\ new.undone = TRUE
BY DEF Transaction

\* Begin.
LEMMA LogBegin ==
  ASSUME LogGood, Log!Begin, spoiled' = {}
  PROVE  LogGood'
<1> USE LogAssumption DEF LogGood
<1> DEFINE r == Log!BeginRec(lastId + 1)
<1>1. /\ tx.id = 0 /\ synced = Len(file) /\ lastId < MaxTxId /\ lastId' = lastId + 1
      /\ tx' = [Log!NoTx EXCEPT !.id = lastId + 1] /\ file' = Append(file, r)
      /\ synced' = synced /\ loggedTxs' = loggedTxs
  <2>1. spoiled = {} /\ file' = Append(file, r)
    BY DEF Log!Begin, Log!Writes, Log!Fails
  <2> QED
    BY <2>1 DEF Log!Begin, Log!Settled
<1>2. file \in Seq(Record) /\ loggedTxs \in Seq(Transaction) /\ lastId \in Nat /\ Len(loggedTxs) \in Nat
  BY DEF LogTypes
<1>3. tx' \in Transaction /\ tx'.id = lastId + 1 /\ tx'.buffer = <<>> /\ tx'.undone = FALSE
  <2>1. lastId + 1 \in Nat
    BY <1>2
  <2> QED
    BY <1>1, <2>1, NoTransaction, IdChange
<1>4. r \in Record /\ r.type = "TX_BEGIN" /\ r.id = lastId + 1
  BY <1>2, SessionRecords
<1> HIDE DEF r
<1>5. /\ ~Log!RollingBack' /\ file' \in Seq(Record) /\ Len(file') = Len(file) + 1 /\ Len(file) \in Nat
      /\ Len(file') \in DOMAIN file' /\ file'[Len(file')] = r
  BY <1>1, <1>2, <1>4, LastRecord
<1>6. LogTypes'
  <2>1. lastId' \in 0 .. MaxTxId /\ tx'.id <= lastId' /\ synced' \in 0 .. Len(file')
    BY <1>1, <1>2, <1>3, <1>5
  <2>2. \E i \in DOMAIN file' : file'[i] = Log!BeginRec(tx'.id)
    BY <1>3, <1>5 DEF r
  <2> QED
    BY <1>1, <1>2, <1>3, <1>5, <2>1, <2>2 DEF LogTypes
<1>7. Unsynced'
  BY <1>1, <1>5 DEF Unsynced
<1>8. PICK f : History(f, file, loggedTxs, lastId) /\ EndState(f[Len(file)], loggedTxs, tx, Log!RollingBack)
  OBVIOUS
<1> DEFINE st == f[Len(file)]
           new == Log!ScanRecord(st, r)
<1>9. st \in ScanState /\ OwnIds(st.entries, lastId)
  BY <1>5, <1>8 DEF History, GoodState
<1>10. /\ st.pending = {} /\ CommittedUpTo(Len(loggedTxs), st.entries, loggedTxs)
       /\ Len(st.entries) = Len(loggedTxs)
  <2>1. ~Log!RollingBack
    BY <1>1, <1>5 DEF Unsynced
  <2> QED
    BY <1>1, <1>8, <2>1 DEF EndState
<1> HIDE DEF st
<1>11. /\ new \in ScanState /\ new.pending = {} /\ new.current = Len(loggedTxs) + 1
       /\ Len(new.entries) = Len(loggedTxs) + 1 /\ new.entries[Len(loggedTxs) + 1].txId = lastId + 1
       /\ new.entries[Len(loggedTxs) + 1].ops = <<>>
       /\ CommittedUpTo(Len(loggedTxs), new.entries, loggedTxs) /\ OwnIds(new.entries, lastId + 1)
  BY ZenonT(60), <1>2, <1>4, <1>9, <1>10, ScanBegin
<1> HIDE DEF new
<1>12. GoodState(new, loggedTxs, lastId + 1)
  <2>1. Len(loggedTxs) \in 0 .. Len(new.entries)
    BY <1>2, <1>11
  <2> QED
    BY <1>11, <2>1 DEF GoodState
<1>13. History(f, file, loggedTxs, lastId + 1)
  BY <1>2, <1>8, HistoryGrows
<1>14. Fits(st, r)
  BY <1>4 DEF Fits
<1>15. PICK g : History(g, Append(file, r), loggedTxs, lastId + 1) /\ g[Len(file) + 1] = new
  BY <1>2, <1>4, <1>12, <1>13, <1>14, HistoryAppend DEF st, new
<1>16. EndState(new, loggedTxs, tx', Log!RollingBack')
  <2>1. tx'.id # 0
    BY <1>2, <1>3
  <2> QED
    BY <1>3, <1>11, <2>1 DEF EndState
<1> QED
  BY <1>1, <1>5, <1>6, <1>7, <1>15, <1>16

\* BufferOp.
LEMMA LogBufferOp ==
  ASSUME LogGood, NEW op \in Ops, Log!BufferOp(op), spoiled' = {}
  PROVE  LogGood'
<1> USE DEF LogGood
<1> DEFINE r == Log!OpRec(op)
           longer == Append(tx.buffer, op)
<1>1. /\ tx.id # 0 /\ file' = Append(file, r) /\ tx' = [tx EXCEPT !.buffer = longer]
      /\ synced' = synced /\ lastId' = lastId /\ loggedTxs' = loggedTxs
  BY DEF Log!BufferOp, Log!Writes, Log!Fails
<1>2. /\ file \in Seq(Record) /\ loggedTxs \in Seq(Transaction) /\ tx \in Transaction
      /\ lastId \in Nat /\ Len(loggedTxs) \in Nat /\ tx.buffer \in Seq(Ops)
  BY LogAssumption DEF LogTypes, Transaction
<1>3. tx' \in Transaction /\ tx'.id = tx.id /\ tx'.buffer = longer /\ tx'.undone = tx.undone
  <2>1. longer \in Seq(Ops)
    BY <1>2
  <2> HIDE DEF longer
  <2> QED
    BY <1>1, <1>2, <2>1, BufferChange
<1>4. r \in Record /\ r.type = "OP" /\ r.op = op
  BY OperationRecord
<1> HIDE DEF r
<1>5. /\ ~Log!RollingBack' /\ file' \in Seq(Record) /\ Len(file') = Len(file) + 1 /\ Len(file) \in Nat
      /\ \A i \in DOMAIN file : i \in DOMAIN file' /\ file'[i] = file[i]
  BY <1>1, <1>2, <1>4, LastRecord
<1>6. LogTypes'
  <2>1. lastId' \in 0 .. MaxTxId /\ tx'.id <= lastId' /\ synced' \in 0 .. Len(file')
    BY <1>1, <1>3, <1>5 DEF LogTypes
  <2>2. \E i \in DOMAIN file' : file'[i] = Log!BeginRec(tx'.id)
    BY <1>1, <1>3, <1>5 DEF LogTypes
  <2> QED
    BY <1>1, <1>2, <1>3, <1>5, <2>1, <2>2 DEF LogTypes
<1>7. Unsynced'
  <2>1. synced < Len(file) /\ synced \in Nat
    BY <1>1, <1>5 DEF Unsynced, LogTypes
  <2> QED
    BY <1>1, <1>5, <2>1 DEF Unsynced
<1>8. PICK f : History(f, file, loggedTxs, lastId) /\ EndState(f[Len(file)], loggedTxs, tx, Log!RollingBack)
  OBVIOUS
<1> DEFINE st == f[Len(file)]
           new == Log!ScanRecord(st, r)
           k == Len(loggedTxs) + 1
<1>9. st \in ScanState /\ OwnIds(st.entries, lastId) /\ st.entries \in Seq(Entry)
  BY <1>5, <1>8 DEF History, GoodState, ScanState
<1>10. /\ st.pending = {} /\ CommittedUpTo(Len(loggedTxs), st.entries, loggedTxs)
       /\ Len(st.entries) = k /\ st.current = k /\ st.entries[k].txId = tx.id
       /\ ~tx.undone => st.entries[k].ops = tx.buffer
  BY <1>1, <1>8 DEF EndState
<1> HIDE DEF st
<1>11. st.current \in 1 .. Len(st.entries)
  BY <1>2, <1>10
<1>12. /\ new \in ScanState /\ new.pending = {} /\ new.current = k /\ Len(new.entries) = k
       /\ new.entries[k].ops = Append(st.entries[k].ops, op)
       /\ \A i \in 1 .. k : /\ new.entries[i].txId = st.entries[i].txId
                            /\ new.entries[i].committed = st.entries[i].committed
                            /\ i # k => new.entries[i] = st.entries[i]
  <2>1. /\ new \in ScanState /\ new.pending = st.pending /\ new.current = st.current
        /\ Len(new.entries) = Len(st.entries)
        /\ new.entries[st.current].ops = Append(st.entries[st.current].ops, r.op)
        /\ \A i \in 1 .. Len(st.entries) : /\ new.entries[i].txId = st.entries[i].txId
                                           /\ new.entries[i].committed = st.entries[i].committed
                                           /\ i # st.current => new.entries[i] = st.entries[i]
    BY <1>4, <1>9, <1>11, ScanOp
  <2> HIDE DEF k, new
  <2> QED
    BY <1>4, <1>10, <2>1
<1> HIDE DEF new
<1>13. OwnIds(new.entries, lastId)
  BY <1>9, <1>10, <1>12, SameIds
<1>14. CommittedUpTo(Len(loggedTxs), new.entries, loggedTxs)
  <2>1. \A i \in 1 .. Len(loggedTxs) : i \in 1 .. k /\ i # k
    BY <1>2
  <2> QED
    BY <1>2, <1>10, <1>12, <2>1 DEF CommittedUpTo
<1>15. GoodState(new, loggedTxs, lastId)
  <2>1. Len(loggedTxs) \in 0 .. Len(new.entries)
    BY <1>2, <1>12
  <2> QED
    BY <1>12, <1>13, <1>14, <2>1 DEF GoodState
<1>16. Fits(st, r)
  BY <1>4 DEF Fits
<1>17. PICK g : History(g, Append(file, r), loggedTxs, lastId) /\ g[Len(file) + 1] = new
  BY <1>2, <1>4, <1>8, <1>15, <1>16, HistoryAppend DEF st, new
<1>18. EndState(new, loggedTxs, tx', Log!RollingBack')
  <2>1. k \in 1 .. k
    BY <1>2
  <2>2. new.entries[k].txId = tx.id /\ (~tx.undone => new.entries[k].ops = longer)
    BY <1>10, <1>12, <2>1
  <2> QED
    BY <1>1, <1>3, <1>12, <1>14, <2>2 DEF EndState
<1> QED
  BY <1>1, <1>5, <1>6, <1>7, <1>17, <1>18

\* RollbackToSavepoint: the log keeps what was undone.
LEMMA LogUndo ==
  ASSUME LogGood, NEW n \in 0 .. MaxOps - 1, Log!RollbackToSavepoint(n)
  PROVE  LogGood'
<1> USE DEF LogGood
<1>1. /\ tx.id # 0 /\ n < Len(tx.buffer)
      /\ tx' = [tx EXCEPT !.buffer = SubSeq(tx.buffer, 1, n), !.undone = TRUE]
      /\ file' = file /\ synced' = synced /\ lastId' = lastId /\ loggedTxs' = loggedTxs
  BY DEF Log!RollbackToSavepoint
<1>2. tx \in Transaction /\ tx.buffer \in Seq(Ops) /\ n \in Nat
  BY LogAssumption DEF LogTypes, Transaction
<1>3. tx' \in Transaction /\ tx'.id = tx.id /\ tx'.undone = TRUE
  <2>1. SubSeq(tx.buffer, 1, n) \in Seq(Ops)
    BY <1>1, <1>2
  <2> QED
    BY <1>1, <1>2, <2>1, BufferChange
<1>4. LogTypes' /\ Unsynced' /\ Log!RollingBack' = Log!RollingBack
  BY <1>1, <1>3 DEF LogTypes, Unsynced, Log!RollingBack
<1>5. PICK f : History(f, file, loggedTxs, lastId) /\ EndState(f[Len(file)], loggedTxs, tx, Log!RollingBack)
  OBVIOUS
<1>6. EndState(f[Len(file)], loggedTxs, tx', Log!RollingBack)
  BY <1>1, <1>3, <1>5 DEF EndState
<1> QED
  BY <1>1, <1>4, <1>5, <1>6

\* A commit record that fits commits the last entry.
LEMMA CommitsTheLast ==
  ASSUME NEW st \in ScanState, NEW last \in Nat, OwnIds(st.entries, last),
         NEW txs \in Seq(Transaction), CommittedUpTo(Len(txs), st.entries, txs),
         NEW t \in Transaction, Len(st.entries) = Len(txs) + 1,
         st.entries[Len(txs) + 1].txId = t.id, ~t.undone => st.entries[Len(txs) + 1].ops = t.buffer,
         NEW r \in Record, r.type = "TX_COMMIT", r.id = t.id
  PROVE  LET new == Log!ScanRecord(st, r)
             k == Len(txs) + 1
         IN  /\ new \in ScanState /\ new.pending = st.pending \cup {t.id}
             /\ Len(new.entries) = k /\ new.entries[k].txId = t.id /\ new.entries[k].committed
             /\ CommittedUpTo(k, new.entries, Append(txs, t)) /\ OwnIds(new.entries, last)
<1> DEFINE new == Log!ScanRecord(st, r)
           k == Len(txs) + 1
           es == st.entries
           all == Append(txs, t)
<1>1. new \in ScanState /\ new.entries = Log!SetCommitted(es, r.id, TRUE) /\ new.pending = st.pending \cup {t.id}
  BY ScanCommit
<1>2. es \in Seq(Entry) /\ Len(txs) \in Nat /\ k \in 1 .. Len(es) /\ Len(es) = k
  BY DEF ScanState
<1>3. /\ Len(all) = k /\ all[k] = t /\ \A i \in 1 .. Len(txs) : all[i] = txs[i]
  OBVIOUS
<1> HIDE DEF all, new
<1>4. Log!First(es, r.id) = k
  <2>1. r.id = es[k].txId
    OBVIOUS
  <2> HIDE DEF es, k
  <2> QED
    BY <1>2, <2>1, FirstIsOnly DEF es
<1>5. /\ Len(new.entries) = k
      /\ \A i \in 1 .. k : /\ new.entries[i].txId = es[i].txId /\ new.entries[i].ops = es[i].ops
                           /\ i = k => new.entries[i].committed
                           /\ i # k => new.entries[i].committed = es[i].committed
  <2> DEFINE marked == Log!SetCommitted(es, r.id, TRUE)
  <2>1. /\ Len(marked) = Len(es)
        /\ \A i \in 1 .. Len(es) : /\ marked[i].txId = es[i].txId /\ marked[i].ops = es[i].ops
                                   /\ i = Log!First(es, r.id) => marked[i].committed
                                   /\ i # Log!First(es, r.id) => marked[i].committed = es[i].committed
    BY <1>2, MarksSet
  <2> HIDE DEF marked, es, k
  <2> QED
    BY ZenonT(60), <1>1, <1>2, <1>4, <2>1 DEF marked
<1>6. OwnIds(new.entries, last)
  BY <1>2, <1>5, SameIds
<1>7. ASSUME NEW i \in 1 .. k
      PROVE  /\ new.entries[i].committed /\ new.entries[i].txId = all[i].id
             /\ ~all[i].undone => new.entries[i].ops = all[i].buffer
  <2>1. CASE i = k
    BY <1>2, <1>3, <1>5, <2>1
  <2>2. CASE i # k
    <3>1. i \in 1 .. Len(txs) /\ i \in 1 .. Len(es) /\ i <= Len(txs)
      BY <1>2, <2>2
    <3>2. es[i].committed /\ es[i].txId = txs[i].id /\ (~txs[i].undone => es[i].ops = txs[i].buffer)
      BY <3>1 DEF CommittedUpTo
    <3> QED
      BY <1>3, <1>5, <2>2, <3>1, <3>2
  <2> QED
    BY <2>1, <2>2
<1>8. CommittedUpTo(k, new.entries, all)
  <2>1. k \in 0 .. k /\ k <= k /\ \A i \in 1 .. k : i <= k
    BY <1>2
  <2> QED
    BY <1>3, <1>5, <1>7, <2>1 DEF CommittedUpTo
<1>9. new.entries[k].txId = t.id /\ new.entries[k].committed
  BY <1>2, <1>3, <1>7
<1> QED
  BY <1>1, <1>5, <1>6, <1>8, <1>9 DEF new, all

\* WriteCommit: the commit line and its checksum.
LEMMA LogWriteCommit ==
  ASSUME LogGood, Log!WriteCommit, spoiled' = {}
  PROVE  LogGood'
<1> USE DEF LogGood
<1> DEFINE c == Log!CommitRec(tx.id)
           r == Log!CrcRec(tx.id)
           more == Append(loggedTxs, tx)
           one == Append(file, c)
           k == Len(loggedTxs) + 1
<1>1. /\ tx.id # 0 /\ file' = file \o <<c, r>> /\ loggedTxs' = more /\ tx' = Log!NoTx
      /\ synced' = synced /\ lastId' = lastId
  BY DEF Log!WriteCommit, Log!CommitRecords, Log!Writes, Log!Fails
<1>2. /\ file \in Seq(Record) /\ loggedTxs \in Seq(Transaction) /\ tx \in Transaction /\ tx.id \in Nat
      /\ lastId \in Nat /\ Len(loggedTxs) \in Nat /\ Len(file) \in Nat
  BY LogAssumption DEF LogTypes, Transaction
<1>3. /\ c \in Record /\ c.type = "TX_COMMIT" /\ c.id = tx.id
      /\ r \in Record /\ r.type = "CRC" /\ r.id = tx.id
  BY <1>2, SessionRecords
<1> HIDE DEF c, r
<1>4. one \in Seq(Record) /\ Len(one) = Len(file) + 1
  BY <1>2, <1>3
<1>5. /\ file' = Append(one, r) /\ file' \in Seq(Record) /\ Len(file') = Len(file) + 2
      /\ file' # <<>> /\ file'[Len(file')] = r
  BY <1>1, <1>2, <1>3
<1>6. more \in Seq(Transaction) /\ Len(more) = k /\ \A i \in 1 .. Len(loggedTxs) : more[i] = loggedTxs[i]
  BY <1>2
<1> HIDE DEF one
<1>7. ~Log!RollingBack'
  BY <1>3, <1>5 DEF Log!RollingBack
<1>8. LogTypes' /\ Unsynced'
  <2>1. synced' \in 0 .. Len(file') /\ lastId' \in 0 .. MaxTxId /\ tx'.id <= lastId' /\ tx'.id = 0
    BY <1>1, <1>2, <1>5, NoTransaction DEF LogTypes
  <2> QED
    BY <1>1, <1>5, <1>6, <1>7, <2>1, NoTransaction DEF LogTypes, Unsynced
<1>9. PICK f : History(f, file, loggedTxs, lastId) /\ EndState(f[Len(file)], loggedTxs, tx, Log!RollingBack)
  OBVIOUS
<1> DEFINE st == f[Len(file)]
           st1 == Log!ScanRecord(st, c)
           st2 == Log!ScanRecord(st1, r)
<1>10. st \in ScanState /\ OwnIds(st.entries, lastId) /\ st.entries \in Seq(Entry)
  BY <1>2, <1>9 DEF History, GoodState, ScanState
<1>11. /\ st.pending = {} /\ CommittedUpTo(Len(loggedTxs), st.entries, loggedTxs)
       /\ Len(st.entries) = k /\ st.entries[k].txId = tx.id
       /\ ~tx.undone => st.entries[k].ops = tx.buffer
  BY <1>1, <1>9 DEF EndState
<1> HIDE DEF st
<1>12. /\ st1 \in ScanState /\ st1.pending = {tx.id} /\ Len(st1.entries) = k
       /\ st1.entries[k].txId = tx.id /\ st1.entries[k].committed
       /\ CommittedUpTo(k, st1.entries, more) /\ OwnIds(st1.entries, lastId)
  <2> HIDE DEF st1
  <2>1. /\ st1 \in ScanState /\ st1.pending = st.pending \cup {tx.id} /\ Len(st1.entries) = k
        /\ st1.entries[k].txId = tx.id /\ st1.entries[k].committed
        /\ CommittedUpTo(k, st1.entries, more) /\ OwnIds(st1.entries, lastId)
    <3>1. /\ Len(st.entries) = Len(loggedTxs) + 1 /\ st.entries[Len(loggedTxs) + 1].txId = tx.id
          /\ ~tx.undone => st.entries[Len(loggedTxs) + 1].ops = tx.buffer
      BY <1>11
    <3>0. PICK id, L, t : id = lastId /\ L = loggedTxs /\ t = tx
      OBVIOUS
    <3> HIDE DEF k
    <3>2. /\ st1 \in ScanState /\ st1.pending = st.pending \cup {tx.id} /\ Len(st1.entries) = Len(loggedTxs) + 1
          /\ st1.entries[Len(loggedTxs) + 1].txId = tx.id /\ st1.entries[Len(loggedTxs) + 1].committed
          /\ CommittedUpTo(Len(loggedTxs) + 1, st1.entries, Append(loggedTxs, tx)) /\ OwnIds(st1.entries, lastId)
      <4>1. /\ id \in Nat /\ L \in Seq(Transaction) /\ t \in Transaction
            /\ st \in ScanState /\ OwnIds(st.entries, id) /\ CommittedUpTo(Len(L), st.entries, L)
            /\ Len(st.entries) = Len(L) + 1 /\ st.entries[Len(L) + 1].txId = t.id
            /\ ~t.undone => st.entries[Len(L) + 1].ops = t.buffer
            /\ c \in Record /\ c.type = "TX_COMMIT" /\ c.id = t.id
        BY <1>2, <1>3, <1>10, <1>11, <3>0, <3>1
      <4>2. /\ st1 \in ScanState /\ st1.pending = st.pending \cup {t.id} /\ Len(st1.entries) = Len(L) + 1
            /\ st1.entries[Len(L) + 1].txId = t.id /\ st1.entries[Len(L) + 1].committed
            /\ CommittedUpTo(Len(L) + 1, st1.entries, Append(L, t)) /\ OwnIds(st1.entries, id)
        BY <4>1, CommitsTheLast DEF st1
      <4> QED
        BY <3>0, <4>2
    <3> QED
      BY <3>2 DEF k
  <2> QED
    BY <1>11, <2>1
<1> HIDE DEF st1
<1>13. /\ st2 \in ScanState /\ st2.pending = {} /\ st2.entries = st1.entries
  BY ZenonT(60), <1>2, <1>3, <1>12, ScanChecksum
<1> HIDE DEF st2
<1>14. k \in 0 .. k /\ k >= 1
  BY <1>2
<1>15. GoodState(st1, more, lastId) /\ GoodState(st2, more, lastId)
  BY <1>12, <1>13, <1>14 DEF GoodState
<1>16. Fits(st, c)
  <2>1. \A i \in 1 .. k : st.entries[i].committed <=> i # k
    <3>1. \A i \in 1 .. k : i <= Len(loggedTxs) <=> i # k
      BY <1>2
    <3> QED
      BY <1>11, <3>1 DEF CommittedUpTo
  <2> QED
    BY <1>3, <1>11, <1>14, <2>1 DEF Fits
<1>17. Fits(st1, r)
  BY <1>3, <1>12, <1>14 DEF Fits
<1>18. History(f, file, more, lastId)
  <2>1. Len(loggedTxs) <= Len(more) /\ lastId <= lastId
    BY <1>2, <1>6
  <2> HIDE DEF more
  <2> QED
    BY <1>2, <1>6, <1>9, <2>1, HistoryGrows
<1> HIDE DEF more
<1>19. PICK g : History(g, one, more, lastId) /\ g[Len(file) + 1] = st1
  BY <1>2, <1>3, <1>15, <1>16, <1>18, HistoryAppend DEF st, st1, one
<1>20. g[Len(one)] = st1
  BY <1>4, <1>19
<1>21. PICK h : History(h, Append(one, r), more, lastId) /\ h[Len(one) + 1] = st2
  BY <1>3, <1>4, <1>15, <1>17, <1>19, <1>20, HistoryAppend DEF st2
<1>22. h[Len(file')] = st2
  <2>1. Len(file') = Len(one) + 1
    BY <1>2, <1>4, <1>5
  <2> QED
    BY <1>21, <2>1
<1>23. EndState(st2, more, tx', Log!RollingBack')
  BY <1>1, <1>6, <1>12, <1>13, NoTransaction DEF EndState
<1> QED
  BY <1>1, <1>5, <1>8, <1>21, <1>22, <1>23

\* WriteRollback.
LEMMA LogWriteRollback ==
  ASSUME LogGood, Log!WriteRollback, spoiled' = {}
  PROVE  LogGood'
<1> USE DEF LogGood
<1> DEFINE r == Log!RollbackRec(tx.id)
<1>1. /\ tx.id # 0 /\ file' = Append(file, r) /\ tx' = Log!NoTx
      /\ synced' = synced /\ lastId' = lastId /\ loggedTxs' = loggedTxs
  BY DEF Log!WriteRollback, Log!Writes, Log!Fails
<1>2. /\ file \in Seq(Record) /\ loggedTxs \in Seq(Transaction) /\ tx.id \in Nat
      /\ lastId \in Nat /\ Len(loggedTxs) \in Nat
  BY LogAssumption DEF LogTypes, Transaction
<1>3. r \in Record /\ r.type = "TX_ROLLBACK" /\ r.id = tx.id
  BY <1>2, SessionRecords
<1> HIDE DEF r
<1>4. /\ Log!RollingBack' /\ file' \in Seq(Record) /\ Len(file') = Len(file) + 1 /\ Len(file) \in Nat
  BY <1>1, <1>2, <1>3, LastRecord
<1>5. LogTypes' /\ Unsynced'
  <2>1. /\ synced' \in 0 .. Len(file') /\ lastId' \in 0 .. MaxTxId /\ tx'.id <= lastId'
        /\ tx'.id = 0 /\ synced' < Len(file')
    BY <1>1, <1>2, <1>4, NoTransaction DEF LogTypes, Unsynced
  <2> QED
    BY <1>1, <1>2, <1>4, <2>1, NoTransaction DEF LogTypes, Unsynced
<1>6. PICK f : History(f, file, loggedTxs, lastId) /\ EndState(f[Len(file)], loggedTxs, tx, Log!RollingBack)
  OBVIOUS
<1> DEFINE st == f[Len(file)]
           new == Log!ScanRecord(st, r)
<1>7. st \in ScanState /\ OwnIds(st.entries, lastId) /\ st.entries \in Seq(Entry)
  BY <1>4, <1>6 DEF History, GoodState, ScanState
<1>8. st.pending = {} /\ CommittedUpTo(Len(loggedTxs), st.entries, loggedTxs)
  BY <1>6 DEF EndState
<1> HIDE DEF st
<1>9. new \in ScanState /\ new.entries = Log!SetRolledBack(st.entries, r.id) /\ new.pending = {}
  BY <1>3, <1>7, <1>8, ScanRollback
<1> HIDE DEF new
<1>10. OwnIds(new.entries, lastId) /\ CommittedUpTo(Len(loggedTxs), new.entries, loggedTxs)
  <2>1. /\ new.entries \in Seq(Entry) /\ Len(new.entries) = Len(st.entries)
        /\ \A i \in 1 .. Len(st.entries) : /\ new.entries[i].txId = st.entries[i].txId
                                           /\ new.entries[i].ops = st.entries[i].ops
                                           /\ new.entries[i].committed = st.entries[i].committed
    BY <1>7, <1>9, MarkRolledBack
  <2> QED
    BY <1>7, <1>8, <2>1, SameMarks
<1>11. GoodState(new, loggedTxs, lastId)
  BY <1>9, <1>10 DEF GoodState, CommittedUpTo
<1>12. Fits(st, r)
  BY <1>3 DEF Fits
<1>13. PICK g : History(g, Append(file, r), loggedTxs, lastId) /\ g[Len(file) + 1] = new
  BY <1>2, <1>3, <1>6, <1>11, <1>12, HistoryAppend DEF st, new
<1>14. EndState(new, loggedTxs, tx', Log!RollingBack')
  BY <1>1, <1>4, <1>9, <1>10, NoTransaction DEF EndState
<1> QED
  BY <1>1, <1>4, <1>5, <1>13, <1>14

\* SyncCommit.
LEMMA LogSyncCommit ==
  ASSUME LogGood, Log!SyncCommit, spoiled' = {}
  PROVE  LogGood'
<1> USE DEF LogGood
<1>1. /\ tx.id = 0 /\ ~Log!RollingBack /\ synced' = Len(file)
      /\ file' = file /\ tx' = tx /\ lastId' = lastId /\ loggedTxs' = loggedTxs
  BY DEF Log!SyncCommit, Log!Fails
<1>2. Log!RollingBack' = Log!RollingBack
  BY <1>1 DEF Log!RollingBack
<1>3. LogTypes' /\ Unsynced'
  <2>1. Len(file) \in 0 .. Len(file)
    BY DEF LogTypes
  <2> QED
    BY <1>1, <1>2, <2>1 DEF LogTypes, Unsynced
<1> QED
  BY <1>1, <1>2, <1>3

\* The file is removed, or a crash leaves nothing of it.
LEMMA LogRemoved ==
  ASSUME file' = <<>>, synced' = 0, loggedTxs' = <<>>, tx' \in Transaction, tx'.id = 0,
         lastId' \in 0 .. MaxTxId
  PROVE  LogGood'
<1>1. /\ <<>> \in Seq(Record) /\ <<>> \in Seq(Transaction) /\ Len(<<>>) = 0 /\ 0 \in 0 .. 0
      /\ ~Log!RollingBack'
  BY DEF Log!RollingBack
<1>2. 0 <= lastId'
  BY LogAssumption
<1>3. LogTypes' /\ Unsynced'
  BY <1>1, <1>2 DEF LogTypes, Unsynced
<1>4. \E f : History(f, <<>>, <<>>, lastId') /\ EndState(f[Len(<<>>)], <<>>, tx', Log!RollingBack')
  BY EmptyHistory
<1> QED
  BY <1>3, <1>4 DEF LogGood

\* A record more, or none when the file fails.
LEMMA WritesShape ==
  ASSUME file \in Seq(Record), spoiled \in SUBSET {"failed", "restarted"}, synced \in 0 .. Len(file),
         NEW more \in Seq(Record), Log!Writes(file \o more), synced' = synced
  PROVE  file' \in Seq(Record) /\ spoiled' \in SUBSET {"failed", "restarted"} /\ synced' \in 0 .. Len(file')
<1>1. file' = file \o more \/ file' = file
  BY DEF Log!Writes
<1>2. spoiled' \in SUBSET {"failed", "restarted"}
  BY DEF Log!Writes, Log!Fails
<1>3. /\ file \o more \in Seq(Record) /\ Len(file \o more) = Len(file) + Len(more)
      /\ Len(more) \in Nat /\ Len(file) \in Nat
  OBVIOUS
<1>4. file' \in Seq(Record)
  BY <1>1, <1>3
<1>5. synced' \in 0 .. Len(file')
  BY <1>1, <1>3
<1> QED
  BY <1>2, <1>4, <1>5

\* The same, with the record appended.
LEMMA WritesOne ==
  ASSUME file \in Seq(Record), spoiled \in SUBSET {"failed", "restarted"}, synced \in 0 .. Len(file),
         NEW r \in Record, Log!Writes(Append(file, r)), synced' = synced
  PROVE  file' \in Seq(Record) /\ spoiled' \in SUBSET {"failed", "restarted"} /\ synced' \in 0 .. Len(file')
<1>1. <<r>> \in Seq(Record) /\ Append(file, r) = file \o <<r>>
  OBVIOUS
<1> QED
  BY <1>1, WritesShape

\* What a session's step leaves of the shape.
LEMMA SessionShape ==
  ASSUME LogShape, \/ Log!Begin \/ Log!WriteCommit \/ Log!SyncCommit \/ Log!WriteRollback
                   \/ \E op \in Ops : Log!BufferOp(op)
                   \/ \E n \in 0 .. MaxOps - 1 : Log!RollbackToSavepoint(n)
  PROVE  LogShape'
<1> USE LogAssumption DEF LogShape
<1>1. lastId \in Nat /\ tx.id \in Nat /\ tx.buffer \in Seq(Ops) /\ Log!NoTx \in Transaction /\ Log!NoTx.id = 0
  BY NoTransaction DEF Transaction
<1>2. CASE Log!Begin
  <2>1. Log!BeginRec(lastId + 1) \in Record /\ lastId + 1 \in Nat
    BY <1>1, SessionRecords
  <2>2. /\ Log!Writes(Append(file, Log!BeginRec(lastId + 1))) /\ synced' = synced /\ loggedTxs' = loggedTxs
        /\ lastId < MaxTxId /\ lastId' = lastId + 1 /\ tx' = [Log!NoTx EXCEPT !.id = lastId + 1]
    BY <1>2 DEF Log!Begin
  <2>3. tx' \in Transaction /\ tx'.id = lastId + 1
    BY <1>1, <2>1, <2>2, IdChange
  <2>4. file' \in Seq(Record) /\ spoiled' \in SUBSET {"failed", "restarted"} /\ synced' \in 0 .. Len(file')
    BY <2>1, <2>2, WritesOne
  <2>5. lastId' \in 0 .. MaxTxId /\ tx'.id <= lastId'
    BY <1>1, <2>2, <2>3
  <2> QED
    BY <2>2, <2>3, <2>4, <2>5
<1>3. CASE Log!WriteCommit
  <2>1. /\ Log!Writes(file \o <<Log!CommitRec(tx.id), Log!CrcRec(tx.id)>>) /\ synced' = synced
        /\ loggedTxs' = Append(loggedTxs, tx) /\ lastId' = lastId /\ tx' = Log!NoTx
    BY <1>3 DEF Log!WriteCommit, Log!CommitRecords
  <2>2. Log!CommitRec(tx.id) \in Record /\ Log!CrcRec(tx.id) \in Record
    BY <1>1, SessionRecords
  <2>3. <<Log!CommitRec(tx.id), Log!CrcRec(tx.id)>> \in Seq(Record)
    BY <2>2
  <2>4. file' \in Seq(Record) /\ spoiled' \in SUBSET {"failed", "restarted"} /\ synced' \in 0 .. Len(file')
    BY <2>1, <2>3, WritesShape
  <2>5. loggedTxs' \in Seq(Transaction) /\ tx'.id <= lastId'
    BY <1>1, <2>1
  <2> QED
    BY <1>1, <2>1, <2>4, <2>5
<1>4. CASE Log!WriteRollback
  <2>1. /\ Log!Writes(Append(file, Log!RollbackRec(tx.id))) /\ synced' = synced
        /\ loggedTxs' = loggedTxs /\ lastId' = lastId /\ tx' = Log!NoTx
    BY <1>4 DEF Log!WriteRollback
  <2>2. Log!RollbackRec(tx.id) \in Record
    BY <1>1, SessionRecords
  <2>3. file' \in Seq(Record) /\ spoiled' \in SUBSET {"failed", "restarted"} /\ synced' \in 0 .. Len(file')
    BY <2>1, <2>2, WritesOne
  <2>4. tx'.id <= lastId'
    BY <1>1, <2>1
  <2> QED
    BY <1>1, <2>1, <2>3, <2>4
<1>5. CASE Log!SyncCommit
  <2>1. file' = file /\ tx' = tx /\ lastId' = lastId /\ loggedTxs' = loggedTxs /\ synced' \in {synced, Len(file)}
    BY <1>5 DEF Log!SyncCommit
  <2>2. spoiled' \in SUBSET {"failed", "restarted"}
    BY <1>5 DEF Log!SyncCommit, Log!Fails
  <2>3. Len(file) \in Nat
    OBVIOUS
  <2>4. synced' \in 0 .. Len(file')
    BY <2>1, <2>3
  <2> QED
    BY <2>1, <2>2, <2>4
<1>6. ASSUME NEW op \in Ops, Log!BufferOp(op)
      PROVE  LogShape'
  <2> DEFINE longer == Append(tx.buffer, op)
  <2>1. /\ Log!Writes(Append(file, Log!OpRec(op))) /\ synced' = synced
        /\ loggedTxs' = loggedTxs /\ lastId' = lastId /\ tx' = [tx EXCEPT !.buffer = longer]
    BY <1>6 DEF Log!BufferOp
  <2>2. Log!OpRec(op) \in Record /\ longer \in Seq(Ops)
    BY <1>1, OperationRecord
  <2>3. file' \in Seq(Record) /\ spoiled' \in SUBSET {"failed", "restarted"} /\ synced' \in 0 .. Len(file')
    BY <2>1, <2>2, WritesOne
  <2> HIDE DEF longer
  <2>4. tx' \in Transaction /\ tx'.id = tx.id
    BY <2>1, <2>2, BufferChange
  <2> QED
    BY <2>1, <2>3, <2>4
<1>7. ASSUME NEW n \in 0 .. MaxOps - 1, Log!RollbackToSavepoint(n)
      PROVE  LogShape'
  <2>1. /\ file' = file /\ synced' = synced /\ lastId' = lastId /\ loggedTxs' = loggedTxs /\ spoiled' = spoiled
        /\ n < Len(tx.buffer) /\ tx' = [tx EXCEPT !.buffer = SubSeq(tx.buffer, 1, n), !.undone = TRUE]
    BY <1>7 DEF Log!RollbackToSavepoint
  <2>2. SubSeq(tx.buffer, 1, n) \in Seq(Ops)
    BY <1>1, <2>1
  <2>3. tx' \in Transaction /\ tx'.id = tx.id
    BY <2>1, <2>2, BufferChange
  <2> QED
    BY <2>1, <2>3
<1> QED
  BY <1>2, <1>3, <1>4, <1>5, <1>6, <1>7

\* A session's step does not mend the file, and keeps what it has while nothing fails.
LEMMA SessionKeeps ==
  ASSUME LogInv, \/ Log!Begin \/ Log!WriteCommit \/ Log!SyncCommit \/ Log!WriteRollback
                 \/ \E op \in Ops : Log!BufferOp(op)
                 \/ \E n \in 0 .. MaxOps - 1 : Log!RollbackToSavepoint(n)
  PROVE  LogInv'
<1>1. LogShape'
  BY SessionShape DEF LogInv
<1>2. ASSUME spoiled' = {}
      PROVE  LogGood'
  <2>1. spoiled = {}
    BY <1>2 DEF Log!Begin, Log!WriteCommit, Log!SyncCommit, Log!WriteRollback, Log!BufferOp,
                Log!RollbackToSavepoint, Log!Writes, Log!Fails
  <2>2. LogGood
    BY <2>1 DEF LogInv
  <2> QED
    BY <1>2, <2>2, LogBegin, LogWriteCommit, LogSyncCommit, LogWriteRollback, LogBufferOp, LogUndo
<1> QED
  BY <1>1, <1>2 DEF LogInv

\* deleteWal, with no transaction open: the file is gone, or stays and has failed.
LEMMA LogRemoves ==
  ASSUME LogInv, Log!Removes, tx' = tx, tx.id = 0, lastId' = lastId
  PROVE  LogInv'
<1>1. CASE file' = <<>> /\ synced' = 0 /\ loggedTxs' = <<>> /\ spoiled' = {}
  <2>1. LogGood'
    BY <1>1, LogRemoved DEF LogInv, LogShape
  <2>2. LogShape'
    BY <1>1, <2>1 DEF LogGood, LogTypes, LogShape
  <2> QED
    BY <2>1, <2>2 DEF LogInv
<1>2. CASE UNCHANGED <<file, synced, loggedTxs>> /\ Log!Fails
  <2>1. spoiled' # {} /\ spoiled' \in SUBSET {"failed", "restarted"}
    BY <1>2 DEF Log!Fails, LogInv, LogShape
  <2> QED
    BY <1>2, <2>1 DEF LogInv, LogShape
<1> QED
  BY <1>1, <1>2 DEF Log!Removes

\* What is left of a torn record is a record.
LEMMA TornIsRecord ==
  ASSUME NEW r \in Record, NEW torn \in Log!Torn(r)
  PROVE  torn \in Record
<1>1. CASE r.type = "CRC"
  <2>1. torn = Log!CrcRec(0)
    BY <1>1 DEF Log!Torn
  <2> QED
    BY <2>1, SessionRecords
<1>2. CASE r.type = "OP"
  BY <1>2 DEF Log!Torn
<1>3. CASE r.type # "CRC" /\ r.type # "OP"
  <2>1. r \in [type : {"TX_BEGIN", "TX_COMMIT", "CRC", "TX_ROLLBACK"}, id : Nat]
    BY <1>3 DEF Record
  <2>2. PICK id \in Log!Cut(r.id) : torn = [r EXCEPT !.id = id]
    BY <1>3 DEF Log!Torn
  <2>3. id \in Nat
    BY <2>1, <2>2 DEF Log!Cut
  <2>4. torn \in [type : {"TX_BEGIN", "TX_COMMIT", "CRC", "TX_ROLLBACK"}, id : Nat]
    BY <2>1, <2>2, <2>3
  <2> QED
    BY <2>4 DEF Record
<1> QED
  BY <1>1, <1>2, <1>3

\* What survives of a file of records is one.
LEMMA SurvivorsAreRecords ==
  ASSUME LogShape, NEW records \in Log!Survivors
  PROVE  records \in Seq(Record)
<1> USE DEF LogShape
<1>1. Len(file) \in Nat /\ synced \in Nat
  OBVIOUS
<1>2. ASSUME NEW n \in 0 .. Len(file)
      PROVE  SubSeq(file, 1, n) \in Seq(Record)
  BY <1>1, <1>2
<1>3. ASSUME NEW n \in synced .. Len(file) - 1, NEW r \in Log!Torn(file[n + 1])
      PROVE  Append(SubSeq(file, 1, n), r) \in Seq(Record)
  <2>1. n \in 0 .. Len(file) /\ file[n + 1] \in Record
    BY <1>1
  <2>2. r \in Record
    BY <2>1, TornIsRecord
  <2> QED
    BY <1>2, <2>1, <2>2
<1>4. ASSUME NEW n \in synced .. Len(file)
      PROVE  n \in 0 .. Len(file)
  BY <1>1
<1>5. \/ \E n \in synced .. Len(file) : records = SubSeq(file, 1, n)
      \/ \E n \in synced .. Len(file) - 1 : \E r \in Log!Torn(file[n + 1]) : records = Append(SubSeq(file, 1, n), r)
  BY DEF Log!Survivors
<1>6. CASE \E n \in synced .. Len(file) : records = SubSeq(file, 1, n)
  BY <1>2, <1>4, <1>6
<1>7. CASE \E n \in synced .. Len(file) - 1 : \E r \in Log!Torn(file[n + 1]) : records = Append(SubSeq(file, 1, n), r)
  BY <1>3, <1>7
<1> QED
  BY <1>5, <1>6, <1>7

\* The invariant of the log.
LEMMA LogInvHolds == AllSpec => []LogInv
<1>1. ASSUME Log!Init
      PROVE  LogInv
  <2>1. /\ file = <<>> /\ synced = 0 /\ loggedTxs = <<>> /\ tx \in Transaction /\ tx.id = 0 /\ lastId = 0
        /\ spoiled = {}
    BY <1>1, NoTransaction DEF Log!Init
  <2>2. /\ <<>> \in Seq(Record) /\ <<>> \in Seq(Transaction) /\ Len(<<>>) = 0 /\ 0 \in 0 .. 0 /\ 0 <= 0
        /\ 0 \in 0 .. MaxTxId
    BY LogAssumption
  <2>3. ~Log!RollingBack
    BY <2>1 DEF Log!RollingBack
  <2>4. LogTypes /\ Unsynced /\ LogShape
    BY <2>1, <2>2, <2>3 DEF LogTypes, Unsynced, LogShape
  <2>5. \E f : History(f, <<>>, <<>>, lastId) /\ EndState(f[Len(<<>>)], <<>>, tx, Log!RollingBack)
    BY <2>1, EmptyHistory
  <2> QED
    BY <2>1, <2>4, <2>5 DEF LogInv, LogGood
<1>2. ASSUME LogInv, Log!Next \/ UNCHANGED logVars
      PROVE  LogInv'
  <2>1. CASE UNCHANGED logVars
    <3>1. /\ file' = file /\ synced' = synced /\ tx' = tx /\ lastId' = lastId /\ loggedTxs' = loggedTxs
          /\ spoiled' = spoiled
      BY <2>1 DEF logVars
    <3>2. Log!RollingBack' <=> Log!RollingBack
      BY <3>1 DEF Log!RollingBack
    <3>3. LogShape'
      BY <1>2, <3>1 DEF LogInv, LogShape
    <3>4. ASSUME LogGood
          PROVE  LogGood'
      <4>1. LogTypes' /\ Unsynced'
        BY <3>1, <3>2, <3>4 DEF LogGood, LogTypes, Unsynced
      <4> QED
        BY <3>1, <3>2, <3>4, <4>1 DEF LogGood, EndState
    <3> QED
      BY <1>2, <3>1, <3>3, <3>4 DEF LogInv
  <2>2. CASE Log!DeleteWal
    BY <1>2, <2>2, LogRemoves DEF Log!DeleteWal, Log!Settled
  <2>3. CASE Log!RemoveLog
    BY <1>2, <2>3, LogRemoves DEF Log!RemoveLog
  <2>4. CASE Log!CrashAndRestart
    <3>1. 0 \in 0 .. MaxTxId /\ 0 <= 0
      BY LogAssumption
    <3>2. /\ tx' = Log!NoTx /\ lastId' = 0 /\ loggedTxs' = <<>> /\ synced' = Len(file') /\ file' \in Log!Survivors
          /\ spoiled' = IF file' = <<>> THEN {} ELSE spoiled \cup {"restarted"}
      BY <2>4 DEF Log!CrashAndRestart
    <3>3. file' \in Seq(Record) /\ <<>> \in Seq(Transaction)
      BY <1>2, <3>2, SurvivorsAreRecords DEF LogInv
    <3>4. Len(file') \in 0 .. Len(file')
      BY <3>3
    <3>5. spoiled' \in SUBSET {"failed", "restarted"}
      BY <1>2, <3>2 DEF LogInv, LogShape
    <3>6. LogShape'
      BY <3>1, <3>2, <3>3, <3>4, <3>5, NoTransaction DEF LogShape
    <3>7. ASSUME spoiled' = {}
          PROVE  LogGood'
      <4>1. file' = <<>> /\ synced' = 0
        BY <3>2, <3>7
      <4> QED
        BY <3>1, <3>2, <4>1, LogRemoved, NoTransaction
    <3> QED
      BY <3>6, <3>7 DEF LogInv
  <2>5. CASE \/ Log!Begin \/ Log!WriteCommit \/ Log!SyncCommit \/ Log!WriteRollback
             \/ \E op \in Ops : Log!BufferOp(op)
             \/ \E n \in 0 .. MaxOps - 1 : Log!RollbackToSavepoint(n)
    BY <1>2, <2>5, SessionKeeps
  <2> QED
    BY <1>2, <2>1, <2>2, <2>3, <2>4, <2>5 DEF Log!Next
<1>3. AllInit => Log!Init
  BY DEF AllInit
<1>4. [AllNext]_<<part, vars, fileVars, logVars, poolVars, pageVars>> => Log!Next \/ UNCHANGED logVars
  BY DEF AllNext
<1> QED
  BY <1>1, <1>2, <1>3, <1>4, PTL DEF AllSpec

\* What is left of a torn record does not matter: recover replays the first transactions
\* of the file with it as without it.
LEMMA TornIsHarmless ==
  ASSUME NEW st, NEW txs, NEW last, GoodState(st, txs, last), NEW r \in Record, Fits(st, r),
         NEW torn \in Log!Torn(r)
  PROVE  LET new == Log!ScanRecord(st, torn)
         IN  /\ torn \in Record /\ new \in ScanState
             /\ \E m \in 0 .. Len(new.entries) : CommittedUpTo(m, new.entries, txs)
<1> DEFINE new == Log!ScanRecord(st, torn)
           es == st.entries
           k == Len(es)
<1>1. /\ st \in ScanState /\ es \in Seq(Entry) /\ k \in Nat /\ OwnIds(es, last)
      /\ \A i \in 1 .. k : es[i].txId \in Nat
  <2>1. st \in ScanState /\ es \in Seq(Entry) /\ k \in Nat /\ OwnIds(es, last)
    BY DEF GoodState, ScanState
  <2>2. \A e \in Entry : e.txId \in Nat
    BY DEF Entry
  <2> QED
    BY <2>1, <2>2
<1>2. PICK m \in 0 .. k : CommittedUpTo(m, es, txs)
  BY DEF GoodState
<1>3. CASE r.type = "CRC"
  <2>1. torn = Log!CrcRec(0)
    BY <1>3 DEF Log!Torn
  <2>2. torn \in Record /\ torn.type = "CRC" /\ torn.id = 0
    BY <2>1, SessionRecords
  <2>3. k >= 1 /\ es[k].committed /\ st.pending = {es[k].txId} /\ k \in 1 .. k
    BY <1>1, <1>3 DEF Fits
  <2>4. es[k].txId \in Nat /\ es[k].txId # 0
    BY <1>1, <2>3 DEF OwnIds
  <2>5. new \in ScanState /\ new.entries = Log!SetCommitted(es, es[k].txId, FALSE)
    <3> HIDE DEF es, k
    <3> QED
      BY ZenonT(60), <1>1, <2>2, <2>3, <2>4, ScanChecksum DEF es
  <2>6. Log!First(es, es[k].txId) = k
    BY <1>1, <2>3, FirstIsOnly
  <2> HIDE DEF new, es
  <2>7. /\ Len(new.entries) = k
        /\ \A i \in 1 .. k : /\ new.entries[i].txId = es[i].txId /\ new.entries[i].ops = es[i].ops
                             /\ i = k => ~new.entries[i].committed
                             /\ i # k => new.entries[i].committed = es[i].committed
    <3> DEFINE marked == Log!SetCommitted(es, es[k].txId, FALSE)
               j == Log!First(es, es[k].txId)
    <3>1. /\ Len(marked) = k
          /\ \A i \in 1 .. k : /\ marked[i].txId = es[i].txId /\ marked[i].ops = es[i].ops
                               /\ i = j => ~marked[i].committed
                               /\ i # j => marked[i].committed = es[i].committed
      BY <1>1, MarksRevoked
    <3> HIDE DEF marked, j
    <3> QED
      BY <2>5, <2>6, <3>1 DEF marked, j
  <2>8. m = k
    BY <1>1, <1>2, <2>3 DEF CommittedUpTo
  <2>9. CommittedUpTo(k - 1, new.entries, txs)
    <3>1. k - 1 \in 0 .. k /\ k <= Len(txs)
      BY <1>1, <1>2, <2>3, <2>8 DEF CommittedUpTo
    <3>2. k - 1 <= Len(txs)
      <4>1. k - 1 <= k /\ k \in Nat
        BY <1>1
      <4> QED
        BY <1>2, <2>8, <3>1, <4>1 DEF CommittedUpTo
    <3>3. \A i \in 1 .. k : (i <= k - 1 <=> i # k) /\ i <= k
      BY <1>1
    <3>4. \A i \in 1 .. k - 1 : i \in 1 .. k
      BY <1>1
    <3>5. \A i \in 1 .. k : new.entries[i].committed <=> i <= k - 1
      BY <1>2, <2>7, <2>8, <3>3 DEF CommittedUpTo
    <3> QED
      BY <1>2, <2>7, <2>8, <3>1, <3>2, <3>4, <3>5 DEF CommittedUpTo
  <2>10. k - 1 \in 0 .. Len(new.entries)
    BY <1>1, <2>3, <2>7
  <2> QED
    BY <2>2, <2>5, <2>9, <2>10 DEF new
<1>4. CASE r.type = "OP"
  BY <1>4 DEF Log!Torn
<1>5. CASE r.type \in {"TX_BEGIN", "TX_COMMIT", "TX_ROLLBACK"}
  <2>1. PICK c \in Log!Cut(r.id) : torn = [r EXCEPT !.id = c]
    BY <1>5 DEF Log!Torn
  <2>2. r.id \in Nat
    BY <1>5 DEF Record
  <2>3. c \in Nat /\ c < r.id
    BY <2>1, <2>2 DEF Log!Cut
  <2>4. torn \in Record /\ torn.type = r.type /\ torn.id = c
    <3>1. torn = [type |-> r.type, id |-> c]
      BY <1>5, <2>1 DEF Record
    <3> QED
      BY <1>5, <2>3, <3>1 DEF Record
  <2>5. CASE r.type = "TX_BEGIN"
    <3> HIDE DEF es, k
    <3>1. new \in ScanState /\ Len(new.entries) = k + 1 /\ CommittedUpTo(m, new.entries, txs)
      BY <1>1, <1>2, <2>4, <2>5, ScanBegin DEF es, k
    <3>2. m \in 0 .. k + 1
      BY <1>1, <1>2
    <3> QED
      BY <2>4, <3>1, <3>2
  <2>6. CASE r.type = "TX_ROLLBACK"
    <3>1. new \in ScanState /\ new.entries = Log!SetRolledBack(es, c)
      BY <1>1, <2>4, <2>6, ScanRollback
    <3> HIDE DEF new, es
    <3>2. /\ new.entries \in Seq(Entry) /\ Len(new.entries) = k
          /\ \A i \in 1 .. k : /\ new.entries[i].txId = es[i].txId /\ new.entries[i].ops = es[i].ops
                               /\ new.entries[i].committed = es[i].committed
      BY <1>1, <3>1, MarkRolledBack
    <3>3. CommittedUpTo(m, new.entries, txs)
      BY <1>1, <1>2, <3>2, SameMarks
    <3> QED
      BY <1>2, <2>4, <3>1, <3>2, <3>3 DEF new
  <2>7. CASE r.type = "TX_COMMIT"
    <3>1. new \in ScanState /\ new.entries = Log!SetCommitted(es, c, TRUE)
      BY <1>1, <2>4, <2>7, ScanCommit
    <3>2. /\ k >= 1 /\ k \in 1 .. k /\ es[k].txId = r.id
          /\ \A i \in 1 .. k : es[i].committed <=> i # k
      BY <1>1, <2>7 DEF Fits
    <3> HIDE DEF new, es
    <3>3. Log!First(es, c) # k
      <4>1. es[k].txId # c
        BY <2>2, <2>3, <3>2
      <4>2. Log!First(es, c) = 0 \/ es[Log!First(es, c)].txId = c
        BY <1>1, FirstFinds
      <4> QED
        BY <1>1, <3>2, <4>1, <4>2
    <3>4. /\ new.entries \in Seq(Entry) /\ Len(new.entries) = k
          /\ \A i \in 1 .. k : /\ new.entries[i].txId = es[i].txId /\ new.entries[i].ops = es[i].ops
                               /\ i = Log!First(es, c) => new.entries[i].committed
                               /\ i # Log!First(es, c) => new.entries[i].committed = es[i].committed
      <4> DEFINE marked == Log!SetCommitted(es, c, TRUE)
      <4>1. /\ marked \in Seq(Entry) /\ Len(marked) = k
            /\ \A i \in 1 .. k : /\ marked[i].txId = es[i].txId /\ marked[i].ops = es[i].ops
                                 /\ i = Log!First(es, c) => marked[i].committed
                                 /\ i # Log!First(es, c) => marked[i].committed = es[i].committed
        BY <1>1, MarksSet
      <4> HIDE DEF marked
      <4> QED
        BY <3>1, <4>1 DEF marked
    <3>5. \A i \in 1 .. k : new.entries[i].committed <=> es[i].committed
      BY <3>2, <3>3, <3>4
    <3>6. CommittedUpTo(m, new.entries, txs)
      <4>1. \A i \in 1 .. m : i \in 1 .. k
        BY <1>1, <1>2
      <4> QED
        BY <1>2, <3>4, <3>5, <4>1 DEF CommittedUpTo
    <3> QED
      BY <1>2, <2>4, <3>1, <3>4, <3>6 DEF new
  <2> QED
    BY <1>5, <2>5, <2>6, <2>7
<1>6. r.type \in {"CRC", "OP", "TX_BEGIN", "TX_COMMIT", "TX_ROLLBACK"}
  BY DEF Record
<1> QED
  BY <1>3, <1>4, <1>5, <1>6

\* The entries kept by a loop, inside the log's module and outside.
LEMMA LogPicked ==
  ASSUME NEW s, NEW P
  PROVE  Log!Picked(s, P) = Picked(s, P)
<1>1. \A S : Log!Cardinality(S) = Cardinality(S)
  BY DEF Log!Cardinality, Cardinality, Log!IsFiniteSet, IsFiniteSet
<1>2. \A i : Log!Nth(P, i) = Nth(P, i)
  BY <1>1 DEF Log!Nth, Nth
<1> QED
  BY <1>1, <1>2 DEF Log!Picked, Picked

\* What recover replays of entries of which the first m are committed.
LEMMA ReplaysTheFirst ==
  ASSUME NEW entries \in Seq(Entry), NEW txs, NEW m, CommittedUpTo(m, entries, txs)
  PROVE  LET new == Log!Replayed(entries)
         IN  Len(new) = m /\ DOMAIN new = 1 .. m /\ \A i \in 1 .. m : new[i] = entries[i]
<1> DEFINE P == {i \in DOMAIN entries : entries[i].committed}
           a == [i \in 1 .. m |-> i]
<1>1. DOMAIN entries = 1 .. Len(entries) /\ Len(entries) \in Nat /\ m \in Nat /\ m <= Len(entries)
  BY DEF CommittedUpTo
<1>2. P = 1 .. m
  <2>1. \A i \in 1 .. Len(entries) : entries[i].committed <=> i <= m
    BY DEF CommittedUpTo
  <2>2. \A i : i \in 1 .. m <=> i \in 1 .. Len(entries) /\ i <= m
    BY <1>1
  <2> QED
    BY <1>1, <2>1, <2>2
<1>3. P \in SUBSET Nat /\ P \in SUBSET DOMAIN entries
  BY <1>1
<1>4. Log!Replayed(entries) = Picked(entries, P)
  BY LogPicked DEF Log!Replayed
<1> HIDE DEF P
<1>5. Cardinality(P) = m /\ \A i \in 1 .. m : Ascending(P)[i] = i
  <2>1. a \in [1 .. m -> P]
    BY <1>2
  <2>2. \A i, j \in 1 .. m : i < j => a[i] < a[j]
    OBVIOUS
  <2>3. \A x \in P : \E i \in 1 .. m : a[i] = x
    BY <1>2
  <2>4. \A i \in 1 .. m : a[i] = i
    OBVIOUS
  <2> HIDE DEF a
  <2> QED
    BY <1>1, <1>3, <2>1, <2>2, <2>3, <2>4, EnumerationIsAscending
<1>6. /\ Len(Picked(entries, P)) = m /\ DOMAIN Picked(entries, P) = 1 .. m
      /\ \A i \in 1 .. m : Picked(entries, P)[i] = entries[Ascending(P)[i]]
  BY <1>3, <1>5, PickedReads, PickedShape
<1> QED
  BY <1>4, <1>5, <1>6

\* Whatever survives of the file, its scan ends with the first transactions committed,
\* and with all of them when the file is synced.
LEMMA SurvivorsScanWell ==
  ASSUME LogGood, NEW records \in Log!Survivors
  PROVE  \E m \in Nat : /\ Log!ScanWal(records) \in Seq(Entry)
                        /\ CommittedUpTo(m, Log!ScanWal(records), loggedTxs)
                        /\ synced = Len(file) => m = Len(loggedTxs)
<1>1. file \in Seq(Record) /\ Len(file) \in Nat /\ synced \in 0 .. Len(file) /\ loggedTxs \in Seq(Transaction)
  BY DEF LogGood, LogTypes
<1>2. PICK f : History(f, file, loggedTxs, lastId) /\ EndState(f[Len(file)], loggedTxs, tx, Log!RollingBack)
  BY DEF LogGood
<1>3. Scanned(f, file)
  BY <1>2 DEF History
<1>4. ASSUME NEW n \in synced .. Len(file), records = SubSeq(file, 1, n)
      PROVE  \E m \in Nat : /\ Log!ScanWal(records) \in Seq(Entry)
                            /\ CommittedUpTo(m, Log!ScanWal(records), loggedTxs)
                            /\ synced = Len(file) => m = Len(loggedTxs)
  <2>1. n \in 0 .. Len(file) /\ n \in Nat /\ n \in 0 .. n
    BY <1>1
  <2>2. /\ records \in Seq(Record) /\ Len(records) = n
        /\ Scanned([i \in 0 .. n |-> f[i]], records)
    BY <1>1, <1>3, <1>4, <2>1, ScanOfPrefix
  <2>3. Log!ScanWal(records) = f[n].entries
    BY <2>1, <2>2, ScanReturns
  <2>4. GoodState(f[n], loggedTxs, lastId)
    BY <1>2, <2>1 DEF History
  <2>5. f[n].entries \in Seq(Entry) /\ Len(f[n].entries) \in Nat
    BY <2>4 DEF GoodState, ScanState
  <2>6. CASE synced = Len(file)
    <3>1. n = Len(file) /\ Len(loggedTxs) \in Nat
      BY <1>1, <2>6
    <3>2. CommittedUpTo(Len(loggedTxs), f[n].entries, loggedTxs)
      BY <1>2, <3>1 DEF EndState
    <3> QED
      BY <2>3, <2>5, <3>1, <3>2
  <2>7. CASE synced # Len(file)
    <3>1. PICK m \in 0 .. Len(f[n].entries) : CommittedUpTo(m, f[n].entries, loggedTxs)
      BY <2>4 DEF GoodState
    <3>2. m \in Nat
      BY <2>5
    <3> QED
      BY <2>3, <2>5, <2>7, <3>1, <3>2
  <2> QED
    BY <2>6, <2>7
<1>5. ASSUME NEW n \in synced .. Len(file) - 1, NEW torn \in Log!Torn(file[n + 1]),
             records = Append(SubSeq(file, 1, n), torn)
      PROVE  \E m \in Nat : /\ Log!ScanWal(records) \in Seq(Entry)
                            /\ CommittedUpTo(m, Log!ScanWal(records), loggedTxs)
                            /\ synced = Len(file) => m = Len(loggedTxs)
  <2> DEFINE kept == SubSeq(file, 1, n)
             h == [i \in 0 .. n |-> f[i]]
             new == Log!ScanRecord(f[n], torn)
  <2>1. /\ n \in 0 .. Len(file) /\ n \in 0 .. Len(file) - 1 /\ n \in Nat /\ n \in 0 .. n
        /\ n + 1 \in 1 .. Len(file) /\ synced # Len(file)
    BY <1>1
  <2>2. kept \in Seq(Record) /\ Len(kept) = n /\ Scanned(h, kept) /\ h[n] = f[n]
    BY <1>1, <1>3, <2>1, ScanOfPrefix
  <2>3. file[n + 1] \in Record /\ GoodState(f[n], loggedTxs, lastId) /\ Fits(f[n], file[n + 1])
    BY <1>1, <1>2, <2>1 DEF History
  <2> HIDE DEF kept, h
  <2>4. PICK m \in 0 .. Len(new.entries) : /\ torn \in Record /\ new \in ScanState
                                           /\ CommittedUpTo(m, new.entries, loggedTxs)
    BY <1>5, <2>3, TornIsHarmless
  <2> HIDE DEF new
  <2>5. PICK g : Scanned(g, records) /\ g[n + 1] = new
    <3>1. PICK g : Scanned(g, Append(kept, torn)) /\ g[Len(kept) + 1] = Log!ScanRecord(h[Len(kept)], torn)
      BY <2>2, <2>4, ScanOfAppend
    <3> QED
      BY <1>5, <2>2, <3>1 DEF kept, new
  <2>6. records \in Seq(Record) /\ Len(records) = n + 1
    <3>1. records = Append(kept, torn)
      BY <1>5 DEF kept
    <3> QED
      BY <2>2, <2>4, <3>1
  <2>7. Log!ScanWal(records) = new.entries
    BY <2>5, <2>6, ScanReturns
  <2>8. new.entries \in Seq(Entry) /\ m \in Nat
    <3>1. new.entries \in Seq(Entry)
      BY <2>4 DEF ScanState
    <3> QED
      BY <2>4, <3>1
  <2> QED
    BY <2>1, <2>4, <2>7, <2>8
<1> QED
  BY <1>4, <1>5 DEF Log!Survivors

\* As long as a session's log was written by one run of the process and never failed to be
\* opened, synced or removed: whatever a crash leaves of it, a commit line or a checksum cut anywhere
\* included, recover replays committed transactions only, in their order, with the
\* operations that COMMIT applied unless some were undone to a savepoint; and all of them
\* once the last commit record is synced.  For any number of transactions in one file.
THEOREM RecoveryReplaysTheCommitted == AllSpec => []ReplaysTheCommitted
<1>1. ASSUME LogGood, NEW records \in Log!Survivors
      PROVE  LET replayed == Log!Recovered(records)
             IN  /\ Len(replayed) <= Len(loggedTxs) /\ (synced = Len(file) => Len(replayed) = Len(loggedTxs))
                 /\ \A i \in DOMAIN replayed : Log!SameTx(replayed[i], loggedTxs[i])
  <2> DEFINE es == Log!ScanWal(records)
             kept == Log!Replayed(es)
             replayed == Log!Recovered(records)
  <2>1. PICK m \in Nat : /\ es \in Seq(Entry) /\ CommittedUpTo(m, es, loggedTxs)
                         /\ synced = Len(file) => m = Len(loggedTxs)
    BY <1>1, SurvivorsScanWell
  <2>2. replayed = [i \in DOMAIN kept |-> [id |-> kept[i].txId, buffer |-> kept[i].ops]]
    BY DEF Log!Recovered
  <2> HIDE DEF es, replayed
  <2>3. DOMAIN kept = 1 .. m /\ \A i \in 1 .. m : kept[i] = es[i]
    BY <2>1, ReplaysTheFirst
  <2> HIDE DEF kept
  <2>4. Len(replayed) = m /\ DOMAIN replayed = 1 .. m
    BY <2>1, <2>2, <2>3
  <2>5. ASSUME NEW i \in 1 .. m
        PROVE  Log!SameTx(replayed[i], loggedTxs[i])
    <3>1. replayed[i] = [id |-> es[i].txId, buffer |-> es[i].ops]
      BY <2>2, <2>3
    <3>2. es[i].txId = loggedTxs[i].id /\ (~loggedTxs[i].undone => es[i].ops = loggedTxs[i].buffer)
      BY <2>1 DEF CommittedUpTo
    <3> QED
      BY <3>1, <3>2 DEF Log!SameTx
  <2>6. m <= Len(loggedTxs)
    BY <2>1 DEF CommittedUpTo
  <2> QED
    BY <2>1, <2>4, <2>5, <2>6 DEF replayed
<1>2. LogInv => ReplaysTheCommitted
  BY <1>1 DEF LogInv, ReplaysTheCommitted, Log!ReplaysTheCommitted
<1> QED
  BY <1>2, LogInvHolds, PTL
-----------------------------------------------------------------------------
(* Paged tables *)

\* What a statement works on.
Memories == [file : [Paged -> Seq(Pages!Page)], cache : Seq(Pages!Entry), up : BOOLEAN,
             fails : Pages!Fault]

\* No page is cached twice.
CachedOnce(c) == \A i, j \in DOMAIN c : c[i].tbl = c[j].tbl /\ c[i].id = c[j].id => i = j

\* An entry of the cache over the files h: a clean one is what the file has, a dirty one is
\* one of the pages P that the statement writes to t, and goes to where its number says.
EntryOK(e, h, t, P) ==
  /\ e.id < Len(h[e.tbl])
  /\ IF e.dirty THEN e.tbl = t /\ e.page \in P /\ e.page.id = e.id ELSE e.page = h[e.tbl][e.id + 1]

CacheOK(c, h, t, P) ==
  /\ Len(c) <= MaxPages /\ CachedOnce(c)
  /\ \A i \in DOMAIN c : EntryOK(c[i], h, t, P)

\* The files h are the files f, but for pages of P that were written to t.
FilesFrom(h, f, t, P) ==
  /\ \A u \in Paged \ {t} : h[u] = f[u]
  /\ Len(h[t]) = Len(f[t])
  /\ \A i \in 1 .. Len(f[t]) : h[t][i] # f[t][i] => h[t][i] \in P /\ h[t][i].id = i - 1

\* A statement on t that began with the files f and writes the pages P is under way, and
\* nothing has failed.
Midway(m, f, t, P) ==
  /\ m \in Memories /\ m.fails = "none" /\ P \in SUBSET Pages!Page
  /\ CacheOK(m.cache, m.file, t, P) /\ FilesFrom(m.file, f, t, P)

\* A new entry of the cache.
EntryOf(u, id, pg, w) == [tbl |-> u, id |-> id, page |-> pg, dirty |-> w]

\* The memory r is m, with the entry e as the one used last.
PutInto(r, m, e) ==
  /\ r.file = m.file /\ r.up = m.up /\ r.fails = m.fails
  /\ Len(r.cache) \in Nat \ {0} /\ r.cache[Len(r.cache)] = e

\* The entries kept by a loop, inside the module of the paged tables and outside.
LEMMA PagesPicked ==
  ASSUME NEW s, NEW P
  PROVE  Pages!Picked(s, P) = Picked(s, P)
<1>1. \A S : Pages!Cardinality(S) = Cardinality(S)
  BY DEF Pages!Cardinality, Cardinality, Pages!IsFiniteSet, IsFiniteSet
<1>2. \A i : Pages!Nth(P, i) = Nth(P, i)
  BY <1>1 DEF Pages!Nth, Nth
<1> QED
  BY <1>1, <1>2 DEF Pages!Picked, Picked

\* d is, at its first n places, what c has at the places a, all of K and different, and after
\* that x.
KeepsAndAdds(d, n, a, c, K, x) ==
  /\ Len(d) = n + 1 /\ d[n + 1] = x /\ DOMAIN d = 1 .. n + 1
  /\ n <= Len(c) /\ (K # DOMAIN c => n < Len(c))
  /\ \A i \in 1 .. n : a[i] \in K /\ d[i] = c[a[i]]
  /\ \A i, j \in 1 .. n : a[i] = a[j] => i = j

\* Some entries of c and a new one after them.
LEMMA KeptAndAdded ==
  ASSUME NEW V, NEW c \in Seq(V), NEW K \in SUBSET DOMAIN c, NEW x \in V, NEW d,
         d = Append(Picked(c, K), x)
  PROVE  d \in Seq(V) /\ \E n \in Nat : \E a : KeepsAndAdds(d, n, a, c, K, x)
<1> DEFINE n == Cardinality(K)
           a == Ascending(K)
           p == Picked(c, K)
<1>1. /\ IsFiniteSet(K) /\ K \in SUBSET Nat /\ Len(p) = n /\ p \in Seq(V)
      /\ \A i \in 1 .. n : p[i] = c[a[i]]
  BY PickedReads
<1>2. /\ n \in Nat /\ \A i \in 1 .. n : a[i] \in K
      /\ \A i, j \in 1 .. n : i < j => a[i] < a[j]
  BY <1>1, AscendingLists
<1>3. Len(c) \in Nat /\ DOMAIN c = 1 .. Len(c)
  BY LenProperties
<1>4. IsFiniteSet(1 .. Len(c)) /\ Cardinality(1 .. Len(c)) = Len(c)
  <2>1. 1 \in Int /\ Len(c) \in Int /\ (1 > Len(c) <=> Len(c) = 0) /\ Len(c) - 1 + 1 = Len(c)
    BY <1>3
  <2> QED
    BY <1>3, <2>1, FS_Interval
<1>5. n <= Len(c) /\ (K # DOMAIN c => n < Len(c))
  <2>1. K \in SUBSET (1 .. Len(c))
    BY <1>3
  <2>2. n <= Cardinality(1 .. Len(c)) /\ (n = Cardinality(1 .. Len(c)) => 1 .. Len(c) = K)
    BY <1>4, <2>1, FS_Subset
  <2> QED
    BY <1>2, <1>3, <1>4, <2>2
<1>6. ASSUME NEW i \in 1 .. n, NEW j \in 1 .. n, a[i] = a[j]
      PROVE  i = j
  <2>1. a[i] \in Nat /\ a[j] \in Nat
    BY <1>1, <1>2
  <2>2. ~(i < j) /\ ~(j < i)
    BY <1>2, <1>6, <2>1
  <2> QED
    BY <1>2, <2>2
<1> HIDE DEF n, a, p
<1>7. /\ d \in Seq(V) /\ Len(d) = n + 1 /\ d[n + 1] = x /\ DOMAIN d = 1 .. n + 1
      /\ \A i \in 1 .. n : d[i] = p[i]
  BY <1>1, <1>2 DEF p
<1> QED
  <2>1. \A i \in 1 .. n : a[i] \in K /\ d[i] = c[a[i]]
    BY <1>1, <1>2, <1>7
  <2>2. \A i, j \in 1 .. n : a[i] = a[j] => i = j
    BY <1>6
  <2>3. KeepsAndAdds(d, n, a, c, K, x)
    BY <1>5, <1>7, <2>1, <2>2 DEF KeepsAndAdds
  <2> QED
    BY <1>2, <1>7, <2>3

\* What a statement works on keeps its shape, whatever fails.
Shaped(m) == m \in Memories /\ Len(m.cache) <= MaxPages /\ CachedOnce(m.cache)

\* Every entry of the cache of r is e or was in that of m.
OldOrNew(r, m, e) == \A i \in DOMAIN r.cache : r.cache[i] = e \/ \E j \in DOMAIN m.cache : r.cache[i] = m.cache[j]

\* The entry of a page is put into the cache, as the one used last.
LEMMA PutShaped ==
  ASSUME NEW m, Shaped(m), NEW u \in Paged, NEW id \in Nat, NEW pg \in Pages!Page, NEW w \in BOOLEAN,
         Len(m.cache) < MaxPages \/ Pages!InCache(m, u, id)
  PROVE  /\ Shaped(Pages!Put(m, u, id, pg, w))
         /\ PutInto(Pages!Put(m, u, id, pg, w), m, EntryOf(u, id, pg, w))
         /\ OldOrNew(Pages!Put(m, u, id, pg, w), m, EntryOf(u, id, pg, w))
<1> DEFINE r == Pages!Put(m, u, id, pg, w)
           e == EntryOf(u, id, pg, w)
           c == m.cache
           K == {i \in DOMAIN c : ~Pages!Is(c[i], u, id)}
<1>1. /\ m \in Memories /\ c \in Seq(Pages!Entry) /\ Len(c) \in Nat /\ DOMAIN c = 1 .. Len(c)
      /\ m.file \in [Paged -> Seq(Pages!Page)] /\ m.up \in BOOLEAN /\ m.fails \in Pages!Fault /\ MaxPages \in Nat
  BY LenProperties, PagesAssumption DEF Shaped, Memories
<1>2. e \in Pages!Entry
  BY DEF Pages!Entry, EntryOf
<1>3. /\ r.file = m.file /\ r.up = m.up /\ r.fails = m.fails /\ r.cache = Append(Picked(c, K), e)
      /\ r = [file |-> m.file, cache |-> r.cache, up |-> m.up, fails |-> m.fails]
  <2>1. r = [m EXCEPT !.cache = Append(Pages!Picked(c, K), e)]
    BY DEF Pages!Put, EntryOf
  <2>2. Pages!Picked(c, K) = Picked(c, K)
    BY PagesPicked
  <2> HIDE DEF K, e, r
  <2> QED
    BY <1>1, <2>1, <2>2 DEF Memories
<1>4. K \in SUBSET DOMAIN c
  OBVIOUS
<1> DEFINE d == r.cache
<1> HIDE DEF d, K, r, e
<1>5a. d \in Seq(Pages!Entry) /\ \E n \in Nat : \E a : KeepsAndAdds(d, n, a, c, K, e)
  <2>1. c \in Seq(Pages!Entry) /\ K \in SUBSET DOMAIN c /\ e \in Pages!Entry /\ d = Append(Picked(c, K), e)
    BY <1>1, <1>2, <1>3, <1>4 DEF d
  <2> HIDE DEF c
  <2> QED
    BY Zenon, <2>1, KeptAndAdded
<1>5b. PICK n \in Nat : \E a : KeepsAndAdds(d, n, a, c, K, e)
  BY <1>5a
<1>5c. PICK a : KeepsAndAdds(d, n, a, c, K, e)
  BY <1>5b
<1>5. /\ d \in Seq(Pages!Entry) /\ Len(d) = n + 1 /\ d[n + 1] = e /\ DOMAIN d = 1 .. n + 1 /\ n \in Nat
      /\ n <= Len(c) /\ (K # DOMAIN c => n < Len(c))
      /\ \A i \in 1 .. n : a[i] \in K /\ d[i] = c[a[i]]
      /\ \A i, j \in 1 .. n : a[i] = a[j] => i = j
  BY <1>5c, <1>5a DEF KeepsAndAdds
<1>6. n < MaxPages
  <2>1. CASE Len(c) < MaxPages
    BY <1>1, <1>5, <2>1
  <2>2. CASE Pages!InCache(m, u, id)
    <3>1. K # DOMAIN c
      BY <2>2 DEF Pages!InCache, K
    <3>2. Len(c) <= MaxPages
      BY DEF Shaped
    <3> QED
      BY <1>1, <1>5, <3>1, <3>2
  <2> QED
    BY <2>1, <2>2
<1>7. \A i \in 1 .. n : ~(d[i].tbl = u /\ d[i].id = id) /\ \E j \in DOMAIN c : d[i] = c[j]
  BY <1>4, <1>5 DEF K, Pages!Is
<1>8. e.tbl = u /\ e.id = id
  BY DEF e, EntryOf
<1>9. CachedOnce(d)
  <2>1. \A i, j \in DOMAIN c : c[i].tbl = c[j].tbl /\ c[i].id = c[j].id => i = j
    BY DEF Shaped, CachedOnce
  <2>2. ASSUME NEW i \in 1 .. n + 1, NEW j \in 1 .. n + 1, d[i].tbl = d[j].tbl, d[i].id = d[j].id
        PROVE  i = j
    <3>1. CASE i = n + 1 \/ j = n + 1
      <4>1. (i \in 1 .. n \/ i = n + 1) /\ (j \in 1 .. n \/ j = n + 1)
        BY <1>5
      <4> QED
        BY <1>5, <1>7, <1>8, <2>2, <3>1, <4>1
    <3>2. CASE i # n + 1 /\ j # n + 1
      <4>1. i \in 1 .. n /\ j \in 1 .. n
        BY <3>2, <1>5
      <4>2. a[i] \in DOMAIN c /\ a[j] \in DOMAIN c /\ d[i] = c[a[i]] /\ d[j] = c[a[j]]
        BY <1>4, <1>5, <4>1
      <4>3. a[i] = a[j]
        BY <2>1, <2>2, <4>2
      <4> QED
        BY <1>5, <4>1, <4>3
    <3> QED
      BY <3>1, <3>2
  <2> QED
    BY <1>5, <2>2 DEF CachedOnce
<1>10. OldOrNew(r, m, e)
  <2>1. \A i \in 1 .. n + 1 : i \in 1 .. n \/ i = n + 1
    BY <1>5
  <2>2. \A i \in DOMAIN d : d[i] = e \/ \E j \in DOMAIN c : d[i] = c[j]
    BY <1>5, <1>7, <2>1
  <2> QED
    BY <2>2 DEF OldOrNew, d
<1>11. r \in Memories
  BY <1>1, <1>3, <1>5 DEF Memories, d
<1>12. Shaped(r)
  <2>1. Len(d) <= MaxPages
    BY <1>1, <1>5, <1>6
  <2> QED
    BY <1>9, <1>11, <2>1 DEF Shaped, d
<1>13. PutInto(r, m, e)
  BY <1>3, <1>5 DEF PutInto, d
<1> QED
  BY <1>10, <1>12, <1>13 DEF r, e

\* The same while nothing fails.
LEMMA PutKeeps ==
  ASSUME NEW m, NEW f, NEW t \in Paged, NEW P, Midway(m, f, t, P),
         NEW u \in Paged, NEW id \in Nat, NEW pg \in Pages!Page, NEW w \in BOOLEAN,
         EntryOK(EntryOf(u, id, pg, w), m.file, t, P),
         Len(m.cache) < MaxPages \/ Pages!InCache(m, u, id)
  PROVE  /\ Midway(Pages!Put(m, u, id, pg, w), f, t, P)
         /\ PutInto(Pages!Put(m, u, id, pg, w), m, EntryOf(u, id, pg, w))
<1> DEFINE r == Pages!Put(m, u, id, pg, w)
           e == EntryOf(u, id, pg, w)
<1>1. Shaped(m)
  BY DEF Midway, CacheOK, Shaped
<1>2. Shaped(r) /\ PutInto(r, m, e) /\ OldOrNew(r, m, e)
  BY <1>1, PutShaped
<1> HIDE DEF r, e
<1>3. r \in Memories /\ r.file = m.file /\ r.fails = "none" /\ Len(r.cache) <= MaxPages /\ CachedOnce(r.cache)
  BY <1>2 DEF Shaped, PutInto, Midway
<1>4. EntryOK(e, m.file, t, P)
  BY DEF e
<1>5. \A j \in DOMAIN m.cache : EntryOK(m.cache[j], m.file, t, P)
  BY DEF Midway, CacheOK
<1>6. \A i \in DOMAIN r.cache : EntryOK(r.cache[i], m.file, t, P)
  BY <1>2, <1>4, <1>5 DEF OldOrNew
<1>7. CacheOK(r.cache, r.file, t, P)
  BY <1>3, <1>6 DEF CacheOK
<1>8. P \in SUBSET Pages!Page /\ FilesFrom(r.file, f, t, P)
  BY <1>3 DEF Midway
<1>9. Midway(r, f, t, P)
  BY <1>3, <1>7, <1>8 DEF Midway
<1> QED
  BY <1>2, <1>9 DEF r, e

\* A page is evicted when the cache is full, a dirty one to the file.
LEMMA MakeRoomKeeps ==
  ASSUME NEW m, NEW f, NEW t \in Paged, NEW P, Midway(m, f, t, P), NEW r, r = Pages!MakeRoom(m)
  PROVE  Midway(r, f, t, P) /\ Len(r.cache) < MaxPages /\ r.up = m.up
<1> DEFINE c == m.cache
<1>1. /\ m \in Memories /\ c \in Seq(Pages!Entry) /\ Len(c) \in Nat /\ DOMAIN c = 1 .. Len(c)
      /\ m.file \in [Paged -> Seq(Pages!Page)] /\ m.up \in BOOLEAN /\ MaxPages \in Nat \ {0}
      /\ Len(c) <= MaxPages /\ CachedOnce(c) /\ P \in SUBSET Pages!Page
  BY LenProperties, PagesAssumption DEF Midway, Memories, CacheOK
<1>2. CASE Len(c) < MaxPages
  BY <1>2 DEF Pages!MakeRoom
<1>3. CASE ~(Len(c) < MaxPages)
  <2> DEFINE h == Head(c)
             d == Tail(c)
             g == IF h.dirty THEN Pages!Written(m.file, h) ELSE m.file
  <2>1. Len(c) = MaxPages /\ c # <<>>
    BY <1>1, <1>3
  <2>2. /\ h = c[1] /\ h \in Pages!Entry /\ d \in Seq(Pages!Entry) /\ Len(d) = Len(c) - 1
        /\ DOMAIN d = 1 .. Len(c) - 1 /\ \A i \in 1 .. Len(c) - 1 : d[i] = c[i + 1]
    BY <1>1, <2>1
  <2>4. h.tbl \in Paged /\ h.id \in Nat /\ h.page \in Pages!Page /\ EntryOK(h, m.file, t, P) /\ h.dirty \in BOOLEAN
    <3>1. 1 \in DOMAIN c
      BY <1>1, <2>1
    <3>2. EntryOK(c[1], m.file, t, P)
      BY <3>1 DEF Midway, CacheOK
    <3> HIDE DEF h
    <3> QED
      BY <2>2, <3>2 DEF Pages!Entry
  <2>5. \A u \in Paged : m.file[u] \in Seq(Pages!Page) /\ Len(m.file[u]) \in Nat /\ DOMAIN m.file[u] = 1 .. Len(m.file[u])
    BY <1>1
  <2> HIDE DEF h, d
  <2>3. r = [file |-> g, cache |-> d, up |-> m.up, fails |-> m.fails]
    <3>1. h.dirty => Pages!Lands(m, h)
      <4>1. m.fails # "write"
        BY DEF Midway
      <4> QED
        BY <2>4, <4>1 DEF Pages!Lands, EntryOK
    <3>2. r = [m EXCEPT !.cache = d, !.file = IF h.dirty /\ Pages!Lands(m, h) THEN Pages!Written(m.file, h) ELSE m.file]
      BY <1>3 DEF Pages!MakeRoom, h, d
    <3>3. r = [m EXCEPT !.cache = d, !.file = g]
      BY <3>1, <3>2
    <3> HIDE DEF g
    <3> QED
      BY <1>1, <3>3 DEF Memories
  <2>6. /\ g \in [Paged -> Seq(Pages!Page)]
        /\ \A u \in Paged : Len(g[u]) = Len(m.file[u])
        /\ \A u \in Paged : \A k \in 1 .. Len(m.file[u]) :
             IF h.dirty /\ u = h.tbl /\ k = h.id + 1 THEN g[u][k] = h.page ELSE g[u][k] = m.file[u][k]
        /\ \A u \in Paged \ {t} : g[u] = m.file[u]
    <3>1. CASE h.dirty
      <4>1. g = [m.file EXCEPT ![h.tbl] = [m.file[h.tbl] EXCEPT ![h.id + 1] = h.page]]
        BY <3>1 DEF Pages!Written
      <4>2. h.id + 1 \in 1 .. Len(m.file[h.tbl]) /\ h.tbl = t
        BY <2>4, <2>5, <3>1 DEF EntryOK
      <4> DEFINE x == [m.file[h.tbl] EXCEPT ![h.id + 1] = h.page]
      <4>3. /\ x \in Seq(Pages!Page) /\ Len(x) = Len(m.file[h.tbl]) /\ x[h.id + 1] = h.page
            /\ \A k \in 1 .. Len(m.file[h.tbl]) : k # h.id + 1 => x[k] = m.file[h.tbl][k]
        BY <2>4, <2>5, <4>2
      <4> HIDE DEF x
      <4>4. g = [m.file EXCEPT ![h.tbl] = x]
        BY <4>1 DEF x
      <4> HIDE DEF g
      <4>5. g \in [Paged -> Seq(Pages!Page)] /\ g[h.tbl] = x /\ \A u \in Paged : u # h.tbl => g[u] = m.file[u]
        BY <1>1, <2>4, <4>3, <4>4
      <4> QED
        BY <3>1, <4>2, <4>3, <4>5
    <3>2. CASE ~h.dirty
      BY <1>1, <3>2
    <3> QED
      BY <3>1, <3>2
  <2> HIDE DEF g
  <2>7. FilesFrom(m.file, f, t, P)
    BY DEF Midway
  <2>8. FilesFrom(g, f, t, P)
    <3>1. Len(m.file[t]) = Len(f[t]) /\ \A u \in Paged \ {t} : g[u] = f[u]
      BY <2>6, <2>7 DEF FilesFrom
    <3>2. ASSUME NEW i \in 1 .. Len(f[t]), g[t][i] # f[t][i]
          PROVE  g[t][i] \in P /\ g[t][i].id = i - 1
      <4>1. CASE h.dirty /\ t = h.tbl /\ i = h.id + 1
        <5>1. g[t][i] = h.page /\ h.page \in P /\ h.page.id = h.id
          BY <2>4, <2>6, <3>1, <4>1 DEF EntryOK
        <5> QED
          BY <2>4, <4>1, <5>1
      <4>2. CASE ~(h.dirty /\ t = h.tbl /\ i = h.id + 1)
        BY <2>6, <2>7, <3>1, <3>2, <4>2 DEF FilesFrom
      <4> QED
        BY <4>1, <4>2
    <3> QED
      BY <2>6, <3>1, <3>2 DEF FilesFrom
  <2>9. CachedOnce(d)
    <3>1. ASSUME NEW i \in 1 .. Len(c) - 1, NEW j \in 1 .. Len(c) - 1, d[i].tbl = d[j].tbl, d[i].id = d[j].id
          PROVE  i = j
      <4>1. i + 1 \in DOMAIN c /\ j + 1 \in DOMAIN c /\ d[i] = c[i + 1] /\ d[j] = c[j + 1]
        BY <1>1, <2>2
      <4>2. i + 1 = j + 1
        BY <1>1, <3>1, <4>1 DEF CachedOnce
      <4> QED
        BY <4>2
    <3> QED
      BY <2>2, <3>1 DEF CachedOnce
  <2>10. ASSUME NEW i \in DOMAIN d
         PROVE  EntryOK(d[i], g, t, P)
    <3>1. i \in 1 .. Len(c) - 1 /\ i + 1 \in DOMAIN c /\ 1 \in DOMAIN c /\ i + 1 # 1
      BY <1>1, <2>2
    <3>2. d[i] = c[i + 1] /\ d[i] \in Pages!Entry /\ EntryOK(d[i], m.file, t, P)
      BY <1>1, <2>2, <3>1 DEF Midway, CacheOK
    <3>3. ~(d[i].tbl = h.tbl /\ d[i].id = h.id)
      BY <1>1, <2>2, <3>1, <3>2 DEF CachedOnce
    <3>4. d[i].tbl \in Paged /\ d[i].id \in Nat
      BY <3>2 DEF Pages!Entry
    <3>5. d[i].id < Len(m.file[d[i].tbl]) /\ d[i].id + 1 \in 1 .. Len(m.file[d[i].tbl])
      BY <2>5, <3>2, <3>4 DEF EntryOK
    <3>6. g[d[i].tbl][d[i].id + 1] = m.file[d[i].tbl][d[i].id + 1] /\ Len(g[d[i].tbl]) = Len(m.file[d[i].tbl])
      BY SMTT(40), <2>4, <2>6, <3>3, <3>4, <3>5
    <3> QED
      BY <3>2, <3>6 DEF EntryOK
  <2>11. Len(d) < MaxPages /\ Len(d) <= MaxPages
    BY <1>1, <2>1, <2>2
  <2>12. r \in Memories
    <3>1. m.fails \in Pages!Fault
      BY <1>1 DEF Memories
    <3> QED
      BY <1>1, <2>2, <2>3, <2>6, <3>1 DEF Memories
  <2>13. r.file = g /\ r.cache = d /\ r.up = m.up /\ r.fails = "none"
    BY <2>3 DEF Midway
  <2> QED
    BY <1>1, <2>8, <2>9, <2>10, <2>11, <2>12, <2>13 DEF Midway, CacheOK
<1> QED
  BY <1>2, <1>3

\* A statement that writes nothing leaves every page of the cache clean.
LEMMA ReadingIsClean ==
  ASSUME NEW m, NEW f \in [Paged -> Seq(Pages!Page)], NEW t \in Paged, Midway(m, f, t, {})
  PROVE  /\ m.file = f /\ \A i \in DOMAIN m.cache : ~m.cache[i].dirty
         /\ \A u \in Paged : Midway(m, f, u, {})
<1>1. m \in Memories /\ m.file \in [Paged -> Seq(Pages!Page)]
  BY DEF Midway, Memories
<1>2. /\ \A i \in DOMAIN m.cache : EntryOK(m.cache[i], m.file, t, {})
      /\ FilesFrom(m.file, f, t, {})
  BY DEF Midway, CacheOK
<1>3. \A i \in DOMAIN m.cache : ~m.cache[i].dirty
  BY <1>2 DEF EntryOK
<1>4. m.file[t] = f[t]
  <2>1. /\ m.file[t] \in Seq(Pages!Page) /\ f[t] \in Seq(Pages!Page) /\ Len(m.file[t]) = Len(f[t])
        /\ \A i \in 1 .. Len(f[t]) : m.file[t][i] = f[t][i]
    BY <1>1, <1>2 DEF FilesFrom
  <2> QED
    BY <2>1, SeqEqual
<1>5. \A u \in Paged : m.file[u] = f[u]
  BY <1>2, <1>4 DEF FilesFrom
<1>6. m.file = f
  BY <1>1, <1>5
<1>7. ASSUME NEW u \in Paged
      PROVE  Midway(m, f, u, {})
  <2>1. FilesFrom(m.file, f, u, {})
    BY <1>6 DEF FilesFrom
  <2>2. CacheOK(m.cache, m.file, u, {})
    BY <1>3 DEF Midway, CacheOK, EntryOK
  <2> QED
    BY <2>1, <2>2 DEF Midway
<1> QED
  BY <1>3, <1>6, <1>7

\* What the cache answers is what is in the file, when no page is dirty.
LEMMA CleanView ==
  ASSUME NEW m, NEW f \in [Paged -> Seq(Pages!Page)], NEW t \in Paged, Midway(m, f, t, {}),
         NEW u \in Paged, NEW id \in Nat
  PROVE  Pages!View(m, u, id) = f[u][id + 1]
<1>1. m.file = f /\ \A i \in DOMAIN m.cache : ~m.cache[i].dirty
  BY ReadingIsClean
<1>2. CASE Pages!InCache(m, u, id)
  <2> DEFINE k == CHOOSE i \in DOMAIN m.cache : Pages!Is(m.cache[i], u, id)
  <2>1. k \in DOMAIN m.cache /\ Pages!Is(m.cache[k], u, id)
    BY <1>2 DEF Pages!InCache
  <2>2. EntryOK(m.cache[k], m.file, t, {})
    BY <2>1 DEF Midway, CacheOK
  <2>3. Pages!View(m, u, id) = m.cache[k].page
    BY <1>2 DEF Pages!View, Pages!Cached
  <2> HIDE DEF k
  <2>4. m.cache[k].page = f[u][id + 1]
    BY <1>1, <2>1, <2>2 DEF EntryOK, Pages!Is
  <2> QED
    BY <2>3, <2>4
<1>3. CASE ~Pages!InCache(m, u, id)
  <2>1. m.fails # "read"
    BY DEF Midway
  <2> QED
    BY <1>1, <1>3, <2>1 DEF Pages!View
<1> QED
  BY <1>2, <1>3

\* The process dies and the files stay.
LEMMA DiedKeeps ==
  ASSUME NEW m, NEW f, NEW t \in Paged, NEW P, Midway(m, f, t, P), NEW r, r = Pages!Died(m)
  PROVE  Midway(r, f, t, P) /\ r.file = m.file /\ r.cache = <<>> /\ r.up = FALSE
<1>1. m \in Memories /\ m.fails = "none" /\ m.file \in [Paged -> Seq(Pages!Page)] /\ m.fails \in Pages!Fault
  BY DEF Midway, Memories
<1>2. r = [file |-> m.file, cache |-> <<>>, up |-> FALSE, fails |-> m.fails]
  BY <1>1 DEF Pages!Died, Memories
<1>3. r \in Memories
  BY <1>1, <1>2 DEF Memories
<1>4. r.file = m.file /\ r.cache = <<>> /\ r.up = FALSE /\ r.fails = "none"
  BY <1>1, <1>2
<1>5. CacheOK(r.cache, r.file, t, P)
  <2>1. Len(<<>>) = 0 /\ DOMAIN <<>> = {} /\ 0 <= MaxPages
    BY PagesAssumption
  <2> QED
    BY <1>4, <2>1 DEF CacheOK, CachedOnce
<1>6. P \in SUBSET Pages!Page /\ FilesFrom(r.file, f, t, P)
  BY <1>4 DEF Midway
<1> QED
  BY <1>3, <1>4, <1>5, <1>6 DEF Midway

\* readPage changes no file, whatever it evicts and whatever comes of its reference.
LEMMA ReadPageKeeps ==
  ASSUME NEW m, NEW f \in [Paged -> Seq(Pages!Page)], NEW t \in Paged, Midway(m, f, t, {}),
         NEW id \in Nat, id < Len(f[t]), NEW r \in Pages!ReadPage(m, t, id)
  PROVE  Midway(r, f, t, {})
<1>1. m.file = f /\ m \in Memories /\ \A i \in DOMAIN m.cache : ~m.cache[i].dirty
  BY ReadingIsClean DEF Midway
<1>2. f[t] \in Seq(Pages!Page) /\ Len(f[t]) \in Nat /\ f[t][id + 1] \in Pages!Page
  <2>1. f[t] \in Seq(Pages!Page) /\ Len(f[t]) \in Nat
    OBVIOUS
  <2>2. id + 1 \in 1 .. Len(f[t])
    BY <2>1
  <2> QED
    BY <2>1, <2>2
<1>3. Pages!View(m, t, id) = f[t][id + 1]
  BY CleanView
<1> DEFINE e == EntryOf(t, id, f[t][id + 1], FALSE)
<1>4. EntryOK(e, f, t, {})
  BY DEF EntryOK, EntryOf
<1>5. CASE Pages!InCache(m, t, id)
  <2> DEFINE k == CHOOSE i \in DOMAIN m.cache : Pages!Is(m.cache[i], t, id)
  <2>1. k \in DOMAIN m.cache
    BY <1>5 DEF Pages!InCache
  <2>2. Pages!Cached(m, t, id) = m.cache[k] /\ m.cache[k].page = f[t][id + 1]
    BY <1>3, <1>5 DEF Pages!View, Pages!Cached
  <2> HIDE DEF k
  <2>3. m.cache[k].dirty = FALSE
    <3>1. m.cache[k].dirty \in BOOLEAN
      <4>1. m.cache \in Seq(Pages!Entry)
        BY <1>1 DEF Memories
      <4>2. m.cache[k] \in Pages!Entry
        BY <2>1, <4>1
      <4> QED
        BY <4>2 DEF Pages!Entry
    <3> QED
      BY <1>1, <2>1, <3>1
  <2>4. r = Pages!Put(m, t, id, f[t][id + 1], FALSE)
    BY <1>5, <2>2, <2>3 DEF Pages!ReadPage
  <2> HIDE DEF e
  <2> QED
    BY <1>1, <1>2, <1>4, <1>5, <2>4, PutKeeps DEF e
<1>6. CASE ~Pages!InCache(m, t, id)
  <2> DEFINE room == Pages!MakeRoom(m)
             read == Pages!Put(room, t, id, f[t][id + 1], FALSE)
  <2>1. r \in {read, room, Pages!Died(room)}
    BY <1>3, <1>6 DEF Pages!ReadPage
  <2>2. Midway(room, f, t, {}) /\ Len(room.cache) < MaxPages
    BY MakeRoomKeeps
  <2> HIDE DEF room
  <2>3. room.file = f
    BY <2>2, ReadingIsClean
  <2> HIDE DEF e
  <2>4. Midway(read, f, t, {})
    <3>1. EntryOK(EntryOf(t, id, f[t][id + 1], FALSE), room.file, t, {})
      BY <1>4, <2>3 DEF e
    <3>2. FALSE \in BOOLEAN /\ (Len(room.cache) < MaxPages \/ Pages!InCache(room, t, id))
      BY <2>2
    <3>3. read = Pages!Put(room, t, id, f[t][id + 1], FALSE)
      OBVIOUS
    <3> HIDE DEF read
    <3> QED
      BY <1>2, <2>2, <3>1, <3>2, <3>3, PutKeeps
  <2>5. Midway(Pages!Died(room), f, t, {})
    BY <2>2, DiedKeeps
  <2> QED
    BY <2>1, <2>2, <2>4, <2>5
<1> QED
  BY <1>5, <1>6

\* More may be written than is.
LEMMA WritesMore ==
  ASSUME NEW m, NEW f, NEW t \in Paged, NEW P, Midway(m, f, t, P), NEW Q, P \subseteq Q, Q \in SUBSET Pages!Page
  PROVE  Midway(m, f, t, Q)
<1>1. CacheOK(m.cache, m.file, t, Q)
  BY DEF Midway, CacheOK, EntryOK
<1>2. FilesFrom(m.file, f, t, Q)
  BY DEF Midway, FilesFrom
<1> QED
  BY <1>1, <1>2 DEF Midway

\* The page pg of t was written last.
JustWritten(r, t, pg) ==
  Len(r.cache) \in Nat \ {0} /\ r.cache[Len(r.cache)] = EntryOf(t, pg.id, pg, TRUE)

\* writePage: the page is in the cache, as the one used last.
LEMMA WritePageKeeps ==
  ASSUME NEW m, NEW f, NEW t \in Paged, NEW P, Midway(m, f, t, P),
         NEW pg \in P, pg.id < Len(f[t])
  PROVE  /\ Midway(Pages!WritePage(m, t, pg), f, t, P)
         /\ JustWritten(Pages!WritePage(m, t, pg), t, pg)
<1> DEFINE r == Pages!WritePage(m, t, pg)
           room == Pages!MakeRoom(m)
<1>1. Midway(room, f, t, P) /\ Len(room.cache) < MaxPages /\ room.up = m.up
  BY MakeRoomKeeps
<1>2. r = Pages!Put(room, t, pg.id, pg, TRUE)
  BY DEF Pages!WritePage
<1>3. pg \in Pages!Page /\ pg.id \in Nat
  BY DEF Midway, Pages!Page
<1> HIDE DEF room, r
<1>4. Len(room.file[t]) = Len(f[t])
  BY <1>1 DEF Midway, FilesFrom
<1>5. EntryOK(EntryOf(t, pg.id, pg, TRUE), room.file, t, P)
  BY <1>4 DEF EntryOK, EntryOf
<1>6. TRUE \in BOOLEAN /\ (Len(room.cache) < MaxPages \/ Pages!InCache(room, t, pg.id))
  BY <1>1
<1>7. Midway(r, f, t, P) /\ PutInto(r, room, EntryOf(t, pg.id, pg, TRUE))
  BY <1>1, <1>2, <1>3, <1>5, <1>6, PutKeeps
<1> QED
  BY <1>7 DEF PutInto, JustWritten, r

\* A page of zeros, as the file grows by one.
ZeroPage == [id |-> 0, rows |-> <<>>]
\* The files when that of t has grown by a page.
GrownFiles(f, t) == [f EXCEPT ![t] = Append(@, ZeroPage)]

\* Nothing is in the cache.
LEMMA EmptyCache ==
  ASSUME NEW h, NEW t, NEW P
  PROVE  CacheOK(<<>>, h, t, P)
<1>1. Len(<<>>) = 0 /\ DOMAIN <<>> = {} /\ 0 <= MaxPages
  BY PagesAssumption
<1> QED
  BY <1>1 DEF CacheOK, CachedOnce

\* allocatePage: the file has a page of zeros, and the page is in the cache.
LEMMA AllocatePageKeeps ==
  ASSUME NEW m, NEW f \in [Paged -> Seq(Pages!Page)], NEW t \in Paged, Midway(m, f, t, {}), m.up,
         NEW P \in SUBSET Pages!Page, [id |-> Len(f[t]), rows |-> <<>>] \in P,
         NEW x \in Pages!AllocatePage(m, t)
  PROVE  Midway(x, GrownFiles(f, t), t, P) /\ (x.up \/ x.cache = <<>>)
<1> DEFINE n == Len(f[t])
           g == GrownFiles(f, t)
           y == Pages!Grown(m, t)
           pg == [id |-> n, rows |-> <<>>]
<1>1. m.file = f /\ m \in Memories /\ \A i \in DOMAIN m.cache : ~m.cache[i].dirty
  BY ReadingIsClean DEF Midway
<1>2. f[t] \in Seq(Pages!Page) /\ n \in Nat /\ ZeroPage \in Pages!Page /\ pg \in Pages!Page
  BY DEF ZeroPage, Pages!Page
<1>3. y = [file |-> g, cache |-> m.cache, up |-> m.up, fails |-> m.fails]
  <2>1. m = [file |-> f, cache |-> m.cache, up |-> m.up, fails |-> m.fails]
    BY <1>1 DEF Memories
  <2>2. y = [m EXCEPT !.file = [m.file EXCEPT ![t] = Append(m.file[t], ZeroPage)]]
    <3>1. m.fails # "grow" /\ Pages!NewPage(0) = ZeroPage
      BY DEF Midway, ZeroPage, Pages!NewPage
    <3> QED
      BY <3>1 DEF Pages!Grown
  <2>3. y = [m EXCEPT !.file = g]
    BY <1>1, <2>2 DEF GrownFiles
  <2> HIDE DEF y, g
  <2> QED
    BY <2>1, <2>3
<1>4. /\ g \in [Paged -> Seq(Pages!Page)] /\ \A u \in Paged \ {t} : g[u] = f[u]
      /\ g[t] = Append(f[t], ZeroPage)
  BY <1>2 DEF GrownFiles
<1>5. Len(g[t]) = n + 1 /\ \A k \in 1 .. n : g[t][k] = f[t][k]
  BY <1>2, <1>4
<1> HIDE DEF y, g, n
<1>6. y \in Memories /\ y.file = g /\ y.cache = m.cache /\ y.up = m.up /\ y.fails = "none"
  <2>1. m.fails = "none" /\ m.fails \in Pages!Fault /\ m.cache \in Seq(Pages!Entry) /\ m.up \in BOOLEAN
    BY <1>1 DEF Midway, Memories
  <2> QED
    BY <1>3, <1>4, <2>1 DEF Memories
<1>7. CacheOK(y.cache, y.file, t, P)
  <2>1. ASSUME NEW i \in DOMAIN m.cache
        PROVE  EntryOK(m.cache[i], g, t, P)
    <3>1. m.cache \in Seq(Pages!Entry)
      BY <1>1 DEF Memories
    <3> DEFINE e == m.cache[i]
    <3>2. e \in Pages!Entry
      BY <3>1
    <3>3. EntryOK(e, f, t, {}) /\ ~e.dirty
      BY <1>1 DEF Midway, CacheOK
    <3> HIDE DEF e
    <3>4. e.tbl \in Paged /\ e.id \in Nat
      BY <3>2 DEF Pages!Entry
    <3>5. e.id < Len(f[e.tbl]) /\ e.page = f[e.tbl][e.id + 1]
      BY <3>3 DEF EntryOK
    <3>6. e.id < Len(g[e.tbl]) /\ e.page = g[e.tbl][e.id + 1]
      <4>1. CASE e.tbl = t
        <5>1. e.id + 1 \in 1 .. n /\ e.id < n + 1
          BY <1>2, <3>4, <3>5, <4>1 DEF n
        <5> QED
          BY <1>5, <3>5, <4>1, <5>1
      <4>2. CASE e.tbl # t
        BY <1>4, <3>4, <3>5, <4>2
      <4> QED
        BY <4>1, <4>2
    <3> QED
      BY <3>3, <3>6 DEF EntryOK, e
  <2> QED
    BY <1>6, <2>1 DEF Midway, CacheOK
<1>8. Midway(y, g, t, P)
  BY <1>6, <1>7 DEF Midway, FilesFrom
<1>9. x = Pages!Died(y) \/ x = Pages!Put(Pages!MakeRoom(y), t, n, pg, TRUE)
  <2>1. Pages!PageCount(m, t) = n
    BY <1>1 DEF Pages!PageCount, Midway, n
  <2>2. Pages!NewPage(n) = pg
    BY DEF Pages!NewPage
  <2> QED
    BY <2>1, <2>2 DEF Pages!AllocatePage, y
<1>10. CASE x = Pages!Died(y)
  <2>1. Midway(x, g, t, P) /\ x.cache = <<>> /\ x.up = FALSE
    BY <1>8, <1>10, DiedKeeps
  <2> QED
    BY <2>1 DEF g
<1>11. CASE x = Pages!Put(Pages!MakeRoom(y), t, n, pg, TRUE)
  <2> DEFINE room == Pages!MakeRoom(y)
  <2>1. Midway(room, g, t, P) /\ Len(room.cache) < MaxPages /\ room.up = m.up
    BY <1>6, <1>8, MakeRoomKeeps
  <2> HIDE DEF room
  <2>2. Len(room.file[t]) = n + 1
    BY <1>5, <2>1 DEF Midway, FilesFrom
  <2>3. EntryOK(EntryOf(t, n, pg, TRUE), room.file, t, P)
    BY <1>2, <2>2 DEF EntryOK, EntryOf, n
  <2>4. TRUE \in BOOLEAN /\ (Len(room.cache) < MaxPages \/ Pages!InCache(room, t, n))
    BY <2>1
  <2>5. n \in Nat /\ pg \in Pages!Page
    BY <1>2 DEF n
  <2> HIDE DEF pg
  <2>6. x = Pages!Put(room, t, n, pg, TRUE)
    BY <1>11 DEF room
  <2>7. Midway(x, g, t, P) /\ PutInto(x, room, EntryOf(t, n, pg, TRUE))
    BY <2>1, <2>3, <2>4, <2>5, <2>6, PutKeeps
  <2>8. x.up
    BY <2>1, <2>7 DEF PutInto
  <2> QED
    BY <2>7, <2>8 DEF g
<1> QED
  BY <1>9, <1>10, <1>11

\* No page of the cache is dirty.
AllClean(c) == \A i \in DOMAIN c : ~c[i].dirty

\* What a dirty page is read as.
LEMMA DirtyView ==
  ASSUME NEW m, NEW f, NEW t \in Paged, NEW P, Midway(m, f, t, P),
         NEW i \in DOMAIN m.cache, m.cache[i].tbl = t
  PROVE  Pages!View(m, t, m.cache[i].id) = m.cache[i].page
<1> DEFINE id == m.cache[i].id
           k == CHOOSE j \in DOMAIN m.cache : Pages!Is(m.cache[j], t, id)
<1>1. Pages!Is(m.cache[i], t, id)
  BY DEF Pages!Is
<1>2. Pages!InCache(m, t, id)
  BY <1>1 DEF Pages!InCache
<1>3. k \in DOMAIN m.cache /\ Pages!Is(m.cache[k], t, id)
  BY <1>1
<1>4. Pages!View(m, t, id) = m.cache[k].page
  BY <1>2 DEF Pages!View, Pages!Cached
<1> HIDE DEF k
<1>5. k = i
  BY <1>3 DEF Midway, CacheOK, CachedOnce, Pages!Is
<1> QED
  BY <1>4, <1>5

\* The pages of t when the dirty pages at the places es of the cache are written.
Flushed(m, t, es) ==
  [k \in DOMAIN m.file[t] |->
     IF \E i \in es : m.cache[i].id + 1 = k THEN Pages!View(m, t, k - 1) ELSE m.file[t][k]]

\* Where the dirty pages of t are.
DirtyOf(m, t) == {i \in DOMAIN m.cache : m.cache[i].tbl = t /\ m.cache[i].dirty}

\* The files h are those of m with the pages at es written.
FlushedTo(h, m, f, t, P, es) ==
  /\ h \in [Paged -> Seq(Pages!Page)] /\ FilesFrom(h, f, t, P)
  /\ \A u \in Paged \ {t} : h[u] = m.file[u]
  /\ Len(h[t]) = Len(m.file[t])
  /\ \A i \in es : h[t][m.cache[i].id + 1] = m.cache[i].page
  /\ \A k \in 1 .. Len(m.file[t]) : (\A i \in es : m.cache[i].id + 1 # k) => h[t][k] = m.file[t][k]

\* Each of them goes to where its number says.
LEMMA FlushedPages ==
  ASSUME NEW m, NEW f \in [Paged -> Seq(Pages!Page)], NEW t \in Paged, NEW P, Midway(m, f, t, P),
         NEW es \in SUBSET DirtyOf(m, t)
  PROVE  FlushedTo([m.file EXCEPT ![t] = Flushed(m, t, es)], m, f, t, P, es)
<1> DEFINE h == [m.file EXCEPT ![t] = Flushed(m, t, es)]
           s == Flushed(m, t, es)
           n == Len(m.file[t])
<1>1. /\ m.file \in [Paged -> Seq(Pages!Page)] /\ m.cache \in Seq(Pages!Entry) /\ P \in SUBSET Pages!Page
      /\ m.file[t] \in Seq(Pages!Page) /\ n \in Nat /\ DOMAIN m.file[t] = 1 .. n
  BY DEF Midway, Memories
<1>2. ASSUME NEW i \in es
      PROVE  /\ m.cache[i].id \in Nat /\ m.cache[i].id + 1 \in 1 .. n
             /\ m.cache[i].page \in P /\ m.cache[i].page.id = m.cache[i].id
             /\ Pages!View(m, t, m.cache[i].id) = m.cache[i].page
  <2>1. i \in DOMAIN m.cache /\ m.cache[i].tbl = t /\ m.cache[i].dirty
    BY DEF DirtyOf
  <2>2. m.cache[i] \in Pages!Entry
    BY <1>1, <2>1
  <2>3. m.cache[i].id \in Nat
    BY <2>2 DEF Pages!Entry
  <2>4. EntryOK(m.cache[i], m.file, t, P)
    BY <2>1 DEF Midway, CacheOK
  <2>5. m.cache[i].id < n /\ m.cache[i].page \in P /\ m.cache[i].page.id = m.cache[i].id
    BY <2>1, <2>4 DEF EntryOK
  <2>6. Pages!View(m, t, m.cache[i].id) = m.cache[i].page
    BY <2>1, DirtyView
  <2> QED
    BY <1>1, <2>3, <2>5, <2>6
<1>3. ASSUME NEW k \in 1 .. n
      PROVE  /\ (\A i \in es : m.cache[i].id + 1 # k) => s[k] = m.file[t][k]
             /\ \A i \in es : m.cache[i].id + 1 = k => s[k] = m.cache[i].page
  <2>1. s[k] = IF \E i \in es : m.cache[i].id + 1 = k THEN Pages!View(m, t, k - 1) ELSE m.file[t][k]
    BY <1>1 DEF Flushed
  <2> HIDE DEF s
  <2>2. ASSUME NEW i \in es, m.cache[i].id + 1 = k
        PROVE  s[k] = m.cache[i].page
    <3>1. k - 1 = m.cache[i].id
      BY <1>2, <2>2
    <3> QED
      BY <1>2, <2>1, <2>2, <3>1
  <2> QED
    BY <2>1, <2>2
<1>4. s \in Seq(Pages!Page) /\ Len(s) = n
  <2>1. s = [k \in 1 .. n |-> s[k]]
    BY <1>1 DEF Flushed
  <2> HIDE DEF s
  <2>2. \A k \in 1 .. n : m.file[t][k] \in Pages!Page
    BY <1>1
  <2>3. ASSUME NEW k \in 1 .. n
        PROVE  s[k] \in Pages!Page
    <3>1. CASE \E i \in es : m.cache[i].id + 1 = k
      BY <1>1, <1>2, <1>3, <3>1
    <3>2. CASE \A i \in es : m.cache[i].id + 1 # k
      BY <1>3, <2>2, <3>2
    <3> QED
      BY <3>1, <3>2
  <2> HIDE DEF n
  <2>4. n \in Nat
    BY <1>1
  <2> QED
    BY Zenon, <2>1, <2>3, <2>4, FunctionIsSeq
<1> HIDE DEF s
<1>5. h = [m.file EXCEPT ![t] = s]
  BY DEF s
<1> HIDE DEF h
<1>6. h \in [Paged -> Seq(Pages!Page)] /\ h[t] = s /\ \A u \in Paged \ {t} : h[u] = m.file[u]
  BY <1>1, <1>4, <1>5
<1>7. FilesFrom(m.file, f, t, P)
  BY DEF Midway
<1>8. FilesFrom(h, f, t, P)
  <2>1. Len(f[t]) = n /\ \A u \in Paged \ {t} : h[u] = f[u]
    BY <1>6, <1>7 DEF FilesFrom
  <2>2. ASSUME NEW k \in 1 .. n, s[k] # f[t][k]
        PROVE  s[k] \in P /\ s[k].id = k - 1
    <3>1. CASE \E i \in es : m.cache[i].id + 1 = k
      <4>1. PICK i \in es : m.cache[i].id + 1 = k
        BY <3>1
      <4>2. s[k] = m.cache[i].page /\ m.cache[i].id = k - 1
        BY <1>2, <1>3, <4>1
      <4> QED
        BY <1>2, <4>2
    <3>2. CASE \A i \in es : m.cache[i].id + 1 # k
      BY <1>3, <1>7, <2>1, <2>2, <3>2 DEF FilesFrom
    <3> QED
      BY <3>1, <3>2
  <2> QED
    BY <1>4, <1>6, <2>1, <2>2 DEF FilesFrom
<1> QED
  <2>1. FlushedTo(h, m, f, t, P, es)
    BY <1>2, <1>3, <1>4, <1>6, <1>8 DEF FlushedTo
  <2> QED
    BY <2>1 DEF h

\* Nothing is dirty, and unless the process died the page pg is in the file.
Settled(o, t, pg) ==
  /\ AllClean(o.cache)
  /\ o.up => pg.id + 1 \in DOMAIN o.file[t] /\ o.file[t][pg.id + 1] = pg

\* flushDirtyPages: the process dies and some of the pages are written, or all are and
\* none is dirty any more; the page that was put into the cache last is among them.
LEMMA FlushKeeps ==
  ASSUME NEW m, NEW f \in [Paged -> Seq(Pages!Page)], NEW t \in Paged, NEW P, Midway(m, f, t, P),
         NEW pg, JustWritten(m, t, pg), NEW o \in Pages!FlushDirtyPages(m, t)
  PROVE  Midway(o, f, t, P) /\ Settled(o, t, pg)
<1> USE DEF Settled, JustWritten
<1> DEFINE D == DirtyOf(m, t)
           With(es) == [m EXCEPT !.file[t] = [k \in DOMAIN @ |->
                          IF \E i \in es : m.cache[i].id + 1 = k THEN Pages!View(m, t, k - 1) ELSE @[k]]]
           H(es) == [m.file EXCEPT ![t] = Flushed(m, t, es)]
<1>1. /\ m \in Memories /\ m.file \in [Paged -> Seq(Pages!Page)] /\ P \in SUBSET Pages!Page
      /\ m.fails = "none" /\ m.fails \in Pages!Fault /\ m.up \in BOOLEAN
  BY DEF Midway, Memories
<1>2. ASSUME NEW es
      PROVE  With(es) = [file |-> H(es), cache |-> m.cache, up |-> m.up, fails |-> m.fails]
  <2>1. m = [file |-> m.file, cache |-> m.cache, up |-> m.up, fails |-> m.fails]
    BY <1>1 DEF Memories
  <2>2. With(es) = [m EXCEPT !.file = H(es)]
    BY DEF Flushed
  <2> HIDE DEF With, H
  <2> QED
    BY <2>1, <2>2
<1> DEFINE c == [i \in DOMAIN m.cache |->
                   IF m.cache[i].tbl = t THEN [m.cache[i] EXCEPT !.dirty = FALSE] ELSE m.cache[i]]
<1>3. (\E es \in SUBSET D : o = Pages!Died(With(es))) \/ o = [With(D) EXCEPT !.cache = c]
  <2>1. With(D).cache = m.cache
    BY <1>2
  <2>2. m.fails # "write"
    BY DEF Midway
  <2> QED
    BY <2>1, <2>2 DEF Pages!FlushDirtyPages, DirtyOf
<1> HIDE DEF With
<1>4. CASE \E es \in SUBSET D : o = Pages!Died(With(es))
  <2>1. PICK es \in SUBSET D : o = Pages!Died(With(es))
    BY <1>4
  <2> DEFINE h == H(es)
  <2>3. With(es) = [file |-> h, cache |-> m.cache, up |-> m.up, fails |-> m.fails]
    BY <1>2
  <2>7. FlushedTo(h, m, f, t, P, es)
    BY FlushedPages
  <2> HIDE DEF h, H, D
  <2>2. h \in [Paged -> Seq(Pages!Page)] /\ FilesFrom(h, f, t, P)
    BY <2>7 DEF FlushedTo
  <2>4. o = [file |-> h, cache |-> <<>>, up |-> FALSE, fails |-> "none"]
    <3> DEFINE x == With(es)
    <3>1. x = [file |-> h, cache |-> m.cache, up |-> m.up, fails |-> m.fails] /\ o = Pages!Died(x)
      BY <2>1, <2>3
    <3> HIDE DEF x
    <3>2. o = [x EXCEPT !.cache = <<>>, !.up = FALSE]
      BY <3>1 DEF Pages!Died
    <3> QED
      BY <1>1, <3>1, <3>2
  <2>5. o \in Memories /\ o.file = h /\ o.cache = <<>> /\ o.up = FALSE /\ o.fails = "none"
    BY <1>1, <2>2, <2>4 DEF Memories
  <2>6. AllClean(<<>>)
    BY DEF AllClean
  <2> QED
    BY <1>1, <2>2, <2>5, <2>6, EmptyCache DEF Midway
<1>5. CASE o = [With(D) EXCEPT !.cache = c]
  <2> DEFINE h == H(D)
  <2>2. With(D) = [file |-> h, cache |-> m.cache, up |-> m.up, fails |-> m.fails]
    BY <1>2
  <2>14. FlushedTo(h, m, f, t, P, D)
    BY FlushedPages
  <2> HIDE DEF h, H, D, c
  <2>1. /\ h \in [Paged -> Seq(Pages!Page)] /\ FilesFrom(h, f, t, P)
        /\ \A u \in Paged \ {t} : h[u] = m.file[u]
        /\ Len(h[t]) = Len(m.file[t])
        /\ \A i \in D : h[t][m.cache[i].id + 1] = m.cache[i].page
        /\ \A k \in 1 .. Len(m.file[t]) : (\A i \in D : m.cache[i].id + 1 # k) => h[t][k] = m.file[t][k]
    BY <2>14 DEF FlushedTo
  <2>3. o = [file |-> h, cache |-> c, up |-> m.up, fails |-> m.fails]
    <3> DEFINE x == With(D)
    <3>1. x = [file |-> h, cache |-> m.cache, up |-> m.up, fails |-> m.fails] /\ o = [x EXCEPT !.cache = c]
      BY <1>5, <2>2
    <3> HIDE DEF x
    <3> QED
      BY <3>1
  <2>4. m.cache \in Seq(Pages!Entry) /\ Len(m.cache) \in Nat /\ DOMAIN m.cache = 1 .. Len(m.cache)
    BY <1>1 DEF Memories
  <2>5. ASSUME NEW i \in DOMAIN m.cache
        PROVE  /\ c[i] \in Pages!Entry /\ ~c[i].dirty /\ c[i].tbl = m.cache[i].tbl /\ c[i].id = m.cache[i].id
               /\ c[i].page = m.cache[i].page
    <3>1. m.cache[i] \in Pages!Entry
      BY <2>4
    <3>2. c[i] = IF m.cache[i].tbl = t THEN [m.cache[i] EXCEPT !.dirty = FALSE] ELSE m.cache[i]
      BY DEF c
    <3>3. CASE m.cache[i].tbl = t
      <4>1. c[i] = [tbl |-> m.cache[i].tbl, id |-> m.cache[i].id, page |-> m.cache[i].page, dirty |-> FALSE]
        BY <3>1, <3>2, <3>3 DEF Pages!Entry
      <4>2. /\ m.cache[i].tbl \in Paged /\ m.cache[i].id \in Nat /\ m.cache[i].page \in Pages!Page
        BY <3>1 DEF Pages!Entry
      <4>3. c[i] \in Pages!Entry
        BY <4>1, <4>2 DEF Pages!Entry
      <4> QED
        BY <4>1, <4>3
    <3>4. CASE m.cache[i].tbl # t
      <4>1. EntryOK(m.cache[i], m.file, t, P)
        BY DEF Midway, CacheOK
      <4>2. ~m.cache[i].dirty
        BY <3>4, <4>1 DEF EntryOK
      <4> QED
        BY <3>1, <3>2, <3>4, <4>2
    <3> QED
      BY <3>3, <3>4
  <2>6. c \in Seq(Pages!Entry) /\ Len(c) = Len(m.cache) /\ DOMAIN c = DOMAIN m.cache
    <3>1. c = [i \in 1 .. Len(m.cache) |-> c[i]] /\ \A i \in 1 .. Len(m.cache) : c[i] \in Pages!Entry
      <4>1. c = [i \in DOMAIN m.cache |-> c[i]]
        BY DEF c
      <4> QED
        BY <2>4, <2>5, <4>1
    <3> QED
      BY <2>4, <3>1, FunctionIsSeq
  <2>7. CachedOnce(c)
    BY <2>5, <2>6 DEF CachedOnce, Midway, CacheOK
  <2>8. ASSUME NEW i \in DOMAIN m.cache
        PROVE  EntryOK(c[i], h, t, P)
    <3> DEFINE e == m.cache[i]
    <3>1. EntryOK(e, m.file, t, P)
      BY DEF Midway, CacheOK
    <3>2. e \in Pages!Entry
      BY <2>4
    <3>3. e.tbl \in Paged /\ e.id \in Nat /\ Len(m.file[e.tbl]) \in Nat
      <4>1. e.tbl \in Paged /\ e.id \in Nat
        BY <3>2 DEF Pages!Entry
      <4>2. m.file[e.tbl] \in Seq(Pages!Page)
        BY <1>1, <4>1
      <4> QED
        BY <4>1, <4>2
    <3>4. e.id < Len(h[e.tbl]) /\ e.page = h[e.tbl][e.id + 1]
      <4>1. CASE e.tbl # t
        BY <2>1, <3>1, <3>3, <4>1 DEF EntryOK
      <4>2. CASE e.tbl = t /\ e.dirty
        <5>1. i \in D
          BY <4>2 DEF D, DirtyOf
        <5> QED
          BY <2>1, <3>1, <4>2, <5>1 DEF EntryOK
      <4>3. CASE e.tbl = t /\ ~e.dirty
        <5>1. e.id < Len(m.file[t]) /\ e.page = m.file[t][e.id + 1]
          BY <3>1, <4>3 DEF EntryOK
        <5>2. e.id + 1 \in 1 .. Len(m.file[t])
          BY <3>3, <4>3, <5>1
        <5>3. ASSUME NEW j \in D
              PROVE  m.cache[j].id + 1 # e.id + 1
          <6>1. j \in DOMAIN m.cache /\ m.cache[j].tbl = t /\ m.cache[j].dirty
            BY DEF D, DirtyOf
          <6>2. m.cache[j].id \in Nat
            <7>1. m.cache[j] \in Pages!Entry
              BY <2>4, <6>1
            <7> QED
              BY <7>1 DEF Pages!Entry
          <6>3. m.cache[j].id # e.id
            BY <4>3, <6>1 DEF Midway, CacheOK, CachedOnce
          <6> QED
            BY SMTT(40), <3>3, <6>2, <6>3
        <5> QED
          BY <2>1, <4>3, <5>1, <5>2, <5>3
      <4> QED
        BY <4>1, <4>2, <4>3
    <3> QED
      BY <2>5, <3>4 DEF EntryOK
  <2>9. CacheOK(c, h, t, P)
    BY <2>6, <2>7, <2>8 DEF Midway, CacheOK
  <2>10. o \in Memories /\ o.file = h /\ o.cache = c /\ o.fails = "none"
    BY <1>1, <2>1, <2>3, <2>6 DEF Memories
  <2>11. Midway(o, f, t, P)
    BY <1>1, <2>1, <2>9, <2>10 DEF Midway
  <2>12. AllClean(o.cache)
    BY <2>5, <2>6, <2>10 DEF AllClean
  <2>13. pg.id + 1 \in DOMAIN h[t] /\ h[t][pg.id + 1] = pg
    <3> DEFINE k == Len(m.cache)
    <3>1. k \in DOMAIN m.cache
      BY <2>4
    <3>2. m.cache[k].tbl = t /\ m.cache[k].dirty /\ m.cache[k].id = pg.id /\ m.cache[k].page = pg
      BY DEF EntryOf
    <3>3. k \in D
      BY <3>1, <3>2 DEF D, DirtyOf
    <3> HIDE DEF k
    <3>4. EntryOK(m.cache[k], m.file, t, P) /\ m.cache[k] \in Pages!Entry
      <4>1. EntryOK(m.cache[k], m.file, t, P)
        BY <3>1 DEF Midway, CacheOK
      <4>2. m.cache[k] \in Pages!Entry
        BY <2>4, <3>1
      <4> QED
        BY <4>1, <4>2
    <3>5. pg.id < Len(m.file[t])
      BY <3>2, <3>4 DEF EntryOK
    <3>6. pg.id \in Nat
      BY <3>2, <3>4 DEF Pages!Entry
    <3>7. h[t] \in Seq(Pages!Page) /\ Len(h[t]) \in Nat /\ DOMAIN h[t] = 1 .. Len(h[t])
      BY <2>1
    <3>8. pg.id + 1 \in DOMAIN h[t]
      BY <2>1, <3>5, <3>6, <3>7
    <3> QED
      BY <2>1, <3>2, <3>3, <3>8
  <2> QED
    BY <2>10, <2>11, <2>12, <2>13
<1> QED
  BY <1>3, <1>4, <1>5

\* A new page, and a page with a row more.
NewPage(n) == [id |-> n, rows |-> <<>>]
WithRow(pg, row) == [id |-> pg.id, rows |-> Append(pg.rows, row)]

\* addRow adds the row when it fits.
LEMMA AddRowResult ==
  ASSUME NEW pg \in Pages!Page, NEW row \in Pages!Row
  PROVE  /\ Pages!AddRow(pg, row) = IF Pages!Fits(pg, row) THEN WithRow(pg, row) ELSE pg
         /\ WithRow(pg, row) \in Pages!Page /\ WithRow(pg, row).id = pg.id
<1>1. pg = [id |-> pg.id, rows |-> pg.rows] /\ pg.id \in Nat /\ pg.rows \in Seq(Pages!Row)
  BY DEF Pages!Page
<1>2. [pg EXCEPT !.rows = Append(pg.rows, row)] = WithRow(pg, row)
  BY SMTT(40), <1>1 DEF WithRow
<1>3. Append(pg.rows, row) \in Seq(Pages!Row)
  BY <1>1
<1> QED
  BY <1>1, <1>2, <1>3 DEF Pages!AddRow, WithRow, Pages!Page

\* A new page has room for a row that fits a page.
LEMMA NewPageFits ==
  ASSUME NEW n \in Nat, NEW row \in Pages!Row, row.size <= Capacity
  PROVE  Pages!Fits(NewPage(n), row)
<1> DEFINE pg == NewPage(n)
           Is(w) == w = [i \in 0 .. Len(pg.rows) |-> IF i = 0 THEN 0 ELSE w[i - 1] + pg.rows[i].size]
           v == [i \in 0 .. 0 |-> 0]
           writePos == CHOOSE w : Is(w)
<1>1. pg.rows = <<>> /\ Len(pg.rows) = 0
  BY DEF NewPage
<1>2. Is(v)
  BY <1>1
<1>3. Is(writePos)
  <2> HIDE DEF Is, v
  <2> QED
    BY <1>2
<1>4. writePos[0] = 0
  BY <1>1, <1>3
<1>5. Pages!Fill(pg) = writePos[Len(pg.rows)]
  BY DEF Pages!Fill
<1>6. Pages!Fill(pg) = 0
  BY <1>1, <1>4, <1>5
<1>7. row.size \in Nat
  BY PagesAssumption DEF Pages!Row
<1> QED
  BY <1>6, <1>7 DEF Pages!Fits

\* The pages that an INSERT which allocates a page may write.
NewPages(f, t, row) ==
  LET n == Len(f[t])
  IN  {NewPage(n), WithRow(NewPage(n), row)} \cup {f[t][i] : i \in {n} \cap 1 .. n}

\* What an INSERT comes to: the process died before it wrote, or the last page has the row,
\* or a new one.
Inserted(o, f, t, row) ==
  LET n == Len(f[t])
      last == f[t][n]
  IN  \/ ~o.up /\ Midway(o, f, t, {})
      \/ /\ n > 0 /\ Midway(o, f, t, {WithRow(last, row)})
         /\ o.up => last.id + 1 \in DOMAIN o.file[t] /\ o.file[t][last.id + 1] = WithRow(last, row)
      \/ /\ Midway(o, GrownFiles(f, t), t, NewPages(f, t, row))
         /\ o.up /\ row.size <= Capacity =>
              n + 1 \in DOMAIN o.file[t] /\ o.file[t][n + 1] = WithRow(NewPage(n), row)

\* Writing a page and flushing it.
LEMMA WriteAndFlush ==
  ASSUME NEW m, NEW f \in [Paged -> Seq(Pages!Page)], NEW t \in Paged, NEW P, Midway(m, f, t, P),
         NEW pg \in P, pg.id < Len(f[t]), NEW o \in Pages!FlushDirtyPages(Pages!WritePage(m, t, pg), t)
  PROVE  Midway(o, f, t, P) /\ Settled(o, t, pg)
<1> DEFINE r == Pages!WritePage(m, t, pg)
<1>1. Midway(r, f, t, P) /\ JustWritten(r, t, pg)
  BY WritePageKeeps
<1> HIDE DEF r
<1>2. o \in Pages!FlushDirtyPages(r, t)
  BY DEF r
<1> QED
  BY <1>1, <1>2, FlushKeeps

\* An INSERT comes to one of these.
LEMMA InsertRowResult ==
  ASSUME NEW m, NEW f \in [Paged -> Seq(Pages!Page)], NEW t \in Paged, Midway(m, f, t, {}), m.up,
         NEW row \in Pages!Row, \A i \in 1 .. Len(f[t]) : f[t][i].id < Len(f[t]),
         NEW o \in Pages!InsertRow(m, t, row)
  PROVE  Inserted(o, f, t, row) /\ AllClean(o.cache)
<1> DEFINE n == Len(f[t])
           last == f[t][n]
           g == GrownFiles(f, t)
           P == NewPages(f, t, row)
           fresh == Pages!AddRow(NewPage(n), row)
<1>1. f[t] \in Seq(Pages!Page) /\ n \in Nat /\ m.file = f /\ ZeroPage \in Pages!Page
  <2>1. f[t] \in Seq(Pages!Page) /\ n \in Nat
    OBVIOUS
  <2>2. ZeroPage \in Pages!Page
    BY DEF ZeroPage, Pages!Page
  <2>3. m.file = f
    BY ReadingIsClean
  <2> QED
    BY <2>1, <2>2, <2>3
<1>2. \A i \in 1 .. n : f[t][i] \in Pages!Page
  BY <1>1
<1>3. NewPage(n) \in Pages!Page /\ NewPage(n).id = n
  BY <1>1 DEF NewPage, Pages!Page
<1>4. /\ fresh = IF Pages!Fits(NewPage(n), row) THEN WithRow(NewPage(n), row) ELSE NewPage(n)
      /\ WithRow(NewPage(n), row) \in Pages!Page /\ WithRow(NewPage(n), row).id = n
  BY <1>3, AddRowResult
<1>5. /\ g \in [Paged -> Seq(Pages!Page)] /\ Len(g[t]) = n + 1
  <2>1. Append(f[t], ZeroPage) \in Seq(Pages!Page) /\ Len(Append(f[t], ZeroPage)) = n + 1
    BY <1>1
  <2> QED
    BY <2>1 DEF GrownFiles
<1>6. P \in SUBSET Pages!Page /\ NewPage(n) \in P /\ fresh \in P /\ fresh.id = n
  BY <1>2, <1>3, <1>4 DEF NewPages
<1>7. row.size <= Capacity => fresh = WithRow(NewPage(n), row)
  BY <1>1, <1>4, NewPageFits
<1>8. /\ [id |-> Len(f[t]), rows |-> <<>>] = NewPage(n) /\ Pages!NewPage(n) = NewPage(n)
      /\ Pages!PageCount(m, t) = n
  BY <1>1 DEF NewPage, Pages!NewPage, Pages!PageCount, Midway
<1>9. ASSUME NEW y, Midway(y, g, t, P), o \in Pages!FlushDirtyPages(Pages!WritePage(y, t, fresh), t)
      PROVE  Inserted(o, f, t, row) /\ AllClean(o.cache)
  <2> HIDE DEF fresh, P, g, n
  <2>1. fresh.id < Len(g[t]) /\ fresh.id + 1 = n + 1
    BY <1>1, <1>5, <1>6
  <2>2. Midway(o, g, t, P) /\ Settled(o, t, fresh)
    BY <1>5, <1>6, <1>9, <2>1, WriteAndFlush
  <2>3. /\ Midway(o, g, t, P)
        /\ o.up /\ row.size <= Capacity =>
              n + 1 \in DOMAIN o.file[t] /\ o.file[t][n + 1] = WithRow(NewPage(n), row)
    BY <1>7, <2>1, <2>2 DEF Settled
  <2> QED
    BY <2>2, <2>3 DEF Inserted, Settled, g, P, n
<1>10. ASSUME NEW y, Midway(y, g, t, P), y.cache = <<>>, ~y.up, o = y
       PROVE  Inserted(o, f, t, row) /\ AllClean(o.cache)
  BY <1>10 DEF Inserted, AllClean
<1>11. CASE n = 0
  <2>1. PICK x \in Pages!AllocatePage(m, t) :
          IF x.up THEN o \in Pages!FlushDirtyPages(Pages!WritePage(x, t, fresh), t) ELSE o = x
    <3> HIDE DEF n
    <3> QED
      BY <1>8, <1>11 DEF Pages!InsertRow, Pages!Then
  <2>2. Midway(x, g, t, P) /\ (x.up \/ x.cache = <<>>)
    BY <1>6, <1>8, AllocatePageKeeps
  <2> QED
    BY <1>9, <1>10, <2>1, <2>2
<1>12. CASE n # 0
  <2>1. n \in 1 .. n /\ n - 1 \in Nat /\ n - 1 < n /\ n - 1 + 1 = n /\ n > 0
    BY <1>1, <1>12
  <2>2. last \in Pages!Page /\ last.id < n /\ last.id \in Nat
    BY <1>2, <2>1 DEF Pages!Page
  <2>3. Pages!View(m, t, n - 1) = last
    BY <2>1, CleanView
  <2>4. PICK r \in Pages!ReadPage(m, t, n - 1) :
          IF r.up
          THEN IF Pages!Fits(last, row)
               THEN o \in Pages!FlushDirtyPages(Pages!WritePage(r, t, Pages!AddRow(last, row)), t)
               ELSE \E x \in Pages!AllocatePage(r, t) :
                      IF x.up
                      THEN o \in Pages!FlushDirtyPages(
                                   Pages!WritePage(Pages!WritePage(x, t, last), t, fresh), t)
                      ELSE o = x
          ELSE o = r
    <3> HIDE DEF n, last
    <3> QED
      BY <1>8, <1>12, <2>3 DEF Pages!InsertRow, Pages!Then
  <2>5. Midway(r, f, t, {})
    BY <2>1, ReadPageKeeps
  <2>6. CASE ~r.up
    <3>1. AllClean(r.cache)
      BY <2>5, ReadingIsClean DEF AllClean
    <3> QED
      BY <2>4, <2>5, <2>6, <3>1 DEF Inserted
  <2>7. CASE r.up /\ Pages!Fits(last, row)
    <3> DEFINE pg == WithRow(last, row)
    <3>1. Pages!AddRow(last, row) = pg /\ pg \in Pages!Page /\ pg.id = last.id
      BY <2>2, <2>7, AddRowResult
    <3> HIDE DEF pg
    <3>2. Midway(r, f, t, {pg})
      BY <2>5, <3>1, WritesMore
    <3>3. o \in Pages!FlushDirtyPages(Pages!WritePage(r, t, pg), t)
      BY <2>4, <2>7, <3>1
    <3>4. pg.id < Len(f[t]) /\ pg \in {pg}
      BY <2>2, <3>1
    <3>5. Midway(o, f, t, {pg}) /\ Settled(o, t, pg)
      BY <3>2, <3>3, <3>4, WriteAndFlush
    <3> QED
      BY <2>1, <3>1, <3>5 DEF Inserted, Settled, pg
  <2>8. CASE r.up /\ ~Pages!Fits(last, row)
    <3>1. PICK x \in Pages!AllocatePage(r, t) :
                      IF x.up
                      THEN o \in Pages!FlushDirtyPages(
                                   Pages!WritePage(Pages!WritePage(x, t, last), t, fresh), t)
                      ELSE o = x
      BY <2>4, <2>8
    <3>2. Midway(x, g, t, P) /\ (x.up \/ x.cache = <<>>)
      BY <1>6, <1>8, <2>5, <2>8, AllocatePageKeeps
    <3>3. CASE ~x.up
      BY <1>10, <3>1, <3>2, <3>3
    <3>4. CASE x.up
      <4> DEFINE y == Pages!WritePage(x, t, last)
      <4>1. last \in P
        BY <2>1 DEF NewPages
      <4>2. last.id < Len(g[t])
        BY <1>1, <1>5, <2>2
      <4> HIDE DEF P, g, last, fresh
      <4>3. Midway(y, g, t, P)
        BY <3>2, <4>1, <4>2, WritePageKeeps
      <4>4. o \in Pages!FlushDirtyPages(Pages!WritePage(y, t, fresh), t)
        BY <3>1, <3>4
      <4> QED
        BY <1>9, <4>3, <4>4
    <3> QED
      BY <3>3, <3>4
  <2> QED
    BY <2>6, <2>7, <2>8
<1> QED
  BY <1>11, <1>12

\* The numbers that the pages of a table carry: their own, or 0.
OwnNumbers(s) == \A i \in 1 .. Len(s) : s[i].id = 0 \/ s[i].id = i - 1
\* Every page carries its own.
InNumbers(s) == \A i \in 1 .. Len(s) : s[i].id = i - 1
\* No row of the table is later than the last that was inserted.
NoneAfter(s, last) == \A i \in 1 .. Len(s) : \A j \in 1 .. Len(s[i].rows) : s[i].rows[j].n <= last
\* The rows are in the order of their INSERTs.
InOrder(s) ==
  \A i, k \in 1 .. Len(s) : \A j \in 1 .. Len(s[i].rows), l \in 1 .. Len(s[k].rows) :
    i < k \/ (i = k /\ j < l) => s[i].rows[j].n < s[k].rows[l].n
\* The table has the row.
HasRow(s, row) == \E i \in 1 .. Len(s) : \E j \in 1 .. Len(s[i].rows) : s[i].rows[j] = row

\* The pages h are the pages s, and perhaps the row is in the last or in a page of its own.
MayHaveGot(h, s, row) ==
  LET n == Len(s)
  IN  \/ /\ n > 0 /\ Len(h) = n /\ \A i \in 1 .. n - 1 : h[i] = s[i]
         /\ h[n] = s[n] \/ h[n] = WithRow(s[n], row)
      \/ /\ Len(h) = n + 1 /\ \A i \in 1 .. n : h[i] = s[i]
         /\ h[n + 1].rows = <<>> \/ h[n + 1].rows = <<row>>

\* The rows of a page with a row more.
LEMMA RowsOfPage ==
  ASSUME NEW pg \in Pages!Page, NEW row \in Pages!Row
  PROVE  /\ pg.id \in Nat /\ pg.rows \in Seq(Pages!Row) /\ Len(pg.rows) \in Nat
         /\ \A j \in 1 .. Len(pg.rows) : pg.rows[j] \in Pages!Row /\ pg.rows[j].n \in Nat
         /\ WithRow(pg, row).id = pg.id /\ WithRow(pg, row) \in Pages!Page
         /\ Len(WithRow(pg, row).rows) = Len(pg.rows) + 1
         /\ WithRow(pg, row).rows[Len(pg.rows) + 1] = row
         /\ \A j \in 1 .. Len(pg.rows) : WithRow(pg, row).rows[j] = pg.rows[j]
<1>1. pg.id \in Nat /\ pg.rows \in Seq(Pages!Row) /\ Len(pg.rows) \in Nat
  BY DEF Pages!Page
<1>2. \A j \in 1 .. Len(pg.rows) : pg.rows[j] \in Pages!Row /\ pg.rows[j].n \in Nat
  <2>1. \A r \in Pages!Row : r.n \in Nat
    BY PagesAssumption DEF Pages!Row
  <2>2. \A j \in 1 .. Len(pg.rows) : pg.rows[j] \in Pages!Row
    BY <1>1
  <2> QED
    BY <2>1, <2>2
<1>3. WithRow(pg, row).id = pg.id /\ WithRow(pg, row).rows = Append(pg.rows, row)
  BY DEF WithRow
<1>4. WithRow(pg, row) \in Pages!Page
  BY AddRowResult
<1> QED
  BY <1>1, <1>2, <1>3, <1>4

\* Every row of h was there before, or it is the new one and the last.
OldOrLast(h, s, row) ==
  \A i \in 1 .. Len(h) : \A j \in 1 .. Len(h[i].rows) :
    \/ i \in 1 .. Len(s) /\ j \in 1 .. Len(s[i].rows) /\ h[i].rows[j] = s[i].rows[j]
    \/ h[i].rows[j] = row /\ i = Len(h) /\ j = Len(h[i].rows)

\* No row of s is lost.
NoneLost(h, s) ==
  \A i \in 1 .. Len(s) : \A j \in 1 .. Len(s[i].rows) :
    i \in 1 .. Len(h) /\ j \in 1 .. Len(h[i].rows) /\ h[i].rows[j] = s[i].rows[j]

\* What an INSERT does to the rows.
LEMMA RowsAfterInsert ==
  ASSUME NEW s \in Seq(Pages!Page), NEW h \in Seq(Pages!Page), NEW row \in Pages!Row, MayHaveGot(h, s, row)
  PROVE  OldOrLast(h, s, row) /\ NoneLost(h, s)
<1> DEFINE n == Len(s)
<1>1. n \in Nat /\ Len(h) \in Nat /\ \A i \in 1 .. n : s[i] \in Pages!Page
  OBVIOUS
<1>2. \A i \in 1 .. Len(h) : h[i] \in Pages!Page
  BY <1>1
<1>3. CASE /\ n > 0 /\ Len(h) = n /\ \A i \in 1 .. n - 1 : h[i] = s[i]
           /\ h[n] = s[n] \/ h[n] = WithRow(s[n], row)
  <2>1. n \in 1 .. n /\ \A i \in 1 .. n : i = n \/ i \in 1 .. n - 1
    BY <1>1, <1>3
  <2>2. s[n] \in Pages!Page
    BY <1>1, <2>1
  <2>3. /\ Len(s[n].rows) \in Nat /\ Len(WithRow(s[n], row).rows) = Len(s[n].rows) + 1
        /\ WithRow(s[n], row).rows[Len(s[n].rows) + 1] = row
        /\ \A j \in 1 .. Len(s[n].rows) : WithRow(s[n], row).rows[j] = s[n].rows[j]
    BY <2>2, RowsOfPage
  <2> DEFINE k == Len(s[n].rows)
  <2>4. \A j \in 1 .. k + 1 : j = k + 1 \/ j \in 1 .. k
    BY <2>3
  <2>5. \A j \in 1 .. k : j \in 1 .. k + 1
    BY <2>3
  <2> HIDE DEF n
  <2>6. ASSUME NEW i \in 1 .. n
        PROVE  /\ \A j \in 1 .. Len(h[i].rows) :
                    \/ j \in 1 .. Len(s[i].rows) /\ h[i].rows[j] = s[i].rows[j]
                    \/ h[i].rows[j] = row /\ i = n /\ j = Len(h[i].rows)
               /\ \A j \in 1 .. Len(s[i].rows) : j \in 1 .. Len(h[i].rows) /\ h[i].rows[j] = s[i].rows[j]
    <3>1. CASE h[i] = s[i]
      BY <3>1
    <3>2. CASE i = n /\ h[n] = WithRow(s[n], row)
      BY <2>3, <2>4, <2>5, <3>2
    <3> QED
      BY <1>3, <2>1, <3>1, <3>2
  <2> QED
    BY <1>3, <2>6 DEF OldOrLast, NoneLost, n
<1>4. CASE /\ Len(h) = n + 1 /\ \A i \in 1 .. n : h[i] = s[i]
           /\ h[n + 1].rows = <<>> \/ h[n + 1].rows = <<row>>
  <2>1. \A i \in 1 .. n + 1 : i = n + 1 \/ i \in 1 .. n
    BY <1>1
  <2>2. \A i \in 1 .. n : i \in 1 .. n + 1
    BY <1>1
  <2>3. \A j \in 1 .. Len(h[n + 1].rows) : h[n + 1].rows[j] = row /\ j = Len(h[n + 1].rows)
    <3>1. CASE h[n + 1].rows = <<>>
      BY <3>1
    <3>2. CASE h[n + 1].rows = <<row>>
      <4>1. Len(<<row>>) = 1 /\ <<row>>[1] = row /\ \A j \in 1 .. 1 : j = 1
        OBVIOUS
      <4> QED
        BY <3>2, <4>1
    <3> QED
      BY <1>4, <3>1, <3>2
  <2> HIDE DEF n
  <2> QED
    BY <1>4, <2>1, <2>2, <2>3 DEF OldOrLast, NoneLost, n
<1> QED
  BY <1>3, <1>4 DEF MayHaveGot

\* Then the rows stay in order, and those that were there stay there.
LEMMA InsertKeepsRows ==
  ASSUME NEW s \in Seq(Pages!Page), NEW h \in Seq(Pages!Page), NEW row \in Pages!Row, NEW last \in Nat,
         OldOrLast(h, s, row), NoneLost(h, s), NoneAfter(s, last), row.n = last + 1, InOrder(s)
  PROVE  InOrder(h) /\ \A r : HasRow(s, r) => HasRow(h, r)
<1>1. \A r : HasRow(s, r) => HasRow(h, r)
  BY DEF HasRow, NoneLost
<1>2. ASSUME NEW i \in 1 .. Len(h), NEW k \in 1 .. Len(h),
             NEW j \in 1 .. Len(h[i].rows), NEW l \in 1 .. Len(h[k].rows), i < k \/ (i = k /\ j < l)
      PROVE  h[i].rows[j].n < h[k].rows[l].n
  <2>1. Len(h) \in Nat /\ h[i] \in Pages!Page
    OBVIOUS
  <2>2. Len(h[i].rows) \in Nat
    BY SMTT(40), <2>1 DEF Pages!Page
  <2>3. ~(i = Len(h) /\ j = Len(h[i].rows))
    BY <1>2, <2>1, <2>2
  <2>4. i \in 1 .. Len(s) /\ j \in 1 .. Len(s[i].rows) /\ h[i].rows[j] = s[i].rows[j]
    BY <2>3 DEF OldOrLast
  <2>5. s[i].rows[j].n \in Nat
    <3>1. s[i] \in Pages!Page
      BY <2>4
    <3>2. \A p \in 1 .. Len(s[i].rows) : s[i].rows[p].n \in Nat
      BY <3>1, RowsOfPage
    <3> QED
      BY <2>4, <3>2
  <2>6. CASE k \in 1 .. Len(s) /\ l \in 1 .. Len(s[k].rows) /\ h[k].rows[l] = s[k].rows[l]
    BY <1>2, <2>4, <2>6 DEF InOrder
  <2>7. CASE h[k].rows[l] = row
    <3>1. s[i].rows[j].n <= last
      BY <2>4 DEF NoneAfter
    <3> QED
      BY SMTT(40), <2>4, <2>5, <2>7, <3>1
  <2> QED
    BY <2>6, <2>7 DEF OldOrLast
<1> QED
  BY <1>1, <1>2 DEF InOrder

\* The pages in o.file, when a row was inserted into those of f, numbered after last.
PagesHave(o, f, t, row, last) ==
  /\ o.file \in [Paged -> Seq(Pages!Page)] /\ \A u \in Paged \ {t} : o.file[u] = f[u]
  /\ OwnNumbers(o.file[t]) /\ NoneAfter(o.file[t], last + 1)
  /\ InNumbers(o.file[t]) => /\ InNumbers(f[t])
                             /\ o.file[t] = f[t] \/ MayHaveGot(o.file[t], f[t], row)
  /\ o.up /\ row.size <= Capacity => HasRow(o.file[t], row)

\* What an INSERT does to the pages of the table.
LEMMA PagesAfterInsert ==
  ASSUME NEW f \in [Paged -> Seq(Pages!Page)], NEW t \in Paged, NEW row \in Pages!Row, NEW o,
         Inserted(o, f, t, row), OwnNumbers(f[t]), NEW last \in Nat, NoneAfter(f[t], last), row.n = last + 1
  PROVE  PagesHave(o, f, t, row, last)
<1> DEFINE s == f[t]
           n == Len(s)
           h == o.file[t]
           pg == WithRow(s[n], row)
           new == WithRow(NewPage(n), row)
<1>1. s \in Seq(Pages!Page) /\ n \in Nat /\ \A i \in 1 .. n : s[i] \in Pages!Page
  OBVIOUS
<1>2. \A i \in 1 .. n : \A j \in 1 .. Len(s[i].rows) : s[i].rows[j].n \in Nat /\ s[i].rows[j].n <= last
  BY <1>1, RowsOfPage DEF NoneAfter
<1>3. \A i \in 1 .. n : \A j \in 1 .. Len(s[i].rows) : s[i].rows[j].n <= last + 1
  BY <1>2
<1>4. CASE ~o.up /\ Midway(o, f, t, {})
  <2>1. o.file = f
    BY <1>4, ReadingIsClean
  <2>2. NoneAfter(s, last + 1)
    BY <1>3 DEF NoneAfter
  <2> QED
    BY <1>4, <2>1, <2>2 DEF PagesHave
<1>5. ASSUME NEW g, NEW P, Midway(o, g, t, P), \A u \in Paged \ {t} : g[u] = f[u], Len(g[t]) \in Nat
      PROVE  /\ o.file \in [Paged -> Seq(Pages!Page)] /\ \A u \in Paged \ {t} : o.file[u] = f[u]
             /\ h \in Seq(Pages!Page) /\ Len(h) = Len(g[t]) /\ DOMAIN h = 1 .. Len(h)
             /\ \A i \in 1 .. Len(h) : h[i] = g[t][i] \/ (h[i] \in P /\ h[i].id = i - 1)
  <2>1. o.file \in [Paged -> Seq(Pages!Page)]
    BY <1>5 DEF Midway, Memories
  <2>2. FilesFrom(o.file, g, t, P)
    BY <1>5 DEF Midway
  <2>3. h \in Seq(Pages!Page) /\ DOMAIN h = 1 .. Len(h)
    BY <2>1
  <2>4. Len(h) = Len(g[t]) /\ \A u \in Paged \ {t} : o.file[u] = f[u]
    BY <1>5, <2>2 DEF FilesFrom
  <2>5. \A i \in 1 .. Len(h) : h[i] = g[t][i] \/ (h[i] \in P /\ h[i].id = i - 1)
    BY <2>2, <2>4 DEF FilesFrom
  <2> QED
    BY <2>1, <2>3, <2>4, <2>5
<1>6. CASE /\ n > 0 /\ Midway(o, f, t, {pg})
           /\ o.up => s[n].id + 1 \in DOMAIN h /\ h[s[n].id + 1] = pg
  <2>1. n \in 1 .. n /\ s[n] \in Pages!Page
    BY <1>1, <1>6
  <2>2. /\ pg.id = s[n].id /\ Len(pg.rows) = Len(s[n].rows) + 1 /\ pg.rows[Len(s[n].rows) + 1] = row
        /\ \A j \in 1 .. Len(s[n].rows) : pg.rows[j] = s[n].rows[j]
        /\ Len(s[n].rows) \in Nat /\ s[n].id \in Nat
    BY <2>1, RowsOfPage
  <2>3. s[n].id = 0 \/ s[n].id = n - 1
    BY <2>1 DEF OwnNumbers
  <2> HIDE DEF pg
  <2>4. /\ o.file \in [Paged -> Seq(Pages!Page)] /\ \A u \in Paged \ {t} : o.file[u] = f[u]
        /\ h \in Seq(Pages!Page) /\ Len(h) = n /\ DOMAIN h = 1 .. n
        /\ \A i \in 1 .. n : h[i] = s[i] \/ (h[i] = pg /\ pg.id = i - 1)
    BY <1>1, <1>5, <1>6
  <2> HIDE DEF h, s, n
  <2>5. OwnNumbers(h)
    BY <2>4 DEF OwnNumbers, s, n
  <2>6. \A j \in 1 .. Len(pg.rows) : pg.rows[j].n <= last + 1
    <3>1. \A j \in 1 .. Len(pg.rows) : j \in 1 .. Len(s[n].rows) \/ j = Len(s[n].rows) + 1
      BY SMTT(40), <2>2
    <3>2. ASSUME NEW j \in 1 .. Len(s[n].rows)
          PROVE  pg.rows[j].n <= last + 1
      <4>1. s[n].rows[j].n <= last + 1
        BY <1>3, <2>1
      <4> QED
        BY <2>2, <4>1
    <3>3. row.n <= last + 1
      OBVIOUS
    <3> QED
      BY <2>2, <3>1, <3>2, <3>3
  <2>7. NoneAfter(h, last + 1)
    BY <1>3, <2>4, <2>6 DEF NoneAfter
  <2>8. ASSUME InNumbers(h)
        PROVE  InNumbers(s) /\ MayHaveGot(h, s, row)
    <3>1. ASSUME NEW i \in 1 .. n
          PROVE  s[i].id = i - 1
      <4>1. CASE h[i] = s[i]
        BY <2>4, <2>8, <4>1 DEF InNumbers
      <4>2. CASE h[i] = pg /\ pg.id = i - 1
        <5>1. CASE i = n
          BY <2>2, <4>2, <5>1
        <5>2. CASE i # n
          <6>1. i - 1 # n - 1
            BY <1>1, <5>2 DEF n
          <6>2. i - 1 = 0 /\ i = 1
            BY <2>2, <2>3, <4>2, <6>1
          <6> QED
            BY <6>2 DEF OwnNumbers, s, n
        <5> QED
          BY <5>1, <5>2
      <4> QED
        BY <2>4, <4>1, <4>2
    <3>2. s[n].id = n - 1
      BY <2>1, <3>1
    <3>3. ASSUME NEW i \in 1 .. n - 1
          PROVE  h[i] = s[i]
      <4>1. i \in 1 .. n /\ i - 1 # n - 1 /\ n \in Nat
        BY <1>1 DEF n
      <4> QED
        BY <2>2, <2>4, <3>2, <4>1
    <3>4. h[n] = s[n] \/ h[n] = pg
      BY SMTT(40), <2>1, <2>4
    <3>5. MayHaveGot(h, s, row)
      BY <1>6, <2>4, <3>3, <3>4 DEF MayHaveGot, pg, n
    <3> QED
      BY <3>1, <3>5 DEF InNumbers, n
  <2>9. ASSUME o.up
        PROVE  HasRow(h, row)
    <3>1. s[n].id + 1 \in 1 .. Len(h) /\ h[s[n].id + 1] = pg
      BY <1>6, <2>4, <2>9 DEF h, s, n
    <3>2. Len(pg.rows) \in 1 .. Len(pg.rows)
      BY <2>2
    <3> QED
      BY <2>2, <3>1, <3>2 DEF HasRow
  <2> QED
    BY <2>4, <2>5, <2>7, <2>8, <2>9 DEF PagesHave, h, s
<1>7. CASE /\ Midway(o, GrownFiles(f, t), t, NewPages(f, t, row))
           /\ o.up /\ row.size <= Capacity => n + 1 \in DOMAIN h /\ h[n + 1] = new
  <2> DEFINE g == GrownFiles(f, t)
  <2>1. /\ Len(g[t]) = n + 1 /\ g[t][n + 1] = ZeroPage /\ \A i \in 1 .. n : g[t][i] = s[i]
        /\ \A u \in Paged \ {t} : g[u] = f[u]
    <3>1. g[t] = Append(s, ZeroPage) /\ \A u \in Paged \ {t} : g[u] = f[u]
      BY DEF GrownFiles
    <3> HIDE DEF g, s
    <3> QED
      BY <1>1, <3>1
  <2>2. /\ new.id = n /\ new.rows = <<row>> /\ NewPage(n).id = n /\ NewPage(n).rows = <<>>
        /\ ZeroPage.id = 0 /\ ZeroPage.rows = <<>>
    BY DEF WithRow, NewPage, ZeroPage
  <2>3. \A p \in NewPages(f, t, row) : p = NewPage(n) \/ p = new \/ (n \in 1 .. n /\ p = s[n])
    BY DEF NewPages
  <2> HIDE DEF g, new
  <2>4. /\ o.file \in [Paged -> Seq(Pages!Page)] /\ \A u \in Paged \ {t} : o.file[u] = f[u]
        /\ h \in Seq(Pages!Page) /\ Len(h) = n + 1 /\ DOMAIN h = 1 .. n + 1
        /\ \A i \in 1 .. n + 1 : \/ h[i] = g[t][i]
                                 \/ (h[i] = NewPage(n) \/ h[i] = new) /\ i - 1 = n
                                 \/ n \in 1 .. n /\ h[i] = s[n] /\ s[n].id = i - 1
    <3>1. Len(g[t]) \in Nat
      BY <1>1, <2>1
    <3>2. /\ o.file \in [Paged -> Seq(Pages!Page)] /\ \A u \in Paged \ {t} : o.file[u] = f[u]
          /\ h \in Seq(Pages!Page) /\ Len(h) = Len(g[t]) /\ DOMAIN h = 1 .. Len(h)
          /\ \A i \in 1 .. Len(h) : h[i] = g[t][i] \/ (h[i] \in NewPages(f, t, row) /\ h[i].id = i - 1)
      BY <1>5, <1>7, <2>1, <3>1 DEF g
    <3> HIDE DEF s, n, h
    <3> QED
      BY <2>1, <2>2, <2>3, <3>2
  <2>5. \A i \in 1 .. n + 1 : i \in 1 .. n \/ i = n + 1
    BY <1>1
  <2> HIDE DEF h, s, n
  <2>6. \A i \in 1 .. n : s[i].id = 0 \/ s[i].id = i - 1
    BY DEF OwnNumbers, s, n
  <2>7. \A i \in 1 .. n + 1 :
          \/ i \in 1 .. n /\ h[i] = s[i]
          \/ i = n + 1 /\ (h[i].rows = <<>> \/ h[i].rows = <<row>>) /\ (h[i].id = 0 \/ h[i].id = n)
          \/ n \in 1 .. n /\ h[i] = s[n] /\ s[n].id = i - 1
    <3>1. ASSUME NEW i \in 1 .. n + 1, (h[i] = NewPage(n) \/ h[i] = new) /\ i - 1 = n
          PROVE  i = n + 1 /\ (h[i].rows = <<>> \/ h[i].rows = <<row>>) /\ h[i].id = n
      <4>1. i = n + 1
        BY <1>1, <3>1 DEF n
      <4> QED
        BY <2>2, <3>1, <4>1
    <3>2. ASSUME NEW i \in 1 .. n + 1, h[i] = g[t][i]
          PROVE  \/ i \in 1 .. n /\ h[i] = s[i]
                 \/ i = n + 1 /\ h[i].rows = <<>> /\ h[i].id = 0
      BY <2>1, <2>2, <2>5, <3>2
    <3> QED
      BY <2>4, <3>1, <3>2
  <2>8. OwnNumbers(h)
    <3>1. n \in Nat /\ (n + 1) - 1 = n
      BY <1>1 DEF n
    <3>2. \A i \in 1 .. n + 1 : h[i].id = 0 \/ h[i].id = i - 1
      BY <2>6, <2>7, <3>1
    <3> QED
      BY <2>4, <3>2 DEF OwnNumbers
  <2>9. NoneAfter(h, last + 1)
    <3>1. Len(<<>>) = 0 /\ Len(<<row>>) = 1 /\ <<row>>[1] = row /\ (\A j \in 1 .. 1 : j = 1) /\ 1 .. 0 = {}
      OBVIOUS
    <3>2. ASSUME NEW i \in 1 .. n + 1, NEW j \in 1 .. Len(h[i].rows)
          PROVE  h[i].rows[j].n <= last + 1
      <4>1. CASE i \in 1 .. n /\ h[i] = s[i]
        BY <1>3, <4>1
      <4>2. CASE h[i].rows = <<>>
        BY <3>1, <4>2
      <4>3. CASE h[i].rows = <<row>>
        BY <3>1, <4>3
      <4>4. CASE n \in 1 .. n /\ h[i] = s[n]
        BY <1>3, <4>4
      <4> QED
        BY <2>7, <4>1, <4>2, <4>3, <4>4
    <3> QED
      BY <2>4, <3>2 DEF NoneAfter
  <2>10. ASSUME InNumbers(h)
         PROVE  InNumbers(s) /\ MayHaveGot(h, s, row)
    <3>1. \A i \in 1 .. n + 1 : h[i].id = i - 1
      BY <2>4, <2>10 DEF InNumbers
    <3>2. n \in Nat /\ \A i \in 1 .. n : i \in 1 .. n + 1 /\ i # n + 1 /\ i - 1 # n
      BY <1>1 DEF n
    <3>3. ASSUME NEW i \in 1 .. n
          PROVE  s[i].id = i - 1
      <4>1. CASE h[i] = s[i]
        BY <3>1, <3>2, <4>1
      <4>2. CASE n \in 1 .. n /\ h[i] = s[n] /\ s[n].id = i - 1
        <5>1. CASE i = n
          BY <4>2, <5>1
        <5>2. CASE i # n
          <6>1. i - 1 # n - 1
            BY <3>2, <5>2
          <6>2. i - 1 = 0 /\ i = 1
            BY SMTT(40), <2>6, <4>2, <6>1
          <6> QED
            BY <2>6, <6>2
        <5> QED
          BY <5>1, <5>2
      <4> QED
        BY <2>7, <3>2, <4>1, <4>2
    <3>4. ASSUME NEW i \in 1 .. n
          PROVE  h[i] = s[i]
      <4>1. CASE n \in 1 .. n /\ h[i] = s[n] /\ s[n].id = i - 1
        <5>1. i - 1 = n - 1
          BY <3>3, <4>1
        <5>2. i = n
          BY <3>2, <5>1
        <5> QED
          BY <4>1, <5>2
      <4> QED
        BY <2>7, <3>2, <4>1
    <3>5. h[n + 1].rows = <<>> \/ h[n + 1].rows = <<row>>
      <4>1. n + 1 \in 1 .. n + 1 /\ n + 1 \notin 1 .. n /\ (n + 1) - 1 = n
        BY <3>2
      <4>2. ~(n \in 1 .. n /\ s[n].id = n)
        BY <2>6, <3>2
      <4> QED
        BY <2>7, <4>1, <4>2
    <3>6. MayHaveGot(h, s, row)
      BY <2>4, <3>4, <3>5 DEF MayHaveGot, n
    <3> QED
      BY <3>3, <3>6 DEF InNumbers, n
  <2>11. ASSUME o.up, row.size <= Capacity
         PROVE  HasRow(h, row)
    <3>1. n + 1 \in 1 .. Len(h) /\ h[n + 1] = new
      BY <1>7, <2>4, <2>11 DEF h, s, n, new
    <3>2. Len(new.rows) = 1 /\ new.rows[1] = row /\ 1 \in 1 .. 1
      BY <2>2
    <3> QED
      BY <3>1, <3>2 DEF HasRow
  <2> QED
    BY <2>4, <2>8, <2>9, <2>10, <2>11 DEF PagesHave, h, s
<1> QED
  BY <1>4, <1>6, <1>7 DEF Inserted

\* r gives, for every n, what reading the first n pages one after the other can come to.
ReadsFrom(r, m, t, N) ==
  r = [n \in 0 .. N |-> IF n = 0 THEN {m}
                        ELSE UNION {IF x.up THEN Pages!ReadPage(x, t, n - 1) ELSE {x} : x \in r[n - 1]}]

\* There is such a function.
LEMMA ReadsExist ==
  ASSUME NEW m, NEW t, NEW N \in Nat
  PROVE  \E r : ReadsFrom(r, m, t, N)
<1> DEFINE T == {k \in Nat : \E r : ReadsFrom(r, m, t, k)}
           After(S, n) == UNION {IF x.up THEN Pages!ReadPage(x, t, n - 1) ELSE {x} : x \in S}
<1>1. 0 \in T
  <2>1. ReadsFrom([n \in 0 .. 0 |-> {m}], m, t, 0)
    BY DEF ReadsFrom
  <2> QED
    BY <2>1
<1>2. ASSUME NEW k \in Nat, k \in T
      PROVE  k + 1 \in T
  <2>1. PICK r : ReadsFrom(r, m, t, k)
    BY <1>2
  <2>2. r = [n \in 0 .. k |-> IF n = 0 THEN {m} ELSE After(r[n - 1], n)]
    BY <2>1 DEF ReadsFrom
  <2> DEFINE q == [n \in 0 .. k + 1 |-> IF n = k + 1 THEN After(r[k], k + 1) ELSE r[n]]
  <2> HIDE DEF After
  <2>3. \A n \in 0 .. k : q[n] = r[n] /\ n \in 0 .. k + 1
    OBVIOUS
  <2>4. q[k + 1] = After(r[k], k + 1)
    OBVIOUS
  <2>5. ASSUME NEW n \in 0 .. k + 1
        PROVE  q[n] = IF n = 0 THEN {m} ELSE After(q[n - 1], n)
    <3>1. CASE n = k + 1
      <4>1. n # 0 /\ n - 1 = k /\ k \in 0 .. k
        BY <3>1
      <4> HIDE DEF q
      <4> QED
        BY <2>3, <2>4, <3>1, <4>1
    <3>2. CASE n # k + 1
      <4>1. n \in 0 .. k /\ (n # 0 => n - 1 \in 0 .. k)
        BY <3>2
      <4>2. r[n] = IF n = 0 THEN {m} ELSE After(r[n - 1], n)
        BY <2>2, <4>1
      <4> HIDE DEF q
      <4> QED
        BY <2>3, <4>1, <4>2
    <3> QED
      BY <3>1, <3>2
  <2>6. q = [n \in 0 .. k + 1 |-> q[n]]
    OBVIOUS
  <2> HIDE DEF q
  <2>7. q = [n \in 0 .. k + 1 |-> IF n = 0 THEN {m} ELSE After(q[n - 1], n)]
    BY <2>5, <2>6
  <2>8. ReadsFrom(q, m, t, k + 1)
    BY <2>7 DEF ReadsFrom, After
  <2> QED
    BY <2>8
<1> HIDE DEF T
<1>3. Nat \subseteq T
  BY <1>1, <1>2, SetInduction
<1> QED
  BY <1>3 DEF T

\* A scan changes no file.
LEMMA ScanKeeps ==
  ASSUME NEW m, NEW f \in [Paged -> Seq(Pages!Page)], NEW t \in Paged, Midway(m, f, t, {}),
         NEW N, N = Len(f[t]), NEW r, ReadsFrom(r, m, t, N), NEW x \in r[N]
  PROVE  Midway(x, f, t, {})
<1> DEFINE T == {k \in Nat : k <= N => \A y \in r[k] : Midway(y, f, t, {})}
<1>1. N \in Nat
  OBVIOUS
<1>2. 0 \in T
  <2>1. r[0] = {m}
    BY <1>1 DEF ReadsFrom
  <2> QED
    BY <2>1
<1>3. ASSUME NEW k \in Nat, k \in T
      PROVE  k + 1 \in T
  <2> SUFFICES ASSUME k + 1 <= N, NEW y \in r[k + 1]
               PROVE  Midway(y, f, t, {})
    OBVIOUS
  <2>1. k + 1 \in 0 .. N /\ k + 1 # 0 /\ (k + 1) - 1 = k /\ k < Len(f[t]) /\ k <= N
    BY <1>1
  <2>2. r[k + 1] = UNION {IF z.up THEN Pages!ReadPage(z, t, k) ELSE {z} : z \in r[k]}
    BY SMTT(40), <2>1 DEF ReadsFrom
  <2>3. PICK z \in r[k] : y \in IF z.up THEN Pages!ReadPage(z, t, k) ELSE {z}
    BY <2>2
  <2>4. Midway(z, f, t, {})
    BY <1>3, <2>1, <2>3
  <2> QED
    BY <2>1, <2>3, <2>4, ReadPageKeeps
<1> HIDE DEF T
<1>4. Nat \subseteq T
  BY <1>2, <1>3, SetInduction
<1> QED
  BY <1>1, <1>4 DEF T

-----------------------------------------------------------------------------
(* The shape of the paged tables, whatever fails *)

\* The step from m to r lengthens no file, and the same calls fail.
SameLengths(r, m) == r.fails = m.fails /\ \A u \in Paged : Len(r.file[u]) = Len(m.file[u])

\* A memory of the right shape, part by part.
LEMMA ShapedParts ==
  ASSUME NEW m, Shaped(m)
  PROVE  /\ m = [file |-> m.file, cache |-> m.cache, up |-> m.up, fails |-> m.fails]
         /\ m.file \in [Paged -> Seq(Pages!Page)] /\ m.cache \in Seq(Pages!Entry)
         /\ m.up \in BOOLEAN /\ m.fails \in Pages!Fault
         /\ Len(m.cache) \in Nat /\ DOMAIN m.cache = 1 .. Len(m.cache)
         /\ \A i \in DOMAIN m.cache : /\ m.cache[i] \in Pages!Entry /\ m.cache[i].tbl \in Paged
                                      /\ m.cache[i].id \in Nat /\ m.cache[i].page \in Pages!Page
         /\ \A u \in Paged : /\ m.file[u] \in Seq(Pages!Page) /\ Len(m.file[u]) \in Nat
                             /\ DOMAIN m.file[u] = 1 .. Len(m.file[u])
                             /\ \A k \in 1 .. Len(m.file[u]) : m.file[u][k] \in Pages!Page
<1>1. /\ m = [file |-> m.file, cache |-> m.cache, up |-> m.up, fails |-> m.fails]
      /\ m.file \in [Paged -> Seq(Pages!Page)] /\ m.cache \in Seq(Pages!Entry)
      /\ m.up \in BOOLEAN /\ m.fails \in Pages!Fault
  BY DEF Shaped, Memories
<1>2. Len(m.cache) \in Nat /\ DOMAIN m.cache = 1 .. Len(m.cache)
  BY <1>1
<1>3. \A i \in DOMAIN m.cache : m.cache[i] \in Pages!Entry
  BY <1>1, <1>2
<1>4. \A i \in DOMAIN m.cache : m.cache[i].tbl \in Paged /\ m.cache[i].id \in Nat /\ m.cache[i].page \in Pages!Page
  BY <1>3 DEF Pages!Entry
<1>5. \A u \in Paged : /\ m.file[u] \in Seq(Pages!Page) /\ Len(m.file[u]) \in Nat
                       /\ DOMAIN m.file[u] = 1 .. Len(m.file[u])
                       /\ \A k \in 1 .. Len(m.file[u]) : m.file[u][k] \in Pages!Page
  BY <1>1
<1> QED
  BY <1>1, <1>2, <1>3, <1>4, <1>5

\* makeRoom.
LEMMA MakeRoomShaped ==
  ASSUME NEW m, Shaped(m), NEW r, r = Pages!MakeRoom(m)
  PROVE  Shaped(r) /\ Len(r.cache) < MaxPages /\ SameLengths(r, m) /\ r.up = m.up
<1> DEFINE c == m.cache
<1>1. /\ m = [file |-> m.file, cache |-> c, up |-> m.up, fails |-> m.fails]
      /\ m.file \in [Paged -> Seq(Pages!Page)] /\ c \in Seq(Pages!Entry)
      /\ m.up \in BOOLEAN /\ m.fails \in Pages!Fault
      /\ Len(c) \in Nat /\ DOMAIN c = 1 .. Len(c)
  BY ShapedParts
<1>2. MaxPages \in Nat \ {0} /\ Len(c) <= MaxPages /\ CachedOnce(c)
  BY PagesAssumption DEF Shaped
<1>3. CASE Len(c) < MaxPages
  BY <1>3 DEF Pages!MakeRoom, SameLengths
<1>4. CASE ~(Len(c) < MaxPages)
  <2> DEFINE h == Head(c)
             d == Tail(c)
             g == IF h.dirty /\ Pages!Lands(m, h) THEN Pages!Written(m.file, h) ELSE m.file
  <2>1. Len(c) = MaxPages /\ c # <<>> /\ 1 \in DOMAIN c
    BY <1>1, <1>2, <1>4
  <2>2. /\ h = c[1] /\ d \in Seq(Pages!Entry) /\ Len(d) = Len(c) - 1
        /\ DOMAIN d = 1 .. Len(c) - 1 /\ \A i \in 1 .. Len(c) - 1 : d[i] = c[i + 1]
    BY <1>1, <2>1
  <2>3. h.tbl \in Paged /\ h.id \in Nat /\ h.page \in Pages!Page
    BY <2>1, <2>2, ShapedParts
  <2>4. r = [m EXCEPT !.cache = d, !.file = g]
    BY <1>4 DEF Pages!MakeRoom
  <2> HIDE DEF h, d
  <2>5. g \in [Paged -> Seq(Pages!Page)] /\ \A u \in Paged : Len(g[u]) = Len(m.file[u])
    <3>1. CASE h.dirty /\ Pages!Lands(m, h)
      <4>1. /\ m.file[h.tbl] \in Seq(Pages!Page) /\ Len(m.file[h.tbl]) \in Nat
            /\ h.id + 1 \in 1 .. Len(m.file[h.tbl])
        BY <1>1, <2>3, <3>1 DEF Pages!Lands
      <4> DEFINE x == [m.file[h.tbl] EXCEPT ![h.id + 1] = h.page]
      <4>2. x \in Seq(Pages!Page) /\ Len(x) = Len(m.file[h.tbl])
        BY <2>3, <4>1
      <4>3. g = [m.file EXCEPT ![h.tbl] = x]
        BY <3>1 DEF Pages!Written
      <4> HIDE DEF x, g
      <4> QED
        BY <1>1, <2>3, <4>2, <4>3
    <3>2. CASE ~(h.dirty /\ Pages!Lands(m, h))
      BY <1>1, <3>2
    <3> QED
      BY <3>1, <3>2
  <2> HIDE DEF g
  <2>6. r = [file |-> g, cache |-> d, up |-> m.up, fails |-> m.fails]
    BY <1>1, <2>4
  <2>7. CachedOnce(d)
    <3>1. ASSUME NEW i \in 1 .. Len(c) - 1, NEW j \in 1 .. Len(c) - 1, d[i].tbl = d[j].tbl, d[i].id = d[j].id
          PROVE  i = j
      <4>1. i + 1 \in DOMAIN c /\ j + 1 \in DOMAIN c /\ d[i] = c[i + 1] /\ d[j] = c[j + 1]
        BY <1>1, <2>2
      <4>2. i + 1 = j + 1
        BY <1>2, <3>1, <4>1 DEF CachedOnce
      <4> QED
        BY <4>2
    <3> QED
      BY <2>2, <3>1 DEF CachedOnce
  <2>8. r \in Memories
    BY <1>1, <2>2, <2>5, <2>6 DEF Memories
  <2>9. r.cache = d /\ r.file = g /\ r.up = m.up /\ r.fails = m.fails /\ Len(d) < MaxPages /\ Len(d) <= MaxPages
    BY <1>2, <2>1, <2>2, <2>6
  <2> QED
    BY <2>5, <2>7, <2>8, <2>9 DEF Shaped, SameLengths
<1> QED
  BY <1>3, <1>4

\* A page as init makes it.
LEMMA NewPageIsPage ==
  ASSUME NEW id \in Nat
  PROVE  Pages!NewPage(id) \in Pages!Page
BY DEF Pages!NewPage, Pages!Page

\* The page that readPage returns is a page, also when the file cannot be opened.
LEMMA ViewShaped ==
  ASSUME NEW m, Shaped(m), NEW t \in Paged, NEW id \in Nat, id < Len(m.file[t]) \/ Pages!InCache(m, t, id)
  PROVE  /\ Pages!View(m, t, id) \in Pages!Page
         /\ Pages!InCache(m, t, id) => /\ Pages!Cached(m, t, id).page = Pages!View(m, t, id)
                                       /\ Pages!Cached(m, t, id).dirty \in BOOLEAN
<1>1. CASE Pages!InCache(m, t, id)
  <2> DEFINE k == CHOOSE i \in DOMAIN m.cache : Pages!Is(m.cache[i], t, id)
  <2>1. k \in DOMAIN m.cache
    BY <1>1 DEF Pages!InCache
  <2>2. Pages!Cached(m, t, id) = m.cache[k] /\ Pages!View(m, t, id) = m.cache[k].page
    BY <1>1 DEF Pages!View, Pages!Cached
  <2> HIDE DEF k
  <2>3. m.cache[k] \in Pages!Entry
    BY <2>1, ShapedParts
  <2> QED
    BY <2>2, <2>3 DEF Pages!Entry
<1>2. CASE ~Pages!InCache(m, t, id) /\ m.fails = "read"
  BY <1>2, NewPageIsPage DEF Pages!View
<1>3. CASE ~Pages!InCache(m, t, id) /\ m.fails # "read"
  <2>1. m.file[t] \in Seq(Pages!Page) /\ id + 1 \in 1 .. Len(m.file[t])
    BY <1>3, ShapedParts
  <2> QED
    BY <1>3, <2>1 DEF Pages!View
<1> QED
  BY <1>1, <1>2, <1>3

\* The process dies.
LEMMA DiedShaped ==
  ASSUME NEW m, Shaped(m), NEW r, r = Pages!Died(m)
  PROVE  Shaped(r) /\ SameLengths(r, m)
<1>1. /\ m = [file |-> m.file, cache |-> m.cache, up |-> m.up, fails |-> m.fails]
      /\ m.file \in [Paged -> Seq(Pages!Page)] /\ m.fails \in Pages!Fault
  BY ShapedParts
<1>2. r = [file |-> m.file, cache |-> <<>>, up |-> FALSE, fails |-> m.fails]
  BY <1>1 DEF Pages!Died
<1>3. Len(<<>>) = 0 /\ DOMAIN <<>> = {} /\ 0 <= MaxPages
  BY PagesAssumption
<1>4. r \in Memories /\ r.cache = <<>> /\ r.file = m.file /\ r.fails = m.fails
  BY <1>1, <1>2 DEF Memories
<1> QED
  BY <1>3, <1>4 DEF Shaped, SameLengths, CachedOnce

\* readPage.
LEMMA ReadShaped ==
  ASSUME NEW m, Shaped(m), NEW t \in Paged, NEW id \in Nat, id < Len(m.file[t]), NEW r \in Pages!ReadPage(m, t, id)
  PROVE  Shaped(r) /\ SameLengths(r, m)
<1> DEFINE pg == Pages!View(m, t, id)
<1>1. pg \in Pages!Page
  BY ViewShaped
<1>2. CASE Pages!InCache(m, t, id)
  <2> DEFINE w == Pages!Cached(m, t, id).dirty
  <2>1. Pages!Cached(m, t, id).page = pg /\ w \in BOOLEAN
    BY <1>2, ViewShaped
  <2>2. r = Pages!Put(m, t, id, pg, w)
    BY <1>2, <2>1 DEF Pages!ReadPage
  <2> HIDE DEF w, pg
  <2>3. Shaped(r) /\ PutInto(r, m, EntryOf(t, id, pg, w))
    BY <1>1, <1>2, <2>1, <2>2, PutShaped
  <2> QED
    BY <2>3 DEF PutInto, SameLengths
<1>3. CASE ~Pages!InCache(m, t, id)
  <2> DEFINE room == Pages!MakeRoom(m)
             read == Pages!Put(room, t, id, pg, FALSE)
  <2>1. r \in {read, room, Pages!Died(room)}
    BY <1>3 DEF Pages!ReadPage
  <2>2. Shaped(room) /\ Len(room.cache) < MaxPages /\ SameLengths(room, m)
    BY MakeRoomShaped
  <2>3. FALSE \in BOOLEAN
    OBVIOUS
  <2> HIDE DEF room, pg
  <2>4. Shaped(read) /\ PutInto(read, room, EntryOf(t, id, pg, FALSE))
    BY <1>1, <2>2, <2>3, PutShaped
  <2> HIDE DEF read
  <2>5. SameLengths(read, m)
    BY <2>2, <2>4 DEF PutInto, SameLengths
  <2>6. Shaped(Pages!Died(room)) /\ SameLengths(Pages!Died(room), room)
    BY <2>2, DiedShaped
  <2>7. SameLengths(Pages!Died(room), m)
    BY <2>2, <2>6 DEF SameLengths
  <2> QED
    BY <2>1, <2>2, <2>4, <2>5, <2>6, <2>7
<1> QED
  BY <1>2, <1>3

\* writePage.
LEMMA WriteShaped ==
  ASSUME NEW m, Shaped(m), NEW t \in Paged, NEW pg \in Pages!Page
  PROVE  Shaped(Pages!WritePage(m, t, pg))
<1> DEFINE room == Pages!MakeRoom(m)
<1>1. Shaped(room) /\ Len(room.cache) < MaxPages
  BY MakeRoomShaped
<1>2. pg.id \in Nat /\ TRUE \in BOOLEAN
  BY DEF Pages!Page
<1>3. Pages!WritePage(m, t, pg) = Pages!Put(room, t, pg.id, pg, TRUE)
  BY DEF Pages!WritePage
<1> HIDE DEF room
<1> QED
  BY <1>1, <1>2, <1>3, PutShaped

\* allocatePage.
LEMMA AllocShaped ==
  ASSUME NEW m, Shaped(m), NEW t \in Paged, NEW r \in Pages!AllocatePage(m, t)
  PROVE  Shaped(r)
<1> DEFINE y == Pages!Grown(m, t)
           n == Pages!PageCount(m, t)
<1>1. /\ m = [file |-> m.file, cache |-> m.cache, up |-> m.up, fails |-> m.fails]
      /\ m.file \in [Paged -> Seq(Pages!Page)] /\ m.cache \in Seq(Pages!Entry)
      /\ m.up \in BOOLEAN /\ m.fails \in Pages!Fault
  BY ShapedParts
<1>2. n \in Nat /\ Pages!NewPage(0) \in Pages!Page /\ Pages!NewPage(n) \in Pages!Page
  <2>1. n \in Nat
    BY ShapedParts DEF Pages!PageCount
  <2> HIDE DEF n
  <2> QED
    BY <2>1, NewPageIsPage
<1>3. Shaped(y)
  <2>1. CASE m.fails = "grow"
    BY <2>1 DEF Pages!Grown
  <2>2. CASE m.fails # "grow"
    <3> DEFINE g == [m.file EXCEPT ![t] = Append(m.file[t], Pages!NewPage(0))]
    <3>1. g \in [Paged -> Seq(Pages!Page)]
      <4>1. Append(m.file[t], Pages!NewPage(0)) \in Seq(Pages!Page)
        BY <1>1, <1>2
      <4> QED
        BY <1>1, <4>1
    <3>2. y = [m EXCEPT !.file = g]
      BY <2>2 DEF Pages!Grown
    <3> HIDE DEF g
    <3>3. y = [file |-> g, cache |-> m.cache, up |-> m.up, fails |-> m.fails]
      BY <1>1, <3>2
    <3> HIDE DEF y
    <3>4. y \in Memories /\ y.cache = m.cache
      BY <1>1, <3>1, <3>3 DEF Memories
    <3> QED
      BY <3>4 DEF Shaped
  <2> QED
    BY <2>1, <2>2
<1> DEFINE room == Pages!MakeRoom(y)
<1>4. r = Pages!Died(y) \/ r = Pages!Put(room, t, n, Pages!NewPage(n), TRUE)
  BY DEF Pages!AllocatePage
<1> HIDE DEF y, n
<1>5. Shaped(room) /\ Len(room.cache) < MaxPages
  BY <1>3, MakeRoomShaped
<1>6. TRUE \in BOOLEAN
  OBVIOUS
<1> HIDE DEF room
<1>7. CASE r = Pages!Died(y)
  BY <1>3, <1>7, DiedShaped
<1>8. CASE r = Pages!Put(room, t, n, Pages!NewPage(n), TRUE)
  BY <1>2, <1>5, <1>6, <1>8, PutShaped
<1> QED
  BY <1>4, <1>7, <1>8

\* flushDirtyPages: the file of t keeps its length and has pages at every place.
LEMMA FlushShaped ==
  ASSUME NEW m, Shaped(m), NEW t \in Paged, NEW o \in Pages!FlushDirtyPages(m, t)
  PROVE  Shaped(o)
<1> DEFINE D == {i \in DOMAIN m.cache : m.cache[i].tbl = t /\ m.cache[i].dirty}
           S(es) == [k \in DOMAIN m.file[t] |->
                       IF m.fails # "write" /\ \E i \in es : m.cache[i].id + 1 = k
                       THEN Pages!View(m, t, k - 1) ELSE m.file[t][k]]
           G(es) == [m.file EXCEPT ![t] = S(es)]
           With(es) == [m EXCEPT !.file[t] = [k \in DOMAIN @ |->
                          IF m.fails # "write" /\ \E i \in es : m.cache[i].id + 1 = k
                          THEN Pages!View(m, t, k - 1) ELSE @[k]]]
           c == [i \in DOMAIN m.cache |-> IF m.cache[i].tbl = t THEN [m.cache[i] EXCEPT !.dirty = FALSE] ELSE m.cache[i]]
<1>1. /\ m = [file |-> m.file, cache |-> m.cache, up |-> m.up, fails |-> m.fails]
      /\ m.file \in [Paged -> Seq(Pages!Page)] /\ m.cache \in Seq(Pages!Entry)
      /\ m.up \in BOOLEAN /\ m.fails \in Pages!Fault
      /\ Len(m.cache) \in Nat /\ DOMAIN m.cache = 1 .. Len(m.cache)
      /\ m.file[t] \in Seq(Pages!Page) /\ Len(m.file[t]) \in Nat /\ DOMAIN m.file[t] = 1 .. Len(m.file[t])
      /\ \A k \in 1 .. Len(m.file[t]) : m.file[t][k] \in Pages!Page
  BY ShapedParts
<1>2. ASSUME NEW es
      PROVE  Shaped(With(es)) /\ With(es).cache = m.cache
  <2> DEFINE s == S(es)
             n == Len(m.file[t])
  <2>1. \A k \in 1 .. n : Pages!View(m, t, k - 1) \in Pages!Page
    <3>1. \A k \in 1 .. n : k - 1 \in Nat /\ k - 1 < Len(m.file[t])
      BY <1>1
    <3> QED
      BY <3>1, ViewShaped
  <2>2. \A k \in 1 .. n : s[k] \in Pages!Page
    BY <1>1, <2>1
  <2>3. s = [k \in 1 .. n |-> s[k]]
    BY <1>1
  <2>4. n \in Nat
    BY <1>1
  <2> HIDE DEF s, n
  <2>5. s \in Seq(Pages!Page)
    BY Zenon, <2>2, <2>3, <2>4, FunctionIsSeq
  <2> DEFINE g == [m.file EXCEPT ![t] = s]
  <2>6. g \in [Paged -> Seq(Pages!Page)]
    BY <1>1, <2>5
  <2>7. With(es) = [m EXCEPT !.file = g]
    BY DEF s
  <2> DEFINE w == With(es)
  <2> HIDE DEF g, w, With
  <2>8. w = [file |-> g, cache |-> m.cache, up |-> m.up, fails |-> m.fails]
    BY <1>1, <2>7 DEF w
  <2>9. w \in Memories /\ w.cache = m.cache
    BY <1>1, <2>6, <2>8 DEF Memories
  <2>10. Shaped(w)
    BY <2>9 DEF Shaped
  <2> QED
    BY <2>9, <2>10 DEF w
<1>3. (\E es \in SUBSET D : o = Pages!Died(With(es))) \/ o = [With(D) EXCEPT !.cache = c]
  <2>1. With(D).cache = m.cache
    BY <1>2
  <2>2. \/ \E es \in SUBSET D : o = Pages!Died(With(es))
        \/ o = [With(D) EXCEPT !.cache = [i \in DOMAIN With(D).cache |->
             IF With(D).cache[i].tbl = t THEN [With(D).cache[i] EXCEPT !.dirty = FALSE] ELSE With(D).cache[i]]]
    BY DEF Pages!FlushDirtyPages
  <2> HIDE DEF With, D
  <2> QED
    BY <2>1, <2>2
<1> HIDE DEF With, D, c
<1>4. CASE \E es \in SUBSET D : o = Pages!Died(With(es))
  BY <1>2, <1>4, DiedShaped
<1>5. CASE o = [With(D) EXCEPT !.cache = c]
  <2> DEFINE w == With(D)
  <2>1. Shaped(w)
    BY <1>2
  <2> HIDE DEF w
  <2>2. /\ w = [file |-> w.file, cache |-> w.cache, up |-> w.up, fails |-> w.fails]
        /\ w.file \in [Paged -> Seq(Pages!Page)] /\ w.up \in BOOLEAN /\ w.fails \in Pages!Fault
    BY <2>1, ShapedParts
  <2>3. ASSUME NEW i \in 1 .. Len(m.cache)
        PROVE  c[i] \in Pages!Entry /\ c[i].tbl = m.cache[i].tbl /\ c[i].id = m.cache[i].id
    <3> DEFINE e == m.cache[i]
    <3>1. e \in Pages!Entry
      BY <1>1
    <3>2. c[i] = IF e.tbl = t THEN [e EXCEPT !.dirty = FALSE] ELSE e
      BY <1>1 DEF c
    <3> HIDE DEF e
    <3>3. e = [tbl |-> e.tbl, id |-> e.id, page |-> e.page, dirty |-> e.dirty]
      BY <3>1 DEF Pages!Entry
    <3>4. c[i] = e \/ c[i] = [tbl |-> e.tbl, id |-> e.id, page |-> e.page, dirty |-> FALSE]
      BY <3>2, <3>3
    <3>5. e.tbl \in Paged /\ e.id \in Nat /\ e.page \in Pages!Page /\ FALSE \in BOOLEAN
      BY <3>1 DEF Pages!Entry
    <3> DEFINE d == c[i]
    <3> HIDE DEF d
    <3>6. d = e \/ d = [tbl |-> e.tbl, id |-> e.id, page |-> e.page, dirty |-> FALSE]
      BY <3>4 DEF d
    <3>7. d \in Pages!Entry /\ d.tbl = e.tbl /\ d.id = e.id
      <4>1. CASE d = e
        BY <3>1, <4>1
      <4>2. CASE d = [tbl |-> e.tbl, id |-> e.id, page |-> e.page, dirty |-> FALSE]
        <5>1. [tbl |-> e.tbl, id |-> e.id, page |-> e.page, dirty |-> FALSE] \in Pages!Entry
          BY <3>5 DEF Pages!Entry
        <5> QED
          BY <4>2, <5>1
      <4> QED
        BY <3>6, <4>1, <4>2
    <3> QED
      BY <3>7 DEF d, e
  <2>4. c = [i \in 1 .. Len(m.cache) |-> c[i]] /\ DOMAIN c = 1 .. Len(m.cache)
    BY <1>1 DEF c
  <2>5. c \in Seq(Pages!Entry) /\ Len(c) = Len(m.cache)
    <3> DEFINE n == Len(m.cache)
    <3>1. n \in Nat /\ c = [i \in 1 .. n |-> c[i]] /\ \A i \in 1 .. n : c[i] \in Pages!Entry
      BY <1>1, <2>3, <2>4
    <3> HIDE DEF n
    <3>2. c \in Seq(Pages!Entry) /\ Len(c) = n
      BY Zenon, <3>1, FunctionIsSeq
    <3> QED
      BY <3>2 DEF n
  <2>6. CachedOnce(c)
    <3>1. \A i, j \in 1 .. Len(m.cache) : m.cache[i].tbl = m.cache[j].tbl /\ m.cache[i].id = m.cache[j].id => i = j
      BY <1>1 DEF Shaped, CachedOnce
    <3> QED
      BY <2>3, <2>4, <3>1 DEF CachedOnce
  <2>7. o = [file |-> w.file, cache |-> c, up |-> w.up, fails |-> w.fails]
    BY <1>5, <2>2 DEF w
  <2>8. o \in Memories /\ o.cache = c
    BY <2>2, <2>5, <2>7 DEF Memories
  <2> QED
    BY <2>5, <2>6, <2>8 DEF Shaped
<1> QED
  BY <1>3, <1>4, <1>5

\* Writing a page and flushing.
LEMMA WriteFlushShaped ==
  ASSUME NEW m, Shaped(m), NEW t \in Paged, NEW pg \in Pages!Page,
         NEW o \in Pages!FlushDirtyPages(Pages!WritePage(m, t, pg), t)
  PROVE  Shaped(o)
BY WriteShaped, FlushShaped

\* insertRow.
LEMMA InsertShaped ==
  ASSUME NEW m, Shaped(m), NEW t \in Paged, NEW row \in Pages!Row, NEW o \in Pages!InsertRow(m, t, row)
  PROVE  Shaped(o)
<1> DEFINE n == Pages!PageCount(m, t)
           last == Pages!View(m, t, n - 1)
           fresh == Pages!AddRow(Pages!NewPage(n), row)
<1>1. n \in Nat /\ n <= Len(m.file[t]) /\ Len(m.file[t]) \in Nat
  BY ShapedParts DEF Pages!PageCount
<1>2. fresh \in Pages!Page
  <2>1. Pages!NewPage(n) \in Pages!Page
    BY <1>1, NewPageIsPage
  <2> QED
    BY <2>1, AddRowResult
<1> HIDE DEF n, fresh
<1>3. CASE n = 0
  <2>1. PICK x \in Pages!AllocatePage(m, t) :
          IF x.up THEN o \in Pages!FlushDirtyPages(Pages!WritePage(x, t, fresh), t) ELSE o = x
    BY <1>3 DEF Pages!InsertRow, Pages!Then, n, fresh
  <2>2. Shaped(x)
    BY AllocShaped
  <2> QED
    BY <1>2, <2>1, <2>2, WriteFlushShaped
<1>4. CASE n # 0
  <2>1. n - 1 \in Nat /\ n - 1 < Len(m.file[t])
    BY <1>1, <1>4
  <2>2. last \in Pages!Page
    BY <2>1, ViewShaped
  <2>3. Pages!AddRow(last, row) \in Pages!Page
    BY <2>2, AddRowResult
  <2>4. o \in Pages!Then(Pages!ReadPage(m, t, n - 1),
                LAMBDA r :
                  IF Pages!Fits(last, row)
                  THEN Pages!FlushDirtyPages(Pages!WritePage(r, t, Pages!AddRow(last, row)), t)
                  ELSE Pages!Then(Pages!AllocatePage(r, t),
                            LAMBDA x : Pages!FlushDirtyPages(
                              Pages!WritePage(Pages!WritePage(x, t, last), t, fresh), t)))
    BY <1>4 DEF Pages!InsertRow, n, fresh
  <2> HIDE DEF last
  <2>5. PICK r \in Pages!ReadPage(m, t, n - 1) :
          o \in IF r.up
                THEN IF Pages!Fits(last, row)
                     THEN Pages!FlushDirtyPages(Pages!WritePage(r, t, Pages!AddRow(last, row)), t)
                     ELSE Pages!Then(Pages!AllocatePage(r, t),
                            LAMBDA x : Pages!FlushDirtyPages(
                              Pages!WritePage(Pages!WritePage(x, t, last), t, fresh), t))
                ELSE {r}
    BY <2>4 DEF Pages!Then
  <2>6. Shaped(r)
    BY <2>1, ReadShaped
  <2>7. CASE ~r.up
    BY <2>5, <2>6, <2>7
  <2>8. CASE r.up /\ Pages!Fits(last, row)
    BY <2>3, <2>5, <2>6, <2>8, WriteFlushShaped
  <2>9. CASE r.up /\ ~Pages!Fits(last, row)
    <3>1. PICK x \in Pages!AllocatePage(r, t) :
            o \in IF x.up
                  THEN Pages!FlushDirtyPages(Pages!WritePage(Pages!WritePage(x, t, last), t, fresh), t)
                  ELSE {x}
      BY <2>5, <2>9 DEF Pages!Then
    <3>2. Shaped(x)
      BY <2>6, AllocShaped
    <3>3. Shaped(Pages!WritePage(x, t, last))
      BY <2>2, <3>2, WriteShaped
    <3> QED
      BY <1>2, <3>1, <3>2, <3>3, WriteFlushShaped
  <2> QED
    BY <2>7, <2>8, <2>9
<1> QED
  BY <1>3, <1>4

\* r reads one page more after the first k.
ReadsOneMore(r, t, k) == r[k + 1] = UNION {IF z.up THEN Pages!ReadPage(z, t, k) ELSE {z} : z \in r[k]}

\* It does so up to the last.
LEMMA ReadsStep ==
  ASSUME NEW m, NEW t, NEW N \in Nat, NEW r, ReadsFrom(r, m, t, N), NEW k \in Nat, k + 1 <= N
  PROVE  ReadsOneMore(r, t, k)
<1> DEFINE After(n) == UNION {IF x.up THEN Pages!ReadPage(x, t, n - 1) ELSE {x} : x \in r[n - 1]}
<1>1. k + 1 \in 0 .. N /\ k + 1 # 0 /\ (k + 1) - 1 = k
  OBVIOUS
<1>2. r = [n \in 0 .. N |-> IF n = 0 THEN {m} ELSE After(n)]
  BY DEF ReadsFrom
<1> HIDE DEF After
<1>3. r[k + 1] = After(k + 1)
  BY <1>1, <1>2
<1>4. After(k + 1) = UNION {IF x.up THEN Pages!ReadPage(x, t, (k + 1) - 1) ELSE {x} : x \in r[(k + 1) - 1]}
  BY DEF After
<1>5. r[k + 1] = UNION {IF x.up THEN Pages!ReadPage(x, t, k) ELSE {x} : x \in r[k]}
  BY Zenon, <1>1, <1>3, <1>4
<1> QED
  BY <1>5 DEF ReadsOneMore

\* scanAll.
LEMMA ScanShaped ==
  ASSUME NEW m, Shaped(m), NEW t \in Paged, NEW N \in Nat, N <= Len(m.file[t]),
         NEW r, ReadsFrom(r, m, t, N), NEW x \in r[N]
  PROVE  Shaped(x)
<1> DEFINE T == {k \in Nat : k <= N => \A y \in r[k] : Shaped(y) /\ SameLengths(y, m)}
<1>1. 0 \in T
  <2>1. r[0] = {m}
    BY DEF ReadsFrom
  <2> QED
    BY <2>1 DEF SameLengths
<1>2. ASSUME NEW k \in Nat, k \in T
      PROVE  k + 1 \in T
  <2> SUFFICES ASSUME k + 1 <= N, NEW y \in r[k + 1]
               PROVE  Shaped(y) /\ SameLengths(y, m)
    OBVIOUS
  <2>0. Len(m.file[t]) \in Nat
    BY ShapedParts
  <2>1. k + 1 \in 0 .. N /\ k + 1 # 0 /\ (k + 1) - 1 = k /\ k < Len(m.file[t]) /\ k <= N
    BY <2>0
  <2>2. ReadsOneMore(r, t, k)
    BY ReadsStep
  <2>3. PICK z \in r[k] : y \in IF z.up THEN Pages!ReadPage(z, t, k) ELSE {z}
    BY <2>2 DEF ReadsOneMore
  <2>4. Shaped(z) /\ SameLengths(z, m)
    BY <1>2, <2>1, <2>3
  <2>5. k < Len(z.file[t])
    BY <2>1, <2>4 DEF SameLengths
  <2>6. (Shaped(y) /\ SameLengths(y, z)) \/ y = z
    BY <2>3, <2>4, <2>5, ReadShaped
  <2> QED
    BY <2>4, <2>6 DEF SameLengths
<1> HIDE DEF T
<1>3. Nat \subseteq T
  BY <1>1, <1>2, SetInduction
<1> QED
  BY <1>3 DEF T

\* What a scan can come to.
LEMMA ScanIsReads ==
  ASSUME NEW m, NEW t, NEW N \in Nat, N = Pages!PageCount(m, t), NEW x \in Pages!Scans(m, t)
  PROVE  \E r : ReadsFrom(r, m, t, N) /\ x \in r[N]
<1> DEFINE r == CHOOSE q : ReadsFrom(q, m, t, N)
<1>1. ReadsFrom(r, m, t, N)
  BY ReadsExist
<1>2. Pages!Scans(m, t) = r[N]
  BY DEF Pages!Scans, Pages!Then, ReadsFrom
<1> QED
  BY <1>1, <1>2
-----------------------------------------------------------------------------
(* The invariant of the paged tables *)

\* The cache holds pages as they are in the files.
CleanCache ==
  /\ cache \in Seq(Pages!Entry) /\ Len(cache) <= MaxPages /\ CachedOnce(cache)
  /\ \A i \in DOMAIN cache : /\ ~cache[i].dirty /\ cache[i].id < Len(pages[cache[i].tbl])
                             /\ cache[i].page = pages[cache[i].tbl][cache[i].id + 1]

\* The rows of a table, unless a crash left a page of zeros in it.
RowsKept(s, a) == InNumbers(s) => InOrder(s) /\ \A k \in 1 .. Len(a) : HasRow(s, a[k])

\* While no call on a file has failed.
PagesSound ==
  /\ pages \in [Paged -> Seq(Pages!Page)] /\ issued \in 0 .. MaxIssued /\ answered \in [Paged -> Seq(Pages!Row)]
  /\ CleanCache
  /\ \A t \in Paged : OwnNumbers(pages[t]) /\ NoneAfter(pages[t], issued) /\ RowsKept(pages[t], answered[t])

\* Whatever has failed.
PagesShape ==
  /\ pages \in [Paged -> Seq(Pages!Page)] /\ issued \in 0 .. MaxIssued /\ answered \in [Paged -> Seq(Pages!Row)]
  /\ io \in {"sound", "failed"}
  /\ cache \in Seq(Pages!Entry) /\ Len(cache) <= MaxPages /\ CachedOnce(cache)

PagesInv == PagesShape /\ (io = "sound" => PagesSound)

\* What a statement in which x fails works on.
LEMMA MemoryParts ==
  ASSUME pages \in [Paged -> Seq(Pages!Page)], cache \in Seq(Pages!Entry), NEW x \in Pages!Fault, NEW m, m = Pages!Memory(x)
  PROVE  m \in Memories /\ m.file = pages /\ m.cache = cache /\ m.fails = x /\ m.up
<1>1. m = [file |-> pages, cache |-> cache, up |-> TRUE, fails |-> x]
  BY DEF Pages!Memory
<1>2. m.up
  BY <1>1
<1>3. TRUE \in BOOLEAN
  OBVIOUS
<1>4. m \in Memories /\ m.file = pages /\ m.cache = cache /\ m.fails = x
  BY <1>1, <1>3 DEF Memories
<1> QED
  BY <1>2, <1>4

\* A statement starts from what the invariant says ...
LEMMA StatementStarts ==
  ASSUME PagesSound, NEW t \in Paged
  PROVE  Midway(Pages!Memory("none"), pages, t, {}) /\ Pages!Memory("none").up
<1> DEFINE m == Pages!Memory("none")
<1>1. "none" \in Pages!Fault /\ pages \in [Paged -> Seq(Pages!Page)] /\ cache \in Seq(Pages!Entry)
  BY DEF Pages!Fault, PagesSound, CleanCache
<1> HIDE DEF m
<1>2. m \in Memories /\ m.file = pages /\ m.cache = cache /\ m.fails = "none" /\ m.up
  BY <1>1, MemoryParts DEF m
<1>3. CacheOK(cache, pages, t, {})
  BY DEF PagesSound, CleanCache, CacheOK, EntryOK
<1>4. FilesFrom(pages, pages, t, {})
  BY DEF FilesFrom
<1>5. {} \in SUBSET Pages!Page
  OBVIOUS
<1>6. Midway(m, pages, t, {})
  BY <1>2, <1>3, <1>4, <1>5 DEF Midway
<1> QED
  BY <1>2, <1>6 DEF m

\* ... and ends with it.
LEMMA StatementEnds ==
  ASSUME NEW m, NEW f, NEW t \in Paged, NEW P, Midway(m, f, t, P), AllClean(m.cache),
         pages' = m.file, cache' = m.cache
  PROVE  CleanCache'
<1>1. cache' \in Seq(Pages!Entry) /\ CacheOK(cache', pages', t, P)
  BY DEF Midway, Memories
<1> QED
  BY <1>1 DEF CleanCache, CacheOK, EntryOK, AllClean

\* INSERT.
LEMMA PagesInsert ==
  ASSUME PagesSound, NEW t \in Paged, NEW sz \in RowSizes, Pages!Insert(t, sz), io' = "sound"
  PROVE  PagesSound'
<1> DEFINE row == [n |-> issued + 1, size |-> sz]
           m == Pages!Memory("none")
<1>1. PICK o \in Pages!InsertRow(m, t, row) :
        /\ pages' = o.file /\ cache' = o.cache
        /\ answered' = IF o.up /\ sz <= Capacity THEN [answered EXCEPT ![t] = Append(@, row)] ELSE answered
  <2>1. PICK x \in Pages!Faults : \E o \in Pages!InsertRow(Pages!Memory(x), t, row) :
          /\ Pages!Ends(o, x)
          /\ answered' = IF o.up /\ sz <= Capacity THEN [answered EXCEPT ![t] = Append(@, row)] ELSE answered
    BY DEF Pages!Insert
  <2>2. x = "none"
    BY <2>1 DEF Pages!Ends
  <2> QED
    BY <2>1, <2>2 DEF Pages!Ends
<1>2. issued < MaxIssued /\ issued' = issued + 1
  BY DEF Pages!Insert
<1>3. /\ pages \in [Paged -> Seq(Pages!Page)] /\ issued \in Nat /\ MaxIssued \in Nat
      /\ answered \in [Paged -> Seq(Pages!Row)]
  BY PagesAssumption DEF PagesSound
<1>4. row \in Pages!Row /\ row.n = issued + 1 /\ row.size = sz
  BY <1>2, <1>3 DEF Pages!Row
<1>5. issued' \in 0 .. MaxIssued
  BY <1>2, <1>3
<1>6. Midway(m, pages, t, {}) /\ m.up
  BY StatementStarts
<1>7. pages[t] \in Seq(Pages!Page) /\ Len(pages[t]) \in Nat
  BY <1>3
<1>8. OwnNumbers(pages[t]) /\ NoneAfter(pages[t], issued) /\ RowsKept(pages[t], answered[t])
  BY DEF PagesSound
<1>9. \A i \in 1 .. Len(pages[t]) : pages[t][i].id < Len(pages[t])
  BY <1>7, <1>8 DEF OwnNumbers
<1> HIDE DEF row, m
<1>10. Inserted(o, pages, t, row) /\ AllClean(o.cache)
  BY <1>1, <1>3, <1>4, <1>6, <1>9, InsertRowResult
<1>11. CleanCache'
  <2>1. \E f, P : Midway(o, f, t, P)
    BY <1>10 DEF Inserted
  <2> QED
    BY <1>1, <1>10, <2>1, StatementEnds
<1> DEFINE s == pages[t]
           h == pages'[t]
<1>12. /\ pages' \in [Paged -> Seq(Pages!Page)] /\ \A u \in Paged \ {t} : pages'[u] = pages[u]
       /\ OwnNumbers(h) /\ NoneAfter(h, issued + 1)
       /\ InNumbers(h) => InNumbers(s) /\ (h = s \/ MayHaveGot(h, s, row))
       /\ o.up /\ row.size <= Capacity => HasRow(h, row)
  <2>1. PagesHave(o, pages, t, row, issued)
    BY <1>3, <1>4, <1>8, <1>10, PagesAfterInsert
  <2> QED
    BY <1>1, <2>1 DEF PagesHave
<1>13. /\ answered' \in [Paged -> Seq(Pages!Row)] /\ \A u \in Paged \ {t} : answered'[u] = answered[u]
       /\ answered'[t] = answered[t] \/ (o.up /\ sz <= Capacity /\ answered'[t] = Append(answered[t], row))
  BY <1>1, <1>3, <1>4
<1>14. RowsKept(h, answered'[t])
  <2> SUFFICES ASSUME InNumbers(h)
               PROVE  InOrder(h) /\ \A k \in 1 .. Len(answered'[t]) : HasRow(h, answered'[t][k])
    BY DEF RowsKept
  <2>1. InOrder(s) /\ (\A k \in 1 .. Len(answered[t]) : HasRow(s, answered[t][k])) /\ (h = s \/ MayHaveGot(h, s, row))
    BY <1>8, <1>12 DEF RowsKept
  <2>2. h \in Seq(Pages!Page) /\ s \in Seq(Pages!Page)
    BY <1>7, <1>12
  <2> HIDE DEF h, s
  <2>3. InOrder(h) /\ \A r : HasRow(s, r) => HasRow(h, r)
    <3>1. CASE h = s
      BY <2>1, <3>1
    <3>2. CASE MayHaveGot(h, s, row)
      <4>1. OldOrLast(h, s, row) /\ NoneLost(h, s)
        BY <1>4, <2>2, <3>2, RowsAfterInsert
      <4>2. NoneAfter(s, issued)
        BY <1>8 DEF s
      <4> QED
        BY <1>3, <1>4, <2>1, <2>2, <4>1, <4>2, InsertKeepsRows
    <3> QED
      BY <2>1, <3>1, <3>2
  <2>4. \A k \in 1 .. Len(answered[t]) : HasRow(h, answered[t][k])
    BY <2>1, <2>3
  <2>5. CASE answered'[t] = answered[t]
    BY <2>3, <2>4, <2>5
  <2>6. CASE o.up /\ sz <= Capacity /\ answered'[t] = Append(answered[t], row)
    <3>1. HasRow(h, row)
      BY <1>4, <1>12, <2>6 DEF h
    <3>2. answered[t] \in Seq(Pages!Row) /\ Len(answered[t]) \in Nat
      BY <1>3
    <3> DEFINE a == answered'[t]
    <3>3. /\ Len(a) = Len(answered[t]) + 1 /\ a[Len(answered[t]) + 1] = row
          /\ \A k \in 1 .. Len(answered[t]) : a[k] = answered[t][k]
      BY <1>4, <2>6, <3>2
    <3>4. \A k \in 1 .. Len(answered[t]) + 1 : k \in 1 .. Len(answered[t]) \/ k = Len(answered[t]) + 1
      BY <3>2
    <3> HIDE DEF a
    <3>5. \A k \in 1 .. Len(a) : HasRow(h, a[k])
      BY <2>4, <3>1, <3>3, <3>4
    <3> QED
      BY <2>3, <3>5 DEF a
  <2> QED
    BY <1>13, <2>5, <2>6
<1>15. ASSUME NEW u \in Paged
       PROVE  OwnNumbers(pages'[u]) /\ NoneAfter(pages'[u], issued') /\ RowsKept(pages'[u], answered'[u])
  <2>1. CASE u = t
    BY <1>2, <1>12, <1>14, <2>1
  <2>2. CASE u # t
    <3>1. pages'[u] = pages[u] /\ answered'[u] = answered[u]
      BY <1>12, <1>13, <2>2
    <3>2. OwnNumbers(pages[u]) /\ NoneAfter(pages[u], issued) /\ RowsKept(pages[u], answered[u])
      BY DEF PagesSound
    <3>3. NoneAfter(pages[u], issued + 1)
      <4>1. ASSUME NEW i \in 1 .. Len(pages[u]), NEW j \in 1 .. Len(pages[u][i].rows)
            PROVE  pages[u][i].rows[j].n <= issued + 1
        <5>1. pages[u][i].rows[j].n <= issued
          BY <3>2 DEF NoneAfter
        <5>2. pages[u][i] \in Pages!Page
          BY <1>3
        <5>3. pages[u][i].rows[j].n \in Nat
          BY <1>4, <5>2, RowsOfPage
        <5> QED
          BY SMTT(40), <1>3, <5>1, <5>3
      <4> QED
        BY <4>1 DEF NoneAfter
    <3> QED
      BY <1>2, <3>1, <3>2, <3>3
  <2> QED
    BY <2>1, <2>2
<1> QED
  BY <1>5, <1>11, <1>12, <1>13, <1>15 DEF PagesSound

\* SELECT.
LEMMA PagesSelect ==
  ASSUME PagesSound, NEW t \in Paged, Pages!Select(t), io' = "sound"
  PROVE  PagesSound'
<1> DEFINE N == Len(pages[t])
           m == Pages!Memory("none")
<1>1. /\ pages \in [Paged -> Seq(Pages!Page)] /\ N \in Nat
  BY DEF PagesSound
<1>2. PICK x \in Pages!Scans(m, t) : pages' = x.file /\ cache' = x.cache
  <2>1. PICK y \in Pages!Faults : \E x \in Pages!Scans(Pages!Memory(y), t) : Pages!Ends(x, y)
    BY DEF Pages!Select
  <2>2. y = "none"
    BY <2>1 DEF Pages!Ends
  <2> QED
    BY <2>1, <2>2 DEF Pages!Ends
<1>3. issued' = issued /\ answered' = answered
  BY DEF Pages!Select
<1>4. N = Pages!PageCount(m, t)
  BY DEF Pages!PageCount, Pages!Memory
<1> HIDE DEF m, N
<1>5. PICK r : ReadsFrom(r, m, t, N) /\ x \in r[N]
  BY <1>1, <1>2, <1>4, ScanIsReads
<1>6. Midway(m, pages, t, {})
  BY StatementStarts DEF m
<1>7. Midway(x, pages, t, {})
  BY <1>1, <1>5, <1>6, ScanKeeps DEF N
<1>8. x.file = pages /\ AllClean(x.cache)
  BY <1>1, <1>7, ReadingIsClean DEF AllClean
<1>9. CleanCache'
  BY <1>2, <1>7, <1>8, StatementEnds
<1>10. pages' = pages
  BY <1>2, <1>8
<1> QED
  BY <1>3, <1>9, <1>10 DEF PagesSound

\* A statement starts with the shape, whatever fails in it.
LEMMA MemoryShaped ==
  ASSUME PagesShape, NEW x \in Pages!Fault
  PROVE  Shaped(Pages!Memory(x)) /\ Pages!Memory(x).file = pages
<1>1. Pages!Memory(x) = [file |-> pages, cache |-> cache, up |-> TRUE, fails |-> x]
  BY DEF Pages!Memory
<1>2. TRUE \in BOOLEAN
  OBVIOUS
<1>3. Pages!Memory(x) \in Memories /\ Pages!Memory(x).cache = cache /\ Pages!Memory(x).file = pages
  BY <1>1, <1>2 DEF PagesShape, Memories
<1> QED
  BY <1>3 DEF Shaped, PagesShape

\* And it ends with it.
LEMMA EndsShaped ==
  ASSUME PagesShape, NEW m, Shaped(m), NEW x, Pages!Ends(m, x), issued' \in 0 .. MaxIssued,
         answered' \in [Paged -> Seq(Pages!Row)]
  PROVE  PagesShape'
<1>1. pages' = m.file /\ cache' = m.cache /\ io' = IF x = "none" THEN io ELSE "failed"
  BY DEF Pages!Ends
<1>2. m.file \in [Paged -> Seq(Pages!Page)] /\ m.cache \in Seq(Pages!Entry)
  BY DEF Shaped, Memories
<1>3. io' \in {"sound", "failed"}
  BY <1>1 DEF PagesShape
<1> QED
  BY <1>1, <1>2, <1>3 DEF PagesShape, Shaped

\* What may fail.
LEMMA FaultsAreFaults == Pages!Faults \subseteq Pages!Fault
BY DEF Pages!Faults, Pages!Fault

\* Every step keeps the shape.
LEMMA PagesShapeStep ==
  ASSUME PagesShape, Pages!Next \/ UNCHANGED pageVars
  PROVE  PagesShape'
<1>1. CASE UNCHANGED pageVars
  BY <1>1 DEF pageVars, PagesShape, CachedOnce
<1>2. CASE Pages!Restart
  <2>1. cache' = <<>> /\ pages' = pages /\ issued' = issued /\ answered' = answered /\ io' = io
    BY <1>2 DEF Pages!Restart
  <2>2. Len(<<>>) = 0 /\ DOMAIN <<>> = {} /\ 0 <= MaxPages
    BY PagesAssumption
  <2> QED
    BY <2>1, <2>2 DEF PagesShape, CachedOnce
<1>3. ASSUME NEW t \in Paged, Pages!Select(t)
      PROVE  PagesShape'
  <2>1. PICK y \in Pages!Faults : \E x \in Pages!Scans(Pages!Memory(y), t) : Pages!Ends(x, y)
    BY <1>3 DEF Pages!Select
  <2> DEFINE m == Pages!Memory(y)
             N == Pages!PageCount(m, t)
  <2>2. PICK x \in Pages!Scans(m, t) : Pages!Ends(x, y)
    BY <2>1
  <2>3. Shaped(m)
    BY FaultsAreFaults, MemoryShaped
  <2> HIDE DEF m
  <2>4. N \in Nat /\ N <= Len(m.file[t])
    BY <2>3, ShapedParts DEF Pages!PageCount
  <2> HIDE DEF N
  <2>5. PICK r : ReadsFrom(r, m, t, N) /\ x \in r[N]
    BY <2>2, <2>4, ScanIsReads DEF N
  <2>6. Shaped(x)
    BY <2>3, <2>4, <2>5, ScanShaped
  <2>7. issued' \in 0 .. MaxIssued /\ answered' \in [Paged -> Seq(Pages!Row)]
    BY <1>3 DEF Pages!Select, PagesShape
  <2> QED
    BY <2>2, <2>6, <2>7, EndsShaped
<1>4. ASSUME NEW t \in Paged, NEW sz \in RowSizes, Pages!Insert(t, sz)
      PROVE  PagesShape'
  <2> DEFINE row == [n |-> issued + 1, size |-> sz]
  <2>1. PICK y \in Pages!Faults : \E o \in Pages!InsertRow(Pages!Memory(y), t, row) :
          /\ Pages!Ends(o, y)
          /\ answered' = IF o.up /\ sz <= Capacity THEN [answered EXCEPT ![t] = Append(@, row)] ELSE answered
    BY <1>4 DEF Pages!Insert
  <2>2. PICK o \in Pages!InsertRow(Pages!Memory(y), t, row) :
          /\ Pages!Ends(o, y)
          /\ answered' = IF o.up /\ sz <= Capacity THEN [answered EXCEPT ![t] = Append(@, row)] ELSE answered
    BY <2>1
  <2>3. issued \in Nat /\ MaxIssued \in Nat /\ issued < MaxIssued /\ issued' = issued + 1
        /\ answered \in [Paged -> Seq(Pages!Row)]
    BY <1>4, PagesAssumption DEF Pages!Insert, PagesShape
  <2>4. row \in Pages!Row
    BY <2>3 DEF Pages!Row
  <2>5. issued' \in 0 .. MaxIssued
    BY <2>3
  <2>6. Shaped(Pages!Memory(y))
    BY FaultsAreFaults, MemoryShaped
  <2> HIDE DEF row
  <2>7. Shaped(o)
    BY <2>2, <2>4, <2>6, InsertShaped
  <2>8. answered' \in [Paged -> Seq(Pages!Row)]
    BY <2>2, <2>3, <2>4
  <2> QED
    BY <2>2, <2>5, <2>7, <2>8, EndsShaped
<1> QED
  BY <1>1, <1>2, <1>3, <1>4 DEF Pages!Next

\* The invariant of the paged tables.
LEMMA PagesInvHolds == AllSpec => []PagesInv
<1>1. ASSUME Pages!Init
      PROVE  PagesInv
  <2>1. /\ pages = [t \in Paged |-> <<>>] /\ cache = <<>> /\ issued = 0 /\ answered = [t \in Paged |-> <<>>]
    BY <1>1 DEF Pages!Init
  <2>2. Len(<<>>) = 0 /\ 1 .. 0 = {} /\ DOMAIN <<>> = {} /\ 0 <= MaxPages /\ 0 \in 0 .. MaxIssued
    BY PagesAssumption
  <2>3. pages \in [Paged -> Seq(Pages!Page)] /\ issued \in 0 .. MaxIssued /\ answered \in [Paged -> Seq(Pages!Row)]
    BY <2>1, <2>2
  <2>4. CleanCache
    BY <2>1, <2>2 DEF CleanCache, CachedOnce
  <2>5. ASSUME NEW t \in Paged
        PROVE  OwnNumbers(pages[t]) /\ NoneAfter(pages[t], issued) /\ RowsKept(pages[t], answered[t])
    <3>1. pages[t] = <<>> /\ answered[t] = <<>>
      BY <2>1
    <3> QED
      BY <2>2, <3>1 DEF OwnNumbers, NoneAfter, RowsKept, InOrder
  <2> QED
    <3>1. io = "sound"
      BY <1>1 DEF Pages!Init
    <3>2. PagesSound
      BY <2>3, <2>4, <2>5 DEF PagesSound
    <3>3. PagesShape
      BY <2>3, <2>4, <3>1 DEF PagesShape, CleanCache
    <3> QED
      BY <3>2, <3>3 DEF PagesInv
<1>2. ASSUME PagesInv, Pages!Next \/ UNCHANGED pageVars
      PROVE  PagesInv'
  <2>0. PagesShape'
    BY <1>2, PagesShapeStep DEF PagesInv
  <2> SUFFICES ASSUME io' = "sound"
               PROVE  PagesSound'
    BY <2>0 DEF PagesInv
  <2>4. PagesSound
    <3>1. io = "sound"
      BY <1>2 DEF Pages!Next, Pages!Select, Pages!Insert, Pages!Restart, Pages!Ends, pageVars
    <3> QED
      BY <1>2, <3>1 DEF PagesInv
  <2>1. CASE UNCHANGED pageVars
    BY <2>1, <2>4 DEF pageVars, PagesSound, CleanCache
  <2>2. CASE Pages!Restart
    <3>1. cache' = <<>> /\ pages' = pages /\ issued' = issued /\ answered' = answered
      BY <2>2 DEF Pages!Restart
    <3>2. Len(<<>>) = 0 /\ DOMAIN <<>> = {} /\ 0 <= MaxPages
      BY PagesAssumption
    <3>3. CleanCache'
      BY <3>1, <3>2 DEF CleanCache, CachedOnce
    <3> QED
      BY <2>4, <3>1, <3>3 DEF PagesSound
  <2>3. CASE \E t \in Paged : Pages!Select(t) \/ \E sz \in RowSizes : Pages!Insert(t, sz)
    BY <2>3, <2>4, PagesSelect, PagesInsert
  <2> QED
    BY <1>2, <2>1, <2>2, <2>3 DEF Pages!Next
<1>3. AllInit => Pages!Init
  BY DEF AllInit
<1>4. [AllNext]_<<part, vars, fileVars, logVars, poolVars, pageVars>> => Pages!Next \/ UNCHANGED pageVars
  BY DEF AllNext
<1> QED
  BY <1>1, <1>2, <1>3, <1>4, PTL DEF AllSpec

\* A row of a paged table whose INSERT was answered stays in the table, and the table has its
\* rows once and in order, for caches and pages of any size, any rows and any number of tables:
\* whatever readPage and writePage evict (makeRoom), and wherever in insertRow the process ends.
\* Excepted are rows that fit no page, tables with a page of zeros (allocatePage), and any time
\* after a call on a file failed, which readPage, makeRoom, allocatePage and flushDirtyPages
\* do not notice.
THEOREM AnsweredRowsStay == AllSpec => []PagedRowsAreKept
<1>1. ASSUME PagesInv
      PROVE  PagedRowsAreKept
  <2>0. SUFFICES ASSUME io = "sound"
                 PROVE  /\ \A t \in Paged : Pages!Numbered(t) =>
                             /\ \A k \in DOMAIN answered[t] : \E p \in Pages!Places(t) : Pages!RowAt(t, p) = answered[t][k]
                             /\ \A p, q \in Pages!Places(t) : Pages!Before(p, q) => Pages!RowAt(t, p).n < Pages!RowAt(t, q).n
                        /\ \A i \in DOMAIN cache : ~cache[i].dirty
    BY DEF PagedRowsAreKept, Pages!PagedRowsAreKept
  <2>4. PagesSound
    BY <1>1, <2>0 DEF PagesInv
  <2>1. pages \in [Paged -> Seq(Pages!Page)] /\ answered \in [Paged -> Seq(Pages!Row)]
    BY <2>4 DEF PagesSound
  <2>2. \A i \in DOMAIN cache : ~cache[i].dirty
    BY <2>4 DEF PagesSound, CleanCache
  <2>3. ASSUME NEW t \in Paged, Pages!Numbered(t)
        PROVE  /\ \A k \in DOMAIN answered[t] : \E p \in Pages!Places(t) : Pages!RowAt(t, p) = answered[t][k]
               /\ \A p, q \in Pages!Places(t) : Pages!Before(p, q) => Pages!RowAt(t, p).n < Pages!RowAt(t, q).n
    <3> DEFINE s == pages[t]
               a == answered[t]
    <3>1. /\ s \in Seq(Pages!Page) /\ Len(s) \in Nat /\ DOMAIN s = 1 .. Len(s)
          /\ a \in Seq(Pages!Row) /\ Len(a) \in Nat /\ DOMAIN a = 1 .. Len(a)
      BY <2>1
    <3>2. InNumbers(s)
      BY <2>3, <3>1 DEF Pages!Numbered, InNumbers
    <3>3. InOrder(s) /\ \A k \in 1 .. Len(a) : HasRow(s, a[k])
      BY <2>4, <3>2 DEF PagesSound, RowsKept
    <3>4. ASSUME NEW i \in 1 .. Len(s)
          PROVE  /\ Pages!View(Pages!Memory("none"), t, i - 1) = s[i] /\ DOMAIN s[i].rows = 1 .. Len(s[i].rows)
      <4>1. i - 1 \in Nat /\ (i - 1) + 1 = i
        BY <3>1
      <4>2. Midway(Pages!Memory("none"), pages, t, {})
        BY <2>4, StatementStarts
      <4>3. s[i] \in Pages!Page
        BY <3>1
      <4>4. s[i].rows \in Seq(Pages!Row)
        BY <4>3 DEF Pages!Page
      <4>5. Pages!View(Pages!Memory("none"), t, i - 1) = pages[t][(i - 1) + 1]
        BY <2>1, <4>1, <4>2, CleanView
      <4> QED
        BY <4>1, <4>4, <4>5
    <3>5. Pages!Places(t) = UNION {{i} \X DOMAIN Pages!View(Pages!Memory("none"), t, i - 1).rows : i \in DOMAIN pages[t]}
      BY DEF Pages!Places
    <3> HIDE DEF s, a
    <3>6. \A p \in Pages!Places(t) :
            /\ p[1] \in 1 .. Len(s) /\ p[2] \in 1 .. Len(s[p[1]].rows)
            /\ Pages!RowAt(t, p) = s[p[1]].rows[p[2]]
      BY SMTT(40), <3>1, <3>4, <3>5 DEF Pages!RowAt, s
    <3>7. \A i \in 1 .. Len(s) : \A j \in 1 .. Len(s[i].rows) :
            <<i, j>> \in Pages!Places(t) /\ Pages!RowAt(t, <<i, j>>) = s[i].rows[j]
      BY <3>1, <3>4, <3>5 DEF Pages!RowAt, s
    <3>8. ASSUME NEW k \in DOMAIN a
          PROVE  \E p \in Pages!Places(t) : Pages!RowAt(t, p) = a[k]
      <4>1. HasRow(s, a[k])
        BY <3>1, <3>3
      <4>2. PICK i \in 1 .. Len(s) : \E j \in 1 .. Len(s[i].rows) : s[i].rows[j] = a[k]
        BY <4>1 DEF HasRow
      <4>3. PICK j \in 1 .. Len(s[i].rows) : s[i].rows[j] = a[k]
        BY <4>2
      <4> QED
        BY <3>7, <4>3
    <3>9. ASSUME NEW p \in Pages!Places(t), NEW q \in Pages!Places(t), Pages!Before(p, q)
          PROVE  Pages!RowAt(t, p).n < Pages!RowAt(t, q).n
      <4>1. p[1] < q[1] \/ (p[1] = q[1] /\ p[2] < q[2])
        BY <3>9 DEF Pages!Before
      <4> QED
        BY <3>3, <3>6, <4>1 DEF InOrder
    <3> QED
      BY <3>8, <3>9 DEF a
  <2> QED
    BY <2>2, <2>3
<1> QED
  BY <1>1, PagesInvHolds, PTL
-----------------------------------------------------------------------------
(* All components *)

\* One of the five components moves.
PartOK == part \in {"commit", "file", "log", "pool", "pages"}

\* The state of every component keeps its shape, for any number of sessions, writers of the
\* database file, connections, tables and rows: on the way from COMMIT to the disk, in the
\* database file, the write-ahead log, the pool of connections and the page cache.
THEOREM StorageIsWellFormed == AllSpec => []AllTypeOK
<1>1. ASSUME AllInit
      PROVE  DurInv /\ PartOK
  BY <1>1, DurInvInit DEF AllInit, PartOK
<1>2. ASSUME DurInv, PartOK, [AllNext]_<<part, vars, fileVars, logVars, poolVars, pageVars>>
      PROVE  DurInv' /\ PartOK'
  <2>1. [Next]_vars /\ part' = part
    BY <1>2 DEF AllNext
  <2> QED
    BY <1>2, <2>1, DurInvStep DEF PartOK
<1>3. AllSpec => [](DurInv /\ PartOK)
  BY <1>1, <1>2, PTL DEF AllSpec
<1>4. ASSUME DurInv, PartOK, FileInv, LogInv, PoolInv, PagesInv
      PROVE  AllTypeOK
  <2>1. TypeOK
    BY <1>4 DEF DurInv
  <2>2. File!TypeOK
    BY <1>4 DEF FileInv
  <2>3. Log!TypeOK
    BY <1>4 DEF LogInv, LogShape, LogGood, LogTypes, Log!TypeOK, Transaction
  <2>4. Pool!TypeOK
    BY <1>4 DEF PoolInv
  <2>5. Pages!TypeOK
    BY <1>4 DEF PagesInv, PagesShape, CachedOnce, Pages!TypeOK
  <2> QED
    BY <1>4, <2>1, <2>2, <2>3, <2>4, <2>5 DEF AllTypeOK, PartOK
<1> QED
  BY <1>3, <1>4, FileInvHolds, LogInvHolds, PoolInvHolds, PagesInvHolds, PTL
=============================================================================
