---------------------------- MODULE EngineProofs ----------------------------
(***************************************************************************)
(* Proofs about what the engine keeps in memory: the transaction manager   *)
(* for any pruning threshold; the result caches for any tables, queries,   *)
(* sizes and lifetimes; a table with its index for any column values.      *)
(***************************************************************************)
EXTENDS MCEngine, SelectionsProofs, TLAPS


\* Why isCommitted may guess: an id that commitTx pruned is below the horizon
\* and not active, and the horizon only advances.
PrunedAreBelow ==
  \A id \in committedEver \ committedTxs : BelowHorizon(id)

\* A committed id is never active again: ids are not reused.
CommittedAreNotActive == activeTxs \cap committedEver = {}

TmInv == TypeOK /\ PrunedAreBelow /\ CommittedAreNotActive

\* What is below the horizon stays below it when a transaction ends.
LEMMA EndKeepsBelow ==
  ASSUME NEW id, NEW active, NEW last, NEW ended, Below(id, active, last)
  PROVE  Below(id, active \ {ended}, last)
PROOF BY DEF Below

\* The invariant is inductive: every method keeps it.
LEMMA TmInvStep == TmInv /\ [Next]_vars => TmInv'
PROOF
  <1> SUFFICES ASSUME TmInv, [Next]_vars PROVE TmInv'
    OBVIOUS
  <1> USE BoundsAssumption DEF TmInv
  <1>1. CASE BeginTx
    <2>1. TypeOK'
      BY <1>1 DEF BeginTx, TypeOK
    <2>2. PrunedAreBelow'
      BY <1>1 DEF BeginTx, TypeOK, PrunedAreBelow, BelowHorizon, Below
    <2>3. CommittedAreNotActive'
      BY <1>1 DEF BeginTx, TypeOK, CommittedAreNotActive
    <2> QED
      BY <2>1, <2>2, <2>3
  <1>2. ASSUME NEW id \in activeTxs, CommitTx(id) PROVE TmInv'
    <2>1. /\ activeTxs' = activeTxs \ {id}
          /\ committedEver' = committedEver \cup {id}
          /\ globalTxId' = globalTxId
          /\ committedTxs' = Pruned(committedTxs \cup {id}, activeTxs', globalTxId)
      BY <1>2 DEF CommitTx
    <2>2. committedTxs' \subseteq committedTxs \cup {id}
      BY <2>1 DEF Pruned
    <2>3. \A x \in (committedTxs \cup {id}) \ committedTxs' :
            Below(x, activeTxs', globalTxId)
      BY <2>1 DEF Pruned
    <2>4. TypeOK'
      BY <2>1, <2>2 DEF TypeOK
    <2>5. PrunedAreBelow'
      <3> SUFFICES ASSUME NEW x \in committedEver', x \notin committedTxs'
                   PROVE  BelowHorizon(x)'
        BY DEF PrunedAreBelow
      <3>1. CASE x \in committedTxs \cup {id}
        BY <2>1, <2>3, <3>1 DEF BelowHorizon
      <3>2. CASE x \notin committedTxs \cup {id}
        <4>1. Below(x, activeTxs, globalTxId)
          BY <2>1, <3>2 DEF PrunedAreBelow, BelowHorizon
        <4> QED
          BY <2>1, <4>1, EndKeepsBelow DEF BelowHorizon
      <3> QED
        BY <3>1, <3>2
    <2>6. CommittedAreNotActive'
      BY <2>1 DEF CommittedAreNotActive
    <2> QED
      BY <2>4, <2>5, <2>6
  <1>3. ASSUME NEW id \in activeTxs, RollbackTx(id) PROVE TmInv'
    <2>1. TypeOK'
      BY <1>3 DEF RollbackTx, TypeOK
    <2>2. PrunedAreBelow'
      BY <1>3, EndKeepsBelow DEF RollbackTx, PrunedAreBelow, BelowHorizon
    <2>3. CommittedAreNotActive'
      BY <1>3 DEF RollbackTx, CommittedAreNotActive
    <2> QED
      BY <2>1, <2>2, <2>3
  <1>4. CASE UNCHANGED vars
    BY <1>4 DEF vars, TypeOK, PrunedAreBelow, CommittedAreNotActive, BelowHorizon
  <1> QED
    BY <1>1, <1>2, <1>3, <1>4 DEF Next

\* Nothing is active, committed or pruned at the start.
LEMMA TmInvInit == Init => TmInv
PROOF BY BoundsAssumption
         DEF Init, TmInv, TypeOK, PrunedAreBelow, CommittedAreNotActive

\* Pruning never makes a committed transaction look uncommitted, and the guess
\* isCommitted makes for pruned ids never catches a running transaction.
THEOREM CommitStatusIsRight ==
  Spec => [](TypeOK /\ CommittedForEver /\ ActiveIsNotCommitted)
PROOF
  <1>1. TmInv => CommittedForEver
    BY DEF TmInv, TypeOK, PrunedAreBelow, CommittedAreNotActive, CommittedForEver,
           IsCommitted
  <1>2. TmInv => ActiveIsNotCommitted
    BY DEF TmInv, TypeOK, CommittedAreNotActive, ActiveIsNotCommitted, IsCommitted
  <1>3. TmInv => TypeOK
    BY DEF TmInv
  <1> QED
    BY <1>1, <1>2, <1>3, TmInvInit, TmInvStep, PTL DEF Spec

\* The boundary VACUUM removes row versions below never moves back.
THEOREM HorizonAdvances == Spec => HorizonOnlyAdvances
PROOF
  <1>1. ASSUME TmInv, [Next]_vars, NEW id \in TxIds, BelowHorizon(id)
        PROVE  BelowHorizon(id)'
    <2>1. CASE BeginTx
      BY <1>1, <2>1, BoundsAssumption DEF BeginTx, TmInv, TypeOK, BelowHorizon, Below, TxIds
    <2>2. ASSUME NEW x \in activeTxs, CommitTx(x) \/ RollbackTx(x)
          PROVE  BelowHorizon(id)'
      <3>1. activeTxs' = activeTxs \ {x} /\ globalTxId' = globalTxId
        BY <2>2 DEF CommitTx, RollbackTx
      <3>2. Below(id, activeTxs \ {x}, globalTxId)
        BY <1>1, EndKeepsBelow DEF BelowHorizon
      <3> QED
        BY <3>1, <3>2 DEF BelowHorizon
    <2>3. CASE UNCHANGED vars
      BY <1>1, <2>3 DEF vars, BelowHorizon
    <2> QED
      BY <1>1, <2>1, <2>2, <2>3 DEF Next
  <1>2. TmInv /\ [Next]_vars =>
          [\A id \in TxIds : BelowHorizon(id) => BelowHorizon(id)']_vars
    BY <1>1
  <1> QED
    BY <1>2, TmInvInit, TmInvStep, PTL DEF Spec, HorizonOnlyAdvances
-----------------------------------------------------------------------------
(* The result caches. *)

\* An entry of the engine's cache: nothing that its SELECT reads has changed but silently, and
\* as long as it may be used it is as old as its age says.
EngineEntryOK(e) ==
  /\ e \in Caches!Entry /\ e.missed # "yes"
  /\ e.age <= TTL => e.since <= e.age

\* An entry of the HTTP server's cache: what the engine answered may have had one lifetime.
UserEntryOK(e) ==
  /\ e \in Caches!Entry
  /\ e.age <= TTL => e.since <= e.age + TTL

\* A cache is a sequence of at most n entries, one for a query.
CacheShape(c, n) ==
  /\ c \in Seq(Caches!Entry) /\ Len(c) <= n
  /\ \A i, j \in DOMAIN c : c[i].key = c[j].key => i = j

\* The inductive invariant of the caches.
CachesInv ==
  /\ CacheShape(engine, MaxSize) /\ \A i \in DOMAIN engine : EngineEntryOK(engine[i])
  /\ CacheShape(user, maxEntries) /\ \A i \in DOMAIN user : UserEntryOK(user[i])
  /\ enabled \in BOOLEAN /\ maxEntries \in UserSizes
  /\ DOMAIN buffered \subseteq Sessions /\ \A s \in DOMAIN buffered : buffered[s] \subseteq Tables
  /\ holder \in [Tables -> Sessions \cup {NoSession}]
  /\ claims \subseteq Sessions \X Tables

\* The entries kept by a loop, inside the caches' module and outside.
LEMMA CachesPicked ==
  ASSUME NEW s, NEW P
  PROVE  Caches!Picked(s, P) = Picked(s, P)
<1>1. \A S : Caches!Cardinality(S) = Cardinality(S)
  BY DEF Caches!Cardinality, Cardinality, Caches!IsFiniteSet, IsFiniteSet
<1>2. \A i : Caches!Nth(P, i) = Nth(P, i)
  BY <1>1 DEF Caches!Nth, Nth
<1> QED
  BY <1>1, <1>2 DEF Caches!Picked, Picked

\* What is picked comes from the sequence, at increasing positions.
LEMMA PickedFrom ==
  ASSUME NEW V, NEW s \in Seq(V), NEW P \in SUBSET DOMAIN s
  PROVE  LET p == Picked(s, P)
         IN  /\ p \in Seq(V) /\ Len(p) = Cardinality(P) /\ Len(p) <= Len(s) /\ DOMAIN p = 1 .. Len(p)
             /\ Len(p) \in Nat
             /\ \A i \in DOMAIN p : Ascending(P)[i] \in P /\ p[i] = s[Ascending(P)[i]]
             /\ \A i, j \in DOMAIN p : Ascending(P)[i] = Ascending(P)[j] => i = j
<1> DEFINE p == Picked(s, P)
           a == Ascending(P)
<1>1. /\ IsFiniteSet(P) /\ P \in SUBSET Nat /\ Len(p) = Cardinality(P) /\ p \in Seq(V)
      /\ \A i \in 1 .. Cardinality(P) : p[i] = s[a[i]]
  BY PickedReads
<1>2. /\ Cardinality(P) \in Nat /\ \A i \in 1 .. Cardinality(P) : a[i] \in P
      /\ \A i, j \in 1 .. Cardinality(P) : i < j => a[i] < a[j]
  BY <1>1, AscendingLists
<1>3. DOMAIN p = 1 .. Len(p) /\ Len(s) \in Nat /\ DOMAIN s = 1 .. Len(s)
  BY <1>1
<1>4. Cardinality(P) <= Len(s)
  <2>1. PICK m \in Nat : m = Len(s)
    BY <1>3
  <2>2. IsFiniteSet(1 .. m) /\ Cardinality(1 .. m) = m
    BY FS_Interval
  <2> QED
    BY SMTT(40), <1>3, <2>1, <2>2, FS_Subset
<1> HIDE DEF p, a
<1>5. ASSUME NEW i \in DOMAIN p, NEW j \in DOMAIN p, a[i] = a[j]
      PROVE  i = j
  <2>1. i \in 1 .. Cardinality(P) /\ j \in 1 .. Cardinality(P) /\ a[i] \in Nat /\ a[j] \in Nat
    BY <1>1, <1>2, <1>3
  <2>2. ~(i < j) /\ ~(j < i)
    BY <1>2, <1>5, <2>1
  <2> QED
    BY <1>2, <2>1, <2>2
<1>6. /\ p \in Seq(V) /\ Len(p) = Cardinality(P) /\ Len(p) <= Len(s) /\ DOMAIN p = 1 .. Len(p) /\ Len(p) \in Nat
      /\ \A i \in DOMAIN p : a[i] \in P /\ p[i] = s[a[i]]
      /\ \A i, j \in DOMAIN p : a[i] = a[j] => i = j
  BY <1>1, <1>2, <1>3, <1>4, <1>5
<1> QED
  BY <1>6 DEF p, a

\* A cache that loses entries keeps its shape, and has entries that it had before.
LEMMA CacheLoses ==
  ASSUME NEW n \in Nat, NEW c, CacheShape(c, n), NEW P \in SUBSET DOMAIN c
  PROVE  LET d == Picked(c, P)
         IN  /\ CacheShape(d, n) /\ Len(d) <= Len(c) /\ Len(d) = Cardinality(P)
             /\ \A i \in DOMAIN d : \E j \in P : d[i] = c[j]
<1> DEFINE d == Picked(c, P)
           a == Ascending(P)
<1>1. /\ d \in Seq(Caches!Entry) /\ Len(d) = Cardinality(P) /\ Len(d) <= Len(c) /\ Len(d) \in Nat /\ Len(c) \in Nat
      /\ \A i \in DOMAIN d : a[i] \in P /\ d[i] = c[a[i]]
      /\ \A i, j \in DOMAIN d : a[i] = a[j] => i = j
  <2>1. c \in Seq(Caches!Entry)
    BY DEF CacheShape
  <2> QED
    BY <2>1, PickedFrom
<1> HIDE DEF d, a
<1>2. Len(d) <= n
  BY <1>1 DEF CacheShape
<1>3. ASSUME NEW i \in DOMAIN d, NEW j \in DOMAIN d, d[i].key = d[j].key
      PROVE  i = j
  <2>1. a[i] \in DOMAIN c /\ a[j] \in DOMAIN c /\ c[a[i]].key = c[a[j]].key
    BY <1>1, <1>3
  <2> QED
    BY <1>1, <2>1 DEF CacheShape
<1>4. CacheShape(d, n)
  BY <1>1, <1>2, <1>3 DEF CacheShape
<1> QED
  BY <1>1, <1>4 DEF d

\* Every entry of d is one of c.
From(d, c) == \A i \in DOMAIN d : \E j \in DOMAIN c : d[i] = c[j]

\* A sequence in the terms that the proofs use.
LEMMA ShapeOf ==
  ASSUME NEW n \in Nat, NEW c, CacheShape(c, n)
  PROVE  Len(c) \in Nat /\ DOMAIN c = 1 .. Len(c) /\ Len(c) <= n /\ \A i \in DOMAIN c : c[i] \in Caches!Entry
BY DEF CacheShape

\* Drop takes out the entry of a key, if there is one.
LEMMA DropFacts ==
  ASSUME NEW n \in Nat, NEW c, CacheShape(c, n), NEW k
  PROVE  LET d == Caches!Drop(c, k)
         IN  /\ CacheShape(d, n) /\ Len(d) <= Len(c) /\ From(d, c)
             /\ \A i \in DOMAIN d : d[i].key # k
             /\ k \in Caches!Keys(c) => Len(d) < Len(c)
<1> DEFINE P == {i \in DOMAIN c : c[i].key # k}
           d == Picked(c, P)
<1>1. Caches!Drop(c, k) = d
  BY CachesPicked DEF Caches!Drop
<1>2. P \in SUBSET DOMAIN c
  OBVIOUS
<1>3. /\ CacheShape(d, n) /\ Len(d) <= Len(c) /\ Len(d) = Cardinality(P)
      /\ \A i \in DOMAIN d : \E j \in P : d[i] = c[j]
  <2> HIDE DEF P
  <2> QED
    BY <1>2, CacheLoses
<1>4. ASSUME k \in Caches!Keys(c)
      PROVE  Len(d) < Len(c)
  <2>1. PICK j \in DOMAIN c : c[j].key = k
    BY <1>4 DEF Caches!Keys, Caches!Entries
  <2>2. PICK m \in Nat : m = Len(c) /\ DOMAIN c = 1 .. m
    BY ShapeOf
  <2>3. IsFiniteSet(1 .. m) /\ Cardinality(1 .. m) = m
    BY FS_Interval
  <2>4. P \in SUBSET (1 .. m) /\ P # 1 .. m
    BY <2>1, <2>2
  <2>5. Cardinality(P) <= m /\ Cardinality(P) # m /\ IsFiniteSet(P)
    BY <2>3, <2>4, FS_Subset
  <2>6. Cardinality(P) \in Nat
    BY <2>5, FS_CardinalityType
  <2> QED
    BY <1>3, <2>2, <2>5, <2>6
<1>5. From(d, c) /\ \A i \in DOMAIN d : d[i].key # k
  BY <1>3 DEF From
<1> HIDE DEF d
<1> QED
  BY <1>1, <1>3, <1>4, <1>5

\* A new entry in front of a cache that has room and none of its key.
LEMMA PutFront ==
  ASSUME NEW n \in Nat, NEW d, CacheShape(d, n), Len(d) < n, NEW e \in Caches!Entry,
         \A i \in DOMAIN d : d[i].key # e.key
  PROVE  LET f == <<e>> \o d
         IN  CacheShape(f, n) /\ \A i \in DOMAIN f : f[i] = e \/ \E j \in DOMAIN d : f[i] = d[j]
<1> DEFINE f == <<e>> \o d
<1>1. Len(d) \in Nat /\ DOMAIN d = 1 .. Len(d) /\ d \in Seq(Caches!Entry)
  BY ShapeOf DEF CacheShape
<1>2. <<e>> \in Seq(Caches!Entry) /\ Len(<<e>>) = 1 /\ <<e>>[1] = e
  OBVIOUS
<1>3. /\ f \in Seq(Caches!Entry) /\ Len(f) = 1 + Len(d) /\ DOMAIN f = 1 .. (1 + Len(d)) /\ f[1] = e
      /\ \A i \in 1 .. (1 + Len(d)) : i # 1 => i - 1 \in 1 .. Len(d) /\ f[i] = d[i - 1]
  BY <1>1, <1>2
<1> HIDE DEF f
<1>4. ASSUME NEW i \in DOMAIN f, NEW j \in DOMAIN f, f[i].key = f[j].key
      PROVE  i = j
  <2>1. CASE i = 1
    BY <1>1, <1>3, <1>4, <2>1
  <2>2. CASE i # 1 /\ j = 1
    BY <1>1, <1>3, <1>4, <2>2
  <2>3. CASE i # 1 /\ j # 1
    <3>1. i - 1 \in DOMAIN d /\ j - 1 \in DOMAIN d /\ d[i - 1].key = d[j - 1].key
      BY <1>1, <1>3, <1>4, <2>3
    <3>2. i - 1 = j - 1
      BY <3>1 DEF CacheShape
    <3> QED
      BY <1>1, <1>3, <3>2
  <2> QED
    BY <2>1, <2>2, <2>3
<1>5. CacheShape(f, n)
  BY <1>1, <1>3, <1>4 DEF CacheShape
<1>6. \A i \in DOMAIN f : f[i] = e \/ \E j \in DOMAIN d : f[i] = d[j]
  BY <1>1, <1>3
<1> QED
  BY <1>5, <1>6 DEF f

\* What a look-up finds.
LEMMA LookupFacts ==
  ASSUME NEW c, NEW k, k \in Caches!Keys(c)
  PROVE  \E j \in DOMAIN c : c[j] = Caches!Lookup(c, k) /\ Caches!Lookup(c, k).key = k
BY DEF Caches!Keys, Caches!Lookup, Caches!Entries

\* A hit moves an entry.
LEMMA TouchFacts ==
  ASSUME NEW n \in Nat, NEW c, CacheShape(c, n), NEW k, Caches!Hit(c, k)
  PROVE  CacheShape(Caches!Touch(c, k), n) /\ From(Caches!Touch(c, k), c)
<1> DEFINE d == Caches!Drop(c, k)
           f == <<Caches!Lookup(c, k)>> \o d
<1>1. k \in Caches!Keys(c) /\ Caches!Touch(c, k) = f
  BY DEF Caches!Hit, Caches!Touch
<1>2. PICK e \in Caches!Entry : e = Caches!Lookup(c, k) /\ e.key = k /\ \E j \in DOMAIN c : c[j] = e
  BY <1>1, LookupFacts, ShapeOf
<1>3. /\ CacheShape(d, n) /\ Len(d) < Len(c) /\ From(d, c) /\ \A i \in DOMAIN d : d[i].key # e.key
  BY <1>1, <1>2, DropFacts
<1>4. Len(d) < n
  BY <1>3, ShapeOf
<1> HIDE DEF d
<1>5. /\ CacheShape(<<e>> \o d, n)
      /\ \A i \in DOMAIN (<<e>> \o d) : (<<e>> \o d)[i] = e \/ \E j \in DOMAIN d : (<<e>> \o d)[i] = d[j]
  BY <1>3, <1>4, PutFront
<1>6. From(<<e>> \o d, c)
  BY <1>2, <1>3, <1>5 DEF From
<1> QED
  BY <1>1, <1>2, <1>5, <1>6

\* First keeps the newest entries.
LEMMA FirstFacts ==
  ASSUME NEW n \in Nat, NEW c, CacheShape(c, n), NEW m \in Nat
  PROVE  LET d == Caches!First(c, m)
         IN  CacheShape(d, m) /\ CacheShape(d, n) /\ From(d, c)
<1> DEFINE P == {i \in DOMAIN c : i <= m}
           d == Picked(c, P)
<1>1. Caches!First(c, m) = d
  BY CachesPicked DEF Caches!First
<1>2. P \in SUBSET DOMAIN c
  OBVIOUS
<1>3. /\ CacheShape(d, n) /\ Len(d) <= Len(c) /\ Len(d) = Cardinality(P)
      /\ \A i \in DOMAIN d : \E j \in P : d[i] = c[j]
  <2> HIDE DEF P
  <2> QED
    BY <1>2, CacheLoses
<1>4. IsFiniteSet(1 .. m) /\ Cardinality(1 .. m) = m
  BY FS_Interval
<1>5. P \in SUBSET (1 .. m)
  BY ShapeOf
<1>6. Cardinality(P) <= m
  BY <1>4, <1>5, FS_Subset
<1> HIDE DEF d, P
<1>7. From(d, c) /\ CacheShape(d, m)
  BY <1>2, <1>3, <1>6 DEF From, CacheShape
<1> QED
  BY <1>1, <1>3, <1>7

\* Coming from one cache through another.
LEMMA FromFrom ==
  ASSUME NEW a, NEW b, NEW c, From(a, b), From(b, c)
  PROVE  From(a, c)
BY DEF From

\* QueryCache::put keeps the cache within its limit.
LEMMA EnginePutFacts ==
  ASSUME NEW c, CacheShape(c, MaxSize), NEW e \in Caches!Entry
  PROVE  LET f == Caches!EnginePut(c, e)
         IN  CacheShape(f, MaxSize) /\ \A i \in DOMAIN f : f[i] = e \/ \E j \in DOMAIN c : f[i] = c[j]
<1> DEFINE b == IF Len(c) >= MaxSize THEN Caches!First(c, Len(c) - 1) ELSE c
           d == Caches!Drop(b, e.key)
<1>1. Caches!EnginePut(c, e) = <<e>> \o d
  BY DEF Caches!EnginePut
<1>2. MaxSize \in Nat /\ MaxSize - 1 \in Nat /\ Len(c) \in Nat /\ Len(c) <= MaxSize
  BY CacheAssumption, ShapeOf
<1>3. CacheShape(b, MaxSize - 1) /\ From(b, c)
  <2>1. CASE Len(c) >= MaxSize
    <3>1. Len(c) - 1 = MaxSize - 1
      BY <1>2, <2>1
    <3> QED
      BY <1>2, <2>1, <3>1, FirstFacts
  <2>2. CASE ~(Len(c) >= MaxSize)
    BY <1>2, <2>2 DEF CacheShape, From
  <2> QED
    BY <2>1, <2>2
<1> HIDE DEF b
<1>4. /\ CacheShape(d, MaxSize - 1) /\ From(d, b) /\ \A i \in DOMAIN d : d[i].key # e.key
  BY <1>2, <1>3, DropFacts
<1> HIDE DEF d
<1>5. CacheShape(d, MaxSize) /\ Len(d) < MaxSize
  BY <1>2, <1>4 DEF CacheShape
<1>6. /\ CacheShape(<<e>> \o d, MaxSize)
      /\ \A i \in DOMAIN (<<e>> \o d) : (<<e>> \o d)[i] = e \/ \E j \in DOMAIN d : (<<e>> \o d)[i] = d[j]
  BY <1>2, <1>4, <1>5, PutFront
<1>7. From(d, c)
  BY <1>3, <1>4, FromFrom
<1>8. \A i \in DOMAIN (<<e>> \o d) : (<<e>> \o d)[i] = e \/ \E j \in DOMAIN c : (<<e>> \o d)[i] = c[j]
  BY <1>6, <1>7 DEF From
<1> QED
  BY <1>1, <1>6, <1>8

\* UserQueryCache::put too.
LEMMA UserPutFacts ==
  ASSUME CacheShape(user, maxEntries), maxEntries \in Nat \ {0}, NEW e \in Caches!Entry
  PROVE  LET f == Caches!UserPut(e)
         IN  CacheShape(f, maxEntries) /\ \A i \in DOMAIN f : f[i] = e \/ \E j \in DOMAIN user : f[i] = user[j]
<1> DEFINE b == Caches!Drop(user, e.key)
           d == Caches!First(b, maxEntries - 1)
<1>1. Caches!UserPut(e) = <<e>> \o d
  BY DEF Caches!UserPut
<1>2. maxEntries \in Nat /\ maxEntries - 1 \in Nat
  OBVIOUS
<1>3. CacheShape(b, maxEntries) /\ From(b, user) /\ \A i \in DOMAIN b : b[i].key # e.key
  BY <1>2, DropFacts
<1> HIDE DEF b
<1>4. CacheShape(d, maxEntries - 1) /\ CacheShape(d, maxEntries) /\ From(d, b)
  BY <1>2, <1>3, FirstFacts
<1> HIDE DEF d
<1>5. Len(d) < maxEntries /\ \A i \in DOMAIN d : d[i].key # e.key
  BY <1>2, <1>3, <1>4 DEF CacheShape, From
<1>6. /\ CacheShape(<<e>> \o d, maxEntries)
      /\ \A i \in DOMAIN (<<e>> \o d) : (<<e>> \o d)[i] = e \/ \E j \in DOMAIN d : (<<e>> \o d)[i] = d[j]
  BY <1>2, <1>4, <1>5, PutFront
<1>7. From(d, user)
  BY <1>3, <1>4, FromFrom
<1>8. \A i \in DOMAIN (<<e>> \o d) : (<<e>> \o d)[i] = e \/ \E j \in DOMAIN user : (<<e>> \o d)[i] = user[j]
  BY <1>6, <1>7 DEF From
<1> QED
  BY <1>1, <1>6, <1>8

\* Entries that change and keep their keys.
LEMMA CacheChanges ==
  ASSUME NEW n \in Nat, NEW c, CacheShape(c, n), NEW d, d = [i \in DOMAIN c |-> d[i]],
         \A i \in DOMAIN c : d[i] \in Caches!Entry /\ d[i].key = c[i].key
  PROVE  CacheShape(d, n) /\ DOMAIN d = DOMAIN c
<1>1. PICK m \in Nat : m = Len(c) /\ DOMAIN c = 1 .. m /\ m <= n
  BY ShapeOf
<1>2. d = [i \in 1 .. m |-> d[i]] /\ \A i \in 1 .. m : d[i] \in Caches!Entry
  BY <1>1
<1>3. d \in Seq(Caches!Entry) /\ Len(d) = m /\ DOMAIN d = 1 .. m
  BY <1>2, FunctionIsSeq
<1> QED
  BY <1>1, <1>3 DEF CacheShape

\* The HTTP server's cache is not smaller than one entry.
LEMMA RoomForOne ==
  ASSUME CachesInv
  PROVE  maxEntries \in Nat \ {0} /\ MaxSize \in Nat \ {0}
BY CacheAssumption DEF CachesInv

\* What a query that is evaluated brings into a cache.
LEMMA FreshFacts ==
  ASSUME NEW q \in Queries
  PROVE  EngineEntryOK(Caches!Fresh(q)) /\ Caches!Fresh(q).age = 0 /\ Caches!Fresh(q).since = 0
<1> DEFINE e == Caches!Fresh(q)
<1>1. e = [key |-> q, table |-> q.from, missed |-> "no", age |-> 0, since |-> 0]
  BY DEF Caches!Fresh
<1>2. q.from \in Tables /\ 0 \in 0 .. (TTL + 1) /\ 0 \in 0 .. (2 * TTL + 1)
  BY CacheAssumption
<1>3. e \in Caches!Entry
  BY <1>1, <1>2 DEF Caches!Entry
<1> QED
  BY <1>1, <1>3 DEF EngineEntryOK

\* The fields of an entry.
LEMMA EntryFields ==
  ASSUME NEW e \in Caches!Entry
  PROVE  /\ e = [key |-> e.key, table |-> e.table, missed |-> e.missed, age |-> e.age, since |-> e.since]
         /\ e.key \in Queries /\ e.table \in Tables /\ e.missed \in {"no", "silently", "yes"}
         /\ e.age \in 0 .. (TTL + 1) /\ e.since \in 0 .. (2 * TTL + 1)
BY DEF Caches!Entry

\* What the HTTP server stores of an answer of the engine.
LEMMA StoredFacts ==
  ASSUME NEW e, EngineEntryOK(e), e.age <= TTL
  PROVE  UserEntryOK(Caches!StoredByHttp(e))
<1> DEFINE f == Caches!StoredByHttp(e)
<1>1. TTL \in Nat /\ e \in Caches!Entry
  BY CacheAssumption DEF EngineEntryOK
<1>2. f = [key |-> e.key, table |-> e.table, missed |-> "no", age |-> 0, since |-> e.since]
  <2>1. f = [[e EXCEPT !.age = 0] EXCEPT !.missed = "no"]
    BY DEF Caches!StoredByHttp
  <2>2. PICK x, y, z, v, w : e = [key |-> x, table |-> y, missed |-> z, age |-> v, since |-> w]
    BY <1>1, EntryFields
  <2> HIDE DEF f
  <2> QED
    BY <2>1, <2>2
<1>3. f \in Caches!Entry
  BY <1>1, <1>2, EntryFields DEF Caches!Entry
<1>4. f.age = 0 /\ f.since = e.since
  BY <1>2
<1>5. e.since <= e.age /\ e.age \in Nat /\ e.since \in Nat
  BY <1>1, EntryFields DEF EngineEntryOK
<1>6. f.since <= 0 + TTL
  BY <1>1, <1>4, <1>5
<1> QED
  BY <1>3, <1>4, <1>6 DEF UserEntryOK

\* An entry of either cache gets older.
LEMMA OlderFacts ==
  ASSUME NEW e \in Caches!Entry
  PROVE  /\ Caches!Older(e) \in Caches!Entry /\ Caches!Older(e).key = e.key
         /\ EngineEntryOK(e) => EngineEntryOK(Caches!Older(e))
         /\ UserEntryOK(e) => UserEntryOK(Caches!Older(e))
<1> DEFINE f == Caches!Older(e)
           a == IF e.age > TTL THEN e.age ELSE e.age + 1
           s == IF e.since > 2 * TTL THEN e.since ELSE e.since + 1
<1>1. /\ TTL \in Nat /\ e.age \in 0 .. (TTL + 1) /\ e.since \in 0 .. (2 * TTL + 1)
  BY CacheAssumption, EntryFields
<1>2. f = [key |-> e.key, table |-> e.table, missed |-> e.missed, age |-> a, since |-> s]
  <2>1. f = [[e EXCEPT !.age = a] EXCEPT !.since = s]
    BY DEF Caches!Older
  <2> HIDE DEF a, s
  <2>2. PICK x, y, z, v, w : e = [key |-> x, table |-> y, missed |-> z, age |-> v, since |-> w]
    BY EntryFields
  <2> HIDE DEF f
  <2> QED
    BY <2>1, <2>2
<1>3. a \in 0 .. (TTL + 1) /\ s \in 0 .. (2 * TTL + 1)
  BY <1>1
<1>4. a <= TTL => a = e.age + 1 /\ e.age <= TTL
  BY <1>1
<1>5. s <= e.since + 1
  BY <1>1
<1> HIDE DEF a, s
<1>6. f \in Caches!Entry /\ f.key = e.key /\ f.missed = e.missed /\ f.age = a /\ f.since = s
  BY <1>2, <1>3, EntryFields DEF Caches!Entry
<1> HIDE DEF f
<1>7. EngineEntryOK(e) => EngineEntryOK(f)
  <2> SUFFICES ASSUME EngineEntryOK(e), a <= TTL
               PROVE  s <= a
    BY <1>6 DEF EngineEntryOK
  <2>1. e.since <= e.age /\ a = e.age + 1
    BY <1>4 DEF EngineEntryOK
  <2> QED
    BY <1>1, <1>3, <1>5, <2>1
<1>8. UserEntryOK(e) => UserEntryOK(f)
  <2> SUFFICES ASSUME UserEntryOK(e), a <= TTL
               PROVE  s <= a + TTL
    BY <1>6 DEF UserEntryOK
  <2>1. e.since <= e.age + TTL /\ a = e.age + 1
    BY <1>4 DEF UserEntryOK
  <2> QED
    BY <1>1, <1>3, <1>5, <2>1
<1> QED
  BY <1>6, <1>7, <1>8 DEF f

\* History: tables change.
LEMMA OutdateFacts ==
  ASSUME NEW n \in Nat, NEW c, CacheShape(c, n), NEW ts, NEW how \in {"silently", "yes"}
  PROVE  LET d == Caches!Outdate(c, ts, how)
         IN  /\ CacheShape(d, n) /\ DOMAIN d = DOMAIN c
             /\ \A i \in DOMAIN c :
                  /\ UserEntryOK(c[i]) => UserEntryOK(d[i])
                  /\ EngineEntryOK(c[i]) /\ (c[i].table \notin ts \/ how # "yes") => EngineEntryOK(d[i])
<1> DEFINE d == Caches!Outdate(c, ts, how)
           m(i) == IF c[i].table \in ts /\ c[i].missed # "yes" THEN how ELSE c[i].missed
<1>1. ASSUME NEW i \in DOMAIN c
      PROVE  /\ d[i] = [key |-> c[i].key, table |-> c[i].table, missed |-> m(i), age |-> c[i].age, since |-> c[i].since]
             /\ d[i] \in Caches!Entry /\ d[i].key = c[i].key /\ d[i].missed = m(i)
             /\ d[i].age = c[i].age /\ d[i].since = c[i].since
  <2>1. c[i] \in Caches!Entry
    BY ShapeOf
  <2>2. d[i] = IF c[i].table \in ts /\ c[i].missed # "yes" THEN [c[i] EXCEPT !.missed = how] ELSE c[i]
    BY DEF Caches!Outdate
  <2>3. m(i) \in {"no", "silently", "yes"}
    BY <2>1, EntryFields
  <2> HIDE DEF d
  <2>4. d[i] = [key |-> c[i].key, table |-> c[i].table, missed |-> m(i), age |-> c[i].age, since |-> c[i].since]
    <3>1. CASE c[i].table \in ts /\ c[i].missed # "yes"
      BY <2>1, <2>2, <3>1, EntryFields
    <3>2. CASE ~(c[i].table \in ts /\ c[i].missed # "yes")
      <4>1. d[i] = c[i] /\ m(i) = c[i].missed
        BY <2>2, <3>2
      <4> HIDE DEF m
      <4> QED
        BY <2>1, <4>1, EntryFields
    <3> QED
      BY <3>1, <3>2
  <2> HIDE DEF m
  <2> QED
    BY <2>1, <2>3, <2>4, EntryFields DEF Caches!Entry
<1>2. d = [i \in DOMAIN c |-> d[i]]
  BY DEF Caches!Outdate
<1> HIDE DEF d
<1>3. CacheShape(d, n) /\ DOMAIN d = DOMAIN c
  BY <1>1, <1>2, CacheChanges
<1>4. \A i \in DOMAIN c : UserEntryOK(c[i]) => UserEntryOK(d[i])
  BY <1>1 DEF UserEntryOK
<1>5. \A i \in DOMAIN c : EngineEntryOK(c[i]) /\ (c[i].table \notin ts \/ how # "yes") => EngineEntryOK(d[i])
  <2> HIDE DEF m
  <2>1. \A i \in DOMAIN c : EngineEntryOK(c[i]) /\ (c[i].table \notin ts \/ how # "yes") => m(i) # "yes"
    BY DEF EngineEntryOK, m
  <2> QED
    BY <1>1, <2>1 DEF EngineEntryOK
<1> QED
  BY <1>3, <1>4, <1>5 DEF d

\* What invalidate leaves.
LEMMA InvalidateFacts ==
  ASSUME NEW n \in Nat, NEW c, CacheShape(c, n), NEW ts
  PROVE  LET d == Caches!Invalidate(c, ts)
         IN  CacheShape(d, n) /\ From(d, c) /\ \A i \in DOMAIN d : d[i].table \notin ts
<1> DEFINE P == {i \in DOMAIN c : c[i].table \notin ts}
           d == Picked(c, P)
<1>1. Caches!Invalidate(c, ts) = d
  BY CachesPicked DEF Caches!Invalidate
<1>2. P \in SUBSET DOMAIN c
  OBVIOUS
<1>3. /\ CacheShape(d, n) /\ \A i \in DOMAIN d : \E j \in P : d[i] = c[j]
  <2> HIDE DEF P
  <2> QED
    BY <1>2, CacheLoses
<1>4. From(d, c) /\ \A i \in DOMAIN d : d[i].table \notin ts
  BY <1>3 DEF From
<1> HIDE DEF d
<1> QED
  BY <1>1, <1>3, <1>4

\* The engine's cache and the locks, as the invariant has them.
EngineOK == CacheShape(engine, MaxSize) /\ \A i \in DOMAIN engine : EngineEntryOK(engine[i])
UserOK == CacheShape(user, maxEntries) /\ \A i \in DOMAIN user : UserEntryOK(user[i])
LocksOK ==
  /\ DOMAIN buffered \subseteq Sessions /\ \A s \in DOMAIN buffered : buffered[s] \subseteq Tables
  /\ holder \in [Tables -> Sessions \cup {NoSession}]
  /\ claims \subseteq Sessions \X Tables

\* The invariant by its parts.
LEMMA CachesParts ==
  /\ CachesInv <=> EngineOK /\ UserOK /\ enabled \in BOOLEAN /\ maxEntries \in UserSizes /\ LocksOK
  /\ CachesInv' <=> EngineOK' /\ UserOK' /\ enabled' \in BOOLEAN /\ maxEntries' \in UserSizes /\ LocksOK'
BY DEF CachesInv, EngineOK, UserOK, LocksOK

\* A SELECT that the engine answers, from its cache or by evaluating it.
LEMMA AnsweredStep ==
  ASSUME CachesInv, NEW s \in Sessions, NEW q \in Queries, NEW e, Caches!Answered(s, q, e)
  PROVE  /\ EngineOK' /\ holder' \in [Tables -> Sessions \cup {NoSession}]
         /\ EngineEntryOK(e) /\ e.age <= TTL
<1>1. /\ EngineOK /\ holder \in [Tables -> Sessions \cup {NoSession}] /\ MaxSize \in Nat /\ TTL \in Nat
  BY CacheAssumption DEF CachesInv, EngineOK
<1>2. CASE Caches!CacheHit(s, q, e)
  <2>1. /\ Caches!Hit(engine, q) /\ e = Caches!Lookup(engine, q) /\ engine' = Caches!Touch(engine, q)
        /\ holder' = holder
    BY <1>2 DEF Caches!CacheHit
  <2>2. CacheShape(engine', MaxSize) /\ From(engine', engine)
    BY <1>1, <2>1, TouchFacts DEF EngineOK
  <2>3. EngineOK'
    BY <1>1, <2>2 DEF EngineOK, From
  <2>4. q \in Caches!Keys(engine) /\ e.age <= TTL
    BY <2>1 DEF Caches!Hit
  <2>5. EngineEntryOK(e)
    BY <1>1, <2>1, <2>4, LookupFacts DEF EngineOK
  <2> QED
    BY <1>1, <2>1, <2>3, <2>4, <2>5
<1>3. CASE Caches!CacheMiss(s, q, e)
  <2> DEFINE d == Caches!Drop(engine, q)
  <2>1. /\ e = Caches!Fresh(q)
        /\ engine' = engine \/ engine' = d \/ engine' = Caches!EnginePut(d, e)
        /\ holder' = holder \/ holder' = [holder EXCEPT ![q.from] = s]
    BY <1>3 DEF Caches!CacheMiss
  <2>2. EngineEntryOK(e) /\ e.age <= TTL /\ e \in Caches!Entry
    BY <1>1, <2>1, FreshFacts DEF EngineEntryOK
  <2>3. CacheShape(d, MaxSize) /\ From(d, engine)
    BY <1>1, DropFacts DEF EngineOK
  <2> HIDE DEF d
  <2>4. \A i \in DOMAIN d : EngineEntryOK(d[i])
    BY <1>1, <2>3 DEF EngineOK, From
  <2>5. ASSUME engine' = Caches!EnginePut(d, e)
        PROVE  EngineOK'
    <3>1. CacheShape(engine', MaxSize) /\ \A i \in DOMAIN engine' : engine'[i] = e \/ \E j \in DOMAIN d : engine'[i] = d[j]
      BY <2>2, <2>3, <2>5, EnginePutFacts
    <3> QED
      BY <2>1, <2>2, <2>4, <3>1, <1>1 DEF EngineOK
  <2>6. ASSUME engine' = d
        PROVE  EngineOK'
    BY <2>3, <2>4, <2>6 DEF EngineOK
  <2>7. ASSUME engine' = engine
        PROVE  EngineOK'
    BY <1>1, <2>7 DEF EngineOK
  <2>8. EngineOK'
    BY <2>1, <2>5, <2>6, <2>7
  <2>9. holder' \in [Tables -> Sessions \cup {NoSession}]
    BY <1>1, <2>1
  <2> QED
    BY <2>2, <2>8, <2>9
<1> QED
  BY <1>2, <1>3 DEF Caches!Answered

\* What a transaction was promised concerns the table of the query.
LEMMA ClaimedType ==
  ASSUME CachesInv, NEW s \in Sessions, NEW q \in Queries
  PROVE  Caches!Claimed(s, q) \subseteq Sessions \X Tables
<1>1. <<s, q.from>> \in Sessions \X Tables /\ claims \subseteq Sessions \X Tables
  BY CacheAssumption DEF CachesInv
<1> QED
  BY <1>1 DEF Caches!Claimed

\* SELECT of a client of the TCP server.
LEMMA SelectStep ==
  ASSUME CachesInv, NEW s \in Sessions, NEW q \in Queries, Caches!Select(s, q)
  PROVE  CachesInv'
<1>1. PICK e : Caches!Answered(s, q, e)
  BY DEF Caches!Select
<1>2. claims' = Caches!Claimed(s, q) /\ UNCHANGED <<user, enabled, maxEntries, buffered>>
  BY DEF Caches!Select
<1>3. EngineOK' /\ holder' \in [Tables -> Sessions \cup {NoSession}]
  BY <1>1, AnsweredStep
<1>4. UserOK' /\ LocksOK'
  BY <1>2, <1>3, ClaimedType, CachesParts DEF UserOK, LocksOK
<1> QED
  BY <1>2, <1>3, <1>4, CachesParts

\* SELECT over HTTP.
LEMMA HttpSelectStep ==
  ASSUME CachesInv, NEW s \in Sessions, NEW q \in Queries, Caches!HttpSelect(s, q)
  PROVE  CachesInv'
<1>1. claims' = Caches!Claimed(s, q) /\ UNCHANGED <<enabled, maxEntries, buffered>>
  BY DEF Caches!HttpSelect
<1>2. maxEntries \in Nat \ {0} /\ maxEntries \in Nat /\ UserOK /\ EngineOK /\ LocksOK
  BY RoomForOne, CachesParts
<1>3. EngineOK' /\ UserOK' /\ holder' \in [Tables -> Sessions \cup {NoSession}]
  <2>1. CASE Caches!Hit(user, q) /\ user' = Caches!Touch(user, q) /\ UNCHANGED <<engine, holder>>
    <3>1. CacheShape(user', maxEntries) /\ From(user', user)
      BY <1>2, <2>1, TouchFacts DEF UserOK
    <3>2. UserOK'
      BY <1>1, <1>2, <3>1 DEF UserOK, From
    <3> QED
      BY <1>2, <2>1, <3>2 DEF EngineOK, LocksOK
  <2>2. ASSUME NEW e, Caches!Answered(s, q, e), user' = Caches!UserPut(Caches!StoredByHttp(e))
        PROVE  EngineOK' /\ UserOK' /\ holder' \in [Tables -> Sessions \cup {NoSession}]
    <3>1. EngineOK' /\ holder' \in [Tables -> Sessions \cup {NoSession}] /\ EngineEntryOK(e) /\ e.age <= TTL
      BY <2>2, AnsweredStep
    <3>2. PICK f : f = Caches!StoredByHttp(e) /\ UserEntryOK(f) /\ f \in Caches!Entry
      BY <3>1, StoredFacts DEF UserEntryOK
    <3>3. user' = Caches!UserPut(f)
      BY <2>2, <3>2
    <3>4. CacheShape(user', maxEntries) /\ \A i \in DOMAIN user' : user'[i] = f \/ \E j \in DOMAIN user : user'[i] = user[j]
      BY <1>2, <3>2, <3>3, UserPutFacts DEF UserOK
    <3>5. UserOK'
      BY <1>1, <1>2, <3>2, <3>4 DEF UserOK
    <3> QED
      BY <3>1, <3>5
  <2> QED
    BY <2>1, <2>2 DEF Caches!HttpSelect
<1>4. LocksOK'
  BY <1>1, <1>2, <1>3, ClaimedType DEF LocksOK
<1> QED
  BY <1>1, <1>3, <1>4, CachesParts

\* An entry that invalidateCache leaves does not read the changed table.
LEMMA UnaffectedFamily ==
  ASSUME NEW t \in Tables, NEW a \in Tables, a \notin Caches!Affected(t), NEW ts, ts \subseteq {t}
  PROVE  ts \cap Caches!Family(a) = {}
BY DEF Caches!Affected

\* A statement that changes a table.
LEMMA WriteStep ==
  ASSUME CachesInv, NEW s \in Sessions, NEW by, NEW t \in Tables, Caches!Write(s, by, t)
  PROVE  CachesInv'
<1>0. PICK touched \in {{t}} \cup (IF s \in Caches!InTx THEN {{}} ELSE {}) :
        /\ buffered' = IF touched = {} THEN [buffered EXCEPT ![s] = @ \cup {t}] ELSE buffered
        /\ engine' \in {Caches!Outdate(Caches!Invalidate(engine, Caches!Affected(t)), Caches!Readers(touched), "yes")}
                       \cup (IF touched = {} THEN {engine} ELSE {})
        /\ user' = Caches!Outdate(Caches!Invalidate(user, Caches!HttpInvalidates(by, t)),
                                 IF by = "TCP" THEN {} ELSE touched, "yes")
        /\ UNCHANGED <<enabled, maxEntries, holder, claims>>
  BY DEF Caches!Write
<1> DEFINE c == Caches!Invalidate(engine, Caches!Affected(t))
           d == Caches!Invalidate(user, Caches!HttpInvalidates(by, t))
           ts == IF by = "TCP" THEN {} ELSE touched
<1>1. /\ buffered' = IF touched = {} THEN [buffered EXCEPT ![s] = @ \cup {t}] ELSE buffered
      /\ touched = {} => s \in Caches!InTx
      /\ engine' = Caches!Outdate(c, Caches!Readers(touched), "yes") \/ engine' = engine
      /\ user' = Caches!Outdate(d, ts, "yes")
      /\ UNCHANGED <<enabled, maxEntries, holder, claims>>
  BY <1>0
<1>2. maxEntries \in Nat /\ MaxSize \in Nat /\ UserOK /\ EngineOK /\ LocksOK
  BY RoomForOne, CachesParts
<1>3. touched \subseteq {t}
  OBVIOUS
<1>4. CacheShape(c, MaxSize) /\ From(c, engine) /\ \A i \in DOMAIN c : c[i].table \notin Caches!Affected(t)
  BY <1>2, InvalidateFacts DEF EngineOK
<1>5. CacheShape(d, maxEntries) /\ From(d, user)
  BY <1>2, InvalidateFacts DEF UserOK
<1> HIDE DEF c, d, ts
<1>6. EngineOK'
  <2>1. CASE engine' = Caches!Outdate(c, Caches!Readers(touched), "yes")
    <3>1. /\ CacheShape(engine', MaxSize) /\ DOMAIN engine' = DOMAIN c
          /\ \A i \in DOMAIN c :
               EngineEntryOK(c[i]) /\ c[i].table \notin Caches!Readers(touched) => EngineEntryOK(engine'[i])
      BY <1>2, <1>4, <2>1, OutdateFacts
    <3>2. \A i \in DOMAIN c : EngineEntryOK(c[i])
      BY <1>2, <1>4 DEF EngineOK, From
    <3>3. ASSUME NEW i \in DOMAIN c
          PROVE  c[i].table \notin Caches!Readers(touched)
      <4>1. c[i].table \in Tables
        BY <3>2, EntryFields DEF EngineEntryOK
      <4> QED
        BY <1>3, <1>4, <4>1, UnaffectedFamily DEF Caches!Readers
    <3>4. \A i \in DOMAIN engine' : EngineEntryOK(engine'[i])
      BY <3>1, <3>2, <3>3
    <3> QED
      BY <3>1, <3>4 DEF EngineOK
  <2>2. CASE engine' = engine
    BY <1>2, <2>2 DEF EngineOK
  <2> QED
    BY <1>1, <2>1, <2>2
<1>7. UserOK'
  <2>1. /\ CacheShape(user', maxEntries) /\ DOMAIN user' = DOMAIN d
        /\ \A i \in DOMAIN d : UserEntryOK(d[i]) => UserEntryOK(user'[i])
    BY <1>1, <1>2, <1>5, OutdateFacts
  <2>2. \A i \in DOMAIN d : UserEntryOK(d[i])
    BY <1>2, <1>5 DEF UserOK, From
  <2>3. maxEntries' = maxEntries
    BY <1>1
  <2> QED
    BY <2>1, <2>2, <2>3 DEF UserOK
<1>8. LocksOK'
  BY <1>1, <1>2 DEF LocksOK, Caches!InTx
<1> QED
  BY <1>1, <1>6, <1>7, <1>8, CachesParts

\* A change that invalidates nothing, and a COMMIT that fails half way.
LEMMA UnseenStep ==
  ASSUME CachesInv,
         \/ \E t \in Tables : Caches!WriteUnseen(t)
         \/ \E s \in Sessions : Caches!CommitThrows(s)
  PROVE  CachesInv'
<1>1. PICK ts : /\ engine' = Caches!Outdate(engine, ts, "silently")
                /\ UNCHANGED <<user, enabled, maxEntries, buffered, holder, claims>>
  BY DEF Caches!WriteUnseen, Caches!CommitThrows
<1>2. MaxSize \in Nat /\ UserOK /\ EngineOK /\ LocksOK
  BY RoomForOne, CachesParts
<1>3. /\ CacheShape(engine', MaxSize) /\ DOMAIN engine' = DOMAIN engine
      /\ \A i \in DOMAIN engine : EngineEntryOK(engine[i]) => EngineEntryOK(engine'[i])
  BY <1>1, <1>2, OutdateFacts DEF EngineOK
<1>4. EngineOK'
  BY <1>2, <1>3 DEF EngineOK
<1>5. UserOK' /\ LocksOK'
  BY <1>1, <1>2 DEF UserOK, LocksOK
<1> QED
  BY <1>1, <1>4, <1>5, CachesParts

\* BEGIN, COMMIT and ROLLBACK.
LEMMA SessionStep ==
  ASSUME CachesInv, NEW s \in Sessions, Caches!Begin(s) \/ Caches!Commit(s) \/ Caches!Rollback(s)
  PROVE  CachesInv'
<1>1. UserOK /\ EngineOK /\ LocksOK
  BY CachesParts
<1>2. LocksOK' /\ UNCHANGED <<user, enabled, maxEntries>>
  <2>1. CASE Caches!Begin(s)
    BY <1>1, <2>1 DEF Caches!Begin, Caches!InTx, LocksOK
  <2>2. CASE Caches!Ended(s) /\ UNCHANGED user
    BY <1>1, <2>2 DEF Caches!Ended, Caches!InTx, LocksOK
  <2> QED
    BY <2>1, <2>2 DEF Caches!Commit, Caches!Rollback
<1>3. engine' = engine \/ engine' = <<>>
  BY DEF Caches!Begin, Caches!Commit, Caches!Rollback
<1>4. EngineOK'
  <2>1. CASE engine' = <<>>
    BY <2>1, CacheAssumption DEF EngineOK, CacheShape
  <2>2. CASE engine' = engine
    BY <1>1, <2>2 DEF EngineOK
  <2> QED
    BY <1>3, <2>1, <2>2
<1>5. UserOK'
  BY <1>1, <1>2 DEF UserOK
<1> QED
  BY <1>2, <1>4, <1>5, CachesParts

\* The settings, FLUSH and the passing of time.
LEMMA SettingStep ==
  ASSUME CachesInv,
         \/ Caches!Flush \/ Caches!Tick \/ \E b \in BOOLEAN : Caches!SetEnabled(b)
         \/ \E n \in UserSizes : Caches!SetMaxEntries(n)
  PROVE  CachesInv'
<1>1. UserOK /\ EngineOK /\ LocksOK /\ maxEntries \in Nat /\ MaxSize \in Nat
  BY RoomForOne, CachesParts
<1>2. LocksOK'
  <2>1. UNCHANGED <<buffered, holder, claims>>
    BY DEF Caches!Flush, Caches!Tick, Caches!SetEnabled, Caches!SetMaxEntries
  <2> QED
    BY <1>1, <2>1 DEF LocksOK
<1>3. CASE Caches!Flush
  <2>1. engine' = <<>> /\ user' = <<>> /\ UNCHANGED <<enabled, maxEntries>>
    BY <1>3 DEF Caches!Flush
  <2>2. EngineOK' /\ UserOK'
    BY <1>1, <2>1 DEF EngineOK, UserOK, CacheShape
  <2> QED
    BY <1>2, <2>1, <2>2, CachesParts
<1>4. CASE Caches!Tick
  <2>1. /\ engine' = [i \in DOMAIN engine |-> Caches!Older(engine[i])]
        /\ user' = [i \in DOMAIN user |-> Caches!Older(user[i])]
        /\ UNCHANGED <<enabled, maxEntries>>
    BY <1>4 DEF Caches!Tick
  <2>2. ASSUME NEW i \in DOMAIN engine
        PROVE  engine'[i] \in Caches!Entry /\ engine'[i].key = engine[i].key /\ EngineEntryOK(engine'[i])
    <3>1. engine[i] \in Caches!Entry /\ EngineEntryOK(engine[i]) /\ engine'[i] = Caches!Older(engine[i])
      BY <1>1, <2>1 DEF EngineOK, EngineEntryOK
    <3> QED
      BY <3>1, OlderFacts
  <2>3. ASSUME NEW i \in DOMAIN user
        PROVE  user'[i] \in Caches!Entry /\ user'[i].key = user[i].key /\ UserEntryOK(user'[i])
    <3>1. user[i] \in Caches!Entry /\ UserEntryOK(user[i]) /\ user'[i] = Caches!Older(user[i])
      BY <1>1, <2>1 DEF UserOK, UserEntryOK
    <3> QED
      BY <3>1, OlderFacts
  <2>4. engine' = [i \in DOMAIN engine |-> engine'[i]] /\ user' = [i \in DOMAIN user |-> user'[i]]
    BY <2>1
  <2>5. CacheShape(engine', MaxSize) /\ DOMAIN engine' = DOMAIN engine
    BY <1>1, <2>2, <2>4, CacheChanges DEF EngineOK
  <2>6. CacheShape(user', maxEntries) /\ DOMAIN user' = DOMAIN user
    BY <1>1, <2>3, <2>4, CacheChanges DEF UserOK
  <2>7. EngineOK' /\ UserOK'
    BY <2>1, <2>2, <2>3, <2>5, <2>6 DEF EngineOK, UserOK
  <2> QED
    BY <1>2, <2>1, <2>7, CachesParts
<1>5. ASSUME NEW b \in BOOLEAN, Caches!SetEnabled(b)
      PROVE  CachesInv'
  <2>1. enabled' \in BOOLEAN /\ UNCHANGED <<engine, user, maxEntries>>
    BY <1>5 DEF Caches!SetEnabled
  <2>2. EngineOK' /\ UserOK'
    BY <1>1, <2>1 DEF EngineOK, UserOK
  <2> QED
    BY <1>2, <2>1, <2>2, CachesParts
<1>6. ASSUME NEW n \in UserSizes, Caches!SetMaxEntries(n)
      PROVE  CachesInv'
  <2>1. maxEntries' = n /\ enabled' = TRUE /\ user' = Caches!First(user, n) /\ engine' = engine
    BY <1>6 DEF Caches!SetMaxEntries
  <2>2. n \in Nat
    BY CacheAssumption
  <2>3. CacheShape(user', n) /\ From(user', user)
    BY <1>1, <2>1, <2>2, FirstFacts DEF UserOK
  <2>4. EngineOK' /\ UserOK'
    BY <1>1, <2>1, <2>3 DEF EngineOK, UserOK, From
  <2> QED
    BY <1>2, <2>1, <2>4, CachesParts
<1> QED
  BY <1>3, <1>4, <1>5, <1>6

\* Every statement and every tick keeps the invariant.
LEMMA CachesInvStep == CachesInv /\ [AllNext]_all => CachesInv'
<1> SUFFICES ASSUME CachesInv, [AllNext]_all
             PROVE  CachesInv'
  OBVIOUS
<1>1. CASE UNCHANGED caches
  BY <1>1 DEF caches, CachesInv
<1>2. CASE Caches!Next
  BY <1>2, SelectStep, HttpSelectStep, WriteStep, UnseenStep, SessionStep, SettingStep DEF Caches!Next
<1> QED
  BY <1>1, <1>2 DEF AllNext, all

\* Empty caches, no transactions.
LEMMA CachesInvInit == ASSUME NEW P, AllInit(P) PROVE CachesInv
<1>1. /\ engine = <<>> /\ user = <<>> /\ enabled = TRUE /\ maxEntries \in UserSizes
      /\ buffered = [s \in {} |-> {}] /\ holder = [t \in Tables |-> NoSession] /\ claims = {}
  BY DEF AllInit, Caches!Init
<1> QED
  BY <1>1, CacheAssumption DEF CachesInv, CacheShape

\* The invariant of the caches holds.
LEMMA CachesInvHolds == AllSpec => []CachesInv
<1>1. AllInit({"transactions", "store", "caches", "feeds"}) => CachesInv
  BY CachesInvInit
<1> QED
  BY <1>1, CachesInvStep, PTL DEF AllSpec

\* For any tables, inheritance, queries, sizes and lifetimes: the engine's cache has no entry
\* from before a change to what its query reads, whoever made the change, in a transaction or
\* not, and whether or not the cache was switched on at that time; changes by statements that
\* end in an error or invalidate nothing excepted.
THEOREM EngineAnswersAreCurrent == AllSpec => []EngineCacheIsCurrent
<1>1. CachesInv => EngineCacheIsCurrent
  BY DEF CachesInv, EngineEntryOK, EngineCacheIsCurrent, Caches!EngineCacheIsCurrent
<1> QED
  BY <1>1, CachesInvHolds, PTL

\* No answer is older than one lifetime from the engine's cache, and two from the HTTP server's.
THEOREM NoAnswerOutlivesTwoLifetimes == AllSpec => []AnswersExpire
<1>1. ASSUME CachesInv
      PROVE  AnswersExpire
  <2>1. TTL \in Nat
    BY CacheAssumption
  <2>2. ASSUME NEW i \in DOMAIN engine, engine[i].age <= TTL
        PROVE  engine[i].since <= TTL
    <3>1. EngineEntryOK(engine[i]) /\ engine[i].age \in Nat /\ engine[i].since \in Nat
      BY <1>1, <2>1, EntryFields DEF CachesInv, EngineEntryOK
    <3> QED
      BY <2>1, <2>2, <3>1 DEF EngineEntryOK
  <2>3. ASSUME NEW i \in DOMAIN user, user[i].age <= TTL
        PROVE  user[i].since <= 2 * TTL
    <3>1. UserEntryOK(user[i]) /\ user[i].age \in Nat /\ user[i].since \in Nat
      BY <1>1, <2>1, EntryFields DEF CachesInv, UserEntryOK
    <3> QED
      BY <2>1, <2>3, <3>1 DEF UserEntryOK
  <2> QED
    BY <2>2, <2>3 DEF AnswersExpire, Caches!AnswersExpire
<1> QED
  BY <1>1, CachesInvHolds, PTL
-----------------------------------------------------------------------------
(* Sequences that list a set. *)

\* s has every element of A once.
Lists(s, A) ==
  /\ s \in Seq(A)
  /\ \A i, j \in DOMAIN s : s[i] = s[j] => i = j
  /\ \A x \in A : \E i \in DOMAIN s : s[i] = x

\* The length of a list is the size of the set, and its entries are the set.
LEMMA ListsSize ==
  ASSUME NEW s, NEW A, Lists(s, A)
  PROVE  /\ IsFiniteSet(A) /\ Len(s) = Cardinality(A) /\ {s[i] : i \in DOMAIN s} = A
         /\ DOMAIN s = 1 .. Len(s) /\ Len(s) \in Nat /\ \A i \in DOMAIN s : s[i] \in A
<1>1. PICK n \in Nat : n = Len(s) /\ DOMAIN s = 1 .. n /\ s \in [1 .. n -> A]
  BY DEF Lists
<1>2. s \in Bijection(1 .. n, A)
  BY <1>1 DEF Lists, Bijection, Injection, Surjection, IsInjective
<1>3. IsFiniteSet(1 .. n) /\ Cardinality(1 .. n) = n
  BY FS_Interval
<1>4. IsFiniteSet(A) /\ Cardinality(A) = n
  BY <1>2, <1>3, FS_Bijection DEF ExistsBijection
<1>5. \A i \in DOMAIN s : s[i] \in A
  BY <1>1
<1>6. {s[i] : i \in DOMAIN s} = A
  <2>1. \A x \in A : \E i \in DOMAIN s : s[i] = x
    BY DEF Lists
  <2> QED
    BY <1>5, <2>1
<1> QED
  BY <1>1, <1>4, <1>5, <1>6

\* Ascending lists a set of numbers.
LEMMA AscendingIsList ==
  ASSUME NEW S \in SUBSET Nat, IsFiniteSet(S)
  PROVE  Lists(Ascending(S), S)
<1> DEFINE a == Ascending(S)
<1>1. /\ Cardinality(S) \in Nat /\ Len(a) = Cardinality(S) /\ a \in Seq(S)
      /\ \A i \in 1 .. Cardinality(S) : a[i] \in S
      /\ \A i, j \in 1 .. Cardinality(S) : i < j => a[i] < a[j]
      /\ \A x \in S : \E i \in 1 .. Cardinality(S) : a[i] = x
  BY AscendingLists
<1> HIDE DEF a
<1>2. DOMAIN a = 1 .. Cardinality(S)
  BY <1>1
<1>3. ASSUME NEW i \in DOMAIN a, NEW j \in DOMAIN a, a[i] = a[j]
      PROVE  i = j
  <2>1. a[i] \in S /\ a[j] \in S /\ i \in Nat /\ j \in Nat
    BY <1>1, <1>2
  <2>2. a[i] \in Nat /\ a[j] \in Nat
    BY <2>1
  <2>3. (i < j => a[i] < a[j]) /\ (j < i => a[j] < a[i])
    BY <1>1, <1>2
  <2> QED
    BY <1>3, <2>1, <2>2, <2>3
<1> QED
  BY <1>1, <1>2, <1>3 DEF Lists, a

\* The entries of a list that are in a smaller set.
LEMMA PickedIsList ==
  ASSUME NEW A, NEW s, Lists(s, A), NEW B \in SUBSET A,
         NEW P \in SUBSET DOMAIN s, \A k \in DOMAIN s : k \in P <=> s[k] \in B
  PROVE  Lists(Picked(s, P), B)
<1> DEFINE p == Picked(s, P)
           a == Ascending(P)
<1>1. s \in Seq(A) /\ P \in SUBSET DOMAIN s
  BY DEF Lists
<1>2. /\ p \in Seq(A) /\ Len(p) = Cardinality(P) /\ DOMAIN p = 1 .. Len(p)
      /\ \A i \in DOMAIN p : a[i] \in P /\ p[i] = s[a[i]]
      /\ \A i, j \in DOMAIN p : a[i] = a[j] => i = j
  BY <1>1, PickedFrom
<1>3. P \in SUBSET Nat /\ IsFiniteSet(P)
  BY <1>1, PickedReads
<1>4. \A x \in P : \E i \in 1 .. Cardinality(P) : a[i] = x
  BY <1>3, AscendingLists
<1> HIDE DEF p, a
<1>5. p \in Seq(B)
  <2>1. \A i \in 1 .. Len(p) : p[i] \in B
    BY <1>2
  <2> QED
    BY <1>2, <2>1, SeqOver
<1>6. \A i, j \in DOMAIN p : p[i] = p[j] => i = j
  BY <1>1, <1>2 DEF Lists
<1>7. ASSUME NEW x \in B
      PROVE  \E i \in DOMAIN p : p[i] = x
  <2>1. PICK k \in DOMAIN s : s[k] = x
    BY DEF Lists
  <2>2. k \in P
    BY <2>1
  <2>3. PICK i \in DOMAIN p : a[i] = k
    BY <1>2, <1>4, <2>2
  <2> QED
    BY <1>2, <2>1, <2>3
<1> QED
  BY <1>5, <1>6, <1>7 DEF Lists, p

\* Nothing lists nothing.
LEMMA EmptyIsList == Lists(<<>>, {})
BY DEF Lists

\* One list after another.
LEMMA ConcatIsList ==
  ASSUME NEW s, NEW A, Lists(s, A), NEW t, NEW B, Lists(t, B), A \cap B = {}
  PROVE  Lists(s \o t, A \cup B)
<1> DEFINE u == s \o t
<1>1. /\ Len(s) \in Nat /\ DOMAIN s = 1 .. Len(s) /\ Len(t) \in Nat /\ DOMAIN t = 1 .. Len(t)
      /\ \A i \in DOMAIN s : s[i] \in A
      /\ \A i \in DOMAIN t : t[i] \in B
  BY ListsSize
<1>2. s \in Seq(A \cup B) /\ t \in Seq(A \cup B)
  BY <1>1, SeqOver DEF Lists
<1>3. /\ u \in Seq(A \cup B) /\ Len(u) = Len(s) + Len(t) /\ DOMAIN u = 1 .. (Len(s) + Len(t))
      /\ \A i \in 1 .. (Len(s) + Len(t)) : u[i] = IF i <= Len(s) THEN s[i] ELSE t[i - Len(s)]
  BY <1>2, ConcatProperties
<1> HIDE DEF u
<1>4. ASSUME NEW i \in DOMAIN u
      PROVE  \/ i \in DOMAIN s /\ u[i] = s[i] /\ u[i] \in A
             \/ i - Len(s) \in DOMAIN t /\ ~(i <= Len(s)) /\ u[i] = t[i - Len(s)] /\ u[i] \in B
  BY <1>1, <1>3
<1>5. ASSUME NEW i \in DOMAIN u, NEW j \in DOMAIN u, u[i] = u[j]
      PROVE  i = j
  <2>1. CASE i \in DOMAIN s /\ u[i] = s[i] /\ u[i] \in A
    <3>1. j \in DOMAIN s /\ u[j] = s[j]
      BY <1>4, <1>5, <2>1
    <3> QED
      BY <1>5, <2>1, <3>1 DEF Lists
  <2>2. CASE i - Len(s) \in DOMAIN t /\ ~(i <= Len(s)) /\ u[i] = t[i - Len(s)] /\ u[i] \in B
    <3>1. j - Len(s) \in DOMAIN t /\ u[j] = t[j - Len(s)]
      BY <1>4, <1>5, <2>2
    <3>2. i - Len(s) = j - Len(s)
      BY <1>5, <2>2, <3>1 DEF Lists
    <3> QED
      BY <1>1, <1>3, <3>2
  <2> QED
    BY <1>4, <2>1, <2>2
<1>6. ASSUME NEW x \in A \cup B
      PROVE  \E i \in DOMAIN u : u[i] = x
  <2>1. CASE x \in A
    <3>1. PICK i \in DOMAIN s : s[i] = x
      BY <2>1 DEF Lists
    <3>2. i \in DOMAIN u /\ u[i] = s[i]
      BY <1>1, <1>3
    <3> QED
      BY <3>1, <3>2
  <2>2. CASE x \in B
    <3>1. PICK i \in DOMAIN t : t[i] = x
      BY <2>2 DEF Lists
    <3>2. i + Len(s) \in DOMAIN u /\ ~(i + Len(s) <= Len(s)) /\ i + Len(s) - Len(s) = i
      BY <1>1, <1>3
    <3>3. u[i + Len(s)] = t[i]
      BY <1>3, <3>2
    <3> QED
      BY <3>1, <3>2, <3>3
  <2> QED
    BY <2>1, <2>2
<1> QED
  BY <1>3, <1>5, <1>6 DEF Lists, u

\* The partial results of FlattenSeq.
Partial(f, ss, n) == f = [i \in 1 .. n |-> IF i = 1 THEN ss[i] ELSE f[i - 1] \o ss[i]]

\* There are partial results for every length.
LEMMA PartialExists ==
  ASSUME NEW ss, NEW n \in Nat
  PROVE  \E f : Partial(f, ss, n)
<1> DEFINE S == {m \in Nat : \E f : Partial(f, ss, m)}
<1>1. 0 \in S
  <2> DEFINE f == [i \in 1 .. 0 |-> <<>>]
  <2>1. Partial(f, ss, 0)
    <3>1. \A i : i \notin 1 .. 0
      OBVIOUS
    <3> QED
      BY <3>1 DEF Partial
  <2> QED
    BY <2>1
<1>2. ASSUME NEW m \in Nat, m \in S
      PROVE  m + 1 \in S
  <2>1. PICK f : Partial(f, ss, m)
    BY <1>2
  <2> DEFINE g == [i \in 1 .. (m + 1) |-> IF i \in 1 .. m THEN f[i] ELSE IF i = 1 THEN ss[i] ELSE f[i - 1] \o ss[i]]
  <2>2. ASSUME NEW i \in 1 .. (m + 1)
        PROVE  g[i] = IF i = 1 THEN ss[i] ELSE g[i - 1] \o ss[i]
    <3>1. i # 1 => i - 1 \in 1 .. m /\ i - 1 \in 1 .. (m + 1) /\ g[i - 1] = f[i - 1]
      OBVIOUS
    <3>2. i \in 1 .. m => g[i] = f[i] /\ f[i] = IF i = 1 THEN ss[i] ELSE f[i - 1] \o ss[i]
      BY <2>1 DEF Partial
    <3>3. i \notin 1 .. m => g[i] = IF i = 1 THEN ss[i] ELSE f[i - 1] \o ss[i]
      OBVIOUS
    <3> HIDE DEF g
    <3> QED
      BY <3>1, <3>2, <3>3
  <2>3. g = [i \in 1 .. (m + 1) |-> g[i]]
    OBVIOUS
  <2> HIDE DEF g
  <2>4. Partial(g, ss, m + 1)
    BY <2>2, <2>3 DEF Partial
  <2> QED
    BY <2>4
<1> HIDE DEF S
<1>3. Nat \subseteq S
  BY <1>1, <1>2, SetInduction
<1> QED
  BY <1>3 DEF S

\* FlattenSeq is the last one.
LEMMA FlattenReads ==
  ASSUME NEW ss, NEW n \in Nat, Len(ss) = n, n # 0
  PROVE  \E f : Partial(f, ss, n) /\ Store!FlattenSeq(ss) = f[n]
<1> DEFINE f == CHOOSE f : f = [i \in 1 .. n |-> IF i = 1 THEN ss[i] ELSE f[i - 1] \o ss[i]]
<1>1. \E g : g = [i \in 1 .. n |-> IF i = 1 THEN ss[i] ELSE g[i - 1] \o ss[i]]
  BY PartialExists DEF Partial
<1>2. f = [i \in 1 .. n |-> IF i = 1 THEN ss[i] ELSE f[i - 1] \o ss[i]]
  BY <1>1
<1>3. Store!FlattenSeq(ss) = f[n]
  BY DEF Store!FlattenSeq
<1> HIDE DEF f
<1> QED
  BY <1>2, <1>3 DEF Partial

\* One step of them.
PartialSteps(f, ss, n) ==
  /\ n # 0 => f[1] = ss[1]
  /\ \A m \in 1 .. n : m + 1 \in 1 .. n => f[m + 1] = f[m] \o ss[m + 1]

\* The partial results are made by such steps.
LEMMA PartialStep ==
  ASSUME NEW n \in Nat, NEW ss, NEW f, Partial(f, ss, n)
  PROVE  PartialSteps(f, ss, n)
<1>1. ASSUME NEW m \in 1 .. n, m + 1 \in 1 .. n
      PROVE  f[m + 1] = f[m] \o ss[m + 1]
  <2> DEFINE k == m + 1
  <2>1. k \in 1 .. n /\ k # 1 /\ k - 1 = m
    BY <1>1
  <2> HIDE DEF k
  <2>2. f[k] = f[k - 1] \o ss[k]
    BY <2>1 DEF Partial
  <2> QED
    BY <2>1, <2>2 DEF k
<1>2. ASSUME n # 0
      PROVE  f[1] = ss[1]
  BY <1>2 DEF Partial
<1> QED
  BY <1>1, <1>2 DEF PartialSteps

\* The sequences list sets that have nothing in common; the first m of the sets together.
ListsEach(ss, A, n) ==
  /\ \A i \in 1 .. n : Lists(ss[i], A[i])
  /\ \A i, j \in 1 .. n : i # j => A[i] \cap A[j] = {}
Together(A, m) == UNION {A[i] : i \in 1 .. m}

\* The partial results list what was put together so far.
LEMMA PartialLists ==
  ASSUME NEW n \in Nat, NEW ss, NEW f, Partial(f, ss, n), NEW A, ListsEach(ss, A, n)
  PROVE  \A m \in 1 .. n : Lists(f[m], Together(A, m))
<1> DEFINE U(m) == UNION {A[i] : i \in 1 .. m}
           S == {m \in Nat : m \in 1 .. n => Lists(f[m], U(m))}
<1>0. /\ \A i \in 1 .. n : Lists(ss[i], A[i])
      /\ \A i, j \in 1 .. n : i # j => A[i] \cap A[j] = {}
  BY DEF ListsEach
<1>p. PartialSteps(f, ss, n)
  BY PartialStep
<1>1. \A m \in 1 .. n : m + 1 \in 1 .. n => f[m + 1] = f[m] \o ss[m + 1]
  BY <1>p DEF PartialSteps
<1>2. n # 0 => f[1] = ss[1]
  BY <1>p DEF PartialSteps
<1>3. 0 \in S
  OBVIOUS
<1>4. ASSUME NEW m \in Nat, m \in S
      PROVE  m + 1 \in S
  <2> SUFFICES ASSUME m + 1 \in 1 .. n
               PROVE  Lists(f[m + 1], U(m + 1))
    OBVIOUS
  <2>1. Lists(ss[m + 1], A[m + 1])
    BY <1>0
  <2>2. CASE m = 0
    <3>1. f[m + 1] = ss[m + 1]
      BY <1>2, <2>2
    <3>2. U(m + 1) = A[m + 1]
      BY <2>2
    <3> QED
      BY <2>1, <3>1, <3>2
  <2>3. CASE m # 0
    <3>1. m \in 1 .. n
      BY <2>3
    <3>2. f[m + 1] = f[m] \o ss[m + 1]
      BY <1>1, <3>1
    <3>3. Lists(f[m], U(m))
      BY <1>4, <3>1
    <3>4. U(m + 1) = U(m) \cup A[m + 1]
      <4>1. \A i : i \in 1 .. (m + 1) <=> i \in 1 .. m \/ i = m + 1
        OBVIOUS
      <4> QED
        BY <4>1
    <3>5. U(m) \cap A[m + 1] = {}
      <4>1. \A i \in 1 .. m : i \in 1 .. n /\ i # m + 1
        OBVIOUS
      <4> QED
        BY <1>0, <4>1
    <3> HIDE DEF U
    <3> QED
      BY <2>1, <3>2, <3>3, <3>4, <3>5, ConcatIsList
  <2> QED
    BY <2>2, <2>3
<1> HIDE DEF S
<1>5. Nat \subseteq S
  BY <1>3, <1>4, SetInduction
<1>6. ASSUME NEW m \in 1 .. n
      PROVE  Lists(f[m], Together(A, m))
  <2>1. m \in S
    BY <1>5
  <2> HIDE DEF U
  <2>2. Lists(f[m], U(m))
    BY <2>1 DEF S
  <2> QED
    BY <2>2 DEF Together, U
<1> QED
  BY <1>6

\* Lists of different sets, one after the other.
LEMMA FlattenIsList ==
  ASSUME NEW n \in Nat, NEW ss, ss = [i \in 1 .. n |-> ss[i]], NEW A, ListsEach(ss, A, n)
  PROVE  Lists(Store!FlattenSeq(ss), Together(A, n))
<1>1. Len(ss) = n
  OBVIOUS
<1>2. CASE n = 0
  <2>1. Store!FlattenSeq(ss) = ss /\ ss = <<>>
    BY <1>1, <1>2 DEF Store!FlattenSeq
  <2>2. Together(A, n) = {}
    BY <1>2 DEF Together
  <2> QED
    BY <2>1, <2>2, EmptyIsList
<1>3. CASE n # 0
  <2>1. PICK f : Partial(f, ss, n) /\ Store!FlattenSeq(ss) = f[n]
    BY <1>1, <1>3, FlattenReads
  <2>2. \A m \in 1 .. n : Lists(f[m], Together(A, m))
    BY <2>1, PartialLists
  <2>3. n \in 1 .. n
    BY <1>3
  <2> QED
    BY <2>1, <2>2, <2>3
<1> QED
  BY <1>2, <1>3
-----------------------------------------------------------------------------
(* The table and its index. *)

\* A row of the table.
RowSet == [val : DOMAIN Number, dead : BOOLEAN]

\* The rows of rs that have the value, and the ones that are alive.
HavingIn(rs, v) == {i \in DOMAIN rs : rs[i].val = v}
AliveIn(rs) == {i \in DOMAIN rs : ~rs[i].dead}

\* An index of rs: it lists rows that have the value, and misses dead ones only.
IndexOf(ix, rs) ==
  \A v \in DOMAIN Number :
    \E A \in SUBSET HavingIn(rs, v) : Lists(ix[v], A) /\ HavingIn(rs, v) \cap AliveIn(rs) \subseteq A

StoreInv ==
  /\ rows \in Seq(RowSet) /\ Len(rows) <= MaxRows
  /\ indexed \in BOOLEAN
  /\ index \in [DOMAIN Number -> Seq(1 .. MaxRows)]
  /\ indexed => IndexOf(index, rows)

\* The instance's operators on selections are the ones the lemmas are about.
LEMMA StoreSelections ==
  /\ \A S : Store!Cardinality(S) = Cardinality(S)
  /\ \A S : Store!Ascending(S) = Ascending(S)
  /\ \A s, P : Store!Picked(s, P) = Picked(s, P)
<1>1. \A S : Store!Cardinality(S) = Cardinality(S)
  BY DEF Store!Cardinality, Cardinality, Store!IsFiniteSet, IsFiniteSet
<1>2. \A S, i : Store!Nth(S, i) = Nth(S, i)
  BY <1>1 DEF Store!Nth, Nth
<1>3. \A S : Store!Ascending(S) = Ascending(S)
  BY <1>1, <1>2 DEF Store!Ascending, Ascending
<1> QED
  BY <1>1, <1>2, <1>3 DEF Store!Picked, Picked

\* The positions of the table, in numbers.
LEMMA RowsShape ==
  ASSUME NEW rs \in Seq(RowSet), Len(rs) <= MaxRows
  PROVE  /\ Len(rs) \in Nat /\ DOMAIN rs = 1 .. Len(rs) /\ DOMAIN rs \subseteq 1 .. MaxRows
         /\ rs = [i \in DOMAIN rs |-> rs[i]]
         /\ IsFiniteSet(DOMAIN rs)
         /\ \A i \in DOMAIN rs : rs[i] \in RowSet /\ rs[i].val \in DOMAIN Number
                                 /\ rs[i].dead \in BOOLEAN
<1>1. Len(rs) \in Nat /\ DOMAIN rs = 1 .. Len(rs) /\ MaxRows \in Nat
  BY StringsAssumption
<1>2. IsFiniteSet(DOMAIN rs)
  BY <1>1, FS_Interval
<1>3. DOMAIN rs \subseteq 1 .. MaxRows /\ rs = [i \in DOMAIN rs |-> rs[i]]
  BY <1>1
<1>4. \A i \in DOMAIN rs : rs[i] \in RowSet
  OBVIOUS
<1>5. \A r \in RowSet : r.val \in DOMAIN Number /\ r.dead \in BOOLEAN
  BY DEF RowSet
<1> QED
  BY <1>1, <1>2, <1>3, <1>4, <1>5

\* A list of positions is a sequence of them.
LEMMA PositionsAreTyped ==
  ASSUME NEW rs \in Seq(RowSet), Len(rs) <= MaxRows, NEW A \in SUBSET DOMAIN rs, NEW s, Lists(s, A)
  PROVE  s \in Seq(1 .. MaxRows)
<1>1. A \subseteq 1 .. MaxRows
  BY RowsShape
<1>2. s \in Seq(A) /\ \A i \in 1 .. Len(s) : s[i] \in 1 .. MaxRows
  BY <1>1, ListsSize DEF Lists
<1> QED
  BY <1>2, SeqOver

\* rebuildAll makes an index of the rows.
LEMMA RebuiltIsIndex ==
  ASSUME StoreInv, NEW rs \in Seq(RowSet), Len(rs) <= MaxRows
  PROVE  /\ Store!Rebuilt(rs) \in [DOMAIN Number -> Seq(1 .. MaxRows)]
         /\ indexed => IndexOf(Store!Rebuilt(rs), rs)
<1>1. CASE ~indexed
  BY <1>1 DEF Store!Rebuilt, StoreInv
<1>2. CASE indexed
  <2> DEFINE H(v) == {i \in DOMAIN rs : rs[i].val = v /\ ~rs[i].dead}
  <2>1. Store!Rebuilt(rs) = [v \in DOMAIN Number |-> Ascending(H(v))]
    BY <1>2, StoreSelections DEF Store!Rebuilt, Store!Vals
  <2>2. \A v : H(v) \in SUBSET DOMAIN rs /\ H(v) = HavingIn(rs, v) \cap AliveIn(rs)
    BY DEF HavingIn, AliveIn
  <2> HIDE DEF H
  <2>3. ASSUME NEW v \in DOMAIN Number
        PROVE  /\ Ascending(H(v)) \in Seq(1 .. MaxRows)
               /\ Lists(Ascending(H(v)), H(v))
    <3>1. IsFiniteSet(DOMAIN rs) /\ DOMAIN rs \subseteq Nat /\ H(v) \in SUBSET DOMAIN rs
      BY <2>2, RowsShape
    <3>2. H(v) \in SUBSET Nat /\ IsFiniteSet(H(v))
      BY <3>1, FS_Subset
    <3>3. Lists(Ascending(H(v)), H(v))
      BY <3>2, AscendingIsList
    <3> QED
      BY <3>1, <3>3, PositionsAreTyped
  <2>4. Store!Rebuilt(rs) \in [DOMAIN Number -> Seq(1 .. MaxRows)]
    BY <2>1, <2>3
  <2>5. IndexOf(Store!Rebuilt(rs), rs)
    <3> SUFFICES ASSUME NEW v \in DOMAIN Number
                 PROVE  \E A \in SUBSET HavingIn(rs, v) :
                          Lists(Store!Rebuilt(rs)[v], A) /\ HavingIn(rs, v) \cap AliveIn(rs) \subseteq A
      BY DEF IndexOf
    <3>1. Store!Rebuilt(rs)[v] = Ascending(H(v))
      BY <2>1
    <3>2. H(v) \in SUBSET HavingIn(rs, v) /\ HavingIn(rs, v) \cap AliveIn(rs) \subseteq H(v)
      BY <2>2
    <3> QED
      BY <2>3, <3>1, <3>2
  <2> QED
    BY <2>4, <2>5
<1> QED
  BY <1>1, <1>2

\* A statement that touches nothing leaves the rows; the others rebuild the index.
LEMMA ReplaceStep ==
  ASSUME StoreInv, NEW rs \in Seq(RowSet), Len(rs) <= MaxRows, NEW touched, ~touched => rs = rows,
         Store!Replace(rs, touched)
  PROVE  StoreInv'
<1>1. rows' = rs /\ indexed' = indexed /\ index' = IF touched THEN Store!Rebuilt(rs) ELSE index
  BY DEF Store!Replace
<1>2. CASE touched
  <2>1. index' = Store!Rebuilt(rs)
    BY <1>1, <1>2
  <2> QED
    BY <1>1, <2>1, RebuiltIsIndex DEF StoreInv
<1>3. CASE ~touched
  <2>1. index' = index /\ rows' = rows
    BY <1>1, <1>3
  <2> QED
    BY <1>1, <2>1 DEF StoreInv
<1> QED
  BY <1>2, <1>3

\* UPDATE and the stamping of DELETE keep the places of the rows.
LEMMA RowsInPlace ==
  ASSUME StoreInv, NEW S, NEW v
  PROVE  /\ v \in DOMAIN Number =>
              Store!SetVal(S, v) \in Seq(RowSet) /\ Len(Store!SetVal(S, v)) = Len(rows)
         /\ Store!Stamp(S) \in Seq(RowSet) /\ Len(Store!Stamp(S)) = Len(rows)
         /\ S = {} => Store!SetVal(S, v) = rows /\ Store!Stamp(S) = rows
<1>1. /\ rows \in Seq(RowSet) /\ Len(rows) \in Nat /\ DOMAIN rows = 1 .. Len(rows)
      /\ rows = [i \in DOMAIN rows |-> rows[i]]
      /\ \A i \in DOMAIN rows : rows[i] \in RowSet
  BY RowsShape DEF StoreInv
<1>2. \A r \in RowSet : (v \in DOMAIN Number => [r EXCEPT !.val = v] \in RowSet)
                         /\ [r EXCEPT !.dead = TRUE] \in RowSet
  BY DEF RowSet
<1>3. ASSUME v \in DOMAIN Number
      PROVE  Store!SetVal(S, v) \in Seq(RowSet) /\ Len(Store!SetVal(S, v)) = Len(rows)
  <2> DEFINE f == Store!SetVal(S, v)
  <2>1. f = [i \in 1 .. Len(rows) |-> f[i]] /\ \A i \in 1 .. Len(rows) : f[i] \in RowSet
    BY <1>1, <1>2, <1>3 DEF Store!SetVal
  <2> HIDE DEF f
  <2>2. f \in Seq(RowSet) /\ Len(f) = Len(rows)
    BY <1>1, <2>1, FunctionIsSeq
  <2> QED
    BY <2>2 DEF f
<1>4. Store!Stamp(S) \in Seq(RowSet) /\ Len(Store!Stamp(S)) = Len(rows)
  <2> DEFINE f == Store!Stamp(S)
  <2>1. f = [i \in 1 .. Len(rows) |-> f[i]] /\ \A i \in 1 .. Len(rows) : f[i] \in RowSet
    BY <1>1, <1>2 DEF Store!Stamp
  <2> HIDE DEF f
  <2>2. f \in Seq(RowSet) /\ Len(f) = Len(rows)
    BY <1>1, <2>1, FunctionIsSeq
  <2> QED
    BY <2>2 DEF f
<1>5. ASSUME S = {}
      PROVE  Store!SetVal(S, v) = rows /\ Store!Stamp(S) = rows
  BY <1>1, <1>5 DEF Store!SetVal, Store!Stamp
<1> QED
  BY <1>3, <1>4, <1>5

\* All of a sequence is the sequence.
LEMMA PickedAll ==
  ASSUME NEW V, NEW s \in Seq(V)
  PROVE  Picked(s, DOMAIN s) = s
<1>1. PICK n \in Nat : n = Len(s) /\ DOMAIN s = 1 .. n
  OBVIOUS
<1> DEFINE T == 1 .. n
           a == [i \in 1 .. n |-> i]
<1>2. T \in SUBSET Nat /\ a \in [1 .. n -> T]
  OBVIOUS
<1>3. \A i, j \in 1 .. n : i < j => a[i] < a[j]
  OBVIOUS
<1>4. \A x \in T : \E i \in 1 .. n : a[i] = x
  OBVIOUS
<1>5. \A i \in 1 .. n : a[i] = i
  OBVIOUS
<1> HIDE DEF T, a
<1>6. Cardinality(T) = n /\ \A i \in 1 .. n : Ascending(T)[i] = a[i]
  BY <1>2, <1>3, <1>4, EnumerationIsAscending
<1>7. T = DOMAIN s
  BY <1>1 DEF T
<1>8. \A i \in 1 .. n : Picked(s, T)[i] = s[i]
  BY <1>5, <1>6, <1>7, PickedReads
<1>9. Picked(s, T) = [i \in 1 .. n |-> Picked(s, T)[i]]
  BY <1>6, <1>7, PickedShape
<1>10. s = [i \in 1 .. n |-> s[i]]
  BY <1>1
<1> QED
  BY <1>7, <1>8, <1>9, <1>10, SameEntries

\* DELETE and VACUUM erase rows.
LEMMA RowsErased ==
  ASSUME StoreInv, NEW S
  PROVE  /\ Store!Erase(S) \in Seq(RowSet) /\ Len(Store!Erase(S)) <= MaxRows
         /\ S = {} => Store!Erase(S) = rows
<1> DEFINE P == DOMAIN rows \ S
<1>1. Store!Erase(S) = Picked(rows, P)
  BY StoreSelections DEF Store!Erase
<1>2. rows \in Seq(RowSet) /\ Len(rows) <= MaxRows /\ P \in SUBSET DOMAIN rows
      /\ Len(rows) \in Nat /\ MaxRows \in Nat
  BY StringsAssumption DEF StoreInv
<1>3. S = {} => P = DOMAIN rows
  OBVIOUS
<1> HIDE DEF P
<1>4. Picked(rows, P) \in Seq(RowSet) /\ Len(Picked(rows, P)) <= Len(rows)
      /\ Len(Picked(rows, P)) \in Nat
  BY <1>2, PickedFrom
<1>5. Picked(rows, DOMAIN rows) = rows
  BY <1>2, PickedAll
<1> QED
  BY <1>1, <1>2, <1>3, <1>4, <1>5

\* INSERT adds the row's position to the list of its value.
LEMMA InsertStep ==
  ASSUME StoreInv, NEW v \in DOMAIN Number, Store!Insert(v)
  PROVE  StoreInv'
<1> DEFINE n == Len(rows) + 1
           r == Store!Row(v)
<1>1. rows' = Append(rows, r) /\ indexed' = indexed /\ Len(rows) < MaxRows
  BY DEF Store!Insert
<1>2. /\ rows \in Seq(RowSet) /\ Len(rows) \in Nat /\ DOMAIN rows = 1 .. Len(rows)
      /\ MaxRows \in Nat /\ DOMAIN rows \subseteq 1 .. MaxRows
  BY StringsAssumption, RowsShape DEF StoreInv
<1>3. r \in RowSet /\ r.val = v /\ ~r.dead
  BY DEF Store!Row, RowSet
<1> HIDE DEF r
<1>4. /\ rows' \in Seq(RowSet) /\ Len(rows') = n /\ n <= MaxRows /\ DOMAIN rows' = 1 .. n
      /\ rows'[n] = r /\ \A i \in 1 .. Len(rows) : rows'[i] = rows[i]
  BY <1>1, <1>2, <1>3
<1>5. index' = IF indexed THEN [index EXCEPT ![v] = Append(@, n)] ELSE index
  BY <1>4 DEF Store!Insert
<1>6. n \in 1 .. MaxRows /\ n \notin DOMAIN rows
  BY <1>2, <1>4
<1> HIDE DEF n
<1>7. index' \in [DOMAIN Number -> Seq(1 .. MaxRows)]
  BY <1>5, <1>6 DEF StoreInv
<1>8. ASSUME indexed
      PROVE  IndexOf(index', rows')
  <2> SUFFICES ASSUME NEW w \in DOMAIN Number
               PROVE  \E A \in SUBSET HavingIn(rows', w) :
                        Lists(index'[w], A) /\ HavingIn(rows', w) \cap AliveIn(rows') \subseteq A
    BY DEF IndexOf
  <2>1. PICK A \in SUBSET HavingIn(rows, w) :
          Lists(index[w], A) /\ HavingIn(rows, w) \cap AliveIn(rows) \subseteq A
    BY <1>8 DEF StoreInv, IndexOf
  <2>2. \A i : i \in DOMAIN rows' <=> i \in DOMAIN rows \/ i = n
    BY <1>2, <1>4 DEF n
  <2>3. \A i \in DOMAIN rows : rows'[i] = rows[i]
    BY <1>2, <1>4
  <2>4. A \in SUBSET HavingIn(rows', w)
    BY <2>1, <2>2, <2>3 DEF HavingIn
  <2>5. CASE w # v
    <3>1. index'[w] = index[w]
      BY <1>5, <1>8, <2>5 DEF StoreInv
    <3>2. HavingIn(rows', w) \cap AliveIn(rows') \subseteq A
      BY <1>3, <1>4, <2>1, <2>2, <2>3, <2>5 DEF HavingIn, AliveIn
    <3> QED
      BY <2>1, <2>4, <3>1, <3>2
  <2>6. CASE w = v
    <3>1. index'[w] = index[w] \o <<n>>
      BY <1>5, <1>6, <1>8, <2>6 DEF StoreInv
    <3>2. Lists(<<n>>, {n})
      BY DEF Lists
    <3>3. A \cap {n} = {}
      BY <1>6, <2>1 DEF HavingIn
    <3>4. Lists(index[w] \o <<n>>, A \cup {n})
      BY <2>1, <3>2, <3>3, ConcatIsList
    <3>5. n \in HavingIn(rows', w)
      BY <1>3, <1>4, <2>2, <2>6 DEF HavingIn
    <3>6. HavingIn(rows', w) \cap AliveIn(rows') \subseteq A \cup {n}
      BY <2>1, <2>2, <2>3 DEF HavingIn, AliveIn
    <3> QED
      BY <2>4, <3>1, <3>4, <3>5, <3>6
  <2> QED
    BY <2>5, <2>6
<1> QED
  BY <1>1, <1>4, <1>7, <1>8 DEF StoreInv

\* CREATE INDEX lists all rows, the dead ones too; DROP INDEX forgets them.
LEMMA IndexStep ==
  ASSUME StoreInv, Store!CreateIndex \/ Store!DropIndex
  PROVE  StoreInv'
<1>0. MaxRows \in Nat /\ rows' = rows
  BY StringsAssumption DEF Store!CreateIndex, Store!DropIndex
<1>1. CASE Store!DropIndex
  <2>1. index' = [v \in DOMAIN Number |-> <<>>] /\ indexed' = FALSE
    BY <1>1 DEF Store!DropIndex, Store!Vals
  <2>2. index' \in [DOMAIN Number -> Seq(1 .. MaxRows)]
    BY <2>1
  <2> QED
    BY <1>0, <2>1, <2>2 DEF StoreInv
<1>2. CASE Store!CreateIndex
  <2> DEFINE H(v) == HavingIn(rows, v)
  <2>1. index' = [v \in DOMAIN Number |-> Ascending(H(v))] /\ indexed' = TRUE
    BY <1>2, StoreSelections DEF Store!CreateIndex, Store!Having, Store!Vals, HavingIn
  <2>2. ASSUME NEW v \in DOMAIN Number
        PROVE  /\ Ascending(H(v)) \in Seq(1 .. MaxRows)
               /\ Lists(Ascending(H(v)), H(v))
    <3>0. H(v) \in SUBSET DOMAIN rows
      BY DEF HavingIn
    <3> HIDE DEF H
    <3>1. IsFiniteSet(DOMAIN rows) /\ DOMAIN rows \subseteq Nat /\ rows \in Seq(RowSet) /\ Len(rows) <= MaxRows
      BY RowsShape DEF StoreInv
    <3>2. H(v) \in SUBSET Nat /\ IsFiniteSet(H(v))
      BY <3>0, <3>1, FS_Subset
    <3>3. Lists(Ascending(H(v)), H(v))
      BY <3>2, AscendingIsList
    <3> QED
      BY <3>0, <3>1, <3>3, PositionsAreTyped
  <2>3. index' \in [DOMAIN Number -> Seq(1 .. MaxRows)]
    BY <2>1, <2>2
  <2>4. IndexOf(index', rows)
    <3> SUFFICES ASSUME NEW v \in DOMAIN Number
                 PROVE  \E A \in SUBSET HavingIn(rows, v) :
                          Lists(index'[v], A) /\ HavingIn(rows, v) \cap AliveIn(rows) \subseteq A
      BY DEF IndexOf
    <3>1. index'[v] = Ascending(HavingIn(rows, v))
      BY <2>1
    <3> QED
      BY <2>2, <3>1
  <2> QED
    BY <1>0, <2>1, <2>3, <2>4 DEF StoreInv
<1> QED
  BY <1>1, <1>2

\* Every statement keeps the index right.
LEMMA StoreNextStep ==
  ASSUME StoreInv, Store!Next
  PROVE  StoreInv'
<1> USE DEF Store!Vals
<1>0. rows \in Seq(RowSet) /\ Len(rows) <= MaxRows
  BY DEF StoreInv
<1>1. ASSUME NEW v \in DOMAIN Number, Store!Insert(v)
      PROVE  StoreInv'
  BY <1>1, InsertStep
<1>2. ASSUME NEW v \in DOMAIN Number, Store!UpdateAll(v)
      PROVE  StoreInv'
  BY <1>0, <1>2, RowsInPlace, ReplaceStep DEF Store!UpdateAll
<1>3. ASSUME NEW v \in DOMAIN Number, Store!DeleteWhere(v)
      PROVE  StoreInv'
  BY <1>0, <1>3, RowsErased, ReplaceStep DEF Store!DeleteWhere
<1>4. ASSUME NEW v \in DOMAIN Number, Store!StampDeleteWhere(v)
      PROVE  StoreInv'
  BY <1>0, <1>4, RowsInPlace, ReplaceStep DEF Store!StampDeleteWhere
<1>5. ASSUME NEW v \in DOMAIN Number, NEW w \in DOMAIN Number, Store!UpdateWhere(w, v)
      PROVE  StoreInv'
  BY <1>0, <1>5, RowsInPlace, ReplaceStep DEF Store!UpdateWhere
<1>6. CASE Store!DeleteAll
  <2>1. <<>> \in Seq(RowSet) /\ Len(<<>>) <= MaxRows
    BY StringsAssumption
  <2> QED
    BY <1>6, <2>1, ReplaceStep DEF Store!DeleteAll
<1>7. CASE Store!StampDeleteAll
  BY <1>0, <1>7, RowsInPlace, ReplaceStep DEF Store!StampDeleteAll
<1>8. CASE Store!Vacuum
  <2>1. PICK gone : Store!Replace(Store!Erase(gone), gone # {})
    BY <1>8 DEF Store!Vacuum
  <2> QED
    BY <1>0, <2>1, RowsErased, ReplaceStep
<1>9. CASE Store!CreateIndex \/ Store!DropIndex
  BY <1>9, IndexStep
<1> QED
  BY <1>1, <1>2, <1>3, <1>4, <1>5, <1>6, <1>7, <1>8, <1>9 DEF Store!Next

\* The index is right in every part's behaviour: where the store does not move, it is empty.
LEMMA StoreInvHolds == AllSpec => []StoreInv
<1>1. ASSUME NEW P, AllInit(P)
      PROVE  StoreInv
  <2>1. rows = <<>> /\ indexed = FALSE /\ index = [v \in DOMAIN Number |-> <<>>]
    BY <1>1 DEF AllInit, Store!Init, Store!Vals
  <2>2. index \in [DOMAIN Number -> Seq(1 .. MaxRows)]
    BY <2>1
  <2>3. rows \in Seq(RowSet) /\ Len(rows) <= MaxRows
    BY <2>1, StringsAssumption
  <2> QED
    BY <2>1, <2>2, <2>3 DEF StoreInv
<1>2. StoreInv /\ [AllNext]_all => StoreInv'
  <2> SUFFICES ASSUME StoreInv, [AllNext]_all
               PROVE  StoreInv'
    OBVIOUS
  <2>1. CASE part = "store" /\ Store!Next
    BY <2>1, StoreNextStep
  <2>2. CASE UNCHANGED store
    BY <2>2 DEF StoreInv, store
  <2> QED
    BY <2>1, <2>2 DEF AllNext, all
<1>3. AllInit({"transactions", "store", "caches", "feeds"}) => StoreInv
  BY <1>1
<1> QED
  BY <1>2, <1>3, PTL DEF AllSpec

\* The comparison of the index and that of the scan agree where they are said to.
LEMMA ComparisonsAgree ==
  ASSUME NEW c \in Store!Conds, NEW v \in DOMAIN Number, Store!Alike(v, c)
  PROVE  Store!EvalCond(v, c) <=> Store!Compare(v, c)
<1>1. /\ c.op \in {"=", "<", ">", "<=", ">=", "BETWEEN"}
      /\ c.lo \in DOMAIN Number /\ c.hi \in DOMAIN Number
  BY DEF Store!Conds, Store!Vals
<1>2. /\ DOMAIN Number \subseteq Nat
      /\ Number[v] \in Nat /\ Number[c.lo] \in Nat
      /\ Prefix[v] \in Nat /\ Prefix[c.lo] \in Nat
      /\ Number[v] # 0 => Prefix[v] = Number[v]
      /\ Number[c.lo] # 0 => Prefix[c.lo] = Number[c.lo]
  BY SMTT(40), <1>1, StringsAssumption
<1>3. /\ Null # v /\ Null # c.lo /\ Null # c.hi
      /\ c.op = "=" => (Number[v] = Number[c.lo] /\ Number[v] # 0 => v = c.lo)
      /\ c.op \in {"<", ">", "<=", ">="} =>
           (Prefix[v] # 0 /\ Prefix[c.lo] # 0 => Number[v] # 0 /\ Number[c.lo] # 0)
  BY DEF Store!Alike
<1> DEFINE o == c.op
           lo == c.lo
           x == Number[v]
           y == Number[c.lo]
<1>4. v \in Nat /\ lo \in Nat /\ x \in Nat /\ y \in Nat
  BY <1>1, <1>2
<1>5. CASE o = "="
  BY <1>3, <1>4, <1>5 DEF Store!EvalCond, Store!Compare, Store!Less
<1>6. ASSUME o \in {"<", ">", "<=", ">="}
      PROVE  /\ Store!Less(v, lo) <=> Store!LessIn({v, lo}, v, lo)
             /\ Store!Less(lo, v) <=> Store!LessIn({v, lo}, lo, v)
             /\ Store!Less(v, lo) => ~Store!Less(lo, v)
  <2>1. Store!Less(v, lo) <=> IF x # 0 /\ y # 0 THEN x < y ELSE v < lo
    BY DEF Store!Less
  <2>2. Store!Less(lo, v) <=> IF x # 0 /\ y # 0 THEN y < x ELSE lo < v
    BY DEF Store!Less
  <2>3. Store!LessIn({v, lo}, v, lo) <=> IF Prefix[v] # 0 /\ Prefix[lo] # 0 THEN Prefix[v] < Prefix[lo] ELSE v < lo
    BY DEF Store!LessIn
  <2>4. Store!LessIn({v, lo}, lo, v) <=> IF Prefix[v] # 0 /\ Prefix[lo] # 0 THEN Prefix[lo] < Prefix[v] ELSE lo < v
    BY DEF Store!LessIn
  <2> DEFINE p == Prefix[v]
             q == Prefix[lo]
  <2>5. /\ p \in Nat /\ q \in Nat /\ (x # 0 => p = x) /\ (y # 0 => q = y)
        /\ (p # 0 /\ q # 0 => x # 0 /\ y # 0)
    BY <1>2, <1>3, <1>6
  <2> HIDE DEF p, q, x, y, lo
  <2>6. CASE x # 0 /\ y # 0
    BY <1>4, <2>1, <2>2, <2>3, <2>4, <2>5, <2>6 DEF p, q
  <2>7. CASE ~(x # 0 /\ y # 0)
    BY <1>4, <2>1, <2>2, <2>3, <2>4, <2>5, <2>7 DEF p, q
  <2> QED
    BY <2>6, <2>7
<1>7. CASE o \in {"<", ">", "<=", ">="}
  <2> HIDE DEF o, lo
  <2>1. Store!EvalCond(v, c) <=>
          CASE o \in {"<", "<="} -> Store!Less(v, lo) \/ (o = "<=" /\ ~Store!Less(lo, v))
            [] o \in {">", ">="} -> Store!Less(lo, v) \/ (o = ">=" /\ ~Store!Less(v, lo))
    BY <1>3, <1>7 DEF Store!EvalCond, o, lo
  <2>2. Store!Compare(v, c) <=>
          CASE o = "<"  -> Store!LessIn({v, lo}, v, lo)
            [] o = ">"  -> Store!LessIn({v, lo}, lo, v)
            [] o = "<=" -> ~Store!LessIn({v, lo}, lo, v)
            [] o = ">=" -> ~Store!LessIn({v, lo}, v, lo)
    BY <1>7 DEF Store!Compare, o, lo
  <2> QED
    BY <1>6, <1>7, <2>1, <2>2
<1>8. CASE o = "BETWEEN"
  BY <1>3, <1>8 DEF Store!EvalCond, Store!Compare
<1> QED
  BY <1>1, <1>5, <1>7, <1>8

\* The positions that the index has for a value.
Found(v) == {index[v][k] : k \in DOMAIN index[v]}

\* They are listed, have the value, and are all that are alive.
LEMMA FoundFacts ==
  ASSUME StoreInv, indexed, NEW v \in DOMAIN Number
  PROVE  /\ Lists(index[v], Found(v)) /\ Found(v) \in SUBSET HavingIn(rows, v)
         /\ HavingIn(rows, v) \cap AliveIn(rows) \subseteq Found(v)
<1>1. PICK A \in SUBSET HavingIn(rows, v) :
        Lists(index[v], A) /\ HavingIn(rows, v) \cap AliveIn(rows) \subseteq A
  BY DEF StoreInv, IndexOf
<1>2. A = Found(v)
  BY <1>1, ListsSize DEF Found
<1> QED
  BY <1>1, <1>2

\* A list of the one set has the entries and the length of a list of the other.
LEMMA SameList ==
  ASSUME NEW s, NEW t, NEW A, Lists(s, A), Lists(t, A)
  PROVE  Store!Range(s) = Store!Range(t) /\ Len(s) = Len(t)
<1>1. Store!Range(s) = {s[i] : i \in DOMAIN s} /\ Store!Range(t) = {t[i] : i \in DOMAIN t}
  BY DEF Store!Range
<1>2. Len(s) = Cardinality(A) /\ {s[i] : i \in DOMAIN s} = A
  BY ListsSize
<1>3. Len(t) = Cardinality(A) /\ {t[i] : i \in DOMAIN t} = A
  BY ListsSize
<1> QED
  BY <1>1, <1>2, <1>3

\* What the index finds, before the dead rows are left out.
LEMMA IndexFinds ==
  ASSUME StoreInv, indexed, NEW c
  PROVE  Lists(Store!FlattenSeq([v \in Store!Vals |-> IF Store!Compare(v, c) THEN index[v] ELSE <<>>]),
               UNION {Found(v) : v \in {w \in DOMAIN Number : Store!Compare(w, c)}})
<1> DEFINE C(v) == Store!Compare(v, c)
           ss == [v \in DOMAIN Number |-> IF C(v) THEN index[v] ELSE <<>>]
           A == [v \in DOMAIN Number |-> IF C(v) THEN Found(v) ELSE {}]
<1>1. PICK n \in Nat : n = Len(Number) /\ DOMAIN Number = 1 .. n
  BY StringsAssumption
<1> HIDE DEF C
<1>2. ss = [i \in 1 .. n |-> ss[i]]
  BY <1>1
<1>3. ASSUME NEW i \in 1 .. n
      PROVE  Lists(ss[i], A[i])
  <2>1. CASE C(i)
    BY <1>1, <2>1, FoundFacts
  <2>2. CASE ~C(i)
    BY <1>1, <2>2, EmptyIsList
  <2> QED
    BY <2>1, <2>2
<1>4. ASSUME NEW i \in 1 .. n, NEW j \in 1 .. n, i # j
      PROVE  A[i] \cap A[j] = {}
  <2>1. A[i] \subseteq HavingIn(rows, i) /\ A[j] \subseteq HavingIn(rows, j)
    BY <1>1, FoundFacts
  <2>2. HavingIn(rows, i) \cap HavingIn(rows, j) = {}
    BY <1>4 DEF HavingIn
  <2> QED
    BY <2>1, <2>2
<1>5. UNION {A[i] : i \in 1 .. n} = UNION {Found(v) : v \in {w \in DOMAIN Number : C(w)}}
  <2>1. \A i \in 1 .. n : A[i] = IF C(i) THEN Found(i) ELSE {}
    BY <1>1
  <2> HIDE DEF A
  <2>2. ASSUME NEW x
        PROVE  x \in UNION {A[i] : i \in 1 .. n} <=> \E v \in DOMAIN Number : C(v) /\ x \in Found(v)
    BY <1>1, <2>1
  <2>3. ASSUME NEW x
        PROVE  x \in UNION {Found(v) : v \in {w \in DOMAIN Number : C(w)}}
                 <=> \E v \in DOMAIN Number : C(v) /\ x \in Found(v)
    OBVIOUS
  <2> QED
    BY <2>2, <2>3
<1> HIDE DEF A
<1>a. ListsEach(ss, A, n)
  BY <1>3, <1>4 DEF ListsEach
<1> HIDE DEF ss
<1>6. Lists(Store!FlattenSeq(ss), Together(A, n))
  BY <1>2, <1>a, FlattenIsList
<1> QED
  BY <1>5, <1>6 DEF Store!Vals, C, Together, ss

\* A SELECT that uses the index and one that scans the table find the same rows.
LEMMA SelectsAgree ==
  ASSUME StoreInv, indexed, NEW c \in Store!Conds
  PROVE  LET a == Store!IndexSelect(c)
             z == Store!ScanSelect(c)
             f == Store!Picked(a, {k \in DOMAIN a : Store!Alike(rows[a[k]].val, c)})
             g == Store!Picked(z, {k \in DOMAIN z : Store!Alike(rows[z[k]].val, c)})
         IN  Store!Range(f) = Store!Range(g) /\ Len(f) = Len(g)
<1> DEFINE s == Store!FlattenSeq([v \in Store!Vals |-> IF Store!Compare(v, c) THEN index[v] ELSE <<>>])
           U == UNION {Found(v) : v \in {w \in DOMAIN Number : Store!Compare(w, c)}}
           P == {k \in DOMAIN s : s[k] \in Store!Alive}
           a == Store!IndexSelect(c)
           z == Store!ScanSelect(c)
           B == {i \in U : i \in Store!Alive}
           Q == {k \in DOMAIN a : Store!Alike(rows[a[k]].val, c)}
           R == {k \in DOMAIN z : Store!Alike(rows[z[k]].val, c)}
           E == {i \in B : Store!Alike(rows[i].val, c)}
           F == {i \in Store!Alive : Store!EvalCond(rows[i].val, c)}
           G == {i \in F : Store!Alike(rows[i].val, c)}
<1>1. Lists(s, U)
  BY IndexFinds
<1>2. a = Picked(s, P)
  BY StoreSelections DEF Store!IndexSelect
<1>3. P \in SUBSET DOMAIN s /\ B \in SUBSET U
  OBVIOUS
<1>4. \A k \in DOMAIN s : k \in P <=> s[k] \in B
  BY <1>1, ListsSize
<1>u. \A i : i \in U <=> \E v \in DOMAIN Number : Store!Compare(v, c) /\ i \in Found(v)
  OBVIOUS
<1> HIDE DEF s, U, P
<1>5. Lists(Picked(s, P), B)
  BY <1>1, <1>3, <1>4, PickedIsList
<1>6. Lists(a, B)
  BY <1>2, <1>5
<1> HIDE DEF a
<1>7. \A k \in DOMAIN a : k \in Q <=> a[k] \in E
  BY <1>6, ListsSize
<1>8. Q \in SUBSET DOMAIN a /\ E \in SUBSET B /\ R \in SUBSET DOMAIN z /\ G \in SUBSET F
  OBVIOUS
<1>9. E = G
  <2>1. Store!Alive = AliveIn(rows) /\ rows \in Seq(RowSet) /\ Len(rows) <= MaxRows
    BY DEF Store!Alive, AliveIn, StoreInv
  <2>2. ASSUME NEW i \in Store!Alive, Store!Alike(rows[i].val, c)
        PROVE  i \in U <=> Store!EvalCond(rows[i].val, c)
    <3>1. i \in DOMAIN rows
      BY DEF Store!Alive
    <3>2. PICK v \in DOMAIN Number : v = rows[i].val
      BY <2>1, <3>1, RowsShape
    <3>3. i \in HavingIn(rows, v)
      BY <3>1, <3>2 DEF HavingIn
    <3>4. i \in Found(v)
      BY <2>1, <3>3, FoundFacts
    <3>5. \A w \in DOMAIN Number : i \in Found(w) => w = v
      BY <3>2, FoundFacts DEF HavingIn
    <3>6. i \in U <=> Store!Compare(v, c)
      BY <1>u, <3>4, <3>5
    <3>7. Store!EvalCond(v, c) <=> Store!Compare(v, c)
      BY <2>2, <3>2, ComparisonsAgree
    <3> QED
      BY <3>2, <3>6, <3>7
  <2> QED
    BY <2>2
<1>10. z = Ascending(F)
  BY StoreSelections DEF Store!ScanSelect
<1>11. F \in SUBSET Nat /\ IsFiniteSet(F)
  <2>1. rows \in Seq(RowSet) /\ Len(rows) <= MaxRows /\ F \in SUBSET DOMAIN rows
    BY DEF StoreInv, Store!Alive
  <2> HIDE DEF F
  <2>2. IsFiniteSet(DOMAIN rows) /\ DOMAIN rows \subseteq Nat
    BY <2>1, RowsShape
  <2> QED
    BY <2>1, <2>2, FS_Subset
<1> HIDE DEF B, F, z
<1>12. Lists(z, F)
  BY <1>10, <1>11, AscendingIsList
<1>13. \A k \in DOMAIN z : k \in R <=> z[k] \in G
  BY <1>12, ListsSize
<1> HIDE DEF Q, R, E, G
<1>14. Lists(Picked(a, Q), E)
  BY <1>6, <1>7, <1>8, PickedIsList
<1>15. Lists(Picked(z, R), G)
  BY <1>8, <1>12, <1>13, PickedIsList
<1>16. Lists(Store!Picked(a, Q), E) /\ Lists(Store!Picked(z, R), E)
  BY <1>9, <1>14, <1>15, StoreSelections
<1>17. /\ Store!Range(Store!Picked(a, Q)) = Store!Range(Store!Picked(z, R))
       /\ Len(Store!Picked(a, Q)) = Len(Store!Picked(z, R))
  BY <1>16, SameList
<1> QED
  BY <1>17 DEF a, z, Q, R

\* However rows were inserted, updated in place, deleted, stamped or reclaimed, and whenever
\* the index was made, a SELECT that uses the index and one that scans the table find the same
\* rows, each once.
THEOREM IndexAndScanAgree == AllSpec => []IndexAgreesWithScan
<1>1. ASSUME StoreInv
      PROVE  IndexAgreesWithScan
  BY <1>1, SelectsAgree DEF IndexAgreesWithScan, Store!IndexAgreesWithScan
<1> QED
  BY <1>1, StoreInvHolds, PTL
-----------------------------------------------------------------------------
(* The joins. *)

\* The pairs of positions with equal values, and the positions of one side that have no such
\* pair; 0 stands for the other side.
Match(L, R) == {p \in (DOMAIN L) \X (DOMAIN R) : L[p[1]] = R[p[2]]}
Alone(L, R) == {i \in DOMAIN L : \A j \in DOMAIN R : L[i] # R[j]}
OnlyLeft(L, R) == {<<i, 0>> : i \in Alone(L, R)}
OnlyRight(L, R) == {<<0, j>> : j \in Alone(R, L)}

\* The positions of a value.
Places(vs, v) == {i \in DOMAIN vs : vs[i] = v}

\* A value that is not there lists nothing, and only that.
LEMMA EmptyList ==
  ASSUME NEW s, NEW A, Lists(s, A)
  PROVE  s = <<>> <=> A = {}
<1>1. s \in Seq(A) /\ \A x \in A : \E i \in DOMAIN s : s[i] = x
  BY DEF Lists
<1>2. ASSUME s = <<>>
      PROVE  A = {}
  BY <1>1, <1>2
<1>3. ASSUME A = {}
      PROVE  s = <<>>
  BY <1>1, <1>3
<1> QED
  BY <1>2, <1>3

\* A position with each of its matches.
LEMMA PairsIsList ==
  ASSUME NEW i, NEW js, NEW A, Lists(js, A)
  PROVE  Lists(Store!Pairs(i, js), {<<i, j>> : j \in A})
<1> DEFINE p == Store!Pairs(i, js)
           B == {<<i, j>> : j \in A}
<1>1. /\ DOMAIN js = 1 .. Len(js) /\ Len(js) \in Nat /\ \A k \in DOMAIN js : js[k] \in A
  BY ListsSize
<1>2. p = [k \in DOMAIN js |-> <<i, js[k]>>]
  BY DEF Store!Pairs
<1> HIDE DEF p
<1>3. DOMAIN p = DOMAIN js /\ \A k \in DOMAIN js : p[k] = <<i, js[k]>> /\ p[k] \in B
  BY <1>1, <1>2
<1>4. p = [k \in 1 .. Len(js) |-> p[k]]
  BY <1>1, <1>2
<1>5. p \in Seq(B)
  BY <1>1, <1>3, <1>4, FunctionIsSeq
<1>6. \A k, m \in DOMAIN p : p[k] = p[m] => k = m
  BY <1>3 DEF Lists
<1>7. ASSUME NEW x \in B
      PROVE  \E k \in DOMAIN p : p[k] = x
  <2>1. PICK j \in A : x = <<i, j>>
    OBVIOUS
  <2>2. PICK k \in DOMAIN js : js[k] = j
    BY DEF Lists
  <2> QED
    BY <1>3, <2>1, <2>2
<1> HIDE DEF B
<1> QED
  BY <1>5, <1>6, <1>7 DEF Lists, p, B

\* The sides of the pairs changed round.
LEMMA FlipIsList ==
  ASSUME NEW X, NEW Y, NEW A \in SUBSET (X \X Y), NEW ps, Lists(ps, A)
  PROVE  Lists(Store!Flip(ps), {<<p[2], p[1]>> : p \in A})
<1> DEFINE f == Store!Flip(ps)
           B == {<<p[2], p[1]>> : p \in A}
<1>1. /\ DOMAIN ps = 1 .. Len(ps) /\ Len(ps) \in Nat /\ \A k \in DOMAIN ps : ps[k] \in A
  BY ListsSize
<1>2. f = [k \in DOMAIN ps |-> <<ps[k][2], ps[k][1]>>]
  BY DEF Store!Flip
<1> HIDE DEF f
<1>3. DOMAIN f = DOMAIN ps /\ \A k \in DOMAIN ps : f[k] = <<ps[k][2], ps[k][1]>> /\ f[k] \in B
  BY <1>1, <1>2
<1>4. f = [k \in 1 .. Len(ps) |-> f[k]]
  BY <1>1, <1>2
<1>5. f \in Seq(B)
  BY <1>1, <1>3, <1>4, FunctionIsSeq
<1>6. ASSUME NEW k \in DOMAIN f, NEW m \in DOMAIN f, f[k] = f[m]
      PROVE  k = m
  <2>1. ps[k] \in X \X Y /\ ps[m] \in X \X Y
    BY <1>1, <1>3
  <2>2. ps[k][1] = ps[m][1] /\ ps[k][2] = ps[m][2]
    BY <1>3, <1>6
  <2>3. ps[k] = ps[m]
    BY <2>1, <2>2
  <2> QED
    BY <1>3, <2>3 DEF Lists
<1>7. ASSUME NEW x \in B
      PROVE  \E k \in DOMAIN f : f[k] = x
  <2>1. PICK q \in A : x = <<q[2], q[1]>>
    OBVIOUS
  <2>2. PICK k \in DOMAIN ps : ps[k] = q
    BY DEF Lists
  <2> QED
    BY <1>3, <2>1, <2>2
<1> HIDE DEF B
<1> QED
  BY <1>5, <1>6, <1>7 DEF Lists, f, B

\* What a nested loop or a hash table finds for a value.
LEMMA AtIsList ==
  ASSUME NEW V, NEW vs \in Seq(V), NEW v
  PROVE  Lists(Store!At(vs, v), Places(vs, v))
<1>1. Store!At(vs, v) = Ascending(Places(vs, v))
  BY StoreSelections DEF Store!At, Places
<1>2. PICK n \in Nat : n = Len(vs) /\ DOMAIN vs = 1 .. n
  OBVIOUS
<1>3. IsFiniteSet(1 .. n) /\ 1 .. n \subseteq Nat
  BY FS_Interval
<1>4. Places(vs, v) \in SUBSET (1 .. n)
  BY <1>2 DEF Places
<1>5. Places(vs, v) \in SUBSET Nat /\ IsFiniteSet(Places(vs, v))
  BY <1>3, <1>4, FS_Subset
<1> QED
  BY <1>1, <1>5, AscendingIsList

\* The rows of the outer side, each with its matches, or alone if it is to be kept.
LEMMA ProbeIsList ==
  ASSUME NEW L \in Seq(DOMAIN Number), NEW R \in Seq(DOMAIN Number), NEW matches, NEW keep \in BOOLEAN,
         \A v \in DOMAIN Number : Lists(matches[v], Places(R, v))
  PROVE  Lists(Store!Probe(L, matches, keep), Match(L, R) \cup (IF keep THEN OnlyLeft(L, R) ELSE {}))
<1> DEFINE W(i) == IF matches[L[i]] # <<>> THEN Store!Pairs(i, matches[L[i]])
                   ELSE IF keep THEN <<<<i, 0>>>> ELSE <<>>
           C(i) == IF matches[L[i]] # <<>> THEN {<<i, j>> : j \in Places(R, L[i])}
                   ELSE IF keep THEN {<<i, 0>>} ELSE {}
           ss == [i \in DOMAIN L |-> W(i)]
           A == [i \in DOMAIN L |-> C(i)]
<1>1. PICK n \in Nat : n = Len(L) /\ DOMAIN L = 1 .. n
  OBVIOUS
<1>2. Store!Probe(L, matches, keep) = Store!FlattenSeq(ss)
  BY DEF Store!Probe
<1>3. ASSUME NEW i \in 1 .. n
      PROVE  /\ L[i] \in DOMAIN Number /\ Lists(matches[L[i]], Places(R, L[i]))
             /\ matches[L[i]] = <<>> <=> Places(R, L[i]) = {}
  <2>1. L[i] \in DOMAIN Number
    BY <1>1
  <2>2. Lists(matches[L[i]], Places(R, L[i]))
    BY <2>1
  <2> QED
    BY <2>1, <2>2, EmptyList
<1>4. ASSUME NEW i \in 1 .. n
      PROVE  Lists(W(i), C(i))
  <2>1. CASE matches[L[i]] # <<>>
    BY <1>3, <2>1, PairsIsList
  <2>2. CASE matches[L[i]] = <<>> /\ keep
    <3>1. Lists(<<<<i, 0>>>>, {<<i, 0>>})
      BY DEF Lists
    <3> QED
      BY <2>2, <3>1
  <2>3. CASE matches[L[i]] = <<>> /\ ~keep
    BY <2>3, EmptyIsList
  <2> QED
    BY <2>1, <2>2, <2>3
<1>5. ASSUME NEW i \in 1 .. n
      PROVE  \A x \in C(i) : x[1] = i
  OBVIOUS
<1>6. ASSUME NEW x
      PROVE  (\E i \in 1 .. n : x \in C(i))
               <=> x \in Match(L, R) \/ (keep /\ x \in OnlyLeft(L, R))
  <2>1. ASSUME NEW i \in 1 .. n, x \in C(i)
        PROVE  x \in Match(L, R) \/ (keep /\ x \in OnlyLeft(L, R))
    <3>1. CASE matches[L[i]] # <<>>
      <4>1. PICK j \in Places(R, L[i]) : x = <<i, j>>
        BY <2>1, <3>1
      <4> QED
        BY <1>1, <4>1 DEF Match, Places
    <3>2. CASE matches[L[i]] = <<>>
      <4>1. keep /\ x = <<i, 0>> /\ Places(R, L[i]) = {}
        BY <1>3, <2>1, <3>2
      <4>2. i \in Alone(L, R)
        BY <1>1, <4>1 DEF Alone, Places
      <4> QED
        BY <4>1, <4>2 DEF OnlyLeft
    <3> QED
      BY <3>1, <3>2
  <2>2. ASSUME x \in Match(L, R)
        PROVE  \E i \in 1 .. n : x \in C(i)
    <3>1. PICK i \in DOMAIN L, j \in DOMAIN R : x = <<i, j>> /\ L[i] = R[j]
      BY <2>2 DEF Match
    <3>2. j \in Places(R, L[i])
      BY <3>1 DEF Places
    <3>3. matches[L[i]] # <<>>
      BY <1>1, <1>3, <3>2
    <3> QED
      BY <1>1, <3>1, <3>2, <3>3
  <2>3. ASSUME keep, x \in OnlyLeft(L, R)
        PROVE  \E i \in 1 .. n : x \in C(i)
    <3>1. PICK i \in DOMAIN L : x = <<i, 0>> /\ \A j \in DOMAIN R : L[i] # R[j]
      BY <2>3 DEF OnlyLeft, Alone
    <3>2. Places(R, L[i]) = {}
      BY <3>1 DEF Places
    <3>3. matches[L[i]] = <<>>
      BY <1>1, <1>3, <3>2
    <3> QED
      BY <1>1, <2>3, <3>1, <3>3
  <2> QED
    BY <2>1, <2>2, <2>3
<1> HIDE DEF W, C
<1>7. ss = [i \in 1 .. n |-> ss[i]] /\ \A i \in 1 .. n : ss[i] = W(i) /\ A[i] = C(i)
  BY <1>1
<1> HIDE DEF ss, A
<1>8. \A i \in 1 .. n : Lists(ss[i], A[i])
  BY <1>4, <1>7
<1>9. \A i, j \in 1 .. n : i # j => A[i] \cap A[j] = {}
  BY SMTT(40), <1>5, <1>7
<1>a. ListsEach(ss, A, n)
  BY <1>8, <1>9 DEF ListsEach
<1>10. Lists(Store!FlattenSeq(ss), Together(A, n))
  BY <1>7, <1>a, FlattenIsList
<1>11. Together(A, n) = Match(L, R) \cup (IF keep THEN OnlyLeft(L, R) ELSE {})
  <2>1. ASSUME NEW x
        PROVE  x \in Together(A, n) <=> \E i \in 1 .. n : x \in C(i)
    BY <1>7 DEF Together
  <2> QED
    BY <1>6, <2>1
<1> QED
  BY <1>2, <1>10, <1>11

\* What a join is, in terms of the two columns.
JoinSet(L, R, type) ==
  Match(L, R) \cup (IF type \in {"LEFT", "FULL"} THEN OnlyLeft(L, R) ELSE {})
              \cup (IF type \in {"RIGHT", "FULL"} THEN OnlyRight(L, R) ELSE {})

\* The join column of the table.
LEMMA RightFacts ==
  ASSUME StoreInv
  PROVE  /\ Store!Right \in Seq(DOMAIN Number) /\ DOMAIN Store!Right = DOMAIN rows
         /\ \A i \in DOMAIN rows : Store!Right[i] = rows[i].val
         /\ \A v : Places(Store!Right, v) = HavingIn(rows, v)
         /\ DOMAIN rows \subseteq Nat \ {0} /\ IsFiniteSet(DOMAIN rows)
<1> DEFINE R == Store!Right
<1>1. /\ Len(rows) \in Nat /\ DOMAIN rows = 1 .. Len(rows) /\ IsFiniteSet(DOMAIN rows)
      /\ \A i \in DOMAIN rows : rows[i].val \in DOMAIN Number
  BY RowsShape DEF StoreInv
<1>2. R = [i \in DOMAIN rows |-> rows[i].val]
  BY DEF Store!Right
<1> HIDE DEF R
<1>3. R = [i \in 1 .. Len(rows) |-> R[i]] /\ \A i \in 1 .. Len(rows) : R[i] \in DOMAIN Number
  BY <1>1, <1>2
<1>4. R \in Seq(DOMAIN Number)
  BY <1>1, <1>3, FunctionIsSeq
<1>5. DOMAIN R = DOMAIN rows /\ \A i \in DOMAIN rows : R[i] = rows[i].val
  BY <1>2
<1>6. \A v : Places(R, v) = HavingIn(rows, v)
  BY <1>5 DEF Places, HavingIn
<1>7. DOMAIN rows \subseteq Nat \ {0}
  BY <1>1
<1> QED
  BY <1>1, <1>4, <1>5, <1>6, <1>7 DEF R

\* The definition of a join says that.
LEMMA JoinedIs ==
  ASSUME StoreInv, NEW L, NEW type
  PROVE  Store!Joined(L, type) = JoinSet(L, Store!Right, type)
<1> DEFINE R == Store!Right
           pairs == {p \in (DOMAIN L) \X (DOMAIN rows) : L[p[1]] = rows[p[2]].val}
<1>1. DOMAIN R = DOMAIN rows /\ \A i \in DOMAIN rows : R[i] = rows[i].val
  BY RightFacts
<1>2. pairs = Match(L, R)
  BY <1>1 DEF Match
<1>3. {i \in DOMAIN L : \A p \in pairs : p[1] # i} = Alone(L, R)
  <2>1. ASSUME NEW i \in DOMAIN L
        PROVE  (\A p \in pairs : p[1] # i) <=> \A j \in DOMAIN R : L[i] # R[j]
    <3>1. ASSUME NEW j \in DOMAIN R, L[i] = R[j]
          PROVE  <<i, j>> \in pairs /\ <<i, j>>[1] = i
      BY <1>1, <3>1
    <3>2. ASSUME NEW p \in pairs, p[1] = i
          PROVE  p[2] \in DOMAIN R /\ L[i] = R[p[2]]
      BY <1>1, <3>2
    <3> QED
      BY <3>1, <3>2
  <2> QED
    BY <2>1 DEF Alone
<1>4. {j \in DOMAIN rows : \A p \in pairs : p[2] # j} = Alone(R, L)
  <2>1. ASSUME NEW j \in DOMAIN rows
        PROVE  (\A p \in pairs : p[2] # j) <=> \A i \in DOMAIN L : R[j] # L[i]
    <3>1. ASSUME NEW i \in DOMAIN L, L[i] = R[j]
          PROVE  <<i, j>> \in pairs /\ <<i, j>>[2] = j
      BY <1>1, <3>1
    <3>2. ASSUME NEW p \in pairs, p[2] = j
          PROVE  p[1] \in DOMAIN L /\ L[p[1]] = R[j]
      BY <1>1, <3>2
    <3> QED
      BY <3>1, <3>2
  <2> QED
    BY <1>1, <2>1 DEF Alone
<1> HIDE DEF R
<1> QED
  BY <1>2, <1>3, <1>4 DEF Store!Joined, JoinSet, OnlyLeft, OnlyRight, R

\* The rows of the table that have no match, after the others.
LEMMA AntiRightIsList ==
  ASSUME StoreInv, NEW L, NEW matched,
         \A j \in DOMAIN rows : j \in matched <=> j \notin Alone(Store!Right, L)
  PROVE  Lists(Store!AntiRight(matched), OnlyRight(L, Store!Right))
<1> DEFINE N == DOMAIN rows \ matched
<1>1. N = Alone(Store!Right, L)
  BY RightFacts DEF Alone
<1>2. N \in SUBSET DOMAIN rows /\ IsFiniteSet(DOMAIN rows) /\ DOMAIN rows \subseteq Nat
  BY RightFacts
<1>3. Store!AntiRight(matched) = Store!Pairs(0, Ascending(N))
  BY StoreSelections DEF Store!AntiRight
<1> HIDE DEF N
<1>4. N \in SUBSET Nat /\ IsFiniteSet(N)
  BY <1>2, FS_Subset
<1>5. Lists(Ascending(N), N)
  BY <1>4, AscendingIsList
<1>6. Lists(Store!Pairs(0, Ascending(N)), {<<0, j>> : j \in N})
  BY <1>5, PairsIsList
<1> QED
  BY <1>1, <1>3, <1>6 DEF OnlyRight

\* INNER and LEFT, and the first part of FULL: the left side is probed.
LEMMA LeftProbes ==
  ASSUME StoreInv, NEW L \in Seq(DOMAIN Number), NEW keep \in BOOLEAN
  PROVE  Lists(Store!Probe(L, Store!HashTable(Store!Right), keep),
               Match(L, Store!Right) \cup (IF keep THEN OnlyLeft(L, Store!Right) ELSE {}))
<1> DEFINE R == Store!Right
           h == Store!HashTable(R)
<1>1. R \in Seq(DOMAIN Number)
  BY RightFacts
<1>2. \A v \in DOMAIN Number : h[v] = Store!At(R, v)
  BY DEF Store!HashTable, Store!Vals
<1> HIDE DEF R, h
<1>3. \A v \in DOMAIN Number : Lists(h[v], Places(R, v))
  BY <1>1, <1>2, AtIsList
<1>4. Lists(Store!Probe(L, h, keep), Match(L, R) \cup (IF keep THEN OnlyLeft(L, R) ELSE {}))
  BY <1>1, <1>3, ProbeIsList
<1> QED
  BY <1>4 DEF R, h

\* RIGHT: the table is probed, and the pairs are changed round.
LEMMA RightProbes ==
  ASSUME StoreInv, NEW L \in Seq(DOMAIN Number)
  PROVE  Lists(Store!Flip(Store!Probe(Store!Right, Store!HashTable(L), TRUE)),
               Match(L, Store!Right) \cup OnlyRight(L, Store!Right))
<1> DEFINE R == Store!Right
           h == Store!HashTable(L)
           A == Match(R, L) \cup OnlyLeft(R, L)
           X == DOMAIN R
           Y == DOMAIN L \cup {0}
           B == {<<p[2], p[1]>> : p \in A}
<1>1. R \in Seq(DOMAIN Number)
  BY RightFacts
<1>2. \A v \in DOMAIN Number : h[v] = Store!At(L, v)
  BY DEF Store!HashTable, Store!Vals
<1> HIDE DEF R, h
<1>3. \A v \in DOMAIN Number : Lists(h[v], Places(L, v))
  BY <1>2, AtIsList
<1>4. Lists(Store!Probe(R, h, TRUE), Match(R, L) \cup (IF TRUE THEN OnlyLeft(R, L) ELSE {}))
  BY <1>1, <1>3, ProbeIsList
<1>5. Lists(Store!Probe(R, h, TRUE), A)
  BY <1>4
<1>6. A \in SUBSET (X \X Y)
  BY DEF Match, OnlyLeft, Alone
<1>7. ASSUME NEW x
      PROVE  x \in B <=> x \in Match(L, R) \cup OnlyRight(L, R)
  <2>1. ASSUME x \in B
        PROVE  x \in Match(L, R) \cup OnlyRight(L, R)
    <3>1. PICK p \in A : x = <<p[2], p[1]>>
      BY <2>1
    <3>2. CASE p \in Match(R, L)
      BY <3>1, <3>2 DEF Match
    <3>3. CASE p \in OnlyLeft(R, L)
      BY <3>1, <3>3 DEF OnlyLeft, OnlyRight
    <3> QED
      BY <3>1, <3>2, <3>3
  <2>2. ASSUME x \in Match(L, R)
        PROVE  x \in B
    <3>1. PICK i \in DOMAIN L, j \in DOMAIN R : x = <<i, j>> /\ L[i] = R[j]
      BY <2>2 DEF Match
    <3>2. <<j, i>> \in A
      BY <3>1 DEF Match
    <3>3. x = <<<<j, i>>[2], <<j, i>>[1]>>
      BY <3>1
    <3> HIDE DEF A
    <3> QED
      BY <3>2, <3>3
  <2>3. ASSUME x \in OnlyRight(L, R)
        PROVE  x \in B
    <3>1. PICK j \in Alone(R, L) : x = <<0, j>>
      BY <2>3 DEF OnlyRight
    <3>2. <<j, 0>> \in A
      BY <3>1 DEF OnlyLeft
    <3>3. x = <<<<j, 0>>[2], <<j, 0>>[1]>>
      BY <3>1
    <3> HIDE DEF A
    <3> QED
      BY <3>2, <3>3
  <2> QED
    BY <2>1, <2>2, <2>3
<1>8. B = Match(L, R) \cup OnlyRight(L, R)
  BY <1>7
<1> HIDE DEF A, X, Y
<1>9. Lists(Store!Flip(Store!Probe(R, h, TRUE)), B)
  BY <1>5, <1>6, FlipIsList
<1> HIDE DEF B
<1> QED
  BY <1>8, <1>9 DEF R, h

\* FULL: the left side is probed, and what had no match follows.
LEMMA FullIsList ==
  ASSUME StoreInv, NEW L \in Seq(DOMAIN Number), NEW matched,
         \A j \in DOMAIN rows : j \in matched <=> j \notin Alone(Store!Right, L)
  PROVE  Lists(Store!Probe(L, Store!HashTable(Store!Right), TRUE) \o Store!AntiRight(matched),
               JoinSet(L, Store!Right, "FULL"))
<1> DEFINE R == Store!Right
           s == Store!Probe(L, Store!HashTable(Store!Right), TRUE)
           t == Store!AntiRight(matched)
           A == Match(L, R) \cup OnlyLeft(L, R)
           B == OnlyRight(L, R)
<1>1. Lists(s, Match(L, R) \cup (IF TRUE THEN OnlyLeft(L, R) ELSE {}))
  BY LeftProbes
<1>2. Lists(s, A)
  BY <1>1
<1>3. Lists(t, B)
  BY AntiRightIsList
<1>4. DOMAIN L \subseteq Nat \ {0}
  OBVIOUS
<1>5. \A x \in A : x[1] \in DOMAIN L
  BY DEF Match, OnlyLeft, Alone
<1>6. \A x \in B : x[1] = 0
  BY DEF OnlyRight
<1>7. A \cap B = {}
  BY <1>4, <1>5, <1>6
<1>8. A \cup B = JoinSet(L, R, "FULL")
  BY DEF JoinSet
<1> HIDE DEF s, t, A, B, R
<1>9. Lists(s \o t, A \cup B)
  BY <1>2, <1>3, <1>7, ConcatIsList
<1> QED
  BY <1>8, <1>9 DEF s, t, R

\* The nested loops of executeJoins.
LEMMA NestedLoopIsJoin ==
  ASSUME StoreInv, NEW L \in Seq(DOMAIN Number), NEW type \in Store!Types
  PROVE  Lists(Store!NestedLoop(L, type), JoinSet(L, Store!Right, type))
<1> DEFINE R == Store!Right
           matched == {j \in DOMAIN rows : R[j] \in Store!Range(L)}
<1>1. type \in {"INNER", "LEFT", "RIGHT", "FULL"}
  BY DEF Store!Types
<1>2. /\ [v \in Store!Vals |-> Store!At(R, v)] = Store!HashTable(R)
      /\ [v \in Store!Vals |-> Store!At(L, v)] = Store!HashTable(L)
  BY DEF Store!HashTable
<1>3. CASE type \in {"INNER", "LEFT"}
  <2> DEFINE keep == type = "LEFT"
  <2>1. Store!NestedLoop(L, type) = Store!Probe(L, Store!HashTable(R), keep)
    BY <1>2, <1>3 DEF Store!NestedLoop
  <2>2. JoinSet(L, R, type) = Match(L, R) \cup (IF keep THEN OnlyLeft(L, R) ELSE {})
    BY <1>3 DEF JoinSet
  <2>3. keep \in BOOLEAN
    OBVIOUS
  <2> HIDE DEF keep
  <2> QED
    BY <2>1, <2>2, <2>3, LeftProbes
<1>4. CASE type = "RIGHT"
  <2>1. Store!NestedLoop(L, type) = Store!Flip(Store!Probe(R, Store!HashTable(L), TRUE))
    BY <1>2, <1>4 DEF Store!NestedLoop
  <2>2. JoinSet(L, R, type) = Match(L, R) \cup OnlyRight(L, R)
    BY <1>4 DEF JoinSet
  <2> QED
    BY <2>1, <2>2, RightProbes
<1>5. CASE type = "FULL"
  <2>1. Store!NestedLoop(L, type)
          = Store!Probe(L, Store!HashTable(R), TRUE) \o Store!AntiRight(matched)
    BY <1>2, <1>5 DEF Store!NestedLoop
  <2>2. DOMAIN R = DOMAIN rows
    BY RightFacts
  <2>3. \A j \in DOMAIN rows : j \in matched <=> j \notin Alone(R, L)
    BY <2>2 DEF Store!Range, Alone
  <2> HIDE DEF matched
  <2> QED
    BY <1>5, <2>1, <2>3, FullIsList
<1> QED
  BY <1>1, <1>3, <1>4, <1>5

\* The hash join: what the probes found are the rows that are matched.
LEMMA HashJoinIsJoin ==
  ASSUME StoreInv, NEW L \in Seq(DOMAIN Number), NEW type \in Store!Types
  PROVE  Lists(Store!HashJoin(L, type), JoinSet(L, Store!Right, type))
<1> DEFINE R == Store!Right
           left(keep) == Store!Probe(L, Store!HashTable(R), keep)
           matched == {left(TRUE)[k][2] : k \in DOMAIN left(TRUE)}
<1>1. type \in {"INNER", "LEFT", "RIGHT", "FULL"}
  BY DEF Store!Types
<1>2. ASSUME type \in {"INNER", "LEFT"}
      PROVE  Lists(Store!HashJoin(L, type), JoinSet(L, R, type))
  <2> DEFINE keep == type # "INNER"
  <2>1. Store!HashJoin(L, type) = left(keep)
    BY <1>2 DEF Store!HashJoin
  <2>2. JoinSet(L, R, type) = Match(L, R) \cup (IF keep THEN OnlyLeft(L, R) ELSE {})
    BY <1>2 DEF JoinSet
  <2>3. keep \in BOOLEAN
    OBVIOUS
  <2> HIDE DEF keep
  <2> QED
    BY <2>1, <2>2, <2>3, LeftProbes
<1>3. ASSUME type = "RIGHT"
      PROVE  Lists(Store!HashJoin(L, type), JoinSet(L, R, type))
  <2>1. Store!HashJoin(L, type) = Store!Flip(Store!Probe(R, Store!HashTable(L), TRUE))
    BY <1>3 DEF Store!HashJoin
  <2>2. JoinSet(L, R, type) = Match(L, R) \cup OnlyRight(L, R)
    BY <1>3 DEF JoinSet
  <2> QED
    BY <2>1, <2>2, RightProbes
<1>4. ASSUME type = "FULL"
      PROVE  Lists(Store!HashJoin(L, type), JoinSet(L, R, type))
  <2>1. Store!HashJoin(L, type) = left(TRUE) \o Store!AntiRight(matched)
    <3>1. (type # "INNER") = TRUE
      BY <1>4
    <3> QED
      BY <1>4, <3>1 DEF Store!HashJoin
  <2>2. Lists(left(TRUE), Match(L, R) \cup (IF TRUE THEN OnlyLeft(L, R) ELSE {}))
    BY LeftProbes
  <2> DEFINE s == left(TRUE)
             A == Match(L, R) \cup OnlyLeft(L, R)
  <2>3. DOMAIN R = DOMAIN rows /\ DOMAIN rows \subseteq Nat \ {0}
    BY RightFacts
  <2>4. Lists(s, A)
    BY <2>2
  <2>m. matched = {s[k][2] : k \in DOMAIN s}
    OBVIOUS
  <2> HIDE DEF left, s, matched
  <2>5. {s[k] : k \in DOMAIN s} = A
    BY <2>4, ListsSize
  <2>6. ASSUME NEW j \in DOMAIN rows
        PROVE  j \in matched <=> j \notin Alone(R, L)
    <3>1. j \in matched <=> \E p \in A : p[2] = j
      BY <2>5, <2>m
    <3>2. ASSUME NEW p \in A, p[2] = j
          PROVE  p \in Match(L, R)
      BY <2>3, <2>6, <3>2 DEF OnlyLeft
    <3>3. (\E p \in Match(L, R) : p[2] = j) <=> \E i \in DOMAIN L : L[i] = R[j]
      <4>1. ASSUME NEW i \in DOMAIN L, L[i] = R[j]
            PROVE  <<i, j>> \in Match(L, R) /\ <<i, j>>[2] = j
        BY <2>3, <2>6, <4>1 DEF Match
      <4>2. ASSUME NEW p \in Match(L, R), p[2] = j
            PROVE  p[1] \in DOMAIN L /\ L[p[1]] = R[j]
        BY <4>2 DEF Match
      <4> QED
        BY <4>1, <4>2
    <3>4. (\E p \in A : p[2] = j) <=> \E p \in Match(L, R) : p[2] = j
      BY <3>2
    <3> QED
      BY <2>3, <3>1, <3>3, <3>4 DEF Alone
  <2> QED
    BY <1>4, <2>1, <2>6, FullIsList DEF left, s
<1> QED
  BY <1>1, <1>2, <1>3, <1>4

\* The indexed nested loop: while no row is dead, the index has every row of a value.
LEMMA IndexedIsJoin ==
  ASSUME StoreInv, indexed, NEW L \in Seq(DOMAIN Number), NEW type \in {"INNER", "LEFT"},
         \A j \in DOMAIN rows : ~rows[j].dead
  PROVE  Lists(Store!IndexedNestedLoop(L, type), JoinSet(L, Store!Right, type))
<1> DEFINE R == Store!Right
           h == [v \in Store!Vals |->
                   Store!Picked(index[v], {k \in DOMAIN index[v] : index[v][k] \in Store!Having(v)})]
           keep == type = "LEFT"
<1>1. Store!IndexedNestedLoop(L, type) = Store!Probe(L, h, keep)
  BY DEF Store!IndexedNestedLoop
<1>2. R \in Seq(DOMAIN Number) /\ \A v : Places(R, v) = HavingIn(rows, v)
  BY RightFacts
<1>3. ASSUME NEW v \in DOMAIN Number
      PROVE  Lists(h[v], Places(R, v))
  <2> DEFINE P == {k \in DOMAIN index[v] : index[v][k] \in Store!Having(v)}
             H == HavingIn(rows, v)
  <2>1. h[v] = Picked(index[v], P)
    BY StoreSelections DEF Store!Vals
  <2>2. Lists(index[v], Found(v)) /\ Found(v) \in SUBSET H /\ H \cap AliveIn(rows) \subseteq Found(v)
    BY FoundFacts
  <2>3. H \subseteq AliveIn(rows)
    BY DEF HavingIn, AliveIn
  <2>4. Lists(index[v], H)
    <3>1. Found(v) = H
      BY <2>2, <2>3
    <3> QED
      BY <2>2, <3>1
  <2>5. P \in SUBSET DOMAIN index[v] /\ \A k \in DOMAIN index[v] : k \in P <=> index[v][k] \in H
    BY DEF Store!Having, HavingIn
  <2> HIDE DEF P, H
  <2>6. Lists(Picked(index[v], P), H)
    BY <2>4, <2>5, PickedIsList
  <2> QED
    BY <1>2, <2>1, <2>6 DEF H
<1>4. keep \in BOOLEAN /\ JoinSet(L, R, type) = Match(L, R) \cup (IF keep THEN OnlyLeft(L, R) ELSE {})
  BY DEF JoinSet
<1> HIDE DEF R, h, keep
<1>5. Lists(Store!Probe(L, h, keep), Match(L, R) \cup (IF keep THEN OnlyLeft(L, R) ELSE {}))
  BY <1>2, <1>3, <1>4, ProbeIsList
<1> QED
  BY <1>1, <1>4, <1>5 DEF R

\* s has the positions of vs, in the order of their values.
SortedBy(vs, s) ==
  /\ Lists(s, DOMAIN vs)
  /\ \A x, y \in DOMAIN s : x < y => vs[s[x]] <= vs[s[y]]

\* Lists one after the other are in order if every list has one key, and the keys increase.
LEMMA FlattenInOrder ==
  ASSUME NEW n \in Nat, NEW ss, ss = [i \in 1 .. n |-> ss[i]], NEW A, ListsEach(ss, A, n),
         NEW key, \A i \in 1 .. n : \A a \in A[i] : key[a] = i
  PROVE  \A x, y \in DOMAIN Store!FlattenSeq(ss) :
           x < y => key[Store!FlattenSeq(ss)[x]] <= key[Store!FlattenSeq(ss)[y]]
<1>1. Len(ss) = n
  OBVIOUS
<1>2. CASE n = 0
  <2>1. Store!FlattenSeq(ss) = ss /\ ss = <<>>
    BY <1>1, <1>2 DEF Store!FlattenSeq
  <2> QED
    BY <2>1
<1>3. CASE n # 0
  <2>1. PICK f : Partial(f, ss, n) /\ Store!FlattenSeq(ss) = f[n]
    BY <1>1, <1>3, FlattenReads
  <2>2. /\ \A m \in 1 .. n : Lists(f[m], Together(A, m))
        /\ f[1] = ss[1]
        /\ \A m \in 1 .. n : m + 1 \in 1 .. n => f[m + 1] = f[m] \o ss[m + 1]
    <3>1. Partial(f, ss, n) /\ ListsEach(ss, A, n)
      BY <2>1
    <3>2. \A m \in 1 .. n : Lists(f[m], Together(A, m))
      BY <3>1, PartialLists
    <3>3. PartialSteps(f, ss, n)
      BY <3>1, PartialStep
    <3> QED
      BY <1>3, <3>2, <3>3 DEF PartialSteps
  <2> DEFINE O(s) == \A x, y \in DOMAIN s : x < y => key[s[x]] <= key[s[y]]
             S == {m \in Nat : m \in 1 .. n => O(f[m])}
  <2>3. ASSUME NEW i \in 1 .. n
        PROVE  /\ Lists(ss[i], A[i]) /\ Len(ss[i]) \in Nat /\ DOMAIN ss[i] = 1 .. Len(ss[i])
               /\ \A x \in DOMAIN ss[i] : key[ss[i][x]] = i
    <3>1. Lists(ss[i], A[i])
      BY DEF ListsEach
    <3> QED
      BY <3>1, ListsSize
  <2>4. ASSUME NEW m \in 1 .. n
        PROVE  /\ Len(f[m]) \in Nat /\ DOMAIN f[m] = 1 .. Len(f[m])
               /\ \A x \in DOMAIN f[m] : key[f[m][x]] \in 1 .. m
    <3>1. /\ Len(f[m]) \in Nat /\ DOMAIN f[m] = 1 .. Len(f[m])
          /\ \A x \in DOMAIN f[m] : f[m][x] \in Together(A, m)
      BY <2>2, ListsSize
    <3>2. \A a \in Together(A, m) : key[a] \in 1 .. m
      BY DEF Together
    <3> QED
      BY <3>1, <3>2
  <2>5. 0 \in S
    OBVIOUS
  <2>6. ASSUME NEW m \in Nat, m \in S
        PROVE  m + 1 \in S
    <3> SUFFICES ASSUME m + 1 \in 1 .. n
                 PROVE  O(f[m + 1])
      OBVIOUS
    <3> DEFINE t == ss[m + 1]
    <3>1. /\ Len(t) \in Nat /\ DOMAIN t = 1 .. Len(t) /\ \A x \in DOMAIN t : key[t[x]] = m + 1
          /\ t \in Seq(A[m + 1])
      BY <2>3 DEF Lists
    <3>2. CASE m = 0
      <4>1. f[m + 1] = t
        BY <2>2, <3>2
      <4> HIDE DEF t
      <4>2. O(t)
        BY <3>1
      <4> QED
        BY <4>1, <4>2
    <3>3. CASE m # 0
      <4> DEFINE s == f[m]
                 u == f[m + 1]
      <4>1. m \in 1 .. n
        BY <3>3
      <4>2. /\ Len(s) \in Nat /\ DOMAIN s = 1 .. Len(s) /\ \A x \in DOMAIN s : key[s[x]] \in 1 .. m
            /\ s \in Seq(Together(A, m)) /\ u = s \o t /\ O(s)
        BY <2>2, <2>4, <2>6, <4>1 DEF Lists
      <4> HIDE DEF s, t, u
      <4>3. s \in Seq(Together(A, m) \cup A[m + 1]) /\ t \in Seq(Together(A, m) \cup A[m + 1])
        BY <3>1, <4>2, SeqOver
      <4>4. /\ DOMAIN u = 1 .. (Len(s) + Len(t))
            /\ \A i \in 1 .. (Len(s) + Len(t)) : u[i] = IF i <= Len(s) THEN s[i] ELSE t[i - Len(s)]
        BY <4>2, <4>3, ConcatProperties
      <4>5. ASSUME NEW x \in DOMAIN u
            PROVE  \/ x \in DOMAIN s /\ u[x] = s[x]
                   \/ x \notin DOMAIN s /\ x > Len(s) /\ key[u[x]] = m + 1
        <5>1. CASE x <= Len(s)
          BY <4>2, <4>4, <5>1
        <5>2. CASE ~(x <= Len(s))
          <6>1. x - Len(s) \in DOMAIN t /\ u[x] = t[x - Len(s)]
            BY <3>1, <4>2, <4>4, <5>2
          <6> QED
            BY <3>1, <4>2, <4>4, <5>2, <6>1
        <5> QED
          BY <5>1, <5>2
      <4>6. ASSUME NEW x \in DOMAIN u, NEW y \in DOMAIN u, x < y
            PROVE  key[u[x]] <= key[u[y]]
        <5>1. x \in Nat /\ y \in Nat
          BY <3>1, <4>2, <4>4
        <5>2. CASE y \in DOMAIN s
          <6>1. x \in DOMAIN s /\ u[x] = s[x] /\ u[y] = s[y]
            BY <4>2, <4>5, <4>6, <5>1, <5>2
          <6> QED
            BY <4>2, <4>6, <5>2, <6>1
        <5>3. CASE y \notin DOMAIN s
          <6>1. key[u[y]] = m + 1
            BY <4>5, <5>3
          <6>2. key[u[x]] \in 1 .. (m + 1)
            BY <4>2, <4>5
          <6> QED
            BY <6>1, <6>2
        <5> QED
          BY <5>2, <5>3
      <4> QED
        BY <4>6 DEF u
    <3> QED
      BY <3>2, <3>3
  <2> HIDE DEF S
  <2>7. Nat \subseteq S
    BY <2>5, <2>6, SetInduction
  <2>8. n \in S /\ n \in 1 .. n
    BY <1>3, <2>7
  <2>9. O(f[n])
    BY <2>8 DEF S
  <2> QED
    BY <2>1, <2>9
<1> QED
  BY <1>2, <1>3

\* The sort of the merge join.
LEMMA SortedIsSorted ==
  ASSUME NEW vs \in Seq(DOMAIN Number)
  PROVE  SortedBy(vs, Store!Sorted(vs))
<1> DEFINE ss == [v \in DOMAIN Number |-> Store!At(vs, v)]
           A == [v \in DOMAIN Number |-> Places(vs, v)]
<1>1. PICK n \in Nat : n = Len(Number) /\ DOMAIN Number = 1 .. n
  BY StringsAssumption
<1>2. ss = [i \in 1 .. n |-> ss[i]] /\ \A i \in 1 .. n : ss[i] = Store!At(vs, i) /\ A[i] = Places(vs, i)
  BY <1>1
<1>3. Store!Sorted(vs) = Store!FlattenSeq(ss)
  BY DEF Store!Sorted, Store!Vals
<1> HIDE DEF ss, A
<1>4. \A i \in 1 .. n : Lists(ss[i], A[i])
  BY <1>2, AtIsList
<1>5. \A i, j \in 1 .. n : i # j => A[i] \cap A[j] = {}
  BY <1>2 DEF Places
<1>6. ListsEach(ss, A, n)
  BY <1>4, <1>5 DEF ListsEach
<1>7. \A i \in 1 .. n : \A a \in A[i] : vs[a] = i
  BY <1>2 DEF Places
<1>8. Together(A, n) = DOMAIN vs
  <2>1. \A k \in DOMAIN vs : vs[k] \in 1 .. n /\ k \in Places(vs, vs[k])
    BY <1>1 DEF Places
  <2>2. \A i \in 1 .. n : A[i] \subseteq DOMAIN vs
    BY <1>2 DEF Places
  <2>3. ASSUME NEW k
        PROVE  k \in Together(A, n) <=> k \in DOMAIN vs
    <3>1. k \in Together(A, n) <=> \E i \in 1 .. n : k \in A[i]
      BY DEF Together
    <3> QED
      BY <1>2, <2>1, <2>2, <3>1
  <2> QED
    BY <2>3
<1>9. Lists(Store!FlattenSeq(ss), Together(A, n))
  BY <1>2, <1>6, FlattenIsList
<1>10. ss = [i \in 1 .. n |-> ss[i]]
  BY <1>2
<1>11. \A x, y \in DOMAIN Store!FlattenSeq(ss) :
         x < y => vs[Store!FlattenSeq(ss)[x]] <= vs[Store!FlattenSeq(ss)[y]]
  BY <1>6, <1>7, <1>10, FlattenInOrder
<1> QED
  BY <1>3, <1>8, <1>9, <1>11 DEF SortedBy

\* Part of a list.
LEMMA SubSeqIsList ==
  ASSUME NEW s, NEW A, Lists(s, A), NEW b \in 1 .. Len(s), NEW e \in b .. Len(s)
  PROVE  Lists(SubSeq(s, b, e), {s[y] : y \in b .. e})
<1> DEFINE u == SubSeq(s, b, e)
           B == {s[y] : y \in b .. e}
           n == e - b + 1
<1>1. Len(s) \in Nat /\ DOMAIN s = 1 .. Len(s) /\ s \in Seq(A)
  BY ListsSize DEF Lists
<1>2. n \in Nat /\ b \in Nat /\ e \in Nat
  BY <1>1
<1>3. u = [i \in 1 .. n |-> s[b + i - 1]]
  BY <1>1, <1>2
<1> HIDE DEF u
<1>4. ASSUME NEW i \in 1 .. n
      PROVE  b + i - 1 \in b .. e /\ b + i - 1 \in DOMAIN s /\ u[i] = s[b + i - 1] /\ u[i] \in B
  BY <1>1, <1>2, <1>3
<1>5. u = [i \in 1 .. n |-> u[i]] /\ \A i \in 1 .. n : u[i] \in B
  BY <1>3, <1>4
<1> HIDE DEF n
<1>6. u \in Seq(B) /\ DOMAIN u = 1 .. n
  BY <1>2, <1>5, FunctionIsSeq
<1>7. ASSUME NEW i \in 1 .. n, NEW j \in 1 .. n, u[i] = u[j]
      PROVE  i = j
  <2>1. b + i - 1 = b + j - 1
    <3>1. PICK x \in DOMAIN s : x = b + i - 1 /\ u[i] = s[x]
      BY <1>4
    <3>2. PICK y \in DOMAIN s : y = b + j - 1 /\ u[j] = s[y]
      BY <1>4
    <3>3. s[x] = s[y]
      BY <1>7, <3>1, <3>2
    <3>4. x = y
      BY <3>3 DEF Lists
    <3> QED
      BY <3>1, <3>2, <3>4
  <2> QED
    BY <1>2, <2>1
<1>8. ASSUME NEW x \in B
      PROVE  \E i \in 1 .. n : u[i] = x
  <2>1. PICK y \in b .. e : x = s[y]
    OBVIOUS
  <2>2. y - b + 1 \in 1 .. n /\ b + (y - b + 1) - 1 = y
    BY <1>2 DEF n
  <2> QED
    BY <1>4, <2>1, <2>2
<1> HIDE DEF B
<1> QED
  BY <1>6, <1>7, <1>8 DEF Lists, u, B

\* The run of equal values that begins at a place.
LEMMA RunEndFacts ==
  ASSUME NEW vs, NEW s, Len(s) \in Nat, NEW a \in 1 .. Len(s)
  PROVE  LET e == Store!RunEnd(vs, s, a)
         IN  /\ e \in a + 1 .. Len(s) + 1
             /\ \A x \in a .. e - 1 : vs[s[x]] = vs[s[a]]
             /\ e = Len(s) + 1 \/ vs[s[e]] # vs[s[a]]
<1> DEFINE Q(e) == /\ \A x \in a .. e - 1 : vs[s[x]] = vs[s[a]]
                   /\ e = Len(s) + 1 \/ vs[s[e]] # vs[s[a]]
           T == {e \in a + 1 .. Len(s) + 1 : e = Len(s) + 1 \/ vs[s[e]] # vs[s[a]]}
<1>1. T \in SUBSET Nat /\ Len(s) + 1 \in T
  OBVIOUS
<1>2. PICK e \in T : \A y \in T : e <= y
  BY <1>1, NatMin
<1>3. e \in a + 1 .. Len(s) + 1 /\ Q(e)
  <2>1. e \in a + 1 .. Len(s) + 1 /\ (e = Len(s) + 1 \/ vs[s[e]] # vs[s[a]])
    OBVIOUS
  <2>2. ASSUME NEW x \in a .. e - 1
        PROVE  vs[s[x]] = vs[s[a]]
    <3>1. CASE x = a
      BY <3>1
    <3>2. CASE x # a
      <4>1. x \in a + 1 .. Len(s) + 1 /\ ~(e <= x)
        BY <2>1, <3>2
      <4>2. x \notin T
        BY <1>2, <4>1
      <4> QED
        BY <4>1, <4>2
    <3> QED
      BY <3>1, <3>2
  <2> QED
    BY <2>1, <2>2
<1>4. Store!RunEnd(vs, s, a) = CHOOSE x \in a + 1 .. Len(s) + 1 : Q(x)
  BY DEF Store!RunEnd
<1>5. Store!RunEnd(vs, s, a) \in a + 1 .. Len(s) + 1 /\ Q(Store!RunEnd(vs, s, a))
  <2> HIDE DEF Q
  <2> QED
    BY <1>3, <1>4
<1> QED
  BY <1>5

\* The pointers of the merge.
Pointers(li, ri) == (1 .. Len(li) + 1) \X (1 .. Len(ri) + 1)

\* The same is found from all pointers later than p.
AgreeAfter(f, g, li, ri, p) ==
  \A q \in Pointers(li, ri) : q[1] + q[2] > p[1] + p[2] => f[q] = g[q]

\* What the merge finds depends on what is found from later pointers only.
LEMMA MergeReads ==
  ASSUME NEW L, NEW li, NEW ri, Len(li) \in Nat, Len(ri) \in Nat, NEW p \in Pointers(li, ri), NEW f, NEW g,
         AgreeAfter(f, g, li, ri, p)
  PROVE  Store!MergeFrom(L, li, ri, f, p[1], p[2]) = Store!MergeFrom(L, li, ri, g, p[1], p[2])
<1>1. PICK a \in 1 .. Len(li) + 1, b \in 1 .. Len(ri) + 1 : p = <<a, b>>
  BY DEF Pointers
<1> DEFINE R == Store!Right
           m == Store!RunEnd(L, li, a)
           n == Store!RunEnd(R, ri, b)
           done == a > Len(li) \/ b > Len(ri)
<1>2. a \in Nat /\ b \in Nat /\ p[1] = a /\ p[2] = b
  BY <1>1
<1>3. ASSUME NEW c \in 1 .. Len(li) + 1, NEW d \in 1 .. Len(ri) + 1, c + d > a + b
      PROVE  f[<<c, d>>] = g[<<c, d>>]
  <2>1. <<c, d>> \in Pointers(li, ri) /\ <<c, d>>[1] = c /\ <<c, d>>[2] = d
    BY DEF Pointers
  <2> QED
    BY <1>2, <1>3, <2>1 DEF AgreeAfter
<1>4. ASSUME ~done
      PROVE  f[<<a + 1, b>>] = g[<<a + 1, b>>] /\ f[<<a, b + 1>>] = g[<<a, b + 1>>]
  <2>1. a + 1 \in 1 .. Len(li) + 1 /\ b + 1 \in 1 .. Len(ri) + 1 /\ a + 1 + b > a + b /\ a + (b + 1) > a + b
    BY <1>2, <1>4
  <2> QED
    BY <1>3, <2>1
<1>5. ASSUME ~done
      PROVE  f[<<m, n>>] = g[<<m, n>>]
  <2>1. a \in 1 .. Len(li) /\ b \in 1 .. Len(ri)
    BY <1>2, <1>5
  <2>2. m \in a + 1 .. Len(li) + 1 /\ n \in b + 1 .. Len(ri) + 1
    BY <2>1, RunEndFacts
  <2> HIDE DEF m, n
  <2>3. m \in 1 .. Len(li) + 1 /\ n \in 1 .. Len(ri) + 1 /\ m + n > a + b
    BY <1>2, <2>2
  <2> QED
    BY <1>3, <2>3
<1>6. CASE done
  BY <1>2, <1>6 DEF Store!MergeFrom
<1>7. CASE ~done
  BY <1>2, <1>4, <1>5, <1>7, Zenon DEF Store!MergeFrom
<1> QED
  BY <1>6, <1>7

\* What the recursion of MergeJoin asks of the function that it defines.
IsMerge(f, L, li, ri) ==
  f = [p \in Pointers(li, ri) |-> Store!MergeFrom(L, li, ri, f, p[1], p[2])]

\* The merge is defined for all pointers.
LEMMA MergeExists ==
  ASSUME NEW L, NEW li, NEW ri, Len(li) \in Nat, Len(ri) \in Nat
  PROVE  \E f : IsMerge(f, L, li, ri)
<1> DEFINE D == Pointers(li, ri)
           K == Len(li) + Len(ri) + 2
           M(f, p) == Store!MergeFrom(L, li, ri, f, p[1], p[2])
           Good(f, k) == \A p \in D : p[1] + p[2] + k > K => f[p] = M(f, p)
           S == {k \in Nat : \E f : Good(f, k)}
<1>1. K \in Nat /\ \A p \in D : p[1] \in Nat /\ p[2] \in Nat /\ p[1] + p[2] \in 2 .. K
  BY DEF Pointers
<1>2. 0 \in S
  <2>1. \A p \in D : ~(p[1] + p[2] + 0 > K)
    BY <1>1
  <2> HIDE DEF M, D, K
  <2>2. Good(0, 0)
    BY <2>1
  <2> QED
    BY <2>2
<1>3. ASSUME NEW k \in Nat, k \in S
      PROVE  k + 1 \in S
  <2>1. PICK f : Good(f, k)
    BY <1>3
  <2> DEFINE g == [p \in D |-> M(f, p)]
  <2>2. \A p \in D : g[p] = M(f, p)
    OBVIOUS
  <2> HIDE DEF g, M, D, K
  <2>3. ASSUME NEW p \in D, p[1] + p[2] + (k + 1) > K
        PROVE  g[p] = M(g, p)
    <3>1. ASSUME NEW q \in D, q[1] + q[2] > p[1] + p[2]
          PROVE  f[q] = g[q]
      <4>1. q[1] + q[2] + k > K
        BY <1>1, <2>3, <3>1
      <4> QED
        BY <2>1, <2>2, <4>1
    <3>a. AgreeAfter(f, g, li, ri, p) /\ p \in Pointers(li, ri)
      BY <3>1 DEF AgreeAfter, D
    <3>2. M(f, p) = M(g, p)
      BY <3>a, MergeReads DEF M
    <3> QED
      BY <2>2, <3>2
  <2>4. Good(g, k + 1)
    BY <2>3
  <2> QED
    BY <2>4
<1> HIDE DEF S
<1>4. Nat \subseteq S
  BY <1>2, <1>3, SetInduction
<1>5. PICK f : Good(f, K)
  BY <1>1, <1>4 DEF S
<1> DEFINE g == [p \in D |-> f[p]]
<1>6. \A p \in D : g[p] = f[p] /\ f[p] = M(f, p)
  <2> HIDE DEF M, D, K
  <2>1. \A p \in D : p[1] + p[2] + K > K
    BY <1>1
  <2> QED
    BY <1>5, <2>1
<1>7. g = [p \in D |-> g[p]]
  OBVIOUS
<1> HIDE DEF g, D
<1>8. ASSUME NEW p \in D
      PROVE  g[p] = M(g, p)
  <2>1. M(f, p) = M(g, p)
    <3>1. \A q \in D : f[q] = g[q]
      BY <1>6
    <3>2. AgreeAfter(f, g, li, ri, p) /\ p \in Pointers(li, ri)
      BY <3>1 DEF AgreeAfter, D
    <3> QED
      BY <3>2, MergeReads
  <2> HIDE DEF M
  <2> QED
    BY <1>6, <2>1
<1>9. g = [p \in D |-> M(g, p)]
  <2> HIDE DEF M
  <2> QED
    BY <1>7, <1>8
<1>10. IsMerge(g, L, li, ri)
  BY <1>9 DEF D, IsMerge
<1> QED
  BY <1>10

\* The pairs with equal values that the merge has not passed.
Rest(L, R, li, ri, a, b) ==
  {q \in (DOMAIN L) \X (DOMAIN R) :
     /\ L[q[1]] = R[q[2]]
     /\ \E x \in a .. Len(li) : li[x] = q[1]
     /\ \E y \in b .. Len(ri) : ri[y] = q[2]}

\* The pairs of two runs.
Runs(li, ri, a, m, b, n) == {<<li[x], ri[y]>> : x \in a .. m - 1, y \in b .. n - 1}

\* Every row of the one run meets every row of the other.
LEMMA RunsAreListed ==
  ASSUME NEW li, NEW X, Lists(li, X), NEW ri, NEW Y, Lists(ri, Y),
         NEW a \in 1 .. Len(li), NEW m \in a + 1 .. Len(li) + 1,
         NEW b \in 1 .. Len(ri), NEW n \in b + 1 .. Len(ri) + 1
  PROVE  Lists(Store!FlattenSeq([k \in 1 .. m - a |-> Store!Pairs(li[a + k - 1], SubSeq(ri, b, n - 1))]),
               Runs(li, ri, a, m, b, n))
<1> DEFINE t == SubSeq(ri, b, n - 1)
           J == {ri[y] : y \in b .. n - 1}
           c == m - a
           ss == [k \in 1 .. c |-> Store!Pairs(li[a + k - 1], t)]
           C(i) == {<<i, j>> : j \in J}
           A == [k \in 1 .. c |-> C(li[a + k - 1])]
<1>1. Len(li) \in Nat /\ DOMAIN li = 1 .. Len(li) /\ Len(ri) \in Nat
  BY ListsSize
<1>2. c \in Nat /\ a \in Nat /\ m \in Nat /\ n - 1 \in b .. Len(ri)
  BY <1>1
<1>3. Lists(t, J)
  <2> DEFINE e == n - 1
  <2>1. e \in b .. Len(ri)
    BY <1>2
  <2> HIDE DEF e
  <2>2. Lists(SubSeq(ri, b, e), {ri[y] : y \in b .. e})
    BY <2>1, SubSeqIsList
  <2> QED
    BY <2>2 DEF e
<1> HIDE DEF t, J
<1>4. \A i : Lists(Store!Pairs(i, t), C(i))
  BY <1>3, PairsIsList
<1>5. \A i, j : i # j => C(i) \cap C(j) = {}
  OBVIOUS
<1>p. \A i, x : x \in C(i) <=> \E j \in J : x = <<i, j>>
  OBVIOUS
<1> HIDE DEF C
<1>6. ss = [k \in 1 .. c |-> ss[k]] /\ \A k \in 1 .. c : ss[k] = Store!Pairs(li[a + k - 1], t) /\ A[k] = C(li[a + k - 1])
  OBVIOUS
<1>7. \A k \in 1 .. c : a + k - 1 \in a .. m - 1 /\ a + k - 1 \in DOMAIN li
  BY <1>1, <1>2
<1>8. ASSUME NEW k \in 1 .. c, NEW z \in 1 .. c, k # z
      PROVE  li[a + k - 1] # li[a + z - 1]
  <2>1. a + k - 1 # a + z - 1
    BY <1>2, <1>8
  <2> QED
    BY <1>7, <2>1 DEF Lists
<1> HIDE DEF ss, A
<1>9. ListsEach(ss, A, c)
  <2>1. \A k \in 1 .. c : Lists(ss[k], A[k])
    BY <1>4, <1>6
  <2>2. ASSUME NEW k \in 1 .. c, NEW z \in 1 .. c, k # z
        PROVE  A[k] \cap A[z] = {}
    <3>1. li[a + k - 1] # li[a + z - 1]
      BY <1>8, <2>2
    <3>2. C(li[a + k - 1]) \cap C(li[a + z - 1]) = {}
      BY <1>5, <3>1
    <3> QED
      BY <1>6, <3>2
  <2> QED
    BY <2>1, <2>2 DEF ListsEach
<1> HIDE DEF c
<1>10. Lists(Store!FlattenSeq(ss), Together(A, c))
  BY <1>2, <1>6, <1>9, FlattenIsList
<1>11. ASSUME NEW q
       PROVE  q \in Together(A, c) <=> q \in Runs(li, ri, a, m, b, n)
  <2>1. q \in Together(A, c) <=> \E k \in 1 .. c : q \in C(li[a + k - 1])
    BY <1>6 DEF Together
  <2>2. (\E k \in 1 .. c : q \in C(li[a + k - 1])) <=> \E x \in a .. m - 1 : q \in C(li[x])
    <3>1. ASSUME NEW x \in a .. m - 1
          PROVE  x - a + 1 \in 1 .. c /\ a + (x - a + 1) - 1 = x
      BY <1>2 DEF c
    <3> QED
      BY <1>7, <3>1
  <2>3. q \in Runs(li, ri, a, m, b, n) <=> \E x \in a .. m - 1 : \E y \in b .. n - 1 : q = <<li[x], ri[y]>>
    BY DEF Runs
  <2>4. ASSUME NEW x
        PROVE  q \in C(li[x]) <=> \E y \in b .. n - 1 : q = <<li[x], ri[y]>>
    BY <1>p DEF J
  <2> QED
    BY <2>1, <2>2, <2>3, <2>4
<1>12. Together(A, c) = Runs(li, ri, a, m, b, n)
  BY <1>11
<1> QED
  BY <1>10, <1>12 DEF ss, c, t

\* What is known of two sorted sides.
LEMMA SidesShape ==
  ASSUME NEW vs \in Seq(DOMAIN Number), NEW s, SortedBy(vs, s)
  PROVE  /\ Lists(s, DOMAIN vs) /\ Len(s) \in Nat /\ DOMAIN s = 1 .. Len(s)
         /\ \A x \in 1 .. Len(s) : s[x] \in DOMAIN vs /\ vs[s[x]] \in Nat
         /\ \A x, y \in 1 .. Len(s) : x <= y => vs[s[x]] <= vs[s[y]]
         /\ \A x, y \in 1 .. Len(s) : s[x] = s[y] => x = y
<1>1. Lists(s, DOMAIN vs)
  BY DEF SortedBy
<1>2. Len(s) \in Nat /\ DOMAIN s = 1 .. Len(s) /\ \A x \in DOMAIN s : s[x] \in DOMAIN vs
  BY <1>1, ListsSize
<1>3. \A i \in DOMAIN vs : vs[i] \in Nat
  BY SMTT(40), StringsAssumption
<1>4. ASSUME NEW x \in 1 .. Len(s), NEW y \in 1 .. Len(s), x <= y
      PROVE  vs[s[x]] <= vs[s[y]]
  <2>1. CASE x = y
    BY <1>2, <1>3, <2>1
  <2>2. CASE x < y
    BY <1>2, <2>2 DEF SortedBy
  <2> QED
    BY <1>2, <1>4, <2>1, <2>2
<1> QED
  BY <1>1, <1>2, <1>3, <1>4 DEF Lists

\* A value smaller than the other side's next one has no pair any more.
LEMMA RestSkips ==
  ASSUME NEW L \in Seq(DOMAIN Number), NEW li, SortedBy(L, li),
         NEW R \in Seq(DOMAIN Number), NEW ri, SortedBy(R, ri),
         NEW a \in 1 .. Len(li), NEW b \in 1 .. Len(ri)
  PROVE  /\ L[li[a]] < R[ri[b]] => Rest(L, R, li, ri, a, b) = Rest(L, R, li, ri, a + 1, b)
         /\ L[li[a]] > R[ri[b]] => Rest(L, R, li, ri, a, b) = Rest(L, R, li, ri, a, b + 1)
<1>1. /\ Len(li) \in Nat /\ \A x \in 1 .. Len(li) : li[x] \in DOMAIN L /\ L[li[x]] \in Nat
      /\ \A x, y \in 1 .. Len(li) : x <= y => L[li[x]] <= L[li[y]]
  BY SidesShape
<1>2. /\ Len(ri) \in Nat /\ \A x \in 1 .. Len(ri) : ri[x] \in DOMAIN R /\ R[ri[x]] \in Nat
      /\ \A x, y \in 1 .. Len(ri) : x <= y => R[ri[x]] <= R[ri[y]]
  BY SidesShape
<1>3. ASSUME L[li[a]] < R[ri[b]]
      PROVE  Rest(L, R, li, ri, a, b) = Rest(L, R, li, ri, a + 1, b)
  <2>1. ASSUME NEW x \in a .. Len(li), NEW y \in b .. Len(ri), L[li[x]] = R[ri[y]]
        PROVE  x \in a + 1 .. Len(li)
    <3>1. x \in 1 .. Len(li) /\ y \in 1 .. Len(ri) /\ b <= y
      BY <1>1, <1>2
    <3>2. R[ri[b]] <= R[ri[y]] /\ R[ri[b]] \in Nat /\ R[ri[y]] \in Nat /\ L[li[a]] \in Nat
      BY <1>1, <1>2, <3>1
    <3>3. L[li[a]] # R[ri[y]]
      BY SMTT(40), <1>3, <3>2
    <3>4. x # a
      BY <2>1, <3>3
    <3> QED
      BY <1>1, <3>4
  <2>2. \A x \in a + 1 .. Len(li) : x \in a .. Len(li)
    BY <1>1
  <2>3. ASSUME NEW q \in (DOMAIN L) \X (DOMAIN R), L[q[1]] = R[q[2]],
               \E y \in b .. Len(ri) : ri[y] = q[2]
        PROVE  (\E x \in a .. Len(li) : li[x] = q[1]) <=> \E x \in a + 1 .. Len(li) : li[x] = q[1]
    BY <2>1, <2>2, <2>3
  <2> QED
    BY <2>3 DEF Rest
<1>4. ASSUME L[li[a]] > R[ri[b]]
      PROVE  Rest(L, R, li, ri, a, b) = Rest(L, R, li, ri, a, b + 1)
  <2>1. ASSUME NEW x \in a .. Len(li), NEW y \in b .. Len(ri), L[li[x]] = R[ri[y]]
        PROVE  y \in b + 1 .. Len(ri)
    <3>1. x \in 1 .. Len(li) /\ y \in 1 .. Len(ri) /\ a <= x
      BY <1>1, <1>2
    <3>2. L[li[a]] <= L[li[x]] /\ R[ri[b]] \in Nat /\ L[li[x]] \in Nat /\ L[li[a]] \in Nat
      BY <1>1, <1>2, <3>1
    <3>3. R[ri[b]] # L[li[x]]
      BY SMTT(40), <1>4, <3>2
    <3>4. y # b
      BY <2>1, <3>3
    <3> QED
      BY <1>2, <3>4
  <2>2. \A y \in b + 1 .. Len(ri) : y \in b .. Len(ri)
    BY <1>2
  <2>3. ASSUME NEW q \in (DOMAIN L) \X (DOMAIN R), L[q[1]] = R[q[2]],
               \E x \in a .. Len(li) : li[x] = q[1]
        PROVE  (\E y \in b .. Len(ri) : ri[y] = q[2]) <=> \E y \in b + 1 .. Len(ri) : ri[y] = q[2]
    BY <2>1, <2>2, <2>3
  <2> QED
    BY <2>3 DEF Rest
<1> QED
  BY <1>3, <1>4

\* Up to e the values are equal, and then they are larger.
RunTo(vs, s, a, e) ==
  /\ e \in a + 1 .. Len(s) + 1
  /\ \A x \in a .. Len(s) : x \in a .. e - 1 => vs[s[x]] = vs[s[a]]
  /\ \A x \in a .. Len(s) : x \notin a .. e - 1 => vs[s[x]] > vs[s[a]]
  /\ \A x \in a .. Len(s) : x \in a .. e - 1 <=> x \notin e .. Len(s)

\* What is past the run has a larger value.
LEMMA PastTheRun ==
  ASSUME NEW vs \in Seq(DOMAIN Number), NEW s, SortedBy(vs, s), NEW a \in 1 .. Len(s),
         NEW e, e = Store!RunEnd(vs, s, a)
  PROVE  RunTo(vs, s, a, e)
<1>1. /\ Len(s) \in Nat /\ \A x \in 1 .. Len(s) : vs[s[x]] \in Nat
      /\ \A x, y \in 1 .. Len(s) : x <= y => vs[s[x]] <= vs[s[y]]
  BY SidesShape
<1>2. /\ e \in a + 1 .. Len(s) + 1
      /\ \A x \in a .. e - 1 : vs[s[x]] = vs[s[a]]
      /\ e = Len(s) + 1 \/ vs[s[e]] # vs[s[a]]
  BY <1>1, RunEndFacts
<1>3. ASSUME NEW x \in a .. Len(s)
      PROVE  /\ x \in a .. e - 1 => vs[s[x]] = vs[s[a]]
             /\ x \notin a .. e - 1 => vs[s[x]] > vs[s[a]]
             /\ x \in a .. e - 1 <=> x \notin e .. Len(s)
  <2>1. x \in a .. e - 1 <=> x \notin e .. Len(s)
    BY <1>1, <1>2
  <2>2. CASE x \in a .. e - 1
    BY <1>2, <2>1, <2>2
  <2>3. CASE x \notin a .. e - 1
    <3>1. e \in 1 .. Len(s) /\ a <= e /\ e <= x /\ x \in 1 .. Len(s) /\ e # Len(s) + 1
      BY <1>1, <1>2, <2>1, <2>3
    <3>2. vs[s[a]] <= vs[s[e]] /\ vs[s[e]] <= vs[s[x]] /\ vs[s[e]] # vs[s[a]]
      BY <1>1, <1>2, <3>1
    <3>3. vs[s[a]] \in Nat /\ vs[s[e]] \in Nat /\ vs[s[x]] \in Nat
      BY <1>1, <3>1
    <3>4. vs[s[x]] > vs[s[a]]
      BY SMTT(40), <3>2, <3>3
    <3> QED
      BY <2>1, <2>3, <3>4
  <2> QED
    BY <2>2, <2>3
<1> QED
  BY <1>2, <1>3 DEF RunTo

\* Equal values: the pairs of the two runs, and what is past both.
LEMMA RestSplits ==
  ASSUME NEW L \in Seq(DOMAIN Number), NEW li, SortedBy(L, li),
         NEW R \in Seq(DOMAIN Number), NEW ri, SortedBy(R, ri),
         NEW a \in 1 .. Len(li), NEW b \in 1 .. Len(ri), L[li[a]] = R[ri[b]],
         NEW m, RunTo(L, li, a, m), NEW n, RunTo(R, ri, b, n)
  PROVE  /\ Rest(L, R, li, ri, a, b) = Runs(li, ri, a, m, b, n) \cup Rest(L, R, li, ri, m, n)
         /\ Runs(li, ri, a, m, b, n) \cap Rest(L, R, li, ri, m, n) = {}
<1>1. /\ Len(li) \in Nat
      /\ \A x \in 1 .. Len(li) : li[x] \in DOMAIN L /\ L[li[x]] \in Nat
      /\ \A x, y \in 1 .. Len(li) : li[x] = li[y] => x = y
  BY SidesShape
<1>2. /\ Len(ri) \in Nat
      /\ \A x \in 1 .. Len(ri) : ri[x] \in DOMAIN R /\ R[ri[x]] \in Nat
  BY SidesShape
<1>3. /\ m \in a + 1 .. Len(li) + 1
      /\ \A x \in a .. Len(li) : x \in a .. m - 1 => L[li[x]] = L[li[a]]
      /\ \A x \in a .. Len(li) : x \notin a .. m - 1 => L[li[x]] > L[li[a]]
      /\ \A x \in a .. Len(li) : x \in a .. m - 1 <=> x \notin m .. Len(li)
  BY DEF RunTo
<1>4. /\ n \in b + 1 .. Len(ri) + 1
      /\ \A y \in b .. Len(ri) : y \in b .. n - 1 => R[ri[y]] = R[ri[b]]
      /\ \A y \in b .. Len(ri) : y \notin b .. n - 1 => R[ri[y]] > R[ri[b]]
      /\ \A y \in b .. Len(ri) : y \in b .. n - 1 <=> y \notin n .. Len(ri)
  BY DEF RunTo
<1>r. \A q : q \in Runs(li, ri, a, m, b, n)
              <=> \E x \in a .. m - 1 : \E y \in b .. n - 1 : q = <<li[x], ri[y]>>
  BY DEF Runs
<1>5. \A x : x \in a .. m - 1 => x \in a .. Len(li) /\ x \in 1 .. Len(li)
  BY <1>1, <1>3
<1>6. \A y : y \in b .. n - 1 => y \in b .. Len(ri) /\ y \in 1 .. Len(ri)
  BY <1>2, <1>4
<1>7. \A x : x \in m .. Len(li) => x \in a .. Len(li) /\ x \in 1 .. Len(li)
  BY <1>1, <1>3
<1>8. \A y : y \in n .. Len(ri) => y \in b .. Len(ri) /\ y \in 1 .. Len(ri)
  BY <1>2, <1>4
<1>9. ASSUME NEW q \in Runs(li, ri, a, m, b, n)
      PROVE  q \in Rest(L, R, li, ri, a, b) /\ q \notin Rest(L, R, li, ri, m, n)
  <2>1. PICK x \in a .. m - 1, y \in b .. n - 1 : q = <<li[x], ri[y]>>
    BY <1>r
  <2>2. x \in a .. Len(li) /\ x \in 1 .. Len(li) /\ y \in b .. Len(ri) /\ y \in 1 .. Len(ri)
    BY <1>5, <1>6
  <2>3. L[li[x]] = L[li[a]] /\ R[ri[y]] = R[ri[b]] /\ li[x] \in DOMAIN L /\ ri[y] \in DOMAIN R
    BY <1>1, <1>2, <1>3, <1>4, <2>2
  <2>4. q \in Rest(L, R, li, ri, a, b)
    BY <2>1, <2>2, <2>3 DEF Rest
  <2>5. ASSUME NEW z \in m .. Len(li)
        PROVE  li[z] # q[1]
    <3>1. z \in 1 .. Len(li) /\ x \notin m .. Len(li)
      BY <1>3, <1>7, <2>2
    <3> QED
      BY <1>1, <2>1, <2>2, <3>1
  <2> QED
    BY <2>4, <2>5 DEF Rest
<1>10. ASSUME NEW q \in Rest(L, R, li, ri, m, n)
       PROVE  q \in Rest(L, R, li, ri, a, b)
  BY <1>7, <1>8 DEF Rest
<1>11. ASSUME NEW q \in Rest(L, R, li, ri, a, b)
       PROVE  q \in Runs(li, ri, a, m, b, n) \/ q \in Rest(L, R, li, ri, m, n)
  <2>1. PICK x \in a .. Len(li), y \in b .. Len(ri) : li[x] = q[1] /\ ri[y] = q[2]
    BY SMTT(40) DEF Rest
  <2>2. L[li[x]] = R[ri[y]] /\ q = <<li[x], ri[y]>> /\ q \in (DOMAIN L) \X (DOMAIN R)
    BY <2>1 DEF Rest
  <2>3. /\ L[li[x]] \in Nat /\ R[ri[y]] \in Nat /\ L[li[a]] \in Nat /\ R[ri[b]] \in Nat
    BY <1>1, <1>2
  <2>4. x \in a .. m - 1 <=> y \in b .. n - 1
    <3>1. x \in a .. m - 1 <=> L[li[x]] = L[li[a]]
      BY SMTT(40), <1>3, <2>3
    <3>2. y \in b .. n - 1 <=> R[ri[y]] = R[ri[b]]
      BY SMTT(40), <1>4, <2>3
    <3> QED
      BY <2>2, <3>1, <3>2
  <2>5. CASE x \in a .. m - 1
    BY <1>r, <2>2, <2>4, <2>5
  <2>6. CASE x \notin a .. m - 1
    <3>1. x \in m .. Len(li) /\ y \in n .. Len(ri)
      BY <1>3, <1>4, <2>4, <2>6
    <3> QED
      BY <2>1, <2>2, <3>1 DEF Rest
  <2> QED
    BY <2>5, <2>6
<1> QED
  BY <1>9, <1>10, <1>11

\* What has been found from later pointers is what is left there.
FindsAfter(f, L, R, li, ri, p) ==
  \A q \in Pointers(li, ri) : q[1] + q[2] > p[1] + p[2] => Lists(f[q], Rest(L, R, li, ri, q[1], q[2]))

\* A step of the merge finds what is left.
LEMMA MergeFinds ==
  ASSUME NEW L \in Seq(DOMAIN Number), NEW li, SortedBy(L, li),
         NEW R \in Seq(DOMAIN Number), R = Store!Right, NEW ri, SortedBy(R, ri),
         NEW p \in Pointers(li, ri), NEW f, FindsAfter(f, L, R, li, ri, p)
  PROVE  Lists(Store!MergeFrom(L, li, ri, f, p[1], p[2]), Rest(L, R, li, ri, p[1], p[2]))
<1>1. PICK a \in 1 .. Len(li) + 1, b \in 1 .. Len(ri) + 1 : p = <<a, b>>
  BY DEF Pointers
<1> DEFINE m == Store!RunEnd(L, li, a)
           n == Store!RunEnd(R, ri, b)
           done == a > Len(li) \/ b > Len(ri)
           F == Store!MergeFrom(L, li, ri, f, a, b)
           W == Store!FlattenSeq([k \in 1 .. m - a |-> Store!Pairs(li[a + k - 1], SubSeq(ri, b, n - 1))])
<1>2. p[1] = a /\ p[2] = b
  BY <1>1
<1>3. Len(li) \in Nat /\ Len(ri) \in Nat /\ Lists(li, DOMAIN L) /\ Lists(ri, DOMAIN R)
  BY SidesShape
<1>4. a \in Nat /\ b \in Nat
  BY <1>3
<1>5. ASSUME NEW c \in 1 .. Len(li) + 1, NEW d \in 1 .. Len(ri) + 1, c + d > a + b
      PROVE  Lists(f[<<c, d>>], Rest(L, R, li, ri, c, d))
  <2>1. <<c, d>> \in Pointers(li, ri) /\ <<c, d>>[1] = c /\ <<c, d>>[2] = d
    BY DEF Pointers
  <2> QED
    BY <1>2, <1>5, <2>1 DEF FindsAfter
<1>6. CASE done
  <2>1. F = <<>>
    BY <1>6 DEF Store!MergeFrom
  <2>2. Rest(L, R, li, ri, a, b) = {}
    <3>1. a .. Len(li) = {} \/ b .. Len(ri) = {}
      BY <1>3, <1>4, <1>6
    <3> QED
      BY <3>1 DEF Rest
  <2> QED
    BY <1>2, <2>1, <2>2, EmptyIsList
<1>7. CASE ~done
  <2>1. a \in 1 .. Len(li) /\ b \in 1 .. Len(ri)
    BY <1>3, <1>4, <1>7
  <2>2. L[li[a]] \in Nat /\ R[ri[b]] \in Nat
    BY <2>1, SidesShape
  <2>3. CASE L[li[a]] < R[ri[b]]
    <3>1. F = f[<<a + 1, b>>]
      BY <1>7, <2>3 DEF Store!MergeFrom
    <3>2. a + 1 \in 1 .. Len(li) + 1 /\ a + 1 + b > a + b
      BY <1>3, <1>4, <2>1
    <3>3. Lists(f[<<a + 1, b>>], Rest(L, R, li, ri, a + 1, b))
      BY <1>5, <3>2
    <3> QED
      BY <1>2, <2>1, <2>3, <3>1, <3>3, RestSkips
  <2>4. CASE L[li[a]] > R[ri[b]]
    <3>1. F = f[<<a, b + 1>>]
      <4>1. ~(L[li[a]] < R[ri[b]])
        BY SMTT(40), <2>2, <2>4
      <4> QED
        BY <1>7, <2>4, <4>1 DEF Store!MergeFrom
    <3>2. b + 1 \in 1 .. Len(ri) + 1 /\ a + (b + 1) > a + b
      BY <1>3, <1>4, <2>1
    <3>3. Lists(f[<<a, b + 1>>], Rest(L, R, li, ri, a, b + 1))
      BY <1>5, <3>2
    <3> QED
      BY SMTT(40), <1>2, <2>1, <2>4, <3>1, <3>3, RestSkips
  <2>5. CASE L[li[a]] = R[ri[b]]
    <3>1. F = W \o f[<<m, n>>]
      <4>1. ~(L[li[a]] < R[ri[b]]) /\ ~(L[li[a]] > R[ri[b]])
        BY <2>2, <2>5
      <4> QED
        BY <1>7, <4>1 DEF Store!MergeFrom
    <3>2. m \in a + 1 .. Len(li) + 1 /\ n \in b + 1 .. Len(ri) + 1
      BY <1>3, <2>1, RunEndFacts
    <3>3. /\ Rest(L, R, li, ri, a, b) = Runs(li, ri, a, m, b, n) \cup Rest(L, R, li, ri, m, n)
          /\ Runs(li, ri, a, m, b, n) \cap Rest(L, R, li, ri, m, n) = {}
      <4>1. RunTo(L, li, a, m) /\ RunTo(R, ri, b, n)
        BY <2>1, PastTheRun
      <4> HIDE DEF m, n
      <4> QED
        BY <2>1, <2>5, <4>1, RestSplits
    <3> HIDE DEF m, n
    <3>4. Lists(W, Runs(li, ri, a, m, b, n))
      BY <1>3, <2>1, <3>2, RunsAreListed
    <3>5. m \in 1 .. Len(li) + 1 /\ n \in 1 .. Len(ri) + 1 /\ m + n > a + b
      BY <1>3, <1>4, <3>2
    <3>6. Lists(f[<<m, n>>], Rest(L, R, li, ri, m, n))
      BY <1>5, <3>5
    <3> HIDE DEF W, F
    <3>7. Lists(W \o f[<<m, n>>], Runs(li, ri, a, m, b, n) \cup Rest(L, R, li, ri, m, n))
      BY <3>3, <3>4, <3>6, ConcatIsList
    <3> QED
      BY <1>2, <3>1, <3>3, <3>7 DEF F
  <2> QED
    BY SMTT(40), <2>2, <2>3, <2>4, <2>5
<1> QED
  BY <1>6, <1>7

\* A function that is the merge finds what is left, from every pointer.
LEMMA MergeFindsAll ==
  ASSUME NEW L \in Seq(DOMAIN Number), NEW li, SortedBy(L, li),
         NEW R \in Seq(DOMAIN Number), R = Store!Right, NEW ri, SortedBy(R, ri),
         NEW f, \A p \in Pointers(li, ri) : f[p] = Store!MergeFrom(L, li, ri, f, p[1], p[2])
  PROVE  \A p \in Pointers(li, ri) : Lists(f[p], Rest(L, R, li, ri, p[1], p[2]))
<1> DEFINE D == Pointers(li, ri)
           K == Len(li) + Len(ri) + 2
           G(p) == Lists(f[p], Rest(L, R, li, ri, p[1], p[2]))
           S == {k \in Nat : \A p \in D : p[1] + p[2] + k > K => G(p)}
<1>0. Len(li) \in Nat /\ Len(ri) \in Nat
  BY SidesShape
<1>1. K \in Nat /\ \A p \in D : p[1] \in Nat /\ p[2] \in Nat /\ p[1] + p[2] \in 2 .. K
  BY <1>0 DEF Pointers
<1>2. 0 \in S
  <2> HIDE DEF G, D, K
  <2> QED
    BY <1>1
<1>3. ASSUME NEW k \in Nat, k \in S
      PROVE  k + 1 \in S
  <2>1. ASSUME NEW p \in D, p[1] + p[2] + (k + 1) > K
        PROVE  G(p)
    <3> HIDE DEF K
    <3>1. ASSUME NEW q \in D, q[1] + q[2] > p[1] + p[2]
          PROVE  G(q)
      <4> HIDE DEF G, D
      <4>1. q[1] + q[2] + k > K
        BY <1>1, <2>1, <3>1
      <4> QED
        BY <1>3, <4>1
    <3>2. FindsAfter(f, L, R, li, ri, p)
      BY <3>1 DEF FindsAfter
    <3>3. Lists(Store!MergeFrom(L, li, ri, f, p[1], p[2]), Rest(L, R, li, ri, p[1], p[2]))
      BY <3>2, MergeFinds
    <3> QED
      BY <3>3
  <2> HIDE DEF G, D, K
  <2> QED
    BY <2>1
<1> HIDE DEF S
<1>4. Nat \subseteq S
  BY <1>2, <1>3, SetInduction
<1>5. ASSUME NEW p \in D
      PROVE  G(p)
  <2> HIDE DEF G, D, K
  <2>1. K \in S /\ p[1] + p[2] + K > K
    BY <1>1, <1>4
  <2> QED
    BY <2>1 DEF S
<1> QED
  BY <1>5

\* The merge join.
LEMMA MergeJoinIsJoin ==
  ASSUME StoreInv, NEW L \in Seq(DOMAIN Number)
  PROVE  Lists(Store!MergeJoin(L), JoinSet(L, Store!Right, "INNER"))
<1> DEFINE R == Store!Right
           li == Store!Sorted(L)
           ri == Store!Sorted(R)
           f == CHOOSE g : g = [p \in Pointers(li, ri) |-> Store!MergeFrom(L, li, ri, g, p[1], p[2])]
<1>1. R \in Seq(DOMAIN Number)
  BY RightFacts
<1>2. SortedBy(L, li) /\ SortedBy(R, ri)
  BY <1>1, SortedIsSorted
<1>3. Store!MergeJoin(L) = f[<<1, 1>>]
  BY DEF Store!MergeJoin, Pointers
<1> HIDE DEF R, li, ri
<1>4. /\ Len(li) \in Nat /\ DOMAIN li = 1 .. Len(li) /\ Lists(li, DOMAIN L)
      /\ Len(ri) \in Nat /\ DOMAIN ri = 1 .. Len(ri) /\ Lists(ri, DOMAIN R)
  BY <1>1, <1>2, SidesShape
<1>a. \E g : IsMerge(g, L, li, ri)
  BY <1>4, MergeExists
<1>5. \E g : g = [p \in Pointers(li, ri) |-> Store!MergeFrom(L, li, ri, g, p[1], p[2])]
  BY <1>a DEF IsMerge
<1>6. f = [p \in Pointers(li, ri) |-> Store!MergeFrom(L, li, ri, f, p[1], p[2])]
  BY <1>5
<1> HIDE DEF f
<1>7. \A p \in Pointers(li, ri) : f[p] = Store!MergeFrom(L, li, ri, f, p[1], p[2])
  BY <1>6
<1>r. R = Store!Right
  BY DEF R
<1>8. \A p \in Pointers(li, ri) : Lists(f[p], Rest(L, R, li, ri, p[1], p[2]))
  BY <1>1, <1>2, <1>7, <1>r, MergeFindsAll
<1>9. <<1, 1>> \in Pointers(li, ri) /\ <<1, 1>>[1] = 1 /\ <<1, 1>>[2] = 1
  BY <1>4 DEF Pointers
<1>10. Lists(f[<<1, 1>>], Rest(L, R, li, ri, 1, 1))
  BY <1>8, <1>9
<1>11. Rest(L, R, li, ri, 1, 1) = Match(L, R)
  <2>1. ASSUME NEW q \in (DOMAIN L) \X (DOMAIN R)
        PROVE  (\E x \in 1 .. Len(li) : li[x] = q[1]) /\ (\E y \in 1 .. Len(ri) : ri[y] = q[2])
    BY <1>4 DEF Lists
  <2> QED
    BY <2>1 DEF Rest, Match
<1>12. JoinSet(L, R, "INNER") = Match(L, R)
  BY DEF JoinSet
<1> QED
  BY <1>3, <1>10, <1>11, <1>12 DEF R

\* Every strategy that executeJoins may choose.
LEMMA ExecuteIsJoin ==
  ASSUME StoreInv, \A j \in DOMAIN rows : ~rows[j].dead,
         NEW L \in Seq(DOMAIN Number), NEW type \in Store!Types, NEW leftIdx,
         NEW method \in Store!Advice
  PROVE  Lists(Store!Execute(L, type, leftIdx, method), JoinSet(L, Store!Right, type))
<1> DEFINE e == Store!Execute(L, type, leftIdx, method)
<1>1. \/ /\ method = "nested_loop_indexed" /\ type \in {"INNER", "LEFT"}
         /\ e = Store!IndexedNestedLoop(L, type)
      \/ e = Store!HashJoin(L, type)
      \/ type = "INNER" /\ e = Store!MergeJoin(L)
      \/ e = Store!NestedLoop(L, type)
  BY DEF Store!Execute
<1>2. method = "nested_loop_indexed" => indexed
  BY DEF Store!Advice, Store!Methods
<1> HIDE DEF e
<1>3. CASE method = "nested_loop_indexed" /\ type \in {"INNER", "LEFT"} /\ e = Store!IndexedNestedLoop(L, type)
  BY <1>2, <1>3, IndexedIsJoin DEF e
<1>4. CASE e = Store!HashJoin(L, type)
  BY <1>4, HashJoinIsJoin DEF e
<1>5. CASE type = "INNER" /\ e = Store!MergeJoin(L)
  BY <1>5, MergeJoinIsJoin DEF e
<1>6. CASE e = Store!NestedLoop(L, type)
  BY <1>6, NestedLoopIsJoin DEF e
<1> QED
  BY <1>1, <1>3, <1>4, <1>5, <1>6

\* For every table without deleted rows, every left side, and whatever the sizes, the indexes
\* and the advice, the nested loops, the hash join, the merge join and the indexed nested loop
\* give the rows that a join is, each once.
THEOREM StrategiesAgree == AllSpec => []JoinsAgree
<1>1. ASSUME StoreInv
      PROVE  JoinsAgree
  <2> SUFFICES ASSUME \A j \in DOMAIN rows : ~rows[j].dead,
                      NEW L \in Lefts, NEW type \in Store!Types, NEW leftIdx \in BOOLEAN,
                      NEW method \in Store!Advice
               PROVE  LET result == Store!Execute(L, type, leftIdx, method)
                      IN  /\ Store!Range(result) = Store!Joined(L, type)
                          /\ Len(result) = Store!Cardinality(Store!Range(result))
    BY DEF JoinsAgree, Store!JoinsAgree
  <2> DEFINE result == Store!Execute(L, type, leftIdx, method)
             J == JoinSet(L, Store!Right, type)
  <2>1. L \in Seq(DOMAIN Number)
    BY StringsAssumption
  <2>2. Lists(result, J)
    BY <1>1, <2>1, ExecuteIsJoin
  <2>3. Store!Joined(L, type) = J
    BY <1>1, JoinedIs
  <2> HIDE DEF result, J
  <2>4. Len(result) = Cardinality(J) /\ {result[i] : i \in DOMAIN result} = J
    BY <2>2, ListsSize
  <2>5. Store!Range(result) = J
    BY <2>4 DEF Store!Range
  <2>6. Store!Cardinality(J) = Cardinality(J)
    BY StoreSelections
  <2> QED
    BY <2>3, <2>4, <2>5, <2>6 DEF result
<1> QED
  BY <1>1, StoreInvHolds, PTL
-----------------------------------------------------------------------------
(* The binlog and the change events *)

\* Feeds uses the same selections.
LEMMA FeedsPicked == \A s, P : Feeds!Picked(s, P) = Picked(s, P)
<1>1. \A S, i : Feeds!Nth(S, i) = Nth(S, i)
  BY DEF Feeds!Nth, Feeds!Cardinality, Nth, Cardinality
<1>2. \A S : Feeds!Cardinality(S) = Cardinality(S)
  BY DEF Feeds!Cardinality, Cardinality
<1> QED
  BY <1>1, <1>2 DEF Feeds!Picked, Picked

\* f holds what a loop of n turns has computed before the first and after each of them: it
\* begins with first, and turn i takes x to step[i][x].
RunsLoop(f, S, first, step, n) ==
  /\ f \in [0 .. n -> S] /\ f[0] = first
  /\ \A i \in 1 .. n : f[i] = step[i][f[i - 1]]

\* Such a loop can be run.
LEMMA LoopExists ==
  ASSUME NEW S, NEW first \in S, NEW n \in Nat, NEW step \in [1 .. n -> [S -> S]]
  PROVE  \E f : RunsLoop(f, S, first, step, n)
<1> DEFINE T == {m \in Nat : m <= n => \E f : RunsLoop(f, S, first, step, m)}
<1>1. 0 \in T
  <2>1. RunsLoop([i \in 0 .. 0 |-> first], S, first, step, 0)
    BY DEF RunsLoop
  <2> QED
    BY <2>1
<1>2. ASSUME NEW m \in Nat, m \in T
      PROVE  m + 1 \in T
  <2> SUFFICES ASSUME m + 1 <= n
               PROVE  \E f : RunsLoop(f, S, first, step, m + 1)
    OBVIOUS
  <2>1. PICK f : RunsLoop(f, S, first, step, m)
    BY <1>2
  <2> DEFINE g == [i \in 0 .. m + 1 |-> IF i = m + 1 THEN step[m + 1][f[m]] ELSE f[i]]
  <2>2. f[m] \in S /\ step[m + 1] \in [S -> S]
    BY <2>1 DEF RunsLoop
  <2>3. g \in [0 .. m + 1 -> S] /\ g[0] = first
    BY <2>1, <2>2 DEF RunsLoop
  <2>4. ASSUME NEW i \in 1 .. m + 1
        PROVE  g[i] = step[i][g[i - 1]]
    <3>1. CASE i = m + 1
      BY <3>1
    <3>2. CASE i # m + 1
      <4>1. i \in 1 .. m /\ i - 1 \in 0 .. m
        BY <3>2
      <4>2. g[i] = f[i] /\ g[i - 1] = f[i - 1]
        BY <4>1
      <4> QED
        BY <2>1, <4>1, <4>2 DEF RunsLoop
    <3> QED
      BY <3>1, <3>2
  <2>5. RunsLoop(g, S, first, step, m + 1)
    BY <2>3, <2>4 DEF RunsLoop
  <2> QED
    BY <2>5
<1> HIDE DEF T
<1>3. Nat \subseteq T
  BY <1>1, <1>2, SetInduction
<1>4. n \in T
  BY <1>3
<1> QED
  BY <1>4 DEF T

\* Two loops begin alike and go on alike.
GoAlike(f, g, n) ==
  f[0] = g[0] /\ \A i \in 1 .. n : f[i - 1] = g[i - 1] => f[i] = g[i]

\* Such loops are the same.
LEMMA LoopSame ==
  ASSUME NEW n \in Nat, NEW f, NEW g, GoAlike(f, g, n)
  PROVE  \A i \in 0 .. n : f[i] = g[i]
<1> DEFINE T == {m \in Nat : m <= n => f[m] = g[m]}
<1>1. 0 \in T
  BY DEF GoAlike
<1>2. ASSUME NEW m \in Nat, m \in T
      PROVE  m + 1 \in T
  <2> SUFFICES ASSUME m + 1 <= n
               PROVE  f[m + 1] = g[m + 1]
    OBVIOUS
  <2>1. m + 1 \in 1 .. n /\ (m + 1) - 1 = m /\ f[m] = g[m]
    BY <1>2
  <2> QED
    BY <2>1 DEF GoAlike
<1> HIDE DEF T
<1>3. Nat \subseteq T
  BY <1>1, <1>2, SetInduction
<1> QED
  BY <1>3 DEF T

\* What holds before a loop and is kept by each turn holds after it.
LEMMA LoopKeeps ==
  ASSUME NEW n \in Nat, NEW f, NEW G, f[0] \in G, \A i \in 1 .. n : f[i - 1] \in G => f[i] \in G
  PROVE  \A i \in 0 .. n : f[i] \in G
<1> DEFINE T == {m \in Nat : m <= n => f[m] \in G}
<1>1. 0 \in T
  OBVIOUS
<1>2. ASSUME NEW m \in Nat, m \in T
      PROVE  m + 1 \in T
  <2> SUFFICES ASSUME m + 1 <= n
               PROVE  f[m + 1] \in G
    OBVIOUS
  <2>1. m + 1 \in 1 .. n /\ (m + 1) - 1 = m /\ f[m] \in G
    BY <1>2
  <2> QED
    BY <2>1
<1> HIDE DEF T
<1>3. Nat \subseteq T
  BY <1>1, <1>2, SetInduction
<1> QED
  BY <1>3 DEF T
-----------------------------------------------------------------------------
\* What a loop over the rows starts from and ends with.
Accs == [rows : Seq(Feeds!Version), ok : BOOLEAN]

\* Rows of one key that are alive have one value.
Once(rs) ==
  \A i, j \in DOMAIN rs : ~rs[i].dead /\ ~rs[j].dead /\ rs[i].key = rs[j].key => rs[i].val = rs[j].val

\* b is a, and after it rows that are alive.
Grown(b, a) ==
  /\ Len(a) <= Len(b) /\ \A i \in 1 .. Len(a) : b[i] = a[i]
  /\ \A i \in Len(a) + 1 .. Len(b) : ~b[i].dead

\* The fields of a statement.
LEMMA StatementFields ==
  ASSUME NEW st \in Feeds!Statement
  PROVE  /\ st.type \in {"INSERT", "REPLACE", "IGNORE", "UPDATE", "DELETE", "TRUNCATE"}
         /\ st.keys \in Seq(RowKeys) /\ Len(st.keys) \in Nat /\ DOMAIN st.keys = 1 .. Len(st.keys)
         /\ st.where \in {"none", "one", "many"} /\ st.val \in 1 .. NVals
         /\ st.expr \in BOOLEAN /\ st.blank \in BOOLEAN /\ st.quoted \in BOOLEAN
  BY DEF Feeds!Statement, Feeds!Values

\* The fields of a row, and of what a loop over the rows carries along.
LEMMA VersionFields ==
  ASSUME NEW r
  PROVE  r \in Feeds!Version <=>
           /\ r = [key |-> r.key, val |-> r.val, dead |-> r.dead]
           /\ r.key \in RowKeys /\ r.val \in 1 .. NVals /\ r.dead \in BOOLEAN
  BY DEF Feeds!Version, Feeds!Values

\* The table's rows and the flag of a loop.
LEMMA AccFields ==
  ASSUME NEW a \in Accs
  PROVE  /\ a.rows \in Seq(Feeds!Version) /\ a.ok \in BOOLEAN
         /\ Len(a.rows) \in Nat /\ DOMAIN a.rows = 1 .. Len(a.rows)
         /\ \A i \in DOMAIN a.rows : a.rows[i] \in Feeds!Version
         /\ \A rs \in Seq(Feeds!Version) : [a EXCEPT !.rows = rs] \in Accs /\ [a EXCEPT !.rows = rs].rows = rs
         /\ \A b \in BOOLEAN : [a EXCEPT !.ok = b] \in Accs /\ [a EXCEPT !.ok = b].rows = a.rows
  BY DEF Accs

\* Some of the rows, in order, keep that a key is alive once.
LEMMA PickedOnce ==
  ASSUME NEW rs \in Seq(Feeds!Version), NEW P \in SUBSET DOMAIN rs
  PROVE  /\ Feeds!Picked(rs, P) \in Seq(Feeds!Version)
         /\ \A i \in DOMAIN Feeds!Picked(rs, P) : \E j \in P : Feeds!Picked(rs, P)[i] = rs[j]
         /\ Once(rs) => Once(Feeds!Picked(rs, P))
<1> DEFINE p == Picked(rs, P)
<1>1. p \in Seq(Feeds!Version) /\ \A i \in DOMAIN p : Ascending(P)[i] \in P /\ p[i] = rs[Ascending(P)[i]]
  BY PickedFrom
<1>2. \A i \in DOMAIN p : \E j \in P : p[i] = rs[j]
  BY <1>1
<1> HIDE DEF p
<1>3. Once(rs) => Once(p)
  BY <1>2 DEF Once
<1>4. Feeds!Picked(rs, P) = p
  BY FeedsPicked DEF p
<1> QED
  BY <1>1, <1>2, <1>3, <1>4

\* The next row of an INSERT, REPLACE or INSERT IGNORE.
LEMMA InsertNextKeeps ==
  ASSUME NEW a \in Accs, NEW st \in Feeds!Statement, NEW k \in RowKeys
  PROVE  LET b == Feeds!InsertNext(a, st, k)
         IN  b \in Accs /\ (Once(a.rows) => Once(b.rows)) /\ (st.type = "INSERT" => Grown(b.rows, a.rows))
<1> DEFINE rs == a.rows
           held == {i \in DOMAIN rs : Feeds!Conflicts(rs[i], k)}
           new == [key |-> k, val |-> st.val, dead |-> FALSE]
           rest == Feeds!Picked(rs, DOMAIN rs \ held)
           b == Feeds!InsertNext(a, st, k)
<1>1. rs \in Seq(Feeds!Version) /\ new \in Feeds!Version
  BY AccFields, StatementFields, VersionFields
<1>2. CASE b = a \/ b = [a EXCEPT !.ok = FALSE]
  <2>1. b \in Accs /\ b.rows = rs
    BY <1>2, AccFields
  <2>2. Grown(rs, rs)
    BY <1>1 DEF Grown
  <2> QED
    BY <2>1, <2>2
<1>3. CASE b = [a EXCEPT !.rows = Append(rest, new)] /\ (st.type = "INSERT" => held = {})
  <2>1. /\ rest \in Seq(Feeds!Version)
        /\ \A i \in DOMAIN rest : \E j \in DOMAIN rs \ held : rest[i] = rs[j]
        /\ Once(rs) => Once(rest)
    BY <1>1, PickedOnce
  <2> DEFINE nr == Append(rest, new)
  <2>2. nr \in Seq(Feeds!Version)
    BY <1>1, <2>1
  <2>3. b \in Accs /\ b.rows = nr
    <3>1. [a EXCEPT !.rows = nr] \in Accs /\ [a EXCEPT !.rows = nr].rows = nr
      <4> HIDE DEF nr
      <4> QED
        BY <2>2, AccFields
    <3> QED
      BY <1>3, <3>1
  <2>4. \A i \in DOMAIN rest : rest[i].dead \/ rest[i].key # k
    BY <2>1 DEF Feeds!Conflicts
  <2>5. st.type = "INSERT" => rest = rs
    <3>1. Picked(rs, DOMAIN rs) = rs
      BY <1>1, PickedAll
    <3> QED
      BY <1>3, <3>1, FeedsPicked
  <2> HIDE DEF rs, held, rest, new
  <2>6. /\ DOMAIN nr = 1 .. Len(rest) + 1 /\ DOMAIN rest = 1 .. Len(rest) /\ Len(rest) \in Nat
        /\ \A i \in DOMAIN rest : nr[i] = rest[i]
        /\ nr[Len(rest) + 1] = new /\ Len(nr) = Len(rest) + 1
    BY <1>1, <2>1
  <2>7. new.key = k /\ ~new.dead
    BY DEF new
  <2>8. ASSUME Once(rest)
        PROVE  Once(nr)
    <3>1. ASSUME NEW i \in DOMAIN nr, NEW j \in DOMAIN nr, ~nr[i].dead, ~nr[j].dead, nr[i].key = nr[j].key
          PROVE  nr[i].val = nr[j].val
      <4>1. CASE i \in DOMAIN rest /\ j \in DOMAIN rest
        BY <2>6, <2>8, <3>1, <4>1 DEF Once
      <4>2. CASE i \notin DOMAIN rest /\ j \notin DOMAIN rest
        BY <2>6, <4>2
      <4>3. CASE i \in DOMAIN rest /\ j \notin DOMAIN rest
        BY <2>4, <2>6, <2>7, <3>1, <4>3
      <4>4. CASE i \notin DOMAIN rest /\ j \in DOMAIN rest
        BY <2>4, <2>6, <2>7, <3>1, <4>4
      <4> QED
        BY <4>1, <4>2, <4>3, <4>4
    <3> QED
      BY <3>1 DEF Once
  <2>9. rest = rs => Grown(nr, rs)
    BY <2>6, <2>7 DEF Grown
  <2> QED
    BY <2>1, <2>3, <2>5, <2>8, <2>9 DEF rs
<1> QED
  BY <1>2, <1>3 DEF Feeds!InsertNext

\* f holds the rows after each row of an INSERT.
Inserting(f, a, st) ==
  /\ f[0] = a
  /\ \A i \in 1 .. Len(st.keys) : f[i] = Feeds!InsertNext(f[i - 1], st, st.keys[i])

\* The loop over the rows of an INSERT can be run.
LEMMA InsertRowsReads ==
  ASSUME NEW a \in Accs, NEW st \in Feeds!Statement
  PROVE  \E f : Inserting(f, a, st) /\ Feeds!InsertRows(a, st) = f[Len(st.keys)]
<1>1. PICK n \in Nat : n = Len(st.keys) /\ \A i \in 1 .. n : st.keys[i] \in RowKeys
  BY StatementFields
<1> DEFINE Def(f) == f = [m \in 0 .. n |-> IF m = 0 THEN a ELSE Feeds!InsertNext(f[m - 1], st, st.keys[m])]
           step == [i \in 1 .. n |-> [x \in Accs |-> Feeds!InsertNext(x, st, st.keys[i])]]
           run == CHOOSE f : Def(f)
<1>2. \A i \in 1 .. n, x \in Accs : Feeds!InsertNext(x, st, st.keys[i]) \in Accs
  BY <1>1, InsertNextKeeps
<1>3. step \in [1 .. n -> [Accs -> Accs]] /\ \A i \in 1 .. n, x \in Accs : step[i][x] = Feeds!InsertNext(x, st, st.keys[i])
  BY <1>2
<1>4. PICK g : RunsLoop(g, Accs, a, step, n)
  <2> HIDE DEF step
  <2> QED
    BY <1>3, LoopExists
<1>5. Def(g)
  <2>1. g \in [0 .. n -> Accs] /\ g[0] = a /\ \A i \in 1 .. n : g[i] = step[i][g[i - 1]]
    BY <1>4 DEF RunsLoop
  <2>2. ASSUME NEW i \in 1 .. n
        PROVE  g[i] = Feeds!InsertNext(g[i - 1], st, st.keys[i])
    <3> HIDE DEF step
    <3>1. PICK x \in Accs : x = g[i - 1]
      BY <2>1
    <3> QED
      BY <1>3, <2>1, <3>1
  <2> QED
    BY <2>1, <2>2
<1>6. Def(run)
  BY <1>5
<1>7. Feeds!InsertRows(a, st) = run[n]
  BY <1>1 DEF Feeds!InsertRows
<1> HIDE DEF run
<1>8. Inserting(run, a, st)
  BY <1>1, <1>6 DEF Inserting
<1> QED
  BY <1>1, <1>7, <1>8

\* An INSERT, REPLACE or INSERT IGNORE keeps the shape of the table, also when it throws at a
\* later row; what an INSERT has added is at the end.
LEMMA InsertRowsKeeps ==
  ASSUME NEW a \in Accs, NEW st \in Feeds!Statement
  PROVE  LET b == Feeds!InsertRows(a, st)
         IN  b \in Accs /\ (Once(a.rows) => Once(b.rows)) /\ (st.type = "INSERT" => Grown(b.rows, a.rows))
<1>1. PICK n \in Nat : n = Len(st.keys) /\ \A i \in 1 .. n : st.keys[i] \in RowKeys
  BY StatementFields
<1>2. PICK f : Inserting(f, a, st) /\ Feeds!InsertRows(a, st) = f[n]
  BY <1>1, InsertRowsReads
<1> DEFINE G == {b \in Accs : (Once(a.rows) => Once(b.rows)) /\ (st.type = "INSERT" => Grown(b.rows, a.rows))}
<1>3. f[0] \in G
  <2>1. Grown(a.rows, a.rows)
    BY AccFields DEF Grown
  <2> QED
    BY <1>2, <2>1 DEF Inserting
<1>4. ASSUME NEW i \in 1 .. n, f[i - 1] \in G
      PROVE  f[i] \in G
  <2>1. PICK x \in Accs : x = f[i - 1] /\ x \in G
    BY <1>4
  <2>2. PICK y : y = Feeds!InsertNext(x, st, st.keys[i])
    OBVIOUS
  <2>3. y \in Accs /\ (Once(x.rows) => Once(y.rows)) /\ (st.type = "INSERT" => Grown(y.rows, x.rows))
    BY <1>1, <2>2, InsertNextKeeps
  <2>4. ASSUME Grown(y.rows, x.rows), Grown(x.rows, a.rows)
        PROVE  Grown(y.rows, a.rows)
    <3>1. Len(x.rows) \in Nat /\ Len(y.rows) \in Nat /\ Len(a.rows) \in Nat
      BY <2>3, AccFields
    <3> QED
      BY <2>4, <3>1 DEF Grown
  <2>5. f[i] = y
    BY <1>1, <1>2, <2>1, <2>2 DEF Inserting
  <2> QED
    BY <2>1, <2>3, <2>4, <2>5
<1>5. \A i \in 0 .. n : f[i] \in G
  <2> HIDE DEF G
  <2> QED
    BY <1>3, <1>4, LoopKeeps
<1> QED
  BY <1>2, <1>5

\* UPDATE of a row.
LEMMA UpdatedRowKeeps ==
  ASSUME NEW r \in Feeds!Version, NEW st \in Feeds!Statement
  PROVE  LET u == Feeds!UpdatedRow(st, r)
         IN  /\ u \in Feeds!Version /\ u.key = r.key /\ u.dead = r.dead
             /\ u.val = IF ~Feeds!Matches(st, r) THEN r.val
                        ELSE IF st.expr THEN Feeds!EvalSetExpr(r.val) ELSE st.val
<1>1. r = [key |-> r.key, val |-> r.val, dead |-> r.dead] /\ r.key \in RowKeys /\ r.val \in 1 .. NVals /\ r.dead \in BOOLEAN
  BY VersionFields
<1>2. Feeds!EvalSetExpr(r.val) \in 1 .. NVals
  BY <1>1, FeedsAssumption DEF Feeds!EvalSetExpr
<1>3. st.val \in 1 .. NVals
  BY StatementFields
<1> HIDE DEF Feeds!EvalSetExpr
<1> QED
  BY <1>1, <1>2, <1>3, VersionFields DEF Feeds!UpdatedRow

\* Rows of one key match alike.
LEMMA MatchesByKey ==
  ASSUME NEW st, NEW r, NEW q, r.key = q.key
  PROVE  Feeds!Matches(st, r) <=> Feeds!Matches(st, q)
  BY DEF Feeds!Matches

\* UPDATE keeps the shape of the table.
LEMMA UpdateKeeps ==
  ASSUME NEW rs \in Seq(Feeds!Version), NEW st \in Feeds!Statement,
         NEW us, us = [i \in DOMAIN rs |-> Feeds!UpdatedRow(st, rs[i])]
  PROVE  us \in Seq(Feeds!Version) /\ (Once(rs) => Once(us))
<1>1. DOMAIN rs = 1 .. Len(rs) /\ Len(rs) \in Nat /\ \A i \in DOMAIN rs : rs[i] \in Feeds!Version
  OBVIOUS
<1>2. \A i \in DOMAIN rs : us[i] = Feeds!UpdatedRow(st, rs[i]) /\ us[i] \in Feeds!Version
  BY <1>1, UpdatedRowKeeps
<1>3. us \in Seq(Feeds!Version) /\ DOMAIN us = DOMAIN rs
  BY <1>1, <1>2
<1>4. ASSUME Once(rs), NEW i \in DOMAIN us, NEW j \in DOMAIN us,
             ~us[i].dead, ~us[j].dead, us[i].key = us[j].key
      PROVE  us[i].val = us[j].val
  <2>1. PICK r \in Feeds!Version : r = rs[i]
    BY <1>1, <1>3
  <2>2. PICK q \in Feeds!Version : q = rs[j]
    BY <1>1, <1>3
  <2>3. /\ us[i].key = r.key /\ us[i].dead = r.dead
        /\ us[i].val = IF ~Feeds!Matches(st, r) THEN r.val
                       ELSE IF st.expr THEN Feeds!EvalSetExpr(r.val) ELSE st.val
    BY <1>2, <1>3, <2>1, UpdatedRowKeeps
  <2>4. /\ us[j].key = q.key /\ us[j].dead = q.dead
        /\ us[j].val = IF ~Feeds!Matches(st, q) THEN q.val
                       ELSE IF st.expr THEN Feeds!EvalSetExpr(q.val) ELSE st.val
    BY <1>2, <1>3, <2>2, UpdatedRowKeeps
  <2>5. r.val = q.val
    BY <1>3, <1>4, <2>1, <2>2, <2>3, <2>4 DEF Once
  <2>6. Feeds!Matches(st, r) <=> Feeds!Matches(st, q)
    BY <1>4, <2>3, <2>4, MatchesByKey
  <2> QED
    BY <2>3, <2>4, <2>5, <2>6
<1> QED
  BY <1>3, <1>4 DEF Once

\* A statement outside a transaction keeps the shape of the table.
LEMMA ExecutedKeeps ==
  ASSUME NEW a \in Accs, NEW st \in Feeds!Statement
  PROVE  Feeds!Executed(a, st) \in Accs /\ (Once(a.rows) => Once(Feeds!Executed(a, st).rows))
<1>1. PICK rs \in Seq(Feeds!Version) : rs = a.rows
  BY AccFields
<1>2. CASE st.type \in {"INSERT", "REPLACE", "IGNORE"}
  <2>1. Feeds!Executed(a, st) = Feeds!InsertRows(a, st)
    BY <1>2 DEF Feeds!Executed
  <2> QED
    BY <2>1, InsertRowsKeeps
<1>3. CASE st.type = "UPDATE"
  <2>1. PICK us : us = [i \in DOMAIN rs |-> Feeds!UpdatedRow(st, rs[i])]
    OBVIOUS
  <2>2. Feeds!Executed(a, st) = [a EXCEPT !.rows = us]
    BY <1>1, <1>3, <2>1 DEF Feeds!Executed
  <2>3. us \in Seq(Feeds!Version) /\ (Once(rs) => Once(us))
    BY <2>1, UpdateKeeps
  <2> QED
    BY <1>1, <2>2, <2>3, AccFields
<1>4. CASE st.type \in {"DELETE", "TRUNCATE"}
  <2>1. PICK P \in SUBSET DOMAIN rs : P = DOMAIN rs \ Feeds!Matching(rs, st)
    OBVIOUS
  <2>2. PICK us : us = Feeds!Picked(rs, P)
    OBVIOUS
  <2>3. Feeds!Executed(a, st) = [a EXCEPT !.rows = us]
    BY <1>1, <1>4, <2>1, <2>2 DEF Feeds!Executed
  <2>4. us \in Seq(Feeds!Version) /\ (Once(rs) => Once(us))
    BY <2>2, PickedOnce
  <2> QED
    BY <1>1, <2>3, <2>4, AccFields
<1> QED
  BY <1>2, <1>3, <1>4, StatementFields

\* Marking rows as deleted keeps the shape of the table.
LEMMA MarkKeeps ==
  ASSUME NEW rs \in Seq(Feeds!Version), NEW st,
         NEW us, us = [i \in DOMAIN rs |-> Feeds!MarkedRow(st, rs[i])]
  PROVE  us \in Seq(Feeds!Version) /\ (Once(rs) => Once(us))
<1>1. DOMAIN rs = 1 .. Len(rs) /\ Len(rs) \in Nat /\ \A i \in DOMAIN rs : rs[i] \in Feeds!Version
  OBVIOUS
<1>2. ASSUME NEW r \in Feeds!Version
      PROVE  LET u == Feeds!MarkedRow(st, r)
             IN  u \in Feeds!Version /\ u.key = r.key /\ u.val = r.val /\ (~u.dead => ~r.dead)
  <2>1. PICK b \in BOOLEAN : b = (r.dead \/ (Feeds!AsWritten(st) /\ Feeds!Matches(st, r)))
    BY DEF Feeds!Matches
  <2>2. Feeds!MarkedRow(st, r) = [r EXCEPT !.dead = b]
    BY <2>1 DEF Feeds!MarkedRow
  <2> QED
    BY <2>1, <2>2 DEF Feeds!Version
<1>3. \A i \in DOMAIN rs : /\ us[i] \in Feeds!Version /\ us[i].key = rs[i].key /\ us[i].val = rs[i].val
                           /\ ~us[i].dead => ~rs[i].dead
  BY <1>1, <1>2
<1>4. us \in Seq(Feeds!Version) /\ DOMAIN us = DOMAIN rs
  BY <1>1, <1>3
<1> QED
  BY <1>3, <1>4 DEF Once

\* An operation of a COMMIT keeps the shape of the table.
LEMMA AppliedKeeps ==
  ASSUME NEW a \in Accs, NEW st \in Feeds!Statement
  PROVE  Feeds!Applied(a, st) \in Accs /\ (Once(a.rows) => Once(Feeds!Applied(a, st).rows))
<1>1. PICK rs \in Seq(Feeds!Version) : rs = a.rows
  BY AccFields
<1>2. CASE a.ok /\ st.type = "DELETE"
  <2>1. PICK us : us = [i \in DOMAIN rs |-> Feeds!MarkedRow(st, rs[i])]
    OBVIOUS
  <2>2. Feeds!Applied(a, st) = [a EXCEPT !.rows = us]
    BY <1>1, <1>2, <2>1 DEF Feeds!Applied
  <2>3. us \in Seq(Feeds!Version) /\ (Once(rs) => Once(us))
    BY <2>1, MarkKeeps
  <2> QED
    BY <1>1, <2>2, <2>3, AccFields
<1>3. CASE ~(a.ok /\ st.type = "DELETE")
  <2>1. Feeds!Applied(a, st) = a \/ Feeds!Applied(a, st) = Feeds!Executed(a, st)
    BY <1>3 DEF Feeds!Applied
  <2> QED
    BY <2>1, ExecutedKeeps
<1> QED
  BY <1>2, <1>3

\* What a statement or a COMMIT starts from.
LEMMA StartFacts ==
  ASSUME NEW rs \in Seq(Feeds!Version)
  PROVE  Feeds!Start(rs) \in Accs /\ Feeds!Start(rs).rows = rs /\ Feeds!Start(rs).ok
  BY DEF Feeds!Start, Accs

\* A COMMIT keeps the shape of the table, also when it throws.
LEMMA ApplyAllKeeps ==
  ASSUME NEW rs \in Seq(Feeds!Version), Once(rs), NEW ops \in Seq(Feeds!Statement)
  PROVE  Feeds!ApplyAll(rs, ops) \in Accs /\ Once(Feeds!ApplyAll(rs, ops).rows)
<1>1. PICK n \in Nat : n = Len(ops) /\ \A i \in 1 .. n : ops[i] \in Feeds!Statement
  OBVIOUS
<1>2. PICK a \in Accs : a = Feeds!Start(rs) /\ a.rows = rs
  BY StartFacts
<1> DEFINE Def(f) == f = [m \in 0 .. n |-> IF m = 0 THEN a ELSE Feeds!Applied(f[m - 1], ops[m])]
           step == [i \in 1 .. n |-> [x \in Accs |-> Feeds!Applied(x, ops[i])]]
           run == CHOOSE f : Def(f)
           G == {x \in Accs : Once(x.rows)}
<1>3. \A i \in 1 .. n, x \in Accs : Feeds!Applied(x, ops[i]) \in Accs
  BY <1>1, AppliedKeeps
<1>4. step \in [1 .. n -> [Accs -> Accs]] /\ \A i \in 1 .. n, x \in Accs : step[i][x] = Feeds!Applied(x, ops[i])
  BY <1>3
<1>5. PICK g : RunsLoop(g, Accs, a, step, n)
  <2> HIDE DEF step
  <2> QED
    BY <1>4, LoopExists
<1>6. Def(g)
  <2>1. g \in [0 .. n -> Accs] /\ g[0] = a /\ \A i \in 1 .. n : g[i] = step[i][g[i - 1]]
    BY <1>5 DEF RunsLoop
  <2>2. ASSUME NEW i \in 1 .. n
        PROVE  g[i] = Feeds!Applied(g[i - 1], ops[i])
    <3> HIDE DEF step
    <3>1. PICK x \in Accs : x = g[i - 1]
      BY <2>1
    <3> QED
      BY <1>4, <2>1, <3>1
  <2> QED
    BY <2>1, <2>2
<1>7. Def(run)
  BY <1>6
<1>8. Feeds!ApplyAll(rs, ops) = run[n]
  BY <1>1, <1>2 DEF Feeds!ApplyAll
<1> HIDE DEF run
<1>9. run[0] = a /\ \A i \in 1 .. n : run[i] = Feeds!Applied(run[i - 1], ops[i])
  BY <1>7
<1>10. run[0] \in G
  BY <1>2, <1>9
<1>11. ASSUME NEW i \in 1 .. n, run[i - 1] \in G
       PROVE  run[i] \in G
  <2>1. PICK x \in Accs : x = run[i - 1] /\ Once(x.rows)
    BY <1>11
  <2>2. Feeds!Applied(x, ops[i]) \in G
    BY <1>1, <2>1, AppliedKeeps
  <2> QED
    BY <1>9, <2>1, <2>2
<1>12. \A i \in 0 .. n : run[i] \in G
  <2> HIDE DEF G
  <2> QED
    BY <1>10, <1>11, LoopKeeps
<1> QED
  BY <1>8, <1>12
-----------------------------------------------------------------------------
\* f holds the rows of a replica after each statement of a binlog.
Replicating(f, log) ==
  /\ f[0] = Loaded
  /\ \A i \in 1 .. Len(log) : f[i] = Feeds!Executed(Feeds!Start(f[i - 1]), log[i]).rows

\* A statement gives rows again.
LEMMA ExecutedRows ==
  ASSUME NEW rs \in Seq(Feeds!Version), NEW st \in Feeds!Statement
  PROVE  /\ Feeds!Executed(Feeds!Start(rs), st) \in Accs
         /\ Feeds!Executed(Feeds!Start(rs), st).rows \in Seq(Feeds!Version)
         /\ Feeds!Executed(Feeds!Start(rs), st).ok \in BOOLEAN
         /\ Once(rs) => Once(Feeds!Executed(Feeds!Start(rs), st).rows)
<1>1. PICK a \in Accs : a = Feeds!Start(rs) /\ a.rows = rs
  BY StartFacts
<1>2. PICK b \in Accs : b = Feeds!Executed(a, st) /\ (Once(a.rows) => Once(b.rows))
  BY ExecutedKeeps
<1> QED
  BY <1>1, <1>2, AccFields

\* The replica's loop can be run.
LEMMA ReplicaReads ==
  ASSUME NEW log \in Seq(Feeds!Statement)
  PROVE  \E f : Replicating(f, log) /\ Feeds!ReplicaRows(log) = f[Len(log)]
<1>1. PICK n \in Nat : n = Len(log) /\ \A i \in 1 .. n : log[i] \in Feeds!Statement
  OBVIOUS
<1> DEFINE S == Seq(Feeds!Version)
           Turn(x, i) == Feeds!Executed(Feeds!Start(x), log[i]).rows
           Def(f) == f = [m \in 0 .. n |-> IF m = 0 THEN Loaded ELSE Feeds!Executed(Feeds!Start(f[m - 1]), log[m]).rows]
           step == [i \in 1 .. n |-> [x \in S |-> Turn(x, i)]]
           run == CHOOSE f : Def(f)
<1>2. \A i \in 1 .. n, x \in S : Turn(x, i) \in S
  BY <1>1, ExecutedRows
<1>3. step \in [1 .. n -> [S -> S]] /\ \A i \in 1 .. n, x \in S : step[i][x] = Turn(x, i)
  <2> HIDE DEF Turn, S
  <2> QED
    BY <1>2
<1>4. PICK g : RunsLoop(g, S, Loaded, step, n)
  <2>1. Loaded \in S
    BY FeedsAssumption
  <2> HIDE DEF step, S
  <2> QED
    BY <1>3, <2>1, LoopExists
<1>5. Def(g)
  <2>1. g \in [0 .. n -> S] /\ g[0] = Loaded /\ \A i \in 1 .. n : g[i] = step[i][g[i - 1]]
    BY <1>4 DEF RunsLoop
  <2>2. ASSUME NEW i \in 1 .. n
        PROVE  g[i] = Turn(g[i - 1], i)
    <3> HIDE DEF step, S, Turn
    <3>1. PICK x \in S : x = g[i - 1]
      BY SMTT(40), <2>1
    <3> QED
      BY <1>3, <2>1, <3>1
  <2> HIDE DEF step, S
  <2> QED
    BY <2>1, <2>2
<1>6. Def(run)
  BY <1>5
<1>7. Feeds!ReplicaRows(log) = run[n]
  BY <1>1 DEF Feeds!ReplicaRows
<1> HIDE DEF run
<1>8. Replicating(run, log)
  BY <1>1, <1>6 DEF Replicating
<1> QED
  BY <1>1, <1>7, <1>8

\* A replica that has the table and executes one more statement.
LEMMA ReplicaAppend ==
  ASSUME NEW log \in Seq(Feeds!Statement), NEW st \in Feeds!Statement
  PROVE  Feeds!ReplicaRows(Append(log, st)) = Feeds!Executed(Feeds!Start(Feeds!ReplicaRows(log)), st).rows
<1>1. PICK n \in Nat : n = Len(log)
  OBVIOUS
<1>2. PICK more \in Seq(Feeds!Statement) :
        /\ more = Append(log, st) /\ Len(more) = n + 1 /\ more[n + 1] = st
        /\ \A i \in 1 .. n : more[i] = log[i]
  <2>1. /\ Append(log, st) \in Seq(Feeds!Statement) /\ Len(Append(log, st)) = n + 1
        /\ Append(log, st)[n + 1] = st /\ \A i \in 1 .. n : Append(log, st)[i] = log[i]
    BY <1>1
  <2> QED
    BY <2>1
<1>3. PICK f : Replicating(f, log) /\ Feeds!ReplicaRows(log) = f[n]
  BY <1>1, ReplicaReads
<1>4. PICK g : Replicating(g, more) /\ Feeds!ReplicaRows(more) = g[n + 1]
  BY <1>2, ReplicaReads
<1>5. f[0] = g[0]
  BY <1>3, <1>4 DEF Replicating
<1>6. ASSUME NEW i \in 1 .. n, f[i - 1] = g[i - 1]
      PROVE  f[i] = g[i]
  <2>1. i \in 1 .. Len(log) /\ i \in 1 .. Len(more) /\ more[i] = log[i]
    BY <1>1, <1>2
  <2> QED
    BY <1>3, <1>4, <1>6, <2>1 DEF Replicating
<1>7. f[n] = g[n]
  <2>1. GoAlike(f, g, n)
    BY <1>5, <1>6 DEF GoAlike
  <2>2. \A i \in 0 .. n : f[i] = g[i]
    BY <2>1, LoopSame
  <2> QED
    BY <2>2
<1>8. g[n + 1] = Feeds!Executed(Feeds!Start(g[n]), st).rows
  <2>1. n + 1 \in 1 .. Len(more) /\ (n + 1) - 1 = n
    BY <1>2
  <2> QED
    BY <1>2, <1>4, <2>1 DEF Replicating
<1> QED
  BY <1>2, <1>3, <1>4, <1>7, <1>8

\* An empty binlog leaves the table as it was loaded.
LEMMA ReplicaBegins == Feeds!ReplicaRows(<<>>) = Loaded
<1>1. <<>> \in Seq(Feeds!Statement) /\ Len(<<>>) = 0
  OBVIOUS
<1>2. PICK f : Replicating(f, <<>>) /\ Feeds!ReplicaRows(<<>>) = f[0]
  BY <1>1, ReplicaReads
<1> QED
  BY <1>2 DEF Replicating
-----------------------------------------------------------------------------
FeedEvents == [old : SUBSET Feeds!Image, new : SUBSET Feeds!Image]

\* f holds what a reader has after each event.
Following(f, start, evs) ==
  /\ f[0] = start
  /\ \A i \in 1 .. Len(evs) : f[i] = Feeds!Followed(f[i - 1], evs[i])

\* An event takes a set of rows to a set of rows.
LEMMA FollowedRows ==
  ASSUME NEW x \in SUBSET Feeds!Image, NEW e \in FeedEvents
  PROVE  Feeds!Followed(x, e) \in SUBSET Feeds!Image
<1>1. e.new \in SUBSET Feeds!Image
  BY DEF FeedEvents
<1> QED
  BY <1>1 DEF Feeds!Followed

\* The reader's loop can be run.
LEMMA FollowReads ==
  ASSUME NEW start \in SUBSET Feeds!Image, NEW evs \in Seq(FeedEvents)
  PROVE  \E f : /\ Following(f, start, evs) /\ Feeds!FollowAll(start, evs) = f[Len(evs)]
                /\ Feeds!FollowAll(start, evs) \in SUBSET Feeds!Image
<1>1. PICK n \in Nat : n = Len(evs) /\ \A i \in 1 .. n : evs[i] \in FeedEvents
  OBVIOUS
<1> DEFINE S == SUBSET Feeds!Image
           Def(f) == f = [m \in 0 .. n |-> IF m = 0 THEN start ELSE Feeds!Followed(f[m - 1], evs[m])]
           step == [i \in 1 .. n |-> [x \in S |-> Feeds!Followed(x, evs[i])]]
           run == CHOOSE f : Def(f)
<1>2. \A i \in 1 .. n, x \in S : Feeds!Followed(x, evs[i]) \in S
  BY <1>1, FollowedRows
<1>3. step \in [1 .. n -> [S -> S]] /\ \A i \in 1 .. n, x \in S : step[i][x] = Feeds!Followed(x, evs[i])
  <2> HIDE DEF S
  <2> QED
    BY <1>2
<1>4. PICK g : RunsLoop(g, S, start, step, n)
  <2>1. start \in S
    OBVIOUS
  <2> HIDE DEF step, S
  <2> QED
    BY <1>3, <2>1, LoopExists
<1>5. Def(g)
  <2>1. g \in [0 .. n -> S] /\ g[0] = start /\ \A i \in 1 .. n : g[i] = step[i][g[i - 1]]
    BY <1>4 DEF RunsLoop
  <2>2. ASSUME NEW i \in 1 .. n
        PROVE  g[i] = Feeds!Followed(g[i - 1], evs[i])
    <3> HIDE DEF step, S
    <3>1. PICK x \in S : x = g[i - 1]
      BY <2>1
    <3> QED
      BY <1>3, <2>1, <3>1
  <2> HIDE DEF step, S
  <2> QED
    BY <2>1, <2>2
<1>6. Def(run)
  BY <1>5
<1>7. Feeds!FollowAll(start, evs) = run[n]
  BY <1>1 DEF Feeds!FollowAll
<1> HIDE DEF run
<1>8. run[0] = start /\ \A i \in 1 .. n : run[i] = Feeds!Followed(run[i - 1], evs[i])
  BY <1>6
<1>9. \A i \in 0 .. n : run[i] \in S
  <2>1. run[0] \in S
    BY <1>8
  <2>2. \A i \in 1 .. n : run[i - 1] \in S => run[i] \in S
    <3> HIDE DEF S
    <3> QED
      BY <1>2, <1>8
  <2> HIDE DEF S
  <2> QED
    BY <2>1, <2>2, LoopKeeps
<1>10. Following(run, start, evs)
  BY <1>1, <1>8 DEF Following
<1> QED
  BY <1>1, <1>7, <1>9, <1>10

\* A reader goes on with further events from what it has.
LEMMA FollowGoesOn ==
  ASSUME NEW start \in SUBSET Feeds!Image, NEW evs \in Seq(FeedEvents), NEW more \in Seq(FeedEvents)
  PROVE  Feeds!FollowAll(start, evs \o more) = Feeds!FollowAll(Feeds!FollowAll(start, evs), more)
<1>1. PICK m \in Nat : m = Len(evs)
  OBVIOUS
<1>2. PICK n \in Nat : n = Len(more)
  OBVIOUS
<1>3. PICK both \in Seq(FeedEvents) :
        /\ both = evs \o more /\ Len(both) = m + n
        /\ \A i \in 1 .. m : both[i] = evs[i]
        /\ \A i \in 1 .. n : both[m + i] = more[i]
  <2>1. evs \o more \in Seq(FeedEvents)
    OBVIOUS
  <2>2. /\ Len(evs \o more) = m + n /\ \A i \in 1 .. m : (evs \o more)[i] = evs[i]
        /\ \A i \in 1 .. n : (evs \o more)[m + i] = more[i]
    BY <1>1, <1>2
  <2> QED
    BY <2>1, <2>2
<1>4. PICK f : Following(f, start, both) /\ Feeds!FollowAll(start, both) = f[m + n]
  <2>1. PICK f : Following(f, start, both) /\ Feeds!FollowAll(start, both) = f[Len(both)]
    BY FollowReads
  <2> QED
    BY <1>3, <2>1
<1>5. PICK g : /\ Following(g, start, evs) /\ Feeds!FollowAll(start, evs) = g[m]
               /\ Feeds!FollowAll(start, evs) \in SUBSET Feeds!Image
  BY <1>1, FollowReads
<1>6. PICK h : Following(h, g[m], more) /\ Feeds!FollowAll(g[m], more) = h[n]
  BY <1>2, <1>5, FollowReads
<1>7. \A i \in 0 .. m : f[i] = g[i]
  <2>1. f[0] = g[0]
    BY <1>4, <1>5 DEF Following
  <2>2. ASSUME NEW i \in 1 .. m, f[i - 1] = g[i - 1]
        PROVE  f[i] = g[i]
    <3>1. i \in 1 .. Len(both) /\ i \in 1 .. Len(evs) /\ both[i] = evs[i]
      BY <1>1, <1>3
    <3> QED
      BY <1>4, <1>5, <2>2, <3>1 DEF Following
  <2>3. GoAlike(f, g, m)
    BY <2>1, <2>2 DEF GoAlike
  <2> QED
    BY <2>3, LoopSame
<1> DEFINE k == [i \in 0 .. n |-> f[m + i]]
<1>8. \A i \in 0 .. n : k[i] = h[i]
  <2>1. k[0] = h[0]
    BY <1>6, <1>7 DEF Following
  <2>2. ASSUME NEW i \in 1 .. n, k[i - 1] = h[i - 1]
        PROVE  k[i] = h[i]
    <3>1. m + i \in 1 .. Len(both) /\ both[m + i] = more[i] /\ i \in 1 .. Len(more)
      BY <1>2, <1>3
    <3>2. k[i] = f[m + i] /\ k[i - 1] = f[(m + i) - 1]
      OBVIOUS
    <3>3. f[m + i] = Feeds!Followed(f[(m + i) - 1], both[m + i])
      BY <1>4, <3>1 DEF Following
    <3>4. h[i] = Feeds!Followed(h[i - 1], more[i])
      BY <1>6, <3>1 DEF Following
    <3> QED
      BY <2>2, <3>1, <3>2, <3>3, <3>4
  <2> HIDE DEF k
  <2>3. GoAlike(k, h, n)
    BY <2>1, <2>2 DEF GoAlike
  <2> QED
    BY <2>3, LoopSame
<1>9. k[n] = f[m + n] /\ k[n] = h[n]
  BY <1>8
<1> QED
  BY <1>3, <1>4, <1>5, <1>6, <1>9

\* Without events a reader has what it began with.
LEMMA FollowNothing ==
  ASSUME NEW start \in SUBSET Feeds!Image
  PROVE  Feeds!FollowAll(start, <<>>) = start
<1>1. <<>> \in Seq(FeedEvents) /\ Len(<<>>) = 0
  OBVIOUS
<1>2. PICK f : Following(f, start, <<>>) /\ Feeds!FollowAll(start, <<>>) = f[0]
  BY <1>1, FollowReads
<1> QED
  BY <1>2 DEF Following
-----------------------------------------------------------------------------
\* No two rows of a set have one key.
OneEach(V) == \A a, b \in V : a.key = b.key => a = b

\* What a SELECT shows.
LEMMA VisibleIs ==
  ASSUME NEW rs, NEW x
  PROVE  x \in Feeds!Visible(rs) <=>
           \E i \in DOMAIN rs : ~rs[i].dead /\ x = [key |-> rs[i].key, val |-> rs[i].val]
  BY DEF Feeds!Visible, Feeds!ImageOf

\* The rows a SELECT shows are rows, of one value for a key.
LEMMA VisibleRows ==
  ASSUME NEW rs \in Seq(Feeds!Version)
  PROVE  /\ Feeds!Visible(rs) \in SUBSET Feeds!Image
         /\ Once(rs) <=> OneEach(Feeds!Visible(rs))
<1>1. \A i \in DOMAIN rs : rs[i].key \in RowKeys /\ rs[i].val \in 1 .. NVals
  BY VersionFields
<1>2. ASSUME NEW x \in Feeds!Visible(rs)
      PROVE  x \in Feeds!Image
  <2>1. PICK i \in DOMAIN rs : x = [key |-> rs[i].key, val |-> rs[i].val]
    BY VisibleIs
  <2> QED
    BY <1>1, <2>1 DEF Feeds!Image, Feeds!Values
<1>3. ASSUME Once(rs), NEW a \in Feeds!Visible(rs), NEW b \in Feeds!Visible(rs), a.key = b.key
      PROVE  a = b
  <2>1. PICK i \in DOMAIN rs : ~rs[i].dead /\ a = [key |-> rs[i].key, val |-> rs[i].val]
    BY VisibleIs
  <2>2. PICK j \in DOMAIN rs : ~rs[j].dead /\ b = [key |-> rs[j].key, val |-> rs[j].val]
    BY VisibleIs
  <2>3. rs[i].key = rs[j].key
    BY <1>3, <2>1, <2>2
  <2>4. rs[i].val = rs[j].val
    BY <1>3, <2>1, <2>2, <2>3 DEF Once
  <2> QED
    BY <2>1, <2>2, <2>3, <2>4
<1>4. ASSUME OneEach(Feeds!Visible(rs)), NEW i \in DOMAIN rs, NEW j \in DOMAIN rs,
             ~rs[i].dead, ~rs[j].dead, rs[i].key = rs[j].key
      PROVE  rs[i].val = rs[j].val
  <2>1. PICK a : a = [key |-> rs[i].key, val |-> rs[i].val]
    OBVIOUS
  <2>2. PICK b : b = [key |-> rs[j].key, val |-> rs[j].val]
    OBVIOUS
  <2>3. a \in Feeds!Visible(rs) /\ b \in Feeds!Visible(rs)
    BY <1>4, <2>1, <2>2, VisibleIs
  <2>4. a.key = b.key /\ a.val = rs[i].val /\ b.val = rs[j].val
    BY <1>4, <2>1, <2>2
  <2>5. a = b
    BY <1>4, <2>3, <2>4 DEF OneEach
  <2> QED
    BY <2>4, <2>5
<1> QED
  BY <1>2, <1>3, <1>4 DEF Once, OneEach

\* A loop that selects rows finds all that are selected.
LEMMA PickedFinds ==
  ASSUME NEW V, NEW s \in Seq(V), NEW P \in SUBSET DOMAIN s
  PROVE  /\ Feeds!Picked(s, P) \in Seq(V)
         /\ \A i \in DOMAIN Feeds!Picked(s, P) : \E j \in P : Feeds!Picked(s, P)[i] = s[j]
         /\ \A j \in P : \E i \in DOMAIN Feeds!Picked(s, P) : Feeds!Picked(s, P)[i] = s[j]
<1> DEFINE p == Picked(s, P)
           a == Ascending(P)
<1>1. IsFiniteSet(P) /\ P \in SUBSET Nat
  BY PickedReads
<1>2. p \in Seq(V) /\ Len(p) = Cardinality(P) /\ DOMAIN p = 1 .. Len(p) /\ \A i \in DOMAIN p : a[i] \in P /\ p[i] = s[a[i]]
  BY PickedFrom
<1>3. \A x \in P : \E i \in 1 .. Cardinality(P) : a[i] = x
  BY <1>1, AscendingLists
<1>4. Feeds!Picked(s, P) = p
  BY FeedsPicked
<1> HIDE DEF p, a
<1>5. \A j \in P : \E i \in DOMAIN p : p[i] = s[j]
  BY <1>2, <1>3
<1>6. \A i \in DOMAIN p : \E j \in P : p[i] = s[j]
  BY <1>2
<1> QED
  BY <1>2, <1>4, <1>5, <1>6

\* The events of an INSERT: a row of new for each of n events, from the first after m on.
InsertEvents(recs, new, m, n) ==
  Len(recs) = n /\ \A i \in 1 .. n : recs[i].old = {} /\ recs[i].new = {Feeds!ImageOf(new[m + i])}

\* The events of an INSERT: nothing becomes a row.
LEMMA FollowInsert ==
  ASSUME NEW rs \in Seq(Feeds!Version), NEW new \in Seq(Feeds!Version), Grown(new, rs),
         NEW n \in Nat, Len(new) = Len(rs) + n,
         NEW recs \in Seq(FeedEvents), InsertEvents(recs, new, Len(rs), n)
  PROVE  Feeds!FollowAll(Feeds!Visible(rs), recs) = Feeds!Visible(new)
<1> USE DEF InsertEvents
<1>1. PICK m \in Nat : m = Len(rs) /\ DOMAIN rs = 1 .. m
  OBVIOUS
<1>2. PICK k \in Nat : k = Len(new) /\ DOMAIN new = 1 .. k /\ k = m + n
  BY <1>1
<1>3. (\A i \in 1 .. m : new[i] = rs[i]) /\ \A i \in m + 1 .. k : ~new[i].dead
  BY <1>1, <1>2 DEF Grown
<1> DEFINE Im(i) == Feeds!ImageOf(new[i])
<1>7. \A i \in 1 .. n : recs[i].old = {} /\ recs[i].new = {Im(m + i)}
  BY <1>1
<1> HIDE DEF Im
<1>10. Feeds!Visible(rs) \in SUBSET Feeds!Image
  BY VisibleRows
<1>11. PICK f : Following(f, Feeds!Visible(rs), recs) /\ Feeds!FollowAll(Feeds!Visible(rs), recs) = f[n]
  BY <1>10, FollowReads
<1> DEFINE g == [i \in 0 .. n |-> Feeds!Visible(rs) \cup {Im(m + j) : j \in 1 .. i}]
<1>12. g[0] = f[0]
  BY <1>11 DEF Following
<1>13. ASSUME NEW i \in 1 .. n, f[i - 1] = g[i - 1]
       PROVE  f[i] = g[i]
  <2>1. f[i] = Feeds!Followed(f[i - 1], recs[i])
    BY <1>11 DEF Following
  <2>2. Feeds!Followed(f[i - 1], recs[i]) = f[i - 1] \cup {Im(m + i)}
    BY <1>7 DEF Feeds!Followed
  <2>3. 1 .. i = (1 .. (i - 1)) \cup {i}
    OBVIOUS
  <2>4. g[i] = g[i - 1] \cup {Im(m + i)}
    BY <2>3
  <2> QED
    BY <1>13, <2>1, <2>2, <2>4
<1>14. f[n] = g[n]
  <2> HIDE DEF g
  <2>1. GoAlike(f, g, n)
    BY <1>12, <1>13 DEF GoAlike
  <2>2. \A i \in 0 .. n : f[i] = g[i]
    BY <2>1, LoopSame
  <2> QED
    BY <2>2
<1>15. ASSUME NEW x
       PROVE  x \in g[n] <=> x \in Feeds!Visible(new)
  <2>1. x \in g[n] <=> x \in Feeds!Visible(rs) \/ \E j \in 1 .. n : x = Im(m + j)
    OBVIOUS
  <2>2. x \in Feeds!Visible(new) <=> \E i \in 1 .. k : ~new[i].dead /\ x = Im(i)
    BY <1>2 DEF Feeds!Visible, Im
  <2>3. x \in Feeds!Visible(rs) <=> \E i \in 1 .. m : ~new[i].dead /\ x = Im(i)
    BY <1>1, <1>3 DEF Feeds!Visible, Im
  <2>4. ASSUME NEW i \in 1 .. k, ~new[i].dead, x = Im(i), i \notin 1 .. m
        PROVE  \E j \in 1 .. n : x = Im(m + j)
    <3>1. i - m \in 1 .. n /\ m + (i - m) = i
      BY <1>2, <2>4
    <3> QED
      BY <2>4, <3>1
  <2>5. ASSUME NEW j \in 1 .. n
        PROVE  m + j \in 1 .. k /\ ~new[m + j].dead
    <3>1. m + j \in m + 1 .. k
      BY <1>2
    <3> QED
      BY <1>3, <3>1
  <2>6. \A i \in 1 .. m : i \in 1 .. k
    BY <1>2
  <2> HIDE DEF g
  <2> QED
    BY <2>1, <2>2, <2>3, <2>4, <2>5, <2>6
<1>16. g[n] = Feeds!Visible(new)
  BY <1>15
<1> QED
  BY <1>11, <1>14, <1>16

\* A row with a new value; the rows of V, those in D with a new value.
Renew(x, w) == [key |-> x.key, val |-> w]
Renewed(V, D, w) == {IF x \in D THEN Renew(x, w) ELSE x : x \in V}

\* The event gives the row d a new value.
Renews(e, d, w) == e.old = {d} /\ e.new = {Renew(d, w)}

\* m lists the rows of rs that match: n, in some order.
MatchedIn(m, n, rs, st) ==
  /\ Len(m) = n /\ \A i \in 1 .. n : Feeds!Matches(st, m[i])
  /\ \A j \in DOMAIN rs : Feeds!Matches(st, rs[j]) => \E i \in 1 .. n : m[i] = rs[j]

\* new lists the others.
RestOf(new, rs, st) ==
  /\ \A i \in DOMAIN new : \E j \in DOMAIN rs : ~Feeds!Matches(st, rs[j]) /\ new[i] = rs[j]
  /\ \A j \in DOMAIN rs : ~Feeds!Matches(st, rs[j]) => \E i \in DOMAIN new : new[i] = rs[j]

\* The rows that match have the value w.
UpdatedTo(new, rs, st, w) ==
  /\ DOMAIN new = DOMAIN rs
  /\ \A j \in DOMAIN rs : /\ new[j].key = rs[j].key /\ new[j].dead = rs[j].dead
                           /\ new[j].val = IF Feeds!Matches(st, rs[j]) THEN w ELSE rs[j].val

\* The events of a DELETE and of an UPDATE, for the rows m.
DeleteEvents(recs, m, n) ==
  Len(recs) = n /\ \A i \in 1 .. n : recs[i].old = {Feeds!ImageOf(m[i])} /\ recs[i].new = {}
UpdateEvents(recs, m, n, w) ==
  Len(recs) = n /\ \A i \in 1 .. n : Renews(recs[i], Feeds!ImageOf(m[i]), w)

\* The events of a DELETE: each row that matches goes, also when another version of it, deleted
\* before, matches too.
LEMMA FollowDelete ==
  ASSUME NEW rs \in Seq(Feeds!Version), NEW st, NEW m, NEW n \in Nat, MatchedIn(m, n, rs, st),
         NEW new, RestOf(new, rs, st), NEW recs \in Seq(FeedEvents), DeleteEvents(recs, m, n)
  PROVE  Feeds!FollowAll(Feeds!Visible(rs), recs) = Feeds!Visible(new)
<1> USE DEF MatchedIn, RestOf, DeleteEvents
<1> DEFINE Im(i) == Feeds!ImageOf(m[i])
           V == Feeds!Visible(rs)
<1>1. V \in SUBSET Feeds!Image
  BY VisibleRows
<1>2. PICK f : Following(f, V, recs) /\ Feeds!FollowAll(V, recs) = f[n]
  <2>1. PICK start \in SUBSET Feeds!Image : start = V
    BY <1>1
  <2>2. PICK f : /\ Following(f, start, recs) /\ Feeds!FollowAll(start, recs) = f[Len(recs)]
                 /\ Feeds!FollowAll(start, recs) \in SUBSET Feeds!Image
    BY Zenon, FollowReads
  <2> QED
    BY <2>1, <2>2
<1> DEFINE g == [i \in 0 .. n |-> V \ {Im(j) : j \in 1 .. i}]
<1>3. g[0] = f[0]
  <2> HIDE DEF V, Im
  <2> QED
    BY <1>2 DEF Following
<1>4. ASSUME NEW i \in 1 .. n, f[i - 1] = g[i - 1]
      PROVE  f[i] = g[i]
  <2>1. f[i] = Feeds!Followed(f[i - 1], recs[i])
    BY <1>2 DEF Following
  <2>2. recs[i].old = {Im(i)} /\ recs[i].new = {}
    OBVIOUS
  <2> HIDE DEF V, Im
  <2>3. Feeds!Followed(f[i - 1], recs[i]) = f[i - 1] \ {Im(i)}
    BY <2>2 DEF Feeds!Followed
  <2>4. 1 .. i = (1 .. (i - 1)) \cup {i}
    OBVIOUS
  <2>5. g[i] = g[i - 1] \ {Im(i)}
    BY <2>4
  <2> QED
    BY <1>4, <2>1, <2>3, <2>5
<1>5. f[n] = g[n]
  <2> HIDE DEF g
  <2>1. GoAlike(f, g, n)
    BY <1>3, <1>4 DEF GoAlike
  <2>2. \A i \in 0 .. n : f[i] = g[i]
    BY <2>1, LoopSame
  <2> QED
    BY <2>2
<1>6. ASSUME NEW x
      PROVE  x \in g[n] <=> x \in Feeds!Visible(new)
  <2>1. x \in g[n] <=> x \in V /\ \A i \in 1 .. n : x # Im(i)
    <3> HIDE DEF V, Im
    <3> QED
      OBVIOUS
  <2>2. ASSUME x \in V, \A i \in 1 .. n : x # Im(i)
        PROVE  x \in Feeds!Visible(new)
    <3>1. PICK j \in DOMAIN rs : ~rs[j].dead /\ x = Feeds!ImageOf(rs[j])
      BY <2>2 DEF Feeds!Visible
    <3>2. ~Feeds!Matches(st, rs[j])
      BY <2>2, <3>1
    <3>3. PICK i \in DOMAIN new : new[i] = rs[j]
      BY <3>2
    <3> QED
      BY <3>1, <3>3 DEF Feeds!Visible
  <2>3. ASSUME x \in Feeds!Visible(new)
        PROVE  x \in V /\ \A i \in 1 .. n : x # Im(i)
    <3>1. PICK i \in DOMAIN new : ~new[i].dead /\ x = Feeds!ImageOf(new[i])
      BY <2>3 DEF Feeds!Visible
    <3>2. PICK j \in DOMAIN rs : ~Feeds!Matches(st, rs[j]) /\ new[i] = rs[j]
      OBVIOUS
    <3>3. x \in V
      BY <3>1, <3>2 DEF Feeds!Visible
    <3>4. ASSUME NEW l \in 1 .. n, x = Im(l)
          PROVE  FALSE
      <4>1. m[l].key = rs[j].key
        BY <3>1, <3>2, <3>4 DEF Feeds!ImageOf
      <4>2. Feeds!Matches(st, m[l]) <=> Feeds!Matches(st, rs[j])
        BY <4>1, MatchesByKey
      <4> QED
        BY <3>2, <4>2
    <3> QED
      BY <3>3, <3>4
  <2> HIDE DEF g, V, Im
  <2> QED
    BY <2>1, <2>2, <2>3
<1>7. g[n] = Feeds!Visible(new)
  BY <1>6
<1> QED
  BY <1>2, <1>5, <1>7

\* An event that renews a row renews the one of that key, or none.
LEMMA RenewEvent ==
  ASSUME NEW V, OneEach(V), NEW w, NEW D, NEW d, NEW e, Renews(e, d, w)
  PROVE  Feeds!Followed(Renewed(V, D, w), e) = Renewed(V, D \cup {d}, w)
<1> DEFINE U(x) == IF x \in D THEN Renew(x, w) ELSE x
           N(x) == IF x \in D \cup {d} THEN Renew(x, w) ELSE x
           acc == Renewed(V, D, w)
           new == Renewed(V, D \cup {d}, w)
<1>1. \A x : (x \in acc <=> \E y \in V : x = U(y)) /\ (x \in new <=> \E y \in V : x = N(y))
  BY DEF Renewed
<1>2. \A x : U(x).key = x.key /\ Renew(x, w).key = x.key
  BY DEF Renew
<1>3. CASE d \in acc
  <2>1. PICK y \in V : d = U(y)
    BY <1>1, <1>3
  <2>2. y.key = d.key
    BY <1>2, <2>1
  <2>3. Renew(y, w) = Renew(d, w)
    BY <2>2 DEF Renew
  <2>4. N(y) = Renew(d, w)
    BY <2>1, <2>3
  <2>5. ASSUME NEW x \in V, x # y
        PROVE  N(x) = U(x) /\ U(x) # d
    <3>1. x.key # d.key
      BY <2>2, <2>5 DEF OneEach
    <3> QED
      BY <1>2, <3>1
  <2>6. Feeds!Followed(acc, e) = (acc \ {d}) \cup {Renew(d, w)}
    BY <1>3 DEF Feeds!Followed, Renews
  <2> HIDE DEF U, N, acc, new
  <2>7. ASSUME NEW x
        PROVE  x \in (acc \ {d}) \cup {Renew(d, w)} <=> x \in new
    <3>1. ASSUME x \in acc, x # d
          PROVE  x \in new
      <4>1. PICK z \in V : x = U(z)
        BY <1>1, <3>1
      <4>2. z # y
        BY <2>1, <3>1, <4>1
      <4> QED
        BY <1>1, <2>5, <4>1, <4>2
    <3>2. x = Renew(d, w) => x \in new
      BY <1>1, <2>4
    <3>3. ASSUME x \in new
          PROVE  x \in (acc \ {d}) \cup {Renew(d, w)}
      <4>1. PICK z \in V : x = N(z)
        BY <1>1, <3>3
      <4>2. CASE z = y
        BY <2>4, <4>1, <4>2
      <4>3. CASE z # y
        BY <1>1, <2>5, <4>1, <4>3
      <4> QED
        BY <4>2, <4>3
    <3> QED
      BY <3>1, <3>2, <3>3
  <2> QED
    BY <2>6, <2>7 DEF acc, new
<1>4. CASE d \notin acc
  <2>1. Feeds!Followed(acc, e) = acc
    BY <1>4 DEF Feeds!Followed, Renews
  <2>2. ASSUME NEW x \in V
        PROVE  N(x) = U(x)
    BY <1>1, <1>4
  <2>3. new = acc
    BY <2>2 DEF Renewed
  <2> QED
    BY <2>1, <2>3
<1> QED
  BY <1>3, <1>4

\* The events of an UPDATE with a literal: the rows that match get the value, also when other
\* versions of them, deleted before, match too.
LEMMA FollowUpdate ==
  ASSUME NEW rs \in Seq(Feeds!Version), Once(rs), NEW st, NEW w, NEW m, NEW n \in Nat, MatchedIn(m, n, rs, st),
         NEW new, UpdatedTo(new, rs, st, w), NEW recs \in Seq(FeedEvents), UpdateEvents(recs, m, n, w)
  PROVE  Feeds!FollowAll(Feeds!Visible(rs), recs) = Feeds!Visible(new)
<1> USE DEF MatchedIn, UpdatedTo, UpdateEvents
<1> DEFINE Im(i) == Feeds!ImageOf(m[i])
           V == Feeds!Visible(rs)
           D(i) == {Im(j) : j \in 1 .. i}
<1>1. V \in SUBSET Feeds!Image /\ OneEach(V)
  BY VisibleRows
<1>2. PICK f : Following(f, V, recs) /\ Feeds!FollowAll(V, recs) = f[n]
  <2>1. PICK start \in SUBSET Feeds!Image : start = V
    BY <1>1
  <2>2. PICK f : /\ Following(f, start, recs) /\ Feeds!FollowAll(start, recs) = f[Len(recs)]
                 /\ Feeds!FollowAll(start, recs) \in SUBSET Feeds!Image
    BY Zenon, FollowReads
  <2> QED
    BY <2>1, <2>2
<1> DEFINE g == [i \in 0 .. n |-> Renewed(V, D(i), w)]
<1>3. g[0] = f[0]
  <2>1. D(0) = {}
    OBVIOUS
  <2> HIDE DEF V, D
  <2>2. Renewed(V, {}, w) = V
    BY DEF Renewed
  <2>3. g[0] = Renewed(V, D(0), w)
    OBVIOUS
  <2>4. f[0] = V
    BY <1>2 DEF Following
  <2> QED
    BY <2>1, <2>2, <2>3, <2>4
<1>4. ASSUME NEW i \in 1 .. n, f[i - 1] = g[i - 1]
      PROVE  f[i] = g[i]
  <2>1. f[i] = Feeds!Followed(f[i - 1], recs[i])
    BY <1>2 DEF Following
  <2>2. PICK d : d = Im(i) /\ Renews(recs[i], d, w)
    OBVIOUS
  <2>3. PICK e : e = recs[i]
    OBVIOUS
  <2>4. D(i) = D(i - 1) \cup {d}
    <3>1. 1 .. i = (1 .. (i - 1)) \cup {i}
      OBVIOUS
    <3> HIDE DEF Im
    <3> QED
      BY <2>2, <3>1
  <2> HIDE DEF V, Im, D
  <2>5. Feeds!Followed(Renewed(V, D(i - 1), w), e) = Renewed(V, D(i - 1) \cup {d}, w)
    <3>1. PICK W, E : W = V /\ OneEach(W) /\ E = D(i - 1)
      BY <1>1
    <3>2. Renews(e, d, w)
      BY <2>2, <2>3
    <3>3. Feeds!Followed(Renewed(W, E, w), e) = Renewed(W, E \cup {d}, w)
      BY <3>1, <3>2, RenewEvent
    <3> QED
      BY <3>1, <3>3
  <2>6. g[i] = Renewed(V, D(i), w) /\ g[i - 1] = Renewed(V, D(i - 1), w)
    OBVIOUS
  <2> QED
    BY <1>4, <2>1, <2>3, <2>4, <2>5, <2>6
<1>5. f[n] = g[n]
  <2> HIDE DEF g
  <2>1. GoAlike(f, g, n)
    BY <1>3, <1>4 DEF GoAlike
  <2>2. \A i \in 0 .. n : f[i] = g[i]
    BY <2>1, LoopSame
  <2> QED
    BY <2>2
<1>6. ASSUME NEW j \in DOMAIN rs, ~rs[j].dead
      PROVE  Feeds!ImageOf(rs[j]) \in D(n) <=> Feeds!Matches(st, rs[j])
  <2>1. ASSUME Feeds!ImageOf(rs[j]) \in D(n)
        PROVE  Feeds!Matches(st, rs[j])
    <3>1. PICK l \in 1 .. n : Feeds!ImageOf(rs[j]) = Im(l)
      BY <2>1
    <3>2. m[l].key = rs[j].key
      BY <3>1 DEF Feeds!ImageOf
    <3>3. Feeds!Matches(st, m[l]) <=> Feeds!Matches(st, rs[j])
      BY <3>2, MatchesByKey
    <3> QED
      BY <3>3
  <2>2. ASSUME Feeds!Matches(st, rs[j])
        PROVE  Feeds!ImageOf(rs[j]) \in D(n)
    <3>1. PICK l \in 1 .. n : m[l] = rs[j]
      BY <2>2
    <3> QED
      BY <3>1
  <2> QED
    BY <2>1, <2>2
<1>7. ASSUME NEW j \in DOMAIN rs, ~rs[j].dead
      PROVE  LET x == Feeds!ImageOf(rs[j])
             IN  Feeds!ImageOf(new[j]) = IF x \in D(n) THEN Renew(x, w) ELSE x
  <2> HIDE DEF D
  <2>1. CASE Feeds!Matches(st, rs[j])
    <3>1. new[j].key = rs[j].key /\ new[j].val = w
      BY <2>1
    <3> QED
      BY <1>6, <1>7, <2>1, <3>1 DEF Feeds!ImageOf, Renew
  <2>2. CASE ~Feeds!Matches(st, rs[j])
    <3>1. new[j].key = rs[j].key /\ new[j].val = rs[j].val
      BY <2>2
    <3> QED
      BY <1>6, <1>7, <2>2, <3>1 DEF Feeds!ImageOf
  <2> QED
    BY <2>1, <2>2
<1>8. ASSUME NEW x
      PROVE  x \in g[n] <=> x \in Feeds!Visible(new)
  <2>1. x \in g[n] <=> \E y \in V : x = IF y \in D(n) THEN Renew(y, w) ELSE y
    <3> HIDE DEF V, D
    <3> QED
      BY DEF Renewed
  <2> HIDE DEF g, D
  <2>2. ASSUME NEW y \in V, x = IF y \in D(n) THEN Renew(y, w) ELSE y
        PROVE  x \in Feeds!Visible(new)
    <3>1. PICK j \in DOMAIN rs : ~rs[j].dead /\ y = Feeds!ImageOf(rs[j])
      BY <2>2 DEF Feeds!Visible
    <3>2. x = Feeds!ImageOf(new[j]) /\ ~new[j].dead
      BY <1>7, <2>2, <3>1
    <3> QED
      BY <3>1, <3>2 DEF Feeds!Visible
  <2>3. ASSUME x \in Feeds!Visible(new)
        PROVE  \E y \in V : x = IF y \in D(n) THEN Renew(y, w) ELSE y
    <3>1. PICK j \in DOMAIN rs : ~new[j].dead /\ x = Feeds!ImageOf(new[j])
      BY <2>3 DEF Feeds!Visible
    <3>2. PICK y : y = Feeds!ImageOf(rs[j])
      OBVIOUS
    <3>3. ~rs[j].dead
      BY <3>1
    <3>4. y \in V
      BY <3>2, <3>3 DEF Feeds!Visible
    <3>5. x = IF y \in D(n) THEN Renew(y, w) ELSE y
      BY <1>7, <3>1, <3>2, <3>3
    <3> QED
      BY <3>4, <3>5
  <2> HIDE DEF V
  <2> QED
    BY <2>1, <2>2, <2>3
<1>9. g[n] = Feeds!Visible(new)
  BY <1>8
<1> QED
  BY <1>2, <1>5, <1>9

\* The rows that match, in order.
LEMMA MatchedRows ==
  ASSUME NEW rs \in Seq(Feeds!Version), NEW st, NEW m, m = Feeds!Picked(rs, Feeds!Matching(rs, st))
  PROVE  /\ m \in Seq(Feeds!Version) /\ Len(m) \in Nat /\ DOMAIN m = 1 .. Len(m)
         /\ MatchedIn(m, Len(m), rs, st)
<1>1. PICK P \in SUBSET DOMAIN rs : P = Feeds!Matching(rs, st)
  BY DEF Feeds!Matching
<1>2. \A j \in DOMAIN rs : j \in P <=> Feeds!Matches(st, rs[j])
  BY <1>1 DEF Feeds!Matching
<1>3. /\ m \in Seq(Feeds!Version)
      /\ \A i \in DOMAIN m : \E j \in P : m[i] = rs[j]
      /\ \A j \in P : \E i \in DOMAIN m : m[i] = rs[j]
  BY <1>1, PickedFinds
<1>4. Len(m) \in Nat /\ DOMAIN m = 1 .. Len(m)
  BY <1>3
<1> QED
  BY <1>2, <1>3, <1>4 DEF MatchedIn

\* The image of a row.
LEMMA ImageType ==
  ASSUME NEW r \in Feeds!Version
  PROVE  /\ Feeds!ImageOf(r) \in Feeds!Image /\ Feeds!ImageOf(r).key = r.key
         /\ \A w \in 0 .. NVals : [key |-> r.key, val |-> w] \in Feeds!Image
<1>1. r.key \in RowKeys /\ r.val \in 1 .. NVals
  BY VersionFields
<1>2. \A w \in 0 .. NVals : w \in (1 .. NVals) \cup {0}
  OBVIOUS
<1> QED
  BY <1>1, <1>2 DEF Feeds!ImageOf, Feeds!Image, Feeds!Values, Feeds!Text

\* A sequence of events, given one by one.
LEMMA EventsAre ==
  ASSUME NEW n \in Nat, NEW recs, recs = [i \in 1 .. n |-> recs[i]],
         \A i \in 1 .. n : \E a, b \in SUBSET Feeds!Image : recs[i] = [old |-> a, new |-> b]
  PROVE  recs \in Seq(FeedEvents) /\ Len(recs) = n
<1>1. \A i \in 1 .. n : recs[i] \in FeedEvents
  BY DEF FeedEvents
<1> QED
  BY <1>1, FunctionIsSeq

\* An INSERT is recorded row by row, also when it throws at a later row.
LEMMA RecordedInsert ==
  ASSUME NEW rs \in Seq(Feeds!Version), NEW st \in Feeds!Statement, st.type = "INSERT"
  PROVE  /\ Feeds!Recorded(rs, st) \in Seq(FeedEvents)
         /\ Feeds!FollowAll(Feeds!Visible(rs), Feeds!Recorded(rs, st)) = Feeds!Visible(Feeds!Executed(Feeds!Start(rs), st).rows)
<1>1. PICK a \in Accs : a = Feeds!Start(rs) /\ a.rows = rs
  BY StartFacts
<1>2. PICK b \in Accs : b = Feeds!InsertRows(a, st) /\ Grown(b.rows, a.rows)
  BY InsertRowsKeeps
<1>3. Feeds!Executed(Feeds!Start(rs), st) = b
  BY <1>1, <1>2 DEF Feeds!Executed
<1>4. PICK new \in Seq(Feeds!Version) : new = b.rows /\ Grown(new, rs)
  BY <1>1, <1>2, AccFields
<1>5. PICK m \in Nat : m = Len(rs)
  OBVIOUS
<1>6. PICK k \in Nat : k = Len(new)
  OBVIOUS
<1>7. PICK n \in Nat : k = m + n
  <2>1. m <= k
    BY <1>4, <1>5, <1>6 DEF Grown
  <2>2. k - m \in Nat /\ k = m + (k - m)
    BY <2>1
  <2> QED
    BY <2>2
<1>8. PICK ins : ins = SubSeq(new, m + 1, k)
  OBVIOUS
<1>9. DOMAIN ins = 1 .. n /\ \A i \in 1 .. n : ins[i] = new[m + i]
  BY <1>6, <1>7, <1>8
<1>10. PICK recs : recs = [i \in DOMAIN ins |-> [old |-> {}, new |-> {Feeds!ImageOf(ins[i])}]]
  OBVIOUS
<1>11. Feeds!Recorded(rs, st) = recs
  BY <1>3, <1>4, <1>5, <1>6, <1>8, <1>10 DEF Feeds!Recorded
<1>12. recs = [i \in 1 .. n |-> recs[i]] /\ \A i \in 1 .. n : recs[i] = [old |-> {}, new |-> {Feeds!ImageOf(new[m + i])}]
  BY <1>9, <1>10
<1>13. \A i \in 1 .. n : Feeds!ImageOf(new[m + i]) \in Feeds!Image
  <2>1. \A i \in 1 .. n : new[m + i] \in Feeds!Version
    <3>1. ASSUME NEW i \in 1 .. n
          PROVE  m + i \in 1 .. k
      BY <1>7
    <3>2. \A j \in 1 .. k : new[j] \in Feeds!Version
      BY <1>6
    <3> QED
      BY <3>1, <3>2
  <2> QED
    BY <2>1, ImageType
<1>14. recs \in Seq(FeedEvents) /\ Len(recs) = n
  <2>1. ASSUME NEW i \in 1 .. n
        PROVE  \E x, y \in SUBSET Feeds!Image : recs[i] = [old |-> x, new |-> y]
    <3>1. {} \in SUBSET Feeds!Image /\ {Feeds!ImageOf(new[m + i])} \in SUBSET Feeds!Image
      BY <1>13
    <3> QED
      BY <1>12, <3>1
  <2> QED
    BY <1>12, <2>1, EventsAre
<1>15. InsertEvents(recs, new, Len(rs), n)
  BY <1>5, <1>12, <1>14 DEF InsertEvents
<1>16. Len(new) = Len(rs) + n
  BY <1>5, <1>6, <1>7
<1>17. Feeds!FollowAll(Feeds!Visible(rs), recs) = Feeds!Visible(new)
  BY <1>4, <1>14, <1>15, <1>16, FollowInsert
<1> QED
  BY <1>3, <1>4, <1>11, <1>14, <1>17

\* A DELETE with a WHERE is recorded row by row, unless the hook looks for quotes.
LEMMA RecordedDelete ==
  ASSUME NEW rs \in Seq(Feeds!Version), NEW st \in Feeds!Statement, st.type = "DELETE", st.where # "none",
         Feeds!AsWritten(st)
  PROVE  /\ Feeds!Recorded(rs, st) \in Seq(FeedEvents)
         /\ Feeds!FollowAll(Feeds!Visible(rs), Feeds!Recorded(rs, st)) = Feeds!Visible(Feeds!Executed(Feeds!Start(rs), st).rows)
<1>1. PICK m : m = Feeds!Picked(rs, Feeds!Matching(rs, st))
  OBVIOUS
<1>2. PICK n \in Nat : n = Len(m) /\ DOMAIN m = 1 .. n
  BY <1>1, MatchedRows
<1>3. m \in Seq(Feeds!Version) /\ MatchedIn(m, n, rs, st)
  BY <1>1, <1>2, MatchedRows
<1>4. PICK recs : recs = [i \in DOMAIN m |-> [old |-> {Feeds!ImageOf(m[i])}, new |-> {}]]
  OBVIOUS
<1>5. Feeds!Recorded(rs, st) = recs
  BY <1>1, <1>4 DEF Feeds!Recorded
<1>6. recs = [i \in 1 .. n |-> recs[i]] /\ \A i \in 1 .. n : recs[i] = [old |-> {Feeds!ImageOf(m[i])}, new |-> {}]
  BY <1>2, <1>4
<1>7. recs \in Seq(FeedEvents) /\ Len(recs) = n
  <2>1. ASSUME NEW i \in 1 .. n
        PROVE  \E x, y \in SUBSET Feeds!Image : recs[i] = [old |-> x, new |-> y]
    <3>1. m[i] \in Feeds!Version
      BY <1>2, <1>3
    <3>2. {} \in SUBSET Feeds!Image /\ {Feeds!ImageOf(m[i])} \in SUBSET Feeds!Image
      BY <3>1, ImageType
    <3> QED
      BY <1>6, <3>2
  <2> QED
    BY <1>6, <2>1, EventsAre
<1>8. PICK P \in SUBSET DOMAIN rs : P = DOMAIN rs \ Feeds!Matching(rs, st)
  OBVIOUS
<1>9. \A j \in DOMAIN rs : j \in P <=> ~Feeds!Matches(st, rs[j])
  BY <1>8 DEF Feeds!Matching
<1>10. PICK new : new = Feeds!Picked(rs, P)
  OBVIOUS
<1>11. /\ new \in Seq(Feeds!Version)
       /\ \A i \in DOMAIN new : \E j \in P : new[i] = rs[j]
       /\ \A j \in P : \E i \in DOMAIN new : new[i] = rs[j]
  BY <1>10, PickedFinds
<1>12. Feeds!Executed(Feeds!Start(rs), st).rows = new
  BY <1>8, <1>10, StartFacts DEF Feeds!Executed, Feeds!Start
<1>13. DeleteEvents(recs, m, n)
  BY <1>6, <1>7 DEF DeleteEvents
<1>14. RestOf(new, rs, st)
  BY <1>9, <1>11 DEF RestOf
<1>15. Feeds!FollowAll(Feeds!Visible(rs), recs) = Feeds!Visible(new)
  BY <1>3, <1>7, <1>13, <1>14, FollowDelete
<1> QED
  BY <1>5, <1>7, <1>12, <1>15

\* UPDATE as a loop over the rows.
LEMMA UpdateExecuted ==
  ASSUME NEW rs \in Seq(Feeds!Version), NEW st \in Feeds!Statement, st.type = "UPDATE"
  PROVE  LET us == Feeds!Executed(Feeds!Start(rs), st).rows
         IN  /\ us = [i \in DOMAIN rs |-> Feeds!UpdatedRow(st, rs[i])] /\ us \in Seq(Feeds!Version)
             /\ ~st.expr => UpdatedTo(us, rs, st, st.val)
<1>1. PICK us : us = [i \in DOMAIN rs |-> Feeds!UpdatedRow(st, rs[i])]
  OBVIOUS
<1>2. Feeds!Executed(Feeds!Start(rs), st).rows = us
  BY <1>1, StartFacts DEF Feeds!Executed, Feeds!Start
<1>3. us \in Seq(Feeds!Version)
  BY <1>1, UpdateKeeps
<1>4. ASSUME ~st.expr, NEW j \in DOMAIN rs
      PROVE  /\ us[j].key = rs[j].key /\ us[j].dead = rs[j].dead
             /\ us[j].val = IF Feeds!Matches(st, rs[j]) THEN st.val ELSE rs[j].val
  <2>1. PICK r \in Feeds!Version : r = rs[j]
    OBVIOUS
  <2>2. us[j] = Feeds!UpdatedRow(st, r)
    BY <1>1, <2>1
  <2> QED
    BY <1>4, <2>1, <2>2, UpdatedRowKeeps
<1> QED
  BY <1>1, <1>2, <1>3, <1>4 DEF UpdatedTo

\* An UPDATE that has a hook is recorded row by row; with a literal, the rows it makes.
LEMMA RecordedUpdate ==
  ASSUME NEW rs \in Seq(Feeds!Version), NEW st \in Feeds!Statement, st.type = "UPDATE",
         st.where # "none", ~Feeds!HasExpr(st)
  PROVE  /\ Feeds!Recorded(rs, st) \in Seq(FeedEvents)
         /\ Once(rs) /\ ~st.expr =>
              Feeds!FollowAll(Feeds!Visible(rs), Feeds!Recorded(rs, st)) = Feeds!Visible(Feeds!Executed(Feeds!Start(rs), st).rows)
<1>1. PICK m : m = Feeds!Picked(rs, Feeds!Matching(rs, st))
  OBVIOUS
<1>2. PICK n \in Nat : n = Len(m) /\ DOMAIN m = 1 .. n
  BY <1>1, MatchedRows
<1>3. m \in Seq(Feeds!Version) /\ MatchedIn(m, n, rs, st)
  BY <1>1, <1>2, MatchedRows
<1>4. PICK w \in 0 .. NVals : w = IF st.expr THEN Feeds!Text ELSE st.val
  BY FeedsAssumption, StatementFields DEF Feeds!Text
<1>5. PICK recs : recs = [i \in DOMAIN m |-> [old |-> {Feeds!ImageOf(m[i])}, new |-> {[key |-> m[i].key, val |-> w]}]]
  OBVIOUS
<1>6. Feeds!Recorded(rs, st) = recs
  BY <1>1, <1>4, <1>5 DEF Feeds!Recorded
<1>7. /\ recs = [i \in 1 .. n |-> recs[i]]
      /\ \A i \in 1 .. n : recs[i] = [old |-> {Feeds!ImageOf(m[i])}, new |-> {[key |-> m[i].key, val |-> w]}]
  BY <1>2, <1>5
<1>8. \A i \in 1 .. n : m[i] \in Feeds!Version
  BY <1>2, <1>3
<1>9. recs \in Seq(FeedEvents) /\ Len(recs) = n
  <2>1. ASSUME NEW i \in 1 .. n
        PROVE  \E x, y \in SUBSET Feeds!Image : recs[i] = [old |-> x, new |-> y]
    <3>1. PICK r \in Feeds!Version : r = m[i]
      BY <1>8
    <3>2. Feeds!ImageOf(r) \in Feeds!Image /\ [key |-> r.key, val |-> w] \in Feeds!Image
      BY ImageType
    <3>3. PICK x \in SUBSET Feeds!Image : x = {Feeds!ImageOf(r)}
      BY <3>2
    <3>4. PICK y \in SUBSET Feeds!Image : y = {[key |-> r.key, val |-> w]}
      BY <3>2
    <3>5. recs[i] = [old |-> x, new |-> y]
      BY <1>7, <3>1, <3>3, <3>4
    <3> QED
      BY <3>5
  <2> QED
    BY <1>7, <2>1, EventsAre
<1>10. ASSUME Once(rs), ~st.expr
       PROVE  Feeds!FollowAll(Feeds!Visible(rs), recs) = Feeds!Visible(Feeds!Executed(Feeds!Start(rs), st).rows)
  <2>1. PICK us : us = Feeds!Executed(Feeds!Start(rs), st).rows /\ UpdatedTo(us, rs, st, w)
    BY <1>4, <1>10, UpdateExecuted
  <2>2. UpdateEvents(recs, m, n, w)
    <3>1. ASSUME NEW i \in 1 .. n
          PROVE  Renews(recs[i], Feeds!ImageOf(m[i]), w)
      <4>1. Feeds!ImageOf(m[i]).key = m[i].key
        BY <1>8, ImageType
      <4>2. recs[i].old = {Feeds!ImageOf(m[i])} /\ recs[i].new = {[key |-> m[i].key, val |-> w]}
        BY <1>7
      <4> QED
        BY <4>1, <4>2 DEF Renews, Renew
    <3> QED
      BY <1>9, <3>1 DEF UpdateEvents
  <2> QED
    BY <1>3, <1>9, <1>10, <2>1, <2>2, FollowUpdate
<1> QED
  BY <1>6, <1>9, <1>10

\* What a statement records has the shape of events.  When every effect of it is recorded, who
\* had the table and follows the events has it again.
LEMMA RecordedFollows ==
  ASSUME NEW rs \in Seq(Feeds!Version), Once(rs), NEW st \in Feeds!Statement
  PROVE  /\ Feeds!Recorded(rs, st) \in Seq(FeedEvents)
         /\ Feeds!Tracked(st) =>
              Feeds!FollowAll(Feeds!Visible(rs), Feeds!Recorded(rs, st)) = Feeds!Visible(Feeds!Executed(Feeds!Start(rs), st).rows)
<1>1. st.type \in {"INSERT", "REPLACE", "IGNORE", "UPDATE", "DELETE", "TRUNCATE"} /\ st.where \in {"none", "one", "many"} /\ st.expr \in BOOLEAN
  BY StatementFields
<1> DEFINE hook == st.type = "UPDATE" /\ st.where # "none" /\ ~Feeds!HasExpr(st)
           written == st.type = "DELETE" /\ st.where # "none" /\ Feeds!AsWritten(st)
<1>2. CASE st.type = "INSERT"
  BY <1>2, RecordedInsert
<1>3. CASE hook
  BY <1>3, RecordedUpdate DEF Feeds!Tracked
<1>4. CASE written
  BY <1>4, RecordedDelete
<1>5. CASE st.type # "INSERT" /\ ~hook /\ ~written
  <2>1. Feeds!Recorded(rs, st) = <<>>
    BY <1>5 DEF Feeds!Recorded
  <2>2. ~Feeds!Tracked(st)
    BY <1>1, <1>5 DEF Feeds!Tracked
  <2> QED
    BY <2>1, <2>2
<1> QED
  BY <1>2, <1>3, <1>4, <1>5

\* A statement that is not written to the binlog although nothing threw has changed no row.
LEMMA UnloggedChangesNothing ==
  ASSUME NEW rs \in Seq(Feeds!Version), NEW st \in Statements, ~Feeds!Logged(rs, st)
  PROVE  Feeds!Executed(Feeds!Start(rs), st).rows = rs
<1>1. st \in Feeds!Statement /\ st.where # "none" /\ st.type \in {"UPDATE", "DELETE"} /\ Feeds!Matching(rs, st) = {}
  BY FeedsAssumption DEF Feeds!Logged
<1>2. \A i \in DOMAIN rs : ~Feeds!Matches(st, rs[i])
  BY <1>1 DEF Feeds!Matching
<1>3. CASE st.type = "UPDATE"
  <2>1. PICK us : us = Feeds!Executed(Feeds!Start(rs), st).rows /\ us = [i \in DOMAIN rs |-> Feeds!UpdatedRow(st, rs[i])]
    BY <1>1, <1>3, UpdateExecuted
  <2>2. \A i \in DOMAIN rs : Feeds!UpdatedRow(st, rs[i]) = rs[i]
    BY <1>2 DEF Feeds!UpdatedRow
  <2>3. us = [i \in DOMAIN rs |-> rs[i]]
    BY <2>1, <2>2
  <2>4. rs = [i \in DOMAIN rs |-> rs[i]]
    OBVIOUS
  <2> QED
    BY <2>1, <2>3, <2>4
<1>4. CASE st.type = "DELETE"
  <2>1. Feeds!Executed(Feeds!Start(rs), st).rows = Feeds!Picked(rs, DOMAIN rs \ {})
    BY <1>1, <1>4, StartFacts DEF Feeds!Executed, Feeds!Start
  <2>2. DOMAIN rs \ {} = DOMAIN rs
    OBVIOUS
  <2>3. Picked(rs, DOMAIN rs) = rs
    BY PickedAll
  <2> QED
    BY <2>1, <2>2, <2>3, FeedsPicked
<1> QED
  BY <1>1, <1>3, <1>4

\* u has the l elements of s, then the k elements of t.
Joined(u, s, t, l, k) == Len(u) = l + k /\ \A i \in 1 .. l + k : u[i] = IF i <= l THEN s[i] ELSE t[i - l]

\* The elements of two sequences, one after the other.
LEMMA ConcatReads ==
  ASSUME NEW A, NEW s \in Seq(A), NEW t \in Seq(A)
  PROVE  s \o t \in Seq(A) /\ Joined(s \o t, s, t, Len(s), Len(t))
  BY DEF Joined

\* The events after position b, when more have come.
LEMMA LaterEvents ==
  ASSUME NEW evs \in Seq(FeedEvents), NEW more \in Seq(FeedEvents), NEW b \in 0 .. Len(evs)
  PROVE  /\ SubSeq(evs, b + 1, Len(evs)) \in Seq(FeedEvents)
         /\ SubSeq(evs \o more, b + 1, Len(evs \o more)) = SubSeq(evs, b + 1, Len(evs)) \o more
<1>1. PICK n \in Nat : n = Len(evs) /\ b \in 0 .. n
  OBVIOUS
<1>2. PICK k \in Nat : k = Len(more)
  OBVIOUS
<1>3. PICK both \in Seq(FeedEvents) : both = evs \o more /\ Joined(both, evs, more, n, k)
  BY <1>1, <1>2, ConcatReads
<1>a. Len(both) = n + k /\ \A i \in 1 .. n + k : both[i] = IF i <= n THEN evs[i] ELSE more[i - n]
  BY <1>3 DEF Joined
<1>4. PICK one \in Seq(FeedEvents) : one = SubSeq(evs, b + 1, n) /\ Len(one) = n - b /\ \A i \in 1 .. n - b : one[i] = evs[b + i]
  <2>1. SubSeq(evs, b + 1, n) \in Seq(FeedEvents)
    BY <1>1
  <2>2. Len(SubSeq(evs, b + 1, n)) = n - b /\ \A i \in 1 .. n - b : SubSeq(evs, b + 1, n)[i] = evs[b + i]
    BY <1>1
  <2> QED
    BY <2>1, <2>2
<1>5. PICK two \in Seq(FeedEvents) : two = SubSeq(both, b + 1, n + k) /\ Len(two) = n + k - b /\ \A i \in 1 .. n + k - b : two[i] = both[b + i]
  <2>1. SubSeq(both, b + 1, n + k) \in Seq(FeedEvents)
    BY <1>1, <1>a
  <2>2. Len(SubSeq(both, b + 1, n + k)) = n + k - b /\ \A i \in 1 .. n + k - b : SubSeq(both, b + 1, n + k)[i] = both[b + i]
    BY <1>1, <1>a
  <2> QED
    BY <2>1, <2>2
<1>6. PICK sum \in Seq(FeedEvents) : sum = one \o more /\ Joined(sum, one, more, n - b, k)
  BY <1>2, <1>4, ConcatReads
<1>b. /\ Len(sum) = (n - b) + k
       /\ \A i \in 1 .. (n - b) + k : sum[i] = IF i <= n - b THEN one[i] ELSE more[i - (n - b)]
  BY <1>6 DEF Joined
<1>7. ASSUME NEW i \in 1 .. n + k - b
      PROVE  two[i] = sum[i]
  <2>1. two[i] = both[b + i] /\ b + i \in 1 .. n + k /\ i \in 1 .. (n - b) + k
    BY <1>1, <1>5
  <2>2. CASE i <= n - b
    BY <1>1, <1>a, <1>4, <1>b, <2>1, <2>2
  <2>3. CASE ~(i <= n - b)
    <3>1. ~(b + i <= n) /\ (b + i) - n = i - (n - b)
      BY <1>1, <2>3
    <3> QED
      BY <1>a, <1>b, <2>1, <2>3, <3>1
  <2> QED
    BY <2>2, <2>3
<1>8. two = sum
  <2>1. PICK c \in Nat : c = n + k - b
    <3>1. n + k - b \in Nat
      BY <1>1
    <3> QED
      BY <3>1
  <2>2. Len(two) = c /\ Len(sum) = c
    BY <1>1, <1>5, <1>b, <2>1
  <2>3. \A i \in 1 .. c : two[i] = sum[i]
    BY <1>7, <2>1
  <2> QED
    BY <2>2, <2>3
<1> QED
  BY <1>1, <1>3, <1>a, <1>4, <1>5, <1>6, <1>8
-----------------------------------------------------------------------------
\* The shape of what the feeds keep.
FeedShape ==
  /\ versions \in Seq(Feeds!Version) /\ Once(versions)
  /\ DOMAIN buffer \subseteq Writers /\ \A s \in DOMAIN buffer : buffer[s] \in Seq(Feeds!Statement)
  /\ binlog \in Seq(Statements) /\ issued \in 0 .. MaxStatements
  /\ events \in Seq(FeedEvents)
  /\ base.rows \in SUBSET Feeds!Image /\ base.events \in 0 .. Len(events)
  /\ cdcOn \in BOOLEAN /\ apart \in BOOLEAN /\ unseen \in BOOLEAN /\ survived \in BOOLEAN
  /\ changed \subseteq DOMAIN buffer

\* A replica that replays the binlog has every row version, not only what a SELECT shows.
ReplicaHas == ~apart => Feeds!ReplicaRows(binlog) = versions

\* What a reader has that began with the rows of b and follows the events since.
Reader(b, evs) == Feeds!FollowAll(b.rows, SubSeq(evs, b.events + 1, Len(evs)))
ReaderHas == cdcOn /\ ~unseen => Reader(base, events) = Feeds!Visible(versions)

FeedInv == FeedShape /\ ReplicaHas /\ ReaderHas

\* Statements have their shape.
LEMMA LoggedStatements == Statements \subseteq Feeds!Statement /\ \A log \in Seq(Statements) : log \in Seq(Feeds!Statement)
<1>1. \A st \in Statements : st \in Feeds!Statement
  BY FeedsAssumption
<1>2. ASSUME NEW log \in Seq(Statements)
      PROVE  log \in Seq(Feeds!Statement)
  BY <1>1
<1> QED
  BY <1>1, <1>2

\* A reader goes on with further events.
LEMMA ReaderGoesOn ==
  ASSUME NEW b, b.rows \in SUBSET Feeds!Image, NEW evs \in Seq(FeedEvents), b.events \in 0 .. Len(evs),
         NEW more \in Seq(FeedEvents)
  PROVE  Reader(b, evs \o more) = Feeds!FollowAll(Reader(b, evs), more)
<1>1. PICK e \in 0 .. Len(evs) : e = b.events
  OBVIOUS
<1>2. PICK start \in SUBSET Feeds!Image : start = b.rows
  OBVIOUS
<1>3. /\ SubSeq(evs, e + 1, Len(evs)) \in Seq(FeedEvents)
      /\ SubSeq(evs \o more, e + 1, Len(evs \o more)) = SubSeq(evs, e + 1, Len(evs)) \o more
  BY LaterEvents
<1>4. PICK one \in Seq(FeedEvents) : one = SubSeq(evs, e + 1, Len(evs))
  BY <1>3
<1>5. Feeds!FollowAll(start, one \o more) = Feeds!FollowAll(Feeds!FollowAll(start, one), more)
  BY FollowGoesOn
<1> QED
  BY <1>1, <1>2, <1>3, <1>4, <1>5 DEF Reader

\* COMMIT of an empty buffer changes nothing.
LEMMA ApplyNothing ==
  ASSUME NEW rs \in Seq(Feeds!Version)
  PROVE  Feeds!ApplyAll(rs, <<>>) = Feeds!Start(rs)
<1> DEFINE a == Feeds!Start(rs)
           Def(f) == f = [m \in 0 .. 0 |-> IF m = 0 THEN a ELSE Feeds!Applied(f[m - 1], <<>>[m])]
           run == CHOOSE f : Def(f)
<1>1. Feeds!ApplyAll(rs, <<>>) = run[0]
  <2>1. Len(<<>>) = 0
    OBVIOUS
  <2> QED
    BY <2>1 DEF Feeds!ApplyAll
<1> HIDE DEF a
<1>2. Def([m \in 0 .. 0 |-> a])
  OBVIOUS
<1>3. Def(run)
  BY <1>2
<1> HIDE DEF run
<1>4. run[0] = a
  BY <1>3
<1> QED
  BY <1>1, <1>4 DEF a

\* The feeds begin with the table as it was loaded.
LEMMA FeedInvInit == Feeds!Init => FeedInv
<1> SUFFICES ASSUME Feeds!Init
             PROVE  FeedInv
  OBVIOUS
<1> USE DEF Feeds!Init
<1>1. versions \in Seq(Feeds!Version) /\ versions = Loaded
  BY FeedsAssumption
<1>2. OneEach(Feeds!Visible(Loaded))
  BY FeedsAssumption DEF OneEach
<1>3. Once(versions) /\ Feeds!Visible(versions) \in SUBSET Feeds!Image
  BY <1>1, <1>2, VisibleRows
<1>4. FeedShape
  <2>1. base.rows \in SUBSET Feeds!Image /\ base.events \in 0 .. Len(events)
    BY <1>1, <1>3
  <2>2. events \in Seq(FeedEvents) /\ binlog \in Seq(Statements) /\ issued \in 0 .. MaxStatements
    BY FeedsAssumption
  <2>3. DOMAIN buffer = {}
    OBVIOUS
  <2> QED
    BY <1>1, <1>3, <2>1, <2>2, <2>3 DEF FeedShape
<1>5. ReplicaHas
  BY ReplicaBegins, <1>1 DEF ReplicaHas
<1> QED
  BY <1>4, <1>5 DEF FeedInv, ReaderHas

\* The table and what the shape of the feeds says of it, for a step.
LEMMA FeedFacts ==
  ASSUME FeedInv
  PROVE  /\ versions \in Seq(Feeds!Version) /\ Once(versions)
         /\ Feeds!Visible(versions) \in SUBSET Feeds!Image
         /\ binlog \in Seq(Feeds!Statement) /\ events \in Seq(FeedEvents)
  BY VisibleRows, LoggedStatements DEF FeedInv, FeedShape

\* ALTER TABLE ... ENABLE CDC and DISABLE CDC.
LEMMA SwitchKeepsFeeds == FeedInv /\ (Feeds!EnableCdc \/ Feeds!DisableCdc) => FeedInv'
<1>1. ASSUME FeedInv, Feeds!EnableCdc
      PROVE  FeedInv'
  <2>1. Feeds!Visible(versions) \in SUBSET Feeds!Image /\ events \in Seq(FeedEvents)
    BY <1>1, FeedFacts
  <2>2. base'.rows = Feeds!Visible(versions) /\ base'.events = Len(events) /\ Len(events) \in 0 .. Len(events)
    BY <1>1, <2>1 DEF Feeds!EnableCdc
  <2>3. FeedShape'
    BY <1>1, <2>1, <2>2 DEF FeedInv, FeedShape, Feeds!EnableCdc
  <2>4. ReplicaHas'
    BY <1>1 DEF FeedInv, ReplicaHas, Feeds!EnableCdc
  <2>5. SubSeq(events, Len(events) + 1, Len(events)) = <<>>
    BY <2>1
  <2>6. Reader(base', events) = Feeds!Visible(versions)
    BY <2>1, <2>2, <2>5, FollowNothing DEF Reader
  <2> QED
    BY <1>1, <2>3, <2>4, <2>6 DEF FeedInv, ReaderHas, Feeds!EnableCdc
<1>2. ASSUME FeedInv, Feeds!DisableCdc
      PROVE  FeedInv'
  BY <1>2 DEF FeedInv, FeedShape, ReplicaHas, ReaderHas, Feeds!DisableCdc
<1> QED
  BY <1>1, <1>2

\* BEGIN and ROLLBACK leave table and feeds alone.
LEMMA BeginAndRollbackKeepFeeds ==
  ASSUME NEW s \in Writers, FeedInv, Feeds!Begin(s) \/ Feeds!Rollback(s)
  PROVE  FeedInv'
<1>1. UNCHANGED <<versions, binlog, cdcOn, events, issued, base, apart, unseen>>
  BY DEF Feeds!Begin, Feeds!Rollback
<1>2. ReplicaHas' /\ ReaderHas'
  BY <1>1 DEF FeedInv, ReplicaHas, ReaderHas
<1>3. CASE Feeds!Begin(s)
  <2>1. DOMAIN buffer' = DOMAIN buffer \cup {s} /\ \A x \in DOMAIN buffer' : buffer'[x] = IF x = s THEN <<>> ELSE buffer[x]
    BY <1>3 DEF Feeds!Begin, Feeds!InTx
  <2>2. ASSUME NEW x \in DOMAIN buffer'
        PROVE  buffer'[x] \in Seq(Feeds!Statement)
    <3>1. <<>> \in Seq(Feeds!Statement)
      OBVIOUS
    <3>2. x # s => buffer[x] \in Seq(Feeds!Statement)
      BY <2>1 DEF FeedInv, FeedShape
    <3> QED
      BY <2>1, <3>1, <3>2
  <2>3. FeedShape'
    BY <1>1, <1>3, <2>1, <2>2 DEF FeedInv, FeedShape, Feeds!Begin
  <2> QED
    BY <1>2, <2>3 DEF FeedInv
<1>4. CASE Feeds!Rollback(s)
  <2>1. DOMAIN buffer' = DOMAIN buffer \ {s} /\ \A x \in DOMAIN buffer' : buffer'[x] = buffer[x]
    BY <1>4 DEF Feeds!Rollback, Feeds!InTx
  <2>2. survived' \in BOOLEAN /\ changed' \subseteq DOMAIN buffer'
    BY <1>4, <2>1 DEF FeedInv, FeedShape, Feeds!Rollback
  <2>3. FeedShape'
    BY <1>1, <2>1, <2>2 DEF FeedInv, FeedShape
  <2> QED
    BY <1>2, <2>3 DEF FeedInv
<1> QED
  BY <1>3, <1>4

\* COMMIT applies a buffer; whoever follows a feed then lacks it, unless it was empty.
LEMMA CommitKeepsFeeds ==
  ASSUME NEW s \in Writers, FeedInv, Feeds!Commit(s) \/ Feeds!CommitThrows(s)
  PROVE  FeedInv'
<1>1. s \in DOMAIN buffer /\ buffer[s] \in Seq(Feeds!Statement)
  BY DEF Feeds!Commit, Feeds!CommitThrows, Feeds!InTx, FeedInv, FeedShape
<1>2. PICK r \in Accs : r = Feeds!ApplyAll(versions, buffer[s]) /\ Once(r.rows)
  BY <1>1, FeedFacts, ApplyAllKeeps
<1>3. versions' = r.rows /\ versions' \in Seq(Feeds!Version) /\ Once(versions')
  BY <1>2, AccFields DEF Feeds!Commit, Feeds!CommitThrows
<1>4. CASE Feeds!Commit(s)
  <2>1. DOMAIN buffer' = DOMAIN buffer \ {s} /\ \A x \in DOMAIN buffer' : buffer'[x] = buffer[x]
    BY <1>4 DEF Feeds!Commit, Feeds!InTx
  <2>2. /\ apart' \in BOOLEAN /\ unseen' \in BOOLEAN /\ changed' \subseteq DOMAIN buffer'
        /\ UNCHANGED <<binlog, cdcOn, events, issued, base, survived>>
    BY <1>4, <2>1 DEF FeedInv, FeedShape, Feeds!Commit
  <2>3. FeedShape'
    BY <1>3, <2>1, <2>2 DEF FeedInv, FeedShape
  <2>4. ASSUME ~apart' \/ ~unseen'
        PROVE  versions' = versions
    <3>1. buffer[s] = <<>>
      BY <1>4, <2>4 DEF Feeds!Commit
    <3> QED
      BY <1>2, <1>3, <3>1, FeedFacts, ApplyNothing, StartFacts
  <2>5. (~apart' => ~apart) /\ (~unseen' => ~unseen)
    BY <1>4 DEF Feeds!Commit
  <2>6. ReplicaHas'
    BY <2>2, <2>4, <2>5 DEF FeedInv, ReplicaHas
  <2>7. ReaderHas'
    BY <2>2, <2>4, <2>5 DEF FeedInv, ReaderHas
  <2> QED
    BY <2>3, <2>6, <2>7 DEF FeedInv
<1>5. CASE Feeds!CommitThrows(s)
  <2>1. /\ apart' = TRUE /\ unseen' = TRUE /\ changed' \subseteq DOMAIN buffer /\ issued' \in 0 .. MaxStatements
        /\ UNCHANGED <<buffer, binlog, cdcOn, events, base, survived>>
    <3>1. issued' = issued + 1 /\ issued < MaxStatements /\ issued \in 0 .. MaxStatements
      BY <1>5 DEF FeedInv, FeedShape, Feeds!CommitThrows
    <3>2. issued' \in 0 .. MaxStatements
      BY <3>1, FeedsAssumption
    <3>3. changed' \subseteq DOMAIN buffer
      BY <1>1, <1>5 DEF FeedInv, FeedShape, Feeds!CommitThrows
    <3> QED
      BY <1>5, <3>2, <3>3 DEF Feeds!CommitThrows
  <2>2. FeedShape'
    BY <1>3, <2>1 DEF FeedInv, FeedShape
  <2> QED
    BY <2>1, <2>2 DEF FeedInv, ReplicaHas, ReaderHas
<1> QED
  BY <1>4, <1>5

\* A statement outside a transaction, or one that is executed at once.
LEMMA DirectKeepsFeeds ==
  ASSUME NEW s \in Writers, NEW st \in Statements, FeedInv, Feeds!Direct(s, st)
  PROVE  FeedInv'
<1>1. /\ versions \in Seq(Feeds!Version) /\ Once(versions) /\ st \in Feeds!Statement
      /\ binlog \in Seq(Feeds!Statement) /\ events \in Seq(FeedEvents)
  BY FeedFacts, LoggedStatements
<1>2. PICK r \in Accs : r = Feeds!Executed(Feeds!Start(versions), st) /\ Once(r.rows)
  BY <1>1, ExecutedRows
<1>3. PICK recs \in Seq(FeedEvents) :
        /\ recs = Feeds!Recorded(versions, st)
        /\ Feeds!Tracked(st) => Feeds!FollowAll(Feeds!Visible(versions), recs) = Feeds!Visible(r.rows)
  BY <1>1, <1>2, RecordedFollows
<1>4. /\ versions' = r.rows /\ versions' \in Seq(Feeds!Version) /\ Once(versions')
      /\ events' = (IF cdcOn THEN events \o recs ELSE events)
      /\ unseen' = (unseen \/ ~Feeds!Tracked(st))
      /\ UNCHANGED <<buffer, cdcOn, base, survived>>
  BY <1>2, <1>3, AccFields DEF Feeds!Direct
<1>5. IF r.ok /\ Feeds!Logged(versions, st) THEN Feeds!Log(st) ELSE binlog' = binlog /\ apart' = (apart \/ ~r.ok)
  BY <1>2 DEF Feeds!Direct
<1>6. PICK saved \in BOOLEAN :
        \/ r.ok /\ Feeds!Logged(versions, st) /\ binlog' = (IF saved THEN Append(binlog, st) ELSE binlog) /\ apart' = (apart \/ ~saved)
        \/ ~(r.ok /\ Feeds!Logged(versions, st)) /\ binlog' = binlog /\ apart' = (apart \/ ~r.ok)
  BY <1>5 DEF Feeds!Log
<1>7. FeedShape'
  <2>1. issued' \in 0 .. MaxStatements
    <3>1. issued' = issued + 1 /\ issued < MaxStatements /\ issued \in 0 .. MaxStatements
      BY DEF FeedInv, FeedShape, Feeds!Direct
    <3> QED
      BY <3>1, FeedsAssumption
  <2>2. changed' \subseteq DOMAIN buffer
    BY DEF FeedInv, FeedShape, Feeds!Direct, Feeds!InTx
  <2>3. binlog' \in Seq(Statements) /\ apart' \in BOOLEAN
    <3>1. binlog \in Seq(Statements) /\ Append(binlog, st) \in Seq(Statements) /\ apart \in BOOLEAN
      BY DEF FeedInv, FeedShape
    <3> QED
      BY <1>6, <3>1
  <2>4. events' \in Seq(FeedEvents) /\ base.events \in 0 .. Len(events')
    <3>1. events \o recs \in Seq(FeedEvents) /\ Len(events \o recs) = Len(events) + Len(recs) /\ Len(recs) \in Nat /\ Len(events) \in Nat
      BY <1>1
    <3>2. base.events \in 0 .. Len(events)
      BY DEF FeedInv, FeedShape
    <3>3. base.events \in 0 .. Len(events \o recs)
      BY <3>1, <3>2
    <3> QED
      BY <1>1, <1>4, <3>1, <3>2, <3>3
  <2>5. unseen' \in BOOLEAN
    BY <1>4 DEF FeedInv, FeedShape, Feeds!Tracked
  <2> QED
    BY <1>4, <2>1, <2>2, <2>3, <2>4, <2>5 DEF FeedInv, FeedShape
<1>8. ReplicaHas'
  <2> SUFFICES ASSUME ~apart'
               PROVE  Feeds!ReplicaRows(binlog') = versions'
    BY DEF ReplicaHas
  <2>1. ~apart /\ Feeds!ReplicaRows(binlog) = versions
    BY <1>6 DEF FeedInv, ReplicaHas
  <2>2. CASE r.ok /\ Feeds!Logged(versions, st)
    <3>1. binlog' = Append(binlog, st)
      BY <1>6, <2>2
    <3> QED
      BY <1>1, <1>2, <1>4, <2>1, <3>1, ReplicaAppend
  <2>3. CASE ~(r.ok /\ Feeds!Logged(versions, st))
    <3>1. binlog' = binlog /\ ~Feeds!Logged(versions, st)
      BY <1>6, <2>3
    <3>2. r.rows = versions
      BY <1>1, <1>2, <3>1, UnloggedChangesNothing
    <3> QED
      BY <1>4, <2>1, <3>1, <3>2
  <2> QED
    BY <2>2, <2>3
<1>9. ReaderHas'
  <2> SUFFICES ASSUME cdcOn', ~unseen'
               PROVE  Reader(base', events') = Feeds!Visible(versions')
    BY DEF ReaderHas
  <2>1. cdcOn /\ ~unseen /\ Feeds!Tracked(st) /\ events' = events \o recs
    BY <1>4
  <2>2. Reader(base, events) = Feeds!Visible(versions)
    BY <2>1 DEF FeedInv, ReaderHas
  <2>3. base.rows \in SUBSET Feeds!Image /\ base.events \in 0 .. Len(events)
    BY DEF FeedInv, FeedShape
  <2>4. Reader(base, events \o recs) = Feeds!FollowAll(Reader(base, events), recs)
    BY <1>1, <2>3, ReaderGoesOn
  <2> QED
    BY <1>3, <1>4, <2>1, <2>2, <2>4
<1> QED
  BY <1>7, <1>8, <1>9 DEF FeedInv

\* A statement in a transaction waits in its buffer.
LEMMA BufferKeepsFeeds ==
  ASSUME NEW s \in Writers, NEW st \in Statements, FeedInv, Feeds!Buffer(s, st)
  PROVE  FeedInv'
<1>1. st \in Feeds!Statement
  BY LoggedStatements
<1>2. PICK ops : /\ ops = IF st.type = "INSERT" THEN [i \in DOMAIN st.keys |-> [st EXCEPT !.keys = <<st.keys[i]>>]] ELSE <<st>>
                 /\ buffer' = [buffer EXCEPT ![s] = @ \o ops] /\ s \in DOMAIN buffer
  BY DEF Feeds!Buffer, Feeds!InTx
<1>3. ops \in Seq(Feeds!Statement)
  <2>1. CASE st.type # "INSERT"
    BY <1>1, <1>2, <2>1
  <2>2. CASE st.type = "INSERT"
    <3>1. PICK n \in Nat : DOMAIN st.keys = 1 .. n /\ \A i \in 1 .. n : st.keys[i] \in RowKeys
      BY <1>1, StatementFields
    <3>2. ASSUME NEW i \in 1 .. n
          PROVE  [st EXCEPT !.keys = <<st.keys[i]>>] \in Feeds!Statement
      <4>1. <<st.keys[i]>> \in Seq(RowKeys)
        BY <3>1
      <4> QED
        BY <1>1, <4>1 DEF Feeds!Statement
    <3>3. ops = [i \in 1 .. n |-> ops[i]] /\ \A i \in 1 .. n : ops[i] \in Feeds!Statement
      BY <1>2, <2>2, <3>1, <3>2
    <3> QED
      BY <3>3, FunctionIsSeq
  <2> QED
    BY <2>1, <2>2
<1>4. /\ DOMAIN buffer' = DOMAIN buffer
      /\ \A x \in DOMAIN buffer : buffer'[x] \in Seq(Feeds!Statement)
  <2>1. \A x \in DOMAIN buffer : buffer[x] \in Seq(Feeds!Statement)
    BY DEF FeedInv, FeedShape
  <2>2. buffer[s] \o ops \in Seq(Feeds!Statement)
    BY <1>2, <1>3, <2>1
  <2> QED
    BY <1>2, <2>1, <2>2
<1>5. /\ binlog' \in {binlog, Append(binlog, st)} /\ (~apart' => ~apart /\ binlog' = binlog)
      /\ apart' \in BOOLEAN
      /\ UNCHANGED <<versions, cdcOn, events, base, unseen, changed, survived>>
  BY DEF Feeds!Buffer, FeedInv, FeedShape
<1>6. issued' \in 0 .. MaxStatements
  <2>1. issued' = issued + 1 /\ issued < MaxStatements /\ issued \in 0 .. MaxStatements
    BY DEF FeedInv, FeedShape, Feeds!Buffer
  <2> QED
    BY <2>1, FeedsAssumption
<1>7. binlog' \in Seq(Statements)
  <2>1. binlog \in Seq(Statements) /\ Append(binlog, st) \in Seq(Statements)
    BY DEF FeedInv, FeedShape
  <2> QED
    BY <1>5, <2>1
<1>8. FeedShape'
  BY <1>4, <1>5, <1>6, <1>7 DEF FeedInv, FeedShape
<1> QED
  BY <1>5, <1>8 DEF FeedInv, ReplicaHas, ReaderHas

\* The invariant of the feeds holds always.
LEMMA FeedInvHolds == AllSpec => []FeedInv
<1>1. AllInit({"transactions", "store", "caches", "feeds"}) => FeedInv
  BY FeedInvInit DEF AllInit
<1>2. FeedInv /\ Feeds!Next => FeedInv'
  BY SwitchKeepsFeeds, BeginAndRollbackKeepFeeds, CommitKeepsFeeds, DirectKeepsFeeds, BufferKeepsFeeds DEF Feeds!Next
<1>3. ASSUME FeedInv, UNCHANGED feeds
      PROVE  FeedInv'
  BY <1>3 DEF feeds, FeedInv, FeedShape, ReplicaHas, ReaderHas
<1>4. [AllNext]_all => Feeds!Next \/ UNCHANGED feeds
  BY DEF AllNext, all
<1> QED
  BY <1>1, <1>2, <1>3, <1>4, PTL DEF AllSpec

\* Whoever replays the binlog, as long as every statement was logged when it was applied, or
\* follows the change events of statements that record what they do, has the table.
THEOREM FeedsAreFaithful == AllSpec => []FeedsFollowTable
<1>1. FeedInv => FeedsFollowTable
  <2> SUFFICES ASSUME FeedInv
               PROVE  Feeds!FeedsFollowTable
    BY DEF FeedsFollowTable
  <2>1. ~apart => Feeds!Replica = Feeds!Visible(versions)
    BY DEF FeedInv, ReplicaHas, Feeds!Replica
  <2>2. cdcOn /\ ~unseen => Feeds!Follower = Feeds!Visible(versions)
    BY DEF FeedInv, ReaderHas, Reader, Feeds!Follower
  <2> QED
    BY <2>1, <2>2 DEF Feeds!FeedsFollowTable
<1> QED
  BY <1>1, FeedInvHolds, PTL
-----------------------------------------------------------------------------
\* In every behaviour of every part, the states have the types that the modules give them.
THEOREM EngineTypes == AllSpec => []AllTypeOK
<1>1. AllInit({"transactions", "store", "caches", "feeds"}) => TmInv
  BY TmInvInit DEF AllInit
<1>2. TmInv /\ [AllNext]_all => TmInv'
  <2>1. [AllNext]_all => [Next]_vars
    BY DEF AllNext, all
  <2> QED
    BY <2>1, TmInvStep
<1>3. AllSpec => []TmInv
  BY <1>1, <1>2, PTL DEF AllSpec
<1>4. TmInv => TypeOK
  BY DEF TmInv
<1>5. StoreInv => Store!TypeOK
  BY DEF StoreInv, Store!TypeOK, RowSet, Store!Vals
<1>6. ASSUME CachesInv
      PROVE  Caches!TypeOK
  <2>1. engine \in Seq(Caches!Entry) /\ user \in Seq(Caches!Entry)
    BY <1>6, SeqOver DEF CachesInv, CacheShape, EngineEntryOK, UserEntryOK
  <2>2. /\ Len(engine) <= MaxSize /\ Len(user) <= maxEntries
        /\ \A c \in {engine, user} : \A i, j \in DOMAIN c : c[i].key = c[j].key => i = j
    BY <1>6 DEF CachesInv, CacheShape
  <2> QED
    BY <1>6, <2>1, <2>2 DEF CachesInv, Caches!TypeOK, Caches!InTx
<1>7. ASSUME FeedInv
      PROVE  Feeds!TypeOK
  <2>1. \A a, b \in Feeds!Visible(versions) : a.key = b.key => a = b
    BY <1>7, VisibleRows DEF FeedInv, FeedShape, OneEach
  <2>2. {cdcOn, apart, unseen, survived} \subseteq BOOLEAN
    BY <1>7 DEF FeedInv, FeedShape
  <2>3. events \in Seq([old : SUBSET Feeds!Image, new : SUBSET Feeds!Image])
    BY <1>7 DEF FeedInv, FeedShape, FeedEvents
  <2> QED
    BY <1>7, <2>1, <2>2, <2>3 DEF FeedInv, FeedShape, Feeds!TypeOK, Feeds!InTx
<1> QED
  BY <1>3, <1>4, <1>5, <1>6, <1>7, StoreInvHolds, CachesInvHolds, FeedInvHolds, PTL DEF AllTypeOK
=============================================================================
