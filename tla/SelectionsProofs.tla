-------------------------- MODULE SelectionsProofs --------------------------
(***************************************************************************)
(* What is selected is what was asked for, in the same order.              *)
(***************************************************************************)
EXTENDS Selections, FiniteSetTheorems, SequenceTheorems, NaturalsInduction, TLAPS

\* A set of numbers that is not empty has a smallest one.
LEMMA NatMin ==
  ASSUME NEW T \in SUBSET Nat, T # {}
  PROVE  \E x \in T : \A y \in T : x <= y
<1>1. PICK x \in T : \A y \in T : ~(<<y, x>> \in OpToRel(<, Nat))
  BY NatLessThanWellFounded, WFMin
<1>2. \A y \in T : ~(y < x)
  BY <1>1 DEF OpToRel
<1> QED
  BY <1>2

\* A function on 1 .. n is a sequence of its values.
LEMMA FunctionIsSeq ==
  ASSUME NEW V, NEW n \in Nat, NEW f, f = [i \in 1 .. n |-> f[i]], \A i \in 1 .. n : f[i] \in V
  PROVE  f \in Seq(V) /\ Len(f) = n /\ DOMAIN f = 1 .. n
OBVIOUS

\* A sequence over a set is one over any larger set, or over any that has its entries.
LEMMA SeqOver ==
  ASSUME NEW V, NEW W, NEW s \in Seq(V), \A i \in 1 .. Len(s) : s[i] \in W
  PROVE  s \in Seq(W)
<1>1. Len(s) \in Nat /\ s \in [1 .. Len(s) -> V]
  BY LenProperties
<1>2. s = [i \in 1 .. Len(s) |-> s[i]]
  BY <1>1
<1> QED
  BY <1>1, <1>2, FunctionIsSeq

LOCAL Rank(S, x) == Cardinality({y \in S : y < x})

\* Ranks are numbers below the size of the set, and order them as their elements.
LEMMA RankType ==
  ASSUME NEW S \in SUBSET Nat, IsFiniteSet(S), NEW x \in S
  PROVE  Rank(S, x) \in 0 .. Cardinality(S) - 1
<1>1. {y \in S : y < x} \in SUBSET (S \ {x})
  OBVIOUS
<1>2. IsFiniteSet(S \ {x}) /\ Cardinality(S \ {x}) = Cardinality(S) - 1
  BY FS_RemoveElement
<1>3. Rank(S, x) <= Cardinality(S) - 1 /\ IsFiniteSet({y \in S : y < x})
  BY <1>1, <1>2, FS_Subset DEF Rank
<1> QED
  BY <1>3, FS_CardinalityType DEF Rank

\* A larger element has a larger rank.
LEMMA RankIncreases ==
  ASSUME NEW S \in SUBSET Nat, IsFiniteSet(S), NEW x \in S, NEW z \in S, x < z
  PROVE  Rank(S, x) < Rank(S, z)
<1> DEFINE X == {y \in S : y < x}
           Z == {y \in S : y < z}
<1>1. X \in SUBSET Z /\ x \in Z \ X
  <2>1. \A y \in S : y < x => y < z
    OBVIOUS
  <2>2. ~(x < x)
    OBVIOUS
  <2> QED
    BY <2>1, <2>2
<1>2. IsFiniteSet(Z)
  <2>1. Z \in SUBSET S
    OBVIOUS
  <2> QED
    BY <2>1, FS_Subset
<1>3. IsFiniteSet(X) /\ Cardinality(X) <= Cardinality(Z) /\ (Cardinality(Z) = Cardinality(X) => Z = X)
  BY <1>1, <1>2, FS_Subset
<1>4. Cardinality(X) \in Nat /\ Cardinality(Z) \in Nat
  BY <1>2, <1>3, FS_CardinalityType
<1> QED
  BY <1>1, <1>3, <1>4 DEF Rank

\* Every rank is taken.
LEMMA RankIsOnto ==
  ASSUME NEW S \in SUBSET Nat, IsFiniteSet(S), NEW i \in 1 .. Cardinality(S)
  PROVE  Nth(S, i) \in S /\ Rank(S, Nth(S, i)) = i - 1
<1> DEFINE n == Cardinality(S)
           T == 0 .. n - 1
           f == [x \in S |-> Rank(S, x)]
<1>1. n \in Nat
  BY FS_CardinalityType
<1>2. f \in [S -> T]
  BY RankType
<1>3. ASSUME NEW x \in S, NEW z \in S, f[x] = f[z]
      PROVE  x = z
  <2>1. Rank(S, x) \in Nat /\ Rank(S, z) \in Nat
    BY <1>1, RankType
  <2>2. ~(x < z) /\ ~(z < x)
    BY <1>3, <2>1, RankIncreases
  <2> QED
    BY <2>2
<1>4. f \in Injection(S, T)
  BY <1>2, <1>3 DEF Injection, IsInjective
<1>5. IsFiniteSet(T) /\ Cardinality(T) = n
  <2>1. 0 \in Int /\ n - 1 \in Int /\ (0 > n - 1 <=> n = 0) /\ n - 1 - 0 + 1 = n
    BY <1>1
  <2> HIDE DEF n
  <2> QED
    BY <2>1, FS_Interval
<1>6. f \in Surjection(S, T)
  BY <1>4, <1>5, FS_Injection
<1>7. \E x \in S : f[x] = i - 1
  <2>1. i - 1 \in T
    BY <1>1
  <2> HIDE DEF T, f
  <2> QED
    BY <2>1, <1>6 DEF Surjection
<1> QED
  BY <1>7 DEF Nth, Rank

\* Ascending lists each element of the set once, the smaller before the larger.
LEMMA AscendingLists ==
  ASSUME NEW S \in SUBSET Nat, IsFiniteSet(S)
  PROVE  /\ Cardinality(S) \in Nat /\ Len(Ascending(S)) = Cardinality(S)
         /\ Ascending(S) \in Seq(S)
         /\ \A i \in 1 .. Cardinality(S) : Ascending(S)[i] \in S
         /\ \A i, j \in 1 .. Cardinality(S) : i < j => Ascending(S)[i] < Ascending(S)[j]
         /\ \A x \in S : \E i \in 1 .. Cardinality(S) : Ascending(S)[i] = x
<1> DEFINE n == Cardinality(S)
           a == Ascending(S)
<1>1. n \in Nat
  BY FS_CardinalityType
<1>2. \A i \in 1 .. n : a[i] \in S /\ Rank(S, a[i]) = i - 1
  BY RankIsOnto DEF Ascending
<1>3. a = [i \in 1 .. n |-> a[i]]
  BY DEF Ascending
<1>4. Len(a) = n /\ a \in Seq(S)
  BY <1>1, <1>2, <1>3
<1>5. ASSUME NEW x \in S, NEW z \in S, Rank(S, x) <= Rank(S, z)
      PROVE  x <= z
  <2>1. Rank(S, x) \in Nat /\ Rank(S, z) \in Nat
    BY <1>1, RankType
  <2>2. ~(z < x)
    BY <1>5, <2>1, RankIncreases
  <2> QED
    BY <2>2
<1>6. ASSUME NEW i \in 1 .. n, NEW j \in 1 .. n, i < j
      PROVE  a[i] < a[j]
  <2>1. a[i] \in S /\ a[j] \in S /\ Rank(S, a[i]) = i - 1 /\ Rank(S, a[j]) = j - 1
    BY <1>2
  <2>2. i \in Nat /\ j \in Nat /\ i - 1 < j - 1 /\ i - 1 # j - 1 /\ i - 1 <= j - 1
    BY <1>1, <1>6
  <2>3. a[i] <= a[j]
    BY <2>1, <2>2, <1>5
  <2>4. a[i] # a[j]
    BY <2>1, <2>2
  <2>5. a[i] \in Nat /\ a[j] \in Nat
    BY <2>1
  <2> HIDE DEF a
  <2> QED
    BY <2>3, <2>4, <2>5
<1>7. ASSUME NEW x \in S
      PROVE  \E i \in 1 .. n : a[i] = x
  <2>1. Rank(S, x) \in 0 .. n - 1
    BY RankType
  <2> DEFINE i == Rank(S, x) + 1
  <2>2. i \in 1 .. n /\ i - 1 = Rank(S, x)
    BY <1>1, <2>1
  <2> HIDE DEF i
  <2>3. a[i] \in S /\ Rank(S, a[i]) = Rank(S, x)
    BY <1>2, <2>2
  <2>4. Rank(S, x) <= Rank(S, x) /\ Rank(S, x) \in Nat
    BY <2>1, <1>1
  <2>5. a[i] <= x /\ x <= a[i]
    BY <1>5, <2>3, <2>4
  <2>6. a[i] \in Nat /\ x \in Nat
    BY <2>3
  <2>7. a[i] = x
    BY <2>5, <2>6
  <2> QED
    BY <2>7, <2>2
<1> QED
  BY <1>1, <1>2, <1>4, <1>6, <1>7

\* Picked is the sequence read at those positions.
LEMMA PickedReads ==
  ASSUME NEW V, NEW s \in Seq(V), NEW P \in SUBSET DOMAIN s
  PROVE  /\ IsFiniteSet(P) /\ P \in SUBSET Nat
         /\ Len(Picked(s, P)) = Cardinality(P)
         /\ Picked(s, P) \in Seq(V)
         /\ \A i \in 1 .. Cardinality(P) : Picked(s, P)[i] = s[Ascending(P)[i]]
<1>1. DOMAIN s = 1 .. Len(s) /\ Len(s) \in Nat
  OBVIOUS
<1>2. IsFiniteSet(1 .. Len(s))
  BY <1>1, FS_Interval
<1>3. IsFiniteSet(P) /\ P \in SUBSET Nat
  BY <1>1, <1>2, FS_Subset
<1>4. \A i \in 1 .. Cardinality(P) : Ascending(P)[i] \in P /\ Picked(s, P)[i] = s[Ascending(P)[i]]
  BY <1>3, AscendingLists DEF Ascending, Picked
<1>5. Cardinality(P) \in Nat
  BY <1>3, FS_CardinalityType
<1>6. Picked(s, P) = [i \in 1 .. Cardinality(P) |-> Picked(s, P)[i]]
  BY DEF Picked
<1>7. \A i \in 1 .. Cardinality(P) : Picked(s, P)[i] \in V
  BY <1>4
<1> QED
  BY <1>3, <1>4, <1>5, <1>6, <1>7

\* An increasing enumeration of a set is the sequence Ascending.
LEMMA EnumerationIsAscending ==
  ASSUME NEW T \in SUBSET Nat, NEW n \in Nat, NEW a \in [1 .. n -> T],
         \A i, j \in 1 .. n : i < j => a[i] < a[j],
         \A x \in T : \E i \in 1 .. n : a[i] = x
  PROVE  IsFiniteSet(T) /\ Cardinality(T) = n /\ \A i \in 1 .. n : Ascending(T)[i] = a[i]
<1>1. ASSUME NEW i \in 1 .. n, NEW j \in 1 .. n, a[i] = a[j]
      PROVE  i = j
  <2>1. a[i] \in Nat /\ a[j] \in Nat
    OBVIOUS
  <2>2. ~(i < j) /\ ~(j < i)
    BY <1>1, <2>1
  <2> QED
    BY <2>2
<1>2. ASSUME NEW m \in 0 .. n, NEW U, U = {a[j] : j \in 1 .. m}
      PROVE  IsFiniteSet(U) /\ Cardinality(U) = m
  <2> DEFINE b == [j \in 1 .. m |-> a[j]]
  <2>1. m \in Nat /\ 1 .. m \subseteq 1 .. n
    OBVIOUS
  <2>2. b \in Bijection(1 .. m, U)
    BY <1>1, <1>2, <2>1 DEF Bijection, Injection, Surjection, IsInjective
  <2>3. IsFiniteSet(1 .. m) /\ Cardinality(1 .. m) = m
    BY <2>1, FS_Interval
  <2> HIDE DEF b
  <2> QED
    BY <2>2, <2>3, FS_Bijection DEF ExistsBijection
<1>3. T = {a[j] : j \in 1 .. n} /\ n \in 0 .. n
  <2>1. n \in 0 .. n
    OBVIOUS
  <2>2. \A j \in 1 .. n : a[j] \in T
    OBVIOUS
  <2> QED
    BY <2>1, <2>2, Zenon
<1>4. IsFiniteSet(T) /\ Cardinality(T) = n
  BY <1>2, <1>3
<1>5. ASSUME NEW i \in 1 .. n
      PROVE  Ascending(T)[i] = a[i]
  <2> DEFINE U == {y \in T : y < a[i]}
  <2>1. U = {a[j] : j \in 1 .. (i - 1)}
    <3>1. ASSUME NEW y \in U
          PROVE  y \in {a[j] : j \in 1 .. (i - 1)}
      <4>1. PICK j \in 1 .. n : a[j] = y
        OBVIOUS
      <4>2. a[j] < a[i] /\ a[j] \in Nat /\ a[i] \in Nat
        BY <4>1
      <4>3. j < i
        <5>1. ~(i < j) /\ i # j
          BY <4>2
        <5> QED
          BY <5>1
      <4>4. j \in 1 .. (i - 1)
        BY <4>3
      <4> QED
        BY <4>1, <4>4
    <3>2. ASSUME NEW j \in 1 .. (i - 1)
          PROVE  a[j] \in U
      <4>1. j \in 1 .. n /\ j < i
        OBVIOUS
      <4> QED
        BY <4>1
    <3> QED
      BY <3>1, <3>2
  <2>2. i - 1 \in 0 .. n
    OBVIOUS
  <2>3. Rank(T, a[i]) = i - 1
    BY <1>2, <2>1, <2>2 DEF Rank
  <2>4. i \in 1 .. Cardinality(T)
    BY <1>4
  <2>5. Nth(T, i) \in T /\ Rank(T, Nth(T, i)) = i - 1
    BY <1>4, <2>4, RankIsOnto
  <2>6. ~(Nth(T, i) < a[i]) /\ ~(a[i] < Nth(T, i))
    <3> DEFINE x == Nth(T, i)
    <3>1. i - 1 \in Nat /\ ~(i - 1 < i - 1)
      OBVIOUS
    <3>2. x \in T /\ Rank(T, x) = i - 1 /\ a[i] \in T /\ Rank(T, a[i]) = i - 1
      BY <2>3, <2>5
    <3> HIDE DEF x
    <3>3. x < a[i] => Rank(T, x) < Rank(T, a[i])
      BY <1>4, <3>2, RankIncreases
    <3>4. a[i] < x => Rank(T, a[i]) < Rank(T, x)
      BY <1>4, <3>2, RankIncreases
    <3> QED
      BY <3>1, <3>2, <3>3, <3>4 DEF x
  <2>7. Nth(T, i) \in Nat /\ a[i] \in Nat
    BY <2>5
  <2>8. Nth(T, i) = a[i]
    BY <2>6, <2>7
  <2> QED
    BY <2>4, <2>8 DEF Ascending
<1> QED
  BY <1>4, <1>5

\* Two sequences are equal when they have the same length and entries.
LEMMA SameEntries ==
  ASSUME NEW n, NEW f, NEW g, f = [i \in 1 .. n |-> f[i]], g = [i \in 1 .. n |-> g[i]],
         \A i \in 1 .. n : f[i] = g[i]
  PROVE  f = g
<1>1. [i \in 1 .. n |-> f[i]] = [i \in 1 .. n |-> g[i]]
  OBVIOUS
<1> QED
  BY <1>1

\* What is picked, by its places in the order of the positions.
LEMMA PickedShape ==
  ASSUME NEW V, NEW s \in Seq(V), NEW P \in SUBSET DOMAIN s
  PROVE  /\ Cardinality(P) \in Nat /\ DOMAIN Picked(s, P) = 1 .. Cardinality(P)
         /\ Picked(s, P) = [i \in 1 .. Cardinality(P) |-> Picked(s, P)[i]]
         /\ \A i \in 1 .. Cardinality(P) : Ascending(P)[i] \in P
<1>1. IsFiniteSet(P) /\ P \in SUBSET Nat
  BY PickedReads
<1> QED
  BY <1>1, AscendingLists DEF Picked

\* Picking from what is picked is picking fewer.
LEMMA PickedTwice ==
  ASSUME NEW V, NEW s \in Seq(V), NEW P \in SUBSET DOMAIN s, NEW T \in SUBSET P,
         NEW Q, Q = {j \in DOMAIN Picked(s, P) : Ascending(P)[j] \in T}
  PROVE  Picked(Picked(s, P), Q) = Picked(s, T)
<1> DEFINE m == Cardinality(P)
           n == Cardinality(Q)
           p == Ascending(P)
           q == Ascending(Q)
           a == [i \in 1 .. n |-> p[q[i]]]
<1>1. /\ m \in Nat /\ DOMAIN Picked(s, P) = 1 .. m
      /\ IsFiniteSet(P) /\ P \in SUBSET Nat /\ Picked(s, P) \in Seq(V)
      /\ \A i \in 1 .. m : Picked(s, P)[i] = s[p[i]] /\ p[i] \in P
  BY PickedReads, PickedShape
<1>2. /\ \A i, j \in 1 .. m : i < j => p[i] < p[j]
      /\ \A x \in P : \E i \in 1 .. m : p[i] = x
  BY <1>1, AscendingLists
<1>3. Q \in SUBSET DOMAIN Picked(s, P)
  OBVIOUS
<1>4. /\ n \in Nat /\ \A i \in 1 .. n : q[i] \in Q /\ q[i] \in 1 .. m /\ p[q[i]] \in T
      /\ IsFiniteSet(Q) /\ Q \in SUBSET Nat
      /\ \A i \in 1 .. n : Picked(Picked(s, P), Q)[i] = Picked(s, P)[q[i]]
  <2>1. n \in Nat /\ \A i \in 1 .. n : q[i] \in Q
    BY <1>1, <1>3, PickedShape
  <2>2. /\ IsFiniteSet(Q) /\ Q \in SUBSET Nat
        /\ \A i \in 1 .. n : Picked(Picked(s, P), Q)[i] = Picked(s, P)[q[i]]
    BY SMTT(40), <1>1, <1>3, PickedReads
  <2> QED
    BY <1>1, <2>1, <2>2
<1>5. /\ \A i, j \in 1 .. n : i < j => q[i] < q[j]
      /\ \A x \in Q : \E i \in 1 .. n : q[i] = x
  BY <1>4, AscendingLists
<1> HIDE DEF m, n, p, q
<1>6. a \in [1 .. n -> T]
  BY <1>4
<1>7. \A i, j \in 1 .. n : i < j => a[i] < a[j]
  BY <1>2, <1>4, <1>5
<1>8. ASSUME NEW x \in T
      PROVE  \E i \in 1 .. n : a[i] = x
  <2>1. PICK j \in 1 .. m : p[j] = x
    BY <1>2
  <2>2. j \in Q
    BY <1>1, <2>1 DEF p
  <2>3. PICK i \in 1 .. n : q[i] = j
    BY <1>5, <2>2
  <2> QED
    BY <2>1, <2>3
<1>9. T \in SUBSET Nat
  BY <1>1
<1>10. Cardinality(T) = n /\ \A i \in 1 .. n : Ascending(T)[i] = a[i]
  <2> HIDE DEF a
  <2> QED
    BY ZenonT(60), <1>4, <1>6, <1>7, <1>8, <1>9, EnumerationIsAscending
<1>11. T \in SUBSET DOMAIN s
  OBVIOUS
<1>12. /\ Picked(s, T) = [i \in 1 .. n |-> Picked(s, T)[i]]
       /\ \A i \in 1 .. n : Picked(s, T)[i] = s[Ascending(T)[i]]
  BY <1>10, <1>11, PickedReads, PickedShape
<1>13. Picked(Picked(s, P), Q) = [i \in 1 .. n |-> Picked(Picked(s, P), Q)[i]]
  BY <1>1, <1>3, PickedShape DEF n
<1>14. \A i \in 1 .. n : Picked(Picked(s, P), Q)[i] = Picked(s, T)[i]
  BY <1>1, <1>4, <1>10, <1>12
<1> QED
  BY <1>12, <1>13, <1>14, SameEntries

\* Nothing is picked at no position.
LEMMA PickedNowhere ==
  ASSUME NEW s
  PROVE  Picked(s, {}) = <<>>
<1>1. Cardinality({}) = 0
  BY FS_EmptySet
<1>2. 1 .. 0 = {}
  OBVIOUS
<1> QED
  BY <1>1, <1>2 DEF Picked

\* A new entry at the end is picked last.
LEMMA PickedAppend ==
  ASSUME NEW V, NEW s \in Seq(V), NEW x \in V, NEW P \in SUBSET DOMAIN s,
         NEW R, R = P \cup {Len(s) + 1}
  PROVE  Picked(Append(s, x), R) = Append(Picked(s, P), x)
<1> DEFINE m == Cardinality(P)
           k == Len(s) + 1
           p == Ascending(P)
           t == Append(s, x)
           a == [i \in 1 .. (m + 1) |-> IF i = m + 1 THEN k ELSE p[i]]
<1>1. /\ Len(s) \in Nat /\ DOMAIN s = 1 .. Len(s)
      /\ t \in Seq(V) /\ Len(t) = k /\ DOMAIN t = 1 .. k /\ t[k] = x /\ \A i \in 1 .. Len(s) : t[i] = s[i]
  BY AppendProperties
<1>2. /\ m \in Nat /\ IsFiniteSet(P) /\ P \in SUBSET Nat /\ Picked(s, P) \in Seq(V) /\ Len(Picked(s, P)) = m
      /\ \A i \in 1 .. m : Picked(s, P)[i] = s[p[i]] /\ p[i] \in P
  BY PickedReads, PickedShape
<1>3. /\ \A i, j \in 1 .. m : i < j => p[i] < p[j]
      /\ \A y \in P : \E i \in 1 .. m : p[i] = y
  BY <1>2, AscendingLists
<1>4. \A i \in 1 .. m : p[i] \in Nat /\ p[i] < k
  BY <1>1, <1>2
<1>5. /\ R \in SUBSET Nat /\ R \in SUBSET DOMAIN t /\ k \in Nat /\ m + 1 \in Nat /\ P \subseteq R /\ k \in R
      /\ \A y \in R : y \in P \/ y = k
  BY <1>1, <1>2
<1> HIDE DEF m, p, k, t
<1>6. /\ a \in [1 .. (m + 1) -> R] /\ a[m + 1] = k
      /\ \A i \in 1 .. m : i \in 1 .. (m + 1) /\ a[i] = p[i]
      /\ \A i \in 1 .. (m + 1) : i \in 1 .. m \/ i = m + 1
  <2>1. \A i \in 1 .. m : i \in 1 .. (m + 1) /\ i # m + 1
    BY <1>2
  <2>2. \A i \in 1 .. (m + 1) : i \in 1 .. m \/ i = m + 1
    BY <1>2
  <2>3. m + 1 \in 1 .. (m + 1)
    BY <1>2
  <2> QED
    BY <1>2, <1>5, <2>1, <2>2, <2>3
<1>7. ASSUME NEW i \in 1 .. (m + 1), NEW j \in 1 .. (m + 1), i < j
      PROVE  a[i] < a[j]
  <2>1. i \in 1 .. m
    BY <1>2, <1>6, <1>7
  <2>2. CASE j = m + 1
    BY <1>4, <1>6, <2>1, <2>2
  <2>3. CASE j \in 1 .. m
    BY <1>3, <1>6, <1>7, <2>1, <2>3
  <2> QED
    BY <1>6, <2>2, <2>3
<1>8. \A y \in R : \E i \in 1 .. (m + 1) : a[i] = y
  <2>1. m + 1 \in 1 .. (m + 1)
    BY <1>2
  <2> QED
    BY <1>3, <1>5, <1>6, <2>1
<1> HIDE DEF a
<1>9. Cardinality(R) = m + 1 /\ \A i \in 1 .. (m + 1) : Ascending(R)[i] = a[i]
  <2>1. PICK n \in Nat : n = m + 1
    BY <1>5
  <2>2. /\ a \in [1 .. n -> R] /\ \A i, j \in 1 .. n : i < j => a[i] < a[j]
        /\ \A y \in R : \E i \in 1 .. n : a[i] = y
    BY <1>6, <1>7, <1>8, <2>1
  <2>3. Cardinality(R) = n /\ \A i \in 1 .. n : Ascending(R)[i] = a[i]
    BY <1>5, <2>2, EnumerationIsAscending
  <2> QED
    BY <2>1, <2>3
<1>10. /\ Picked(t, R) = [i \in 1 .. (m + 1) |-> Picked(t, R)[i]]
       /\ \A i \in 1 .. (m + 1) : Picked(t, R)[i] = t[a[i]]
  <2>1. Picked(t, R) = [i \in 1 .. Cardinality(R) |-> Picked(t, R)[i]]
    BY <1>1, <1>5, PickedShape
  <2>2. \A i \in 1 .. Cardinality(R) : Picked(t, R)[i] = t[Ascending(R)[i]]
    BY <1>1, <1>5, PickedReads
  <2> QED
    BY <1>9, <2>1, <2>2
<1> DEFINE g == Append(Picked(s, P), x)
<1>11. /\ g \in Seq(V) /\ Len(g) = m + 1 /\ g[m + 1] = x /\ \A i \in 1 .. m : g[i] = Picked(s, P)[i]
  BY <1>2, AppendProperties
<1> HIDE DEF g
<1>12. g = [i \in 1 .. (m + 1) |-> g[i]]
  BY <1>11
<1>13. \A i \in 1 .. (m + 1) : Picked(t, R)[i] = g[i]
  <2>1. ASSUME NEW i \in 1 .. m
        PROVE  Picked(t, R)[i] = g[i]
    <3>1. p[i] \in 1 .. Len(s)
      BY <1>1, <1>2
    <3>2. Picked(t, R)[i] = t[p[i]]
      BY <1>6, <1>10
    <3>3. t[p[i]] = s[p[i]]
      BY <1>1, <3>1
    <3> QED
      BY <1>2, <1>11, <3>2, <3>3
  <2>2. m + 1 \in 1 .. (m + 1)
    BY <1>2
  <2>3. Picked(t, R)[m + 1] = g[m + 1]
    BY <1>1, <1>6, <1>10, <1>11, <2>2
  <2> QED
    BY <1>6, <2>1, <2>3
<1> QED
  BY <1>10, <1>12, <1>13, SameEntries DEF t, g

\* Induction over the numbers.
LEMMA SetInduction ==
  ASSUME NEW S, 0 \in S, \A n \in Nat : n \in S => n + 1 \in S
  PROVE  Nat \subseteq S
<1> SUFFICES ASSUME Nat \ S # {}
             PROVE  FALSE
  OBVIOUS
<1>1. PICK x \in Nat \ S : \A y \in Nat \ S : x <= y
  BY NatMin
<1>2. x # 0 /\ x - 1 \in Nat
  BY <1>1
<1>3. x - 1 \in S
  BY <1>1, <1>2
<1>4. x - 1 + 1 \in S
  BY <1>2, <1>3
<1> QED
  BY <1>1, <1>4
=============================================================================
