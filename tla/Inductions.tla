----------------------------- MODULE Inductions -----------------------------
(***************************************************************************)
(* Induction over the naturals, over finite sets and over sequences,       *)
(* stated of sets and functions.  The induction theorems of the library    *)
(* take a predicate as a parameter, which the provers cannot instantiate;  *)
(* here a predicate is the set of what satisfies it, and a step of a       *)
(* recursion is a function.                                                *)
(***************************************************************************)
EXTENDS Integers, Sequences, FiniteSets, FiniteSetTheorems, WellFoundedInduction, TLAPS

\* A set of naturals has a least element.
LEMMA LeastOf ==
  ASSUME NEW T, T \subseteq Nat, T # {}
  PROVE  \E x \in T : \A y \in T : x <= y
<1>1. PICK R : R = OpToRel(<, Nat)
  OBVIOUS
<1>2. IsWellFoundedOn(R, Nat)
  BY <1>1, NatLessThanWellFounded
<1>3. PICK x \in T : \A y \in T : ~(<<y, x>> \in R)
  BY <1>2, WFMin
<1>4. ASSUME NEW y \in T, y < x PROVE <<y, x>> \in R
  BY <1>1, <1>4 DEF OpToRel
<1>5. \A y \in T : ~(y < x)
  BY <1>3, <1>4
<1>6. \A y \in T : x \in Nat /\ y \in Nat
  OBVIOUS
<1> QED BY <1>5, <1>6

\* A bounded set of naturals has a greatest element.
LEMMA GreatestOf ==
  ASSUME NEW n \in Nat, NEW T, T \subseteq 0 .. n, T # {}
  PROVE  \E x \in T : \A y \in T : x >= y
<1>1. PICK D : D = {n - y : y \in T}
  OBVIOUS
<1>2. D \subseteq Nat /\ D # {}
  <2>1. PICK y : y \in T
    OBVIOUS
  <2>2. n - y \in D
    BY <1>1, <2>1
  <2>3. \A k \in T : n - k \in Nat
    OBVIOUS
  <2> QED BY <1>1, <2>2, <2>3
<1>3. PICK m \in D : \A k \in D : m <= k
  BY <1>2, LeastOf
<1>4. PICK x \in T : m = n - x
  BY <1>1, <1>3
<1>5. ASSUME NEW y \in T PROVE x >= y
  <2>1. m <= n - y /\ x \in 0 .. n /\ y \in 0 .. n
    BY <1>1, <1>3
  <2> QED BY <1>4, <2>1
<1> QED BY <1>5

\* What holds of 0 and of the successor of all it holds of, holds of every natural.
LEMMA NaturalInduction ==
  ASSUME NEW S, S \subseteq Nat, 0 \in S, \A n \in S : n + 1 \in S
  PROVE  S = Nat
<1> SUFFICES ASSUME S # Nat PROVE FALSE
  OBVIOUS
<1>1. PICK x \in Nat \ S : \A y \in Nat \ S : x <= y
  BY LeastOf
<1>2. x # 0 /\ x - 1 \in Nat
  BY <1>1
<1>3. x - 1 \in S
  BY <1>1, <1>2
<1> QED BY <1>1, <1>3

\* What holds of 0, and of each number up to n if it holds of the one before, holds
\* of all of them.
LEMMA InductionUpTo ==
  ASSUME NEW n \in Nat, NEW T, 0 \in T, \A i \in 1 .. n : i - 1 \in T => i \in T
  PROVE  \A i \in 0 .. n : i \in T
<1>1. PICK S : S = {i \in Nat : i <= n => i \in T}
  OBVIOUS
<1>2. 0 \in S
  BY <1>1
<1>3. ASSUME NEW i \in S PROVE i + 1 \in S
  <2> SUFFICES ASSUME i + 1 <= n PROVE i + 1 \in T
    BY <1>1, <1>3
  <2>1. i \in Nat /\ i \in T /\ (i + 1) - 1 = i /\ i + 1 \in 1 .. n
    BY <1>1, <1>3
  <2> QED BY <2>1
<1>4. S = Nat
  BY <1>1, <1>2, <1>3, NaturalInduction
<1> QED BY <1>1, <1>4

\* A recursion with the step g from a, over 1 .. n.
Recursion(f, n, a, g) == f[0] = a /\ \A i \in 1 .. n : f[i] = g[<<i, f[i - 1]>>]

LEMMA RecursionExists ==
  ASSUME NEW V, NEW a \in V, NEW n \in Nat, NEW g \in [(1 .. n) \X V -> V]
  PROVE  \E f \in [0 .. n -> V] : Recursion(f, n, a, g)
<1>1. PICK S : S = {m \in Nat : m <= n => \E f \in [0 .. m -> V] : Recursion(f, m, a, g)}
  OBVIOUS
<1>2. 0 \in S
  <2>1. [i \in 0 .. 0 |-> a] \in [0 .. 0 -> V] /\ Recursion([i \in 0 .. 0 |-> a], 0, a, g)
    BY DEF Recursion
  <2> QED BY <1>1, <2>1
<1>3. ASSUME NEW m \in S PROVE m + 1 \in S
  <2> SUFFICES ASSUME m + 1 <= n
               PROVE  \E f \in [0 .. m + 1 -> V] : Recursion(f, m + 1, a, g)
    BY <1>1, <1>3
  <2>1. m \in Nat
    BY <1>1, <1>3
  <2>2. PICK f \in [0 .. m -> V] : Recursion(f, m, a, g)
    BY <1>1, <1>3, <2>1
  <2>3. PICK v : v = g[<<m + 1, f[m]>>]
    OBVIOUS
  <2>4. v \in V
    <3>1. <<m + 1, f[m]>> \in (1 .. n) \X V
      BY <2>1
    <3> QED BY <2>3, <3>1
  <2>5. PICK h : h = [i \in 0 .. m + 1 |-> IF i = m + 1 THEN v ELSE f[i]]
    OBVIOUS
  <2>6. h \in [0 .. m + 1 -> V]
    BY <2>1, <2>4, <2>5
  <2>7. h[0] = a
    BY <2>1, <2>2, <2>5 DEF Recursion
  <2>8. ASSUME NEW i \in 1 .. m + 1 PROVE h[i] = g[<<i, h[i - 1]>>]
    <3>1. CASE i = m + 1
      <4>1. i - 1 = m /\ i - 1 # m + 1 /\ i - 1 \in 0 .. m + 1 /\ i \in 0 .. m + 1
        BY <2>1, <3>1
      <4>2. h[i - 1] = f[m] /\ h[i] = v
        BY <2>5, <3>1, <4>1
      <4> QED BY <2>3, <3>1, <4>2
    <3>2. CASE i # m + 1
      <4>1. i \in 1 .. m /\ h[i] = f[i] /\ h[i - 1] = f[i - 1]
        BY <2>1, <2>5, <3>2
      <4> QED BY <2>2, <4>1 DEF Recursion
    <3> QED BY <3>1, <3>2
  <2> QED BY <2>6, <2>7, <2>8 DEF Recursion
<1>4. S = Nat
  BY <1>1, <1>2, <1>3, NaturalInduction
<1> QED BY <1>1, <1>4

LEMMA SameFunctions ==
  ASSUME NEW D, NEW f, NEW g, f = [x \in D |-> f[x]], g = [x \in D |-> g[x]],
         \A x \in D : f[x] = g[x]
  PROVE  f = g
OBVIOUS

\* Two recursions that begin alike and step alike agree.
StepAlike(one, other, n) ==
  one[0] = other[0] /\ \A i \in 1 .. n : one[i - 1] = other[i - 1] => one[i] = other[i]

LEMMA RecursionsAgree ==
  ASSUME NEW n \in Nat, NEW one, NEW other, StepAlike(one, other, n)
  PROVE  \A i \in 0 .. n : one[i] = other[i]
<1> USE DEF StepAlike
<1>1. PICK S : S = {i \in Nat : i <= n => one[i] = other[i]}
  OBVIOUS
<1>2. 0 \in S
  BY <1>1
<1>3. ASSUME NEW i \in S PROVE i + 1 \in S
  <2> SUFFICES ASSUME i + 1 <= n PROVE one[i + 1] = other[i + 1]
    BY <1>1, <1>3
  <2>1. i \in Nat /\ one[i] = other[i] /\ (i + 1) - 1 = i /\ i + 1 \in 1 .. n
    BY <1>1, <1>3
  <2> QED BY <2>1
<1>4. S = Nat
  BY <1>1, <1>2, <1>3, NaturalInduction
<1> QED BY <1>1, <1>4

\* A recursion goes on for ever.
GoesOn(f, a, g) == f[0] = a /\ \A n \in Nat : f[n + 1] = g[<<n, f[n]>>]

\* A recursion over the naturals that goes on for ever has a function.
LEMMA RecursionGoesOn ==
  ASSUME NEW V, NEW a \in V, NEW g \in [Nat \X V -> V]
  PROVE  \E f \in [Nat -> V] : GoesOn(f, a, g)
<1> DEFINE IsRun(r, n) == /\ r \in [0 .. n -> V] /\ r[0] = a
                          /\ \A i \in 1 .. n : r[i] = g[<<i - 1, r[i - 1]>>]
<1>1. ASSUME NEW n \in Nat PROVE \E r : IsRun(r, n)
  <2>1. PICK k : k = [p \in (1 .. n) \X V |-> g[<<p[1] - 1, p[2]>>]]
    OBVIOUS
  <2>2. ASSUME NEW i \in 1 .. n, NEW v \in V
        PROVE  k[<<i, v>>] = g[<<i - 1, v>>] /\ k[<<i, v>>] \in V
    <3>1. <<i, v>> \in (1 .. n) \X V /\ <<i - 1, v>> \in Nat \X V
      OBVIOUS
    <3>2. k[<<i, v>>] = g[<<i - 1, v>>]
      BY <2>1, <3>1
    <3> QED BY <3>1, <3>2
  <2>3. k \in [(1 .. n) \X V -> V]
    BY <2>1, <2>2
  <2>4. PICK r \in [0 .. n -> V] : Recursion(r, n, a, k)
    BY <2>3, RecursionExists
  <2>5. \A i \in 1 .. n : i - 1 \in 0 .. n
    OBVIOUS
  <2>6. IsRun(r, n)
    BY <2>2, <2>4, <2>5 DEF Recursion
  <2> QED BY <2>6
<1>2. ASSUME NEW n \in Nat, NEW m \in Nat, n <= m, NEW r, IsRun(r, n), NEW s, IsRun(s, m)
      PROVE  \A i \in 0 .. n : r[i] = s[i]
  <2>1. r[0] = s[0]
    BY <1>2
  <2>2. \A i \in 1 .. n : r[i] = g[<<i - 1, r[i - 1]>>]
    BY <1>2
  <2>3. \A i \in 1 .. m : s[i] = g[<<i - 1, s[i - 1]>>]
    BY <1>2
  <2>4. \A i \in 1 .. n : i \in 1 .. m
    BY <1>2
  <2>5. \A i \in 1 .. n : r[i - 1] = s[i - 1] => r[i] = s[i]
    BY ONLY <2>2, <2>3, <2>4
  <2>6. StepAlike(r, s, n)
    BY <2>1, <2>5 DEF StepAlike
  <2> QED BY <2>6, RecursionsAgree
<1>3. PICK f : f = [n \in Nat |-> (CHOOSE r : IsRun(r, n))[n]]
  OBVIOUS
<1>4. ASSUME NEW n \in Nat PROVE \E r : IsRun(r, n) /\ f[n] = r[n]
  <2>1. IsRun(CHOOSE r : IsRun(r, n), n)
    BY <1>1
  <2>2. f[n] = (CHOOSE r : IsRun(r, n))[n]
    BY <1>3
  <2> QED BY <2>1, <2>2
<1>5. f \in [Nat -> V]
  <2>1. \A n \in Nat : f[n] \in V
    <3>1. ASSUME NEW n \in Nat PROVE f[n] \in V
      <4>1. PICK r : IsRun(r, n) /\ f[n] = r[n]
        BY <1>4
      <4>2. n \in 0 .. n
        OBVIOUS
      <4> QED BY <4>1, <4>2
    <3> QED BY <3>1
  <2> QED BY <1>3, <2>1
<1>6. f[0] = a
  <2>1. PICK r : IsRun(r, 0) /\ f[0] = r[0]
    BY <1>4
  <2> QED BY <2>1
<1>7. ASSUME NEW n \in Nat PROVE f[n + 1] = g[<<n, f[n]>>]
  <2>1. PICK r : IsRun(r, n) /\ f[n] = r[n]
    BY <1>4
  <2>2. n + 1 \in Nat /\ n <= n + 1 /\ n \in 0 .. n /\ n + 1 \in 1 .. n + 1 /\ (n + 1) - 1 = n
    OBVIOUS
  <2>3. PICK s : IsRun(s, n + 1) /\ f[n + 1] = s[n + 1]
    BY <1>4, <2>2
  <2>4. s[n + 1] = g[<<n, s[n]>>]
    BY <2>2, <2>3
  <2>5. r[n] = s[n]
    <3>1. \A i \in 0 .. n : r[i] = s[i]
      <4> HIDE DEF IsRun
      <4> QED BY <1>2, <2>1, <2>2, <2>3
    <3> QED BY <2>2, <3>1
  <2> QED BY <2>1, <2>3, <2>4, <2>5
<1> QED BY <1>5, <1>6, <1>7 DEF GoesOn

-----------------------------------------------------------------------------
(* Finite sets in order.                                                   *)

\* A finite set whose elements have different ranks can be listed by rank, and a
\* list by rank has all of them.
ByRank(t, rank) == \A i, j \in DOMAIN t : i < j => rank[t[i]] < rank[t[j]]

LEMMA ListByRankExists ==
  ASSUME NEW X, NEW n \in Nat, NEW rank \in [X -> 0 .. n],
         \A x, y \in X : rank[x] = rank[y] => x = y,
         NEW S \in SUBSET X, IsFiniteSet(S)
  PROVE  \E t \in [1 .. Cardinality(S) -> S] : ByRank(t, rank)
<1>1. PICK N : N = {c \in Nat : \A T \in SUBSET X :
                      IsFiniteSet(T) /\ Cardinality(T) = c
                        => \E t \in [1 .. c -> T] : ByRank(t, rank)}
  OBVIOUS
<1>2. 0 \in N
  <2>1. ASSUME NEW T \in SUBSET X
        PROVE  \E t \in [1 .. 0 -> T] : ByRank(t, rank)
    <3>1. [i \in 1 .. 0 |-> i] \in [1 .. 0 -> T]
      OBVIOUS
    <3>2. ByRank([i \in 1 .. 0 |-> i], rank)
      BY DEF ByRank
    <3> QED BY <3>1, <3>2
  <2> QED BY <1>1, <2>1
<1>3. ASSUME NEW c \in N PROVE c + 1 \in N
  <2>1. c \in Nat
    BY <1>1, <1>3
  <2>2. ASSUME NEW T \in SUBSET X, IsFiniteSet(T), Cardinality(T) = c + 1
        PROVE  \E t \in [1 .. c + 1 -> T] : ByRank(t, rank)
    <3>1. PICK R : R = {rank[x] : x \in T}
      OBVIOUS
    <3>2. R \subseteq 0 .. n /\ R # {}
      <4>1. T # {}
        BY <2>1, <2>2, FS_EmptySet
      <4> QED BY <3>1, <4>1
    <3>3. PICK r \in R : \A q \in R : r >= q
      BY <3>2, GreatestOf
    <3>4. PICK m \in T : r = rank[m]
      BY <3>1, <3>3
    <3>5. \A x \in T \ {m} : rank[x] < rank[m]
      <4>1. ASSUME NEW x \in T \ {m} PROVE rank[x] < rank[m]
        <5>1. rank[x] \in 0 .. n /\ rank[m] \in 0 .. n /\ rank[x] # rank[m]
          OBVIOUS
        <5>2. rank[m] >= rank[x]
          BY <3>1, <3>3, <3>4
        <5> QED BY <5>1, <5>2
      <4> QED BY <4>1
    <3>6. IsFiniteSet(T \ {m}) /\ Cardinality(T \ {m}) = c
      <4>1. IsFiniteSet(T \ {m}) /\ Cardinality(T \ {m}) = Cardinality(T) - 1
        BY <2>2, FS_RemoveElement
      <4>2. Cardinality(T) - 1 = c
        BY <2>1, <2>2
      <4> QED BY <4>1, <4>2
    <3>7. PICK u \in [1 .. c -> T \ {m}] : ByRank(u, rank)
      BY <1>1, <1>3, <3>6
    <3>8. PICK t : t = [i \in 1 .. c + 1 |-> IF i = c + 1 THEN m ELSE u[i]]
      OBVIOUS
    <3>9. \A i \in 1 .. c + 1 : i # c + 1 => i \in 1 .. c
      BY <2>1
    <3>10. t \in [1 .. c + 1 -> T]
      BY <3>8, <3>9
    <3>11. ASSUME NEW i \in 1 .. c + 1, NEW j \in 1 .. c + 1, i < j
           PROVE  rank[t[i]] < rank[t[j]]
      <4>1. i \in 1 .. c /\ t[i] = u[i]
        BY <2>1, <3>8, <3>11
      <4>2. CASE j = c + 1
        <5>1. t[j] = m /\ u[i] \in T \ {m}
          BY <3>8, <4>1, <4>2
        <5> QED BY <3>5, <4>1, <5>1
      <4>3. CASE j # c + 1
        <5>1. j \in 1 .. c /\ t[j] = u[j]
          BY <3>8, <3>9, <4>3
        <5> QED BY <3>7, <3>11, <4>1, <5>1 DEF ByRank
      <4> QED BY <4>2, <4>3
    <3>12. ByRank(t, rank)
      BY <3>10, <3>11 DEF ByRank
    <3> QED BY <3>10, <3>12
  <2> QED BY <1>1, <2>1, <2>2
<1>4. N = Nat
  BY <1>1, <1>2, <1>3, NaturalInduction
<1>5. Cardinality(S) \in Nat
  BY FS_CardinalityType
<1> QED BY <1>1, <1>4, <1>5

LEMMA ListByRankIsFull ==
  ASSUME NEW S, IsFiniteSet(S), NEW n \in Nat, NEW rank \in [S -> 0 .. n],
         NEW c \in Nat, c = Cardinality(S),
         NEW t \in [1 .. c -> S], ByRank(t, rank)
  PROVE  \A x \in S : \E i \in 1 .. c : t[i] = x
<1>1. ASSUME NEW i \in 1 .. c, NEW j \in 1 .. c, t[i] = t[j] PROVE i = j
  <2>1. ~(rank[t[i]] < rank[t[j]]) /\ ~(rank[t[j]] < rank[t[i]])
    <3>1. t[i] \in S /\ rank[t[i]] \in 0 .. n
      OBVIOUS
    <3> QED BY <1>1, <3>1
  <2>2. ~(i < j) /\ ~(j < i)
    BY <2>1 DEF ByRank
  <2> QED BY <2>2
<1>2. t \in Injection(1 .. c, S)
  BY <1>1 DEF Injection, IsInjective
<1>3. IsFiniteSet(1 .. c) /\ Cardinality(1 .. c) = c
  BY FS_Interval
<1>4. t \in Surjection(1 .. c, S)
  BY <1>2, <1>3, FS_Injection
<1> QED BY <1>4 DEF Surjection
=============================================================================
