-------------------------------- MODULE Counting --------------------------------
(***************************************************************************)
(* What the proofs count with: induction up to a number, for a set in the  *)
(* place of a predicate, so that it can be used of recursive functions.    *)
(***************************************************************************)
EXTENDS Naturals, FiniteSetTheorems, TLAPS

\* A set of numbers up to n has a last one: the numbers after it are fewest.
LEMMA LastExists ==
  ASSUME NEW n \in Nat, NEW K, K \subseteq 0 .. n, K # {}
  PROVE  \E k \in K : \A j \in K : j <= k
<1> DEFINE After(k) == (k + 1) .. n
           T == {After(k) : k \in K}
<1>1. T \subseteq FiniteSubsetsOf(0 .. n) /\ T # {}
  <2>1. ASSUME NEW k \in K PROVE After(k) \in FiniteSubsetsOf(0 .. n)
    <3>1. IsFiniteSet(After(k))
      BY FS_Interval
    <3>2. After(k) \subseteq 0 .. n
      OBVIOUS
    <3> QED
      BY <3>1, <3>2 DEF FiniteSubsetsOf
  <2> QED
    BY <2>1
<1>2. \E x \in T : \A y \in T : ~(<<y, x>> \in StrictSubsetOrdering(0 .. n))
  <2>1. IsFiniteSet(0 .. n)
    BY FS_Interval
  <2> HIDE DEF T
  <2> QED
    BY <1>1, <2>1, FS_StrictSubsetOrderingWellFounded, WFMin, Zenon
<1>3. PICK k \in K : \A y \in T : ~(<<y, After(k)>> \in StrictSubsetOrdering(0 .. n))
  BY <1>2
<1>4. ASSUME NEW j \in K, j > k PROVE FALSE
  <2>1. After(j) \in T /\ After(j) \subseteq After(k) /\ j \in After(k) /\ j \notin After(j)
    BY <1>4
  <2>2. After(j) \subseteq 0 .. n /\ After(k) \subseteq 0 .. n
    OBVIOUS
  <2>3. <<After(j), After(k)>> \in StrictSubsetOrdering(0 .. n)
    BY <2>1, <2>2 DEF StrictSubsetOrdering
  <2> QED
    BY <1>3, <2>1, <2>3
<1> QED
  BY <1>4

\* Induction up to n, for a set of numbers in the place of a predicate.
LEMMA UpTo ==
  ASSUME NEW n \in Nat, NEW S, 0 \in S, \A k \in 0 .. n : k \in S /\ k < n => k + 1 \in S
  PROVE  0 .. n \subseteq S
<1> DEFINE K == {k \in 0 .. n : 0 .. k \subseteq S}
<1>1. 0 \in K
  OBVIOUS
<1>2. PICK k \in K : \A j \in K : j <= k
  <2> HIDE DEF K
  <2>1. K \subseteq 0 .. n
    BY DEF K
  <2> QED
    BY <1>1, <2>1, LastExists
<1>3. ASSUME k < n PROVE FALSE
  <2>1. k + 1 \in S
    BY <1>3
  <2>2. 0 .. (k + 1) \subseteq S
    BY <2>1
  <2> QED
    BY <1>2, <1>3, <2>2
<1>4. k = n
  BY <1>3
<1> QED
  BY <1>4

\* f begins with a and goes on by the steps of a function.
Solves(f, n, V, a, step) ==
  /\ f \in [0 .. n -> V] /\ f[0] = a
  /\ \A k \in 1 .. n : f[k] = step[<<f[k - 1], k>>]

\* A recursion over the numbers up to n has a solution.
LEMMA Recursion ==
  ASSUME NEW n \in Nat, NEW V, NEW a \in V, NEW step \in [V \X (1 .. n) -> V]
  PROVE  \E f : Solves(f, n, V, a, step)
<1> DEFINE Can == {m \in 0 .. n : \E f : Solves(f, m, V, a, step)}
<1>1. 0 \in Can
  <2>1. Solves([k \in 0 .. 0 |-> a], 0, V, a, step)
    BY DEF Solves
  <2> QED
    BY <2>1
<1>2. ASSUME NEW m \in 0 .. n, m \in Can, m < n PROVE m + 1 \in Can
  <2>1. PICK f : Solves(f, m, V, a, step)
    BY <1>2
  <2>2. f[m] \in V /\ m + 1 \in 1 .. n
    BY <1>2, <2>1 DEF Solves
  <2>3. step[<<f[m], m + 1>>] \in V
    BY <2>2
  <2> DEFINE g == [k \in 0 .. (m + 1) |-> IF k = m + 1 THEN step[<<f[m], m + 1>>] ELSE f[k]]
  <2>4. g \in [0 .. (m + 1) -> V] /\ g[0] = a
    BY <2>1, <2>3 DEF Solves
  <2>5. ASSUME NEW k \in 1 .. (m + 1) PROVE g[k] = step[<<g[k - 1], k>>]
    <3>1. CASE k \in 1 .. m
      <4>1. g[k] = f[k] /\ g[k - 1] = f[k - 1]
        BY <3>1
      <4>2. f[k] = step[<<f[k - 1], k>>]
        BY <2>1, <3>1 DEF Solves
      <4> HIDE DEF g
      <4> QED
        BY <4>1, <4>2
    <3>2. CASE k = m + 1
      <4>1. g[k] = step[<<f[m], m + 1>>] /\ g[k - 1] = f[m] /\ k - 1 = m
        BY <3>2
      <4> HIDE DEF g
      <4> QED
        BY <3>2, <4>1
    <3> QED
      BY <3>1, <3>2
  <2>6. Solves(g, m + 1, V, a, step)
    <3> HIDE DEF g
    <3> QED
      BY <2>4, <2>5 DEF Solves
  <2> HIDE DEF g
  <2> QED
    BY <1>2, <2>6
<1>3. 0 .. n \subseteq Can
  <2> HIDE DEF Can
  <2> QED
    BY <1>1, <1>2, UpTo
<1>4. n \in Can
  <2> HIDE DEF Can
  <2> QED
    BY <1>3
<1> QED
  BY <1>4

\* f and g begin alike, and stay alike in each step.
StepAlike(f, g, n) == f[0] = g[0] /\ \A k \in 1 .. n : f[k - 1] = g[k - 1] => f[k] = g[k]

LEMMA EndAlike ==
  ASSUME NEW n \in Nat, NEW f, NEW g, StepAlike(f, g, n)
  PROVE  f[n] = g[n]
<1> DEFINE Same == {k \in 0 .. n : f[k] = g[k]}
<1>1. 0 \in Same
  BY DEF StepAlike
<1>2. ASSUME NEW k \in 0 .. n, k \in Same, k < n PROVE k + 1 \in Same
  <2>1. k + 1 \in 1 .. n /\ k + 1 \in 0 .. n /\ (k + 1) - 1 = k
    BY <1>2
  <2> QED
    BY <1>2, <2>1 DEF StepAlike
<1>3. 0 .. n \subseteq Same
  <2> HIDE DEF Same
  <2> QED
    BY <1>1, <1>2, UpTo
<1> QED
  BY <1>3
=============================================================================
