----------------------------- MODULE LoopLemmas ------------------------------
(***************************************************************************)
(* What the proofs about loops over data rest on: induction, stated with a *)
(* set of numbers in place of a predicate, and that a loop has a value     *)
(* after every number of rounds.                                           *)
(***************************************************************************)
EXTENDS Integers, WellFoundedInduction, TLAPS

\* Of some natural numbers one is the least.
LEMMA LeastNatural ==
  ASSUME NEW T, T \subseteq Nat, T # {}
  PROVE  \E m \in T : \A k \in T : m <= k
<1> DEFINE R == OpToRel(<, Nat)
<1>1. IsWellFoundedOn(R, Nat)
  BY NatLessThanWellFounded
<1>2. \A m, k \in Nat : <<k, m>> \in R <=> k < m
  BY DEF OpToRel
<1> HIDE DEF R
<1>3. PICK m \in T : \A k \in T : <<k, m>> \notin R
  BY <1>1, WFMin, Zenon
<1>4. \A k \in T : m <= k
  <2> TAKE k \in T
  <2>1. m \in Nat /\ k \in Nat
    OBVIOUS
  <2>2. ~(k < m)
    BY <1>2, <1>3, <2>1
  <2> QED BY <2>1, <2>2
<1> QED BY <1>4

\* A set with 0 and with the successor of each of its numbers has them all.
LEMMA Induction ==
  ASSUME NEW S, 0 \in S, \A n \in Nat : n \in S => n + 1 \in S
  PROVE  Nat \subseteq S
<1> DEFINE T == Nat \ S
<1>1. SUFFICES ASSUME T # {} PROVE FALSE
  OBVIOUS
<1>2. PICK m \in T : \A k \in T : m <= k
  BY <1>1, LeastNatural
<1>3. m # 0 /\ m - 1 \in Nat
  BY <1>2
<1>4. m - 1 \in S
  BY <1>2, <1>3
<1> QED BY <1>2, <1>3, <1>4

\* A loop that starts with base and whose round n turns a value v into step[n][v] has
\* a value after every round.
LEMMA LoopExists ==
  ASSUME NEW V, NEW base, base \in V, NEW step, step \in [Nat -> [V -> V]]
  PROVE  \E f \in [Nat -> V] :
           f[0] = base /\ \A n \in Nat : f[n + 1] = step[n + 1][f[n]]
<1> DEFINE Upto(n, g) == g[0] = base /\ \A k \in 0..(n - 1) : g[k + 1] = step[k + 1][g[k]]
           S == {n \in Nat : \E g \in [Nat -> V] : Upto(n, g)}
<1>1. Nat \subseteq S
  <2>1. 0 \in S
    <3>1. Upto(0, [k \in Nat |-> base]) /\ [k \in Nat |-> base] \in [Nat -> V]
      OBVIOUS
    <3> QED BY <3>1
  <2>2. ASSUME NEW n \in Nat, n \in S PROVE n + 1 \in S
    <3>1. PICK g \in [Nat -> V] : Upto(n, g)
      BY <2>2
    <3> DEFINE h == [k \in Nat |-> IF k = n + 1 THEN step[n + 1][g[n]] ELSE g[k]]
    <3>2. h \in [Nat -> V]
      OBVIOUS
    <3>3. Upto(n + 1, h)
      <4>1. h[0] = base
        BY <3>1
      <4>2. ASSUME NEW k \in 0..n PROVE h[k + 1] = step[k + 1][h[k]]
        <5>1. k \in Nat /\ h[k] = g[k]
          OBVIOUS
        <5>2. CASE k = n
          BY <5>1, <5>2
        <5>3. CASE k # n
          BY <3>1, <5>1, <5>3
        <5> QED BY <5>2, <5>3
      <4> HIDE DEF h
      <4> QED BY <4>1, <4>2
    <3> HIDE DEF h, Upto
    <3> QED BY <3>2, <3>3
  <2> HIDE DEF S
  <2> QED BY <2>1, <2>2, Induction
<1> DEFINE A == [n \in Nat |-> CHOOSE g \in [Nat -> V] : Upto(n, g)]
<1>2. ASSUME NEW n \in Nat PROVE A[n] \in [Nat -> V] /\ Upto(n, A[n])
  <2> HIDE DEF Upto
  <2>1. \E g \in [Nat -> V] : Upto(n, g)
    BY <1>1
  <2> QED BY <2>1
<1> HIDE DEF A
<1>3. ASSUME NEW m \in Nat, NEW n \in Nat
      PROVE  \A k \in Nat : k <= m /\ k <= n => A[m][k] = A[n][k]
  <2> DEFINE U == {k \in Nat : k <= m /\ k <= n => A[m][k] = A[n][k]}
  <2>1. 0 \in U
    BY <1>2
  <2>2. ASSUME NEW k \in Nat, k \in U PROVE k + 1 \in U
    <3>1. SUFFICES ASSUME k + 1 <= m, k + 1 <= n PROVE A[m][k + 1] = A[n][k + 1]
      OBVIOUS
    <3>2. A[m][k] = A[n][k]
      BY <2>2, <3>1
    <3>3. k \in 0..(m - 1) /\ k \in 0..(n - 1)
      BY <3>1
    <3> QED BY <1>2, <3>2, <3>3
  <2> HIDE DEF U
  <2>3. Nat \subseteq U
    BY <2>1, <2>2, Induction
  <2> QED BY <2>3 DEF U
<1> DEFINE f == [k \in Nat |-> A[k][k]]
<1>4. f \in [Nat -> V] /\ f[0] = base
  BY <1>2
<1>5. ASSUME NEW n \in Nat PROVE f[n + 1] = step[n + 1][f[n]]
  <2>1. A[n + 1][n + 1] = step[n + 1][A[n + 1][n]]
    BY <1>2
  <2>2. A[n + 1][n] = A[n][n]
    BY <1>3
  <2> QED BY <2>1, <2>2
<1> QED BY <1>4, <1>5

=============================================================================
