----------------------------- MODULE Induction ------------------------------
(***************************************************************************)
(* Induction and recursion over the natural numbers, stated with sets and  *)
(* functions in the place of predicates and operators, and lemmas to count *)
(* and to divide with, for the proof modules.                              *)
(***************************************************************************)
EXTENDS Integers, WellFoundedInduction, FiniteSetTheorems, TLAPS

\* Every set of numbers that is not empty has a least member.
LEMMA LeastMember ==
  ASSUME NEW T, T \subseteq Nat, T # {}
  PROVE  \E x \in T : \A y \in T : x <= y
<1>1. \E x \in T : \A y \in T : ~ (<<y, x>> \in OpToRel(<, Nat))
  BY NatLessThanWellFounded, WFMin, Zenon
<1>2. PICK x \in T : \A y \in T : ~ (<<y, x>> \in OpToRel(<, Nat))
  BY <1>1
<1>3. ASSUME NEW y \in T PROVE x <= y
  <2>1. x \in Nat /\ y \in Nat
    OBVIOUS
  <2>2. y < x => <<y, x>> \in OpToRel(<, Nat)
    BY <2>1 DEF OpToRel
  <2>3. ~ (y < x)
    BY <1>2, <2>2, Zenon
  <2> QED
    BY <2>1, <2>3
<1> QED
  BY <1>3

\* A set that has the successors of its members has all numbers from its
\* first one on, up to a bound if the successors are only there up to it.
LEMMA UpTo ==
  ASSUME NEW n \in Nat, NEW S, 0 \in S, \A k \in 0..(n - 1) : k \in S => k + 1 \in S
  PROVE  \A k \in 0..n : k \in S
<1> DEFINE T == {k \in 0..n : k \notin S}
<1> SUFFICES ASSUME T # {} PROVE FALSE
  OBVIOUS
<1>1. PICK x \in T : \A y \in T : x <= y
  <2>1. T \subseteq Nat
    OBVIOUS
  <2> QED
    BY <2>1, LeastMember
<1>2. x \in Nat /\ x # 0 /\ x <= n /\ x \notin S
  OBVIOUS
<1>3. x - 1 \in 0..(n - 1) /\ x - 1 \in S
  BY <1>1, <1>2
<1>4. (x - 1) + 1 \in S
  BY <1>3
<1> QED
  BY <1>2, <1>4

\* A function on 0..n that starts at a and goes on by g.
Iterates(f, n, a, g) == /\ f[0] = a
                        /\ \A k \in 1..n : f[k] = g[<<k, f[k - 1]>>]

\* A recursion along the numbers has a solution.
LEMMA Recursion ==
  ASSUME NEW D, NEW a \in D, NEW n \in Nat, NEW g \in [(1..n) \X D -> D]
  PROVE  \E f \in [0..n -> D] : Iterates(f, n, a, g)
<1> DEFINE S == {m \in 0..n : \E f \in [0..m -> D] : Iterates(f, m, a, g)}
<1>1. 0 \in S
  <2>1. [k \in 0..0 |-> a] \in [0..0 -> D] /\ Iterates([k \in 0..0 |-> a], 0, a, g)
    BY DEF Iterates
  <2> QED
    BY <2>1
<1>2. ASSUME NEW m \in 0..(n - 1), m \in S PROVE m + 1 \in S
  <2>1. PICK f \in [0..m -> D] : Iterates(f, m, a, g)
    BY <1>2
  <2>2. m + 1 \in 1..n /\ m \in 0..m /\ (m + 1) - 1 = m
    OBVIOUS
  <2> DEFINE h == [k \in 0..(m + 1) |-> IF k = m + 1 THEN g[<<m + 1, f[m]>>] ELSE f[k]]
  <2>3. <<m + 1, f[m]>> \in (1..n) \X D
    BY <2>2
  <2>4. h \in [0..(m + 1) -> D]
    <3>1. ASSUME NEW k \in 0..(m + 1) PROVE h[k] \in D
      <4>1. k # m + 1 => k \in 0..m
        OBVIOUS
      <4> QED
        BY <2>3, <4>1
    <3> QED
      BY <3>1
  <2>5. h[0] = a
    BY <2>1 DEF Iterates
  <2>6. ASSUME NEW k \in 1..(m + 1) PROVE h[k] = g[<<k, h[k - 1]>>]
    <3>1. CASE k = m + 1
      <4>1. h[k - 1] = f[m] /\ h[k] = g[<<m + 1, f[m]>>]
        BY <2>2, <3>1
      <4> HIDE DEF h
      <4> QED
        BY <3>1, <4>1
    <3>2. CASE k # m + 1
      <4>1. k \in 1..m /\ h[k - 1] = f[k - 1] /\ h[k] = f[k]
        BY <3>2
      <4> HIDE DEF h
      <4> QED
        BY <2>1, <4>1 DEF Iterates
    <3> QED
      BY <3>1, <3>2
  <2> HIDE DEF h
  <2>7. Iterates(h, m + 1, a, g)
    BY <2>5, <2>6 DEF Iterates
  <2> QED
    BY <2>2, <2>4, <2>7
<1> HIDE DEF S
<1>3. n \in S
  BY <1>1, <1>2, UpTo
<1> QED
  BY <1>3 DEF S

\* There are n numbers from 1 to n.
LEMMA OneTo ==
  ASSUME NEW n \in Nat
  PROVE  IsFiniteSet(1..n) /\ Cardinality(1..n) = n
<1>1. 1 \in Int /\ n \in Int
  OBVIOUS
<1>2. IsFiniteSet(1..n) /\ Cardinality(1..n) = IF 1 > n THEN 0 ELSE n - 1 + 1
  BY ONLY <1>1, FS_Interval, Zenon
<1> QED
  BY <1>2

\* Pigeons that each have a hole of their own are no more than the holes.
LEMMA Pigeons ==
  ASSUME NEW n \in Nat, NEW m \in Nat, NEW f \in [1..n -> 1..m],
         \A j, k \in 1..n : f[j] = f[k] => j = k
  PROVE  n <= m
<1>1. /\ IsFiniteSet(1..n) /\ Cardinality(1..n) = n
      /\ IsFiniteSet(1..m) /\ Cardinality(1..m) = m
  BY OneTo
<1> SUFFICES ASSUME m < n PROVE FALSE
  OBVIOUS
<1>2. Cardinality(1..m) < Cardinality(1..n)
  BY <1>1
<1>3. \E x, y \in 1..n : x # y /\ f[x] = f[y]
  BY <1>1, <1>2, FS_PigeonHole
<1> QED
  BY <1>3

\* Quotient and remainder of a number that is given by them.
LEMMA Divides ==
  ASSUME NEW b \in Nat \ {0}, NEW q \in Nat, NEW y \in 0..(b - 1), NEW x, x = q * b + y
  PROVE  x \in Nat /\ x \div b = q /\ x % b = y
<1>1. x \in Nat
  OBVIOUS
<1>2. PICK d \in Nat, r \in 0..(b - 1) : d = x \div b /\ r = x % b /\ x = d * b + r
  <2>1. ASSUME NEW d \in Int, NEW r \in Int, d = x \div b, r = x % b
        PROVE  d \in Nat /\ r \in 0..(b - 1) /\ x = d * b + r
    BY <1>1, <2>1
  <2> QED
    BY <1>1, <2>1
<1>3. ASSUME NEW m \in Nat, NEW n \in Nat, m < n, NEW u \in 0..(b - 1), NEW v \in 0..(b - 1)
      PROVE  m * b + u # n * b + v
  <2>1. PICK k \in Nat : n = m + 1 + k
    <3>1. n - m - 1 \in Nat /\ n = m + 1 + (n - m - 1)
      BY <1>3
    <3> QED
      BY <3>1
  <2>2. n * b = m * b + b + k * b
    BY <2>1
  <2>3. m * b \in Nat /\ n * b \in Nat /\ k * b \in Nat
    BY <2>1
  <2> QED
    BY <2>2, <2>3
<1>4. d = q
  BY <1>2, <1>3
<1>5. r = y
  BY <1>2, <1>4
<1> QED
  BY <1>1, <1>2, <1>4, <1>5
=============================================================================
