----------------------------- MODULE Recursions -----------------------------
(***************************************************************************)
(* Least and greatest elements, induction up to a number, and functions     *)
(* that are given by recursion.                                             *)
(***************************************************************************)
EXTENDS Integers, Sequences, WellFoundedInduction, TLAPS

\* Every set of numbers has a least one.
LEMMA LeastElement ==
  ASSUME NEW T \in SUBSET Nat, T # {}
  PROVE  \E x \in T : \A y \in T : x <= y
<1> DEFINE R == OpToRel(<, Nat)
<1>1. IsWellFoundedOn(R, Nat)
  BY NatLessThanWellFounded
<1>2. \A x, y \in T : y < x => <<y, x>> \in R
  BY DEF OpToRel
<1> HIDE DEF R
<1>3. \E x \in T : \A y \in T : ~ (<<y, x>> \in R)
  BY <1>1, WFMin
<1>4. \A x, y \in T : ~(y < x) => x <= y
  OBVIOUS
<1> QED BY <1>2, <1>3, <1>4

\* A finite stretch of numbers has a greatest one among those of a set.
LEMMA GreatestElement ==
  ASSUME NEW n \in Nat, NEW T \in SUBSET (1 .. n), T # {}
  PROVE  \E x \in T : \A y \in T : y <= x
<1> DEFINE U == {k \in Nat : k <= n /\ n - k \in T}
<1>1. \A y \in T : y \in 1 .. n /\ n - y \in U
  OBVIOUS
<1>2. U \in SUBSET Nat /\ U # {}
  BY <1>1
<1>3. \A k \in U : k \in Nat /\ n - k \in T
  OBVIOUS
<1> HIDE DEF U
<1>4. PICK k \in U : \A y \in U : k <= y
  BY <1>2, LeastElement
<1>5. \A y \in T : k <= n - y
  BY <1>1, <1>4
<1> QED
  BY <1>1, <1>3, <1>5

\* Induction up to n over a set of numbers.
LEMMA UpTo ==
  ASSUME NEW n \in Nat, NEW S, 0 \in S, \A k \in 0 .. n : k \in S /\ k < n => k + 1 \in S
  PROVE  \A k \in 0 .. n : k \in S
<1> DEFINE T == {k \in 0 .. n : k \notin S}
<1> SUFFICES ASSUME T # {} PROVE FALSE
  OBVIOUS
<1>1. PICK x \in T : \A y \in T : x <= y
  <2>1. T \in SUBSET Nat
    OBVIOUS
  <2> HIDE DEF T
  <2> QED
    BY <2>1, LeastElement
<1>2. x \in 1 .. n /\ x - 1 \in 0 .. n /\ x - 1 < n /\ x - 1 + 1 = x
  BY <1>1
<1>3. x - 1 \in S
  BY <1>1, <1>2
<1>4. x \in S
  BY <1>2, <1>3
<1> QED BY <1>1, <1>4

\* A rule gives the value for a number from that for the one before.
Rules(T) == [Nat \X T -> T]
Follows(f, z, g, n) == f[0] = z /\ \A j \in 1 .. n : f[j] = g[<<j, f[j - 1]>>]

\* A function over 0 .. n may be given by its first value and a rule for the next one.
LEMMA Recursion ==
  ASSUME NEW T, NEW z \in T, NEW g \in Rules(T), NEW n \in Nat
  PROVE  \E f \in [0 .. n -> T] : Follows(f, z, g, n)
<1> DEFINE Is(f, m) == Follows(f, z, g, m)
           S == {m \in Nat : \E f \in [0 .. m -> T] : Is(f, m)}
<1> USE DEF Follows
<1>1. 0 \in S
  <2> DEFINE f == [j \in 0 .. 0 |-> z]
  <2>1. f \in [0 .. 0 -> T] /\ f[0] = z
    OBVIOUS
  <2>2. Is(f, 0)
    BY <2>1
  <2> QED
    BY <2>1, <2>2
<1>2. \A m \in 0 .. n : m \in S /\ m < n => m + 1 \in S
  <2> SUFFICES ASSUME NEW m \in Nat, NEW f \in [0 .. m -> T], Is(f, m)
               PROVE  \E e \in [0 .. m + 1 -> T] : Is(e, m + 1)
    OBVIOUS
  <2> DEFINE v == g[<<m + 1, f[m]>>]
             e == [j \in 0 .. m + 1 |-> IF j = m + 1 THEN v ELSE f[j]]
  <2>1. v \in T
    <3>1. <<m + 1, f[m]>> \in Nat \X T
      OBVIOUS
    <3> QED
      BY <3>1 DEF Rules
  <2>2. e \in [0 .. m + 1 -> T]
    BY <2>1
  <2>3. e[0] = z
    OBVIOUS
  <2>4. ASSUME NEW j \in 1 .. m + 1 PROVE e[j] = g[<<j, e[j - 1]>>]
    <3>1. e[j - 1] = f[j - 1]
      OBVIOUS
    <3>2. CASE j = m + 1
      <4>1. e[j] = v /\ j - 1 = m
        BY <3>2
      <4> QED
        BY <3>1, <3>2, <4>1
    <3>3. CASE j # m + 1
      <4>1. j \in 1 .. m /\ e[j] = f[j]
        BY <3>3
      <4> QED
        BY <3>1, <4>1
    <3> QED
      BY <3>2, <3>3
  <2> QED
    BY <2>2, <2>3, <2>4
<1> HIDE DEF S
<1>3. n \in S
  BY <1>1, <1>2, UpTo
<1> QED
  BY <1>3 DEF S

=============================================================================
