------------------------------ MODULE Recursion ------------------------------
(***************************************************************************)
(* Induction and recursion over the natural numbers, stated with sets and  *)
(* functions and not with operators, for the functions of AccessPoints and *)
(* Gathering that go through a table row by row or sector by sector.       *)
(***************************************************************************)
EXTENDS Integers, WellFoundedInduction, TLAPS

\* A set of natural numbers that is not empty has a least one.
LEMMA LeastNatural ==
  ASSUME NEW T, T \subseteq Nat, T # {}
  PROVE  \E x \in T : \A y \in T : x <= y
<1> DEFINE R == {p \in Nat \X Nat : p[1] < p[2]}
<1>1. IsWellFoundedOn(R, Nat)
  BY NatLessThanWellFounded DEF OpToRel
<1> HIDE DEF R
<1>2. PICK x \in T : \A y \in T : <<y, x>> \notin R
  BY <1>1, WFMin
<1>3. ASSUME NEW y \in T PROVE x <= y
  <2>1. x \in Nat /\ y \in Nat /\ <<y, x>> \notin R
    BY <1>2
  <2>2. ~(y < x)
    BY <2>1 DEF R
  <2> QED
    BY <2>1, <2>2
<1> QED
  BY <1>3

\* Induction up to a bound.
LEMMA InductionTo ==
  ASSUME NEW n \in Nat, NEW S, 0 \in S, \A k \in 1 .. n : k - 1 \in S => k \in S
  PROVE  0 .. n \subseteq S
<1> DEFINE T == (0 .. n) \ S
<1> SUFFICES ASSUME T # {} PROVE FALSE
  OBVIOUS
<1>1. T \subseteq Nat
  OBVIOUS
<1> HIDE DEF T
<1>2. PICK x \in T : \A y \in T : x <= y
  BY <1>1, LeastNatural
<1>3. x \in 1 .. n
  BY DEF T
<1>4. x - 1 \in 0 .. n /\ ~(x <= x - 1)
  BY <1>3
<1>5. x - 1 \in S
  BY <1>2, <1>4 DEF T
<1> QED
  BY <1>3, <1>5 DEF T

\* g begins with a, and F makes each of its values of the one before it.
Follows(g, n, a, F) == g = [k \in 0 .. n |-> IF k = 0 THEN a ELSE F[k][g[k - 1]]]

\* Every such rule F defines a function.
LEMMA RecursiveFunction ==
  ASSUME NEW n \in Nat, NEW A, NEW a \in A, NEW F \in [1 .. n -> [A -> A]]
  PROVE  \E g \in [0 .. n -> A] : Follows(g, n, a, F)
<1> DEFINE Is(g, m) == Follows(g, m, a, F)
           S == {m \in Nat : \E g \in [0 .. m -> A] : Is(g, m)}
<1>1. 0 \in S
  <2> DEFINE g == [k \in 0 .. 0 |-> a]
  <2>1. g \in [0 .. 0 -> A] /\ \A k \in 0 .. 0 : k = 0
    OBVIOUS
  <2>2. Is(g, 0)
    BY <2>1 DEF Follows
  <2> QED
    BY <2>1, <2>2
<1>2. ASSUME NEW m \in 1 .. n, m - 1 \in S PROVE m \in S
  <2>1. PICK g \in [0 .. m - 1 -> A] : Is(g, m - 1)
    BY <1>2
  <2> DEFINE b == F[m][g[m - 1]]
             h == [k \in 0 .. m |-> IF k = m THEN b ELSE g[k]]
  <2>2. b \in A
    BY <2>1
  <2> HIDE DEF b
  <2>3. h \in [0 .. m -> A]
    BY <2>2
  <2>4. ASSUME NEW k \in 0 .. m PROVE h[k] = IF k = 0 THEN a ELSE F[k][h[k - 1]]
    <3>1. CASE k = m
      <4>1. h[k] = b /\ h[k - 1] = g[m - 1] /\ k # 0
        BY <3>1
      <4> QED
        BY <3>1, <4>1 DEF b
    <3>2. CASE k # m
      <4>1. k \in 0 .. m - 1 /\ h[k] = g[k]
        BY <3>2
      <4>2. g[k] = IF k = 0 THEN a ELSE F[k][g[k - 1]]
        BY <2>1, <4>1 DEF Follows
      <4>3. k # 0 => h[k - 1] = g[k - 1]
        BY <3>2
      <4> QED
        BY <4>1, <4>2, <4>3
    <3> QED
      BY <3>1, <3>2
  <2>5. Is(h, m)
    BY <2>4 DEF Follows
  <2> HIDE DEF h, Is
  <2> QED
    BY <2>3, <2>5
<1> HIDE DEF S
<1>3. n \in S
  <2>1. 0 .. n \subseteq S
    BY <1>1, <1>2, InductionTo
  <2> QED
    BY <2>1
<1> QED
  BY <1>3 DEF S

=============================================================================
