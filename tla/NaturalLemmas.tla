-------------------------- MODULE NaturalLemmas --------------------------
(***************************************************************************)
(* Induction over the natural numbers as a fact about sets, and what       *)
(* follows for loops written as recursive functions: there is one sequence *)
(* of values that they go through.  And what the provers have to be told   *)
(* about quotients, products and the lengths of lists.                     *)
(***************************************************************************)
EXTENDS Integers, Sequences, TLAPS, WellFoundedInduction

\* Every set of natural numbers that is not empty has a least element.
LEMMA LeastNatural ==
    ASSUME NEW T, T \subseteq Nat, T # {}
    PROVE  \E x \in T : \A y \in T : x <= y
<1>1. PICK R : R = OpToRel(<, Nat)
  OBVIOUS
<1>2. IsWellFoundedOn(R, Nat)
  BY <1>1, NatLessThanWellFounded
<1>3. R = {ss \in Nat \X Nat : ss[1] < ss[2]}
  BY <1>1 DEF OpToRel
<1>4. PICK x \in T : \A y \in T : ~ (<<y, x>> \in R)
  BY <1>2, WFMin
<1>5. ASSUME NEW y \in T
      PROVE  x <= y
  <2>1. x \in Nat /\ y \in Nat
    OBVIOUS
  <2>2. <<y, x>> \in Nat \X Nat /\ <<y, x>>[1] = y /\ <<y, x>>[2] = x
    BY <2>1
  <2>3. ~(y < x)
    BY <1>3, <1>4, <2>2
  <2> QED
    BY <2>1, <2>3
<1> QED
  BY <1>5

\* A set that contains zero and with a number the next contains them all.
LEMMA SetInduction ==
    ASSUME NEW S, 0 \in S, \A n \in Nat : n \in S => n + 1 \in S
    PROVE  Nat \subseteq S
<1> SUFFICES ASSUME Nat \ S # {} PROVE FALSE
  OBVIOUS
<1>1. PICK x \in Nat \ S : \A y \in Nat \ S : x <= y
  BY LeastNatural
<1>2. x # 0 /\ x - 1 \in Nat /\ ~(x <= x - 1)
  BY <1>1
<1>3. x - 1 \in S
  BY <1>1, <1>2
<1>4. (x - 1) + 1 \in S
  BY <1>2, <1>3
<1> QED
  BY <1>2, <1>4

\* A loop of n rounds, whose round i is the function F[i], goes through one
\* sequence of values.
Rounds(g, c, F, n) ==
    g = [i \in 0..n |-> IF i = 0 THEN c ELSE F[i][g[i - 1]]]

\* There is such a sequence.
LEMMA RoundsExist ==
    ASSUME NEW T, NEW n \in Nat, NEW c \in T, NEW F \in [1..n -> [T -> T]]
    PROVE  \E g \in [0..n -> T] : Rounds(g, c, F, n)
<1> DEFINE S == {m \in Nat : m <= n => \E g \in [0..m -> T] : Rounds(g, c, F, m)}
<1>1. 0 \in S
  <2> DEFINE g == [i \in 0..0 |-> c]
  <2>1. g \in [0..0 -> T] /\ Rounds(g, c, F, 0)
    BY DEF Rounds
  <2> QED
    BY <2>1
<1>2. ASSUME NEW m \in Nat, m \in S
      PROVE  m + 1 \in S
  <2> SUFFICES ASSUME m + 1 <= n
               PROVE  \E g \in [0..(m + 1) -> T] : Rounds(g, c, F, m + 1)
    OBVIOUS
  <2>1. PICK g \in [0..m -> T] : Rounds(g, c, F, m)
    BY <1>2
  <2>2. g[0] = c /\ \A i \in 1..m : g[i] = F[i][g[i - 1]]
    BY <2>1 DEF Rounds
  <2> DEFINE h == [i \in 0..(m + 1) |-> IF i \in 0..m THEN g[i] ELSE F[m + 1][g[m]]]
  <2>3. m + 1 \in 1..n /\ g[m] \in T /\ F[m + 1][g[m]] \in T
    BY <2>1
  <2>4. h \in [0..(m + 1) -> T]
    BY <2>1, <2>3
  <2>5. ASSUME NEW i \in 0..(m + 1)
        PROVE  h[i] = IF i = 0 THEN c ELSE F[i][h[i - 1]]
    <3>1. CASE i = 0
      BY <2>2, <3>1
    <3>2. CASE i \in 1..m
      BY <2>2, <3>2
    <3>3. CASE i = m + 1
      BY <3>3
    <3> QED
      BY <3>1, <3>2, <3>3
  <2>6. Rounds(h, c, F, m + 1)
    BY <2>4, <2>5 DEF Rounds
  <2> QED
    BY <2>4, <2>6
<1>3. n \in S
  <2> HIDE DEF S
  <2> QED
    BY <1>1, <1>2, SetInduction
<1> QED
  BY <1>3

\* And there is only one, also when one loop stops earlier.
LEMMA RoundsAgree ==
    ASSUME NEW m \in Nat, NEW n \in Nat, m <= n, NEW c, NEW F, NEW E, NEW g, NEW h,
           \A i \in 1..m : E[i] = F[i],
           Rounds(g, c, E, m), Rounds(h, c, F, n)
    PROVE  \A i \in 0..m : g[i] = h[i]
<1> DEFINE S == {i \in Nat : i <= m => g[i] = h[i]}
<1>1. /\ g[0] = c /\ \A i \in 1..m : g[i] = E[i][g[i - 1]]
      /\ h[0] = c /\ \A i \in 1..n : h[i] = F[i][h[i - 1]]
  BY DEF Rounds
<1>2. 0 \in S
  BY <1>1
<1>3. ASSUME NEW i \in Nat, i \in S
      PROVE  i + 1 \in S
  <2>1. CASE i + 1 <= m
    <3>1. i + 1 \in 1..m /\ i + 1 \in 1..n /\ (i + 1) - 1 = i
      BY <2>1
    <3>2. g[i] = h[i]
      BY <1>3, <2>1
    <3> QED
      BY <1>1, <3>1, <3>2
  <2>2. CASE ~(i + 1 <= m)
    BY <2>2
  <2> QED
    BY <2>1, <2>2
<1>4. Nat \subseteq S
  <2> HIDE DEF S
  <2> QED
    BY <1>2, <1>3, SetInduction
<1> QED
  BY <1>4
-----------------------------------------------------------------------------
(* Arithmetic and lists. *)

\* Quotient and remainder.
LEMMA Division ==
    ASSUME NEW b \in Nat \ {0}, NEW n \in Nat
    PROVE  /\ n \div b \in Nat /\ n % b \in 0..(b - 1)
           /\ n = (n \div b) * b + (n % b)
OBVIOUS

\* Products grow with their factors.
LEMMA ProductGrows ==
    ASSUME NEW a \in Nat, NEW c \in Nat, NEW b \in Nat, a <= c
    PROVE  a * b <= c * b
OBVIOUS

\* A remainder of a number that is less than twice the divisor.
LEMMA Remainder ==
    ASSUME NEW b \in Nat \ {0}, NEW n \in Nat, n < 2 * b
    PROVE  n % b = IF n < b THEN n ELSE n - b
<1>1. PICK q \in Nat, r \in 0..(b - 1) : q = n \div b /\ r = n % b /\ n = q * b + r
  BY Division
<1>2. q < 2
  <2> SUFFICES ASSUME 2 <= q PROVE FALSE
    OBVIOUS
  <2>1. 2 * b <= q * b
    BY ProductGrows
  <2>2. q * b \in Nat
    OBVIOUS
  <2> QED
    BY <1>1, <2>1, <2>2
<1>3. q = 0 \/ q = 1
  BY <1>2
<1>4. CASE q = 0
  BY <1>1, <1>4
<1>5. CASE q = 1
  <2>1. n = b + r
    BY <1>1, <1>5
  <2> QED
    BY <1>1, <2>1
<1> QED
  BY <1>3, <1>4, <1>5

\* The length of a list that is written as a function.
LEMMA ListLength ==
    ASSUME NEW m \in Nat, NEW t, DOMAIN t = 1..m, t = [k \in 1..m |-> t[k]]
    PROVE  Len(t) = m
<1>1. t \in [1..m -> {t[k] : k \in 1..m}]
  OBVIOUS
<1> QED
  BY <1>1
=============================================================================
