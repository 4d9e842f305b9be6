----------------------------- MODULE NatSetProofs -----------------------------
(***************************************************************************)
(* Induction over the naturals, stated for a set of them: a property is    *)
(* the set of the numbers that have it.  The proofs about functions that   *)
(* are defined by recursion rest on this.                                  *)
(***************************************************************************)
EXTENDS Integers, WellFoundedInduction, TLAPS

Below == {ss \in Nat \X Nat : ss[1] < ss[2]}

LEMMA BelowIsWellFounded == IsWellFoundedOn(Below, Nat)
BY NatLessThanWellFounded DEF OpToRel, Below

\* A set of naturals that is not empty has a least one.
LEMMA LeastOfSet ==
    ASSUME NEW S, S \subseteq Nat, S /= {}
    PROVE  \E n \in S : \A m \in S : n <= m
<1>1. PICK x \in S : \A y \in S : ~ (<<y, x>> \in Below)
  BY BelowIsWellFounded, WFMin
<1>2. \A n, m \in Nat : m < n => <<m, n>> \in Below
  BY DEF Below
<1>3. \A y \in S : x <= y
  <2> SUFFICES ASSUME NEW y \in S, ~ (x <= y) PROVE FALSE
    OBVIOUS
  <2>1. x \in Nat /\ y \in Nat
    OBVIOUS
  <2>2. y < x
    BY <2>1
  <2>3. QED
    BY <1>1, <1>2, <2>1, <2>2
<1>4. QED
  BY <1>3

\* What holds of 0, and with every number of the next, holds of all.
LEMMA SetInduction ==
    ASSUME NEW S \in SUBSET Nat, 0 \in S, \A n \in S : n + 1 \in S
    PROVE  S = Nat
<1> SUFFICES ASSUME Nat \ S /= {} PROVE FALSE
  OBVIOUS
<1>1. PICK n \in Nat \ S : \A m \in Nat \ S : n <= m
  BY LeastOfSet
<1>2. n - 1 \in S
  BY <1>1
<1>3. QED
  BY <1>1, <1>2

\* The same up to a bound.
LEMMA BoundedInduction ==
    ASSUME NEW N \in Nat, NEW S, 0 \in S, \A n \in 0 .. N - 1 : n \in S => n + 1 \in S
    PROVE  0 .. N \subseteq S
<1> DEFINE R == {n \in Nat : n <= N => n \in S}
<1>1. 0 \in R
  OBVIOUS
<1>2. \A n \in R : n + 1 \in R
  OBVIOUS
<1>3. R = Nat
  BY <1>1, <1>2, SetInduction
<1>4. QED
  BY <1>3

\* A function up to N that starts at v and has every value from the one below.
Unfolds(f, N, V, v, G) ==
    /\ f \in [0 .. N -> V] /\ f[0] = v
    /\ \A i \in 1 .. N : f[i] = G[<<i, f[i - 1]>>]

\* There is one.
LEMMA RecursionExists ==
    ASSUME NEW N \in Nat, NEW V, NEW v \in V, NEW G \in [(1 .. N) \X V -> V]
    PROVE  \E f : Unfolds(f, N, V, v, G)
<1> DEFINE Reaches(f, k) == Unfolds(f, k, V, v, G)
           S == {k \in 0 .. N : \E f : Reaches(f, k)}
<1>1. 0 \in S
  <2>1. Reaches([i \in 0 .. 0 |-> v], 0)
    BY DEF Unfolds
  <2> HIDE DEF Reaches
  <2>2. QED
    BY <2>1
<1>2. ASSUME NEW k \in 0 .. N - 1, k \in S PROVE k + 1 \in S
  <2>1. PICK f : Reaches(f, k)
    BY <1>2
  <2> USE DEF Unfolds
  <2> DEFINE w == G[<<k + 1, f[k]>>]
             g == [i \in 0 .. k + 1 |-> IF i = k + 1 THEN w ELSE f[i]]
  <2>2. w \in V
    <3>1. k + 1 \in 1 .. N /\ f[k] \in V
      BY <2>1
    <3>2. QED
      BY <3>1
  <2> HIDE DEF w
  <2>3. /\ \A i \in 0 .. k : g[i] = f[i]
        /\ g[k + 1] = w
    OBVIOUS
  <2>4. g \in [0 .. k + 1 -> V]
    BY <2>1, <2>2
  <2> HIDE DEF g
  <2>5. \A i \in 1 .. k + 1 : g[i] = G[<<i, g[i - 1]>>]
    <3>1. TAKE i \in 1 .. k + 1
    <3>2. CASE i = k + 1
      <4>1. g[i - 1] = f[k]
        BY <2>3, <3>2
      <4>2. QED
        BY <2>3, <3>2, <4>1 DEF w
    <3>3. CASE i \in 1 .. k
      <4>1. g[i] = f[i] /\ g[i - 1] = f[i - 1]
        BY <2>3, <3>3
      <4>2. QED
        BY <2>1, <3>3, <4>1
    <3>4. QED
      BY <3>2, <3>3
  <2>6. Reaches(g, k + 1)
    BY <2>1, <2>3, <2>4, <2>5
  <2> HIDE DEF Reaches, Unfolds
  <2>7. QED
    BY <2>6
<1> HIDE DEF S
<1>3. 0 .. N \subseteq S
  BY <1>1, <1>2, BoundedInduction
<1>4. QED
  BY <1>3 DEF S
-------------------------------------------------------------------------------
(* Rows of a width: numbers by quotient and remainder *)

LEMMA QuotientIs ==
    ASSUME NEW x \in Nat, NEW B \in Nat \ {0}, NEW q \in Nat, NEW r \in 0 .. B - 1,
           x = q * B + r
    PROVE  x \div B = q /\ x % B = r
OBVIOUS

LEMMA QuotientFits ==
    ASSUME NEW x \in Nat, NEW B \in Nat \ {0}
    PROVE  /\ x \div B \in Nat /\ x % B \in 0 .. B - 1
           /\ x = ((x \div B) * B) + (x % B)
OBVIOUS

LEMMA RowsGrow ==
    ASSUME NEW a \in Nat, NEW b \in Nat, NEW B \in Nat \ {0}
    PROVE  /\ a <= b => a * B <= b * B
           /\ a * B < (b + 1) * B => a <= b
           /\ (a + 1) * B = a * B + B
OBVIOUS

\* The remainder by a factor is that of the remainder by the product.
LEMMA RowsOfRows ==
    ASSUME NEW y \in Nat, NEW e \in Nat \ {0}, NEW B \in Nat \ {0}
    PROVE  (y % (e * B)) % B = y % B
<1> DEFINE M == e * B
           q == y \div M
           r == y % M
           t == r \div B
           z == r % B
<1>1. M \in Nat \ {0}
  OBVIOUS
<1>2. q \in Nat /\ r \in Nat /\ y = (q * M) + r
  <2> HIDE DEF M
  <2>1. QED
    BY <1>1, QuotientFits
<1>3. t \in Nat /\ z \in 0 .. B - 1 /\ r = (t * B) + z
  <2> HIDE DEF r
  <2>1. QED
    BY <1>2, QuotientFits
<1>4. y = ((q * e + t) * B) + z
  <2>1. q * M = (q * e) * B
    <3> HIDE DEF q
    <3>1. q * (e * B) = (q * e) * B
      BY <1>2
    <3>2. QED
      BY <3>1
  <2> HIDE DEF M, q, r, t, z
  <2>2. (q * e + t) * B = (q * e) * B + t * B
    <3> DEFINE a == q * e
    <3>1. a \in Nat /\ t \in Nat
      BY <1>2, <1>3
    <3> HIDE DEF a
    <3>2. (a + t) * B = a * B + t * B
      BY <3>1
    <3>3. QED
      BY <3>2 DEF a
  <2>3. q * e \in Nat /\ (q * e) * B \in Nat /\ t * B \in Nat
    BY <1>2, <1>3
  <2>4. QED
    BY <1>2, <1>3, <2>1, <2>2, <2>3
<1> DEFINE p == q * e + t
<1>5. p \in Nat
  <2> HIDE DEF q, t
  <2>1. QED
    BY <1>2, <1>3
<1>6. y = (p * B) + z
  BY <1>4
<1> HIDE DEF p, z, q, t
<1>7. y % B = z
  BY <1>3, <1>5, <1>6, QuotientIs
<1>8. QED
  BY <1>7 DEF z, r, M

\* The remainder of one number more, from the remainder.
LEMMA RowsAddOne ==
    ASSUME NEW x \in Nat, NEW B \in Nat \ {0}
    PROVE  ((x % B) + 1) % B = (x + 1) % B
<1> DEFINE q == x \div B
           r == x % B
<1>1. q \in Nat /\ r \in 0 .. B - 1 /\ x = (q * B) + r
  BY QuotientFits
<1> HIDE DEF q, r
<1> DEFINE u == (r + 1) \div B
           z == (r + 1) % B
<1>2. u \in Nat /\ z \in 0 .. B - 1 /\ r + 1 = (u * B) + z
  <2> DEFINE s == r + 1
  <2>1. s \in Nat
    BY <1>1
  <2> HIDE DEF s
  <2>2. s \div B \in Nat /\ s % B \in 0 .. B - 1 /\ s = ((s \div B) * B) + (s % B)
    BY <2>1, QuotientFits
  <2>3. QED
    BY <2>2 DEF s
<1> DEFINE p == q + u
           m == x + 1
<1> HIDE DEF u, z
<1>3. m = (p * B) + z /\ p \in Nat /\ m \in Nat
  <2>1. p * B = q * B + u * B /\ q * B \in Nat /\ u * B \in Nat
    BY <1>1, <1>2
  <2>2. QED
    BY <1>1, <1>2, <2>1
<1> HIDE DEF p, m
<1>4. m % B = z
  BY <1>2, <1>3, QuotientIs
<1>5. QED
  BY <1>4 DEF m, z, r
===============================================================================
