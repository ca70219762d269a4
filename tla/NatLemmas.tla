----------------------------- MODULE NatLemmas -----------------------------
(***************************************************************************)
(* Facts about natural numbers that the proofs of several modules need.    *)
(***************************************************************************)
EXTENDS Integers, NaturalsInduction, WellFoundedInduction, TLAPS

(* A set of natural numbers that is not empty has a least element.  It is   *)
(* how induction is done here: the least counterexample is contradicted.    *)
LEMMA LeastNat ==
  ASSUME NEW T \in SUBSET Nat, T # {}
  PROVE  \E n \in T : \A m \in T : n <= m
<1> DEFINE R == {ss \in Nat \X Nat : ss[1] < ss[2]}
<1>1. IsWellFoundedOn(R, Nat)
  BY NatLessThanWellFounded, Zenon DEF OpToRel
<1>2. \A x, y \in Nat : <<y, x>> \in R <=> y < x
  OBVIOUS
<1> HIDE DEF R
<1>3. PICK x \in T : \A y \in T : ~ (<<y, x>> \in R)
  BY <1>1, WFMin
<1>4. \A m \in T : ~ (m < x)
  BY <1>2, <1>3, Zenon
<1>5. QED
  BY <1>4

(* The remainder of the successor, without division.                        *)
LEMMA ModUp ==
  ASSUME NEW S \in Nat \ {0}, NEW s \in 0 .. S - 1
  PROVE  (s + 1) % S = IF s + 1 = S THEN 0 ELSE s + 1
<1>1. CASE s + 1 = S
  BY <1>1
<1>2. CASE s + 1 # S
  BY <1>2
<1>3. QED
  BY <1>1, <1>2

(* Division with remainder.                                                 *)
LEMMA DivMod ==
  ASSUME NEW W \in Nat \ {0}, NEW k \in Nat
  PROVE  /\ k \div W \in Nat /\ k % W \in 0 .. W - 1
         /\ k % W = k - W * (k \div W)
  OBVIOUS

LEMMA DivModUnique ==
  ASSUME NEW W \in Nat \ {0}, NEW q \in Nat, NEW r \in 0 .. W - 1, NEW k \in Nat, k = W * q + r
  PROVE  k \div W = q /\ k % W = r
OBVIOUS

LEMMA DivModUp ==
  ASSUME NEW W \in Nat \ {0}, NEW k \in Nat
  PROVE  /\ (k + 1) \div W = IF k % W = W - 1 THEN k \div W + 1 ELSE k \div W
         /\ (k + 1) % W = IF k % W = W - 1 THEN 0 ELSE (k % W) + 1
<1> DEFINE q == k \div W
           r == k % W
<1>1. q \in Nat /\ r \in 0 .. W - 1 /\ k = W * q + r
  <2>1. q \in Nat /\ r \in 0 .. W - 1 /\ r = k - W * q
    BY DivMod
  <2> HIDE DEF q, r
  <2>2. QED
    BY <2>1
<1> HIDE DEF q, r
<1>2. CASE r = W - 1
  <2>1. PICK m \in Nat, p \in Nat, s \in 0 .. W - 1 : m = k + 1 /\ p = q + 1 /\ s = 0 /\ m = W * p + s
    BY <1>1, <1>2
  <2>2. m = W * p + s
    BY <2>1
  <2>3. m \div W = p /\ m % W = s
    BY <2>2, DivModUnique
  <2>4. QED
    BY <1>2, <2>1, <2>3 DEF q, r
<1>3. CASE r # W - 1
  <2>1. PICK m \in Nat, s \in 0 .. W - 1 : m = k + 1 /\ s = r + 1 /\ m = W * q + s
    BY <1>1, <1>3
  <2>2. m \div W = q /\ m % W = s
    BY <1>1, <2>1
  <2>3. QED
    BY <1>3, <2>1, <2>2 DEF q, r
<1>4. QED
  BY <1>2, <1>3

LEMMA DivMonotone ==
  ASSUME NEW W \in Nat \ {0}, NEW j \in Nat, NEW k \in Nat, j < k
  PROVE  j \div W < k \div W \/ (j \div W = k \div W /\ j % W < k % W)
<1> DEFINE q == k \div W
           r == k % W
           p == j \div W
           s == j % W
<1>1. q \in Nat /\ r \in 0 .. W - 1 /\ k = W * q + r
  <2>1. q \in Nat /\ r \in 0 .. W - 1 /\ r = k - W * q
    BY DivMod
  <2> HIDE DEF q, r
  <2>2. QED
    BY <2>1
<1>2. p \in Nat /\ s \in 0 .. W - 1 /\ j = W * p + s
  <2>1. p \in Nat /\ s \in 0 .. W - 1 /\ s = j - W * p
    BY DivMod
  <2> HIDE DEF p, s
  <2>2. QED
    BY <2>1
<1> HIDE DEF q, r, p, s
<1>3. ASSUME q < p PROVE FALSE
  <2>1. q + 1 <= p
    BY <1>1, <1>2, <1>3
  <2>2. PICK d \in Nat : p = (q + 1) + d
    <3>1. p - (q + 1) \in Nat /\ p = (q + 1) + (p - (q + 1))
      BY <1>1, <1>2, <2>1
    <3>2. QED
      BY <3>1
  <2>3. W * p = W * q + W + W * d /\ W * d \in Nat
    BY <1>1, <2>2
  <2>4. QED
    BY <1>1, <1>2, <2>3
<1>4. p = q => s < r
  BY <1>1, <1>2
<1>5. q < p \/ p < q \/ p = q
  BY <1>1, <1>2
<1>6. QED
  BY <1>3, <1>4, <1>5 DEF q, r, p, s
LEMMA ProductGrows ==
  ASSUME NEW x \in Nat, NEW y \in Nat, NEW c \in Nat, x < y
  PROVE  x * c + c <= y * c
<1>1. PICK d \in Nat : y = x + 1 + d
  <2>1. y - (x + 1) \in Nat /\ y = x + 1 + (y - (x + 1))
    OBVIOUS
  <2>2. QED
    BY <2>1
<1>2. y * c = x * c + c + d * c /\ d * c \in Nat /\ x * c \in Nat
  BY <1>1
<1>3. QED
  BY <1>2

(* A function defined by its first value and by a step from each value to   *)
(* the next exists, and there is one only.                                  *)
Iterates(f, S, step, b, n) ==
  f \in [0 .. n -> S] /\ f[0] = b /\ \A i \in 1 .. n : f[i] = step[f[i - 1]]

LEMMA IterationExists ==
  ASSUME NEW S, NEW step \in [S -> S], NEW b \in S, NEW count \in Nat
  PROVE  \E f : Iterates(f, S, step, b, count)
<1> SUFFICES \A n \in Nat : \E f \in [0 .. n -> S] : f[0] = b /\ \A i \in 1 .. n : f[i] = step[f[i - 1]]
  BY DEF Iterates
<1> DEFINE Good(n) == \E f \in [0 .. n -> S] : f[0] = b /\ \A i \in 1 .. n : f[i] = step[f[i - 1]]
           T == {n \in Nat : ~ Good(n)}
<1> SUFFICES ASSUME T # {} PROVE FALSE
  OBVIOUS
<1>1. PICK n \in T : \A m \in T : n <= m
  <2>1. T \in SUBSET Nat
    OBVIOUS
  <2> HIDE DEF T
  <2>2. QED
    BY <2>1, LeastNat
<1>2. n \in Nat /\ ~ Good(n)
  BY <1>1
<1>3. CASE n = 0
  <2> DEFINE f == [i \in 0 .. 0 |-> b]
  <2>1. f \in [0 .. n -> S] /\ f[0] = b /\ \A i \in 1 .. n : f[i] = step[f[i - 1]]
    BY <1>3
  <2>2. QED
    BY <1>2, <2>1
<1>4. CASE n # 0
  <2>1. n - 1 \in Nat /\ Good(n - 1)
    <3>1. n - 1 \in Nat /\ ~ (n <= n - 1)
      BY <1>2, <1>4
    <3>2. ~ (n - 1 \in T)
      <4> HIDE DEF T
      <4>1. QED
        BY <1>1, <3>1
    <3>3. QED
      BY <3>1, <3>2
  <2>2. PICK f \in [0 .. n - 1 -> S] : f[0] = b /\ \A i \in 1 .. n - 1 : f[i] = step[f[i - 1]]
    BY <2>1
  <2> DEFINE g == [i \in 0 .. n |-> IF i = n THEN step[f[n - 1]] ELSE f[i]]
  <2>3. n - 1 \in 0 .. n - 1 /\ \A i \in 0 .. n : i # n => i \in 0 .. n - 1
    BY <1>2, <2>1
  <2>4. g \in [0 .. n -> S]
    BY <2>2, <2>3
  <2>5. g[0] = b
    BY <1>2, <1>4, <2>2
  <2>6. ASSUME NEW i \in 1 .. n PROVE g[i] = step[g[i - 1]]
    <3>1. i \in 0 .. n /\ i - 1 \in 0 .. n /\ i - 1 # n /\ (i # n => i \in 1 .. n - 1)
      BY <1>2
    <3>2. g[i - 1] = f[i - 1]
      BY <3>1
    <3>3. QED
      BY <2>2, <3>1, <3>2
  <2>7. QED
    BY <1>2, <2>4, <2>5, <2>6
<1>5. QED
  BY <1>3, <1>4

LEMMA IterationUnique ==
  ASSUME NEW S, NEW step, NEW n \in Nat, NEW f, NEW g, f[0] = g[0],
         \A i \in 1 .. n : f[i] = step[f[i - 1]],
         \A i \in 1 .. n : g[i] = step[g[i - 1]]
  PROVE  \A i \in 0 .. n : f[i] = g[i]
<1> DEFINE T == {i \in 0 .. n : f[i] # g[i]}
<1> SUFFICES ASSUME T # {} PROVE FALSE
  OBVIOUS
<1>1. PICK i \in T : \A m \in T : i <= m
  <2>1. T \in SUBSET Nat
    OBVIOUS
  <2> HIDE DEF T
  <2>2. QED
    BY <2>1, LeastNat
<1>2. i \in 1 .. n /\ i - 1 \in 0 .. n /\ ~ (i - 1 \in T)
  BY <1>1
<1>3. f[i - 1] = g[i - 1]
  BY <1>2
<1>4. f[i] = g[i]
  BY <1>2, <1>3
<1>5. QED
  BY <1>1, <1>4
=============================================================================
