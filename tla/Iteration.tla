------------------------------ MODULE Iteration ------------------------------
(***************************************************************************)
(* Lemmas the proofs about loops rest on: induction over a set of numbers, *)
(* functions defined by iteration, and quotients and remainders.           *)
(*                                                                         *)
(* The loops of the models are recursive functions.  That they have the    *)
(* values their definitions promise is proved by induction over sets: a    *)
(* set that holds 0 and, with each number, the next one, holds them all.   *)
(***************************************************************************)
EXTENDS Integers, WellFoundedInduction, TLAPS

Less == OpToRel(<, Nat)

LEMMA LeastElement ==
  ASSUME NEW T, T \subseteq Nat, T # {}
  PROVE  \E n \in T : \A m \in T : n <= m
<1>1. IsWellFoundedOn(Less, Nat)
  BY NatLessThanWellFounded DEF Less
<1>2. \A m, n \in Nat : m < n => <<m, n>> \in Less
  BY DEF Less, OpToRel
<1>3. PICK n \in T : \A m \in T : ~ (<<m, n>> \in Less)
  BY <1>1, WFMin
<1>4. \A m \in T : n <= m
  <2>. SUFFICES ASSUME NEW m \in T, ~ n <= m PROVE FALSE
    OBVIOUS
  <2>1. m \in Nat /\ n \in Nat
    OBVIOUS
  <2>2. m < n
    BY <2>1
  <2>. QED
    BY <1>2, <1>3, <2>1, <2>2
<1>. QED
  BY <1>4

LEMMA SetInduction ==
  ASSUME NEW S, 0 \in S, \A n \in Nat : n \in S => n + 1 \in S
  PROVE  \A n \in Nat : n \in S
<1>. SUFFICES ASSUME NEW x \in Nat, x \notin S PROVE FALSE
  OBVIOUS
<1>. DEFINE T == Nat \ S
<1>1. PICK n \in T : \A m \in T : n <= m
  <2>1. T \subseteq Nat /\ T # {}
    OBVIOUS
  <2>. QED
    BY <2>1, LeastElement
<1>2. n \in Nat /\ n # 0
  OBVIOUS
<1>3. n - 1 \in Nat /\ ~ n <= n - 1 /\ n = (n - 1) + 1
  BY <1>2
<1>4. n - 1 \in S
  BY <1>1, <1>3
<1>. QED
  BY <1>3, <1>4

\* f is the value a loop keeps, after each of its N rounds.
Iterates(f, N, s0, step) ==
  f = [n \in 0..N |-> IF n = 0 THEN s0 ELSE step[n][f[n - 1]]]

LEMMA IteratesExists ==
  ASSUME NEW N \in Nat, NEW S, NEW s0 \in S, NEW step \in [Nat -> [S -> S]]
  PROVE  \E f \in [0..N -> S] : Iterates(f, N, s0, step)
<1>. USE DEF Iterates
<1>. DEFINE T == {k \in Nat : \E f \in [0..k -> S] :
                    f = [n \in 0..k |-> IF n = 0 THEN s0 ELSE step[n][f[n - 1]]]}
<1>1. 0 \in T
  <2>. DEFINE f == [n \in 0..0 |-> s0]
  <2>1. f \in [0..0 -> S]
    OBVIOUS
  <2>2. f = [n \in 0..0 |-> IF n = 0 THEN s0 ELSE step[n][f[n - 1]]]
    OBVIOUS
  <2>. QED
    BY <2>1, <2>2
<1>2. \A k \in Nat : k \in T => k + 1 \in T
  <2>. SUFFICES ASSUME NEW k \in Nat, k \in T PROVE k + 1 \in T
    OBVIOUS
  <2>1. PICK f \in [0..k -> S] :
          f = [n \in 0..k |-> IF n = 0 THEN s0 ELSE step[n][f[n - 1]]]
    OBVIOUS
  <2>. DEFINE g == [n \in 0..(k + 1) |-> IF n = k + 1 THEN step[k + 1][f[k]] ELSE f[n]]
  <2>2. g \in [0..(k + 1) -> S]
    OBVIOUS
  <2>3. ASSUME NEW n \in 0..(k + 1)
        PROVE  g[n] = IF n = 0 THEN s0 ELSE step[n][g[n - 1]]
    <3>1. CASE n = k + 1
      <4>1. g[n] = step[k + 1][f[k]] /\ n # 0 /\ n - 1 = k /\ k \in 0..(k + 1) /\ k # k + 1
        BY <3>1
      <4>. QED
        BY <4>1
    <3>2. CASE n # k + 1
      <4>1. n \in 0..k
        BY <3>2
      <4>2. g[n] = f[n] /\ f[n] = IF n = 0 THEN s0 ELSE step[n][f[n - 1]]
        BY <2>1, <3>2, <4>1
      <4>3. n # 0 => n - 1 \in 0..(k + 1) /\ n - 1 # k + 1
        BY <4>1
      <4>4. n # 0 => g[n - 1] = f[n - 1]
        BY <4>3
      <4>. HIDE DEF g
      <4>. QED
        BY <4>2, <4>4
    <3>. QED
      BY <3>1, <3>2
  <2>4. g = [n \in 0..(k + 1) |-> IF n = 0 THEN s0 ELSE step[n][g[n - 1]]]
    <3>1. g = [n \in 0..(k + 1) |-> g[n]]
      OBVIOUS
    <3>. HIDE DEF g
    <3>. QED
      BY <2>3, <3>1
  <2>. HIDE DEF g
  <2>5. \E h \in [0..(k + 1) -> S] :
          h = [n \in 0..(k + 1) |-> IF n = 0 THEN s0 ELSE step[n][h[n - 1]]]
    BY <2>2, <2>4, Zenon
  <2>6. k + 1 \in Nat
    OBVIOUS
  <2>. QED
    BY <2>5, <2>6, Zenon
<1>3. N \in T
  <2>. HIDE DEF T
  <2>. QED
    BY <1>1, <1>2, SetInduction
<1>. QED
  BY <1>3

LEMMA IterationExists ==
  ASSUME NEW N \in Nat, NEW S, NEW s0 \in S, NEW step \in [S -> S]
  PROVE  \E f \in [0..N -> S] :
             f = [n \in 0..N |-> IF n = 0 THEN s0 ELSE step[f[n - 1]]]
<1>. DEFINE steps == [n \in Nat |-> step]
<1>1. steps \in [Nat -> [S -> S]] /\ \A n \in 0..N : steps[n] = step
  OBVIOUS
<1>. HIDE DEF steps
<1>2. PICK f \in [0..N -> S] : Iterates(f, N, s0, steps)
  BY <1>1, IteratesExists
<1>3. f = [n \in 0..N |-> IF n = 0 THEN s0 ELSE step[f[n - 1]]]
  BY <1>1, <1>2 DEF Iterates
<1>. QED
  BY <1>3

LEMMA IterationStays ==
  ASSUME NEW N \in Nat, NEW S, NEW f, f[0] \in S,
         \A n \in Nat : n < N /\ f[n] \in S => f[n + 1] \in S
  PROVE  \A n \in 0..N : f[n] \in S
<1>. DEFINE T == {k \in Nat : k <= N => f[k] \in S}
<1>1. 0 \in T
  OBVIOUS
<1>2. \A k \in Nat : k \in T => k + 1 \in T
  OBVIOUS
<1>3. \A k \in Nat : k \in T
  <2>. HIDE DEF T
  <2>. QED
    BY <1>1, <1>2, SetInduction
<1>. QED
  BY <1>3

-----------------------------------------------------------------------------
(* Quotients and remainders.                                                *)

LEMMA DivisionOf ==
  ASSUME NEW a \in Int, NEW R \in Nat \ {0}
  PROVE  /\ a \div R \in Int /\ a % R \in Int
         /\ a = R * (a \div R) + (a % R)
         /\ 0 <= a % R /\ a % R < R
  OBVIOUS

LEMMA RemainderIs ==
  ASSUME NEW a \in Int, NEW R \in Nat \ {0}, NEW q \in Int, NEW r \in Int,
         0 <= r, r < R, a = R * q + r
  PROVE  a % R = r
  OBVIOUS

LEMMA RemainderAdds ==
  ASSUME NEW a \in Int, NEW d \in Int, NEW R \in Nat \ {0}
  PROVE ((a % R) + d) % R = (a + d) % R
<1>. DEFINE x == (a % R) + d
           q == a \div R
           p == x \div R
<1>1. q \in Int /\ a % R \in Int /\ a = R * q + (a % R)
  BY DivisionOf
<1>2. x \in Int /\ a + d = R * q + x
  BY <1>1
<1>3. p \in Int /\ x % R \in Int /\ x = R * p + (x % R) /\ 0 <= x % R /\ x % R < R
  BY <1>2, DivisionOf
<1>4. a + d = R * (q + p) + (x % R)
  <2>. HIDE DEF x, q, p
  <2>1. R * (q + p) = R * q + R * p
    BY <1>1, <1>3
  <2>2. R * q \in Int /\ R * p \in Int
    BY <1>1, <1>3
  <2>. QED BY <2>1, <2>2, <1>2, <1>3
<1>5. q + p \in Int /\ a + d \in Int
  BY <1>1, <1>3
<1>6. (a + d) % R = x % R
  <2>. HIDE DEF x, q, p
  <2>. QED BY <1>3, <1>4, <1>5, RemainderIs
<1>. QED BY <1>6

\* Going i steps round a ring of R from x ends at the place i behind x.
LEMMA RingPlace ==
  ASSUME NEW R \in Nat \ {0}, NEW x \in Int, NEW i \in 0..(R - 1),
         NEW a \in 0..(R - 1), (x + i) % R = a
  PROVE  (a - x) % R = i
<1>1. x \in Int /\ i \in Int /\ i % R = i
  <2>1. i \in Int /\ 0 \in Int /\ 0 <= i /\ i < R /\ i = R * 0 + i
    OBVIOUS
  <2> QED BY <2>1, RemainderIs
<1>2. PICK b \in Int : b = x + i
  BY <1>1
<1>3. PICK d \in Int : d = -x
  BY <1>1
<1>4. ((b % R) + d) % R = (b + d) % R
  BY <1>2, <1>3, RemainderAdds
<1>5. b % R = a
  BY <1>2
<1>6. a + d = a - x /\ b + d = i
  BY <1>1, <1>2, <1>3
<1> QED BY <1>1, <1>4, <1>5, <1>6

LEMMA RingIndex ==
  ASSUME NEW R \in Nat \ {0}, NEW x \in Int, NEW i \in 0..(R - 1),
         NEW a \in 0..(R - 1), (a - x) % R = i
  PROVE  (x + i) % R = a
<1>1. x \in Int /\ i \in Int /\ a \in Int /\ a % R = a
  <2>1. a \in Int /\ 0 \in Int /\ 0 <= a /\ a < R /\ a = R * 0 + a
    OBVIOUS
  <2> QED BY <2>1, RemainderIs
<1>2. PICK b \in Int : b = a - x
  BY <1>1
<1>3. ((b % R) + x) % R = (b + x) % R
  BY <1>2, RemainderAdds
<1>4. b % R = i
  BY <1>2
<1>5. i + x = x + i /\ b + x = a
  BY <1>1, <1>2
<1> QED BY <1>1, <1>3, <1>4, <1>5

LEMMA RemaindersDiffer ==
  ASSUME NEW a \in Int, NEW R \in Nat \ {0}, NEW i \in Nat, NEW j \in Nat,
         i < R, j < R, (a - i) % R = (a - j) % R
  PROVE i = j
<1>. DEFINE r == (a - i) % R
           q == (a - i) \div R
           p == (a - j) \div R
<1>1. q \in Int /\ r \in Int /\ a - i = R * q + r
  BY DivisionOf
<1>2. p \in Int /\ a - j = R * p + r
  BY DivisionOf
<1>3. j - i = R * (q - p)
  <2>. HIDE DEF r, q, p
  <2>. QED BY <1>1, <1>2
<1>4. q - p = 0
  <2>. HIDE DEF r, q, p
  <2>1. CASE q - p >= 1
    <3>1. R * (q - p) >= R
      BY <2>1, <1>1, <1>2
    <3>. QED BY <3>1, <1>3
  <2>2. CASE q - p <= -1
    <3>1. R * (q - p) <= -R
      BY <2>2, <1>1, <1>2
    <3>. QED BY <3>1, <1>3
  <2>. QED BY <2>1, <2>2, <1>1, <1>2
<1>. HIDE DEF r, q, p
<1>5. R * (q - p) = 0
  BY <1>4
<1>. QED
  BY <1>3, <1>5

LEMMA DivisionGrows ==
  ASSUME NEW x \in Int, NEW y \in Int, x <= y, NEW R \in Nat \ {0}
  PROVE  x \div R <= y \div R
<1>. DEFINE p == x \div R
           q == y \div R
           s == x % R
           t == y % R
<1>1. /\ p \in Int /\ q \in Int /\ s \in Int /\ t \in Int
      /\ 0 <= s /\ t < R /\ x = R * p + s /\ y = R * q + t
  BY DivisionOf
<1>. HIDE DEF p, q, s, t
<1>2. R * p \in Int /\ R * q \in Int
  BY <1>1
<1>3. ASSUME ~ p <= q PROVE FALSE
  <2>1. p - q - 1 \in Nat
    BY <1>1, <1>3
  <2>2. R * (p - q - 1) >= 0
    BY <2>1
  <2>3. R * (p - q - 1) = R * p - R * q - R
    BY <1>1
  <2>. QED
    BY <1>1, <1>2, <2>2, <2>3
<1>. QED
  BY <1>3 DEF p, q
=============================================================================
