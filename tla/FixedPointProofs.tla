-------------------------- MODULE FixedPointProofs --------------------------
(***************************************************************************)
(* What TLAPS proves about FixedPoint, for rows of any length, blocks of   *)
(* any size, any number of lanes and floats of any width: the loops take   *)
(* every element once, the stochastic rounding is fair, the exponent of a  *)
(* block is tight, 16-bit mantissas are centred and encoded exactly, and   *)
(* what mantissa_to_floats makes of them is near zero.                     *)
(*                                                                         *)
(* Powers of two and the sum of a block are recursive functions; what they *)
(* compute is proved by induction, stated below over sets.                 *)
(***************************************************************************)
EXTENDS FixedPoint, FiniteSetTheorems, WellFoundedInduction, TLAPS

-----------------------------------------------------------------------------
(* Induction over the naturals, stated of sets. *)
LEMMA LeastElement ==
    \A T \in SUBSET Nat : T # {} => \E x \in T : \A y \in T : x <= y
<1> DEFINE R == OpToRel(<, Nat)
<1>1. \A x, y \in Nat : <<x, y>> \in R <=> x < y
  BY DEF OpToRel
<1>2. IsWellFoundedOn(R, Nat)
  BY NatLessThanWellFounded
<1> HIDE DEF R
<1> SUFFICES ASSUME NEW T \in SUBSET Nat, T # {}  PROVE \E x \in T : \A y \in T : x <= y
  OBVIOUS
<1>3. PICK x \in T : \A y \in T : ~(<<y, x>> \in R)
  BY <1>2, WFMin, Zenon
<1>4. ASSUME NEW y \in T  PROVE x <= y
  <2>1. x \in Nat /\ y \in Nat  OBVIOUS
  <2>2. ~(y < x)  BY <1>1, <1>3, <2>1
  <2>3. QED  BY <2>1, <2>2
<1>5. QED  BY <1>4

LEMMA Induction ==
    \A T : 0 \in T /\ (\A n \in Nat : n \in T => n + 1 \in T) => Nat \subseteq T
<1> SUFFICES ASSUME NEW T, 0 \in T, \A n \in Nat : n \in T => n + 1 \in T, ~(Nat \subseteq T)
             PROVE  FALSE
  OBVIOUS
<1>1. (Nat \ T) # {} /\ (Nat \ T) \in SUBSET Nat  OBVIOUS
<1>2. PICK x \in Nat \ T : \A y \in Nat \ T : x <= y  BY <1>1, LeastElement, Zenon
<1>3. x - 1 \in Nat /\ x - 1 + 1 = x  OBVIOUS
<1>4. x - 1 \in T  BY <1>2, <1>3
<1>5. QED  BY <1>3, <1>4

(* A step s gives, from c, one function on the naturals. *)
Iterates(f, S, c, s) ==
    f \in [Nat -> S] /\ f[0] = c /\ \A n \in Nat : f[n + 1] = s[<<n, f[n]>>]

LEMMA Recursion ==
    \A S, c, s : c \in S /\ s \in [Nat \X S -> S] => \E f : Iterates(f, S, c, s)
<1> SUFFICES ASSUME NEW S, NEW c, NEW s, c \in S, s \in [Nat \X S -> S]
             PROVE  \E f : Iterates(f, S, c, s)
  OBVIOUS
<1> DEFINE Prefix(n, g) == /\ g \in [0 .. n -> S]
                           /\ g[0] = c
                           /\ \A m \in 0 .. n - 1 : g[m + 1] = s[<<m, g[m]>>]
           Has == {n \in Nat : \E g : Prefix(n, g)}
<1>1. 0 \in Has
  <2>1. Prefix(0, [m \in 0 .. 0 |-> c])  OBVIOUS
  <2>2. QED  BY <2>1
<1>2. ASSUME NEW n \in Nat, n \in Has  PROVE n + 1 \in Has
  <2>1. PICK g : Prefix(n, g)  BY <1>2
  <2> DEFINE h == [m \in 0 .. n + 1 |-> IF m = n + 1 THEN s[<<n, g[n]>>] ELSE g[m]]
  <2>2. s[<<n, g[n]>>] \in S  BY <2>1
  <2>3. h \in [0 .. n + 1 -> S] /\ h[0] = c  BY <2>1, <2>2
  <2>4. ASSUME NEW m \in 0 .. n  PROVE h[m + 1] = s[<<m, h[m]>>]
    <3>1. CASE m = n
      <4>1. h[m] = g[n] /\ h[m + 1] = s[<<n, g[n]>>]  BY <3>1
      <4>2. QED  BY <3>1, <4>1
    <3>2. CASE m # n
      <4>1. m \in 0 .. n - 1 /\ m + 1 \in 0 .. n  BY <3>2
      <4>2. QED  BY <2>1, <4>1
    <3>3. QED  BY <3>1, <3>2
  <2>5. Prefix(n + 1, h)  
    <3>1. (n + 1) - 1 = n  OBVIOUS
    <3> HIDE DEF h
    <3>2. QED  BY <2>3, <2>4, <3>1
  <2> HIDE DEF Prefix
  <2>6. QED  BY <2>5
<1>3. \A n \in Nat : \E g : Prefix(n, g)  
  <2> HIDE DEF Prefix
  <2>1. Nat \subseteq Has  BY <1>1, <1>2, Induction
  <2>2. QED  BY <2>1
<1>4. ASSUME NEW n \in Nat, NEW g, NEW h, Prefix(n, g), Prefix(n + 1, h)
      PROVE  g[n] = h[n]
  <2> DEFINE Same == {m \in Nat : m <= n => g[m] = h[m]}
  <2>1. 0 \in Same  BY <1>4
  <2>2. ASSUME NEW m \in Nat, m \in Same  PROVE m + 1 \in Same
    <3> SUFFICES ASSUME m + 1 <= n  PROVE g[m + 1] = h[m + 1]
      OBVIOUS
    <3>1. m \in 0 .. n - 1 /\ m \in 0 .. (n + 1) - 1 /\ m <= n  OBVIOUS
    <3>2. g[m + 1] = s[<<m, g[m]>>] /\ h[m + 1] = s[<<m, h[m]>>]  BY <1>4, <3>1
    <3>3. g[m] = h[m]  BY <2>2, <3>1
    <3>4. QED  BY <3>2, <3>3
  <2>3. Nat \subseteq Same  BY <2>1, <2>2, Induction
  <2>4. QED  BY <2>3
<1> DEFINE G(n) == CHOOSE g : Prefix(n, g)
           f == [n \in Nat |-> G(n)[n]]
<1>5. \A n \in Nat : Prefix(n, G(n))
  <2> HIDE DEF Prefix
  <2>1. QED  BY <1>3
<1> HIDE DEF G
<1>6. f \in [Nat -> S] /\ f[0] = c
  BY <1>5
<1>7. ASSUME NEW n \in Nat  PROVE f[n + 1] = s[<<n, f[n]>>]
  <2>1. Prefix(n, G(n)) /\ Prefix(n + 1, G(n + 1))  BY <1>5
  <2>2. G(n)[n] = G(n + 1)[n]  BY <1>4, <2>1
  <2>3. n \in 0 .. (n + 1) - 1  OBVIOUS
  <2>4. G(n + 1)[n + 1] = s[<<n, G(n + 1)[n]>>]  BY <2>1, <2>3
  <2>5. QED  BY <2>2, <2>4
<1>8. Iterates(f, S, c, s)  BY <1>6, <1>7 DEF Iterates
<1>9. QED  BY <1>8

-----------------------------------------------------------------------------
(* Powers of two. *)

LEMMA Pow2Steps == Pow2[0] = 1 /\ \A n \in Nat : Pow2[n + 1] = 2 * Pow2[n]
<1> DEFINE s == [x \in Nat \X Nat |-> 2 * x[2]]
           Def(g) == [n \in Nat |-> IF n = 0 THEN 1 ELSE 2 * g[n - 1]]
<1>1. PICK f : Iterates(f, Nat, 1, s)
  <2>1. s \in [Nat \X Nat -> Nat] /\ 1 \in Nat  OBVIOUS
  <2> HIDE DEF s
  <2>2. QED  BY <2>1, Recursion, Zenon
<1>2. f = Def(f)
  <2>1. \A n \in Nat : f[n + 1] = 2 * f[n]
    BY <1>1 DEF Iterates
  <2>2. \A n \in Nat : n # 0 => n - 1 \in Nat /\ (n - 1) + 1 = n  OBVIOUS
  <2>3. \A n \in Nat : f[n] = IF n = 0 THEN 1 ELSE 2 * f[n - 1]
    BY <1>1, <2>1, <2>2 DEF Iterates
  <2>4. QED  BY <1>1, <2>3 DEF Iterates
<1>3. Pow2 = Def(Pow2)
  <2>1. Pow2 = CHOOSE g : g = Def(g)
    BY DEF Pow2
  <2> HIDE DEF Def
  <2>2. QED  BY <1>2, <2>1, Zenon
<1>4. ASSUME NEW g, g = Def(g)  PROVE g[0] = 1 /\ \A n \in Nat : g[n + 1] = 2 * g[n]
  <2>1. g[0] = 1  BY <1>4
  <2>2. ASSUME NEW n \in Nat  PROVE g[n + 1] = 2 * g[n]
    <3>1. n + 1 \in Nat /\ n + 1 # 0 /\ (n + 1) - 1 = n  OBVIOUS
    <3>2. QED  BY <1>4, <3>1
  <2>3. QED  BY <2>1, <2>2
<1> HIDE DEF Def
<1>5. QED  BY <1>3, <1>4

LEMMA Pow2Type == \A n \in Nat : Pow2[n] \in Nat \ {0}
<1> DEFINE T == {n \in Nat : Pow2[n] \in Nat \ {0}}
<1>1. 0 \in T  BY Pow2Steps
<1>2. \A n \in Nat : n \in T => n + 1 \in T  BY Pow2Steps
<1> HIDE DEF T
<1>3. Nat \subseteq T  BY <1>1, <1>2, Induction
<1>4. QED  BY <1>3 DEF T

(* Exponents add. *)
LEMMA Pow2Sum == \A a, b \in Nat : Pow2[a + b] = Pow2[a] * Pow2[b]
<1> SUFFICES ASSUME NEW a \in Nat  PROVE \A b \in Nat : Pow2[a + b] = Pow2[a] * Pow2[b]
  OBVIOUS
<1> DEFINE T == {b \in Nat : Pow2[a + b] = Pow2[a] * Pow2[b]}
<1>0. \A x, y \in Nat : 2 * (x * y) = x * (2 * y)  OBVIOUS
<1>1. 0 \in T
  <2>1. a + 0 = a /\ Pow2[a] \in Nat  BY Pow2Type
  <2>2. QED  BY <2>1, Pow2Steps
<1>2. ASSUME NEW b \in Nat, b \in T  PROVE b + 1 \in T
  <2>1. a + b \in Nat /\ (a + b) + 1 = a + (b + 1)  OBVIOUS
  <2>2. Pow2[a + (b + 1)] = 2 * Pow2[a + b] /\ Pow2[b + 1] = 2 * Pow2[b]
    BY <2>1, Pow2Steps
  <2>3. Pow2[a + b] = Pow2[a] * Pow2[b]  BY <1>2
  <2>4. Pow2[a] \in Nat /\ Pow2[b] \in Nat  BY Pow2Type
  <2>5. 2 * (Pow2[a] * Pow2[b]) = Pow2[a] * (2 * Pow2[b])  BY <1>0, <2>4, Zenon
  <2>6. QED  BY <2>2, <2>3, <2>5
<1> HIDE DEF T
<1>3. Nat \subseteq T  BY <1>1, <1>2, Induction
<1>4. QED  BY <1>3 DEF T

LEMMA Pow2Grows == \A a, b \in Nat : a <= b => Pow2[a] <= Pow2[b]
<1> SUFFICES ASSUME NEW a \in Nat, NEW b \in Nat, a <= b  PROVE Pow2[a] <= Pow2[b]
  OBVIOUS
<1>1. b - a \in Nat /\ a + (b - a) = b  OBVIOUS
<1>2. Pow2[b] = Pow2[a] * Pow2[b - a]  BY <1>1, Pow2Sum
<1>3. Pow2[a] \in Nat \ {0} /\ Pow2[b - a] \in Nat \ {0}  BY <1>1, Pow2Type
<1>4. \A x, y \in Nat \ {0} : x <= x * y  OBVIOUS
<1>5. QED  BY <1>2, <1>3, <1>4

LEMMA Pow2Doubles == \A a, b \in Nat : a < b => 2 * Pow2[a] <= Pow2[b]
<1> SUFFICES ASSUME NEW a \in Nat, NEW b \in Nat, a < b  PROVE 2 * Pow2[a] <= Pow2[b]
  OBVIOUS
<1>1. a + 1 \in Nat /\ a + 1 <= b  OBVIOUS
<1>2. Pow2[a + 1] <= Pow2[b]  BY <1>1, Pow2Grows
<1>3. QED  BY <1>2, Pow2Steps

RowSound ==
    /\ cols \in Nat /\ DOMAIN values = 0 .. cols - 1
    /\ block_size \in 1 .. cols

-----------------------------------------------------------------------------
(* Division. *)

LEMMA Division ==
    \A a \in Nat, b \in Nat \ {0} :
        LET q == a \div b IN q \in Nat /\ q * b \in Nat /\ q * b <= a /\ a < q * b + b
<1>1. \A a \in Nat, b \in Nat \ {0} : a \div b \in Nat  OBVIOUS
<1>2. \A a \in Nat, b \in Nat \ {0} : b * (a \div b) <= a  OBVIOUS
<1>3. \A a \in Nat, b \in Nat \ {0} : a < b * (a \div b) + b  OBVIOUS
<1>4. \A x, y \in Nat : x * y \in Nat /\ x * y = y * x  OBVIOUS
<1>5. SUFFICES ASSUME NEW a \in Nat, NEW b \in Nat \ {0}
               PROVE  LET q == a \div b IN q \in Nat /\ q * b \in Nat /\ q * b <= a /\ a < q * b + b
  OBVIOUS
<1> DEFINE q == a \div b
<1>6. q \in Nat /\ b * q <= a /\ a < b * q + b
  BY <1>1, <1>2, <1>3, Zenon
<1> HIDE DEF q
<1>7. q * b \in Nat /\ b * q = q * b
  BY <1>4, <1>6
<1>8. QED  BY <1>6, <1>7 DEF q

(* Multiples of b are b apart. *)
LEMMA Apart ==
    \A x, y \in Int, b \in Nat \ {0} : x * b < y * b + b => x <= y
<1> SUFFICES ASSUME NEW x \in Int, NEW y \in Int, NEW b \in Nat \ {0}, x > y
             PROVE  x * b >= y * b + b
  OBVIOUS
<1>1. x - y - 1 \in Nat  OBVIOUS
<1>2. \A d, e \in Nat : d * e \in Nat  OBVIOUS
<1>3. (x - y - 1) * b \in Nat  BY <1>1, <1>2
<1>4. (x - y - 1) * b = x * b - y * b - b  OBVIOUS
<1>5. QED  BY <1>3, <1>4

(* The only multiple of b at most a, and more than a - b. *)
LEMMA OnlyMultiple ==
    \A a \in Nat, b \in Nat \ {0}, k \in Int : k * b <= a /\ a < k * b + b => k = a \div b
<1> SUFFICES ASSUME NEW a \in Nat, NEW b \in Nat \ {0}, NEW k \in Int, k * b <= a, a < k * b + b
             PROVE  k = a \div b
  OBVIOUS
<1> DEFINE q == a \div b
<1>1. q \in Nat /\ q * b \in Nat /\ q * b <= a /\ a < q * b + b
  BY Division, Zenon
<1> HIDE DEF q
<1>2. k * b \in Int  OBVIOUS
<1>3. k * b < q * b + b /\ q * b < k * b + b
  BY <1>1, <1>2
<1>4. k <= q /\ q <= k
  BY <1>1, <1>3, Apart
<1>5. QED  BY <1>1, <1>4 DEF q

-----------------------------------------------------------------------------
(* The loop in steps of Lanes takes the elements before remainder_start,   *)
(* the loop behind it the others, and neither takes one twice.             *)
LEMMA LoopsMeet ==
    \A n \in Nat : \A i \in 0 .. n - 1 : TimesRounded(n, i) = 1
<1> SUFFICES ASSUME NEW n \in Nat, NEW i \in 0 .. n - 1  PROVE TimesRounded(n, i) = 1
  OBVIOUS
<1> DEFINE L == Lanes
           q == i \div L
           r == n \div L
           Takers == {s \in LaneStarts(n) : i \in s .. s + L - 1}
<1>1. L \in Nat \ {0} /\ i \in Nat /\ i < n
  BY FixedPointAssumption
<1>2. q \in Nat /\ q * L \in Nat /\ q * L <= i /\ i < q * L + L
  BY <1>1, Division, Zenon
<1>3. r \in Nat /\ r * L \in Nat /\ r * L <= n /\ n < r * L + L
  BY <1>1, Division, Zenon
<1>4. LaneStarts(n) = {s \in 0 .. n : s % L = 0 /\ s < n - (L - 1)}
  BY DEF LaneStarts
<1>5. TimesRounded(n, i) = Cardinality(Takers) + (IF i \in r * L .. n - 1 THEN 1 ELSE 0)
  BY DEF TimesRounded, remainder_start
<1>6. \A k \in Nat, b \in Nat \ {0} : (k * b) % b = 0
  OBVIOUS
<1>7. \A a \in Nat, b \in Nat \ {0} : a % b = 0 => \E k \in Nat : a = k * b
  OBVIOUS
<1>8. \A s \in Takers : s = q * L
  <2> SUFFICES ASSUME NEW s \in Takers  PROVE s = q * L
    OBVIOUS
  <2>1. s \in Nat /\ s % L = 0 /\ s <= i /\ i < s + L
    BY <1>1, <1>4
  <2>2. PICK k \in Nat : s = k * L
    BY <1>1, <1>7, <2>1, Zenon
  <2>3. k = q
    BY <1>1, <2>1, <2>2, OnlyMultiple
  <2>4. QED  BY <2>2, <2>3
<1>9. q * L \in Takers <=> q * L < n - (L - 1)
  <2>1. (q * L) % L = 0
    BY <1>1, <1>2, <1>6, Zenon
  <2>2. q * L \in 0 .. n /\ i \in q * L .. q * L + L - 1
    BY <1>1, <1>2
  <2>3. QED  BY <1>4, <2>1, <2>2, Zenon
<1> HIDE DEF L, q, r, Takers
<1>10. CASE q * L < n - (L - 1)
  <2>1. Takers = {q * L}
    BY <1>8, <1>9, <1>10
  <2>2. Cardinality(Takers) = 1
    BY <2>1, FS_Singleton
  <2>3. (q + 1) * L = q * L + L
    BY <1>1, <1>2
  <2>4. (q + 1) * L < r * L + L
    BY <1>1, <1>2, <1>3, <1>10, <2>3
  <2>5. q + 1 <= r
    BY <1>1, <1>2, <1>3, <2>4, Apart
  <2>6. (q + 1) * L <= r * L
    <3>1. \A x, y, z \in Nat : x <= y => x * z <= y * z  OBVIOUS
    <3>2. QED  BY <1>1, <1>2, <1>3, <2>5, <3>1
  <2>7. i < r * L
    BY <1>1, <1>2, <1>3, <2>3, <2>6
  <2>8. QED  BY <1>1, <1>3, <1>5, <2>2, <2>7
<1>11. CASE ~(q * L < n - (L - 1))
  <2>1. Takers = {}
    BY <1>8, <1>9, <1>11
  <2>2. Cardinality(Takers) = 0
    BY <2>1, FS_EmptySet
  <2>3. r * L < q * L + L
    BY <1>1, <1>2, <1>3, <1>11
  <2>4. r <= q
    BY <1>1, <1>2, <1>3, <2>3, Apart
  <2>5. r * L <= q * L
    <3>1. \A x, y, z \in Nat : x <= y => x * z <= y * z  OBVIOUS
    <3>2. QED  BY <1>1, <1>2, <1>3, <2>4, <3>1
  <2>6. i \in r * L .. n - 1
    BY <1>1, <1>2, <1>3, <2>5
  <2>7. QED  BY <1>5, <2>2, <2>6
<1>12. QED  BY <1>10, <1>11

-----------------------------------------------------------------------------
(* A block has elements, all of the row, and an element is in the block    *)
(* that its index says.                                                    *)
LEMMA BlockRange ==
    ASSUME RowSound, NEW b \in BlockIndex
    PROVE  /\ b \in Nat /\ b * block_size \in Nat /\ b * block_size < cols
           /\ end_col(b) \in Nat /\ end_col(b) <= cols
           /\ start_col(b) = b * block_size /\ start_col(b) < end_col(b)
           /\ end_col(b) <= b * block_size + block_size
           /\ end_col(b) = cols \/ end_col(b) = b * block_size + block_size
<1> DEFINE s == block_size
           n == cols
           m == (n + s - 1) \div s
<1>1. n \in Nat /\ s \in Nat \ {0} /\ n + s - 1 \in Nat
  BY DEF RowSound
<1>2. m \in Nat /\ m * s \in Nat /\ m * s <= n + s - 1 /\ n + s - 1 < m * s + s
  BY <1>1, Division, Zenon
<1>3. b \in 0 .. m - 1
  BY DEF BlockIndex, num_blocks
<1>4. end_col(b) = IF b * s + s < n THEN b * s + s ELSE n
  BY DEF end_col, start_col
<1>5. start_col(b) = b * s
  BY DEF start_col
<1> HIDE DEF s, n, m
<1>6. b \in Nat /\ b + 1 \in Nat /\ b + 1 <= m
  BY <1>2, <1>3
<1>7. b * s \in Nat /\ (b + 1) * s = b * s + s
  BY <1>1, <1>6
<1>8. (b + 1) * s <= m * s
  <2>1. \A x, y, z \in Nat : x <= y => x * z <= y * z  OBVIOUS
  <2>2. QED  BY <1>1, <1>2, <1>6, <2>1
<1>9. b * s < n
  BY <1>1, <1>2, <1>7, <1>8
<1>10. QED  BY <1>1, <1>4, <1>5, <1>6, <1>7, <1>9 DEF s, n

LEMMA OwnBlock ==
    ASSUME RowSound, NEW i \in 0 .. cols - 1
    PROVE  BlockOf(i) \in BlockIndex /\ i \in Columns(BlockOf(i))
<1> DEFINE s == block_size
           n == cols
           m == (n + s - 1) \div s
           q == i \div s
<1>1. n \in Nat /\ s \in Nat \ {0} /\ n + s - 1 \in Nat /\ i \in Nat /\ i < n
  BY DEF RowSound
<1>2. m \in Nat /\ m * s \in Nat /\ n + s - 1 < m * s + s
  BY <1>1, Division, Zenon
<1>3. q \in Nat /\ q * s \in Nat /\ q * s <= i /\ i < q * s + s
  BY <1>1, Division, Zenon
<1>4. BlockOf(i) = q /\ BlockIndex = 0 .. m - 1
  BY DEF BlockOf, BlockIndex, num_blocks
<1> HIDE DEF s, n, m, q
<1>5. (q + 1) * s = q * s + s
  BY <1>1, <1>3
<1>6. (q + 1) * s < m * s + s
  BY <1>1, <1>2, <1>3, <1>5
<1>7. q + 1 <= m
  BY <1>1, <1>2, <1>3, <1>6, Apart
<1>8. BlockOf(i) \in BlockIndex
  BY <1>2, <1>3, <1>4, <1>7
<1>9. /\ start_col(q) = q * s
      /\ end_col(q) = n \/ end_col(q) = q * s + s
      /\ end_col(q) \in Nat
  BY <1>4, <1>8, BlockRange DEF s, n
<1>10. i \in Columns(q)
  BY <1>1, <1>3, <1>9 DEF Columns
<1>11. QED  BY <1>4, <1>8, <1>10

LEMMA BlocksPartition == RowSound => EachElementOnce
<1> SUFFICES ASSUME RowSound  PROVE EachElementOnce
  OBVIOUS
<1>0. DOMAIN values = 0 .. cols - 1 /\ cols \in Nat /\ block_size \in Nat \ {0}
  BY DEF RowSound
<1>1. ASSUME NEW i \in DOMAIN values
      PROVE  {b \in BlockIndex : i \in Columns(b)} = {BlockOf(i)}
  <2>1. BlockOf(i) \in BlockIndex /\ i \in Columns(BlockOf(i))
    BY <1>0, OwnBlock
  <2>2. ASSUME NEW b \in BlockIndex, i \in Columns(b)  PROVE b = BlockOf(i)
    <3>1. /\ b \in Nat /\ b * block_size \in Nat /\ start_col(b) = b * block_size
          /\ end_col(b) \in Nat /\ end_col(b) <= b * block_size + block_size
      BY BlockRange
    <3>2. i \in Nat /\ b * block_size <= i /\ i < b * block_size + block_size
      BY <1>0, <2>2, <3>1 DEF Columns
    <3>3. b = i \div block_size
      BY <1>0, <3>1, <3>2, OnlyMultiple
    <3>4. QED  BY <3>3 DEF BlockOf
  <2>3. QED  BY <2>1, <2>2
<1>2. ASSUME NEW b \in BlockIndex
      PROVE  /\ Columns(b) \subseteq DOMAIN values /\ Columns(b) # {}
             /\ \A i \in 0 .. Cardinality(Columns(b)) - 1 :
                   TimesRounded(Cardinality(Columns(b)), i) = 1
  <2>1. /\ start_col(b) \in Nat /\ end_col(b) \in Nat
        /\ start_col(b) < end_col(b) /\ end_col(b) <= cols
    BY BlockRange
  <2>2. Columns(b) = start_col(b) .. end_col(b) - 1
    BY DEF Columns
  <2>3. Columns(b) \subseteq DOMAIN values /\ start_col(b) \in Columns(b)
    BY <1>0, <2>1, <2>2
  <2>4. IsFiniteSet(Columns(b))
    <3>1. start_col(b) \in Int /\ end_col(b) - 1 \in Int  BY <2>1
    <3>2. QED  BY <2>2, <3>1, FS_Interval
  <2>5. Cardinality(Columns(b)) \in Nat
    BY <2>4, FS_CardinalityType
  <2>6. QED  BY <2>3, <2>5, LoopsMeet
<1>3. QED  BY <1>1, <1>2 DEF EachElementOnce

(* However long the row and whatever the block size, every element is in   *)
(* exactly one block, at the index the conversion looks it up, and is      *)
(* rounded exactly once (fixedpoint.h 62-81, 225-227, 253-254).            *)
THEOREM EveryElementOnce == Spec => []EachElementOnce
<1>1. Init => RowSound
  <2> SUFFICES ASSUME Init  PROVE RowSound
    OBVIOUS
  <2>1. values \in Row /\ block_size \in 1 .. cols
    BY DEF Init, cols
  <2>2. IsFiniteSet(DOMAIN values) /\ DOMAIN values = 0 .. cols - 1
    BY <2>1, RowAssumption DEF cols
  <2>3. cols \in Nat
    BY <2>2, FS_CardinalityType DEF cols
  <2>4. QED  BY <2>1, <2>2, <2>3 DEF RowSound
<1>2. RowSound /\ [Next]_vars => RowSound'
  <2> SUFFICES ASSUME RowSound, [Next]_vars  PROVE RowSound'
    OBVIOUS
  <2>1. UNCHANGED <<values, block_size>>
    BY DEF Next, vars, fit_exponent, RoundRow, CentreRow, Encode, mantissa_to_floats
  <2>2. QED  BY <2>1 DEF RowSound, cols
<1>3. QED  BY <1>1, <1>2, BlocksPartition, PTL DEF Spec

-----------------------------------------------------------------------------
(* Stochastic rounding. *)

LEMMA Quotient ==
    \A k, r \in Nat, b \in Nat \ {0} :
        r < b => (k * b + r) \div b = k /\ (k * b + r) % b = r
<1> SUFFICES ASSUME NEW k \in Nat, NEW r \in Nat, NEW b \in Nat \ {0}, r < b
             PROVE  (k * b + r) \div b = k /\ (k * b + r) % b = r
  OBVIOUS
<1> DEFINE a == k * b + r
           q == a \div b
           p == a % b
<1>1. \A x, y \in Nat : x * y \in Nat  OBVIOUS
<1>2. k * b \in Nat  BY <1>1
<1>3. a \in Nat /\ k * b <= a /\ a < k * b + b  BY <1>2
<1>4. \A x \in Nat, y \in Nat \ {0} : x = y * (x \div y) + (x % y) /\ x % y \in Nat  OBVIOUS
<1>5. \A x, y \in Int : x * y = y * x  OBVIOUS
<1>6. a = b * q + p /\ p \in Nat
  <2> HIDE DEF a
  <2>1. QED  BY <1>3, <1>4, Zenon
<1>7. k = q
  <2> HIDE DEF a
  <2>1. k \in Int  OBVIOUS
  <2>2. QED  BY <1>3, <2>1, OnlyMultiple, Zenon
<1>8. b * q = k * b  BY <1>5, <1>7
<1> HIDE DEF p, q
<1>9. p = r  BY <1>2, <1>6, <1>8
<1>10. QED  BY <1>7, <1>9 DEF p, q

(* A common factor cancels. *)
LEMMA Cancels ==
    \A m \in Nat, c, d \in Nat \ {0} : (m * c) \div (c * d) = m \div d
<1> SUFFICES ASSUME NEW m \in Nat, NEW c \in Nat \ {0}, NEW d \in Nat \ {0}
             PROVE  (m * c) \div (c * d) = m \div d
  OBVIOUS
<1> DEFINE q == m \div d
<1>1. q \in Nat /\ q * d \in Nat /\ q * d <= m /\ m < q * d + d
  BY Division, Zenon
<1> HIDE DEF q
<1>2. \A x, y, z \in Nat : x <= y => x * z <= y * z  OBVIOUS
<1>3. \A x, y \in Nat, z \in Nat \ {0} : x < y => x * z < y * z  OBVIOUS
<1>4. (q * d) * c <= m * c  BY <1>1, <1>2
<1>5. m * c < (q * d + d) * c  BY <1>1, <1>3
<1>6. \A x, y, z \in Nat : (x * y) * z = x * (z * y) /\ (x * y + y) * z = x * (z * y) + z * y  OBVIOUS
<1>7. (q * d) * c = q * (c * d) /\ (q * d + d) * c = q * (c * d) + c * d
  BY <1>1, <1>6
<1>8. \A x, y \in Nat \ {0} : x * y \in Nat \ {0}  OBVIOUS
<1>9. \A x, y \in Nat : x * y \in Nat  OBVIOUS
<1>10. c * d \in Nat \ {0} /\ m * c \in Nat  BY <1>8, <1>9
<1>11. q = (m * c) \div (c * d)
  <2> DEFINE a == m * c
             b == c * d
  <2>1. a \in Nat /\ b \in Nat \ {0} /\ q \in Int /\ q * b <= a /\ a < q * b + b
    BY <1>1, <1>4, <1>5, <1>7, <1>10
  <2> HIDE DEF a, b
  <2>2. q = a \div b  BY <2>1, OnlyMultiple
  <2>3. QED  BY <2>2 DEF a, b
<1>12. QED  BY <1>11 DEF q

(* The quotient by one, taken to a factor p and cut off: its integer part  *)
(* is the quotient, its fraction that of the remainder.                    *)
LEMMA FixedPointParts ==
    \A m \in Nat, one, p \in Nat \ {0} :
        LET c == ((m % one) * p) \div one IN
        /\ c \in 0 .. p - 1 /\ m \div one \in Nat
        /\ (m * p) \div one = (m \div one) * p + c
<1> SUFFICES ASSUME NEW m \in Nat, NEW one \in Nat \ {0}, NEW p \in Nat \ {0}
             PROVE  LET c == ((m % one) * p) \div one IN
                    /\ c \in 0 .. p - 1 /\ m \div one \in Nat
                    /\ (m * p) \div one = (m \div one) * p + c
  OBVIOUS
<1> DEFINE a == m \div one
           r == m % one
           c == (r * p) \div one
<1>1. \A x \in Nat, y \in Nat \ {0} :
          x = y * (x \div y) + (x % y) /\ x % y \in Nat /\ x % y < y /\ x \div y \in Nat
  OBVIOUS
<1>2. m = one * a + r /\ r \in Nat /\ r < one /\ a \in Nat
  BY <1>1, Zenon
<1> HIDE DEF a, r
<1>3. \A x, y \in Nat : x * y \in Nat  OBVIOUS
<1>4. r * p \in Nat  BY <1>2, <1>3
<1>5. c \in Nat /\ c * one \in Nat /\ c * one <= r * p /\ r * p < c * one + one
  BY <1>4, Division, Zenon
<1> HIDE DEF c
<1>6. \A x, y \in Nat, z \in Nat \ {0} : x < y => x * z < y * z  OBVIOUS
<1>7. r * p < one * p  BY <1>2, <1>6
<1>8. \A x, y \in Nat : x * y = y * x  OBVIOUS
<1>9. one * p \in Nat /\ one * p = p * one  BY <1>3, <1>8
<1>10. c < p
  <2> SUFFICES ASSUME p <= c  PROVE FALSE
    BY <1>5
  <2>1. \A x, y, z \in Nat : x <= y => x * z <= y * z  OBVIOUS
  <2>2. p * one <= c * one  BY <1>5, <2>1
  <2>3. QED  BY <1>4, <1>5, <1>7, <1>9, <2>2
<1>11. m * p = (a * p) * one + r * p
  <2>1. \A x, y, z, w \in Nat : (x * y + z) * w = (y * w) * x + z * w  OBVIOUS
  <2>2. QED  BY <1>2, <2>1
<1>12. (a * p + c) * one = (a * p) * one + c * one
  <2>1. a * p \in Nat  BY <1>2, <1>3
  <2>2. \A x, y, z \in Nat : (x + y) * z = x * z + y * z  OBVIOUS
  <2>3. QED  BY <1>5, <2>1, <2>2
<1>13. (a * p + c) = (m * p) \div one
  <2> DEFINE k == a * p + c
             n == m * p
  <2>1. k \in Nat /\ n \in Nat  BY <1>2, <1>3, <1>5
  <2>2. (a * p) * one \in Nat  BY <1>2, <1>3
  <2>3. k * one <= n /\ n < k * one + one
    BY <1>4, <1>5, <1>11, <1>12, <2>2
  <2> HIDE DEF k, n
  <2>4. k = n \div one  BY <2>1, <2>3, OnlyMultiple
  <2>5. QED  BY <2>4 DEF k, n
<1>14. QED  BY <1>2, <1>5, <1>10, <1>13 DEF a, r, c

LEMMA Constants ==
    /\ FracBits \in Nat \ {0} /\ Bias \in Nat \ {0} /\ Word \in Nat \ {0}
    /\ Precision \in Nat \ {0} /\ MantissaBits \in Nat \ {0} /\ Offset \in Nat \ {0}
    /\ FracBits < Word /\ Precision < Word
BY FixedPointAssumption

LEMMA FloatParts ==
    ASSUME NEW x \in Float
    PROVE  /\ x.neg \in BOOLEAN /\ x.exp \in Nat /\ x.exp <= 2 * Bias + 1
           /\ x.frac \in Nat
           /\ Pow2[FracBits] + x.frac \in Nat \ {0}
           /\ Pow2[FracBits] <= Pow2[FracBits] + x.frac
           /\ Pow2[FracBits] + x.frac < Pow2[FracBits + 1]
<1>1. Pow2[FracBits] \in Nat \ {0} /\ Pow2[FracBits + 1] = 2 * Pow2[FracBits]
  BY Constants, Pow2Type, Pow2Steps
<1>2. x.neg \in BOOLEAN /\ x.exp \in 0 .. 2 * Bias + 1 /\ x.frac \in 0 .. Pow2[FracBits] - 1
  BY DEF Float
<1>3. QED  BY <1>1, <1>2, Constants

(* The four cases of the shift: the magnitude as a fixed-point number with *)
(* Precision bits of fraction, whenever that number fits the word.         *)
LEMMA ScaledValue ==
    ASSUME NEW x \in Float, ~IsZero(x),
           Magnitude(x) < UnitsOf2To(0) * Pow2[Word - Precision]
    PROVE  calculate_scaled_fixed_value(Pow2[FracBits] + x.frac,
                                        Bias + FracBits - Precision - x.exp)
               = (Magnitude(x) * Pow2[Precision]) \div UnitsOf2To(0)
<1> DEFINE M == Pow2[FracBits] + x.frac
           s == Bias + FracBits - Precision - x.exp
           one == UnitsOf2To(0)
           up == Pow2[(x.exp - 1) + Precision]
<1>1. /\ M \in Nat \ {0} /\ M < Pow2[FracBits + 1] /\ x.exp \in Nat \ {0}
      /\ s \in Int /\ x.exp - 1 \in Nat /\ (x.exp - 1) + Precision \in Nat
      /\ Bias + FracBits - 1 \in Nat
  BY FloatParts, Constants DEF IsZero
<1>2. one = Pow2[Bias + FracBits - 1] /\ one \in Nat \ {0} /\ up \in Nat \ {0}
  <2>1. 0 + Bias + FracBits - 1 = Bias + FracBits - 1  BY Constants
  <2>2. QED  BY <1>1, <2>1, Pow2Type DEF UnitsOf2To
<1>3. Magnitude(x) * Pow2[Precision] = M * up
  <2>1. Magnitude(x) = M * Pow2[x.exp - 1]
    BY DEF Magnitude
  <2>2. up = Pow2[x.exp - 1] * Pow2[Precision]
    BY <1>1, Constants, Pow2Sum
  <2>3. Pow2[x.exp - 1] \in Nat /\ Pow2[Precision] \in Nat
    BY <1>1, Constants, Pow2Type
  <2>4. \A a, b, c \in Nat : (a * b) * c = a * (b * c)  OBVIOUS
  <2> HIDE DEF M, up
  <2>5. QED  BY <1>1, <2>1, <2>2, <2>3, <2>4
<1>4. M * up < one * Pow2[Word]
  <2>1. Word - Precision \in Nat /\ (Word - Precision) + Precision = Word  BY Constants
  <2>2. Pow2[Word] = Pow2[Word - Precision] * Pow2[Precision]
    BY <2>1, Constants, Pow2Sum
  <2>3. Pow2[Word - Precision] \in Nat /\ Pow2[Precision] \in Nat \ {0}
    BY <2>1, Constants, Pow2Type
  <2>4. \A a, b \in Nat, c \in Nat \ {0} : a < b => a * c < b * c  OBVIOUS
  <2>5. \A a, b, c \in Nat : (a * b) * c = a * (b * c)  OBVIOUS
  <2>6. \A a, b \in Nat : a * b \in Nat  OBVIOUS
  <2>7. Magnitude(x) \in Nat
    <3>1. Pow2[x.exp - 1] \in Nat  BY <1>1, Pow2Type
    <3>2. Magnitude(x) = M * Pow2[x.exp - 1]  BY DEF Magnitude
    <3> HIDE DEF M
    <3>3. QED  BY <1>1, <2>6, <3>1, <3>2
  <2>8. one * Pow2[Word - Precision] \in Nat  BY <1>2, <2>3, <2>6
  <2>9. Magnitude(x) * Pow2[Precision] < (one * Pow2[Word - Precision]) * Pow2[Precision]
    BY <2>3, <2>4, <2>7, <2>8
  <2> HIDE DEF one, up, M
  <2>10. QED  BY <1>2, <1>3, <2>2, <2>3, <2>5, <2>9
<1>5. CASE s >= 0
  <2>1. s \in Nat /\ ((x.exp - 1) + Precision) + s = Bias + FracBits - 1
    BY <1>1, <1>5, Constants
  <2>2. one = up * Pow2[s] /\ Pow2[s] \in Nat \ {0}
    <3>1. Pow2[((x.exp - 1) + Precision) + s] = up * Pow2[s]
      <4> HIDE DEF s
      <4>1. QED  BY <1>1, <2>1, Pow2Sum
    <3> HIDE DEF s
    <3>2. QED  BY <1>2, <2>1, <3>1, Pow2Type
  <2>3. (M * up) \div one = M \div Pow2[s]
    <3> HIDE DEF one, up, M, s
    <3>1. QED  BY <1>1, <1>2, <2>2, Cancels
  <2>4. CASE s < Word
    <3>1. calculate_scaled_fixed_value(M, s) = M \div Pow2[s]
      <4> HIDE DEF M, s
      <4>1. QED  BY <1>1, <1>5, <2>4, Constants DEF calculate_scaled_fixed_value
    <3>2. QED  BY <1>3, <2>3, <3>1
  <2>5. CASE s >= Word
    <3>1. calculate_scaled_fixed_value(M, s) = 0
      <4> HIDE DEF M, s
      <4>1. QED  BY <1>1, <2>5, Constants DEF calculate_scaled_fixed_value
    <3>2. Pow2[FracBits + 1] <= Pow2[s]
      <4>1. FracBits + 1 \in Nat /\ FracBits + 1 <= s  BY <1>1, <2>5, Constants
      <4>2. QED  BY <2>1, <4>1, Pow2Grows
    <3>3. M \div Pow2[s] = 0
      <4>1. Pow2[FracBits + 1] \in Nat  BY Constants, Pow2Type
      <4>2. \A a \in Nat, b \in Nat \ {0} : a < b => a \div b = 0  OBVIOUS
      <4> HIDE DEF M, s
      <4>3. M < Pow2[s]  BY <1>1, <2>2, <3>2, <4>1
      <4>4. QED  BY <1>1, <2>2, <4>2, <4>3
    <3>4. QED  BY <1>3, <2>3, <3>1, <3>3
  <2>6. QED  BY <1>1, <2>4, <2>5, Constants
<1>6. CASE s < 0
  <2>1. -s \in Nat /\ (Bias + FracBits - 1) + (-s) = (x.exp - 1) + Precision
    BY <1>1, <1>6, Constants
  <2>2. up = one * Pow2[-s] /\ Pow2[-s] \in Nat \ {0}
    BY <1>1, <1>2, <2>1, Pow2Sum, Pow2Type
  <2> DEFINE r == M * Pow2[-s]
  <2>3. r \in Nat /\ M * up = r * one /\ Pow2[-s] <= r
    <3>1. \A a, b, c \in Nat : a * (b * c) = (a * c) * b  OBVIOUS
    <3>2. \A a, b \in Nat \ {0} : a * b \in Nat /\ b <= a * b  OBVIOUS
    <3> HIDE DEF M, s, one, up
    <3>3. QED  BY <1>1, <1>2, <2>2, <3>1, <3>2
  <2>4. Pow2[Word] \in Nat \ {0}  BY Constants, Pow2Type
  <2>5. r < Pow2[Word]
    <3> HIDE DEF M, s, one, up, r
    <3>1. \A a, b \in Nat : a * b = b * a  OBVIOUS
    <3>2. r * one < Pow2[Word] * one  BY <1>2, <1>4, <2>3, <2>4, <3>1
    <3>3. \A a, b \in Nat, c \in Nat \ {0} : a * c < b * c => a < b  OBVIOUS
    <3>4. QED  BY <1>2, <2>3, <2>4, <3>2, <3>3
  <2>6. -s < Word
    <3> SUFFICES ASSUME Word <= -s  PROVE FALSE
      BY <1>1, Constants
    <3>1. Pow2[Word] <= Pow2[-s]
      BY <2>1, Constants, Pow2Grows
    <3> HIDE DEF r, s
    <3>2. QED  BY <2>2, <2>3, <2>4, <2>5, <3>1
  <2>7. calculate_scaled_fixed_value(M, s) = r % Pow2[Word]
    <3> HIDE DEF M, s
    <3>1. QED  BY <1>1, <1>6, <2>6, Constants DEF calculate_scaled_fixed_value
  <2>8. r % Pow2[Word] = r
    <3>1. \A a \in Nat, b \in Nat \ {0} : a < b => a % b = a  OBVIOUS
    <3> HIDE DEF r
    <3>2. QED  BY <2>3, <2>4, <2>5, <3>1
  <2>9. (M * up) \div one = r
    <3>1. \A a \in Nat, b \in Nat \ {0} : (a * b) \div b = a  OBVIOUS
    <3> HIDE DEF r, one, up, M
    <3>2. QED  BY <1>2, <2>3, <3>1
  <2>10. QED  BY <1>3, <2>7, <2>8, <2>9
<1>7. QED  BY <1>1, <1>5, <1>6

LEMMA MagnitudeType ==
    ASSUME NEW x \in Float  PROVE Magnitude(x) \in Nat
<1>1. CASE IsZero(x)
  BY <1>1 DEF Magnitude
<1>2. CASE ~IsZero(x)
  <2> DEFINE M == Pow2[FracBits] + x.frac
             p == Pow2[x.exp - 1]
  <2>1. x.exp - 1 \in Nat /\ M \in Nat
    BY <1>2, FloatParts DEF IsZero
  <2>2. p \in Nat  BY <2>1, Pow2Type
  <2>3. Magnitude(x) = M * p
    BY <1>2 DEF Magnitude
  <2>4. \A a, b \in Nat : a * b \in Nat  OBVIOUS
  <2> HIDE DEF M, p
  <2>5. QED  BY <2>1, <2>2, <2>3, <2>4
<1>3. QED  BY <1>1, <1>2

(* What one rounding gives, for every float that fits and every noise: the *)
(* carry of the noise and the c that stands for the fraction.              *)
LEMMA RoundingCarries ==
    ASSUME NEW x \in Float,
           Magnitude(x) < UnitsOf2To(0) * Pow2[Word - Precision],
           NEW n \in 0 .. Pow2[Precision] - 1
    PROVE  LET one == UnitsOf2To(0)
               c == ((Magnitude(x) % one) * Pow2[Precision]) \div one
           IN  process_single_stochastic_round(x, n)
                   = Negate(x.neg, (Magnitude(x) \div one)
                                       + IF n >= Pow2[Precision] - c THEN 1 ELSE 0)
<1> DEFINE m == Magnitude(x)
           one == UnitsOf2To(0)
           p == Pow2[Precision]
           c == ((m % one) * p) \div one
           a == m \div one
<1>1. m \in Nat /\ one \in Nat \ {0} /\ p \in Nat \ {0}
  <2>1. 0 + Bias + FracBits - 1 \in Nat  BY Constants
  <2>2. QED  BY <2>1, Constants, MagnitudeType, Pow2Type DEF UnitsOf2To
<1>2. c \in 0 .. p - 1 /\ a \in Nat /\ (m * p) \div one = a * p + c
  <2> HIDE DEF m, one, p
  <2>1. QED  BY <1>1, FixedPointParts
<1>3. CASE IsZero(x)
  <2>1. m = 0 /\ process_single_stochastic_round(x, n) = 0
    BY <1>3 DEF Magnitude, process_single_stochastic_round
  <2>2. \A y \in Nat \ {0} : 0 \div y = 0 /\ 0 % y = 0 /\ 0 * y = 0  OBVIOUS
  <2>3. a = 0 /\ c = 0
    <3> HIDE DEF m, one, p
    <3>1. QED  BY <1>1, <2>1, <2>2
  <2>4. n < p - c
    <3>1. n \in Int /\ n < p  BY <1>1
    <3> HIDE DEF c, p
    <3>2. QED  BY <1>1, <2>3, <3>1
  <2>5. Negate(x.neg, a + IF n >= p - c THEN 1 ELSE 0) = 0
    <3> HIDE DEF a, c, p
    <3>1. n \in Int  OBVIOUS
    <3>2. a + (IF n >= p - c THEN 1 ELSE 0) = 0  BY <1>1, <2>3, <2>4, <3>1
    <3>3. \A b \in BOOLEAN, v \in Int : Negate(b, v) \in {0 - v, v}  BY DEF Negate
    <3>4. x.neg \in BOOLEAN  BY FloatParts
    <3>5. QED  BY <3>2, <3>3, <3>4
  <2>6. QED  BY <2>1, <2>5
<1>4. CASE ~IsZero(x)
  <2> DEFINE sc == calculate_scaled_fixed_value(Pow2[FracBits] + x.frac,
                                                Bias + FracBits - Precision - x.exp)
  <2>1. sc = a * p + c
    BY <1>2, <1>4, ScaledValue
  <2>2. process_single_stochastic_round(x, n)
            = Negate(x.neg, (sc \div p) + ((sc % p) + (n % p)) \div p)
    BY <1>4 DEF process_single_stochastic_round
  <2> HIDE DEF sc, a, c, m, one
  <2>3. sc \div p = a /\ sc % p = c
    <3> HIDE DEF p
    <3>1. c \in Nat /\ c < p  BY <1>1, <1>2
    <3>2. QED  BY <1>1, <1>2, <2>1, <3>1, Quotient
  <2>4. n % p = n
    <3>1. n \in Nat /\ n < p  BY <1>1
    <3>2. \A y \in Nat, z \in Nat \ {0} : y < z => y % z = y  OBVIOUS
    <3> HIDE DEF p
    <3>3. QED  BY <1>1, <3>1, <3>2
  <2>5. (c + n) \div p = IF n >= p - c THEN 1 ELSE 0
    <3>1. n \in Nat /\ n < p /\ c \in Nat /\ c < p  BY <1>1, <1>2
    <3>2. \A y \in Nat, z \in Nat \ {0} :
              /\ y < z => y \div z = 0
              /\ z <= y /\ y < 2 * z => y \div z = 1
      OBVIOUS
    <3>3. c + n \in Nat /\ c + n < 2 * p  BY <1>1, <3>1
    <3> HIDE DEF p
    <3>4. QED  BY <1>1, <3>1, <3>2, <3>3
  <2>6. QED  BY <2>2, <2>3, <2>4, <2>5 DEF a, c, m, one
<1>5. QED  BY <1>3, <1>4

LEMMA Signs ==
    \A neg \in BOOLEAN, v \in Nat :
        Negate(neg, v) \in Int /\ Abs(Negate(neg, v)) = v
BY DEF Negate, Abs

(* Every float is rounded fairly. *)
LEMMA FairFloat ==
    ASSUME NEW x \in Float
    PROVE  LET one == UnitsOf2To(0)
               up == {n \in 0 .. Pow2[Precision] - 1 :
                         Abs(process_single_stochastic_round(x, n)) = (Magnitude(x) \div one) + 1}
           IN  Magnitude(x) < one * Pow2[Word - Precision] =>
                /\ \A n \in (0 .. Pow2[Precision] - 1) \ up :
                      process_single_stochastic_round(x, n) = Negate(x.neg, Magnitude(x) \div one)
                /\ \A n \in up :
                      process_single_stochastic_round(x, n) = Negate(x.neg, (Magnitude(x) \div one) + 1)
                /\ Cardinality(up) = ((Magnitude(x) % one) * Pow2[Precision]) \div one
<1> DEFINE m == Magnitude(x)
           one == UnitsOf2To(0)
           p == Pow2[Precision]
           c == ((m % one) * p) \div one
           a == m \div one
           up == {n \in 0 .. p - 1 : Abs(process_single_stochastic_round(x, n)) = a + 1}
<1> SUFFICES ASSUME m < one * Pow2[Word - Precision]
             PROVE  /\ \A n \in (0 .. p - 1) \ up :
                          process_single_stochastic_round(x, n) = Negate(x.neg, a)
                    /\ \A n \in up : process_single_stochastic_round(x, n) = Negate(x.neg, a + 1)
                    /\ Cardinality(up) = c
  OBVIOUS
<1>1. m \in Nat /\ one \in Nat \ {0} /\ p \in Nat \ {0}
  <2>1. 0 + Bias + FracBits - 1 \in Nat  BY Constants
  <2>2. QED  BY <2>1, Constants, MagnitudeType, Pow2Type DEF UnitsOf2To
<1>2. c \in 0 .. p - 1 /\ a \in Nat
  <2> HIDE DEF m, one, p
  <2>1. QED  BY <1>1, FixedPointParts
<1>3. \A n \in 0 .. p - 1 : process_single_stochastic_round(x, n)
                                = Negate(x.neg, a + IF n >= p - c THEN 1 ELSE 0)
  BY RoundingCarries
<1>4. x.neg \in BOOLEAN  BY FloatParts
<1> HIDE DEF m, one, p, c, a
<1>5. \A n \in 0 .. p - 1 : n >= p - c =>
          /\ process_single_stochastic_round(x, n) = Negate(x.neg, a + 1)
          /\ Abs(process_single_stochastic_round(x, n)) = a + 1
  <2>1. a + 1 \in Nat  BY <1>2
  <2>2. QED  BY <1>3, <1>4, <2>1, Signs
<1>6. \A n \in 0 .. p - 1 : ~(n >= p - c) =>
          /\ process_single_stochastic_round(x, n) = Negate(x.neg, a)
          /\ Abs(process_single_stochastic_round(x, n)) # a + 1
  <2>1. a + 0 = a /\ a # a + 1  BY <1>2
  <2>2. QED  BY <1>2, <1>3, <1>4, <2>1, Signs
<1>7. up = (p - c) .. (p - 1)
  BY <1>1, <1>2, <1>5, <1>6
<1>8. Cardinality(up) = c
  <2>1. p - c \in Int /\ p - 1 \in Int  BY <1>1, <1>2
  <2>2. Cardinality((p - c) .. (p - 1)) = IF p - c > p - 1 THEN 0 ELSE (p - 1) - (p - c) + 1
    BY <2>1, FS_Interval
  <2> HIDE DEF up
  <2>3. QED  BY <1>1, <1>2, <1>7, <2>2
<1>9. QED  BY <1>5, <1>6, <1>8

-----------------------------------------------------------------------------
(* The row and its blocks in every state. *)
RowTyped == RowSound /\ \A i \in DOMAIN values : values[i] \in Float

LEMMA RowTypedInvariant == Spec => []RowTyped
<1>1. Init => RowTyped
  <2> SUFFICES ASSUME Init  PROVE RowTyped
    OBVIOUS
  <2>1. values \in Row /\ block_size \in 1 .. cols
    BY DEF Init, cols
  <2>2. /\ IsFiniteSet(DOMAIN values) /\ DOMAIN values = 0 .. cols - 1
        /\ values \in [0 .. cols - 1 -> Float]
    BY <2>1, RowAssumption DEF cols
  <2>3. cols \in Nat
    BY <2>2, FS_CardinalityType DEF cols
  <2>4. QED  BY <2>1, <2>2, <2>3 DEF RowSound, RowTyped
<1>2. RowTyped /\ [Next]_vars => RowTyped'
  <2> SUFFICES ASSUME RowTyped, [Next]_vars  PROVE RowTyped'
    OBVIOUS
  <2>1. UNCHANGED <<values, block_size>>
    BY DEF Next, vars, fit_exponent, RoundRow, CentreRow, Encode, mantissa_to_floats
  <2>2. QED  BY <2>1 DEF RowTyped, RowSound, cols
<1>3. QED  BY <1>1, <1>2, PTL DEF Spec

(* However wide the float and whatever the precision, the rounding gives   *)
(* the integer below or above and, of all noises, as many round up as the  *)
(* fraction says: the four cases of the shift agree where they meet        *)
(* (fixedpoint.h 29-54).                                                   *)
THEOREM RoundingFair == Spec => []RoundingIsFair
<1>1. RowTyped => RoundingIsFair
  <2> SUFFICES ASSUME RowTyped, NEW i \in DOMAIN values
               PROVE  LET x == values[i]
                          one == UnitsOf2To(0)
                          up == {n \in 0 .. Pow2[Precision] - 1 :
                                    Abs(process_single_stochastic_round(x, n))
                                        = (Magnitude(x) \div one) + 1}
                      IN  Magnitude(x) < one * Pow2[Word - Precision] =>
                           /\ \A n \in (0 .. Pow2[Precision] - 1) \ up :
                                 process_single_stochastic_round(x, n)
                                     = Negate(x.neg, Magnitude(x) \div one)
                           /\ \A n \in up :
                                 process_single_stochastic_round(x, n)
                                     = Negate(x.neg, (Magnitude(x) \div one) + 1)
                           /\ Cardinality(up)
                                 = ((Magnitude(x) % one) * Pow2[Precision]) \div one
    BY DEF RoundingIsFair
  <2>1. values[i] \in Float
    BY DEF RowTyped
  <2>2. QED  BY <2>1, FairFloat, Zenon
<1>2. QED  BY <1>1, RowTypedInvariant, PTL

-----------------------------------------------------------------------------
(* Fitting the exponent and summing a block. *)

LEMMA Greatest ==
    \A S \in SUBSET Nat, u \in Nat :
        S # {} /\ (\A y \in S : y <= u) => Max(S) \in S /\ \A y \in S : y <= Max(S)
<1> SUFFICES ASSUME NEW S \in SUBSET Nat, NEW u \in Nat, S # {}, \A y \in S : y <= u
             PROVE  Max(S) \in S /\ \A y \in S : y <= Max(S)
  OBVIOUS
<1> DEFINE T == {u - y : y \in S}
<1>1. T \in SUBSET Nat /\ T # {}
  <2>1. \A y \in S : u - y \in Nat  OBVIOUS
  <2>2. QED  BY <2>1
<1>2. PICK t \in T : \A z \in T : t <= z
  <2> HIDE DEF T
  <2>1. QED  BY <1>1, LeastElement, Zenon
<1>3. PICK x \in S : t = u - x  OBVIOUS
<1>4. \A y \in S : x >= y
  <2> SUFFICES ASSUME NEW y \in S  PROVE x >= y
    OBVIOUS
  <2>1. u - y \in T /\ x \in Nat /\ y \in Nat  OBVIOUS
  <2>2. u - x <= u - y  BY <1>2, <1>3, <2>1
  <2>3. QED  BY <2>1, <2>2
<1>5. Max(S) \in S /\ \A y \in S : Max(S) >= y
  BY <1>4 DEF Max
<1>6. QED  BY <1>5

(* A float is below the power of two above its exponent, and not below its *)
(* half.                                                                   *)
LEMMA MagnitudeBound ==
    ASSUME NEW x \in Float
    PROVE  /\ Magnitude(x) < Pow2[x.exp + FracBits]
           /\ ~IsZero(x) => Pow2[x.exp + FracBits] <= 2 * Magnitude(x)
<1>1. CASE IsZero(x)
  <2>1. x.exp + FracBits \in Nat  BY FloatParts, Constants
  <2>2. Pow2[x.exp + FracBits] \in Nat \ {0}  BY <2>1, Pow2Type
  <2>3. QED  BY <1>1, <2>2 DEF Magnitude
<1>2. CASE ~IsZero(x)
  <2> DEFINE M == Pow2[FracBits] + x.frac
             p == Pow2[x.exp - 1]
             e == x.exp - 1
             big == Pow2[FracBits + 1]
             f == Pow2[FracBits]
  <2>1. /\ e \in Nat /\ M \in Nat /\ M < big /\ f <= M
        /\ (FracBits + 1) + e = x.exp + FracBits /\ FracBits + 1 \in Nat
    BY <1>2, FloatParts, Constants DEF IsZero
  <2>2. p \in Nat \ {0} /\ big \in Nat /\ f \in Nat /\ big = 2 * f
    BY <2>1, Constants, Pow2Type, Pow2Steps
  <2>3. Magnitude(x) = M * p
    BY <1>2 DEF Magnitude
  <2>4. Pow2[(FracBits + 1) + e] = big * p
    <3> HIDE DEF e
    <3>1. Pow2[(FracBits + 1) + e] = Pow2[FracBits + 1] * Pow2[e]
      BY <2>1, Pow2Sum
    <3>2. QED  BY <3>1 DEF e
  <2>5. Pow2[x.exp + FracBits] = big * p
    BY <2>1, <2>4
  <2> HIDE DEF M, p, big, f
  <2>6. \A a, b \in Nat, c \in Nat \ {0} : a < b => a * c < b * c  OBVIOUS
  <2>7. \A a, b, c \in Nat : b <= a => (2 * b) * c <= 2 * (a * c)  OBVIOUS
  <2>8. M * p < big * p  BY <2>1, <2>2, <2>6
  <2>9. (2 * f) * p <= 2 * (M * p)  BY <2>1, <2>2, <2>7
  <2>10. QED  BY <2>2, <2>3, <2>5, <2>8, <2>9
<1>3. QED  BY <1>1, <1>2

(* m is the largest exponent field of block b. *)
GreatestExp(b, m) ==
    /\ m \in Nat
    /\ \E i \in Columns(b) : values[i].exp = m
    /\ \A i \in Columns(b) : values[i].exp <= m

LEMMA BlockColumns ==
    ASSUME RowTyped, NEW b \in BlockIndex
    PROVE  /\ \A i \in Columns(b) : i \in DOMAIN values /\ values[i] \in Float
           /\ Columns(b) # {}
           /\ end_col(b) - start_col(b) \in Nat \ {0}
           /\ start_col(b) \in Nat
           /\ Cardinality(Columns(b)) = end_col(b) - start_col(b)
<1>1. /\ start_col(b) \in Nat /\ end_col(b) \in Nat
      /\ start_col(b) < end_col(b) /\ end_col(b) <= cols
  BY BlockRange DEF RowTyped
<1>2. DOMAIN values = 0 .. cols - 1 /\ cols \in Nat
  BY DEF RowTyped, RowSound
<1>3. Columns(b) = start_col(b) .. end_col(b) - 1
  BY DEF Columns
<1>4. start_col(b) \in Int /\ end_col(b) - 1 \in Int
  BY <1>1
<1>5. Cardinality(start_col(b) .. end_col(b) - 1)
          = IF start_col(b) > end_col(b) - 1 THEN 0 ELSE (end_col(b) - 1) - start_col(b) + 1
  BY <1>4, FS_Interval
<1>6. \A i \in Columns(b) : i \in DOMAIN values
  BY <1>1, <1>2, <1>3
<1>7. start_col(b) \in Columns(b)
  BY <1>1, <1>3
<1>8. QED  BY <1>1, <1>3, <1>5, <1>6, <1>7 DEF RowTyped

LEMMA MaxOfBlock ==
    ASSUME RowTyped, NEW b \in BlockIndex
    PROVE  GreatestExp(b, Max({values[i].exp : i \in Columns(b)}))
<1> DEFINE S == {values[i].exp : i \in Columns(b)}
           m == Max(S)
<1>1. \A i \in Columns(b) : values[i].exp \in Nat /\ values[i].exp <= 2 * Bias + 1
  BY BlockColumns, FloatParts
<1>2. S \in SUBSET Nat /\ S # {} /\ \A y \in S : y <= 2 * Bias + 1
  BY <1>1, BlockColumns
<1>3. 2 * Bias + 1 \in Nat
  BY Constants
<1>4. m \in S /\ \A y \in S : y <= m
  <2> HIDE DEF S
  <2>1. QED  BY <1>2, <1>3, Greatest
<1>5. \E i \in Columns(b) : values[i].exp = m
  <2> HIDE DEF m
  <2>1. QED  BY <1>4
<1>6. \A i \in Columns(b) : values[i].exp <= m
  <2> HIDE DEF m
  <2>1. QED  BY <1>4
<1>7. m \in Nat
  <2> HIDE DEF m, S
  <2>1. QED  BY <1>2, <1>4
<1>8. QED  BY <1>5, <1>6, <1>7 DEF GreatestExp

(* The sum of a block is at most its length times the power of two above   *)
(* its largest exponent.                                                   *)
LEMMA SumBounded ==
    ASSUME RowTyped, NEW b \in BlockIndex, NEW m, GreatestExp(b, m)
    PROVE  LET n == end_col(b) - start_col(b)
               bound == n * Pow2[m + FracBits]
           IN  SumOf(b) \in Int /\ -bound <= SumOf(b) /\ SumOf(b) <= bound
<1> DEFINE count == end_col(b) - start_col(b)
           U == Pow2[m + FracBits]
           V(n) == ValueOf(values[start_col(b) + n - 1])
           Def(g) == [n \in 0 .. count |-> IF n = 0 THEN 0 ELSE g[n - 1] + V(n)]
           sum == CHOOSE g : g = Def(g)
<1>1. count \in Nat /\ m + FracBits \in Nat /\ U \in Nat
  <2>1. count \in Nat /\ m + FracBits \in Nat
    BY BlockColumns, Constants DEF GreatestExp
  <2>2. QED  BY <2>1, Pow2Type
<1>2. ASSUME NEW n \in 1 .. count  PROVE V(n) \in Int /\ -U <= V(n) /\ V(n) <= U
  <2> DEFINE i == start_col(b) + n - 1
  <2>1. i \in Columns(b)
    <3>1. start_col(b) \in Nat /\ end_col(b) \in Nat
      BY BlockRange DEF RowTyped
    <3>2. QED  BY <1>1, <1>2, <3>1 DEF Columns
  <2>2. values[i] \in Float /\ values[i].exp <= m /\ m \in Nat
    BY <2>1, BlockColumns DEF GreatestExp
  <2> DEFINE x == values[i]
  <2> HIDE DEF i
  <2>3. Magnitude(x) \in Nat /\ Magnitude(x) < Pow2[x.exp + FracBits]
    BY <2>2, MagnitudeType, MagnitudeBound
  <2>4. Pow2[x.exp + FracBits] <= U /\ Pow2[x.exp + FracBits] \in Nat
    <3>1. x.exp + FracBits \in Nat /\ x.exp + FracBits <= m + FracBits
      BY <2>2, FloatParts, Constants
    <3>2. QED  BY <1>1, <3>1, Pow2Grows, Pow2Type
  <2>5. Magnitude(x) <= U
    BY <1>1, <2>3, <2>4
  <2>6. x.neg \in BOOLEAN
    BY <2>2, FloatParts
  <2>7. \A neg \in BOOLEAN, v \in Nat, u \in Nat :
            v <= u => Negate(neg, v) \in Int /\ -u <= Negate(neg, v) /\ Negate(neg, v) <= u
    BY DEF Negate
  <2>8. V(n) = Negate(x.neg, Magnitude(x))
    BY DEF ValueOf, i
  <2> HIDE DEF x, U, V
  <2>9. QED  BY <1>1, <2>3, <2>5, <2>6, <2>7, <2>8
<1>3. SumOf(b) = sum[count]
  BY DEF SumOf
<1> HIDE DEF V, count, U
<1>4. \E g : g = Def(g)
  <2> DEFINE s == [y \in Nat \X Int |-> IF y[1] + 1 \in 1 .. count THEN y[2] + V(y[1] + 1) ELSE y[2]]
  <2>1. s \in [Nat \X Int -> Int]
    <3>1. \A k \in Nat, v \in Int : k + 1 \in 1 .. count => v + V(k + 1) \in Int
      BY <1>2
    <3>2. \A y \in Nat \X Int : y[1] \in Nat /\ y[2] \in Int  OBVIOUS
    <3>3. QED  BY <3>1, <3>2
  <2>2. PICK f : Iterates(f, Int, 0, s)
    <3>1. 0 \in Int  OBVIOUS
    <3> HIDE DEF s
    <3>2. QED  BY <2>1, <3>1, Recursion, Zenon
  <2>3. \A n \in 1 .. count : f[n] = f[n - 1] + V(n)
    <3> SUFFICES ASSUME NEW n \in 1 .. count  PROVE f[n] = f[n - 1] + V(n)
      OBVIOUS
    <3>1. n - 1 \in Nat /\ (n - 1) + 1 = n  BY <1>1
    <3>2. f \in [Nat -> Int] /\ f[(n - 1) + 1] = s[<<n - 1, f[n - 1]>>]
      BY <2>2, <3>1 DEF Iterates
    <3>3. f[n - 1] \in Int  BY <3>1, <3>2
    <3>4. s[<<n - 1, f[n - 1]>>] = f[n - 1] + V((n - 1) + 1)
      BY <3>1, <3>3
    <3>5. QED  BY <3>1, <3>2, <3>4
  <2>4. f[0] = 0  BY <2>2 DEF Iterates
  <2> DEFINE g == [n \in 0 .. count |-> f[n]]
  <2>5. g = Def(g)
    <3>1. ASSUME NEW n \in 0 .. count
          PROVE  f[n] = IF n = 0 THEN 0 ELSE g[n - 1] + V(n)
      <4>1. CASE n = 0  BY <2>4, <4>1
      <4>2. CASE n # 0
        <5>1. n \in 1 .. count /\ n - 1 \in 0 .. count  BY <1>1, <4>2
        <5>2. QED  BY <2>3, <4>2, <5>1
      <4>3. QED  BY <4>1, <4>2
    <3> HIDE DEF g
    <3>2. g = [n \in 0 .. count |-> IF n = 0 THEN 0 ELSE g[n - 1] + V(n)]
      BY <3>1 DEF g
    <3>3. QED  BY <3>2
  <2> HIDE DEF g, Def
  <2>6. QED  BY <2>5
<1>5. sum = Def(sum)
  <2> HIDE DEF Def
  <2>1. QED  BY <1>4, Zenon
<1> HIDE DEF sum
<1>6. /\ sum[0] = 0
      /\ \A n \in Nat : n + 1 <= count => sum[n + 1] = sum[n] + V(n + 1)
  <2>1. 0 \in 0 .. count  BY <1>1
  <2>2. sum[0] = 0  BY <1>5, <2>1
  <2>3. ASSUME NEW n \in Nat, n + 1 <= count  PROVE sum[n + 1] = sum[n] + V(n + 1)
    <3>1. n + 1 \in 0 .. count /\ n + 1 # 0 /\ (n + 1) - 1 = n  BY <1>1, <2>3
    <3>2. sum[n + 1] = sum[(n + 1) - 1] + V(n + 1)  BY <1>5, <3>1
    <3>3. QED  BY <3>1, <3>2
  <2>4. QED  BY <2>2, <2>3
<1> DEFINE T == {n \in Nat : n <= count => sum[n] \in Int /\ -(n * U) <= sum[n] /\ sum[n] <= n * U}
<1>7. 0 \in T
  <2>1. 0 * U = 0 /\ -(0 * U) = 0 - (0 * U)  BY <1>1
  <2>2. QED  BY <1>6, <2>1
<1>8. ASSUME NEW n \in Nat, n \in T  PROVE n + 1 \in T
  <2> SUFFICES ASSUME n + 1 <= count
               PROVE  /\ sum[n + 1] \in Int /\ -((n + 1) * U) <= sum[n + 1]
                      /\ sum[n + 1] <= (n + 1) * U
    OBVIOUS
  <2>1. n <= count /\ n + 1 \in 1 .. count  BY <1>1
  <2>2. sum[n] \in Int /\ -(n * U) <= sum[n] /\ sum[n] <= n * U  BY <1>8, <2>1
  <2>3. V(n + 1) \in Int /\ -U <= V(n + 1) /\ V(n + 1) <= U  BY <1>2, <2>1
  <2>4. sum[n + 1] = sum[n] + V(n + 1)  BY <1>6, <2>1
  <2>5. (n + 1) * U = n * U + U /\ n * U \in Int  BY <1>1
  <2>6. QED  BY <1>1, <2>2, <2>3, <2>4, <2>5
<1> HIDE DEF T
<1>9. Nat \subseteq T  BY <1>7, <1>8, Induction
<1>10. sum[count] \in Int /\ -(count * U) <= sum[count] /\ sum[count] <= count * U
  BY <1>1, <1>9 DEF T
<1>11. QED  BY <1>3, <1>10 DEF count, U

(* What fit_exponent leaves behind for a block: the exponent that goes     *)
(* with its largest exponent field, and a sum no larger than that allows.  *)
BlockFitted(b) ==
    \E m \in Nat :
        /\ GreatestExp(b, m) /\ exponents[b] = exponent_of(m)
        /\ means[b][1] \in Int /\ means[b][2] \in Nat \ {0}
        /\ -(means[b][2] * Pow2[m + FracBits]) <= means[b][1]
        /\ means[b][1] <= means[b][2] * Pow2[m + FracBits]

Fitted ==
    \/ pc = "fit" /\ exponents = None
    \/ pc # "fit" /\ \A b \in BlockIndex : BlockFitted(b)

LEMMA SameBlocks ==
    ASSUME UNCHANGED <<values, block_size>>
    PROVE  /\ BlockIndex' = BlockIndex /\ cols' = cols
           /\ \A b : Columns(b)' = Columns(b)
           /\ \A i : BlockOf(i)' = BlockOf(i)
           /\ \A b, m : GreatestExp(b, m)' <=> GreatestExp(b, m)
<1>1. cols' = cols  BY DEF cols
<1>2. BlockIndex' = BlockIndex  BY <1>1 DEF BlockIndex, num_blocks
<1>3. \A b : Columns(b)' = Columns(b)  BY <1>1 DEF Columns, start_col, end_col
<1>4. \A i : BlockOf(i)' = BlockOf(i)  BY DEF BlockOf
<1>5. \A b, m : GreatestExp(b, m)' <=> GreatestExp(b, m)  BY <1>3 DEF GreatestExp
<1>6. QED  BY <1>1, <1>2, <1>3, <1>4, <1>5

LEMMA FitMakesFitted ==
    ASSUME RowTyped, fit_exponent  PROVE Fitted'
<1>1. pc' # "fit" /\ UNCHANGED <<values, block_size>>
  BY DEF fit_exponent
<1>2. ASSUME NEW b \in BlockIndex  PROVE BlockFitted(b)'
  <2>1. PICK m : m = Max({values[i].exp : i \in Columns(b)})  OBVIOUS
  <2>2. PICK n : n = end_col(b) - start_col(b)  OBVIOUS
  <2>3. PICK sum : sum = SumOf(b)  OBVIOUS
  <2>4. GreatestExp(b, m) /\ m \in Nat
    BY <2>1, MaxOfBlock DEF GreatestExp
  <2>5. n \in Nat \ {0} /\ Cardinality(Columns(b)) = n
    BY <2>2, BlockColumns
  <2>6. sum \in Int /\ -(n * Pow2[m + FracBits]) <= sum /\ sum <= n * Pow2[m + FracBits]
    BY <2>2, <2>3, <2>4, SumBounded
  <2>7. exponents'[b] = exponent_of(m) /\ means'[b] = <<sum, n>>
    BY <2>1, <2>3, <2>5 DEF fit_exponent
  <2>8. GreatestExp(b, m)'
    BY <1>1, <2>4, SameBlocks
  <2>9. QED  BY <2>4, <2>5, <2>6, <2>7, <2>8 DEF BlockFitted
<1>3. QED  BY <1>1, <1>2, SameBlocks DEF Fitted

LEMMA FittedStays ==
    ASSUME Fitted, pc # "fit" \/ pc' = "fit", pc' # "fit" \/ pc = "fit",
           UNCHANGED <<values, block_size, exponents, means>>
    PROVE  Fitted'
<1>1. ASSUME NEW b, BlockFitted(b)  PROVE BlockFitted(b)'
  <2>1. PICK m \in Nat :
            /\ GreatestExp(b, m) /\ exponents[b] = exponent_of(m)
            /\ means[b][1] \in Int /\ means[b][2] \in Nat \ {0}
            /\ -(means[b][2] * Pow2[m + FracBits]) <= means[b][1]
            /\ means[b][1] <= means[b][2] * Pow2[m + FracBits]
    BY <1>1 DEF BlockFitted
  <2>2. GreatestExp(b, m)'
    BY <2>1, SameBlocks
  <2>3. QED  BY <2>1, <2>2 DEF BlockFitted
<1>2. BlockIndex' = BlockIndex
  BY SameBlocks
<1>3. CASE pc = "fit"
  BY <1>3 DEF Fitted
<1>4. CASE pc # "fit"
  <2>1. \A b \in BlockIndex : BlockFitted(b)'
    BY <1>1, <1>4 DEF Fitted
  <2>2. QED  BY <1>2, <1>4, <2>1 DEF Fitted
<1>5. QED  BY <1>3, <1>4

LEMMA FittedInvariant == Spec => [](RowTyped /\ Fitted)
<1>1. Init => Fitted
  BY DEF Init, Fitted
<1>2. RowTyped /\ Fitted /\ [Next]_vars => Fitted'
  <2> SUFFICES ASSUME RowTyped, Fitted, [Next]_vars  PROVE Fitted'
    OBVIOUS
  <2>1. CASE fit_exponent
    BY <2>1, FitMakesFitted
  <2>2. CASE RoundRow
    BY <2>2, FittedStays DEF RoundRow
  <2>3. CASE CentreRow
    BY <2>3, FittedStays DEF CentreRow
  <2>4. CASE Encode
    BY <2>4, FittedStays DEF Encode
  <2>5. CASE mantissa_to_floats
    BY <2>5, FittedStays DEF mantissa_to_floats
  <2>6. CASE UNCHANGED vars
    BY <2>6, FittedStays DEF vars
  <2>7. QED  BY <2>1, <2>2, <2>3, <2>4, <2>5, <2>6 DEF Next
<1>3. QED  BY <1>1, <1>2, RowTypedInvariant, PTL DEF Spec

(* The exponent of a fitted block. *)
LEMMA FittedExponent ==
    ASSUME NEW m \in Nat
    PROVE  /\ exponent_of(m) \in Int
           /\ m = 0 => exponent_of(m) = -Bias
           /\ m > 0 => /\ exponent_of(m) = m - Bias + 1
                       /\ UnitsOf2To(exponent_of(m)) = Pow2[m + FracBits]
<1>1. m > 0 => (m - Bias + 1) + Bias + FracBits - 1 = m + FracBits
  BY Constants
<1>2. m > 0 => exponent_of(m) = m - Bias + 1
  BY DEF exponent_of
<1>3. m > 0 => UnitsOf2To(m - Bias + 1) = Pow2[m + FracBits]
  BY <1>1 DEF UnitsOf2To
<1>4. QED  BY <1>2, <1>3, Constants DEF exponent_of

(* The exponent that a block gets bounds its values and is the smallest    *)
(* that does, whatever the row, the block size and the width of a float    *)
(* (fixedpoint.h 275, 369).                                                *)
THEOREM ExponentsTight == Spec => []ExponentIsTight
<1>1. RowTyped /\ Fitted => ExponentIsTight
  <2> SUFFICES ASSUME RowTyped, \A b \in BlockIndex : BlockFitted(b), NEW b \in BlockIndex
               PROVE  LET bound == UnitsOf2To(exponents[b]) IN
                      IF \A i \in Columns(b) : IsZero(values[i]) THEN exponents[b] = -Bias
                      ELSE /\ \A i \in Columns(b) : Magnitude(values[i]) < bound
                           /\ \E i \in Columns(b) : 2 * Magnitude(values[i]) >= bound
    BY DEF Fitted, ExponentIsTight
  <2>1. PICK m \in Nat : GreatestExp(b, m) /\ exponents[b] = exponent_of(m)
    BY DEF BlockFitted
  <2>2. \A i \in Columns(b) : values[i] \in Float /\ values[i].exp \in Nat /\ values[i].exp <= m
    BY <2>1, BlockColumns, FloatParts DEF GreatestExp
  <2>3. PICK j \in Columns(b) : values[j].exp = m
    BY <2>1 DEF GreatestExp
  <2>4. CASE m = 0
    <3>1. \A i \in Columns(b) : IsZero(values[i])
      BY <2>2, <2>4 DEF IsZero
    <3>2. exponents[b] = -Bias
      BY <2>1, <2>4, FittedExponent
    <3>3. QED  BY <3>1, <3>2
  <2>5. CASE m > 0
    <3>1. ~IsZero(values[j])
      BY <2>3, <2>5 DEF IsZero
    <3>2. UnitsOf2To(exponents[b]) = Pow2[m + FracBits]
      BY <2>1, <2>5, FittedExponent
    <3>3. ASSUME NEW i \in Columns(b)  PROVE Magnitude(values[i]) < Pow2[m + FracBits]
      <4> DEFINE e == values[i].exp
      <4>1. e + FracBits \in Nat /\ m + FracBits \in Nat /\ e + FracBits <= m + FracBits
        BY <2>2, Constants
      <4>2. Pow2[e + FracBits] <= Pow2[m + FracBits] /\ Pow2[e + FracBits] \in Nat
            /\ Pow2[m + FracBits] \in Nat
        BY <4>1, Pow2Grows, Pow2Type
      <4>3. Magnitude(values[i]) \in Nat /\ Magnitude(values[i]) < Pow2[e + FracBits]
        BY <2>2, MagnitudeType, MagnitudeBound
      <4> HIDE DEF e
      <4>4. QED  BY <4>2, <4>3
    <3>4. 2 * Magnitude(values[j]) >= Pow2[m + FracBits]
      <4>1. Pow2[values[j].exp + FracBits] <= 2 * Magnitude(values[j])
        BY <2>2, <3>1, MagnitudeBound
      <4>2. Pow2[m + FracBits] \in Nat /\ Magnitude(values[j]) \in Nat
        <5>1. m + FracBits \in Nat  BY Constants
        <5>2. QED  BY <2>2, <5>1, MagnitudeType, Pow2Type
      <4>3. QED  BY <2>3, <4>1, <4>2
    <3>5. QED  BY <3>1, <3>2, <3>3, <3>4
  <2>6. QED  BY <2>4, <2>5
<1>2. QED  BY <1>1, FittedInvariant, PTL

-----------------------------------------------------------------------------
(* Scaling, rounding and centring a row. *)

(* The mantissas of 16 bits: room for a mean of magnitude 2^Precision and  *)
(* a rounded number.                                                       *)
WideMantissa == Precision + 2 <= MantissaBits

(* In its range, fast_pow2 is the power of two. *)
LEMMA FastPow2InRange ==
    \A shift \in Int :
        InRange(shift) => fast_pow2(shift) = [neg |-> FALSE, exp |-> Bias + shift, frac |-> 0]
<1> SUFFICES ASSUME NEW shift \in Int, InRange(shift)
             PROVE  fast_pow2(shift) = [neg |-> FALSE, exp |-> Bias + shift, frac |-> 0]
  OBVIOUS
<1> DEFINE k == Bias + shift
           d == 2 * Bias + 2
<1>1. k \in Nat /\ d \in Nat \ {0} /\ k < d
  BY Constants DEF InRange
<1>2. \A x \in Nat, y \in Nat \ {0} : x < y => x % y = x /\ x \div y = 0  OBVIOUS
<1>3. fast_pow2(shift) = [neg |-> (k \div d) % 2 = 1, exp |-> k % d, frac |-> 0]
  BY DEF fast_pow2
<1> HIDE DEF k, d
<1>4. k % d = k /\ k \div d = 0
  BY <1>1, <1>2
<1>5. (0 % 2 = 1) = FALSE  OBVIOUS
<1>6. QED  BY <1>3, <1>4, <1>5 DEF k

(* A float below one stays, scaled by 2^-e, below one when e bounds it.    *)
LEMMA ScaledBelowOne ==
    ASSUME NEW x \in Float, NEW e \in Int, InRange(-e), x.exp = 0 \/ x.exp <= e + Bias - 1
    PROVE  LET y == Times(x, fast_pow2(-e)) IN y \in Float /\ y.exp < Bias
<1> DEFINE p == fast_pow2(-e)
           y == Times(x, p)
<1>1. p = [neg |-> FALSE, exp |-> Bias + (-e), frac |-> 0] /\ Bias + (-e) \in 1 .. 2 * Bias
  <2>1. -e \in Int  OBVIOUS
  <2>2. Bias + (-e) \in 1 .. 2 * Bias  BY DEF InRange
  <2>3. QED  BY <2>1, <2>2, FastPow2InRange
<1>2. p.exp = Bias - e /\ p.exp \in 1 .. 2 * Bias /\ ~Infinite(p) /\ ~IsZero(p)
  <2> HIDE DEF p
  <2>1. p.exp = Bias + (-e)  BY <1>1
  <2>2. Bias + (-e) = Bias - e  BY Constants
  <2>3. QED  BY <1>1, <2>1, <2>2, Constants DEF Infinite, IsZero
<1>3. Zero \in Float /\ Zero.exp = 0
  <2>1. Pow2[FracBits] \in Nat \ {0}  BY Constants, Pow2Type
  <2>2. 0 \in 0 .. 2 * Bias + 1 /\ 0 \in 0 .. Pow2[FracBits] - 1  BY <2>1, Constants
  <2>3. QED  BY <2>2 DEF Zero, Float
<1> HIDE DEF p
<1>4. CASE y = Zero
  BY <1>3, <1>4, Constants DEF p
<1>5. CASE y # Zero
  <2>1. ~IsZero(x) /\ x.exp # 0 /\ x.exp \in Nat
    BY <1>2, <1>5, FloatParts DEF Times, IsZero
  <2> DEFINE f == x.exp + p.exp - Bias
  <2>2. f \in Int /\ f < Bias /\ f <= 2 * Bias
    BY <1>2, <2>1, Constants
  <2>3. y = IF f <= 0 THEN Zero
            ELSE IF Infinite(p) \/ f > 2 * Bias THEN Infinity(x.neg # p.neg)
            ELSE [neg |-> x.neg # p.neg, exp |-> f, frac |-> x.frac]
    <3> HIDE DEF f
    <3>1. y = LET g == f IN
              IF g <= 0 THEN Zero
              ELSE IF Infinite(p) \/ g > 2 * Bias THEN Infinity(x.neg # p.neg)
              ELSE [neg |-> x.neg # p.neg, exp |-> g, frac |-> x.frac]
      BY <1>2, <2>1, Zenon DEF Times, f
    <3>2. QED  BY <3>1, Zenon
  <2> HIDE DEF f
  <2>4. ~(f <= 0)
    BY <1>5, <2>3
  <2>5. y = [neg |-> x.neg # p.neg, exp |-> f, frac |-> x.frac]
    <3>1. ~(f > 2 * Bias)  BY <2>2, Constants
    <3> HIDE DEF y
    <3>2. QED  BY <1>2, <2>3, <2>4, <3>1, Zenon
  <2>6. f \in 0 .. 2 * Bias + 1
    BY <2>2, <2>4, Constants
  <2>7. x.frac \in 0 .. Pow2[FracBits] - 1 /\ (x.neg # p.neg) \in BOOLEAN
    BY DEF Float
  <2> HIDE DEF y
  <2>8. y \in Float
    BY <2>5, <2>6, <2>7 DEF Float
  <2>9. y.exp < Bias
    BY <2>2, <2>5
  <2>10. QED  BY <2>8, <2>9 DEF y, p
<1>6. QED  BY <1>4, <1>5

(* What is below one rounds to zero or to one of the two ones.             *)
LEMMA RoundsToUnit ==
    ASSUME NEW y \in Float, y.exp < Bias, NEW n \in 0 .. Pow2[Precision] - 1
    PROVE  process_single_stochastic_round(y, n) \in {-1, 0, 1}
<1> DEFINE m == Magnitude(y)
           one == UnitsOf2To(0)
<1>1. Bias + FracBits - 1 \in Nat /\ 0 + Bias + FracBits - 1 = Bias + FracBits - 1
  BY Constants
<1>2. one = Pow2[Bias + FracBits - 1] /\ one \in Nat \ {0}
  BY <1>1, Pow2Type DEF UnitsOf2To
<1>3. m \in Nat /\ m < one
  <2>1. y.exp + FracBits \in Nat /\ y.exp + FracBits <= Bias + FracBits - 1
    BY FloatParts, Constants
  <2>2. Pow2[y.exp + FracBits] <= Pow2[Bias + FracBits - 1] /\ Pow2[y.exp + FracBits] \in Nat
    BY <1>1, <2>1, Pow2Grows, Pow2Type
  <2>3. m \in Nat /\ m < Pow2[y.exp + FracBits]
    BY MagnitudeType, MagnitudeBound
  <2> HIDE DEF m, one
  <2>4. QED  BY <1>2, <2>2, <2>3
<1>4. m < one * Pow2[Word - Precision]
  <2>1. Word - Precision \in Nat  BY Constants
  <2>2. Pow2[Word - Precision] \in Nat \ {0}  BY <2>1, Pow2Type
  <2>3. \A a, b \in Nat \ {0} : a <= a * b /\ a * b \in Nat  OBVIOUS
  <2> HIDE DEF m, one
  <2>4. QED  BY <1>2, <1>3, <2>2, <2>3
<1> DEFINE c == ((m % one) * Pow2[Precision]) \div one
           r == IF n >= Pow2[Precision] - c THEN 1 ELSE 0
<1>5. process_single_stochastic_round(y, n) = Negate(y.neg, (m \div one) + r)
  BY <1>4, RoundingCarries
<1>6. m \div one = 0
  <2>1. \A a \in Nat, b \in Nat \ {0} : a < b => a \div b = 0  OBVIOUS
  <2> HIDE DEF m, one
  <2>2. QED  BY <1>2, <1>3, <2>1
<1>7. r \in {0, 1}  OBVIOUS
<1> HIDE DEF r, m, one
<1>8. 0 + r \in {0, 1}  BY <1>7
<1>9. \A b \in BOOLEAN, v \in Int : Negate(b, v) \in {0 - v, v}
  BY DEF Negate
<1>10. y.neg \in BOOLEAN  BY FloatParts
<1>11. Negate(y.neg, 0 + r) \in {0 - (0 + r), 0 + r}
  BY <1>8, <1>9, <1>10
<1>12. QED  BY <1>5, <1>6, <1>8, <1>11

(* Conversion to w bits keeps what fits. *)
LEMMA WrapFits ==
    \A v \in Int, w \in Nat \ {0} :
        -(Pow2[w - 1]) <= v /\ v < Pow2[w - 1] => Wrap(v, w) = v
<1> SUFFICES ASSUME NEW v \in Int, NEW w \in Nat \ {0}, -(Pow2[w - 1]) <= v, v < Pow2[w - 1]
             PROVE  Wrap(v, w) = v
  OBVIOUS
<1> DEFINE h == Pow2[w - 1]
<1>1. w - 1 \in Nat /\ (w - 1) + 1 = w  OBVIOUS
<1>2. h \in Nat \ {0} /\ Pow2[w] = 2 * h
  BY <1>1, Pow2Type, Pow2Steps
<1> HIDE DEF h
<1>3. v + h \in Nat /\ v + h < 2 * h /\ 2 * h \in Nat \ {0}
  BY <1>2 DEF h
<1>4. \A x \in Nat, y \in Nat \ {0} : x < y => x % y = x  OBVIOUS
<1>5. (v + h) % (2 * h) = v + h
  BY <1>3, <1>4
<1>6. Wrap(v, w) = ((v + h) % (2 * h)) - h
  BY <1>2 DEF Wrap, h
<1>7. QED  BY <1>2, <1>5, <1>6

(* The rounded quotient of a number at most p times the divisor. *)
LEMMA RoundedQuotient ==
    \A v \in Int, d \in Nat \ {0}, p \in Nat :
        -(d * p) <= v /\ v <= d * p =>
            RoundQuotient(v, d) \in Int /\ -p <= RoundQuotient(v, d) /\ RoundQuotient(v, d) <= p
<1> SUFFICES ASSUME NEW v \in Int, NEW d \in Nat \ {0}, NEW p \in Nat, -(d * p) <= v, v <= d * p
             PROVE  /\ RoundQuotient(v, d) \in Int
                    /\ -p <= RoundQuotient(v, d) /\ RoundQuotient(v, d) <= p
  OBVIOUS
<1> DEFINE a == Abs(v)
           n == 2 * a + d
           k == 2 * d
           q == n \div k
<1>1. \A x, y \in Nat : x * y \in Nat  OBVIOUS
<1>2. d * p \in Nat  BY <1>1
<1>3. a \in Nat /\ a <= d * p  BY <1>2 DEF Abs
<1> HIDE DEF a
<1>4. n \in Nat /\ k \in Nat \ {0} /\ n < 2 * (d * p) + k
  BY <1>2, <1>3
<1>5. 2 * (d * p) = p * k
  <2>1. \A x, y \in Nat : 2 * (x * y) = y * (2 * x)  OBVIOUS
  <2>2. QED  BY <2>1
<1> HIDE DEF n, k
<1>6. q \in Nat /\ q * k \in Nat /\ q * k <= n /\ n < q * k + k
  BY <1>4, Division, Zenon
<1> HIDE DEF q
<1>7. q * k < p * k + k
  BY <1>2, <1>4, <1>5, <1>6
<1>8. q <= p
  <2>1. q \in Int /\ p \in Int  BY <1>6
  <2>2. QED  BY <1>4, <1>7, <2>1, Apart
<1>9. RoundQuotient(v, d) = Negate(v < 0, q)
  BY DEF RoundQuotient, q, n, k, a
<1>10. \A b \in BOOLEAN, x, u \in Nat :
          x <= u => Negate(b, x) \in Int /\ -u <= Negate(b, x) /\ Negate(b, x) <= u
  BY DEF Negate
<1>11. (v < 0) \in BOOLEAN  OBVIOUS
<1>12. /\ Negate(v < 0, q) \in Int
       /\ -p <= Negate(v < 0, q) /\ Negate(v < 0, q) <= p
  BY <1>6, <1>8, <1>10, <1>11
<1>13. QED  BY <1>9, <1>12

(* Times the divisor, it is within half of the divisor of the number. *)
LEMMA RoundedQuotientNear ==
    \A v \in Int, d \in Nat \ {0} :
        /\ RoundQuotient(v, d) \in Int
        /\ -d <= 2 * (v - RoundQuotient(v, d) * d) /\ 2 * (v - RoundQuotient(v, d) * d) <= d
<1> SUFFICES ASSUME NEW v \in Int, NEW d \in Nat \ {0}
             PROVE  /\ RoundQuotient(v, d) \in Int
                    /\ -d <= 2 * (v - RoundQuotient(v, d) * d)
                    /\ 2 * (v - RoundQuotient(v, d) * d) <= d
  OBVIOUS
<1> DEFINE a == Abs(v)
           n == 2 * a + d
           k == 2 * d
           q == n \div k
<1>1. a \in Nat /\ (v < 0 => v = -a) /\ (~(v < 0) => v = a)  BY DEF Abs
<1> HIDE DEF a
<1>2. n \in Nat /\ k \in Nat \ {0}  BY <1>1
<1> HIDE DEF n, k
<1>3. q \in Nat /\ q * k \in Nat /\ q * k <= n /\ n < q * k + k
  BY <1>2, Division, Zenon
<1> HIDE DEF q
<1>4. q * k = 2 * (q * d) /\ q * d \in Nat
  <2>1. \A x, y \in Nat : x * (2 * y) = 2 * (x * y) /\ x * y \in Nat  OBVIOUS
  <2>2. QED  BY <1>3, <2>1 DEF k
<1>5. 2 * (q * d) <= 2 * a + d /\ 2 * a + d < 2 * (q * d) + 2 * d
  BY <1>3, <1>4 DEF n, k
<1>6. -d <= 2 * (a - q * d) /\ 2 * (a - q * d) <= d
  BY <1>1, <1>4, <1>5
<1>7. RoundQuotient(v, d) = Negate(v < 0, q)
  BY DEF RoundQuotient, q, n, k, a
<1>8. CASE v < 0
  <2>1. RoundQuotient(v, d) = -q
    BY <1>7, <1>8 DEF Negate
  <2>2. (-q) * d = -(q * d)
    BY <1>3
  <2>3. QED  BY <1>1, <1>3, <1>4, <1>6, <1>8, <2>1, <2>2
<1>9. CASE ~(v < 0)
  <2>1. RoundQuotient(v, d) = q
    BY <1>7, <1>9 DEF Negate
  <2>2. QED  BY <1>1, <1>3, <1>4, <1>6, <1>9, <2>1
<1>10. QED  BY <1>8, <1>9

(* Where the power of two that scales the mean is in range, the block is   *)
(* not all zeros and its scaled mean is a rounded quotient.                *)
LEMMA MeanParts ==
    ASSUME NEW b, BlockFitted(b), InRange(Precision - exponents[b])
    PROVE  /\ \E m \in Nat \ {0} :
                /\ exponents[b] = m - Bias + 1
                /\ m + FracBits - Precision \in Nat
                /\ means[b][1] \in Int /\ means[b][2] \in Nat \ {0}
                /\ -(means[b][2] * Pow2[m + FracBits]) <= means[b][1]
                /\ means[b][1] <= means[b][2] * Pow2[m + FracBits]
                /\ ScaledMean(b) = RoundQuotient(means[b][1],
                                                 means[b][2] * Pow2[m + FracBits - Precision])
           /\ ~Infinite(MeanScale(b)) /\ ~IsZero(MeanScale(b))
<1>1. PICK m \in Nat :
          /\ exponents[b] = exponent_of(m)
          /\ means[b][1] \in Int /\ means[b][2] \in Nat \ {0}
          /\ -(means[b][2] * Pow2[m + FracBits]) <= means[b][1]
          /\ means[b][1] <= means[b][2] * Pow2[m + FracBits]
  BY DEF BlockFitted
<1> DEFINE e == exponents[b]
           s == MeanScale(b)
           k == means[b][2]
           v == means[b][1]
<1>2. e \in Int /\ Precision - e \in Int /\ Bias + (Precision - e) \in 1 .. 2 * Bias
  BY <1>1, FittedExponent, Constants DEF InRange
<1>3. m > 0 /\ e = m - Bias + 1
  <2>1. m = 0 => e = -Bias  BY <1>1, FittedExponent
  <2>2. m # 0  BY <1>2, <2>1, Constants
  <2>3. QED  BY <1>1, <2>2, FittedExponent
<1>4. s = [neg |-> FALSE, exp |-> Bias + (Precision - e), frac |-> 0]
  BY <1>2, FastPow2InRange DEF MeanScale
<1> HIDE DEF s, e
<1>5. s.exp = Bias + (Precision - e)  BY <1>4
<1>6. ~s.neg  BY <1>4
<1>7. ~Infinite(s) /\ ~IsZero(s)
  BY <1>2, <1>5, Constants DEF Infinite, IsZero
<1> DEFINE j == m + FracBits - Precision
<1>8. j \in Nat /\ 2 * Bias + FracBits - 1 - s.exp = j
  BY <1>2, <1>3, <1>5, Constants
<1>9. ScaledMean(b) = RoundQuotient(v, k * Pow2[j])
  <2>1. Negate(s.neg, v) = v
    BY <1>6 DEF Negate
  <2>2. ScaledMean(b) = RoundQuotient(Negate(s.neg, v), k * Pow2[2 * Bias + FracBits - 1 - s.exp])
    BY DEF ScaledMean, s
  <2> HIDE DEF j
  <2>3. QED  BY <1>8, <2>1, <2>2
<1>10. QED  BY <1>1, <1>3, <1>7, <1>8, <1>9 DEF s, e

(* The scaled mean of a block is at most 2^Precision in magnitude. *)
LEMMA MeanFits ==
    ASSUME NEW b, BlockFitted(b), InRange(Precision - exponents[b])
    PROVE  /\ ScaledMean(b) \in Int
           /\ -(Pow2[Precision]) <= ScaledMean(b) /\ ScaledMean(b) <= Pow2[Precision]
<1>1. PICK m \in Nat \ {0} :
          /\ m + FracBits - Precision \in Nat
          /\ means[b][1] \in Int /\ means[b][2] \in Nat \ {0}
          /\ -(means[b][2] * Pow2[m + FracBits]) <= means[b][1]
          /\ means[b][1] <= means[b][2] * Pow2[m + FracBits]
          /\ ScaledMean(b) = RoundQuotient(means[b][1],
                                           means[b][2] * Pow2[m + FracBits - Precision])
  BY MeanParts
<1> DEFINE j == m + FracBits - Precision
           D == Pow2[j]
           k == means[b][2]
           v == means[b][1]
           p == Pow2[Precision]
<1>2. D \in Nat \ {0} /\ p \in Nat /\ Pow2[m + FracBits] = D * p
  <2>1. j \in Nat /\ j + Precision = m + FracBits
    BY <1>1, Constants
  <2> HIDE DEF j
  <2>2. Pow2[j + Precision] = Pow2[j] * Pow2[Precision]
    BY <2>1, Constants, Pow2Sum
  <2>3. Pow2[j] \in Nat \ {0} /\ Pow2[Precision] \in Nat
    BY <2>1, Constants, Pow2Type
  <2>4. QED  BY <2>1, <2>2, <2>3
<1>3. ScaledMean(b) = RoundQuotient(v, k * D)
  BY <1>1
<1> HIDE DEF D, j, p, k, v
<1>4. k * D \in Nat \ {0} /\ -((k * D) * p) <= v /\ v <= (k * D) * p /\ v \in Int
  <2>1. k \in Nat \ {0} /\ v \in Int /\ -(k * (D * p)) <= v /\ v <= k * (D * p)
    BY <1>1, <1>2 DEF k, v
  <2>2. \A x, y, z \in Nat : x * (y * z) = (x * y) * z  OBVIOUS
  <2>3. \A x, y \in Nat \ {0} : x * y \in Nat \ {0}  OBVIOUS
  <2>4. QED  BY <1>2, <2>1, <2>2, <2>3
<1> DEFINE d == k * D
           r == RoundQuotient(v, d)
<1>5. r \in Int /\ -p <= r /\ r <= p
  <2> HIDE DEF d
  <2>1. d \in Nat \ {0} /\ -(d * p) <= v /\ v <= d * p /\ v \in Int  BY <1>4 DEF d
  <2>2. QED  BY <1>2, <2>1, RoundedQuotient
<1>6. QED  BY <1>3, <1>5 DEF p

LEMMA OneMean ==
    ASSUME WideMantissa, NEW b, BlockFitted(b), InRange(Precision - exponents[b])
    PROVE  MeanChoices(b) = {ScaledMean(b)}
<1>1. MantissaBits - 1 \in Nat /\ Precision < MantissaBits - 1
  BY Constants DEF WideMantissa
<1>2. 2 * Pow2[Precision] <= Pow2[MantissaBits - 1]
  BY <1>1, Constants, Pow2Doubles
<1>3. Pow2[Precision] \in Nat \ {0} /\ Pow2[MantissaBits - 1] \in Nat
  BY <1>1, Constants, Pow2Type
<1>4. /\ ScaledMean(b) \in Int
      /\ -(Pow2[Precision]) <= ScaledMean(b) /\ ScaledMean(b) <= Pow2[Precision]
      /\ ~Infinite(MeanScale(b)) /\ ~IsZero(MeanScale(b))
  BY MeanFits, MeanParts
<1>5. ScaledMean(b) \in Signed(MantissaBits)
  BY <1>2, <1>3, <1>4 DEF Signed
<1>6. QED  BY <1>4, <1>5 DEF MeanChoices

(* The exponents of block b stay clear of the ends of the range. *)
ClearOfEnds(b) == InRange(-exponents[b]) /\ InRange(Precision - exponents[b])

IsRounded ==
    pc = "centre" =>
        \A i \in DOMAIN values : ClearOfEnds(BlockOf(i)) => mantissa[i] \in {-1, 0, 1}

IsCentred ==
    pc \in {"centred", "encoded", "restored"} =>
        \A i \in DOMAIN values : ClearOfEnds(BlockOf(i)) =>
            /\ mantissa[i] \in Int
            /\ integer_mean[BlockOf(i)] = ScaledMean(BlockOf(i))
            /\ mantissa[i] + ScaledMean(BlockOf(i)) \in {-1, 0, 1}

IsEncoded ==
    pc = "encoded" =>
        \A i \in DOMAIN values : output[i] = (mantissa[i] + Offset) % Pow2[MantissaBits]

IsRestored ==
    pc = "restored" =>
        \A i \in DOMAIN values : LET b == BlockOf(i) IN
            ~Infinite(RestoreScale(b)) =>
                output[i] = mantissa[i] * ValueOf(RestoreScale(b)) * means[b][2] + means[b][1]

CInv == RowTyped /\ Fitted /\ IsRounded /\ IsCentred /\ IsEncoded /\ IsRestored

LEMMA RoomInMantissa ==
    ASSUME WideMantissa
    PROVE  /\ MantissaBits \in Nat \ {0} /\ Pow2[Precision] \in Nat
           /\ Pow2[MantissaBits - 1] \in Nat /\ Pow2[Precision] + 1 < Pow2[MantissaBits - 1]
           /\ Pow2[MantissaBits] = 2 * Pow2[MantissaBits - 1]
<1>1. /\ MantissaBits - 1 \in Nat /\ Precision < MantissaBits - 1 /\ MantissaBits \in Nat \ {0}
      /\ (MantissaBits - 1) + 1 = MantissaBits
  BY Constants DEF WideMantissa
<1>2. 2 * Pow2[Precision] <= Pow2[MantissaBits - 1]
  BY <1>1, Constants, Pow2Doubles
<1>3. Pow2[Precision] \in Nat \ {0} /\ Pow2[MantissaBits - 1] \in Nat
  BY <1>1, Constants, Pow2Type
<1>4. 2 * Pow2[0] <= Pow2[Precision]
  BY Constants, Pow2Doubles
<1>5. 2 <= Pow2[Precision]
  BY <1>4, Pow2Steps
<1>6. Pow2[MantissaBits] = 2 * Pow2[MantissaBits - 1]
  BY <1>1, Pow2Steps
<1>7. QED  BY <1>1, <1>2, <1>3, <1>5, <1>6

LEMMA RowOfBlocks ==
    ASSUME RowTyped, NEW i \in DOMAIN values
    PROVE  /\ i \in 0 .. cols - 1 /\ values[i] \in Float
           /\ BlockOf(i) \in BlockIndex /\ i \in Columns(BlockOf(i))
<1>1. DOMAIN values = 0 .. cols - 1 /\ values[i] \in Float /\ RowSound
  BY DEF RowTyped, RowSound
<1>2. QED  BY <1>1, OwnBlock

LEMMA RoundRowRounds ==
    ASSUME WideMantissa, CInv, RoundRow  PROVE IsRounded'
<1> SUFFICES ASSUME NEW i \in DOMAIN values, ClearOfEnds(BlockOf(i))
             PROVE  mantissa'[i] \in {-1, 0, 1}
  BY SameBlocks DEF IsRounded, RoundRow, ClearOfEnds, BlockOf
<1> DEFINE b == BlockOf(i)
           e == exponents[b]
           y == Scaled(i)
<1>1. /\ i \in 0 .. cols - 1 /\ values[i] \in Float
      /\ b \in BlockIndex /\ i \in Columns(b)
  BY RowOfBlocks DEF CInv
<1>2. BlockFitted(b)
  BY <1>1 DEF CInv, Fitted, RoundRow
<1>3. PICK m \in Nat : GreatestExp(b, m) /\ e = exponent_of(m)
  BY <1>2 DEF BlockFitted
<1>4. e \in Int /\ (values[i].exp = 0 \/ values[i].exp <= e + Bias - 1)
  <2>1. values[i].exp \in Nat /\ values[i].exp <= m
    BY <1>1, <1>3, FloatParts DEF GreatestExp
  <2>2. CASE m = 0
    BY <1>3, <2>1, <2>2, FittedExponent
  <2>3. CASE m > 0
    <3>1. e = m - Bias + 1
      BY <1>3, <2>3, FittedExponent
    <3> HIDE DEF e
    <3>2. QED  BY <2>1, <3>1, Constants
  <2>4. QED  BY <2>2, <2>3
<1>5. y \in Float /\ y.exp < Bias
  <2>1. InRange(-e)
    BY DEF ClearOfEnds
  <2>2. y = Times(values[i], fast_pow2(-e))
    BY DEF Scaled
  <2> HIDE DEF e, y
  <2>3. QED  BY <1>1, <1>4, <2>1, <2>2, ScaledBelowOne
<1> DEFINE p == Pow2[Precision]
<1>6. PICK noise \in [0 .. cols - 1 -> {0, p \div 2, p - 1}] :
          mantissa' = [k \in 0 .. cols - 1 |->
                          Wrap(process_single_stochastic_round(Scaled(k), noise[k]), MantissaBits)]
  BY DEF RoundRow
<1>7. noise[i] \in 0 .. p - 1
  <2>1. p \in Nat \ {0}  BY Constants, Pow2Type
  <2>2. \A x \in Nat \ {0} : x \div 2 \in 0 .. x - 1  OBVIOUS
  <2> HIDE DEF p
  <2>3. QED  BY <1>1, <1>6, <2>1, <2>2
<1> DEFINE r == process_single_stochastic_round(y, noise[i])
<1>8. r \in {-1, 0, 1}
  BY <1>5, <1>7, RoundsToUnit
<1>9. mantissa'[i] = Wrap(r, MantissaBits)
  BY <1>1, <1>6
<1>10. Wrap(r, MantissaBits) = r
  <2> HIDE DEF r
  <2>1. -(Pow2[MantissaBits - 1]) <= r /\ r < Pow2[MantissaBits - 1] /\ r \in Int
    BY <1>8, RoomInMantissa
  <2>2. QED  BY <2>1, RoomInMantissa, WrapFits
<1>11. QED  BY <1>8, <1>9, <1>10

LEMMA CentreRowCentres ==
    ASSUME WideMantissa, CInv, CentreRow  PROVE IsCentred'
<1>1. UNCHANGED <<values, block_size, exponents, means>> /\ pc = "centre"
  BY DEF CentreRow
<1>2. \A k : ScaledMean(k)' = ScaledMean(k)
  BY <1>1 DEF ScaledMean, MeanScale
<1>3. \A k : ClearOfEnds(k)' <=> ClearOfEnds(k)
  BY <1>1 DEF ClearOfEnds
<1>4. \A k : BlockOf(k)' = BlockOf(k)
  BY <1>1, SameBlocks
<1> SUFFICES ASSUME NEW i \in DOMAIN values, ClearOfEnds(BlockOf(i))
             PROVE  /\ mantissa'[i] \in Int
                    /\ integer_mean'[BlockOf(i)] = ScaledMean(BlockOf(i))
                    /\ mantissa'[i] + ScaledMean(BlockOf(i)) \in {-1, 0, 1}
  BY <1>1, <1>2, <1>3, <1>4 DEF IsCentred
<1> DEFINE b == BlockOf(i)
           v == ScaledMean(b)
           r == mantissa[i]
<1>5. i \in 0 .. cols - 1 /\ b \in BlockIndex
  BY RowOfBlocks DEF CInv
<1>6. BlockFitted(b)
  BY <1>1, <1>5 DEF CInv, Fitted
<1>7. r \in {-1, 0, 1}
  BY <1>1 DEF CInv, IsRounded
<1>8. MeanChoices(b) = {v}
  BY <1>6, OneMean DEF ClearOfEnds
<1>9. v \in Int /\ -(Pow2[Precision]) <= v /\ v <= Pow2[Precision]
  BY <1>6, MeanFits DEF ClearOfEnds
<1>10. integer_mean'[b] = v
  BY <1>5, <1>8 DEF CentreRow
<1>11. mantissa'[i] = Wrap(r - integer_mean'[b], MantissaBits)
  BY <1>5 DEF CentreRow
<1> HIDE DEF b, v, r
<1>12. Wrap(r - v, MantissaBits) = r - v
  <2>1. /\ r - v \in Int /\ -(Pow2[MantissaBits - 1]) <= r - v
        /\ r - v < Pow2[MantissaBits - 1]
    BY <1>7, <1>9, RoomInMantissa
  <2>2. QED  BY <2>1, RoomInMantissa, WrapFits
<1>13. mantissa'[i] = r - v
  BY <1>10, <1>11, <1>12
<1>14. mantissa'[i] \in Int /\ mantissa'[i] + v \in {-1, 0, 1}
  BY <1>7, <1>9, <1>13
<1>15. QED  BY <1>10, <1>14 DEF b, v

LEMMA CInvInvariant ==
    ASSUME WideMantissa  PROVE Spec => []CInv
<1>1. Init => IsRounded /\ IsCentred /\ IsEncoded /\ IsRestored
  BY DEF Init, IsRounded, IsCentred, IsEncoded, IsRestored
<1>2. CInv /\ [Next]_vars => IsRounded' /\ IsCentred' /\ IsEncoded' /\ IsRestored'
  <2> SUFFICES ASSUME CInv, [Next]_vars
               PROVE  IsRounded' /\ IsCentred' /\ IsEncoded' /\ IsRestored'
    OBVIOUS
  <2>1. CASE fit_exponent
    BY <2>1 DEF fit_exponent, IsRounded, IsCentred, IsEncoded, IsRestored
  <2>2. CASE RoundRow
    <3>1. IsRounded'  BY <2>2, RoundRowRounds
    <3>2. pc' = "centre"  BY <2>2 DEF RoundRow
    <3>3. QED  BY <3>1, <3>2 DEF IsCentred, IsEncoded, IsRestored
  <2>3. CASE CentreRow
    <3>1. IsCentred'  BY <2>3, CentreRowCentres
    <3>2. pc' = "centred"  BY <2>3 DEF CentreRow
    <3>3. QED  BY <3>1, <3>2 DEF IsRounded, IsEncoded, IsRestored
  <2>4. CASE Encode \/ mantissa_to_floats \/ UNCHANGED vars
    <3>1. UNCHANGED <<values, block_size, exponents, means, mantissa, integer_mean>>
      BY <2>4 DEF Encode, mantissa_to_floats, vars
    <3>2. /\ \A k : ScaledMean(k)' = ScaledMean(k)
          /\ \A k : ClearOfEnds(k)' <=> ClearOfEnds(k)
          /\ \A k : BlockOf(k)' = BlockOf(k)
      BY <3>1, SameBlocks DEF ScaledMean, MeanScale, ClearOfEnds
    <3>3. pc' = "centre" => pc = "centre"
      BY <2>4 DEF Encode, mantissa_to_floats, vars
    <3>4. IsRounded'
      BY <3>1, <3>2, <3>3 DEF CInv, IsRounded
    <3>5. pc' \in {"centred", "encoded", "restored"} => pc \in {"centred", "encoded", "restored"}
      BY <2>4 DEF Encode, mantissa_to_floats, vars
    <3>6. IsCentred'
      BY <3>1, <3>2, <3>5 DEF CInv, IsCentred
    <3>7. IsEncoded'
      <4>1. DOMAIN values = 0 .. cols - 1
        BY DEF CInv, RowTyped, RowSound
      <4>2. CASE Encode
        BY <3>1, <4>1, <4>2 DEF Encode, IsEncoded
      <4>3. CASE mantissa_to_floats
        BY <4>3 DEF mantissa_to_floats, IsEncoded
      <4>4. CASE UNCHANGED vars
        BY <4>4 DEF vars, CInv, IsEncoded
      <4>5. QED  BY <2>4, <4>2, <4>3, <4>4
    <3>8. IsRestored'
      <4>1. DOMAIN values = 0 .. cols - 1
        BY DEF CInv, RowTyped, RowSound
      <4>2. \A k : RestoreScale(k)' = RestoreScale(k)
        BY <3>1 DEF RestoreScale
      <4>3. CASE Encode
        BY <4>3 DEF Encode, IsRestored
      <4>4. CASE mantissa_to_floats
        <5> SUFFICES ASSUME NEW i \in DOMAIN values, ~Infinite(RestoreScale(BlockOf(i)))
                     PROVE  output'[i] = mantissa[i] * ValueOf(RestoreScale(BlockOf(i)))
                                             * means[BlockOf(i)][2] + means[BlockOf(i)][1]
          BY <3>1, <3>2, <4>2 DEF IsRestored
        <5>1. QED  BY <4>1, <4>4 DEF mantissa_to_floats
      <4>5. CASE UNCHANGED vars
        BY <3>2, <4>2, <4>5 DEF vars, CInv, IsRestored
      <4>6. QED  BY <2>4, <4>3, <4>4, <4>5
    <3>9. QED  BY <3>4, <3>6, <3>7, <3>8
  <2>5. QED  BY <2>1, <2>2, <2>3, <2>4 DEF Next
<1>3. QED  BY <1>1, <1>2, FittedInvariant, PTL DEF Spec, CInv

(* With a mantissa two bits wider than the precision (the 16-bit type at   *)
(* precision 8) taking the mean off is exact in every block clear of the   *)
(* ends of the exponent range: the conversion of the scaled mean is the    *)
(* mean, the subtraction does not wrap, and adding it back gives -1, 0 or  *)
(* 1, the only numbers a row scaled below one can round to                 *)
(* (fixedpoint.h 365-377).                                                 *)
THEOREM CentringExact ==
    ASSUME WideMantissa  PROVE Spec => []CentredExactly
<1>1. CInv => CentredExactly
  BY DEF CInv, IsCentred, CentredExactly, ClearOfEnds
<1>2. QED  BY <1>1, CInvInvariant, PTL

(* The unsigned copy that the NPU is given stands for the mantissa, for    *)
(* every block whose scaled mean is below the offset, when the mantissa is *)
(* wide and the offset at most half its range (127 in 16 bits;             *)
(* pipeline.h 188-193, execution.h 438-443).                               *)
THEOREM EncodingDecodes ==
    ASSUME WideMantissa, Offset <= Pow2[MantissaBits - 1]  PROVE Spec => []EncodedDecodes
<1>1. CInv => EncodedDecodes
  <2> SUFFICES ASSUME CInv, pc = "encoded", NEW i \in DOMAIN values, ClearOfEnds(BlockOf(i)),
                      ScaledMean(BlockOf(i)) < Offset
               PROVE  output[i] - Offset = mantissa[i]
    BY DEF EncodedDecodes, ClearOfEnds
  <2> DEFINE b == BlockOf(i)
             v == ScaledMean(b)
             t == mantissa[i]
             h == Pow2[MantissaBits - 1]
  <2>1. t \in Int /\ t + v \in {-1, 0, 1}
    BY DEF CInv, IsCentred
  <2>2. output[i] = (t + Offset) % Pow2[MantissaBits]
    BY DEF CInv, IsEncoded
  <2>3. v \in Int /\ -(Pow2[Precision]) <= v
    <3>1. b \in BlockIndex
      BY RowOfBlocks DEF CInv
    <3>2. BlockFitted(b)
      BY <3>1 DEF CInv, Fitted
    <3>3. QED  BY <3>2, MeanFits DEF ClearOfEnds
  <2>4. /\ Pow2[Precision] \in Nat /\ h \in Nat /\ Pow2[Precision] + 1 < h
        /\ Pow2[MantissaBits] = 2 * h
    BY RoomInMantissa
  <2>5. Offset \in Nat /\ Offset <= h /\ v < Offset
    BY Constants
  <2> HIDE DEF v, t, h
  <2>6. t + Offset \in Nat /\ t + Offset < 2 * h /\ 2 * h \in Nat \ {0}
    BY <2>1, <2>3, <2>4, <2>5
  <2>7. \A x \in Nat, y \in Nat \ {0} : x < y => x % y = x  OBVIOUS
  <2>8. (t + Offset) % (2 * h) = t + Offset
    BY <2>6, <2>7
  <2>9. output[i] - Offset = t
    BY <2>1, <2>2, <2>4, <2>5, <2>8
  <2>10. QED  BY <2>9 DEF t
<1>2. QED  BY <1>1, CInvInvariant, PTL

(* What mantissa_to_floats gives back, times the number of elements.       *)
RestoredNearZero ==
    pc = "restored" =>
        \A i \in DOMAIN values : LET b == BlockOf(i) IN
            ClearOfEnds(b) /\ InRange(exponents[b] - Precision) =>
                2 * Abs(output[i]) <= 3 * ValueOf(RestoreScale(b)) * means[b][2]

(* The round trip loses the row: whatever the values of a block clear of   *)
(* the ends were, mantissa_to_floats gives back, for each of them, a       *)
(* number within three halves of 2^(exponent - precision) of zero, since   *)
(* the row was rounded without the factor 2^precision that the mean got    *)
(* (fixedpoint.h 365-377, 431).  The run fixed_round_trip shows one such   *)
(* row.                                                                    *)
THEOREM RoundTripLosesRow ==
    ASSUME WideMantissa  PROVE Spec => []RestoredNearZero
<1>1. CInv => RestoredNearZero
  <2> SUFFICES ASSUME CInv, pc = "restored", NEW i \in DOMAIN values, ClearOfEnds(BlockOf(i)),
                      InRange(exponents[BlockOf(i)] - Precision)
               PROVE  2 * Abs(output[i])
                          <= 3 * ValueOf(RestoreScale(BlockOf(i))) * means[BlockOf(i)][2]
    BY DEF RestoredNearZero
  <2> DEFINE b == BlockOf(i)
             t == mantissa[i]
             w == ScaledMean(b)
             k == means[b][2]
             v == means[b][1]
             s == RestoreScale(b)
  <2>1. t \in Int /\ t + w \in {-1, 0, 1}
    BY DEF CInv, IsCentred
  <2>2. b \in BlockIndex /\ BlockFitted(b)
    BY RowOfBlocks DEF CInv, Fitted
  <2>3. PICK m \in Nat \ {0} :
            /\ exponents[b] = m - Bias + 1 /\ m + FracBits - Precision \in Nat
            /\ v \in Int /\ k \in Nat \ {0}
            /\ w = RoundQuotient(v, k * Pow2[m + FracBits - Precision])
    BY <2>2, MeanParts DEF ClearOfEnds
  <2> DEFINE e == exponents[b] - Precision
             D == Pow2[m + FracBits - Precision]
  <2>4. e \in Int /\ Bias + e \in 1 .. 2 * Bias /\ Bias + e = m + 1 - Precision
    BY <2>3, Constants DEF InRange
  <2>5. s = [neg |-> FALSE, exp |-> Bias + e, frac |-> 0]
    <3> HIDE DEF e
    <3>1. QED  BY <2>4, FastPow2InRange DEF RestoreScale, e
  <2> HIDE DEF s, e
  <2>6. s.exp = Bias + e /\ s.frac = 0 /\ ~s.neg
    BY <2>5
  <2>7. ~Infinite(s) /\ ~IsZero(s)
    BY <2>4, <2>6, Constants DEF Infinite, IsZero
  <2>8. D \in Nat \ {0} /\ ValueOf(s) = D
    <3> DEFINE f == Pow2[FracBits]
               h == m - Precision
    <3>1. h \in Nat /\ s.exp - 1 = h /\ FracBits + h = m + FracBits - Precision
      BY <2>4, <2>6, Constants
    <3>2. Pow2[FracBits + h] = Pow2[FracBits] * Pow2[h] /\ f \in Nat
      <4> HIDE DEF h
      <4>1. QED  BY <3>1, Constants, Pow2Sum, Pow2Type
    <3>3. Magnitude(s) = (f + 0) * Pow2[h]
      BY <2>6, <2>7, <3>1 DEF Magnitude
    <3>4. ValueOf(s) = Magnitude(s)
      BY <2>6 DEF ValueOf, Negate
    <3>5. D \in Nat \ {0}
      BY <2>3, Pow2Type
    <3> HIDE DEF h
    <3>6. QED  BY <3>1, <3>2, <3>3, <3>4, <3>5
  <2>9. output[i] = t * ValueOf(s) * k + v
    BY <2>7 DEF CInv, IsRestored, s
  <2> HIDE DEF D, t, w, k, v
  <2> DEFINE d == k * D
  <2>10. d \in Nat \ {0}
    <3>1. \A x, y \in Nat \ {0} : x * y \in Nat \ {0}  OBVIOUS
    <3>2. QED  BY <2>3, <2>8, <3>1
  <2>11. w = RoundQuotient(v, d)
    BY <2>3 DEF D
  <2> HIDE DEF d
  <2>12. w \in Int /\ -d <= 2 * (v - w * d) /\ 2 * (v - w * d) <= d
    BY <2>3, <2>10, <2>11, RoundedQuotientNear
  <2>13. t * D * k = t * d
    <3>1. \A x \in Int, y, z \in Nat : (x * y) * z = x * (z * y)  OBVIOUS
    <3>2. QED  BY <2>1, <2>3, <2>8, <3>1 DEF d
  <2>14. 3 * D * k = 3 * d
    <3>1. \A y, z \in Nat : 3 * y * z = 3 * (z * y)  OBVIOUS
    <3>2. QED  BY <2>3, <2>8, <3>1 DEF d
  <2> DEFINE u == t + w
  <2>15. t * d + v = u * d + (v - w * d)
    BY <2>1, <2>3, <2>10, <2>12
  <2>16. u * d \in {-d, 0, d}
    <3> HIDE DEF u
    <3>1. u \in {-1, 0, 1}  BY <2>1 DEF u
    <3>2. QED  BY <2>10, <3>1
  <2>17. w * d \in Int  BY <2>10, <2>12
  <2> HIDE DEF u
  <2>18. output[i] \in Int /\ -(3 * d) <= 2 * output[i] /\ 2 * output[i] <= 3 * d
    BY <2>3, <2>8, <2>9, <2>10, <2>12, <2>13, <2>15, <2>16, <2>17
  <2>19. 2 * Abs(output[i]) <= 3 * d
    BY <2>10, <2>18 DEF Abs
  <2>20. QED  BY <2>8, <2>14, <2>19 DEF s, k
<1>2. QED  BY <1>1, CInvInvariant, PTL

=============================================================================
