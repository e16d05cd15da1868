--------------------------- MODULE ArithmeticProofs ---------------------------
(***************************************************************************)
(* Theorems about Immediate, LongDivision and Arithmetic, for bytes of any *)
(* number of bits and operands of any number of bytes, and about what the  *)
(* emulator computes in sequences of instructions, for registers of any    *)
(* number of bits.                                                         *)
(***************************************************************************)
EXTENDS Arithmetic, IdiomsInvariants, SequenceTheorems, FiniteSetTheorems, TLAPS

(* Induction and recursion.                                                 *)

\* Every set of natural numbers has a least element.
LEMMA Least ==
  ASSUME NEW S \in SUBSET Nat, S # {}
  PROVE  \E m \in S : \A k \in S : m <= k
<1>1. PICK m \in S : \A k \in S : ~ (<<k, m>> \in OpToRel(<, Nat))
  BY NatLessThanWellFounded, WFMin, Zenon
<1>2. \A k \in S : <<k, m>> \in OpToRel(<, Nat) <=> k < m
  BY DEF OpToRel
<1>3. m \in Nat /\ \A k \in S : ~(k < m) /\ k \in Nat BY <1>1, <1>2
<1>4. \A k \in S : m <= k BY <1>3
<1> QED BY <1>4

\* Induction, for sets: upwards without an end, up to m, and down from m.
LEMMA Upwards ==
  ASSUME NEW S, 0 \in S, \A k \in Nat : k \in S => k + 1 \in S
  PROVE  Nat \subseteq S
<1> DEFINE Left == Nat \ S
<1>1. SUFFICES ASSUME Left # {} PROVE FALSE OBVIOUS
<1>2. PICK m \in Left : \A k \in Left : m <= k BY <1>1, Least
<1>3. m # 0 /\ m \in Nat OBVIOUS
<1>4. m - 1 \in Nat /\ m - 1 + 1 = m BY <1>3
<1>5. m - 1 \in S
  <2>1. ~(m <= m - 1) BY <1>3
  <2> QED BY <1>2, <1>4, <2>1
<1> QED BY <1>4, <1>5

LEMMA UpTo ==
  ASSUME NEW m \in Nat, NEW S, 0 \in S, \A k \in 0 .. m - 1 : k \in S => k + 1 \in S
  PROVE  \A k \in 0 .. m : k \in S
<1> DEFINE T == {k \in Nat : k <= m => k \in S}
<1>1. 0 \in T OBVIOUS
<1>2. \A k \in Nat : k \in T => k + 1 \in T
  <2> TAKE k \in Nat
  <2>1. CASE k + 1 <= m
    <3>1. k <= m /\ k \in 0 .. m - 1 BY <2>1
    <3> QED BY <3>1
  <2>2. CASE ~(k + 1 <= m) BY <2>2
  <2> QED BY <2>1, <2>2
<1>3. Nat \subseteq T
  <2> HIDE DEF T
  <2> QED BY <1>1, <1>2, Upwards
<1> QED BY <1>3

LEMMA DownFrom ==
  ASSUME NEW m \in Nat, NEW S, m \in S, \A k \in 0 .. m - 1 : k + 1 \in S => k \in S
  PROVE  \A k \in 0 .. m : k \in S
<1> DEFINE T == {k \in Nat : k <= m => m - k \in S}
<1>1. 0 \in T OBVIOUS
<1>2. \A k \in Nat : k \in T => k + 1 \in T
  <2> TAKE k \in Nat
  <2>1. CASE k + 1 <= m
    <3> DEFINE j == m - (k + 1)
    <3>1. k <= m /\ j \in 0 .. m - 1 /\ j + 1 = m - k BY <2>1
    <3> QED BY <3>1
  <2>2. CASE ~(k + 1 <= m) BY <2>2
  <2> QED BY <2>1, <2>2
<1>3. Nat \subseteq T
  <2> HIDE DEF T
  <2> QED BY <1>1, <1>2, Upwards
<1>4. \A k \in 0 .. m : m - k \in Nat /\ m - k <= m /\ m - (m - k) = k OBVIOUS
<1> QED BY <1>3, <1>4

\* A function can be defined by recursion: up to m, and on all natural numbers.
Follows(f, G, D) == \A k \in D : f[k + 1] = G[<<k, f[k]>>]

LEMMA RecursionUpTo ==
  ASSUME NEW X, NEW first \in X, NEW G \in [Nat \X X -> X]
  PROVE  \A m \in Nat : \E f \in [0 .. m -> X] : f[0] = first /\ Follows(f, G, 0 .. m - 1)
<1> DEFINE Is(f, m) == f \in [0 .. m -> X] /\ f[0] = first /\ Follows(f, G, 0 .. m - 1)
           S == {m \in Nat : \E f : Is(f, m)}
<1>1. 0 \in S
  <2> DEFINE f == [i \in 0 .. 0 |-> first]
  <2>1. Is(f, 0) BY DEF Follows
  <2> QED BY <2>1
<1>2. ASSUME NEW m \in Nat, m \in S PROVE m + 1 \in S
  <2>1. PICK f : Is(f, m) BY <1>2
  <2>2. m \in 0 .. m /\ f[m] \in X /\ f[0] = first BY <2>1
  <2>3. G[<<m, f[m]>>] \in X BY <2>2
  <2> DEFINE g == [i \in 0 .. m + 1 |-> IF i = m + 1 THEN G[<<m, f[m]>>] ELSE f[i]]
  <2>4. \A i \in 0 .. m : i \in 0 .. m + 1 /\ i # m + 1 OBVIOUS
  <2>5. \A i \in 0 .. m : g[i] = f[i] BY <2>4
  <2>6. \A i \in 0 .. m + 1 : i # m + 1 => i \in 0 .. m OBVIOUS
  <2>7. g \in [0 .. m + 1 -> X] BY <2>1, <2>3, <2>6
  <2>8. g[m + 1] = G[<<m, f[m]>>] OBVIOUS
  <2>9. g[0] = first BY <2>2, <2>5
  <2>10. ASSUME NEW k \in 0 .. m + 1 - 1 PROVE g[k + 1] = G[<<k, g[k]>>]
    <3>1. CASE k = m BY <3>1, <2>5, <2>8, <2>2
    <3>2. CASE k # m
      <4>1. k \in 0 .. m - 1 /\ k + 1 \in 0 .. m /\ k \in 0 .. m BY <3>2
      <4>2. f[k + 1] = G[<<k, f[k]>>] BY <4>1, <2>1 DEF Follows
      <4> HIDE DEF g
      <4> QED BY <4>1, <4>2, <2>5
    <3> QED BY <3>1, <3>2
  <2>11. Is(g, m + 1)
    <3> HIDE DEF g
    <3> QED BY <2>7, <2>9, <2>10 DEF Follows
  <2> HIDE DEF g, Is
  <2> QED BY <2>11
<1>3. Nat \subseteq S
  <2> HIDE DEF S
  <2> QED BY <1>1, <1>2, Upwards
<1> QED BY <1>3

LEMMA RecursionUnique ==
  ASSUME NEW G, NEW m \in Nat, NEW f, NEW g, f[0] = g[0],
         Follows(f, G, 0 .. m - 1), Follows(g, G, 0 .. m - 1)
  PROVE  \A k \in 0 .. m : f[k] = g[k]
<1> DEFINE S == {k \in 0 .. m : f[k] = g[k]}
<1>1. 0 \in S OBVIOUS
<1>2. \A k \in 0 .. m - 1 : k \in S => k + 1 \in S
  <2>1. \A k \in 0 .. m - 1 : k + 1 \in 0 .. m OBVIOUS
  <2> QED BY <2>1 DEF Follows
<1>3. \A k \in 0 .. m : k \in S
  <2> HIDE DEF S
  <2> QED BY <1>1, <1>2, UpTo
<1> QED BY <1>3

LEMMA RecursionOnNat ==
  ASSUME NEW X, NEW first \in X, NEW G \in [Nat \X X -> X]
  PROVE  \E f \in [Nat -> X] : f[0] = first /\ Follows(f, G, Nat)
<1> DEFINE Is(f, m) == f \in [0 .. m -> X] /\ f[0] = first /\ Follows(f, G, 0 .. m - 1)
           F(m) == CHOOSE f : Is(f, m)
           all == [m \in Nat |-> F(m)[m]]
<1>1. \A m \in Nat : Is(F(m), m)
  <2> TAKE m \in Nat
  <2>1. PICK h \in [0 .. m -> X] : h[0] = first /\ Follows(h, G, 0 .. m - 1) BY RecursionUpTo
  <2>2. Is(h, m) BY <2>1
  <2> HIDE DEF Is
  <2> QED BY <2>2
<1> HIDE DEF F
<1>2. \A m \in Nat : all[m] \in X
  <2> TAKE m \in Nat
  <2>1. m \in 0 .. m OBVIOUS
  <2>2. F(m) \in [0 .. m -> X] BY <1>1
  <2> QED BY <2>1, <2>2
<1>3. all[0] = first
  <2>1. Is(F(0), 0) BY <1>1
  <2> QED BY <2>1
<1>4. ASSUME NEW k \in Nat PROVE all[k + 1] = G[<<k, all[k]>>]
  <2> DEFINE g == F(k)
             h == F(k + 1)
  <2>1. Is(g, k) BY <1>1
  <2>2. Is(h, k + 1)
    <3>1. k + 1 \in Nat OBVIOUS
    <3> HIDE DEF Is
    <3> QED BY <1>1, <3>1
  <2>3. all[k] = g[k] /\ all[k + 1] = h[k + 1] OBVIOUS
  <2> HIDE DEF g, h, all
  <2>4. Follows(h, G, 0 .. k - 1)
    <3>1. \A j \in 0 .. k - 1 : j \in 0 .. k + 1 - 1 OBVIOUS
    <3> QED BY <2>2, <3>1 DEF Follows
  <2>5. g[0] = h[0] /\ Follows(g, G, 0 .. k - 1) BY <2>1, <2>2
  <2>6. \A j \in 0 .. k : g[j] = h[j] BY <2>4, <2>5, RecursionUnique
  <2>7. h[k + 1] = G[<<k, h[k]>>]
    <3>1. k \in 0 .. k + 1 - 1 OBVIOUS
    <3> QED BY <2>2, <3>1 DEF Follows
  <2> QED BY <2>3, <2>6, <2>7
<1>5. all \in [Nat -> X] BY <1>2
<1> HIDE DEF all
<1> QED BY <1>3, <1>4, <1>5 DEF Follows

-----------------------------------------------------------------------------
(* Powers of two.                                                           *)

LEMMA TwoToIs ==
  TwoTo \in [Nat -> Nat \ {0}] /\ TwoTo[0] = 1 /\ \A k \in Nat : TwoTo[k + 1] = 2 * TwoTo[k]
<1> DEFINE X == Nat \ {0}
           G == [p \in Nat \X X |-> 2 * p[2]]
<1>1. G \in [Nat \X X -> X] OBVIOUS
<1>2. \E f \in [Nat -> X] : f[0] = 1 /\ Follows(f, G, Nat)
  <2> HIDE DEF G
  <2>1. 1 \in X OBVIOUS
  <2> HIDE DEF X
  <2> QED BY <1>1, <2>1, RecursionOnNat
<1>3. PICK f \in [Nat -> X] : f[0] = 1 /\ \A k \in Nat : f[k + 1] = 2 * f[k]
  <2>1. PICK f \in [Nat -> X] : f[0] = 1 /\ Follows(f, G, Nat)
    BY <1>2
  <2>2. \A k \in Nat : G[<<k, f[k]>>] = 2 * f[k] OBVIOUS
  <2> QED BY <2>1, <2>2 DEF Follows
<1>4. \A k \in Nat : f[k] = IF k = 0 THEN 1 ELSE 2 * f[k - 1]
  <2> TAKE k \in Nat
  <2>1. CASE k # 0
    <3>1. k - 1 \in Nat /\ k - 1 + 1 = k BY <2>1
    <3> QED BY <1>3, <2>1, <3>1
  <2> QED BY <1>3, <2>1
<1>5. f = [k \in Nat |-> IF k = 0 THEN 1 ELSE 2 * f[k - 1]] BY <1>4
<1>6. TwoTo = [k \in Nat |-> IF k = 0 THEN 1 ELSE 2 * TwoTo[k - 1]]
  BY <1>5 DEF TwoTo
<1> HIDE DEF X
<1>7. \A k \in Nat : TwoTo[k] = IF k = 0 THEN 1 ELSE 2 * TwoTo[k - 1] BY <1>6
<1>8. TwoTo[0] = 1 /\ \A k \in Nat : TwoTo[k + 1] = 2 * TwoTo[k]
  <2>1. \A k \in Nat : k + 1 \in Nat /\ k + 1 # 0 /\ k + 1 - 1 = k OBVIOUS
  <2> QED BY <1>7, <2>1
<1>9. \A k \in Nat : TwoTo[k] \in X
  <2> DEFINE S == {k \in Nat : TwoTo[k] \in X}
  <2>1. 0 \in S BY <1>8 DEF X
  <2>2. \A k \in Nat : k \in S => k + 1 \in S BY <1>8 DEF X
  <2>3. Nat \subseteq S
    <3> HIDE DEF S
    <3> QED BY <2>1, <2>2, Upwards
  <2> QED BY <2>3
<1> QED BY <1>6, <1>8, <1>9 DEF X

LEMMA TwoToNat == \A k \in Nat : TwoTo[k] \in Nat /\ TwoTo[k] >= 1
BY TwoToIs

LEMMA TwoToSum == \A j, k \in Nat : TwoTo[j + k] = TwoTo[j] * TwoTo[k]
<1> TAKE j \in Nat
<1> DEFINE S == {k \in Nat : TwoTo[j + k] = TwoTo[j] * TwoTo[k]}
<1>1. 0 \in S BY TwoToIs, TwoToNat
<1>2. ASSUME NEW k \in Nat, k \in S PROVE k + 1 \in S
  <2>1. j + (k + 1) = (j + k) + 1 /\ j + k \in Nat OBVIOUS
  <2>2. TwoTo[j + (k + 1)] = 2 * TwoTo[j + k] BY <2>1, TwoToIs
  <2>3. TwoTo[k + 1] = 2 * TwoTo[k] BY TwoToIs
  <2>4. TwoTo[j + k] = TwoTo[j] * TwoTo[k] BY <1>2
  <2>5. TwoTo[j] * (2 * TwoTo[k]) = 2 * (TwoTo[j] * TwoTo[k]) BY TwoToNat
  <2> QED BY <2>2, <2>3, <2>4, <2>5
<1>3. Nat \subseteq S
  <2> HIDE DEF S
  <2> QED BY <1>1, <1>2, Upwards
<1> QED BY <1>3

LEMMA TwoToRises ==
  ASSUME NEW j \in Nat, NEW k \in Nat, j <= k
  PROVE  TwoTo[j] <= TwoTo[k] /\ TwoTo[k] = TwoTo[j] * TwoTo[k - j]
<1>1. k - j \in Nat /\ j + (k - j) = k OBVIOUS
<1>2. TwoTo[k] = TwoTo[j] * TwoTo[k - j] BY <1>1, TwoToSum
<1>3. TwoTo[j] \in Nat /\ TwoTo[k - j] \in Nat /\ TwoTo[k - j] >= 1 BY <1>1, TwoToNat
<1>4. \A p, q \in Nat : q >= 1 => p <= p * q OBVIOUS
<1> QED BY <1>2, <1>3, <1>4

LEMMA TwoToBeyond == \A k \in Nat : k < TwoTo[k]
<1> DEFINE S == {k \in Nat : k < TwoTo[k]}
<1>1. 0 \in S BY TwoToIs
<1>2. \A k \in Nat : k \in S => k + 1 \in S BY TwoToIs, TwoToNat
<1>3. Nat \subseteq S
  <2> HIDE DEF S
  <2> QED BY <1>1, <1>2, Upwards
<1> QED BY <1>3

\* The most significant bit of a number.
LEMMA HighestIs ==
  ASSUME NEW v \in Nat \ {0}
  PROVE  Highest(v) \in Nat /\ TwoTo[Highest(v)] <= v /\ v < TwoTo[Highest(v) + 1]
<1> DEFINE Above == {k \in Nat : v < TwoTo[k]}
<1>1. v \in Above BY TwoToBeyond
<1>2. PICK m \in Above : \A k \in Above : m <= k
  <2>1. Above \in SUBSET Nat /\ Above # {} BY <1>1
  <2> QED BY <2>1, Least
<1>3. m # 0 BY <1>2, TwoToIs
<1>4. m - 1 \in Nat /\ m - 1 + 1 = m BY <1>3
<1>5. m - 1 \notin Above BY <1>2, <1>4
<1>6. TwoTo[m - 1] <= v BY <1>4, <1>5, TwoToNat
<1>7. m <= v BY <1>1, <1>2
<1>8. m - 1 \in 0 .. v /\ v < TwoTo[m - 1 + 1] BY <1>2, <1>4, <1>7
<1>9. \E k \in 0 .. v : TwoTo[k] <= v /\ v < TwoTo[k + 1] BY <1>6, <1>8
<1>10. Highest(v) \in 0 .. v /\ TwoTo[Highest(v)] <= v /\ v < TwoTo[Highest(v) + 1]
  BY <1>9 DEF Highest
<1> QED BY <1>10

-----------------------------------------------------------------------------
(* Quotients and remainders.                                                *)

LEMMA Parts ==
  ASSUME NEW t \in Nat \ {0}, NEW v \in Int
  PROVE  v \div t \in Int /\ v % t \in 0 .. t - 1 /\ v = t * (v \div t) + (v % t)
OBVIOUS

LEMMA PartsOf ==
  ASSUME NEW t \in Nat \ {0}, NEW q \in Int, NEW r \in 0 .. t - 1
  PROVE  (t * q + r) \div t = q /\ (t * q + r) % t = r
OBVIOUS

\* The quotient by a product is a quotient of the quotient.
LEMMA PartsTwice ==
  ASSUME NEW s \in Nat \ {0}, NEW t \in Nat \ {0}, NEW v \in Int
  PROVE  s * t \in Nat \ {0} /\ v \div (s * t) = (v \div s) \div t
<1> DEFINE q == v \div s
           r == v % s
           p == q \div t
           u == q % t
<1>1. q \in Int /\ r \in 0 .. s - 1 /\ v = s * q + r BY Parts
<1>2. p \in Int /\ u \in 0 .. t - 1 /\ q = t * p + u BY <1>1, Parts
<1> HIDE DEF q, r, p, u
<1>3. s * t \in Nat \ {0} OBVIOUS
<1>4. v = (s * t) * p + (s * u + r)
  <2>1. s * (t * p + u) = (s * t) * p + s * u BY <1>2
  <2> QED BY <1>1, <1>2, <2>1
<1>5. s * u + r \in 0 .. s * t - 1
  <2>1. s * u \in Nat /\ s * u + s <= s * t
    <3>1. PICK d \in Nat : t = u + 1 + d
      <4>1. t - u - 1 \in Nat /\ t = u + 1 + (t - u - 1) BY <1>2
      <4> QED BY <4>1
    <3>2. s * t = s * u + s + s * d /\ s * d \in Nat BY <3>1, <1>2
    <3> QED BY <3>2, <1>2
  <2> QED BY <1>1, <2>1, <1>3
<1>6. v \div (s * t) = p BY <1>3, <1>4, <1>5, <1>2, PartsOf
<1> QED BY <1>3, <1>6 DEF p, q

-----------------------------------------------------------------------------
(* The long division.                                                       *)

\* When lhs is rhs shifted by one bit or more, the shifted divisor is the dividend.
Shifted(l, r) == r * TwoTo[Highest(l) - Highest(r)]

LEMMA ShiftedIs ==
  ASSUME NEW l \in Nat, NEW r \in Nat \ {0}, r < l
  PROVE  /\ Highest(l) \in Nat /\ Highest(r) \in Nat /\ Highest(l) - Highest(r) \in Nat
         /\ Shifted(l, r) \in Nat /\ l < 2 * Shifted(l, r)
         /\ Highest(l) = Highest(r) => Shifted(l, r) = r
<1> DEFINE h == Highest(l)
           g == Highest(r)
<1>1. h \in Nat /\ TwoTo[h] <= l /\ l < TwoTo[h + 1] BY HighestIs
<1>2. g \in Nat /\ TwoTo[g] <= r /\ r < TwoTo[g + 1] BY HighestIs
<1> HIDE DEF h, g
<1>3. g <= h
  <2> SUFFICES ASSUME h < g PROVE FALSE BY <1>1, <1>2
  <2>1. h + 1 \in Nat /\ h + 1 <= g BY <1>1, <1>2
  <2>2. TwoTo[h + 1] <= TwoTo[g] BY <2>1, <1>2, TwoToRises
  <2>3. TwoTo[h + 1] \in Nat /\ TwoTo[g] \in Nat BY <2>1, <1>2, TwoToNat
  <2> QED BY <1>1, <1>2, <2>2, <2>3
<1>4. h - g \in Nat BY <1>1, <1>2, <1>3
<1>5. TwoTo[h] = TwoTo[g] * TwoTo[h - g] BY <1>1, <1>2, <1>3, TwoToRises
<1>6. TwoTo[g] \in Nat /\ TwoTo[h - g] \in Nat BY <1>2, <1>4, TwoToNat
<1>7. TwoTo[g] * TwoTo[h - g] <= r * TwoTo[h - g] /\ r * TwoTo[h - g] \in Nat
  <2>1. \A u, v, w \in Nat : u <= v => u * w <= v * w
    <3> TAKE u, v, w \in Nat
    <3> SUFFICES ASSUME u <= v PROVE u * w <= v * w OBVIOUS
    <3>1. PICK d \in Nat : v = u + d
      <4>1. v - u \in Nat /\ v = u + (v - u) OBVIOUS
      <4> QED BY <4>1
    <3>2. v * w = u * w + d * w /\ d * w \in Nat BY <3>1
    <3> QED BY <3>2
  <2> QED BY <2>1, <1>2, <1>6
<1>8. TwoTo[h + 1] = 2 * TwoTo[h] BY <1>1, TwoToIs
<1>9. TwoTo[h] \in Nat BY <1>1, TwoToNat
<1>10. l < 2 * (r * TwoTo[h - g]) BY <1>1, <1>5, <1>7, <1>8, <1>9
<1>11. h = g => r * TwoTo[h - g] = r
  <2> SUFFICES ASSUME h = g PROVE r * TwoTo[h - g] = r OBVIOUS
  <2>1. h - g = 0 BY <1>1
  <2> QED BY <2>1, TwoToIs
<1> QED BY <1>1, <1>2, <1>4, <1>7, <1>10, <1>11 DEF Shifted, h, g

\* The invariant of the loop, with what becomes of a dividend of twice the divisor: it
\* is as large until the end, and then it is rhs.
DivisionIInv ==
  /\ pair \in Nat \X Nat /\ 0 < rhs /\ rhs < lhs
  /\ done \in BOOLEAN
  /\ LoopInvariant
  /\ ~done => (dividend = 2 * divisor <=> lhs = Shifted(lhs, rhs))
  /\ done => dividend <= rhs /\ (dividend = rhs <=> lhs = Shifted(lhs, rhs))

LEMMA Normalised ==
  ASSUME pair \in Nat \X Nat, 0 < rhs, rhs < lhs, Normalise(pair),
         dividend = lhs, quotient = 0, done = FALSE
  PROVE  DivisionIInv
<1> DEFINE shift == Highest(lhs) - Highest(rhs)
           aligned == Shifted(lhs, rhs)
<1>1. lhs \in Nat /\ rhs \in Nat \ {0} BY DEF lhs, rhs
<1>2. /\ Highest(lhs) \in Nat /\ Highest(rhs) \in Nat /\ shift \in Nat /\ aligned \in Nat
      /\ lhs < 2 * aligned /\ (Highest(lhs) = Highest(rhs) => aligned = rhs)
  BY <1>1, ShiftedIs
<1>3. aligned = rhs * TwoTo[shift] BY DEF Shifted
<1>4. IF aligned >= lhs THEN divisor = aligned \div 2 /\ bit = shift - 1
                        ELSE divisor = aligned /\ bit = shift
  BY <1>3 DEF Normalise, lhs, rhs
<1>5. shift = 0 => aligned = rhs BY <1>2
<1> HIDE DEF shift, aligned
<1>6. 0 % TwoTo[bit + 1] = 0 \/ bit \notin Nat
  <2> SUFFICES ASSUME bit \in Nat PROVE 0 % TwoTo[bit + 1] = 0 OBVIOUS
  <2>1. TwoTo[bit + 1] \in Nat \ {0} BY TwoToNat
  <2> QED BY <2>1
<1>7. 0 * rhs + lhs = lhs BY <1>1
<1>10. ASSUME bit \in Nat, divisor \in Nat, divisor = rhs * TwoTo[bit],
              dividend <= 2 * divisor, dividend = 2 * divisor <=> lhs = aligned
      PROVE  DivisionIInv
  <2>1. LoopInvariant
    <3>1. {dividend, divisor, quotient} \subseteq Nat BY <1>1, <1>10
    <3>2. lhs = quotient * rhs + dividend BY <1>7
    <3>3. quotient % TwoTo[bit + 1] = 0 BY <1>6, <1>10
    <3> QED BY <1>10, <3>1, <3>2, <3>3 DEF LoopInvariant
  <2>2. ~done /\ done \in BOOLEAN OBVIOUS
  <2>3. dividend = 2 * divisor <=> lhs = Shifted(lhs, rhs) BY <1>10 DEF aligned
  <2> QED BY <2>1, <2>2, <2>3 DEF DivisionIInv
<1>8. CASE aligned >= lhs
  <2>1. shift # 0 BY <1>1, <1>5, <1>8
  <2>2. shift - 1 \in Nat /\ shift - 1 + 1 = shift BY <2>1, <1>2
  <2>3. TwoTo[shift] = 2 * TwoTo[shift - 1] BY <2>2, TwoToIs
  <2>4. TwoTo[shift - 1] \in Nat BY <2>2, TwoToNat
  <2>5. rhs * TwoTo[shift - 1] \in Nat /\ aligned = 2 * (rhs * TwoTo[shift - 1])
    BY <1>1, <1>3, <2>3, <2>4
  <2>6. bit = shift - 1 /\ divisor = rhs * TwoTo[bit] /\ aligned = 2 * divisor
    <3>1. bit = shift - 1 /\ divisor = aligned \div 2 BY <1>4, <1>8
    <3> DEFINE halved == rhs * TwoTo[shift - 1]
    <3> HIDE DEF halved
    <3>2. halved \in Nat /\ aligned = 2 * halved BY <2>5 DEF halved
    <3>3. divisor = halved BY <3>1, <3>2
    <3> QED BY <3>1, <3>2, <3>3 DEF halved
  <2>7. divisor \in Nat /\ bit \in Nat BY <2>2, <2>5, <2>6
  <2>8. dividend <= 2 * divisor /\ (dividend = 2 * divisor <=> lhs = aligned)
    BY <2>6, <1>1, <1>2, <1>8
  <2> QED BY <2>6, <2>7, <2>8, <1>10
<1>9. CASE ~(aligned >= lhs)
  <2>1. bit = shift /\ divisor = aligned BY <1>4, <1>9
  <2>2. divisor = rhs * TwoTo[bit] /\ divisor \in Nat /\ bit \in Nat
    BY <2>1, <1>2, <1>3
  <2>3. dividend <= 2 * divisor /\ dividend # 2 * divisor /\ lhs # aligned
    BY <2>1, <1>1, <1>2, <1>9
  <2> QED BY <2>2, <2>3, <1>10
<1> QED BY <1>8, <1>9

LEMMA HalfMultiple ==
  ASSUME NEW t \in Nat \ {0}, NEW q \in Nat, q % (2 * t) = 0
  PROVE  q % t = 0 /\ (q + t) % t = 0
<1> DEFINE u == 2 * t
           k == q \div u
<1>1. k \in Int /\ q = (2 * t) * k + 0
  <2>1. u \in Nat \ {0} /\ q % u = 0 OBVIOUS
  <2> HIDE DEF u
  <2>2. q \div u \in Int /\ q = u * (q \div u) + (q % u) BY <2>1, Parts
  <2> QED BY <2>1, <2>2 DEF u
<1> HIDE DEF k
<1>2. q = t * (2 * k) + 0 /\ q + t = t * (2 * k + 1) + 0 BY <1>1
<1>3. 2 * k \in Int /\ 2 * k + 1 \in Int /\ 0 \in 0 .. t - 1 BY <1>1
<1> QED BY <1>2, <1>3, PartsOf

LEMMA IterateKeeps ==
  ASSUME DivisionIInv, Iterate
  PROVE  DivisionIInv'
<1>1. /\ bit \in Nat /\ dividend \in Nat /\ divisor \in Nat /\ quotient \in Nat
      /\ lhs \in Nat /\ rhs \in Nat \ {0} /\ ~done
      /\ lhs = quotient * rhs + dividend /\ divisor = rhs * TwoTo[bit]
      /\ dividend <= 2 * divisor /\ quotient % TwoTo[bit + 1] = 0
      /\ (dividend = 2 * divisor <=> lhs = Shifted(lhs, rhs))
  BY DEF DivisionIInv, LoopInvariant, Iterate, lhs, rhs
<1>2. pair' = pair /\ lhs' = lhs /\ rhs' = rhs BY DEF Iterate, lhs, rhs
<1> DEFINE t == TwoTo[bit]
<1>3. t \in Nat \ {0} /\ TwoTo[bit + 1] = 2 * t BY <1>1, TwoToIs
<1> HIDE DEF t
<1>4. quotient % t = 0 /\ (quotient + t) % t = 0 BY <1>1, <1>3, HalfMultiple
<1>5. /\ dividend' = IF dividend >= divisor THEN dividend - divisor ELSE dividend
      /\ quotient' = IF dividend >= divisor THEN quotient + t ELSE quotient
  BY DEF Iterate, Subtracting, t
\* What is subtracted from the dividend goes to the quotient.
<1>6. /\ dividend' \in Nat /\ quotient' \in Nat
      /\ lhs = quotient' * rhs + dividend' /\ quotient' % t = 0
      /\ dividend' <= divisor /\ (dividend' = divisor <=> dividend = 2 * divisor)
  <2>1. CASE dividend >= divisor
    <3>1. dividend' = dividend - divisor /\ quotient' = quotient + t BY <1>5, <2>1
    <3>2. (quotient + t) * rhs = quotient * rhs + divisor BY <1>1, <1>3 DEF t
    <3>3. quotient * rhs \in Nat BY <1>1
    <3>4. lhs = quotient' * rhs + dividend' BY <1>1, <3>1, <3>2, <3>3
    <3> QED BY <1>1, <1>3, <1>4, <2>1, <3>1, <3>4
  <2>2. CASE ~(dividend >= divisor)
    <3>1. dividend' = dividend /\ quotient' = quotient BY <1>5, <2>2
    <3> QED BY <1>1, <1>4, <2>2, <3>1
  <2> QED BY <2>1, <2>2
<1>7. CASE bit # 0
  <2>1. bit' = bit - 1 /\ divisor' = divisor \div 2 /\ done' = FALSE BY <1>7 DEF Iterate
  <2>2. bit - 1 \in Nat /\ bit - 1 + 1 = bit BY <1>1, <1>7
  <2>3. t = 2 * TwoTo[bit - 1] /\ TwoTo[bit - 1] \in Nat BY <2>2, TwoToIs DEF t
  <2> DEFINE halved == rhs * TwoTo[bit - 1]
  <2>4. halved \in Nat /\ divisor = 2 * halved BY <1>1, <2>3 DEF t
  <2> HIDE DEF halved
  <2>5. divisor' = halved BY <2>1, <2>4
  <2>6. divisor' = rhs' * TwoTo[bit'] /\ divisor' \in Nat /\ bit' \in Nat
    BY <1>2, <2>1, <2>2, <2>4, <2>5 DEF halved
  <2>7. t = TwoTo[bit' + 1] BY <2>1, <2>2 DEF t
  <2>8. LoopInvariant'
    <3>1. {dividend', divisor', quotient'} \subseteq Nat BY <1>6, <2>6
    <3>2. lhs' = quotient' * rhs' + dividend' BY <1>2, <1>6
    <3>3. dividend' <= 2 * divisor' BY <1>6, <2>4, <2>5
    <3>4. quotient' % TwoTo[bit' + 1] = 0 BY <1>6, <2>7
    <3> QED BY <2>6, <3>1, <3>2, <3>3, <3>4 DEF LoopInvariant
  <2>9. dividend' = 2 * divisor' <=> lhs' = Shifted(lhs', rhs')
    BY <1>1, <1>2, <1>6, <2>4, <2>5
  <2> QED BY <1>2, <2>1, <2>8, <2>9 DEF DivisionIInv
<1>8. CASE bit = 0
  <2>1. bit' = bit /\ divisor' = divisor /\ done' = TRUE BY <1>8 DEF Iterate
  <2>2. divisor = rhs
    <3>1. t = 1 BY <1>8, TwoToIs DEF t
    <3> QED BY <1>1, <3>1 DEF t
  <2>3. LoopInvariant'
    <3>1. {dividend', divisor', quotient'} \subseteq Nat BY <1>1, <1>6, <2>1
    <3>2. lhs' = quotient' * rhs' + dividend' BY <1>2, <1>6
    <3>3. divisor' = rhs' * TwoTo[bit'] /\ bit' \in Nat BY <1>1, <1>2, <2>1
    <3> QED BY <2>1, <3>1, <3>2, <3>3 DEF LoopInvariant
  <2>4. dividend' <= rhs' /\ (dividend' = rhs' <=> lhs' = Shifted(lhs', rhs'))
    BY <1>1, <1>2, <1>6, <2>2
  <2> QED BY <1>2, <2>1, <2>3, <2>4 DEF DivisionIInv
<1> QED BY <1>7, <1>8

LEMMA DivisionStutters ==
  ASSUME DivisionIInv, UNCHANGED dvars
  PROVE  DivisionIInv'
BY DEF DivisionIInv, LoopInvariant, lhs, rhs, dvars

\* The long division of any two numbers keeps the invariant of its loop.
THEOREM DivisionInvariant == SpecDivision => []DivisionIInv
<1>1. InitDivision => DivisionIInv
  <2> SUFFICES ASSUME InitDivision PROVE DivisionIInv OBVIOUS
  <2>1. pair \in Nat \X Nat /\ 0 < rhs /\ rhs < lhs
    BY OperandsAssumption DEF InitDivision, lhs, rhs
  <2>2. Normalise(pair) /\ dividend = lhs /\ quotient = 0 /\ done = FALSE BY DEF InitDivision
  <2> QED BY <2>1, <2>2, Normalised
<1>2. DivisionIInv /\ [Iterate]_dvars => DivisionIInv'
  BY IterateKeeps, DivisionStutters
<1> QED BY <1>1, <1>2, PTL DEF SpecDivision

\* It ends with quotient and remainder, but for a remainder of rhs and a quotient one
\* too small when lhs is rhs shifted.
THEOREM DivisionEnds == SpecDivision => [](LoopInvariant /\ AlmostDivided)
<1>1. DivisionIInv => LoopInvariant /\ AlmostDivided
  BY DEF DivisionIInv, LoopInvariant, AlmostDivided, Shifted
<1> QED BY <1>1, DivisionInvariant, PTL

-----------------------------------------------------------------------------
(* Numerals.                                                                *)

Digits(d, m) == \A i \in 0 .. m - 1 : d[i] \in Int
SumsUp(f, base, d, m) == f[m] = 0 /\ \A i \in 0 .. m - 1 : f[i] = d[i] + base * f[i + 1]

LEMMA SumsUpExists ==
  ASSUME NEW base \in Int, NEW m \in Nat, NEW d, Digits(d, m)
  PROVE  \E f \in [0 .. m -> Int] : SumsUp(f, base, d, m)
<1> DEFINE Digit(i) == IF i \in 0 .. m - 1 THEN d[i] ELSE 0
           G == [p \in Nat \X Int |-> Digit(m - 1 - p[1]) + base * p[2]]
<1>1. \A i : Digit(i) \in Int BY DEF Digits
<1>2. G \in [Nat \X Int -> Int]
  <2> HIDE DEF Digit
  <2>1. \A p \in Nat \X Int : base * p[2] \in Int OBVIOUS
  <2> QED BY <1>1, <2>1
<1>3. \A k \in Nat, v \in Int : G[<<k, v>>] = Digit(m - 1 - k) + base * v
  <2> HIDE DEF Digit
  <2> QED OBVIOUS
<1> HIDE DEF G
<1>4. PICK h \in [0 .. m -> Int] : h[0] = 0 /\ Follows(h, G, 0 .. m - 1)
  <2> DEFINE X == Int
  <2>1. 0 \in X /\ G \in [Nat \X X -> X] BY <1>2
  <2> HIDE DEF X
  <2>2. \E h \in [0 .. m -> X] : h[0] = 0 /\ Follows(h, G, 0 .. m - 1)
    BY <2>1, RecursionUpTo
  <2> QED BY <2>2 DEF X
<1> DEFINE f == [i \in 0 .. m |-> h[m - i]]
<1>5. \A i \in 0 .. m : m - i \in 0 .. m OBVIOUS
<1>6. f \in [0 .. m -> Int] BY <1>4, <1>5
<1>7. f[m] = 0 BY <1>4
<1>8. ASSUME NEW i \in 0 .. m - 1 PROVE f[i] = d[i] + base * f[i + 1]
  <2> DEFINE k == m - 1 - i
  <2>1. k \in 0 .. m - 1 /\ k + 1 = m - i /\ k = m - (i + 1) /\ k \in 0 .. m /\ m - 1 - k = i
    OBVIOUS
  <2>2. f[i] = h[k + 1] /\ f[i + 1] = h[k] BY <2>1
  <2> HIDE DEF f, k
  <2>3. h[k + 1] = G[<<k, h[k]>>] BY <1>4, <2>1 DEF Follows
  <2>4. G[<<k, h[k]>>] = Digit(i) + base * h[k] BY <1>3, <1>4, <2>1
  <2> QED BY <2>2, <2>3, <2>4
<1> HIDE DEF f
<1> QED BY <1>6, <1>7, <1>8 DEF SumsUp

LEMMA SumsUpUnique ==
  ASSUME NEW base, NEW m \in Nat, NEW d, NEW f, NEW g,
         SumsUp(f, base, d, m), SumsUp(g, base, d, m)
  PROVE  \A i \in 0 .. m : f[i] = g[i]
<1> DEFINE S == {i \in 0 .. m : f[i] = g[i]}
<1>1. m \in S BY DEF SumsUp
<1>2. \A i \in 0 .. m - 1 : i + 1 \in S => i \in S BY DEF SumsUp
<1>3. \A i \in 0 .. m : i \in S
  <2> HIDE DEF S
  <2> QED BY <1>1, <1>2, DownFrom
<1> QED BY <1>3

LEMMA SuffixesIs ==
  ASSUME NEW base \in Int, NEW m \in Nat, NEW d, Digits(d, m)
  PROVE  /\ Suffixes(base, d, m) \in [0 .. m -> Int]
         /\ SumsUp(Suffixes(base, d, m), base, d, m)
<1>1. PICK f \in [0 .. m -> Int] : SumsUp(f, base, d, m) BY SumsUpExists
<1>2. \A i \in 0 .. m : f[i] = IF i = m THEN 0 ELSE d[i] + base * f[i + 1]
  BY <1>1 DEF SumsUp
<1>3. f = [i \in 0 .. m |-> IF i = m THEN 0 ELSE d[i] + base * f[i + 1]] BY <1>2
<1> DEFINE s == Suffixes(base, d, m)
<1>4. s = [i \in 0 .. m |-> IF i = m THEN 0 ELSE d[i] + base * s[i + 1]]
  BY <1>3 DEF Suffixes
<1> HIDE DEF s
<1>5. SumsUp(s, base, d, m)
  <2>1. \A i \in 0 .. m - 1 : i # m /\ i \in 0 .. m OBVIOUS
  <2>2. \A i \in 0 .. m : s[i] = IF i = m THEN 0 ELSE d[i] + base * s[i + 1] BY <1>4
  <2> QED BY <2>1, <2>2 DEF SumsUp
<1>6. \A i \in 0 .. m : s[i] = f[i] BY <1>1, <1>5, SumsUpUnique
<1>7. s = [i \in 0 .. m |-> s[i]] BY <1>4
<1>8. s \in [0 .. m -> Int] BY <1>1, <1>6, <1>7
<1> QED BY <1>5, <1>8 DEF s

\* What sums up to the digits is what they stand for.
LEMMA NumberIs ==
  ASSUME NEW base \in Int, NEW m \in Nat, NEW d, Digits(d, m),
         NEW f, SumsUp(f, base, d, m)
  PROVE  /\ \A i \in 0 .. m : Suffixes(base, d, m)[i] = f[i]
         /\ Number(base, d, m) = f[0]
<1>1. SumsUp(Suffixes(base, d, m), base, d, m) BY SuffixesIs
<1>2. \A i \in 0 .. m : Suffixes(base, d, m)[i] = f[i] BY <1>1, SumsUpUnique
<1>3. 0 \in 0 .. m OBVIOUS
<1> QED BY <1>2, <1>3 DEF Number

\* Digits that are equal stand for the same number.
LEMMA SameDigits ==
  ASSUME NEW base \in Int, NEW m \in Nat, NEW d, Digits(d, m), NEW e,
         \A i \in 0 .. m - 1 : d[i] = e[i]
  PROVE  Digits(e, m) /\ Number(base, d, m) = Number(base, e, m)
<1>1. Digits(e, m) BY DEF Digits
<1>2. SumsUp(Suffixes(base, d, m), base, d, m) BY SuffixesIs
<1>3. SumsUp(Suffixes(base, d, m), base, e, m) BY <1>2 DEF SumsUp
<1>4. Number(base, e, m) = Suffixes(base, d, m)[0] BY <1>1, <1>3, NumberIs
<1> QED BY <1>1, <1>4 DEF Number

-----------------------------------------------------------------------------
(* Numerals to a power of two, with digits less than the base.              *)

Proper(d, base, m) == \A i \in 0 .. m - 1 : d[i] \in 0 .. base - 1
DigitsOf(d, v, e, m) == \A i \in 0 .. m - 1 : d[i] = (v \div TwoTo[e * i]) % TwoTo[e]

LEMMA Units ==
  ASSUME NEW e \in Nat, NEW i \in Nat
  PROVE  /\ e * i \in Nat /\ TwoTo[e] \in Nat \ {0} /\ TwoTo[e * i] \in Nat \ {0}
         /\ e * (i + 1) \in Nat /\ TwoTo[e * (i + 1)] = TwoTo[e * i] * TwoTo[e]
         /\ TwoTo[e * 0] = 1 /\ TwoTo[e * 1] = TwoTo[e]
<1>1. e * i \in Nat /\ e * (i + 1) = e * i + e /\ e * 0 = 0 /\ e * 1 = e OBVIOUS
<1>2. TwoTo[e * i + e] = TwoTo[e * i] * TwoTo[e]
  <2> DEFINE k == e * i
  <2>1. k \in Nat BY <1>1
  <2> HIDE DEF k
  <2>2. TwoTo[k + e] = TwoTo[k] * TwoTo[e] BY <2>1, TwoToSum
  <2> QED BY <2>2 DEF k
<1>3. TwoTo[e * i] \in Nat \ {0} BY <1>1, TwoToIs
<1>4. TwoTo[e] \in Nat \ {0} BY TwoToIs
<1>5. e * (i + 1) \in Nat BY <1>1
<1> QED BY <1>1, <1>2, <1>3, <1>4, <1>5, TwoToIs

LEMMA ProperDigits ==
  ASSUME NEW base \in Nat, NEW m \in Nat, NEW d, Proper(d, base, m)
  PROVE  Digits(d, m)
BY DEF Proper, Digits

\* A numeral stands for less than the power of the base that its length gives.
LEMMA ProperBound ==
  ASSUME NEW e \in Nat, NEW m \in Nat, NEW d, Proper(d, TwoTo[e], m)
  PROVE  \A i \in 0 .. m : /\ Suffixes(TwoTo[e], d, m)[i] \in Nat
                           /\ Suffixes(TwoTo[e], d, m)[i] < TwoTo[e * (m - i)]
<1> DEFINE base == TwoTo[e]
           s == Suffixes(base, d, m)
           S == {i \in 0 .. m : s[i] \in Nat /\ s[i] < TwoTo[e * (m - i)]}
<1>1. base \in Nat \ {0} BY TwoToIs
<1>2. SumsUp(s, base, d, m) BY <1>1, ProperDigits, SuffixesIs
<1> HIDE DEF base, s
<1>3. m \in S
  <2>1. m - m = 0 /\ TwoTo[e * 0] = 1 BY TwoToIs
  <2> QED BY <1>2, <2>1 DEF SumsUp
<1>4. ASSUME NEW i \in 0 .. m - 1, i + 1 \in S PROVE i \in S
  <2> DEFINE p == TwoTo[e * (m - (i + 1))]
  <2>1. m - (i + 1) \in Nat /\ m - i = (m - (i + 1)) + 1 OBVIOUS
  <2>2. p \in Nat \ {0} /\ TwoTo[e * (m - i)] = p * base BY <2>1, Units DEF base
  <2>3. s[i + 1] \in Nat /\ s[i + 1] < p BY <1>4
  <2>4. s[i] = d[i] + base * s[i + 1] BY <1>2 DEF SumsUp
  <2>5. d[i] \in 0 .. base - 1 BY DEF Proper, base
  <2> HIDE DEF p
  <2>6. base * s[i + 1] \in Nat /\ base * s[i + 1] + base <= p * base
    <3>1. PICK g \in Nat : p = s[i + 1] + 1 + g
      <4>1. p - s[i + 1] - 1 \in Nat /\ p = s[i + 1] + 1 + (p - s[i + 1] - 1)
        BY <2>2, <2>3
      <4> QED BY <4>1
    <3>2. p * base = base * s[i + 1] + base + g * base /\ g * base \in Nat
      BY <3>1, <2>3, <1>1
    <3> QED BY <3>2, <2>3, <1>1
  <2>7. s[i] \in Nat /\ s[i] < p * base
    <3> DEFINE u == base * s[i + 1]
               w == p * base
    <3> HIDE DEF u, w
    <3>1. u \in Nat /\ u + base <= w /\ s[i] = d[i] + u /\ w \in Nat
      BY <1>1, <2>2, <2>4, <2>6 DEF u, w
    <3>2. s[i] \in Nat /\ s[i] < w BY <1>1, <2>5, <3>1
    <3> QED BY <3>2 DEF w
  <2>8. i \in 0 .. m OBVIOUS
  <2> QED BY <2>2, <2>7, <2>8
<1>5. \A i \in 0 .. m : i \in S
  <2> HIDE DEF S
  <2> QED BY <1>3, <1>4, DownFrom
<1> QED BY <1>5 DEF base, s

\* The digits of a numeral are those of what it stands for.
LEMMA ProperParts ==
  ASSUME NEW e \in Nat, NEW m \in Nat, NEW d, Proper(d, TwoTo[e], m)
  PROVE  /\ Number(TwoTo[e], d, m) \in Nat /\ Number(TwoTo[e], d, m) < TwoTo[e * m]
         /\ \A i \in 0 .. m :
              Suffixes(TwoTo[e], d, m)[i] = Number(TwoTo[e], d, m) \div TwoTo[e * i]
         /\ DigitsOf(d, Number(TwoTo[e], d, m), e, m)
<1> DEFINE base == TwoTo[e]
           s == Suffixes(base, d, m)
           v == Number(base, d, m)
           S == {i \in 0 .. m : s[i] = v \div TwoTo[e * i]}
<1>1. base \in Nat \ {0} BY TwoToIs
<1>2. SumsUp(s, base, d, m) BY <1>1, ProperDigits, SuffixesIs
<1>3. \A i \in 0 .. m : s[i] \in Nat /\ s[i] < TwoTo[e * (m - i)] BY ProperBound
<1>4. v = s[0] BY DEF Number
<1>5. v \in Nat /\ v < TwoTo[e * m]
  <2>1. 0 \in 0 .. m /\ m - 0 = m OBVIOUS
  <2> QED BY <1>3, <1>4, <2>1
<1> HIDE DEF s, v
<1>6. 0 \in S
  <2>1. TwoTo[e * 0] = 1 BY TwoToIs
  <2>2. v \div 1 = v BY <1>5
  <2> QED BY <1>4, <2>1, <2>2
<1> HIDE DEF base
<1>7. \A i \in 0 .. m - 1 : s[i] \div base = s[i + 1] /\ s[i] % base = d[i]
  <2> TAKE i \in 0 .. m - 1
  <2>1. s[i] = base * s[i + 1] + d[i]
    <3>1. i + 1 \in 0 .. m /\ d[i] \in 0 .. base - 1 BY DEF Proper, base
    <3>2. s[i] = d[i] + base * s[i + 1] BY <1>2 DEF SumsUp
    <3>3. base * s[i + 1] \in Nat BY <1>1, <1>3, <3>1
    <3> QED BY <3>1, <3>2, <3>3
  <2>2. s[i + 1] \in Int /\ d[i] \in 0 .. base - 1
    <3>1. i + 1 \in 0 .. m OBVIOUS
    <3> QED BY <1>3, <3>1 DEF Proper, base
  <2> DEFINE q == s[i + 1]
             u == d[i]
  <2> HIDE DEF q, u
  <2>3. q \in Int /\ u \in 0 .. base - 1 BY <2>2 DEF q, u
  <2>4. (base * q + u) \div base = q /\ (base * q + u) % base = u BY <1>1, <2>3, PartsOf
  <2> QED BY <2>1, <2>4 DEF q, u
<1>8. ASSUME NEW i \in 0 .. m - 1, i \in S PROVE i + 1 \in S
  <2>1. i \in Nat /\ i + 1 \in 0 .. m OBVIOUS
  <2>2. TwoTo[e * i] \in Nat \ {0} /\ TwoTo[e * (i + 1)] = TwoTo[e * i] * base
    BY <2>1, Units DEF base
  <2>3. v \div (TwoTo[e * i] * base) = (v \div TwoTo[e * i]) \div base
    BY <1>1, <1>5, <2>2, PartsTwice
  <2>4. s[i + 1] = (v \div TwoTo[e * i]) \div base BY <1>7, <1>8
  <2> QED BY <2>1, <2>2, <2>3, <2>4
<1>9. \A i \in 0 .. m : i \in S
  <2> HIDE DEF S
  <2> QED BY <1>6, <1>8, UpTo
<1>10. DigitsOf(d, v, e, m)
  <2>1. \A i \in 0 .. m - 1 : i \in 0 .. m OBVIOUS
  <2>2. \A i \in 0 .. m - 1 : d[i] = (v \div TwoTo[e * i]) % base BY <1>7, <1>9, <2>1
  <2> QED BY <2>2 DEF DigitsOf, base
<1> QED BY <1>5, <1>9, <1>10 DEF base, s, v

\* The digits of a number stand for it, if they are enough.
LEMMA DigitsStandFor ==
  ASSUME NEW e \in Nat, NEW m \in Nat, NEW v \in Nat, v < TwoTo[e * m],
         NEW d, DigitsOf(d, v, e, m)
  PROVE  /\ Proper(d, TwoTo[e], m)
         /\ Number(TwoTo[e], d, m) = v
<1> DEFINE base == TwoTo[e]
           f == [i \in 0 .. m |-> v \div TwoTo[e * i]]
<1>1. base \in Nat \ {0} BY TwoToIs
<1>2. \A i \in 0 .. m : TwoTo[e * i] \in Nat \ {0} /\ f[i] \in Int
  <2> TAKE i \in 0 .. m
  <2>1. TwoTo[e * i] \in Nat \ {0} BY Units
  <2> QED BY <2>1, Parts
<1>3. f[m] = 0
  <2> DEFINE t == TwoTo[e * m]
  <2>1. t \in Nat \ {0} /\ v \in 0 .. t - 1 BY Units
  <2>2. f[m] = v \div t OBVIOUS
  <2> HIDE DEF t
  <2>3. v \div t = 0 BY <2>1
  <2> QED BY <2>2, <2>3
<1>4. ASSUME NEW i \in 0 .. m - 1 PROVE d[i] \in 0 .. base - 1 /\ f[i] = d[i] + base * f[i + 1]
  <2> DEFINE t == TwoTo[e * i]
  <2>1. t \in Nat \ {0} /\ TwoTo[e * (i + 1)] = t * base BY Units
  <2>2. f[i] = v \div t /\ f[i + 1] = v \div (t * base) BY <2>1
  <2>3. d[i] = (v \div t) % base BY DEF DigitsOf
  <2> HIDE DEF t, base, f
  <2>4. v \div (t * base) = (v \div t) \div base
    <3>1. v \in Int OBVIOUS
    <3> QED BY <1>1, <2>1, <3>1, PartsTwice, Zenon
  <2>5. v \div t \in Int BY <2>1, Parts
  <2> DEFINE q == v \div t
  <2> HIDE DEF q
  <2>6. q \in Int /\ f[i] = q /\ f[i + 1] = q \div base /\ d[i] = q % base
    BY <2>2, <2>3, <2>4, <2>5 DEF q
  <2>7. q = base * (q \div base) + (q % base) /\ q % base \in 0 .. base - 1 /\ q \div base \in Int
    BY <1>1, <2>6, Parts
  <2> QED BY <1>1, <2>6, <2>7
<1> HIDE DEF base, f
<1>5. Proper(d, base, m) BY <1>4 DEF Proper
<1>6. SumsUp(f, base, d, m) BY <1>3, <1>4 DEF SumsUp
<1>7. Digits(d, m) BY <1>1, <1>5, ProperDigits
<1>8. Number(base, d, m) = f[0]
  <2>1. base \in Int BY <1>1
  <2> QED BY <1>6, <1>7, <2>1, NumberIs
<1>9. f[0] = v
  <2>1. f[0] = v \div TwoTo[e * 0] /\ TwoTo[e * 0] = 1 BY Units DEF f
  <2> QED BY <2>1
<1> QED BY <1>5, <1>8, <1>9 DEF base

\* A numeral is cut in two.
Piece(c, d, i, j) == \A u \in 0 .. j - 1 : c[u] = d[i + u]

LEMMA Cut ==
  ASSUME NEW e \in Nat, NEW m \in Nat, NEW d, Digits(d, m),
         NEW i \in Nat, NEW j \in Nat, i + j <= m,
         NEW c, Piece(c, d, i, j)
  PROVE  Suffixes(TwoTo[e], d, m)[i]
         = Number(TwoTo[e], c, j) + TwoTo[e * j] * Suffixes(TwoTo[e], d, m)[i + j]
<1> DEFINE base == TwoTo[e]
           s == Suffixes(base, d, m)
           rest == s[i + j]
           f == [u \in 0 .. j |-> s[i + u] - TwoTo[e * (j - u)] * rest]
<1>1. base \in Nat \ {0} BY TwoToIs
<1>2. SumsUp(s, base, d, m) /\ s \in [0 .. m -> Int]
  <2>1. base \in Int BY <1>1
  <2> HIDE DEF base
  <2> QED BY <2>1, SuffixesIs
<1> HIDE DEF base, s
<1>3. rest \in Int
  <2>1. i + j \in 0 .. m OBVIOUS
  <2> QED BY <1>2, <2>1
<1>4. f[j] = 0
  <2>1. j - j = 0 /\ TwoTo[e * 0] = 1 BY TwoToIs
  <2>2. f[j] = rest - TwoTo[e * (j - j)] * rest OBVIOUS
  <2> HIDE DEF rest, f
  <2> QED BY <1>3, <2>1, <2>2
<1>5. ASSUME NEW u \in 0 .. j - 1 PROVE f[u] = c[u] + base * f[u + 1]
  <2> DEFINE k == j - (u + 1)
             p == TwoTo[e * k]
             q == s[i + u + 1]
  <2>1. k \in Nat /\ j - u = k + 1 /\ i + u \in 0 .. m - 1 /\ i + u + 1 \in 0 .. m OBVIOUS
  <2>2. TwoTo[e * (j - u)] = p * base /\ p \in Nat \ {0} BY <2>1, Units DEF base
  <2>3. s[i + u] = d[i + u] + base * q BY <1>2, <2>1 DEF SumsUp
  <2>4. q \in Int BY <1>2, <2>1
  <2>5. u \in 0 .. j /\ u + 1 \in 0 .. j /\ i + (u + 1) = i + u + 1 OBVIOUS
  <2>6. f[u] = s[i + u] - (p * base) * rest /\ f[u + 1] = q - p * rest BY <2>2, <2>5
  <2>7. c[u] = d[i + u] /\ d[i + u] \in Int BY <2>1 DEF Digits, Piece
  <2> HIDE DEF p, q, rest, f, k
  <2>8. base * (q - p * rest) = base * q - (p * base) * rest BY <1>1, <1>3, <2>2, <2>4
  <2>9. base * q \in Int /\ (p * base) * rest \in Int BY <1>1, <1>3, <2>2, <2>4
  <2> QED BY <2>3, <2>6, <2>7, <2>8, <2>9
<1>6. \A u \in 0 .. j - 1 : c[u] \in Int
  <2>1. \A u \in 0 .. j - 1 : i + u \in 0 .. m - 1 OBVIOUS
  <2> QED BY <2>1 DEF Digits, Piece
<1>7. f[0] = s[i] - TwoTo[e * j] * rest
  <2>1. 0 \in 0 .. j /\ j - 0 = j OBVIOUS
  <2>2. i + 0 = i OBVIOUS
  <2> HIDE DEF rest
  <2> QED BY <2>1, <2>2
<1> HIDE DEF f
<1>8. Number(base, c, j) = f[0]
  <2>1. base \in Int BY <1>1
  <2>2. SumsUp(f, base, c, j) BY <1>4, <1>5 DEF SumsUp
  <2>3. Digits(c, j) BY <1>6 DEF Digits
  <2> QED BY <2>1, <2>2, <2>3, NumberIs
<1>9. s[i] \in Int /\ TwoTo[e * j] \in Nat
  <2>1. i \in 0 .. m OBVIOUS
  <2> QED BY <1>2, <2>1, Units
<1> DEFINE tail == TwoTo[e * j] * rest
<1>10. tail \in Int BY <1>3, <1>9
<1>11. s[i] = f[0] + tail
  <2>1. f[0] = s[i] - tail BY <1>7
  <2> HIDE DEF tail
  <2> QED BY <1>9, <1>10, <2>1
<1> QED BY <1>8, <1>11 DEF base, s

-----------------------------------------------------------------------------
(* Immediates and what they stand for.                                      *)

LEMMA BaseIs ==
  /\ ByteBits \in Nat /\ ByteBits > 0 /\ WordBytes \in Nat /\ WordBytes > 1
  /\ Base \in Nat /\ Base > 1 /\ Base = TwoTo[ByteBits]
<1>1. /\ ByteBits \in Nat /\ ByteBits > 0 /\ WordBytes \in Nat /\ MultiplyBytes \in Nat
      /\ MultiplyBytes > 0 /\ MultiplyBytes * 2 <= WordBytes
  BY ImmediateAssumption
<1>2. ByteBits < TwoTo[ByteBits] /\ TwoTo[ByteBits] \in Nat BY <1>1, TwoToBeyond, TwoToNat
<1> QED BY <1>1, <1>2 DEF Base

LEMMA ImmediateIs ==
  ASSUME NEW w \in Nat, NEW c \in Bytes(w)
  PROVE  /\ DOMAIN c = 0 .. w - 1 /\ width(c) = w
         /\ Proper(c, Base, w) /\ Digits(c, w)
         /\ Value(c) = Number(Base, c, w)
<1>1. DOMAIN c = 0 .. w - 1 BY DEF Bytes
<1>2. Cardinality(0 .. w - 1) = w
  <2>1. Cardinality(0 .. w - 1) = IF 0 > w - 1 THEN 0 ELSE w - 1 - 0 + 1
    BY FS_Interval
  <2> QED BY <2>1
<1>3. width(c) = w BY <1>1, <1>2 DEF width
<1>4. Proper(c, Base, w) BY DEF Bytes, ByteValues, Proper
<1>5. Digits(c, w) BY <1>4, BaseIs, ProperDigits
<1> QED BY <1>1, <1>3, <1>4, <1>5 DEF Value

\* The bytes of an Immediate are those of its value.
LEMMA ValueIs ==
  ASSUME NEW w \in Nat, NEW c \in Bytes(w)
  PROVE  /\ Value(c) \in Nat /\ Value(c) < TwoTo[ByteBits * w]
         /\ DigitsOf(c, Value(c), ByteBits, w)
         /\ \A i \in 0 .. w : Suffixes(Base, c, w)[i] = Value(c) \div TwoTo[ByteBits * i]
         /\ SumsUp(Suffixes(Base, c, w), Base, c, w)
         /\ Suffixes(Base, c, w)[0] = Value(c)
<1>1. Value(c) = Number(Base, c, w) /\ Proper(c, TwoTo[ByteBits], w) /\ Digits(c, w)
  BY ImmediateIs, BaseIs
<1>2. SumsUp(Suffixes(Base, c, w), Base, c, w)
  <2>1. Base \in Int BY BaseIs
  <2> QED BY <1>1, <2>1, SuffixesIs
<1>3. ByteBits \in Nat BY BaseIs
<1>4. /\ Number(TwoTo[ByteBits], c, w) \in Nat
      /\ Number(TwoTo[ByteBits], c, w) < TwoTo[ByteBits * w]
      /\ \A i \in 0 .. w : Suffixes(TwoTo[ByteBits], c, w)[i]
                            = Number(TwoTo[ByteBits], c, w) \div TwoTo[ByteBits * i]
      /\ DigitsOf(c, Number(TwoTo[ByteBits], c, w), ByteBits, w)
  BY <1>1, <1>3, ProperParts
<1> QED BY <1>1, <1>2, <1>4, BaseIs DEF Number

LEMMA ValueOfDigits ==
  ASSUME NEW w \in Nat, NEW v \in Nat, v < TwoTo[ByteBits * w],
         NEW c, DOMAIN c = 0 .. w - 1, c = [i \in DOMAIN c |-> c[i]],
         DigitsOf(c, v, ByteBits, w)
  PROVE  c \in Bytes(w) /\ Value(c) = v
<1>1. Proper(c, TwoTo[ByteBits], w) /\ Number(TwoTo[ByteBits], c, w) = v
  BY BaseIs, DigitsStandFor
<1>2. c \in Bytes(w) BY <1>1, BaseIs DEF Proper, Bytes, ByteValues
<1> QED BY <1>1, <1>2, ImmediateIs, BaseIs

LEMMA ImmIs ==
  ASSUME NEW w \in Nat, NEW v \in Nat, v < TwoTo[ByteBits * w]
  PROVE  Imm(w * ByteBits, v) \in Bytes(w) /\ Value(Imm(w * ByteBits, v)) = v
<1>1. (w * ByteBits) \div ByteBits = w
  <2>1. ByteBits \in Nat \ {0} BY BaseIs
  <2>2. (ByteBits * w + 0) \div ByteBits = w BY <2>1, PartsOf
  <2>3. w * ByteBits = ByteBits * w + 0 BY <2>1
  <2> QED BY <2>2, <2>3
<1> DEFINE c == Imm(w * ByteBits, v)
<1>2. c = [i \in 0 .. w - 1 |-> (v \div TwoTo[ByteBits * i]) % Base] BY <1>1 DEF Imm
<1> HIDE DEF c
<1>3. DOMAIN c = 0 .. w - 1 /\ c = [i \in DOMAIN c |-> c[i]] BY <1>2
<1>4. DigitsOf(c, v, ByteBits, w) BY <1>2, BaseIs DEF DigitsOf
<1> QED BY <1>3, <1>4, ValueOfDigits DEF c

LEMMA EqualIs ==
  ASSUME NEW w \in Nat, NEW c \in Bytes(w), NEW d \in Bytes(w)
  PROVE  c = d <=> Value(c) = Value(d)
<1> SUFFICES ASSUME Value(c) = Value(d) PROVE c = d OBVIOUS
<1>1. DigitsOf(c, Value(c), ByteBits, w) /\ DigitsOf(d, Value(c), ByteBits, w) BY ValueIs
<1>2. \A i \in 0 .. w - 1 : c[i] = d[i] BY <1>1 DEF DigitsOf
<1>3. c = [i \in 0 .. w - 1 |-> c[i]] /\ d = [i \in 0 .. w - 1 |-> d[i]] BY DEF Bytes
<1> QED BY <1>2, <1>3

LEMMA BoolIs ==
  ASSUME NEW w \in Nat, NEW c \in Bytes(w)
  PROVE  Bool(c) <=> Value(c) # 0
<1>1. DOMAIN c = 0 .. w - 1 /\ Digits(c, w) BY ImmediateIs
<1>2. ASSUME ~Bool(c) PROVE Value(c) = 0
  <2> DEFINE f == [i \in 0 .. w |-> 0]
  <2>1. \A i \in 0 .. w - 1 : c[i] = 0 /\ i \in 0 .. w /\ i + 1 \in 0 .. w
    BY <1>1, <1>2 DEF Bool
  <2>2. Base * 0 = 0 BY BaseIs
  <2>3. SumsUp(f, Base, c, w) BY <2>1, <2>2 DEF SumsUp
  <2>4. f[0] = 0 OBVIOUS
  <2> HIDE DEF f
  <2>5. Base \in Int BY BaseIs
  <2> QED BY <1>1, <2>3, <2>4, <2>5, NumberIs, ImmediateIs
<1>3. ASSUME Value(c) = 0, NEW i \in 0 .. w - 1 PROVE c[i] = 0
  <2> DEFINE t == TwoTo[ByteBits * i]
  <2>1. t \in Nat \ {0} /\ Base \in Nat \ {0} BY BaseIs, Units
  <2>2. DigitsOf(c, 0, ByteBits, w) BY <1>3, ValueIs
  <2>3. c[i] = (0 \div t) % Base BY <2>2, BaseIs DEF DigitsOf
  <2> HIDE DEF t
  <2>4. 0 \div t = 0 /\ 0 % Base = 0 BY <2>1
  <2> QED BY <2>3, <2>4
<1> QED BY <1>1, <1>2, <1>3 DEF Bool

\* Two numbers are compared at the most significant byte that differs.
Decides(c, d, w, i) ==
  /\ i \in 0 .. w - 1 /\ c[i] < d[i]
  /\ \A j \in 0 .. w - 1 : j > i => c[j] = d[j]

LEMMA DecidesLess ==
  ASSUME NEW w \in Nat, NEW c \in Bytes(w), NEW d \in Bytes(w), NEW i, Decides(c, d, w, i)
  PROVE  Value(c) < Value(d)
<1> DEFINE s == Suffixes(Base, c, w)
           t == Suffixes(Base, d, w)
<1>1. SumsUp(s, Base, c, w) /\ SumsUp(t, Base, d, w) BY ValueIs
<1>2. s[0] = Value(c) /\ t[0] = Value(d) BY ValueIs
<1>3. \A j \in 0 .. w : s[j] \in Int /\ t[j] \in Int
  <2>1. Base \in Int /\ Digits(c, w) /\ Digits(d, w) BY BaseIs, ImmediateIs
  <2>2. s \in [0 .. w -> Int] /\ t \in [0 .. w -> Int] BY <2>1, SuffixesIs
  <2> HIDE DEF s, t
  <2> QED BY <2>2
<1>4. \A j \in 0 .. w - 1 : c[j] \in 0 .. Base - 1 /\ d[j] \in 0 .. Base - 1
  BY ImmediateIs DEF Proper
<1> HIDE DEF s, t
<1>5. i \in 0 .. w - 1 /\ i + 1 \in 0 .. w BY DEF Decides
<1>6. s[i + 1] = t[i + 1]
  <2> DEFINE S == {j \in 0 .. w : j > i => s[j] = t[j]}
  <2>1. w \in S BY <1>1 DEF SumsUp
  <2>2. ASSUME NEW j \in 0 .. w - 1, j + 1 \in S PROVE j \in S
    <3>1. CASE j > i
      <4>1. s[j + 1] = t[j + 1] BY <2>2, <3>1, <1>5
      <4>2. c[j] = d[j] BY <3>1 DEF Decides
      <4> QED BY <4>1, <4>2, <1>1 DEF SumsUp
    <3>2. CASE ~(j > i) BY <3>2
    <3> QED BY <3>1, <3>2
  <2>3. \A j \in 0 .. w : j \in S
    <3> HIDE DEF S
    <3> QED BY <2>1, <2>2, DownFrom
  <2> QED BY <2>3, <1>5
<1>7. s[i] < t[i]
  <2>1. s[i] = c[i] + Base * s[i + 1] /\ t[i] = d[i] + Base * t[i + 1] BY <1>1, <1>5 DEF SumsUp
  <2> DEFINE u == Base * s[i + 1]
  <2>2. u \in Int BY <1>3, <1>5, BaseIs
  <2>3. s[i] = c[i] + u /\ t[i] = d[i] + u BY <1>6, <2>1
  <2> HIDE DEF u
  <2> QED BY <1>4, <1>5, <2>2, <2>3 DEF Decides
<1>8. ASSUME NEW j \in 0 .. i - 1, s[j + 1] < t[j + 1] PROVE s[j] < t[j]
  <2>1. j \in 0 .. w - 1 /\ j + 1 \in 0 .. w BY <1>5
  <2>2. s[j] = c[j] + Base * s[j + 1] /\ t[j] = d[j] + Base * t[j + 1] BY <1>1, <2>1 DEF SumsUp
  <2>3. PICK g \in Nat : t[j + 1] = s[j + 1] + 1 + g
    <3>1. t[j + 1] - s[j + 1] - 1 \in Nat
          /\ t[j + 1] = s[j + 1] + 1 + (t[j + 1] - s[j + 1] - 1)
      BY <1>3, <1>8, <2>1
    <3> QED BY <3>1
  <2> DEFINE u == Base * s[j + 1]
             v == Base * g
  <2>4. u \in Int /\ v \in Nat BY <1>3, <2>1, BaseIs
  <2>5. s[j] = c[j] + u /\ t[j] = d[j] + u + Base + v
    <3> DEFINE p == s[j + 1]
    <3>1. p \in Int /\ Base \in Int BY <1>3, <2>1, BaseIs
    <3> HIDE DEF p
    <3>2. Base * (p + 1 + g) = Base * p + Base + Base * g BY <3>1
    <3>3. t[j] = d[j] + Base * (p + 1 + g) BY <2>2, <2>3 DEF p
    <3>4. d[j] \in Int BY <1>4, <2>1, BaseIs
    <3> QED BY <2>2, <2>4, <3>1, <3>2, <3>3, <3>4 DEF p
  <2> HIDE DEF u, v
  <2> QED BY <1>4, <2>1, <2>4, <2>5, BaseIs
<1>9. \A j \in 0 .. i : s[j] < t[j]
  <2> DEFINE S == {j \in 0 .. i : s[j] < t[j]}
  <2>1. i \in S BY <1>5, <1>7
  <2>2. \A j \in 0 .. i - 1 : j + 1 \in S => j \in S BY <1>5, <1>8
  <2>3. \A j \in 0 .. i : j \in S
    <3> HIDE DEF S
    <3> QED BY <1>5, <2>1, <2>2, DownFrom
  <2> QED BY <2>3
<1> QED BY <1>2, <1>5, <1>9

LEMMA DecidesOneWay ==
  ASSUME NEW w \in Nat, NEW c \in Bytes(w), NEW d \in Bytes(w), c # d
  PROVE  (\E i : Decides(c, d, w, i)) \/ (\E i : Decides(d, c, w, i))
<1> DEFINE S == {k \in 0 .. w - 1 : c[w - 1 - k] # d[w - 1 - k]}
<1>1. \E i \in 0 .. w - 1 : c[i] # d[i] BY DEF Bytes
<1>2. S # {}
  <2>1. PICK i \in 0 .. w - 1 : c[i] # d[i] BY <1>1
  <2>2. w - 1 - i \in 0 .. w - 1 /\ w - 1 - (w - 1 - i) = i OBVIOUS
  <2> QED BY <2>1, <2>2
<1>3. PICK k \in S : \A j \in S : k <= j
  <2>1. S \in SUBSET Nat OBVIOUS
  <2> HIDE DEF S
  <2> QED BY <1>2, <2>1, Least
<1> DEFINE i == w - 1 - k
<1>4. i \in 0 .. w - 1 /\ c[i] # d[i] BY <1>3
<1>5. \A j \in 0 .. w - 1 : j > i => c[j] = d[j]
  <2> TAKE j \in 0 .. w - 1
  <2> SUFFICES ASSUME j > i, c[j] # d[j] PROVE FALSE OBVIOUS
  <2>1. w - 1 - j \in 0 .. w - 1 /\ w - 1 - (w - 1 - j) = j /\ ~(k <= w - 1 - j) BY <1>3
  <2> QED BY <1>3, <2>1
<1>6. c[i] \in Nat /\ d[i] \in Nat BY <1>4, ImmediateIs, BaseIs DEF Proper
<1> HIDE DEF i
<1>7. c[i] < d[i] \/ d[i] < c[i] BY <1>4, <1>6
<1> QED BY <1>4, <1>5, <1>7 DEF Decides

LEMMA LessIs ==
  ASSUME NEW w \in Nat, NEW c \in Bytes(w), NEW d \in Bytes(w)
  PROVE  /\ Less(c, d) <=> Value(c) < Value(d)
         /\ LessOrEqual(c, d) <=> Value(c) <= Value(d)
<1>1. DOMAIN c = 0 .. w - 1 /\ DOMAIN d = 0 .. w - 1 BY ImmediateIs
<1>2. Less(c, d) <=> \E i : Decides(c, d, w, i) BY <1>1 DEF Less, Decides
<1>3. Value(c) \in Nat /\ Value(d) \in Nat BY ValueIs
<1>4. Less(c, d) <=> Value(c) < Value(d)
  <2>1. ASSUME Value(c) < Value(d) PROVE \E i : Decides(c, d, w, i)
    <3>1. c # d BY <1>3, <2>1
    <3>2. ~\E i : Decides(d, c, w, i)
      <4>1. (\E i : Decides(d, c, w, i)) => Value(d) < Value(c) BY DecidesLess
      <4> QED BY <1>3, <2>1, <4>1
    <3> QED BY <3>1, <3>2, DecidesOneWay
  <2>2. (\E i : Decides(c, d, w, i)) => Value(c) < Value(d) BY DecidesLess
  <2> QED BY <1>2, <2>1, <2>2
<1>5. (\A i \in DOMAIN c : c[i] = d[i]) <=> c = d BY <1>1 DEF Bytes
<1>6. c = d <=> Value(c) = Value(d) BY EqualIs
<1> QED BY <1>3, <1>4, <1>5, <1>6 DEF LessOrEqual

\* The conversion to uint64_t keeps the bytes of a word.
LEMMA WordIs ==
  ASSUME NEW w \in Nat, NEW c \in Bytes(w)
  PROVE  /\ w <= WordBytes => Word(c) = Value(c)
         /\ w > WordBytes => Word(c) = Value(c) % TwoTo[ByteBits * WordBytes]
         /\ Word(c) \in Nat
<1>1. DOMAIN c = 0 .. w - 1 /\ Digits(c, w) BY ImmediateIs
<1>2. WordBytes \in Nat /\ ByteBits \in Nat BY BaseIs
<1>3. CASE w <= WordBytes
  <2>1. (DOMAIN c \cap 0 .. WordBytes - 1) = DOMAIN c BY <1>1, <1>2, <1>3
  <2>2. [i \in DOMAIN c |-> c[i]] = c BY DEF Bytes
  <2>3. Word(c) = Value(c) BY <2>1, <2>2 DEF Word
  <2> QED BY <1>2, <1>3, <2>3, ValueIs
<1>4. CASE w > WordBytes
  <2> DEFINE k == WordBytes
             d == [i \in 0 .. k - 1 |-> c[i]]
             v == Value(c)
             rest == Suffixes(Base, c, w)[k]
  <2>1. (DOMAIN c \cap 0 .. k - 1) = 0 .. k - 1 BY <1>1, <1>2, <1>4
  <2>2. Word(c) = Value(d) BY <2>1 DEF Word
  <2>3. d \in Bytes(k) BY <1>2, <1>4 DEF Bytes
  <2>4. Value(d) \in Nat /\ Value(d) < TwoTo[ByteBits * k] /\ Value(d) = Number(Base, d, k)
    BY <1>2, <2>3, ValueIs, ImmediateIs
  <2>5. Suffixes(Base, c, w)[0] = Number(Base, d, k) + TwoTo[ByteBits * k] * rest
    <3> HIDE DEF d, rest, k
    <3>1. Piece(d, c, 0, k) BY <1>2 DEF d, k, Piece
    <3>2. Suffixes(TwoTo[ByteBits], c, w)[0]
          = Number(TwoTo[ByteBits], d, k)
            + TwoTo[ByteBits * k] * Suffixes(TwoTo[ByteBits], c, w)[0 + k]
      <4>1. k \in Nat /\ 0 \in Nat /\ 0 + k <= w BY <1>2, <1>4 DEF k
      <4> QED BY <1>1, <1>2, <3>1, <4>1, Cut
    <3>3. 0 + k = k BY <1>2 DEF k
    <3> QED BY <3>2, <3>3, BaseIs DEF rest
  <2>6. rest \in Nat
    <3>1. k \in 0 .. w BY <1>2, <1>4
    <3>2. rest = v \div TwoTo[ByteBits * k] BY <3>1, ValueIs
    <3>3. TwoTo[ByteBits * k] \in Nat \ {0} /\ v \in Nat BY <1>2, Units, ValueIs
    <3> HIDE DEF rest, v
    <3> QED BY <3>2, <3>3
  <2> DEFINE t == TwoTo[ByteBits * k]
             u == Value(d)
  <2>7. t \in Nat \ {0} BY <1>2, Units
  <2>8. v = t * rest + u
    <3>1. v = u + t * rest BY <2>4, <2>5, ValueIs
    <3>2. t * rest \in Int /\ u \in Int BY <2>4, <2>6, <2>7
    <3> HIDE DEF t, u, v, rest
    <3> QED BY <3>1, <3>2
  <2>9. u \in 0 .. t - 1 BY <2>4, <2>7
  <2> HIDE DEF t, u, v, rest
  <2>10. v % t = u BY <2>6, <2>7, <2>8, <2>9, PartsOf
  <2>11. Word(c) = u /\ u \in Nat BY <2>2, <2>4 DEF u
  <2> QED BY <1>2, <1>4, <2>10, <2>11 DEF t, v
<1>5. w \in Int /\ WordBytes \in Int BY <1>2
<1> QED BY <1>3, <1>4, <1>5

-----------------------------------------------------------------------------
(* Calls.                                                                   *)

\* The operands of a call are Immediates of one width, whose values pair holds.
Called ==
  /\ op \in Operations
  /\ width(a) \in Nat /\ width(a) > 0
  /\ a \in Bytes(width(a)) /\ b \in Bytes(width(a)) /\ size(a) < Base * Base
  /\ pair = <<Value(a), Value(b)>>

\* A long division that has not returned is in its loop or past it.
Dividing ==
  /\ Long(op, <<a, b>>) => DivisionIInv
  /\ ~Long(op, <<a, b>>) => done

CallIInv == Called /\ Dividing

LEMMA CallBegins == Init => CallIInv
<1> SUFFICES ASSUME Init PROVE CallIInv OBVIOUS
<1>1. PICK p \in Inputs :
        /\ a = p[1] /\ b = p[2] /\ pair = <<Value(p[1]), Value(p[2])>>
        /\ IF Long(op, p) THEN Normalise(pair) /\ dividend = lhs /\ done = FALSE
           ELSE divisor = 0 /\ bit = 0 /\ dividend = 0 /\ done = TRUE
  BY DEF Init
<1>2. /\ width(p[1]) \in Nat \ {0} /\ p \in Bytes(width(p[1])) \X Bytes(width(p[1]))
      /\ size(p[1]) < Base * Base
  BY <1>1, InputsAssumption
<1>3. p = <<a, b>> BY <1>1, <1>2
<1>4. /\ a \in Bytes(width(a)) /\ b \in Bytes(width(a)) /\ width(a) > 0
      /\ size(a) < Base * Base
  BY <1>2, <1>3
<1>5. width(a) \in Nat BY <1>2, <1>3
<1>6. Called BY <1>1, <1>3, <1>4, <1>5 DEF Called, Init
<1>7. ASSUME Long(op, <<a, b>>) PROVE DivisionIInv
  <2>1. Normalise(pair) /\ dividend = lhs /\ done = FALSE /\ quotient = 0
    BY <1>1, <1>3, <1>7 DEF Init
  <2>2. lhs = Value(a) /\ rhs = Value(b) BY <1>6 DEF Called, lhs, rhs
  <2>3. Bool(b) /\ Less(b, a) BY <1>7 DEF Long
  <2>4. Value(a) \in Nat /\ Value(b) \in Nat BY <1>4, <1>5, ValueIs
  <2>5. Value(b) # 0 /\ Value(b) < Value(a) BY <1>4, <1>5, <2>3, BoolIs, LessIs
  <2>6. pair \in Nat \X Nat /\ 0 < rhs /\ rhs < lhs BY <1>6, <2>2, <2>4, <2>5 DEF Called
  <2> QED BY <2>1, <2>6, Normalised
<1>8. ~Long(op, <<a, b>>) => done BY <1>1, <1>3
<1> QED BY <1>6, <1>7, <1>8 DEF CallIInv, Dividing

Returns ==
  \/ Add \/ Sub \/ Mul \/ Conjunction \/ Disjunction \/ Exclusion
  \/ Lshl \/ Lshr \/ Ashr \/ Sex \/ CompareLess \/ CompareLessOrEqual
  \/ Div \/ Mod

\* What returns leaves all but the result alone.
LEMMA ReturnLeaves ==
  ASSUME Returns
  PROVE  UNCHANGED <<op, a, b, dvars>> /\ result = Pending /\ done
BY DEF Returns, Add, Sub, Mul, Conjunction, Disjunction, Exclusion, Lshl, Lshr, Ashr, Sex,
       CompareLess, CompareLessOrEqual, Div, Mod, Return

LEMMA CallStutters ==
  ASSUME CallIInv, UNCHANGED <<op, a, b, dvars>>
  PROVE  CallIInv'
<1>1. DivisionIInv => DivisionIInv'
  <2>1. UNCHANGED dvars OBVIOUS
  <2> QED BY <2>1, DivisionStutters
<1>2. op' = op /\ a' = a /\ b' = b /\ pair' = pair /\ done' = done BY DEF dvars
<1>3. Called' BY <1>2 DEF CallIInv, Called
<1>4. Dividing' BY <1>1, <1>2 DEF CallIInv, Dividing
<1> QED BY <1>3, <1>4 DEF CallIInv

LEMMA CallContinues == CallIInv /\ [Next]_vars => CallIInv'
<1> SUFFICES ASSUME CallIInv, [Next]_vars PROVE CallIInv' OBVIOUS
<1>1. CASE Returns BY <1>1, ReturnLeaves, CallStutters
<1>2. CASE UNCHANGED vars
  <2>1. UNCHANGED <<op, a, b, dvars>> BY <1>2 DEF vars
  <2> QED BY <2>1, CallStutters
<1>3. CASE Divide
  <2>1. Iterate /\ op' = op /\ a' = a /\ b' = b BY <1>3 DEF Divide
  <2>2. ~done /\ pair' = pair BY <2>1 DEF Iterate
  <2>3. Long(op, <<a, b>>) BY <2>2 DEF CallIInv, Dividing
  <2>4. DivisionIInv' BY <2>1, <2>3, IterateKeeps DEF CallIInv, Dividing
  <2>5. Called' BY <2>1, <2>2 DEF CallIInv, Called
  <2>6. Dividing' BY <2>1, <2>3, <2>4 DEF Dividing
  <2> QED BY <2>5, <2>6 DEF CallIInv
<1> QED BY <1>1, <1>2, <1>3 DEF Next, Returns

THEOREM CallInvariant == Spec => []CallIInv
BY CallBegins, CallContinues, PTL DEF Spec

\* The loop of every long division that a call of operator/ or operator% starts.
THEOREM LoopStaysExact == Spec => []LoopExact
<1>1. CallIInv => LoopExact BY DEF CallIInv, Dividing, DivisionIInv, LoopExact
<1> QED BY <1>1, CallInvariant, PTL

-----------------------------------------------------------------------------
(* Quotients and remainders of calls.                                       *)

Quotient(v, u) == IF u = 0 THEN 0 ELSE v \div u
Remainder(v, u) == IF u = 0 THEN 0 ELSE v % u

LEMMA QuotientFits ==
  ASSUME NEW v \in Nat, NEW u \in Nat \ {0}
  PROVE  v \div u \in Nat /\ v \div u <= v /\ v % u \in Nat /\ v % u <= v /\ v % u < u
<1> DEFINE q == v \div u
           g == v % u
<1>1. q \in Int /\ g \in 0 .. u - 1 /\ v = u * q + g BY Parts
<1>2. q \in Nat OBVIOUS
<1> HIDE DEF q, g
<1>3. u * q \in Nat /\ q <= u * q BY <1>2
<1> DEFINE p == u * q
<1>4. p \in Nat /\ q <= p /\ v = p + g BY <1>1, <1>3
<1> HIDE DEF p
<1>5. q <= v /\ g <= v /\ g < u /\ g \in Nat BY <1>1, <1>2, <1>4
<1> QED BY <1>2, <1>5 DEF q, g

\* What the loop has left when it ends.
LEMMA LongIs ==
  ASSUME DivisionIInv, done
  PROVE  /\ quotient \in Nat /\ dividend \in Nat /\ quotient <= lhs /\ dividend <= lhs
         /\ lhs \in Nat /\ rhs \in Nat \ {0}
         /\ quotient = IF lhs = Shifted(lhs, rhs) THEN (lhs \div rhs) - 1 ELSE lhs \div rhs
         /\ dividend = IF lhs = Shifted(lhs, rhs) THEN rhs ELSE lhs % rhs
<1>1. /\ quotient \in Nat /\ dividend \in Nat /\ lhs \in Nat /\ rhs \in Nat \ {0}
      /\ lhs = quotient * rhs + dividend /\ dividend <= rhs /\ rhs < lhs
      /\ (dividend = rhs <=> lhs = Shifted(lhs, rhs))
  BY DEF DivisionIInv, LoopInvariant, lhs, rhs
<1> DEFINE p == quotient * rhs
<1>2. p \in Nat /\ quotient <= p BY <1>1
<1>3. quotient <= lhs /\ dividend <= lhs
  <2> HIDE DEF p
  <2>1. lhs = p + dividend BY <1>1 DEF p
  <2> QED BY <1>1, <1>2, <2>1
<1>4. CASE dividend = rhs
  <2>1. rhs * (quotient + 1) + 0 = lhs BY <1>1, <1>4
  <2>2. lhs \div rhs = quotient + 1 /\ lhs % rhs = 0
    <3>1. quotient + 1 \in Int /\ 0 \in 0 .. rhs - 1 BY <1>1
    <3>2. (rhs * (quotient + 1) + 0) \div rhs = quotient + 1 BY <1>1, <3>1, PartsOf
    <3>3. (rhs * (quotient + 1) + 0) % rhs = 0 BY <1>1, <3>1, PartsOf
    <3> QED BY <2>1, <3>2, <3>3
  <2> QED BY <1>1, <1>3, <1>4, <2>2
<1>5. CASE dividend # rhs
  <2>1. rhs * quotient + dividend = lhs /\ dividend \in 0 .. rhs - 1 BY <1>1, <1>5
  <2>2. (rhs * quotient + dividend) \div rhs = quotient
        /\ (rhs * quotient + dividend) % rhs = dividend
    BY <1>1, <2>1, PartsOf
  <2> QED BY <1>1, <1>3, <1>5, <2>1, <2>2
<1> QED BY <1>4, <1>5

\* Long divisions are those of a wide dividend by a smaller divisor that is not zero.
LEMMA LongWhen ==
  ASSUME Called, op \in {"Div", "Mod"}
  PROVE  /\ x = Value(a) /\ y = Value(b) /\ x \in Nat /\ y \in Nat
         /\ x < TwoTo[ByteBits * width(a)] /\ y < TwoTo[ByteBits * width(a)]
         /\ Bool(b) <=> y # 0
         /\ a = b <=> x = y
         /\ Long(op, <<a, b>>) <=> y # 0 /\ width(a) \notin DivideBytes /\ y < x
<1>1. width(a) \in Nat /\ a \in Bytes(width(a)) /\ b \in Bytes(width(a)) BY DEF Called
<1>2. x = Value(a) /\ y = Value(b) BY DEF Called, x, y
<1>3. /\ Value(a) \in Nat /\ Value(a) < TwoTo[ByteBits * width(a)]
      /\ Value(b) \in Nat /\ Value(b) < TwoTo[ByteBits * width(a)]
  BY <1>1, ValueIs
<1>4. (Bool(b) <=> Value(b) # 0) /\ (a = b <=> Value(a) = Value(b))
  BY <1>1, BoolIs, EqualIs
<1>5. Less(b, a) <=> Value(b) < Value(a) BY <1>1, LessIs
<1>6. Long(op, <<a, b>>) <=> Bool(b) /\ width(a) \notin DivideBytes /\ Less(b, a)
  BY DEF Long
<1> QED BY <1>2, <1>3, <1>4, <1>5, <1>6

\* Operands that are words are divided as words.
LEMMA WordsDivided ==
  ASSUME Called, width(a) \in DivideBytes
  PROVE  Word(a) = Value(a) /\ Word(b) = Value(b)
<1>1. width(a) \in Nat /\ a \in Bytes(width(a)) /\ b \in Bytes(width(a)) BY DEF Called
<1>2. width(a) <= WordBytes
  <2>1. width(a) \in 1 .. WordBytes BY ImmediateAssumption
  <2>2. WordBytes \in Int BY BaseIs
  <2> QED BY <2>1, <2>2
<1> QED BY <1>1, <1>2, WordIs

Multiple == Long(op, <<a, b>>) /\ x = Shifted(x, y)

LEMMA LongLeaves ==
  ASSUME CallIInv, op \in {"Div", "Mod"}, done, Long(op, <<a, b>>)
  PROVE  /\ quotient \in Nat /\ quotient <= x /\ dividend \in Nat /\ dividend <= x
         /\ quotient = IF Multiple THEN Quotient(x, y) - 1 ELSE Quotient(x, y)
         /\ dividend = IF Multiple THEN y ELSE Remainder(x, y)
<1>1. DivisionIInv BY DEF CallIInv, Dividing
<1>2. lhs = x /\ rhs = y BY DEF lhs, rhs, x, y
<1>3. y # 0 BY LongWhen DEF CallIInv
<1> QED BY <1>1, <1>2, <1>3, LongIs DEF Multiple, Quotient, Remainder

LEMMA QuotientReturned ==
  ASSUME CallIInv, op = "Div", done
  PROVE  Value(IF Long(op, <<a, b>>)             THEN Imm(n, quotient)
               ELSE IF ~Bool(b)                  THEN Imm(n, 0)
               ELSE IF a = b                     THEN Imm(n, 1)
               ELSE IF width(a) \in DivideBytes  THEN Imm(n, Word(a) \div Word(b))
               ELSE Imm(n, 0))
         = IF Multiple THEN Quotient(x, y) - 1 ELSE Quotient(x, y)
<1> DEFINE w == width(a)
           q == Quotient(x, y)
<1>1. /\ w \in Nat /\ n = w * ByteBits
      /\ x = Value(a) /\ y = Value(b) /\ x \in Nat /\ y \in Nat
      /\ x < TwoTo[ByteBits * w]
      /\ (Bool(b) <=> y # 0) /\ (a = b <=> x = y)
      /\ Long(op, <<a, b>>) <=> y # 0 /\ w \notin DivideBytes /\ y < x
  BY LongWhen DEF CallIInv, Called, n, size
<1>2. ASSUME NEW v \in Nat, v <= x PROVE Value(Imm(n, v)) = v
  <2>1. TwoTo[ByteBits * w] \in Nat BY <1>1, BaseIs, Units
  <2>2. v < TwoTo[ByteBits * w] BY <1>1, <1>2, <2>1
  <2> QED BY <1>1, <2>2, ImmIs
<1>3. CASE Long(op, <<a, b>>)
  <2>1. quotient \in Nat /\ quotient <= x
        /\ quotient = IF Multiple THEN q - 1 ELSE q
    BY <1>3, LongLeaves
  <2>2. Value(Imm(n, quotient)) = quotient BY <1>2, <2>1
  <2> QED BY <1>3, <2>1, <2>2
<1>4. CASE ~Long(op, <<a, b>>) /\ ~Bool(b)
  <2>1. Value(Imm(n, 0)) = 0 BY <1>1, <1>2
  <2> QED BY <1>1, <1>4, <2>1 DEF Multiple, Quotient
<1>5. CASE ~Long(op, <<a, b>>) /\ Bool(b) /\ a = b
  <2>1. x = y /\ y # 0 BY <1>1, <1>5
  <2>2. q = 1
    <3>1. y \in Nat \ {0} /\ 1 \in Int /\ 0 \in 0 .. y - 1 /\ y * 1 + 0 = x BY <1>1, <2>1
    <3>2. (y * 1 + 0) \div y = 1 BY <3>1, PartsOf
    <3> QED BY <2>1, <3>1, <3>2 DEF Quotient
  <2>3. Value(Imm(n, 1)) = 1 BY <1>1, <1>2, <2>1
  <2>5. ~Multiple BY <1>5 DEF Multiple
  <2> QED BY <1>5, <2>2, <2>3, <2>5
<1>6. CASE ~Long(op, <<a, b>>) /\ Bool(b) /\ a # b /\ w \in DivideBytes
  <2>1. Word(a) = x /\ Word(b) = y BY <1>1, <1>6, WordsDivided DEF CallIInv
  <2>2. q = x \div y BY <1>1, <1>6 DEF Quotient
  <2>3. x \div y \in Nat /\ x \div y <= x BY <1>1, <1>6, QuotientFits
  <2>4. Value(Imm(n, x \div y)) = x \div y BY <1>2, <2>3
  <2>5. ~Multiple BY <1>6 DEF Multiple
  <2> QED BY <1>6, <2>1, <2>2, <2>4, <2>5
<1>7. CASE ~Long(op, <<a, b>>) /\ Bool(b) /\ a # b /\ w \notin DivideBytes
  <2>1. x < y /\ y # 0 BY <1>1, <1>7
  <2>2. q = 0
    <3>1. y \in Nat \ {0} /\ 0 \in Int /\ x \in 0 .. y - 1 /\ y * 0 + x = x BY <1>1, <2>1
    <3>2. (y * 0 + x) \div y = 0 BY <3>1, PartsOf
    <3> QED BY <3>1, <3>2 DEF Quotient
  <2>3. Value(Imm(n, 0)) = 0 BY <1>1, <1>2
  <2>5. ~Multiple BY <1>7 DEF Multiple
  <2> QED BY <1>7, <2>2, <2>3, <2>5
<1> QED BY <1>3, <1>4, <1>5, <1>6, <1>7

LEMMA RemainderReturned ==
  ASSUME CallIInv, op = "Mod", done
  PROVE  Value(IF Long(op, <<a, b>>)             THEN Imm(n + ByteBits, dividend)
               ELSE IF ~Bool(b) \/ a = b         THEN Imm(n, 0)
               ELSE IF width(a) \in DivideBytes  THEN Imm(n, Word(a) % Word(b))
               ELSE a)
         = IF Multiple THEN y ELSE Remainder(x, y)
<1> DEFINE w == width(a)
           g == Remainder(x, y)
<1>1. /\ w \in Nat /\ n = w * ByteBits
      /\ x = Value(a) /\ y = Value(b) /\ x \in Nat /\ y \in Nat
      /\ x < TwoTo[ByteBits * w]
      /\ (Bool(b) <=> y # 0) /\ (a = b <=> x = y)
      /\ Long(op, <<a, b>>) <=> y # 0 /\ w \notin DivideBytes /\ y < x
  BY LongWhen DEF CallIInv, Called, n, size
<1>2. ASSUME NEW v \in Nat, v <= x
      PROVE  Value(Imm(n, v)) = v /\ Value(Imm(n + ByteBits, v)) = v
  <2>1. /\ TwoTo[ByteBits * w] \in Nat /\ TwoTo[ByteBits * (w + 1)] \in Nat
        /\ TwoTo[ByteBits * w] <= TwoTo[ByteBits * (w + 1)]
    <3>1. ByteBits \in Nat /\ ByteBits * w \in Nat /\ ByteBits * (w + 1) \in Nat
      BY <1>1, BaseIs, Units
    <3>2. ByteBits * (w + 1) = ByteBits * w + ByteBits BY <1>1, <3>1
    <3>3. ByteBits * w <= ByteBits * (w + 1) BY <3>1, <3>2
    <3> QED BY <3>1, <3>3, TwoToRises, TwoToNat
  <2>2. v < TwoTo[ByteBits * w] /\ v < TwoTo[ByteBits * (w + 1)] BY <1>1, <1>2, <2>1
  <2>3. Value(Imm(w * ByteBits, v)) = v BY <1>1, <2>2, ImmIs
  <2>4. Value(Imm((w + 1) * ByteBits, v)) = v
    <3>1. w + 1 \in Nat BY <1>1
    <3> QED BY <2>2, <3>1, ImmIs
  <2>5. (w + 1) * ByteBits = w * ByteBits + ByteBits BY <1>1, BaseIs
  <2> QED BY <1>1, <2>3, <2>4, <2>5
<1>3. CASE Long(op, <<a, b>>)
  <2>1. dividend \in Nat /\ dividend <= x
        /\ dividend = IF Multiple THEN y ELSE g
    BY <1>3, LongLeaves
  <2>2. Value(Imm(n + ByteBits, dividend)) = dividend BY <1>2, <2>1
  <2> QED BY <1>3, <2>1, <2>2
<1>4. CASE ~Long(op, <<a, b>>) /\ ~Bool(b)
  <2>1. Value(Imm(n, 0)) = 0 BY <1>1, <1>2
  <2> QED BY <1>1, <1>4, <2>1 DEF Multiple, Remainder
<1>5. CASE ~Long(op, <<a, b>>) /\ Bool(b) /\ a = b
  <2>1. x = y /\ y # 0 BY <1>1, <1>5
  <2>2. g = 0
    <3>1. y \in Nat \ {0} /\ 1 \in Int /\ 0 \in 0 .. y - 1 /\ y * 1 + 0 = x BY <1>1, <2>1
    <3>2. (y * 1 + 0) % y = 0 BY <3>1, PartsOf
    <3> QED BY <2>1, <3>1, <3>2 DEF Remainder
  <2>3. Value(Imm(n, 0)) = 0 BY <1>1, <1>2
  <2>5. ~Multiple BY <1>5 DEF Multiple
  <2> QED BY <1>5, <2>2, <2>3, <2>5
<1>6. CASE ~Long(op, <<a, b>>) /\ Bool(b) /\ a # b /\ w \in DivideBytes
  <2>1. Word(a) = x /\ Word(b) = y BY <1>1, <1>6, WordsDivided DEF CallIInv
  <2>2. g = x % y BY <1>1, <1>6 DEF Remainder
  <2>3. x % y \in Nat /\ x % y <= x BY <1>1, <1>6, QuotientFits
  <2>4. Value(Imm(n, x % y)) = x % y BY <1>2, <2>3
  <2>5. ~Multiple BY <1>6 DEF Multiple
  <2> QED BY <1>6, <2>1, <2>2, <2>4, <2>5
<1>7. CASE ~Long(op, <<a, b>>) /\ Bool(b) /\ a # b /\ w \notin DivideBytes
  <2>1. x < y /\ y # 0 BY <1>1, <1>7
  <2>2. g = x
    <3>1. y \in Nat \ {0} /\ 0 \in Int /\ x \in 0 .. y - 1 /\ y * 0 + x = x BY <1>1, <2>1
    <3>2. (y * 0 + x) % y = x BY <3>1, PartsOf
    <3> QED BY <3>1, <3>2 DEF Remainder
  <2>5. ~Multiple BY <1>7 DEF Multiple
  <2> QED BY <1>1, <1>7, <2>2, <2>5
<1> QED BY <1>3, <1>4, <1>5, <1>6, <1>7

LEMMA DividedContinues == CallIInv /\ Divided /\ [Next]_vars => Divided'
<1> SUFFICES ASSUME CallIInv, Divided, [Next]_vars PROVE Divided' OBVIOUS
<1>1. CASE Div
  <2>1. op = "Div" /\ done /\ UNCHANGED <<op, a, b, dvars>> BY <1>1 DEF Div, Return
  <2>2. x' = x /\ y' = y /\ op' = op /\ a' = a /\ b' = b BY <2>1 DEF dvars, x, y
  <2>3. Value(result') = IF Multiple THEN Quotient(x, y) - 1 ELSE Quotient(x, y)
    BY <1>1, <2>1, QuotientReturned DEF Div, Return
  <2> QED BY <2>1, <2>2, <2>3 DEF Divided, Multiple, Shifted, Quotient
<1>2. CASE Mod
  <2>1. op = "Mod" /\ done /\ UNCHANGED <<op, a, b, dvars>> BY <1>2 DEF Mod, Return
  <2>2. x' = x /\ y' = y /\ op' = op /\ a' = a /\ b' = b BY <2>1 DEF dvars, x, y
  <2>3. Value(result') = IF Multiple THEN y ELSE Remainder(x, y)
    BY <1>2, <2>1, RemainderReturned DEF Mod, Return
  <2> QED BY <2>1, <2>2, <2>3 DEF Divided, Multiple, Shifted, Remainder
<1>3. CASE Returns /\ ~Div /\ ~Mod
  <2>1. op \notin {"Div", "Mod"} /\ op' = op
    BY <1>3 DEF Returns, Add, Sub, Mul, Conjunction, Disjunction, Exclusion, Lshl, Lshr,
                Ashr, Sex, CompareLess, CompareLessOrEqual, Return
  <2> QED BY <2>1 DEF Divided
<1>4. CASE Divide \/ UNCHANGED vars
  <2>1. result' = result /\ pair' = pair /\ op' = op /\ a' = a /\ b' = b
    BY <1>4 DEF Divide, Iterate, vars, dvars
  <2> QED BY <2>1 DEF Divided, x, y
<1> QED BY <1>1, <1>2, <1>3, <1>4 DEF Next, Returns

\* operator/ and operator% return quotient and remainder, but for the long division of
\* a multiple by a power of two, for operands of every width.
THEOREM QuotientsDivided == Spec => []Divided
<1>1. Init => Divided BY DEF Init, Divided
<1> QED BY <1>1, DividedContinues, CallInvariant, PTL DEF Spec

-----------------------------------------------------------------------------
(* Sums and differences.                                                    *)

\* A column of integers is carried over from byte to byte.
Carried(tmp, column, m) ==
  /\ tmp \in [0 .. m -> Int] /\ tmp[0] = 0
  /\ \A i \in 0 .. m - 1 : tmp[i + 1] = (tmp[i] + column[i]) \div Base

LEMMA CarriesIs ==
  ASSUME NEW m \in Nat, NEW column, Digits(column, m)
  PROVE  Carried(Carries(column, m), column, m)
<1> DEFINE Digit(i) == IF i \in 0 .. m - 1 THEN column[i] ELSE 0
           X == Int
           G == [p \in Nat \X X |-> (p[2] + Digit(p[1])) \div Base]
<1>1. Base \in Nat \ {0} BY BaseIs
<1>2. \A i : Digit(i) \in Int BY DEF Digits
<1>3. \A i \in 0 .. m - 1 : Digit(i) = column[i] OBVIOUS
<1> HIDE DEF Digit
<1>4. \A k \in Nat, v \in Int :
        G[<<k, v>>] = (v + Digit(k)) \div Base /\ (v + Digit(k)) \div Base \in Int
  <2> TAKE k \in Nat, v \in Int
  <2>1. v + Digit(k) \in Int BY <1>2
  <2>2. (v + Digit(k)) \div Base \in Int BY <1>1, <2>1, Parts
  <2> QED BY <2>2
<1>5. G \in [Nat \X X -> X]
  <2>1. \A p \in Nat \X X : (p[2] + Digit(p[1])) \div Base \in X
    <3> TAKE p \in Nat \X X
    <3>1. p[2] + Digit(p[1]) \in Int BY <1>2
    <3> QED BY <1>1, <3>1, Parts
  <2> QED BY <2>1
<1> HIDE DEF G, X
<1>6. 0 \in X BY DEF X
<1>7. PICK f \in [0 .. m -> X] : f[0] = 0 /\ Follows(f, G, 0 .. m - 1)
  BY <1>5, <1>6, RecursionUpTo
<1>8. f \in [0 .. m -> Int] BY <1>7 DEF X
<1>9. \A i \in 0 .. m - 1 : f[i + 1] = (f[i] + column[i]) \div Base
  <2> TAKE i \in 0 .. m - 1
  <2>1. f[i + 1] = G[<<i, f[i]>>] BY <1>7 DEF Follows
  <2> QED BY <1>3, <1>4, <1>8, <2>1
<1>10. f = [i \in 0 .. m |-> IF i = 0 THEN 0 ELSE (f[i - 1] + column[i - 1]) \div Base]
  <2>1. \A i \in 0 .. m : i # 0 => i - 1 \in 0 .. m - 1 /\ (i - 1) + 1 = i OBVIOUS
  <2>2. \A i \in 0 .. m : f[i] = IF i = 0 THEN 0 ELSE (f[i - 1] + column[i - 1]) \div Base
    BY <1>7, <1>9, <2>1
  <2> QED BY <1>8, <2>2
<1> DEFINE t == Carries(column, m)
<1>11. t = [i \in 0 .. m |-> IF i = 0 THEN 0 ELSE (t[i - 1] + column[i - 1]) \div Base]
  BY <1>10 DEF Carries
<1> HIDE DEF t
<1>12. \A i \in 0 .. m : t[i] = IF i = 0 THEN 0 ELSE (t[i - 1] + column[i - 1]) \div Base
  BY <1>11
<1>13. \A i \in 0 .. m : t[i] = f[i]
  <2> DEFINE S == {i \in 0 .. m : t[i] = f[i]}
  <2>1. 0 \in S BY <1>7, <1>12
  <2>2. \A k \in 0 .. m - 1 : k \in S => k + 1 \in S
    <3> TAKE k \in 0 .. m - 1
    <3>1. k + 1 \in 0 .. m /\ (k + 1) - 1 = k /\ k + 1 # 0 OBVIOUS
    <3> QED BY <1>9, <1>12, <3>1
  <2> HIDE DEF S
  <2>3. \A k \in 0 .. m : k \in S BY <2>1, <2>2, UpTo
  <2> QED BY <2>3 DEF S
<1>14. t = f BY <1>8, <1>11, <1>13
<1> QED BY <1>7, <1>8, <1>9, <1>14 DEF Carried, t

\* What stays in the bytes and the last carry make up what the column stands for.
Kept(d, tmp, column, m) == \A i \in 0 .. m - 1 : d[i] = (tmp[i] + column[i]) % Base

LEMMA CarriedIs ==
  ASSUME NEW m \in Nat, NEW column, Digits(column, m),
         NEW tmp, Carried(tmp, column, m), NEW d, Kept(d, tmp, column, m)
  PROVE  /\ Proper(d, Base, m)
         /\ Number(Base, column, m) = Number(Base, d, m) + TwoTo[ByteBits * m] * tmp[m]
         /\ tmp[m] \in Int
<1> DEFINE s == Suffixes(Base, column, m)
           last == tmp[m]
           f == [i \in 0 .. m |-> s[i] + tmp[i] - TwoTo[ByteBits * (m - i)] * last]
<1>1. Base \in Nat \ {0} /\ Base \in Int /\ ByteBits \in Nat BY BaseIs
<1>2. s \in [0 .. m -> Int] /\ SumsUp(s, Base, column, m) BY <1>1, SuffixesIs
<1> HIDE DEF s
<1>3. tmp \in [0 .. m -> Int] /\ last \in Int BY DEF Carried
<1>4. f[m] = 0
  <2>1. m - m = 0 /\ TwoTo[ByteBits * 0] = 1 /\ m \in 0 .. m BY <1>1, TwoToIs
  <2>2. f[m] = s[m] + tmp[m] - TwoTo[ByteBits * (m - m)] * last BY <2>1
  <2>3. s[m] = 0 BY <1>2 DEF SumsUp
  <2>4. 1 * last = last BY <1>3
  <2>5. TwoTo[ByteBits * (m - m)] = 1 BY <2>1
  <2> QED BY <1>3, <2>2, <2>3, <2>4, <2>5
<1>5. ASSUME NEW i \in 0 .. m - 1
      PROVE  d[i] \in 0 .. Base - 1 /\ f[i] = d[i] + Base * f[i + 1]
  <2> DEFINE k == m - (i + 1)
             p == TwoTo[ByteBits * k]
             v == tmp[i] + column[i]
             q == s[i + 1]
             u == tmp[i + 1]
  <2>1. k \in Nat /\ m - i = k + 1 /\ i \in 0 .. m /\ i + 1 \in 0 .. m OBVIOUS
  <2>2. TwoTo[ByteBits * (m - i)] = p * Base /\ p \in Nat \ {0} BY <1>1, <2>1, Units, BaseIs
  <2>3. column[i] \in Int /\ tmp[i] \in Int /\ v \in Int /\ q \in Int /\ u \in Int
    BY <1>2, <1>3, <2>1 DEF Digits
  <2>4. u = v \div Base /\ d[i] = v % Base BY DEF Carried, Kept
  <2>5. v = Base * u + d[i] /\ d[i] \in 0 .. Base - 1 BY <1>1, <2>3, <2>4, Parts
  <2>6. s[i] = column[i] + Base * q BY <1>2 DEF SumsUp
  <2>7. f[i] = s[i] + tmp[i] - (p * Base) * last /\ f[i + 1] = q + u - p * last
    BY <2>1, <2>2
  <2>8. v = tmp[i] + column[i] OBVIOUS
  <2> HIDE DEF f, p, q, u, v, k, last
  <2> DEFINE r == q + u - p * last
  <2>9. Base * r = Base * q + Base * u - (p * Base) * last
    BY <1>1, <1>3, <2>2, <2>3
  <2>10. Base * q \in Int /\ Base * u \in Int /\ (p * Base) * last \in Int
    BY <1>1, <1>3, <2>2, <2>3
  <2>11. f[i] = (column[i] + Base * q) + tmp[i] - (p * Base) * last BY <2>6, <2>7
  <2>12. Base * f[i + 1] = Base * q + Base * u - (p * Base) * last
    <3>1. f[i + 1] = r BY <2>7
    <3> HIDE DEF r
    <3> QED BY <2>9, <3>1
  <2> DEFINE bq == Base * q
             bu == Base * u
             pl == (p * Base) * last
  <2>13. /\ bq \in Int /\ bu \in Int /\ pl \in Int
         /\ f[i] = (column[i] + bq) + tmp[i] - pl
         /\ Base * f[i + 1] = bq + bu - pl /\ v = bu + d[i]
    BY <2>5, <2>10, <2>11, <2>12
  <2> HIDE DEF bq, bu, pl, r
  <2>14. f[i] = d[i] + (bq + bu - pl)
    <3>1. d[i] \in Int BY <1>1, <2>5
    <3>2. column[i] \in Int /\ tmp[i] \in Int BY <2>3
    <3>3. tmp[i] + column[i] = bu + d[i] BY <2>8, <2>13
    <3>4. bq \in Int /\ bu \in Int /\ pl \in Int BY <2>13
    <3>5. (column[i] + bq) + tmp[i] - pl = d[i] + (bq + bu - pl) BY <3>1, <3>2, <3>3, <3>4
    <3> QED BY <2>13, <3>5
  <2> QED BY <2>5, <2>13, <2>14
<1> DEFINE tail == TwoTo[ByteBits * m] * last
<1>6. tail \in Int /\ s[0] \in Int
  <2>1. TwoTo[ByteBits * m] \in Nat BY <1>1, Units
  <2>2. 0 \in 0 .. m OBVIOUS
  <2> QED BY <1>2, <1>3, <2>1, <2>2
<1>11. f[0] = s[0] - tail
  <2>1. 0 \in 0 .. m /\ m - 0 = m /\ tmp[0] = 0 BY DEF Carried
  <2>2. f[0] = s[0] + 0 - tail BY <2>1
  <2> HIDE DEF tail, f
  <2> QED BY <1>6, <2>2
<1> HIDE DEF f
<1>7. Proper(d, Base, m) BY <1>5 DEF Proper
<1>8. SumsUp(f, Base, d, m) BY <1>4, <1>5 DEF SumsUp
<1>9. Digits(d, m) BY <1>1, <1>7, ProperDigits
<1>10. Number(Base, d, m) = f[0] BY <1>1, <1>8, <1>9, NumberIs
<1>12. s[0] = f[0] + tail
  <2> HIDE DEF tail
  <2> QED BY <1>6, <1>11
<1>13. Number(Base, column, m) = s[0] BY DEF Number, s
<1> QED BY <1>3, <1>7, <1>10, <1>12, <1>13 DEF tail

\* The number of a combination of digits is the combination of their numbers.
Combines(e, c, k, d, m) == \A i \in 0 .. m - 1 : e[i] = c[i] + k * d[i]

LEMMA CombinationIs ==
  ASSUME NEW base \in Int, NEW m \in Nat, NEW c, Digits(c, m), NEW d, Digits(d, m),
         NEW k \in Int, NEW e, Combines(e, c, k, d, m)
  PROVE  /\ Digits(e, m)
         /\ \A i \in 0 .. m : Suffixes(base, e, m)[i]
                               = Suffixes(base, c, m)[i] + k * Suffixes(base, d, m)[i]
         /\ Number(base, e, m) = Number(base, c, m) + k * Number(base, d, m)
<1> DEFINE s == Suffixes(base, c, m)
           t == Suffixes(base, d, m)
           f == [i \in 0 .. m |-> s[i] + k * t[i]]
<1>1. s \in [0 .. m -> Int] /\ SumsUp(s, base, c, m) BY SuffixesIs
<1>2. t \in [0 .. m -> Int] /\ SumsUp(t, base, d, m) BY SuffixesIs
<1> HIDE DEF s, t
<1>3. ASSUME NEW i \in 0 .. m - 1 PROVE e[i] \in Int /\ f[i] = e[i] + base * f[i + 1]
  <2> DEFINE p == s[i + 1]
             q == t[i + 1]
             g == c[i]
             h == d[i]
  <2>1. i \in 0 .. m /\ i + 1 \in 0 .. m OBVIOUS
  <2>2. p \in Int /\ q \in Int /\ g \in Int /\ h \in Int BY <1>1, <1>2, <2>1 DEF Digits
  <2>3. s[i] = g + base * p /\ t[i] = h + base * q BY <1>1, <1>2 DEF SumsUp
  <2>4. e[i] = g + k * h BY DEF Combines
  <2>5. f[i] = (g + base * p) + k * (h + base * q) /\ f[i + 1] = p + k * q BY <2>1, <2>3
  <2> HIDE DEF f, p, q, g, h
  <2>6. (g + base * p) + k * (h + base * q) = (g + k * h) + base * (p + k * q) BY <2>2
  <2>7. g + k * h \in Int BY <2>2
  <2> QED BY <2>4, <2>5, <2>6, <2>7
<1>4. f[m] = 0
  <2>1. f[m] = s[m] + k * t[m] /\ s[m] = 0 /\ t[m] = 0 BY <1>1, <1>2 DEF SumsUp
  <2>2. k * 0 = 0 OBVIOUS
  <2> HIDE DEF f
  <2> QED BY <2>1, <2>2
<1>5. \A i \in 0 .. m : f[i] = s[i] + k * t[i] OBVIOUS
<1> HIDE DEF f
<1>6. Digits(e, m) /\ SumsUp(f, base, e, m) BY <1>3, <1>4 DEF Digits, SumsUp
<1>7. /\ \A i \in 0 .. m : Suffixes(base, e, m)[i] = f[i]
      /\ Number(base, e, m) = f[0]
  BY <1>6, NumberIs
<1>8. 0 \in 0 .. m OBVIOUS
<1> QED BY <1>5, <1>6, <1>7, <1>8 DEF Number, s, t

\* Bytes that are all clear or all set.
Filled(d, v, k, m) == \A i \in k .. m - 1 : d[i] = IF v = 1 THEN Base - 1 ELSE 0

LEMMA FilledIs ==
  ASSUME NEW m \in Nat, NEW d, Digits(d, m), NEW k \in 0 .. m, NEW v \in {0, 1},
         Filled(d, v, k, m)
  PROVE  Suffixes(Base, d, m)[k] = IF v = 1 THEN TwoTo[ByteBits * (m - k)] - 1 ELSE 0
<1> DEFINE s == Suffixes(Base, d, m)
           Is(i) == s[i] = IF v = 1 THEN TwoTo[ByteBits * (m - i)] - 1 ELSE 0
           S == {i \in 0 .. m : i >= k => Is(i)}
<1>1. Base \in Nat \ {0} /\ Base \in Int /\ ByteBits \in Nat BY BaseIs
<1>2. s \in [0 .. m -> Int] /\ SumsUp(s, Base, d, m) BY <1>1, SuffixesIs
<1> HIDE DEF s
<1>3. m \in S
  <2>1. m - m = 0 /\ TwoTo[ByteBits * 0] = 1 BY <1>1, TwoToIs
  <2>2. TwoTo[ByteBits * (m - m)] = 1 BY <2>1
  <2>3. s[m] = 0 BY <1>2 DEF SumsUp
  <2>4. Is(m)
    <3>1. TwoTo[ByteBits * (m - m)] - 1 = 0 BY <2>2
    <3> QED BY <2>3, <3>1
  <2> HIDE DEF Is
  <2> QED BY <2>4
<1>4. ASSUME NEW i \in 0 .. m - 1, i + 1 \in S PROVE i \in S
  <2> SUFFICES ASSUME i >= k PROVE Is(i)
    <3> HIDE DEF Is
    <3> QED OBVIOUS
  <2> DEFINE j == m - (i + 1)
             p == TwoTo[ByteBits * j]
  <2>1. j \in Nat /\ m - i = j + 1 /\ i + 1 \in 0 .. m /\ i \in k .. m - 1 OBVIOUS
  <2>2. TwoTo[ByteBits * (m - i)] = p * Base /\ p \in Nat \ {0} BY <1>1, <2>1, Units, BaseIs
  <2>3. Is(i + 1)
    <3> HIDE DEF Is
    <3> QED BY <1>4, <2>1
  <2>4. s[i + 1] = IF v = 1 THEN p - 1 ELSE 0 BY <2>3
  <2>5. d[i] = IF v = 1 THEN Base - 1 ELSE 0 BY <2>1 DEF Filled
  <2>6. s[i] = d[i] + Base * s[i + 1] BY <1>2 DEF SumsUp
  <2> HIDE DEF p, j
  <2>7. CASE v = 1
    <3>1. s[i] = (Base - 1) + Base * (p - 1) BY <2>4, <2>5, <2>6, <2>7
    <3>2. (Base - 1) + Base * (p - 1) = p * Base - 1 BY <1>1, <2>2
    <3> QED BY <2>2, <2>7, <3>1, <3>2
  <2>8. CASE v = 0
    <3>1. s[i] = 0 + Base * 0 BY <2>4, <2>5, <2>6, <2>8
    <3>2. 0 + Base * 0 = 0 BY <1>1
    <3> QED BY <2>8, <3>1, <3>2
  <2> QED BY <2>7, <2>8
<1> HIDE DEF Is
<1>5. \A i \in 0 .. m : i \in S
  <2> HIDE DEF S
  <2> QED BY <1>3, <1>4, DownFrom
<1>6. Is(k) BY <1>5
<1> QED BY <1>6 DEF Is, s

\* An Immediate of the double size, by its halves.
LEMMA HalvesAre ==
  ASSUME NEW m \in Nat, NEW d, Digits(d, 2 * m), NEW c, Piece(c, d, 0, m)
  PROVE  Number(Base, d, 2 * m)
         = Number(Base, c, m) + TwoTo[ByteBits * m] * Suffixes(Base, d, 2 * m)[m]
<1>1. ByteBits \in Nat /\ Base = TwoTo[ByteBits] BY BaseIs
<1>2. 2 * m \in Nat /\ 0 \in Nat /\ 0 + m <= 2 * m /\ 0 + m = m OBVIOUS
<1>3. Suffixes(TwoTo[ByteBits], d, 2 * m)[0]
      = Number(TwoTo[ByteBits], c, m)
        + TwoTo[ByteBits * m] * Suffixes(TwoTo[ByteBits], d, 2 * m)[0 + m]
  BY <1>1, <1>2, Cut
<1> QED BY <1>1, <1>2, <1>3 DEF Number

\* Remainders of what is in range, or below it.
LEMMA WrapsUp ==
  ASSUME NEW t \in Nat \ {0}, NEW r \in 0 .. t - 1
  PROVE  r % t = r /\ (r - t) % t = r
OBVIOUS

\* An Immediate whose upper halved is clear or set stands for the lower halved, or for a
\* negative number.
LEMMA DoubledIs ==
  ASSUME NEW m \in Nat, NEW c, Proper(c, Base, m), NEW v \in {0, 1},
         NEW d, DOMAIN d = 0 .. 2 * m - 1, d = [i \in DOMAIN d |-> d[i]],
         Piece(c, d, 0, m), Filled(d, v, m, 2 * m)
  PROVE  /\ d \in Bytes(2 * m)
         /\ Value(d) = (Number(Base, c, m) - IF v = 1 THEN TwoTo[ByteBits * m] ELSE 0)
                       % (TwoTo[ByteBits * m] * TwoTo[ByteBits * m])
<1> DEFINE P == TwoTo[ByteBits * m]
           N == Number(Base, c, m)
<1>1. /\ Base \in Nat \ {0} /\ Base > 1 /\ Base \in Int /\ ByteBits \in Nat
      /\ Base = TwoTo[ByteBits]
  BY BaseIs
<1>2. \A i \in 0 .. 2 * m - 1 : d[i] \in 0 .. Base - 1
  <2> TAKE i \in 0 .. 2 * m - 1
  <2>1. CASE i < m
    <3>1. i \in 0 .. m - 1 /\ 0 + i = i BY <2>1
    <3> QED BY <3>1 DEF Piece, Proper
  <2>2. CASE i >= m
    <3>1. i \in m .. 2 * m - 1 BY <2>2
    <3>2. d[i] = IF v = 1 THEN Base - 1 ELSE 0 BY <3>1 DEF Filled
    <3> QED BY <1>1, <3>2
  <2> QED BY <2>1, <2>2
<1>3. d \in Bytes(2 * m) BY <1>2 DEF Bytes, ByteValues
<1>4. Digits(d, 2 * m) BY <1>1, <1>2 DEF Digits
<1>5. Value(d) = N + P * Suffixes(Base, d, 2 * m)[m]
  <2>1. Value(d) = Number(Base, d, 2 * m) BY <1>3, ImmediateIs
  <2> QED BY <1>4, <2>1, HalvesAre
<1>6. Suffixes(Base, d, 2 * m)[m] = IF v = 1 THEN P - 1 ELSE 0
  <2>1. m \in 0 .. 2 * m /\ 2 * m - m = m /\ 2 * m \in Nat OBVIOUS
  <2>2. Suffixes(Base, d, 2 * m)[m]
        = IF v = 1 THEN TwoTo[ByteBits * (2 * m - m)] - 1 ELSE 0
    BY <1>4, <2>1, FilledIs
  <2> QED BY <2>1, <2>2
<1>7. N \in Nat /\ N < P /\ P \in Nat \ {0} BY <1>1, ProperParts, Units
<1> HIDE DEF N, P
<1> DEFINE Q == P * P
<1>8. Q \in Nat \ {0} /\ P <= Q BY <1>7
<1>9. CASE v = 1
  <2>1. Value(d) = N + P * (P - 1)
    <3>1. Suffixes(Base, d, 2 * m)[m] = P - 1 BY <1>6, <1>9
    <3> QED BY <1>5, <3>1, Zenon
  <2>2. P * (P - 1) = Q - P BY <1>7
  <2>3. Value(d) = N + (Q - P) BY <2>1, <2>2
  <2> HIDE DEF Q
  <2>4. Value(d) \in 0 .. Q - 1 /\ N - P = Value(d) - Q BY <1>7, <1>8, <2>3
  <2>5. (Value(d) - Q) % Q = Value(d) BY <1>8, <2>4, WrapsUp
  <2> QED BY <1>3, <1>9, <2>4, <2>5 DEF Q, N, P
<1>10. CASE v = 0
  <2>1. Value(d) = N + P * 0
    <3>1. Suffixes(Base, d, 2 * m)[m] = 0 BY <1>6, <1>10
    <3> QED BY <1>5, <3>1, Zenon
  <2>2. Value(d) = N BY <1>7, <2>1
  <2> HIDE DEF Q
  <2>3. Value(d) \in 0 .. Q - 1 /\ N - 0 = Value(d) BY <1>7, <1>8, <2>2
  <2>4. Value(d) % Q = Value(d) BY <1>8, <2>3, WrapsUp
  <2> QED BY <1>3, <1>10, <2>3, <2>4 DEF Q, N, P
<1> QED BY <1>9, <1>10

\* Of sums a carry of 0 or 1 goes on, of differences one of -1 or 0.
Within(column, g, m) ==
  \A i \in 0 .. m - 1 : column[i] \in Int /\ g * (Base - 1) <= column[i]
                        /\ column[i] <= (g + 2) * (Base - 1)

LEMMA CarryIsBit ==
  ASSUME NEW m \in Nat, NEW column, NEW g \in {-1, 0}, Within(column, g, m),
         NEW tmp, Carried(tmp, column, m)
  PROVE  tmp[m] \in {g, g + 1}
<1> DEFINE S == {i \in 0 .. m : tmp[i] \in {g, g + 1}}
<1>1. Base \in Nat \ {0} BY BaseIs
<1>2. 0 \in S BY DEF Carried
<1>3. ASSUME NEW i \in 0 .. m - 1, i \in S PROVE i + 1 \in S
  <2> DEFINE v == tmp[i] + column[i]
             q == v \div Base
             r == v % Base
  <2>1. column[i] \in Int /\ g * (Base - 1) <= column[i]
        /\ column[i] <= (g + 2) * (Base - 1)
    BY DEF Within
  <2>2. tmp[i] \in {g, g + 1} /\ i + 1 \in 0 .. m BY <1>3
  <2>3. v \in Int BY <2>1, <2>2
  <2>4. q \in Int /\ r \in 0 .. Base - 1 /\ v = Base * q + r
    <3> HIDE DEF v
    <3> QED BY <1>1, <2>3, Parts
  <2>5. tmp[i + 1] = q BY DEF Carried
  <2>6. CASE g = -1
    <3>1. 0 - Base <= v /\ v <= Base - 1 BY <1>1, <2>1, <2>2, <2>6
    <3> HIDE DEF v, q, r
    <3>2. q < 1
      <4> SUFFICES ASSUME q >= 1 PROVE FALSE BY <2>4
      <4>1. Base * q >= Base BY <1>1, <2>4
      <4> DEFINE p == Base * q
      <4>2. p \in Int /\ p >= Base /\ v = p + r BY <1>1, <2>4, <4>1
      <4> HIDE DEF p
      <4> QED BY <1>1, <2>3, <2>4, <3>1, <4>2
    <3>3. q > -2
      <4> SUFFICES ASSUME q <= -2 PROVE FALSE BY <2>4
      <4>1. Base * q <= 0 - 2 * Base BY <1>1, <2>4
      <4> DEFINE p == Base * q
      <4>2. p \in Int /\ p <= 0 - 2 * Base /\ v = p + r BY <1>1, <2>4, <4>1
      <4> HIDE DEF p
      <4> QED BY <1>1, <2>3, <2>4, <3>1, <4>2
    <3> QED BY <2>2, <2>4, <2>5, <2>6, <3>2, <3>3
  <2>7. CASE g = 0
    <3>1. 0 <= v /\ v <= 2 * Base - 1 BY <1>1, <2>1, <2>2, <2>7
    <3> HIDE DEF v, q, r
    <3>2. q < 2
      <4> SUFFICES ASSUME q >= 2 PROVE FALSE BY <2>4
      <4>1. Base * q >= 2 * Base BY <1>1, <2>4
      <4> DEFINE p == Base * q
      <4>2. p \in Int /\ p >= 2 * Base /\ v = p + r BY <1>1, <2>4, <4>1
      <4> HIDE DEF p
      <4> QED BY <1>1, <2>3, <2>4, <3>1, <4>2
    <3>3. q > -1
      <4> SUFFICES ASSUME q <= -1 PROVE FALSE BY <2>4
      <4>1. Base * q <= 0 - Base BY <1>1, <2>4
      <4> DEFINE p == Base * q
      <4>2. p \in Int /\ p <= 0 - Base /\ v = p + r BY <1>1, <2>4, <4>1
      <4> HIDE DEF p
      <4> QED BY <1>1, <2>3, <2>4, <3>1, <4>2
    <3> QED BY <2>2, <2>4, <2>5, <2>7, <3>2, <3>3
  <2> QED BY <2>6, <2>7
<1>4. m \in S
  <2> HIDE DEF S
  <2>1. \A i \in 0 .. m : i \in S BY <1>2, <1>3, UpTo
  <2> QED BY <2>1
<1> QED BY <1>4

LEMMA PlusIs ==
  ASSUME NEW w \in Nat, w > 0, NEW c \in Bytes(w), NEW d \in Bytes(w)
  PROVE  Plus(c, d) \in Bytes(2 * w) /\ Value(Plus(c, d)) = Value(c) + Value(d)
<1> DEFINE column == [i \in 0 .. w - 1 |-> c[i] + d[i]]
           tmp == Carries(column, w)
           low == [i \in 0 .. w - 1 |-> (tmp[i] + column[i]) % Base]
           e == Plus(c, d)
           P == TwoTo[ByteBits * w]
           last == tmp[w]
<1>1. /\ Base \in Nat \ {0} /\ Base > 1 /\ Base \in Int /\ ByteBits \in Nat
      /\ Base = TwoTo[ByteBits]
  BY BaseIs
<1>2. /\ DOMAIN c = 0 .. w - 1 /\ width(c) = w /\ Digits(c, w) /\ Digits(d, w)
      /\ Value(c) = Number(Base, c, w) /\ Value(d) = Number(Base, d, w)
      /\ Proper(c, Base, w) /\ Proper(d, Base, w)
  BY ImmediateIs
<1>3. Digits(column, w) /\ Number(Base, column, w) = Value(c) + 1 * Value(d)
  <2>1. Combines(column, c, 1, d, w) BY <1>2 DEF Combines, Digits
  <2> HIDE DEF column
  <2>2. 1 \in Int OBVIOUS
  <2> QED BY <1>1, <1>2, <2>1, <2>2, CombinationIs
<1>4. Within(column, 0, w) BY <1>1, <1>2 DEF Proper, Within
<1> HIDE DEF column
<1>5. Carried(tmp, column, w) BY <1>3, CarriesIs
<1> HIDE DEF tmp
<1>6. Kept(low, tmp, column, w) BY DEF Kept
<1>7. /\ Proper(low, Base, w) /\ last \in Int
      /\ Number(Base, column, w) = Number(Base, low, w) + P * last
  <2> HIDE DEF low
  <2> QED BY <1>3, <1>5, <1>6, CarriedIs
<1>8. last \in {0, 1}
  <2>1. tmp[w] \in {0, 0 + 1} BY <1>4, <1>5, CarryIsBit
  <2> QED BY <2>1
<1>9. e = [i \in 0 .. 2 * w - 1 |-> IF i > w THEN 0
                                    ELSE IF i < w THEN low[i] ELSE last % Base]
  <2>1. Chain(column, w) = [i \in 0 .. 2 * w - 1 |->
                              IF i < w THEN (tmp[i] + column[i]) % Base ELSE last % Base]
    BY DEF Chain, tmp
  <2>2. e = [i \in DOMAIN Chain(column, w) |-> IF i > w THEN 0 ELSE Chain(column, w)[i]]
    BY <1>2 DEF Plus, column
  <2> QED BY <2>1, <2>2
<1> HIDE DEF low, e
<1>10. last % Base = last BY <1>1, <1>8
<1>11. \A i \in 0 .. 2 * w - 1 : e[i] \in 0 .. Base - 1
  <2> HIDE DEF last
  <2> QED BY <1>1, <1>7, <1>8, <1>9, <1>10 DEF Proper
<1>12. e \in Bytes(2 * w) BY <1>9, <1>11 DEF Bytes, ByteValues
<1>13. Digits(e, 2 * w) BY <1>1, <1>11 DEF Digits
<1>14. Value(e) = Number(Base, low, w) + P * Suffixes(Base, e, 2 * w)[w]
  <2>1. Piece(low, e, 0, w) BY <1>9 DEF Piece
  <2>2. Value(e) = Number(Base, e, 2 * w)
    <3>1. 2 * w \in Nat OBVIOUS
    <3> QED BY <1>12, <3>1, ImmediateIs
  <2> QED BY <1>13, <2>1, <2>2, HalvesAre
<1>15. Suffixes(Base, e, 2 * w)[w] = last
  <2>1. 2 * w \in Nat /\ w + 1 \in 0 .. 2 * w /\ w \in 0 .. 2 * w - 1 OBVIOUS
  <2>2. Suffixes(Base, e, 2 * w)[w + 1] = 0
    <3>1. Filled(e, 0, w + 1, 2 * w) BY <1>9 DEF Filled
    <3> QED BY <1>13, <2>1, <3>1, FilledIs
  <2>3. SumsUp(Suffixes(Base, e, 2 * w), Base, e, 2 * w) BY <1>1, <1>13, <2>1, SuffixesIs
  <2>4. Suffixes(Base, e, 2 * w)[w] = e[w] + Base * Suffixes(Base, e, 2 * w)[w + 1]
    BY <2>1, <2>3 DEF SumsUp
  <2>5. e[w] = last BY <1>9, <1>10, <2>1
  <2>6. last + Base * 0 = last BY <1>1, <1>8
  <2> QED BY <2>2, <2>4, <2>5, <2>6
<1>16. Value(c) + 1 * Value(d) = Value(c) + Value(d)
  <2>1. Value(c) \in Nat /\ Value(d) \in Nat BY ValueIs
  <2> QED BY <2>1
<1> QED BY <1>3, <1>7, <1>12, <1>14, <1>15, <1>16 DEF e

LEMMA MinusIs ==
  ASSUME NEW w \in Nat, NEW c \in Bytes(w), NEW d \in Bytes(w)
  PROVE  /\ Minus(c, d) \in Bytes(2 * w)
         /\ Value(Minus(c, d)) = (Value(c) - Value(d))
                                 % (TwoTo[ByteBits * w] * TwoTo[ByteBits * w])
<1> DEFINE column == [i \in 0 .. w - 1 |-> c[i] - d[i]]
           tmp == Carries(column, w)
           low == [i \in 0 .. w - 1 |-> (tmp[i] + column[i]) % Base]
           e == Minus(c, d)
           P == TwoTo[ByteBits * w]
           last == tmp[w]
           v == IF last = -1 THEN 1 ELSE 0
           N == Number(Base, low, w)
<1>1. /\ Base \in Nat \ {0} /\ Base > 1 /\ Base \in Int /\ ByteBits \in Nat
      /\ Base = TwoTo[ByteBits]
  BY BaseIs
<1>2. /\ DOMAIN c = 0 .. w - 1 /\ width(c) = w /\ Digits(c, w) /\ Digits(d, w)
      /\ Value(c) = Number(Base, c, w) /\ Value(d) = Number(Base, d, w)
      /\ Proper(c, Base, w) /\ Proper(d, Base, w)
  BY ImmediateIs
<1>3. Digits(column, w) /\ Number(Base, column, w) = Value(c) + (-1) * Value(d)
  <2> DEFINE k == -1
  <2>1. k \in Int OBVIOUS
  <2>2. Combines(column, c, k, d, w) BY <1>2 DEF Combines, Digits
  <2> HIDE DEF column, k
  <2>3. Digits(column, w) /\ Number(Base, column, w) = Value(c) + k * Value(d)
    BY <1>1, <1>2, <2>1, <2>2, CombinationIs
  <2> QED BY <2>3 DEF k
<1>4. Within(column, -1, w) BY <1>1, <1>2 DEF Proper, Within
<1> HIDE DEF column
<1>5. Carried(tmp, column, w) BY <1>3, CarriesIs
<1> HIDE DEF tmp
<1>6. Kept(low, tmp, column, w) BY DEF Kept
<1>7. /\ Proper(low, Base, w) /\ last \in Int
      /\ Number(Base, column, w) = N + P * last
  <2> HIDE DEF low
  <2> QED BY <1>3, <1>5, <1>6, CarriedIs
<1>8. last \in {-1, 0}
  <2> DEFINE g == -1
  <2>1. g \in {-1, 0} /\ Within(column, g, w) BY <1>4
  <2>2. g + 1 = 0 OBVIOUS
  <2> HIDE DEF g
  <2>3. tmp[w] \in {g, g + 1} BY <1>5, <2>1, CarryIsBit
  <2>4. tmp[w] \in {g, 0} BY <2>2, <2>3
  <2> QED BY <2>4 DEF g
<1>9. e = [i \in 0 .. 2 * w - 1 |-> IF i < w THEN low[i] ELSE last % Base]
  <2>1. Chain(column, w) = [i \in 0 .. 2 * w - 1 |->
                              IF i < w THEN (tmp[i] + column[i]) % Base ELSE last % Base]
    BY DEF Chain, tmp
  <2>2. e = Chain(column, w) BY <1>2 DEF Minus, column
  <2> QED BY <2>1, <2>2
<1> HIDE DEF low, e
<1>10. last % Base = IF v = 1 THEN Base - 1 ELSE 0
  <2>1. Base - 1 \in 0 .. Base - 1 /\ 0 \in 0 .. Base - 1 BY <1>1
  <2>2. ((Base - 1) - Base) % Base = Base - 1 /\ 0 % Base = 0 BY <1>1, <2>1, WrapsUp
  <2>3. (Base - 1) - Base = -1 BY <1>1
  <2>4. (-1) % Base = Base - 1 BY <2>2, <2>3
  <2> QED BY <1>8, <2>2, <2>4
<1>11. /\ e \in Bytes(2 * w)
       /\ Value(e) = (N - IF v = 1 THEN P ELSE 0) % (P * P)
  <2>1. DOMAIN e = 0 .. 2 * w - 1 /\ e = [i \in DOMAIN e |-> e[i]] BY <1>9
  <2>2. Piece(low, e, 0, w) BY <1>9 DEF Piece
  <2>3. v \in {0, 1} OBVIOUS
  <2>4. Filled(e, v, w, 2 * w) BY <1>9, <1>10 DEF Filled
  <2> HIDE DEF v
  <2> QED BY <1>7, <2>1, <2>2, <2>3, <2>4, DoubledIs
<1>12. Value(c) \in Nat /\ Value(d) \in Nat /\ N \in Nat /\ P \in Nat
  <2>1. N \in Nat BY <1>1, <1>7, ProperParts
  <2> QED BY <1>1, <2>1, ValueIs, Units
<1>13. Value(c) + (-1) * Value(d) = Value(c) - Value(d) BY <1>12
<1>14. N - (IF v = 1 THEN P ELSE 0) = Value(c) - Value(d)
  <2>1. Value(c) - Value(d) = N + P * last BY <1>3, <1>7, <1>13
  <2> HIDE DEF N, P
  <2>2. CASE last = -1
    <3>1. P * (-1) = 0 - P BY <1>12
    <3>2. Value(c) - Value(d) = N + (0 - P)
      <4>1. P * last = P * (-1) BY <2>2
      <4> HIDE DEF last
      <4> QED BY <2>1, <3>1, <4>1
    <3> QED BY <1>12, <2>2, <3>2
  <2>3. CASE last = 0
    <3>1. P * 0 = 0 BY <1>12
    <3>2. Value(c) - Value(d) = N + 0
      <4>1. P * last = P * 0 BY <2>3
      <4> HIDE DEF last
      <4> QED BY <2>1, <3>1, <4>1
    <3> QED BY <1>12, <2>3, <3>2
  <2> QED BY <1>8, <2>2, <2>3
<1> QED BY <1>11, <1>14 DEF e

\* The sign is the top bit of the top byte.
LEMMA TopIs ==
  ASSUME NEW w \in Nat, w > 0, NEW c \in Bytes(w)
  PROVE  Top(c) >= Base \div 2 <=> Value(c) >= TwoTo[ByteBits * w] \div 2
<1> DEFINE k == w - 1
           t == TwoTo[ByteBits * k]
           h == TwoTo[ByteBits - 1]
           top == c[k]
           v == Value(c)
           r == v % t
           p == t * h
<1>1. /\ Base \in Nat \ {0} /\ Base > 1 /\ Base \in Int /\ ByteBits \in Nat /\ ByteBits > 0
      /\ Base = TwoTo[ByteBits]
  BY BaseIs
<1>2. k \in Nat /\ k + 1 = w /\ k \in 0 .. w - 1 /\ k \in 0 .. w OBVIOUS
<1>3. Base = 2 * h /\ h \in Nat \ {0}
  <2>1. ByteBits - 1 \in Nat /\ (ByteBits - 1) + 1 = ByteBits BY <1>1
  <2>2. TwoTo[(ByteBits - 1) + 1] = 2 * TwoTo[ByteBits - 1] BY <2>1, TwoToIs
  <2> QED BY <1>1, <2>1, <2>2, TwoToIs
<1>4. TwoTo[ByteBits * w] = t * Base /\ t \in Nat \ {0} BY <1>1, <1>2, Units
<1>5. v \in Nat /\ top = v \div t
  <2>1. Suffixes(Base, c, w)[k] = c[k] + Base * Suffixes(Base, c, w)[k + 1]
    BY <1>2, ValueIs DEF SumsUp
  <2>2. Suffixes(Base, c, w)[k + 1] = 0 BY <1>2, ValueIs DEF SumsUp
  <2>3. c[k] \in Int BY <1>2, ImmediateIs DEF Digits
  <2>4. Suffixes(Base, c, w)[k] = v \div t BY <1>2, ValueIs
  <2>5. c[k] + Base * 0 = c[k] BY <1>1, <2>3
  <2>6. c[k] = v \div t BY <2>1, <2>2, <2>4, <2>5
  <2> QED BY <2>6, ValueIs
<1>6. Top(c) = top
  <2>1. width(c) = w BY ImmediateIs
  <2>2. width(c) - 1 = k BY <2>1
  <2> QED BY <2>2 DEF Top
<1> HIDE DEF k, t, h, top, v
<1>7. top \in Int /\ r \in 0 .. t - 1 /\ v = t * top + r
  <2>1. v \div t \in Int /\ v % t \in 0 .. t - 1 /\ v = t * (v \div t) + (v % t)
    <3>1. v \in Int /\ t \in Nat \ {0} BY <1>4, <1>5
    <3> QED BY <3>1, Parts
  <2> HIDE DEF r
  <2>2. r = v % t BY DEF r
  <2> QED BY <1>5, <2>1, <2>2
<1> HIDE DEF r
<1>8. p \in Nat /\ t * Base = 2 * p BY <1>3, <1>4
<1>9. Base \div 2 = h BY <1>3
<1>10. (t * Base) \div 2 = p
  <2> HIDE DEF p
  <2> QED BY <1>8
<1>11. top >= h => v >= p
  <2> SUFFICES ASSUME top >= h PROVE v >= p OBVIOUS
  <2>1. t * top >= t * h BY <1>3, <1>4, <1>7
  <2> DEFINE q == t * top
  <2>2. q \in Int /\ q >= p /\ v = q + r BY <1>4, <1>7, <2>1
  <2> HIDE DEF p, q
  <2> QED BY <1>4, <1>7, <1>8, <2>2
<1>12. top < h => v < p
  <2> SUFFICES ASSUME top < h PROVE v < p OBVIOUS
  <2>1. t * top + t <= t * h
    <3>1. t * (top + 1) <= t * h BY <1>3, <1>4, <1>7
    <3>2. t * (top + 1) = t * top + t BY <1>4, <1>7
    <3> QED BY <3>1, <3>2
  <2> DEFINE q == t * top
  <2>2. q \in Int /\ q + t <= p /\ v = q + r BY <1>4, <1>7, <2>1
  <2> HIDE DEF p, q
  <2> QED BY <1>4, <1>7, <1>8, <2>2
<1>13. top >= h <=> v >= p
  <2> HIDE DEF p
  <2> QED BY <1>3, <1>5, <1>7, <1>8, <1>11, <1>12
<1> QED BY <1>4, <1>6, <1>9, <1>10, <1>13 DEF v

\* A sign extension to twice the size keeps the signed value.
LEMMA SignExtendIs ==
  ASSUME NEW w \in Nat, w > 0, NEW c \in Bytes(w)
  PROVE  /\ SignExtend(c, 2 * (w * ByteBits)) \in Bytes(2 * w)
         /\ Value(SignExtend(c, 2 * (w * ByteBits)))
            = (Value(c) - IF Value(c) >= TwoTo[ByteBits * w] \div 2
                          THEN TwoTo[ByteBits * w] ELSE 0)
              % (TwoTo[ByteBits * w] * TwoTo[ByteBits * w])
<1> DEFINE e == SignExtend(c, 2 * (w * ByteBits))
           P == TwoTo[ByteBits * w]
           negative == Value(c) >= P \div 2
           v == IF negative THEN 1 ELSE 0
<1>1. Base \in Nat \ {0} /\ ByteBits \in Nat /\ ByteBits > 0 BY BaseIs
<1>2. /\ DOMAIN c = 0 .. w - 1 /\ Proper(c, Base, w) /\ Value(c) = Number(Base, c, w)
      /\ Digits(c, w)
  BY ImmediateIs
<1>3. (2 * (w * ByteBits)) \div ByteBits = 2 * w
  <2>1. 2 * w \in Int /\ 0 \in 0 .. ByteBits - 1 /\ ByteBits \in Nat \ {0} BY <1>1
  <2>2. (ByteBits * (2 * w) + 0) \div ByteBits = 2 * w BY <2>1, PartsOf
  <2>3. 2 * (w * ByteBits) = ByteBits * (2 * w) + 0 BY <2>1
  <2> QED BY <2>2, <2>3
<1>4. Top(c) >= Base \div 2 <=> negative BY TopIs
<1>5. e = [i \in 0 .. 2 * w - 1 |->
             IF i \in 0 .. w - 1 THEN c[i] ELSE IF negative THEN Base - 1 ELSE 0]
  BY <1>2, <1>3, <1>4 DEF SignExtend
<1> HIDE DEF e, negative
<1>6. DOMAIN e = 0 .. 2 * w - 1 /\ e = [i \in DOMAIN e |-> e[i]] BY <1>5
<1>7. Piece(c, e, 0, w) BY <1>5 DEF Piece
<1>8. v \in {0, 1} /\ (v = 1 <=> negative) OBVIOUS
<1>9. Filled(e, v, w, 2 * w) BY <1>5, <1>8 DEF Filled
<1> HIDE DEF v
<1>10. e \in Bytes(2 * w) /\ Value(e) = (Value(c) - IF v = 1 THEN P ELSE 0) % (P * P)
  BY <1>2, <1>6, <1>7, <1>8, <1>9, DoubledIs
<1> QED BY <1>8, <1>10 DEF e, negative

-----------------------------------------------------------------------------
(* Bits.                                                                    *)

Binary(d, m) == \A k \in 0 .. m - 1 : d[k] \in {0, 1}
BitsOf(d, v, m) == \A k \in 0 .. m - 1 : d[k] = Bit(v, k)

LEMMA BitIs ==
  ASSUME NEW v \in Nat, NEW k \in Nat
  PROVE  Bit(v, k) \in {0, 1}
<1> DEFINE t == TwoTo[k]
           q == v \div t
<1>1. t \in Nat \ {0} BY TwoToIs
<1>2. q \in Int
  <2>1. v \in Int OBVIOUS
  <2> HIDE DEF t
  <2> QED BY <1>1, <2>1, Parts
<1> HIDE DEF q
<1>3. q % 2 \in {0, 1} BY <1>2
<1> QED BY <1>3 DEF Bit, q

\* Numerals of bits.
LEMMA BinaryIs ==
  ASSUME NEW m \in Nat, NEW d, Binary(d, m)
  PROVE  Digits(d, m) /\ Number(2, d, m) \in Nat /\ Number(2, d, m) < TwoTo[m]
<1> DEFINE e == 1
<1>1. e \in Nat /\ e * m = m OBVIOUS
<1>2. TwoTo[e] = 2
  <2>1. 0 \in Nat /\ 0 + 1 = 1 OBVIOUS
  <2>2. TwoTo[0 + 1] = 2 * TwoTo[0] /\ TwoTo[0] = 1 BY <2>1, TwoToIs
  <2> QED BY <2>1, <2>2
<1> HIDE DEF e
<1>3. Proper(d, TwoTo[e], m) BY <1>2 DEF Proper, Binary
<1>4. Number(TwoTo[e], d, m) \in Nat /\ Number(TwoTo[e], d, m) < TwoTo[e * m]
  BY <1>1, <1>3, ProperParts
<1>5. Digits(d, m) BY DEF Digits, Binary
<1> QED BY <1>1, <1>2, <1>4, <1>5

LEMMA CutBits ==
  ASSUME NEW m \in Nat, NEW d, Digits(d, m), NEW i \in Nat, NEW j \in Nat, i + j <= m,
         NEW c, Piece(c, d, i, j)
  PROVE  Suffixes(2, d, m)[i] = Number(2, c, j) + TwoTo[j] * Suffixes(2, d, m)[i + j]
<1> DEFINE e == 1
<1>1. e \in Nat /\ e * j = j OBVIOUS
<1>2. TwoTo[e] = 2
  <2>1. 0 \in Nat /\ 0 + 1 = 1 OBVIOUS
  <2>2. TwoTo[0 + 1] = 2 * TwoTo[0] /\ TwoTo[0] = 1 BY <2>1, TwoToIs
  <2> QED BY <2>1, <2>2
<1> HIDE DEF e
<1>3. Suffixes(TwoTo[e], d, m)[i]
      = Number(TwoTo[e], c, j) + TwoTo[e * j] * Suffixes(TwoTo[e], d, m)[i + j]
  BY <1>1, Cut
<1> QED BY <1>1, <1>2, <1>3

LEMMA BitsStandFor ==
  ASSUME NEW m \in Nat, NEW v \in Nat, v < TwoTo[m], NEW d, BitsOf(d, v, m)
  PROVE  Number(2, d, m) = v
<1> DEFINE e == 1
<1>1. e \in Nat /\ e * m = m /\ \A k \in Nat : e * k = k OBVIOUS
<1>2. TwoTo[e] = 2
  <2>1. 0 \in Nat /\ 0 + 1 = 1 OBVIOUS
  <2>2. TwoTo[0 + 1] = 2 * TwoTo[0] /\ TwoTo[0] = 1 BY <2>1, TwoToIs
  <2> QED BY <2>1, <2>2
<1> HIDE DEF e
<1>3. DigitsOf(d, v, e, m)
  <2>1. ASSUME NEW k \in 0 .. m - 1 PROVE d[k] = (v \div TwoTo[e * k]) % TwoTo[e]
    <3>1. e * k = k BY <1>1
    <3> QED BY <1>2, <3>1 DEF BitsOf, Bit
  <2> QED BY <2>1 DEF DigitsOf
<1>4. v < TwoTo[e * m] BY <1>1
<1>5. Number(TwoTo[e], d, m) = v BY <1>1, <1>3, <1>4, DigitsStandFor
<1> QED BY <1>2, <1>5

\* The bits of a byte are bits of the value.
LEMMA BitOfRemainder ==
  ASSUME NEW e \in Nat, NEW k \in 0 .. e - 1, NEW v \in Nat
  PROVE  Bit(v % TwoTo[e], k) = Bit(v, k)
<1> DEFINE P == TwoTo[e]
           S == TwoTo[k]
           T == TwoTo[e - k - 1]
           q == v \div P
           r == v % P
           u == r \div S
           g == r % S
<1>1. P = S * (2 * T) /\ P \in Nat \ {0} /\ S \in Nat \ {0} /\ T \in Nat \ {0}
  <2> DEFINE j == e - k - 1
  <2>1. j \in Nat /\ k \in Nat /\ k + (j + 1) = e OBVIOUS
  <2> HIDE DEF j
  <2>2. TwoTo[k + (j + 1)] = TwoTo[k] * TwoTo[j + 1] /\ TwoTo[j + 1] = 2 * TwoTo[j]
    <3>1. j + 1 \in Nat BY <2>1
    <3> QED BY <2>1, <3>1, TwoToSum, TwoToIs
  <2>3. P = TwoTo[k] * (2 * TwoTo[j]) BY <2>1, <2>2
  <2> QED BY <2>1, <2>3, TwoToIs DEF j
<1>2. v \in Int OBVIOUS
<1>3. q \in Int /\ r \in 0 .. P - 1 /\ v = P * q + r
  <2> HIDE DEF P
  <2> QED BY <1>1, <1>2, Parts
<1>4. u \in Int /\ g \in 0 .. S - 1 /\ r = S * u + g
  <2>1. r \in Int BY <1>1, <1>3
  <2> HIDE DEF S, r
  <2> QED BY <1>1, <2>1, Parts
<1> DEFINE h == T * q
           c == 2 * h + u
<1> HIDE DEF P, S, T, q, r, u, g
<1>5. h \in Int /\ c \in Int BY <1>1, <1>3, <1>4
<1>6. v = S * c + g
  <2>1. P * q = S * (2 * h) BY <1>1, <1>3
  <2>2. S * c = S * (2 * h) + S * u
    <3> HIDE DEF h
    <3> QED BY <1>1, <1>4, <1>5
  <2> DEFINE sh == S * (2 * h)
             su == S * u
  <2>3. sh \in Int /\ su \in Int
    <3> HIDE DEF h
    <3> QED BY <1>1, <1>4, <1>5
  <2>4. v = sh + r /\ r = su + g /\ S * c = sh + su BY <1>3, <1>4, <2>1, <2>2
  <2> HIDE DEF sh, su, c
  <2>5. g \in Int BY <1>1, <1>4
  <2> QED BY <2>3, <2>4, <2>5
<1>7. v \div S = c
  <2> HIDE DEF c
  <2> QED BY <1>1, <1>4, <1>5, <1>6, PartsOf
<1>8. c % 2 = u % 2
  <2> HIDE DEF h
  <2> QED BY <1>4, <1>5
<1> QED BY <1>7, <1>8 DEF Bit, u, r, S, P

LEMMA BitOfQuotient ==
  ASSUME NEW j \in Nat, NEW k \in Nat, NEW v \in Nat
  PROVE  Bit(v \div TwoTo[j], k) = Bit(v, j + k)
<1>1. TwoTo[j + k] = TwoTo[j] * TwoTo[k] BY TwoToSum
<1> DEFINE s == TwoTo[j]
           t == TwoTo[k]
<1>2. s \in Nat \ {0} /\ t \in Nat \ {0} /\ v \in Int BY TwoToIs
<1> HIDE DEF s, t
<1>3. v \div (s * t) = (v \div s) \div t BY <1>2, PartsTwice
<1>4. v \div TwoTo[j + k] = (v \div TwoTo[j]) \div TwoTo[k] BY <1>1, <1>3 DEF s, t
<1> QED BY <1>4, Zenon DEF Bit

\* What the tables make of the bits of two values.
LEMMA BitByBitIs ==
  ASSUME NEW table \in Table, NEW p \in Nat, NEW q \in Nat, NEW m \in Nat
  PROVE  /\ Binary([k \in 0 .. m - 1 |-> table[<<Bit(p, k), Bit(q, k)>>]], m)
         /\ BitByBit(table, p, q, m) \in Nat /\ BitByBit(table, p, q, m) < TwoTo[m]
<1> DEFINE d == [k \in 0 .. m - 1 |-> table[<<Bit(p, k), Bit(q, k)>>]]
<1>1. Binary(d, m)
  <2> SUFFICES ASSUME NEW k \in 0 .. m - 1 PROVE table[<<Bit(p, k), Bit(q, k)>>] \in {0, 1}
    BY DEF Binary
  <2>1. k \in Nat OBVIOUS
  <2>2. Bit(p, k) \in {0, 1} /\ Bit(q, k) \in {0, 1} BY <2>1, BitIs
  <2> QED BY <2>2 DEF Table
<1> HIDE DEF d
<1>2. Number(2, d, m) \in Nat /\ Number(2, d, m) < TwoTo[m] BY <1>1, BinaryIs
<1> QED BY <1>1, <1>2 DEF BitByBit, d

\* Bit k of byte i is bit ByteBits * i + k.
LEMMA BitOfByte ==
  ASSUME NEW w \in Nat, NEW c \in Bytes(w), NEW i \in 0 .. w - 1, NEW k \in 0 .. ByteBits - 1
  PROVE  Bit(c[i], k) = Bit(Value(c), ByteBits * i + k)
<1> DEFINE j == ByteBits * i
           q == Value(c) \div TwoTo[j]
<1>1. ByteBits \in Nat /\ Base = TwoTo[ByteBits] BY BaseIs
<1>2. i \in Nat /\ k \in Nat OBVIOUS
<1>3. j \in Nat /\ TwoTo[j] \in Nat \ {0} BY <1>1, <1>2, Units
<1>4. Value(c) \in Nat BY ValueIs
<1>5. c[i] = q % TwoTo[ByteBits]
  <2>1. DigitsOf(c, Value(c), ByteBits, w) BY ValueIs
  <2> QED BY <2>1 DEF DigitsOf
<1> HIDE DEF j
<1>6. q \in Nat
  <2> DEFINE t == TwoTo[j]
             v == Value(c)
  <2>1. t \in Nat \ {0} /\ v \in Nat BY <1>3, <1>4
  <2> HIDE DEF t, v
  <2>2. v \div t \in Nat BY <2>1
  <2> QED BY <2>2 DEF t, v
<1>7. Bit(q, k) = Bit(Value(c), j + k) BY <1>2, <1>3, <1>4, BitOfQuotient
<1> HIDE DEF q
<1>8. Bit(q % TwoTo[ByteBits], k) = Bit(q, k) BY <1>1, <1>6, BitOfRemainder
<1> QED BY <1>5, <1>7, <1>8 DEF j

LEMMA BitwiseIs ==
  ASSUME NEW table \in Table, NEW w \in Nat, NEW c \in Bytes(w), NEW d \in Bytes(w)
  PROVE  /\ Bitwise(table, c, d) \in Bytes(w)
         /\ Value(Bitwise(table, c, d))
            = BitByBit(table, Value(c), Value(d), w * ByteBits)
<1> DEFINE e == Bitwise(table, c, d)
           m == ByteBits * w
           u == Value(c)
           v == Value(d)
           bits == [k \in 0 .. m - 1 |-> table[<<Bit(u, k), Bit(v, k)>>]]
           s == Suffixes(2, bits, m)
           f == [i \in 0 .. w |-> s[ByteBits * i]]
<1>1. Base \in Nat /\ Base \in Int /\ ByteBits \in Nat /\ Base = TwoTo[ByteBits] BY BaseIs
<1>2. DOMAIN c = 0 .. w - 1 BY ImmediateIs
<1>3. e = [i \in 0 .. w - 1 |-> BitByBit(table, c[i], d[i], ByteBits)] BY <1>2 DEF Bitwise
<1>4. \A i \in 0 .. w - 1 : c[i] \in Nat /\ d[i] \in Nat BY <1>1 DEF Bytes, ByteValues
<1>5. \A i \in 0 .. w - 1 : e[i] \in 0 .. Base - 1
  <2> TAKE i \in 0 .. w - 1
  <2>1. BitByBit(table, c[i], d[i], ByteBits) \in Nat
        /\ BitByBit(table, c[i], d[i], ByteBits) < TwoTo[ByteBits]
    BY <1>1, <1>4, BitByBitIs
  <2> QED BY <1>1, <1>3, <2>1
<1>6. e \in Bytes(w) BY <1>3, <1>5 DEF Bytes, ByteValues
<1>7. u \in Nat /\ v \in Nat /\ m \in Nat BY <1>1, ValueIs, Units
<1> HIDE DEF e, m, u, v
<1>8. Binary(bits, m) BY <1>7, BitByBitIs
<1>9. Digits(bits, m) BY <1>7, <1>8, BinaryIs
<1> HIDE DEF bits
<1>10. s \in [0 .. m -> Int] /\ SumsUp(s, 2, bits, m)
  <2>1. 2 \in Int OBVIOUS
  <2> QED BY <1>7, <1>9, <2>1, SuffixesIs
<1>11. f[w] = 0
  <2>1. f[w] = s[m] BY DEF m
  <2> QED BY <1>10, <2>1 DEF SumsUp
<1>12. ASSUME NEW i \in 0 .. w - 1 PROVE f[i] = e[i] + Base * f[i + 1]
  <2> DEFINE j == ByteBits * i
             byte == [k \in 0 .. ByteBits - 1 |-> table[<<Bit(c[i], k), Bit(d[i], k)>>]]
  <2>1. j \in Nat /\ ByteBits * (i + 1) = j + ByteBits /\ j + ByteBits <= m
    <3>1. i \in Nat /\ i + 1 \in Nat /\ i + 1 <= w OBVIOUS
    <3>2. j \in Nat /\ ByteBits * (i + 1) = ByteBits * i + ByteBits BY <1>1, <3>1
    <3>3. ByteBits * (i + 1) <= ByteBits * w BY <1>1, <3>1
    <3> QED BY <3>2, <3>3 DEF m
  <2>2. Piece(byte, bits, j, ByteBits)
    <3> SUFFICES ASSUME NEW k \in 0 .. ByteBits - 1 PROVE byte[k] = bits[j + k]
      BY DEF Piece
    <3>1. Bit(c[i], k) = Bit(u, j + k) /\ Bit(d[i], k) = Bit(v, j + k)
      BY BitOfByte DEF u, v
    <3> HIDE DEF j
    <3>2. j + k \in 0 .. m - 1 BY <1>1, <1>7, <2>1
    <3>3. bits[j + k] = table[<<Bit(u, j + k), Bit(v, j + k)>>] BY <3>2 DEF bits
    <3>4. byte[k] = table[<<Bit(c[i], k), Bit(d[i], k)>>] OBVIOUS
    <3> QED BY <3>1, <3>3, <3>4
  <2>3. e[i] = Number(2, byte, ByteBits) BY <1>3 DEF BitByBit
  <2> HIDE DEF j, byte
  <2>4. s[j] = Number(2, byte, ByteBits) + TwoTo[ByteBits] * s[j + ByteBits]
    BY <1>1, <1>7, <1>9, <2>1, <2>2, CutBits
  <2>5. f[i] = s[j] /\ f[i + 1] = s[j + ByteBits]
    <3>1. i \in 0 .. w /\ i + 1 \in 0 .. w OBVIOUS
    <3>2. f[i] = s[ByteBits * i] /\ f[i + 1] = s[ByteBits * (i + 1)] BY <3>1
    <3> QED BY <2>1, <3>2 DEF j
  <2> HIDE DEF f, s
  <2> QED BY <1>1, <2>3, <2>4, <2>5
<1>13. f[0] = s[0]
  <2>1. ByteBits * 0 = 0 /\ 0 \in 0 .. w BY <1>1
  <2>2. f[0] = s[ByteBits * 0] BY <2>1
  <2> QED BY <2>1, <2>2
<1> HIDE DEF f
<1>14. Value(e) = f[0]
  <2>1. Digits(e, w) /\ Value(e) = Number(Base, e, w) BY <1>6, ImmediateIs
  <2>2. SumsUp(f, Base, e, w) BY <1>11, <1>12 DEF SumsUp
  <2> QED BY <1>1, <2>1, <2>2, NumberIs
<1>15. s[0] = BitByBit(table, u, v, m) BY DEF s, Number, BitByBit, bits
<1>16. m = w * ByteBits BY <1>1 DEF m
<1> QED BY <1>6, <1>13, <1>14, <1>15, <1>16 DEF e, u, v

-----------------------------------------------------------------------------
(* Shifts.                                                                  *)

\* The low digits of a remainder are those of the number.
LEMMA DigitOfRemainder ==
  ASSUME NEW s \in Nat \ {0}, NEW t \in Nat \ {0}, NEW z \in Nat \ {0}, NEW v \in Int
  PROVE  ((v % (s * (t * z))) \div s) % t = (v \div s) % t
<1> DEFINE p == s * (t * z)
           q == v \div p
           r == v % p
           u == r \div s
           g == r % s
<1>1. p \in Nat \ {0}
  <2>1. t * z \in Nat \ {0} OBVIOUS
  <2> DEFINE k == t * z
  <2> HIDE DEF k
  <2>2. k \in Nat \ {0} BY <2>1 DEF k
  <2>3. s * k \in Nat \ {0} BY <2>2
  <2> QED BY <2>3 DEF k
<1>2. q \in Int /\ r \in 0 .. p - 1 /\ v = p * q + r
  <2> HIDE DEF p
  <2> QED BY <1>1, Parts
<1>3. r \in Int BY <1>1, <1>2
<1>4. u \in Int /\ g \in 0 .. s - 1 /\ r = s * u + g
  <2> HIDE DEF r
  <2> QED BY <1>3, Parts
<1> DEFINE h == z * q
           c == t * h + u
<1>5. p * q = s * (t * h)
  <2> HIDE DEF q
  <2> QED BY <1>2
<1> HIDE DEF p, q, r, u, g
<1>6. h \in Int BY <1>2
<1> HIDE DEF h
<1>7. t * h \in Int BY <1>6
<1> DEFINE th == t * h
<1>8. th \in Int BY <1>7
<1>9. c = th + u OBVIOUS
<1>10. p * q = s * th BY <1>5
<1> HIDE DEF th, c
<1>11. c \in Int BY <1>4, <1>8, <1>9
<1>12. v = s * c + g
  <2>1. s * (th + u) = s * th + s * u BY <1>4, <1>8
  <2>2. s * c = s * (th + u)
    <3> DEFINE sum == th + u
    <3>1. c = sum BY <1>9
    <3> HIDE DEF sum
    <3>2. s * c = s * sum BY <3>1
    <3> QED BY <3>2 DEF sum
  <2>3. s * th \in Int /\ s * u \in Int BY <1>4, <1>8
  <2> DEFINE m == s * th
             k == s * u
             l == s * c
  <2>4. l = m + k /\ v = m + r /\ r = k + g /\ m \in Int /\ k \in Int
    BY <1>2, <1>4, <1>10, <2>1, <2>2, <2>3
  <2> HIDE DEF m, k, l
  <2>5. g \in Int BY <1>4
  <2>6. v = l + g BY <2>4, <2>5
  <2> QED BY <2>6 DEF l
<1>13. v \div s = c BY <1>4, <1>11, <1>12, PartsOf
<1>14. c % t = u % t
  <2>1. u \in Int BY <1>4
  <2> DEFINE k == u \div t
             l == u % t
  <2>2. k \in Int /\ l \in 0 .. t - 1 /\ u = t * k + l BY <2>1, Parts
  <2> HIDE DEF k, l
  <2>3. th + u = t * (h + k) + l
    <3>1. t * (h + k) = t * h + t * k BY <1>6, <2>2
    <3>2. t * k \in Int BY <2>2
    <3> DEFINE tk == t * k
               thk == t * (h + k)
    <3>3. thk = th + tk /\ u = tk + l /\ tk \in Int BY <2>2, <3>1, <3>2 DEF th
    <3> HIDE DEF tk, thk
    <3>4. th + u = thk + l BY <1>8, <2>2, <3>3
    <3> QED BY <3>4 DEF thk
  <2> DEFINE hk == h + k
  <2>4. hk \in Int BY <1>6, <2>2
  <2> HIDE DEF hk
  <2>5. (t * hk + l) % t = l BY <2>2, <2>4, PartsOf
  <2>6. c = t * hk + l BY <1>9, <2>3 DEF hk
  <2> QED BY <2>5, <2>6 DEF l
<1> QED BY <1>13, <1>14 DEF p, r, u

\* A factor is cancelled.
LEMMA Cancelled ==
  ASSUME NEW s \in Nat \ {0}, NEW t \in Nat \ {0}, NEW v \in Int
  PROVE  (v * s) \div (s * t) = v \div t
<1> DEFINE p == v * s
<1>1. p \in Int OBVIOUS
<1>2. p \div s = v
  <2>1. 0 \in 0 .. s - 1 OBVIOUS
  <2>2. (s * v + 0) \div s = v BY <2>1, PartsOf
  <2>3. p = s * v + 0 OBVIOUS
  <2> QED BY <2>2, <2>3
<1> HIDE DEF p
<1>3. p \div (s * t) = (p \div s) \div t BY <1>1, PartsTwice
<1> QED BY <1>2, <1>3 DEF p

\* What straddles two digits, by the two.
LEMMA Straddle ==
  ASSUME NEW e \in Nat, NEW k \in 0 .. e, NEW lo \in 0 .. TwoTo[e] - 1, NEW hi \in Nat
  PROVE  ((lo + TwoTo[e] * hi) \div TwoTo[k]) % TwoTo[e]
         = (lo \div TwoTo[k]) + (((hi % TwoTo[e]) * TwoTo[e - k]) % TwoTo[e])
<1> DEFINE P == TwoTo[e]
           T == TwoTo[k]
           U == TwoTo[e - k]
           l == lo \div T
           g == lo % T
           z == hi \div P
           d == hi % P
           d1 == d \div T
           d0 == d % T
<1>1. P = T * U /\ P \in Nat \ {0} /\ T \in Nat \ {0} /\ U \in Nat \ {0}
  <2> DEFINE j == e - k
  <2>1. j \in Nat /\ k \in Nat /\ k + j = e OBVIOUS
  <2> HIDE DEF j
  <2>2. TwoTo[k + j] = TwoTo[k] * TwoTo[j] BY <2>1, TwoToSum
  <2> QED BY <2>1, <2>2, TwoToIs DEF j
<1>2. lo \in Int /\ hi \in Int /\ lo \in 0 .. P - 1 BY <1>1
<1> HIDE DEF P, T, U
<1>3. l \in Int /\ g \in 0 .. T - 1 /\ lo = T * l + g BY <1>1, <1>2, Parts
<1>4. z \in Int /\ d \in 0 .. P - 1 /\ hi = P * z + d BY <1>1, <1>2, Parts
<1>5. d \in Int BY <1>1, <1>4
<1>6. d1 \in Int /\ d0 \in 0 .. T - 1 /\ d = T * d1 + d0
  <2> HIDE DEF d
  <2> QED BY <1>1, <1>5, Parts
<1> HIDE DEF l, g, z, d, d1, d0
<1>7. 0 <= l /\ l < U
  <2>1. l < U
    <3> SUFFICES ASSUME l >= U PROVE FALSE BY <1>1, <1>3
    <3>1. T * l >= T * U BY <1>1, <1>3
    <3> DEFINE m == T * l
    <3>2. m \in Int /\ m >= P /\ lo = m + g BY <1>1, <1>3, <3>1
    <3> HIDE DEF m
    <3> QED BY <1>1, <1>2, <1>3, <3>2
  <2>2. 0 <= l
    <3> SUFFICES ASSUME l <= -1 PROVE FALSE BY <1>3
    <3>1. T * l <= 0 - T BY <1>1, <1>3
    <3> DEFINE m == T * l
    <3>2. m \in Int /\ m <= 0 - T /\ lo = m + g BY <1>1, <1>3, <3>1
    <3> HIDE DEF m
    <3> QED BY <1>1, <1>2, <1>3, <3>2
  <2> QED BY <2>1, <2>2
<1> DEFINE r == U * d0
           v == U * d1
           f == U * hi
           uz == U * z
<1>8. r \in 0 .. P - U /\ v \in Int /\ f \in Int /\ uz \in Int
  <2>1. 0 <= d0 /\ d0 <= T - 1 /\ d0 \in Int BY <1>1, <1>6
  <2>2. U * d0 <= U * (T - 1) /\ 0 <= U * d0 BY <1>1, <2>1
  <2>3. U * (T - 1) = P - U BY <1>1
  <2> QED BY <1>1, <1>2, <1>4, <1>6, <2>1, <2>2, <2>3
<1>9. d * U = P * d1 + r
  <2>1. d * U = (T * d1 + d0) * U BY <1>6
  <2>2. (T * d1 + d0) * U = (T * U) * d1 + U * d0
    <3>1. d0 \in Int BY <1>1, <1>6
    <3> QED BY <1>1, <1>6, <3>1
  <2> QED BY <1>1, <2>1, <2>2
<1>10. f = P * (uz + d1) + r
  <2>1. f = (P * z + d) * U BY <1>1, <1>2, <1>4, <1>5
  <2>2. (P * z + d) * U = P * (U * z) + d * U BY <1>1, <1>4, <1>5
  <2>3. P * (U * z) + (P * d1 + r) = P * (U * z + d1) + r
    <3> HIDE DEF r
    <3>1. r \in Int BY <1>1, <1>8
    <3> QED BY <1>1, <1>4, <1>6, <3>1
  <2>4. f = P * (U * z) + (P * d1 + r) BY <1>9, <2>1, <2>2
  <2> QED BY <2>3, <2>4
<1>11. (d * U) % P = r
  <2>1. r \in 0 .. P - 1 BY <1>1, <1>8
  <2> HIDE DEF r
  <2>2. (P * d1 + r) % P = r BY <1>1, <1>6, <2>1, PartsOf
  <2> QED BY <1>9, <2>2, Zenon
<1>12. (lo + P * hi) \div T = l + f
  <2>1. P * hi = T * f BY <1>1, <1>2
  <2>2. T * (l + f) = T * l + T * f
    <3> HIDE DEF f
    <3> QED BY <1>1, <1>3, <1>8
  <2> HIDE DEF f
  <2> DEFINE tl == T * l
             tf == T * f
             lf == l + f
             tlf == T * lf
  <2>3. /\ tl \in Int /\ tf \in Int /\ lf \in Int /\ tlf = tl + tf
        /\ lo = tl + g /\ P * hi = tf
    BY <1>1, <1>3, <1>8, <2>1, <2>2
  <2>4. lo + P * hi = tlf + g
    <3> HIDE DEF tl, tf, tlf
    <3>1. g \in Int BY <1>1, <1>3
    <3> QED BY <2>3, <3>1
  <2>5. (T * lf + g) \div T = lf
    <3> HIDE DEF lf
    <3> QED BY <1>1, <1>3, <2>3, PartsOf
  <2> QED BY <2>4, <2>5
<1>13. (l + f) % P = l + r
  <2> DEFINE q == uz + d1
             s == l + r
  <2>1. q \in Int /\ s \in 0 .. P - 1
    <3> HIDE DEF r, uz
    <3> QED BY <1>1, <1>3, <1>6, <1>7, <1>8
  <2>2. l + f = P * q + s
    <3> DEFINE pq == P * q
    <3>1. pq \in Int
      <4> HIDE DEF q
      <4> QED BY <1>1, <2>1
    <3>2. f = pq + r BY <1>10
    <3> HIDE DEF pq, f, r
    <3>3. l + f = pq + (l + r) BY <1>1, <1>3, <1>8, <3>1, <3>2
    <3> QED BY <3>3 DEF pq
  <2> HIDE DEF q, s
  <2>3. (P * q + s) % P = s BY <1>1, <2>1, PartsOf
  <2> QED BY <2>2, <2>3 DEF s
<1>14. ((lo + P * hi) \div T) % P = l + ((d * U) % P) BY <1>11, <1>12, <1>13
<1> QED BY <1>14 DEF P, T, U, l, d

\* What is left of a value from byte i on, and the byte.
LEMMA RestIs ==
  ASSUME NEW w \in Nat, NEW c \in Bytes(w), NEW i \in 0 .. w - 1
  PROVE  LET rest == Value(c) \div TwoTo[ByteBits * i]
             next == Value(c) \div TwoTo[ByteBits * (i + 1)]
         IN  /\ rest \in Nat /\ next \in Nat /\ c[i] \in 0 .. Base - 1
             /\ rest = c[i] + Base * next /\ c[i] = rest % Base
<1> DEFINE rest == Value(c) \div TwoTo[ByteBits * i]
           next == Value(c) \div TwoTo[ByteBits * (i + 1)]
<1>1. Base = TwoTo[ByteBits] /\ ByteBits \in Nat BY BaseIs
<1>2. i \in Nat /\ i + 1 \in Nat /\ i \in 0 .. w /\ i + 1 \in 0 .. w OBVIOUS
<1>3. rest = Suffixes(Base, c, w)[i] /\ next = Suffixes(Base, c, w)[i + 1]
  BY <1>2, ValueIs
<1>4. Suffixes(Base, c, w)[i] = c[i] + Base * Suffixes(Base, c, w)[i + 1]
  BY ValueIs DEF SumsUp
<1>5. c[i] \in 0 .. Base - 1 BY ImmediateIs DEF Proper
<1>6. c[i] = rest % Base
  <2>1. DigitsOf(c, Value(c), ByteBits, w) BY ValueIs
  <2> QED BY <1>1, <2>1 DEF DigitsOf
<1>7. rest \in Nat /\ next \in Nat
  <2> DEFINE s == TwoTo[ByteBits * i]
             t == TwoTo[ByteBits * (i + 1)]
             v == Value(c)
  <2>1. s \in Nat \ {0} /\ t \in Nat \ {0} /\ v \in Nat BY <1>1, <1>2, Units, ValueIs
  <2> HIDE DEF s, t, v
  <2>2. v \div s \in Nat /\ v \div t \in Nat BY <2>1
  <2> QED BY <2>2 DEF s, t, v
<1> QED BY <1>3, <1>4, <1>5, <1>6, <1>7

LEMMA ShiftRightIs ==
  ASSUME NEW w \in Nat, NEW c \in Bytes(w), NEW count \in Nat
  PROVE  /\ ShiftRight(c, count) \in Bytes(w)
         /\ Value(ShiftRight(c, count)) = Value(c) \div TwoTo[count]
<1> DEFINE d == ShiftRight(c, count)
           v == Value(c)
           value == v \div TwoTo[count]
           s == count \div ByteBits
           k == count % ByteBits
           T == TwoTo[k]
           U == TwoTo[ByteBits - k]
<1>1. /\ Base \in Nat \ {0} /\ Base \in Int /\ ByteBits \in Nat \ {0}
      /\ Base = TwoTo[ByteBits]
  BY BaseIs
<1>2. v \in Nat /\ v \in Int /\ v < TwoTo[ByteBits * w] BY ValueIs
<1>3. s \in Nat /\ k \in 0 .. ByteBits - 1 /\ k \in Nat /\ count = ByteBits * s + k
  <2>1. count \in Int OBVIOUS
  <2>2. s \in Int /\ k \in 0 .. ByteBits - 1 /\ count = ByteBits * s + k
    BY <1>1, <2>1, Parts
  <2>3. s \in Nat BY <1>1
  <2> HIDE DEF k
  <2> QED BY <1>1, <2>2, <2>3
<1>4. d = [i \in 0 .. w - 1 |->
             (IF i + s < w THEN c[i + s] \div T ELSE 0)
             + (IF i + s + 1 < w THEN (c[i + s + 1] * U) % Base ELSE 0)]
  <2>1. DOMAIN c = 0 .. w - 1 /\ width(c) = w BY ImmediateIs
  <2> QED BY <2>1 DEF ShiftRight
<1>5. value \in Nat /\ value <= v
  <2> DEFINE t == TwoTo[count]
  <2>1. t \in Nat \ {0} BY TwoToIs
  <2> HIDE DEF t, v
  <2>2. v \div t \in Nat /\ v \div t <= v BY <1>2, <2>1, QuotientFits
  <2> QED BY <2>2 DEF t
<1> HIDE DEF d, v, s, k
<1>6. ASSUME NEW i \in 0 .. w - 1
      PROVE  d[i] = (value \div TwoTo[ByteBits * i]) % TwoTo[ByteBits]
  <2> DEFINE j == i + s
             rest == v \div TwoTo[ByteBits * j]
             next == v \div TwoTo[ByteBits * (j + 1)]
  <2>1. j \in Nat /\ i \in Nat /\ ByteBits * i \in Nat /\ ByteBits * j \in Nat
        /\ j + 1 \in Nat
    BY <1>1, <1>3, Units
  <2>2. value \div TwoTo[ByteBits * i] = rest \div T
    <3> DEFINE p == TwoTo[count]
               q == TwoTo[ByteBits * i]
               r == TwoTo[ByteBits * j]
    <3>1. count + ByteBits * i = ByteBits * j + k BY <1>1, <1>3, <2>1
    <3>2. TwoTo[count + ByteBits * i] = p * q BY <2>1, TwoToSum
    <3>3. TwoTo[ByteBits * j + k] = r * T BY <1>3, <2>1, TwoToSum
    <3>4. p * q = r * T BY <3>1, <3>2, <3>3
    <3>5. p \in Nat \ {0} /\ q \in Nat \ {0} /\ r \in Nat \ {0} /\ T \in Nat \ {0}
      BY <1>3, <2>1, TwoToIs
    <3> HIDE DEF p, q, r, T
    <3>6. v \div (p * q) = (v \div p) \div q BY <1>2, <3>5, PartsTwice
    <3>7. v \div (r * T) = (v \div r) \div T BY <1>2, <3>5, PartsTwice
    <3>8. (v \div p) \div q = (v \div r) \div T BY <3>4, <3>6, <3>7
    <3> QED BY <3>8 DEF p, q, r
  <2>3. CASE j < w
    <3>1. j \in 0 .. w - 1 BY <2>1, <2>3
    <3>2. rest \in Nat /\ next \in Nat /\ c[j] \in 0 .. Base - 1
          /\ rest = c[j] + Base * next
      BY <3>1, RestIs DEF v
    <3> HIDE DEF rest, next
    <3>3. (rest \div T) % Base = (c[j] \div T) + (((next % Base) * U) % Base)
      <4>1. k \in 0 .. ByteBits BY <1>1, <1>3
      <4>2. c[j] \in 0 .. TwoTo[ByteBits] - 1 BY <1>1, <3>2
      <4>3. ((c[j] + TwoTo[ByteBits] * next) \div TwoTo[k]) % TwoTo[ByteBits]
            = (c[j] \div TwoTo[k])
              + (((next % TwoTo[ByteBits]) * TwoTo[ByteBits - k]) % TwoTo[ByteBits])
        BY <1>1, <3>2, <4>1, <4>2, Straddle
      <4> QED BY <1>1, <3>2, <4>3
    <3>4. ((next % Base) * U) % Base = IF j + 1 < w THEN (c[j + 1] * U) % Base ELSE 0
      <4>1. CASE j + 1 < w
        <5>1. j + 1 \in 0 .. w - 1 BY <2>1, <4>1
        <5>2. c[j + 1] = next % Base BY <5>1, RestIs DEF next, v
        <5> QED BY <4>1, <5>2
      <4>2. CASE j + 1 >= w
        <5>1. j + 1 = w BY <2>1, <2>3, <4>2
        <5>2. next = 0
          <6> DEFINE t == TwoTo[ByteBits * w]
          <6>1. next = v \div t BY <5>1 DEF next
          <6>2. t \in Nat \ {0} /\ v \in 0 .. t - 1 BY <1>1, <1>2, Units
          <6> HIDE DEF t
          <6>3. v \div t = 0 BY <6>2
          <6> QED BY <6>1, <6>3
        <5>3. U \in Nat
          <6>1. ByteBits - k \in Nat BY <1>1, <1>3
          <6> QED BY <6>1, TwoToIs
        <5> HIDE DEF U
        <5>4. 0 % Base = 0 /\ 0 * U = 0 BY <1>1, <5>3
        <5> QED BY <4>2, <5>1, <5>2, <5>4
      <4> QED BY <2>1, <4>1, <4>2
    <3>5. d[i] = (c[j] \div T) + (IF j + 1 < w THEN (c[j + 1] * U) % Base ELSE 0)
      BY <1>4, <2>3
    <3> HIDE DEF T, U, j
    <3> QED BY <1>1, <2>2, <3>3, <3>4, <3>5
  <2>4. CASE j >= w
    <3>1. d[i] = 0 BY <1>4, <2>1, <2>4
    <3>2. rest = 0
      <4> DEFINE t == TwoTo[ByteBits * j]
      <4>1. TwoTo[ByteBits * w] <= t
        <5>1. ByteBits * w \in Nat /\ ByteBits * w <= ByteBits * j
          BY <1>1, <2>1, <2>4
        <5> QED BY <2>1, <5>1, TwoToRises
      <4>2. TwoTo[ByteBits * w] \in Nat /\ t \in Nat \ {0} BY <1>1, <2>1, Units, TwoToIs
      <4> HIDE DEF t
      <4>3. v \in 0 .. t - 1 BY <1>2, <4>1, <4>2
      <4>4. v \div t = 0 BY <4>2, <4>3
      <4> QED BY <4>4 DEF t
    <3>3. T \in Nat \ {0} BY <1>3, TwoToIs
    <3> HIDE DEF T, rest
    <3>4. 0 \div T = 0 /\ 0 % TwoTo[ByteBits] = 0 BY <1>1, <3>3
    <3> QED BY <2>2, <3>1, <3>2, <3>4
  <2> QED BY <2>1, <2>3, <2>4
<1>7. DOMAIN d = 0 .. w - 1 /\ d = [i \in DOMAIN d |-> d[i]] BY <1>4
<1> HIDE DEF value
<1>8. DigitsOf(d, value, ByteBits, w) BY <1>6 DEF DigitsOf
<1>9. value < TwoTo[ByteBits * w]
  <2>1. TwoTo[ByteBits * w] \in Nat BY <1>1, Units
  <2> QED BY <1>2, <1>5, <2>1
<1>10. d \in Bytes(w) /\ Value(d) = value BY <1>5, <1>7, <1>8, <1>9, ValueOfDigits
<1> QED BY <1>10 DEF d, value, v

LEMMA ShiftLeftIs ==
  ASSUME NEW w \in Nat, NEW c \in Bytes(w), NEW count \in Nat
  PROVE  /\ ShiftLeft(c, count) \in Bytes(w)
         /\ Value(ShiftLeft(c, count))
            = (Value(c) * TwoTo[count]) % TwoTo[ByteBits * w]
<1> DEFINE d == ShiftLeft(c, count)
           v == Value(c)
           P == TwoTo[ByteBits * w]
           wide == v * TwoTo[count]
           value == wide % P
           s == count \div ByteBits
           k == count % ByteBits
           T == TwoTo[k]
           U == TwoTo[ByteBits - k]
<1>1. /\ Base \in Nat \ {0} /\ Base \in Int /\ ByteBits \in Nat \ {0}
      /\ Base = TwoTo[ByteBits]
  BY BaseIs
<1>2. v \in Nat /\ v \in Int BY ValueIs
<1>3. s \in Nat /\ k \in 0 .. ByteBits - 1 /\ k \in Nat /\ count = ByteBits * s + k
  <2>1. count \in Int OBVIOUS
  <2>2. s \in Int /\ k \in 0 .. ByteBits - 1 /\ count = ByteBits * s + k
    BY <1>1, <2>1, Parts
  <2>3. s \in Nat BY <1>1
  <2> HIDE DEF k
  <2> QED BY <1>1, <2>2, <2>3
<1>4. d = [i \in 0 .. w - 1 |->
             (IF i >= s THEN (c[i - s] * T) % Base ELSE 0)
             + (IF i > s THEN c[i - s - 1] \div U ELSE 0)]
  <2>1. DOMAIN c = 0 .. w - 1 BY ImmediateIs
  <2> QED BY <2>1 DEF ShiftLeft
<1>5. wide \in Nat
  <2>1. TwoTo[count] \in Nat BY TwoToIs
  <2> HIDE DEF v
  <2> QED BY <1>2, <2>1
<1>6. Base = T * U /\ T \in Nat \ {0} /\ U \in Nat \ {0}
  <2> DEFINE j == ByteBits - k
  <2>1. j \in Nat /\ k + j = ByteBits BY <1>1, <1>3
  <2> HIDE DEF j, k
  <2>2. TwoTo[k + j] = TwoTo[k] * TwoTo[j] BY <1>3, <2>1, TwoToSum
  <2> QED BY <1>1, <1>3, <2>1, <2>2, TwoToIs DEF j
<1>7. P \in Nat \ {0} BY <1>1, Units
<1> HIDE DEF d, v, s, k, T, U
<1>8. TwoTo[count] = TwoTo[ByteBits * s] * T
  <2>1. ByteBits * s \in Nat BY <1>1, <1>3
  <2> QED BY <1>3, <2>1, TwoToSum DEF T
<1>9. ASSUME NEW i \in 0 .. w - 1
      PROVE  d[i] = (wide \div TwoTo[ByteBits * i]) % Base
  <2>1. i \in Nat BY <1>1
  <2>2. CASE i < s
    <3> DEFINE t == TwoTo[ByteBits * i]
               g == TwoTo[ByteBits * (s - (i + 1))]
               m == v * g * T
    <3>1. i + 1 \in Nat /\ s - (i + 1) \in Nat /\ (i + 1) + (s - (i + 1)) = s
      BY <1>3, <2>1, <2>2
    <3>2. t \in Nat \ {0} /\ TwoTo[ByteBits * (i + 1)] = t * Base /\ g \in Nat \ {0}
      BY <1>1, <2>1, <3>1, Units
    <3>3. TwoTo[ByteBits * s] = (t * Base) * g
      <4> DEFINE p == ByteBits * (i + 1)
                 q == ByteBits * (s - (i + 1))
      <4>1. p \in Nat /\ q \in Nat /\ p + q = ByteBits * s BY <1>1, <3>1
      <4>2. TwoTo[p + q] = TwoTo[p] * TwoTo[q]
        <5> HIDE DEF p, q
        <5> QED BY <4>1, TwoToSum
      <4> QED BY <3>2, <4>1, <4>2
    <3> HIDE DEF t, g
    <3>4. m \in Nat
      <4>1. v * g \in Nat BY <1>2, <3>2
      <4> DEFINE vg == v * g
      <4> HIDE DEF vg
      <4>2. vg * T \in Nat BY <1>6, <4>1 DEF vg
      <4> QED BY <4>2 DEF vg
    <3>5. wide = (m * Base) * t
      <4>1. wide = v * (((t * Base) * g) * T) BY <1>8, <3>3
      <4>2. v * (((t * Base) * g) * T) = (m * Base) * t BY <1>1, <1>2, <1>6, <3>2
      <4> QED BY <4>1, <4>2
    <3>6. wide \div t = m * Base
      <4> DEFINE q == m * Base
      <4>1. q \in Int /\ 0 \in 0 .. t - 1
        <5> HIDE DEF m
        <5> QED BY <1>1, <3>2, <3>4
      <4> HIDE DEF q
      <4>2. (t * q + 0) \div t = q BY <3>2, <4>1, PartsOf
      <4>3. wide = q * t BY <3>5 DEF q
      <4> HIDE DEF wide
      <4>4. t * q + 0 = q * t BY <3>2, <4>1
      <4> QED BY <4>2, <4>3, <4>4 DEF q
    <3>7. (m * Base) % Base = 0
      <4> HIDE DEF m
      <4>1. m \in Int /\ 0 \in 0 .. Base - 1 BY <1>1, <3>4
      <4>2. (Base * m + 0) % Base = 0 BY <1>1, <4>1, PartsOf
      <4>3. Base * m + 0 = m * Base BY <1>1, <3>4
      <4> QED BY <4>2, <4>3
    <3>8. d[i] = 0 BY <1>3, <1>4, <2>1, <2>2
    <3> QED BY <3>6, <3>7, <3>8 DEF t
  <2>3. CASE i >= s
    <3> DEFINE j == i - s
               t == TwoTo[ByteBits * s]
               z == TwoTo[ByteBits * j]
    <3>1. j \in Nat /\ j \in 0 .. w - 1 /\ i = s + j BY <1>3, <2>1, <2>3
    <3>2. TwoTo[ByteBits * i] = t * z /\ t \in Nat \ {0} /\ z \in Nat \ {0}
      <4> DEFINE p == ByteBits * s
                 q == ByteBits * j
      <4>1. p \in Nat /\ q \in Nat /\ p + q = ByteBits * i BY <1>1, <1>3, <3>1
      <4>2. TwoTo[p + q] = TwoTo[p] * TwoTo[q]
        <5> HIDE DEF p, q
        <5> QED BY <4>1, TwoToSum
      <4> QED BY <4>1, <4>2, TwoToIs
    <3> HIDE DEF t, z, j
    <3>3. wide \div TwoTo[ByteBits * i] = (v * T) \div z
      <4> DEFINE u == v * T
      <4>1. u \in Int BY <1>2, <1>6
      <4>2. wide = u * t
        <5>1. wide = v * (t * T) BY <1>8 DEF t
        <5>2. v * (t * T) = (v * T) * t BY <1>2, <1>6, <3>2
        <5> QED BY <5>1, <5>2
      <4> HIDE DEF u, wide
      <4>3. (u * t) \div (t * z) = u \div z BY <3>2, <4>1, Cancelled
      <4>4. (u * t) \div (t * z) = wide \div TwoTo[ByteBits * i] BY <3>2, <4>2
      <4> QED BY <4>3, <4>4 DEF u
    <3>4. CASE j = 0
      <4>1. z = 1 BY <1>1, <3>4, Units DEF z
      <4> DEFINE next == v \div TwoTo[ByteBits * (0 + 1)]
                 rest == v \div TwoTo[ByteBits * 0]
                 h == next * T
                 p == c[0] * T
                 q == p \div Base
                 r == p % Base
      <4>2. 0 \in 0 .. w - 1 BY <3>1, <3>4
      <4>3. next \in Nat /\ c[0] \in 0 .. Base - 1 /\ rest = c[0] + Base * next
        BY <4>2, RestIs DEF v
      <4>4. rest = v
        <5>1. TwoTo[ByteBits * 0] = 1 BY <1>1, TwoToIs
        <5> QED BY <1>2, <5>1
      <4> HIDE DEF next, rest
      <4>5. h \in Int /\ p \in Int BY <1>1, <1>6, <4>3
      <4>6. q \in Int /\ r \in 0 .. Base - 1 /\ p = Base * q + r
        <5> HIDE DEF p
        <5> QED BY <1>1, <4>5, Parts
      <4>7. v * T = p + Base * h
        <5>1. v = c[0] + Base * next BY <4>3, <4>4
        <5>2. (c[0] + Base * next) * T = c[0] * T + Base * (next * T)
          <6>1. c[0] \in Int /\ next \in Int BY <1>1, <4>3
          <6> QED BY <1>1, <1>6, <6>1
        <5>3. v * T = (c[0] + Base * next) * T BY <5>1
        <5> QED BY <5>2, <5>3
      <4> HIDE DEF h, p, q, r
      <4>8. v * T = Base * (h + q) + r
        <5>1. Base * (h + q) = Base * h + Base * q BY <1>1, <4>5, <4>6
        <5> DEFINE bh == Base * h
                   bq == Base * q
                   bhq == Base * (h + q)
                   vt == v * T
        <5>2. bh \in Int /\ bq \in Int /\ bhq = bh + bq /\ vt = p + bh /\ p = bq + r
          BY <1>1, <4>5, <4>6, <4>7, <5>1
        <5> HIDE DEF bh, bq, bhq, vt
        <5>3. r \in Int BY <1>1, <4>6
        <5>4. vt = bhq + r BY <5>2, <5>3
        <5> QED BY <5>4 DEF vt, bhq
      <4>9. (v * T) % Base = r
        <5> DEFINE hq == h + q
        <5>1. hq \in Int BY <4>5, <4>6
        <5>2. v * T = Base * hq + r BY <4>8
        <5> HIDE DEF hq
        <5>3. (Base * hq + r) % Base = r BY <1>1, <4>6, <5>1, PartsOf
        <5> QED BY <5>2, <5>3, Zenon
      <4>10. (v * T) \div z = v * T
        <5> DEFINE u == v * T
        <5>1. u \in Int BY <1>2, <1>6
        <5> HIDE DEF u
        <5>2. u \div 1 = u BY <5>1
        <5> QED BY <4>1, <5>2 DEF u
      <4>11. d[i] = r
        <5>1. i - s = 0 /\ ~(i > s) /\ i >= s BY <1>3, <2>1, <3>1, <3>4
        <5>2. d[i] = ((c[0] * T) % Base) + 0 BY <1>4, <5>1
        <5>3. d[i] = r + 0 BY <5>2 DEF r, p
        <5>4. r \in Int BY <1>1, <4>6
        <5> QED BY <5>3, <5>4
      <4> QED BY <3>3, <4>9, <4>10, <4>11
    <3>5. CASE j > 0
      <4> DEFINE l == j - 1
                 y0 == TwoTo[ByteBits * l]
                 rest == v \div y0
                 next == v \div TwoTo[ByteBits * (l + 1)]
      <4>1. l \in Nat /\ l \in 0 .. w - 1 /\ l + 1 = j BY <3>1, <3>5
      <4>2. z = y0 * Base /\ y0 \in Nat \ {0} BY <1>1, <4>1, Units DEF z
      <4>3. /\ rest \in Nat /\ next \in Nat /\ c[l] \in 0 .. Base - 1
            /\ rest = c[l] + Base * next
        BY <4>1, RestIs DEF v
      <4>4. c[j] = next % Base BY <3>1, <4>1, RestIs DEF v
      <4>5. (v * T) \div z = rest \div U
        <5> DEFINE g == y0 * U
        <5>1. z = T * g /\ g \in Nat \ {0}
          <6> HIDE DEF y0
          <6> QED BY <1>6, <4>2
        <5> HIDE DEF y0, g
        <5>2. (v * T) \div (T * g) = v \div g BY <1>2, <1>6, <5>1, Cancelled
        <5>3. v \div (y0 * U) = (v \div y0) \div U BY <1>2, <1>6, <4>2, PartsTwice
        <5>4. v \div g = rest \div U BY <5>3 DEF g
        <5>5. (v * T) \div z = v \div g BY <5>1, <5>2, Zenon
        <5> QED BY <5>4, <5>5, Zenon
      <4> HIDE DEF rest, next
      <4>6. (rest \div U) % Base = (c[l] \div U) + (((next % Base) * T) % Base)
        <5> DEFINE h == ByteBits - k
        <5>1. h \in 0 .. ByteBits /\ ByteBits - h = k BY <1>1, <1>3
        <5>2. c[l] \in 0 .. TwoTo[ByteBits] - 1 BY <1>1, <4>3
        <5> HIDE DEF h
        <5>3. ((c[l] + TwoTo[ByteBits] * next) \div TwoTo[h]) % TwoTo[ByteBits]
              = (c[l] \div TwoTo[h])
                + (((next % TwoTo[ByteBits]) * TwoTo[ByteBits - h]) % TwoTo[ByteBits])
          <6>1. ByteBits \in Nat BY <1>1
          <6>2. next \in Nat BY <4>3
          <6>3. h \in 0 .. ByteBits BY <5>1
          <6> QED BY <5>2, <6>1, <6>2, <6>3, Straddle, Zenon
        <5>4. U = TwoTo[h] /\ T = TwoTo[ByteBits - h] BY <5>1 DEF U, T, h
        <5> QED BY <1>1, <4>3, <5>3, <5>4
      <4>7. d[i] = ((c[j] * T) % Base) + (c[l] \div U)
        <5>1. i - s = j /\ i > s /\ i >= s /\ i - s - 1 = l BY <1>3, <2>1, <3>1, <3>5
        <5>2. d[i] = ((c[i - s] * T) % Base) + (c[i - s - 1] \div U) BY <1>4, <5>1
        <5> QED BY <5>1, <5>2
      <4> DEFINE hi == (c[j] * T) % Base
                 lo == c[l] \div U
      <4>8. hi \in Int /\ lo \in Int
        <5>1. c[j] \in Int /\ c[l] \in Int BY <1>1, <3>1, <4>1, ImmediateIs DEF Digits
        <5>2. lo \in Int BY <1>6, <5>1, Parts
        <5> DEFINE p == c[j] * T
        <5>3. p \in Int BY <1>6, <5>1
        <5> HIDE DEF p
        <5>4. p % Base \in Int BY <1>1, <5>3
        <5> QED BY <5>2, <5>4 DEF p
      <4>9. (rest \div U) % Base = lo + hi BY <4>4, <4>6
      <4>10. d[i] = hi + lo BY <4>7
      <4> HIDE DEF hi, lo, l
      <4>11. d[i] = (rest \div U) % Base BY <4>8, <4>9, <4>10
      <4> QED BY <3>3, <4>5, <4>11
    <3> QED BY <3>1, <3>4, <3>5
  <2> QED BY <1>3, <2>1, <2>2, <2>3
<1> HIDE DEF wide
<1>10. ASSUME NEW i \in 0 .. w - 1
       PROVE  d[i] = (value \div TwoTo[ByteBits * i]) % TwoTo[ByteBits]
  <2> DEFINE s0 == TwoTo[ByteBits * i]
             m == w - (i + 1)
             z == TwoTo[ByteBits * m]
  <2>1. i \in Nat /\ i + 1 \in Nat /\ m \in Nat /\ (i + 1) + m = w OBVIOUS
  <2>2. s0 \in Nat \ {0} /\ z \in Nat \ {0} /\ TwoTo[ByteBits * (i + 1)] = s0 * Base
    BY <1>1, <2>1, Units
  <2>3. P = (s0 * Base) * z
    <3> DEFINE p == ByteBits * (i + 1)
               q == ByteBits * m
    <3>1. p \in Nat /\ q \in Nat /\ p + q = ByteBits * w BY <1>1, <2>1
    <3>2. TwoTo[p + q] = TwoTo[p] * TwoTo[q]
      <4> HIDE DEF p, q
      <4> QED BY <3>1, TwoToSum
    <3> QED BY <2>2, <3>1, <3>2
  <2> HIDE DEF s0, z, P
  <2>4. P = s0 * (Base * z) BY <1>1, <2>2, <2>3
  <2>5. ((wide % (s0 * (Base * z))) \div s0) % Base = (wide \div s0) % Base
    <3>1. wide \in Int BY <1>5
    <3>2. s0 \in Nat \ {0} BY <2>2
    <3>3. z \in Nat \ {0} BY <2>2
    <3>4. Base \in Nat \ {0} BY <1>1
    <3> HIDE DEF m
    <3> QED BY <3>1, <3>2, <3>3, <3>4, DigitOfRemainder, Zenon
  <2>6. (value \div s0) % Base = (wide \div s0) % Base BY <2>4, <2>5, Zenon
  <2> QED BY <1>1, <1>9, <2>6 DEF s0
<1>11. DOMAIN d = 0 .. w - 1 /\ d = [i \in DOMAIN d |-> d[i]] BY <1>4
<1>12. value \in Nat /\ value < P BY <1>5, <1>7
<1> HIDE DEF value
<1>13. DigitsOf(d, value, ByteBits, w) BY <1>10 DEF DigitsOf
<1>14. d \in Bytes(w) /\ Value(d) = value BY <1>11, <1>12, <1>13, ValueOfDigits
<1> QED BY <1>14 DEF d, value, v, wide

-----------------------------------------------------------------------------
(* Products.                                                                *)

\* A sum of m terms, each at most u.
Terms(t, u, m) == \A r \in 0 .. m - 1 : t[r] \in 0 .. u

LEMMA SumIs ==
  ASSUME NEW m \in Nat, NEW u \in Nat, NEW t, Terms(t, u, m)
  PROVE  Number(1, t, m) \in Nat /\ Number(1, t, m) <= u * m
<1> DEFINE s == Suffixes(1, t, m)
           S == {i \in 0 .. m : s[i] \in Nat /\ s[i] <= u * (m - i)}
<1>1. Digits(t, m) BY DEF Digits, Terms
<1>2. s \in [0 .. m -> Int] /\ SumsUp(s, 1, t, m)
  <2>1. 1 \in Int OBVIOUS
  <2> QED BY <1>1, <2>1, SuffixesIs
<1> HIDE DEF s
<1>3. m \in S
  <2>1. s[m] = 0 BY <1>2 DEF SumsUp
  <2>2. u * (m - m) = 0 OBVIOUS
  <2> QED BY <2>1, <2>2
<1>4. ASSUME NEW i \in 0 .. m - 1, i + 1 \in S PROVE i \in S
  <2>1. s[i] = t[i] + 1 * s[i + 1] BY <1>2 DEF SumsUp
  <2>2. s[i + 1] \in Nat /\ s[i + 1] <= u * (m - (i + 1)) BY <1>4
  <2>3. t[i] \in 0 .. u BY DEF Terms
  <2>4. u * (m - i) = u * (m - (i + 1)) + u OBVIOUS
  <2> DEFINE p == u * (m - i)
             q == u * (m - (i + 1))
  <2>5. p = q + u /\ q \in Int /\ s[i + 1] <= q BY <2>2, <2>4
  <2>6. s[i] = t[i] + s[i + 1] BY <2>1, <2>2
  <2> HIDE DEF p, q
  <2>7. s[i] \in Nat /\ s[i] <= p BY <2>2, <2>3, <2>5, <2>6
  <2>8. i \in 0 .. m OBVIOUS
  <2> QED BY <2>7, <2>8 DEF p
<1>5. 0 \in S
  <2> HIDE DEF S
  <2>1. \A i \in 0 .. m : i \in S BY <1>3, <1>4, DownFrom
  <2> QED BY <2>1
<1>6. s[0] \in Nat /\ s[0] <= u * m BY <1>5
<1> QED BY <1>6 DEF Number, s

\* Zeros in front of a numeral and behind it.
Raised(e, d, r, m) ==
  \A i \in 0 .. 2 * m - 1 : e[i] = IF r <= i /\ i - r < m THEN d[i - r] ELSE 0

LEMMA RaisedIs ==
  ASSUME NEW m \in Nat, NEW d, Digits(d, m), NEW r \in 0 .. m, NEW e, Raised(e, d, r, m)
  PROVE  Digits(e, 2 * m)
         /\ Number(Base, e, 2 * m) = TwoTo[ByteBits * r] * Number(Base, d, m)
<1> DEFINE s == Suffixes(Base, e, 2 * m)
           zeros == [i \in 0 .. r - 1 |-> 0]
<1>1. Base \in Int /\ Base \in Nat /\ ByteBits \in Nat /\ Base = TwoTo[ByteBits] BY BaseIs
<1>2. r \in Nat /\ 2 * m \in Nat /\ r + m \in 0 .. 2 * m /\ 0 + r = r /\ r <= 2 * m OBVIOUS
<1>3. Digits(e, 2 * m)
  <2> SUFFICES ASSUME NEW i \in 0 .. 2 * m - 1 PROVE e[i] \in Int BY DEF Digits
  <2>1. r <= i /\ i - r < m => i - r \in 0 .. m - 1 OBVIOUS
  <2> QED BY <2>1 DEF Raised, Digits
<1>4. s[r + m] = 0
  <2> DEFINE k == r + m
             v == 0
  <2>1. Filled(e, v, k, 2 * m)
    <3> SUFFICES ASSUME NEW i \in k .. 2 * m - 1 PROVE e[i] = 0 BY DEF Filled
    <3>1. i \in 0 .. 2 * m - 1 /\ ~(i - r < m) BY <1>2
    <3> QED BY <3>1 DEF Raised
  <2>2. v \in {0, 1} /\ v # 1 OBVIOUS
  <2> HIDE DEF v
  <2> QED BY <1>2, <1>3, <2>1, <2>2, FilledIs
<1>5. s[r] = Number(Base, d, m) + TwoTo[ByteBits * m] * s[r + m]
  <2>1. Piece(d, e, r, m)
    <3> SUFFICES ASSUME NEW u \in 0 .. m - 1 PROVE d[u] = e[r + u] BY DEF Piece
    <3>1. r + u \in 0 .. 2 * m - 1 /\ r <= r + u /\ (r + u) - r = u BY <1>2
    <3> QED BY <3>1 DEF Raised
  <2>2. r + m <= 2 * m OBVIOUS
  <2>3. Suffixes(TwoTo[ByteBits], e, 2 * m)[r]
        = Number(TwoTo[ByteBits], d, m)
          + TwoTo[ByteBits * m] * Suffixes(TwoTo[ByteBits], e, 2 * m)[r + m]
    BY <1>1, <1>2, <1>3, <2>1, <2>2, Cut
  <2> QED BY <1>1, <2>3
<1>6. s[0] = Number(Base, zeros, r) + TwoTo[ByteBits * r] * s[r]
  <2>1. Piece(zeros, e, 0, r)
    <3> SUFFICES ASSUME NEW u \in 0 .. r - 1 PROVE zeros[u] = e[0 + u] BY DEF Piece
    <3>1. 0 + u \in 0 .. 2 * m - 1 /\ ~(r <= 0 + u) BY <1>2
    <3> QED BY <3>1 DEF Raised
  <2> HIDE DEF zeros
  <2>2. 0 \in Nat /\ 0 + r <= 2 * m BY <1>2
  <2>3. Suffixes(TwoTo[ByteBits], e, 2 * m)[0]
        = Number(TwoTo[ByteBits], zeros, r)
          + TwoTo[ByteBits * r] * Suffixes(TwoTo[ByteBits], e, 2 * m)[0 + r]
    BY <1>1, <1>2, <1>3, <2>1, <2>2, Cut
  <2> QED BY <1>1, <1>2, <2>3
<1>7. Number(Base, zeros, r) = 0
  <2> DEFINE f == [i \in 0 .. r |-> 0]
  <2>1. Base * 0 = 0 BY <1>1
  <2>2. SumsUp(f, Base, zeros, r)
    <3>1. \A i \in 0 .. r - 1 : f[i] = 0 /\ zeros[i] = 0 /\ f[i + 1] = 0 OBVIOUS
    <3>2. f[r] = 0 BY <1>2
    <3> QED BY <2>1, <3>1, <3>2 DEF SumsUp
  <2>3. Digits(zeros, r) BY DEF Digits
  <2>4. f[0] = 0 OBVIOUS
  <2> HIDE DEF f, zeros
  <2> QED BY <1>1, <1>2, <2>2, <2>3, <2>4, NumberIs
<1> HIDE DEF zeros
<1>8. Number(Base, d, m) \in Int
  <2>1. Suffixes(Base, d, m) \in [0 .. m -> Int] BY <1>1, SuffixesIs
  <2>2. 0 \in 0 .. m OBVIOUS
  <2> QED BY <2>1, <2>2 DEF Number
<1>9. s[r] = Number(Base, d, m)
  <2>1. TwoTo[ByteBits * m] \in Nat BY <1>1, Units
  <2>2. TwoTo[ByteBits * m] * 0 = 0 BY <2>1
  <2> HIDE DEF s
  <2>3. s[r] = Number(Base, d, m) + 0 BY <1>4, <1>5, <2>2
  <2> QED BY <1>8, <2>3
<1>10. s[0] = TwoTo[ByteBits * r] * Number(Base, d, m)
  <2>1. TwoTo[ByteBits * r] \in Nat BY <1>1, <1>2, Units
  <2> DEFINE p == TwoTo[ByteBits * r] * Number(Base, d, m)
  <2>2. p \in Int BY <1>8, <2>1
  <2> HIDE DEF s
  <2>3. s[0] = 0 + TwoTo[ByteBits * r] * s[r] BY <1>6, <1>7
  <2>4. s[0] = 0 + p BY <1>9, <2>3
  <2> HIDE DEF p
  <2>5. s[0] = p BY <2>2, <2>4
  <2> QED BY <2>5 DEF p
<1> QED BY <1>3, <1>10 DEF Number, s

\* The products of bytes on a diagonal, as in Low and High but whole.
Products(c, d, w, i) ==
  [r \in 0 .. w - 1 |-> IF OnDiagonal(i, r, w) THEN c[r] * d[i - r] ELSE 0]
SumsOf(sum, c, d, w) ==
  \A i \in 0 .. 2 * w - 1 : sum[i] = Number(1, Products(c, d, w, i), w)

LEMMA ProductsAre ==
  ASSUME NEW w \in Nat, NEW c \in Bytes(w), NEW d \in Bytes(w), NEW i \in 0 .. 2 * w - 1
  PROVE  /\ Digits(Products(c, d, w, i), w)
         /\ \A r \in 0 .. w - 1 : OnDiagonal(i, r, w) =>
              c[r] \in 0 .. Base - 1 /\ d[i - r] \in 0 .. Base - 1 /\ c[r] * d[i - r] \in Nat
<1>1. Proper(c, Base, w) /\ Proper(d, Base, w) BY ImmediateIs
<1>2. ASSUME NEW r \in 0 .. w - 1, OnDiagonal(i, r, w)
      PROVE  c[r] \in 0 .. Base - 1 /\ d[i - r] \in 0 .. Base - 1 /\ c[r] * d[i - r] \in Nat
  <2>1. i - r \in 0 .. w - 1 BY <1>2 DEF OnDiagonal
  <2>2. c[r] \in 0 .. Base - 1 /\ d[i - r] \in 0 .. Base - 1 BY <1>1, <2>1 DEF Proper
  <2>3. c[r] \in Nat /\ d[i - r] \in Nat BY <2>2, BaseIs
  <2> QED BY <2>2, <2>3
<1>3. Digits(Products(c, d, w, i), w)
  <2> SUFFICES ASSUME NEW r \in 0 .. w - 1 PROVE Products(c, d, w, i)[r] \in Int BY DEF Digits
  <2>1. Products(c, d, w, i)[r] = IF OnDiagonal(i, r, w) THEN c[r] * d[i - r] ELSE 0
    BY DEF Products
  <2>2. OnDiagonal(i, r, w) => c[r] * d[i - r] \in Int BY <1>2
  <2> QED BY <2>1, <2>2
<1> QED BY <1>2, <1>3

\* The sums along the diagonals are the digits of the product.
LEMMA ConvolutionIs ==
  ASSUME NEW w \in Nat, NEW c \in Bytes(w), NEW d \in Bytes(w), NEW sum, SumsOf(sum, c, d, w)
  PROVE  Digits(sum, 2 * w) /\ Number(Base, sum, 2 * w) = Value(c) * Value(d)
<1> DEFINE M == 2 * w
           V == Value(d)
           s == Suffixes(Base, c, w)
           C(r) == [i \in 0 .. M - 1 |-> Suffixes(1, Products(c, d, w, i), w)[r]]
           Is(r) == Digits(C(r), M) /\ Number(Base, C(r), M) = TwoTo[ByteBits * r] * (s[r] * V)
           S == {r \in 0 .. w : Is(r)}
           one == 1
<1>1. /\ Base \in Nat /\ Base \in Int /\ ByteBits \in Nat /\ M \in Nat /\ one \in Int
      /\ Base = TwoTo[ByteBits]
  BY BaseIs
<1>2. V \in Int /\ SumsUp(s, Base, c, w) /\ s[0] = Value(c) /\ Digits(d, w) /\ Digits(c, w)
      /\ V = Number(Base, d, w) /\ Value(c) \in Int
  BY ValueIs, ImmediateIs
<1>3. s \in [0 .. w -> Int] BY <1>1, <1>2, SuffixesIs
<1> HIDE DEF s, V
<1>4. ASSUME NEW i \in 0 .. M - 1
      PROVE  /\ Suffixes(1, Products(c, d, w, i), w) \in [0 .. w -> Int]
             /\ SumsUp(Suffixes(1, Products(c, d, w, i), w), 1, Products(c, d, w, i), w)
  <2>1. Digits(Products(c, d, w, i), w) BY <1>4, ProductsAre
  <2> HIDE DEF one
  <2>2. /\ Suffixes(one, Products(c, d, w, i), w) \in [0 .. w -> Int]
        /\ SumsUp(Suffixes(one, Products(c, d, w, i), w), one, Products(c, d, w, i), w)
    BY <1>1, <2>1, SuffixesIs
  <2> QED BY <2>2 DEF one
<1>5. ASSUME NEW r \in 0 .. w PROVE Digits(C(r), M)
  BY <1>4 DEF Digits
<1>6. w \in S
  <2> DEFINE z == C(w)
             k == 0
             v == 0
  <2>1. \A i \in 0 .. M - 1 : z[i] = 0 BY <1>4 DEF SumsUp
  <2>2. Digits(z, M) BY <1>5
  <2> HIDE DEF z
  <2>3. Filled(z, v, k, M) BY <2>1 DEF Filled
  <2>4. k \in 0 .. M /\ v \in {0, 1} /\ v # 1 BY <1>1
  <2> HIDE DEF k, v, M
  <2>5. Suffixes(Base, z, M)[k] = 0 BY <1>1, <2>2, <2>3, <2>4, FilledIs
  <2>6. Number(Base, z, M) = 0 BY <2>5 DEF Number, k
  <2>7. s[w] = 0 /\ 0 * V = 0 BY <1>2 DEF SumsUp
  <2>8. TwoTo[ByteBits * w] \in Nat BY <1>1, Units
  <2>9. TwoTo[ByteBits * w] * 0 = 0 BY <2>8
  <2>10. TwoTo[ByteBits * w] * (s[w] * V) = 0 BY <2>7, <2>9
  <2>11. Is(w) BY <2>2, <2>6, <2>10 DEF z
  <2> HIDE DEF Is
  <2> QED BY <2>11
<1>7. ASSUME NEW r \in 0 .. w - 1, r + 1 \in S PROVE r \in S
  <2> DEFINE E == [i \in 0 .. M - 1 |-> IF r <= i /\ i - r < w THEN d[i - r] ELSE 0]
             k == c[r]
             z == C(r)
             u == C(r + 1)
             t == TwoTo[ByteBits * r]
             q == s[r + 1]
  <2>1. r \in Nat /\ r \in 0 .. w /\ r + 1 \in 0 .. w /\ k \in Int BY <1>2 DEF Digits
  <2>2. Raised(E, d, r, w) BY DEF Raised
  <2>3. Digits(z, M) BY <1>5, <2>1
  <2>4. Digits(u, M) /\ Number(Base, u, M) = TwoTo[ByteBits * (r + 1)] * (q * V)
    <3>1. Is(r + 1)
      <4> HIDE DEF Is
      <4> QED BY <1>7
    <3> QED BY <3>1
  <2>5. Combines(z, u, k, E, M)
    <3> SUFFICES ASSUME NEW i \in 0 .. M - 1 PROVE z[i] = u[i] + k * E[i] BY DEF Combines
    <3> DEFINE g == Suffixes(1, Products(c, d, w, i), w)
               p == Products(c, d, w, i)
    <3>1. z[i] = g[r] /\ u[i] = g[r + 1] OBVIOUS
    <3>2. SumsUp(g, 1, p, w) /\ g \in [0 .. w -> Int] BY <1>4
    <3>3. p[r] = IF r <= i /\ i - r < w THEN k * d[i - r] ELSE 0
      BY DEF Products, OnDiagonal
    <3>4. E[i] = IF r <= i /\ i - r < w THEN d[i - r] ELSE 0 OBVIOUS
    <3>5. k * 0 = 0 BY <2>1
    <3>6. p[r] = k * E[i] BY <3>3, <3>4, <3>5
    <3>7. p[r] \in Int
      <4>1. Digits(p, w) BY ProductsAre
      <4> QED BY <4>1 DEF Digits
    <3>8. g[r + 1] \in Int BY <2>1, <3>2
    <3> HIDE DEF g, p
    <3>9. g[r] = p[r] + 1 * g[r + 1] BY <3>2 DEF SumsUp
    <3>10. g[r] = g[r + 1] + p[r] BY <3>7, <3>8, <3>9
    <3> QED BY <3>1, <3>6, <3>10
  <2> HIDE DEF E, z, u
  <2>6. Digits(E, M) /\ Number(Base, E, M) = t * V
    <3>1. Digits(E, 2 * w) /\ Number(Base, E, 2 * w) = TwoTo[ByteBits * r] * Number(Base, d, w)
      BY <1>2, <2>1, <2>2, RaisedIs
    <3> QED BY <1>2, <3>1
  <2> HIDE DEF M
  <2>7. Number(Base, z, M) = Number(Base, u, M) + k * Number(Base, E, M)
    <3> HIDE DEF k
    <3> QED BY <1>1, <2>1, <2>4, <2>5, <2>6, CombinationIs
  <2>8. t \in Nat /\ TwoTo[ByteBits * (r + 1)] = t * Base BY <1>1, <2>1, Units
  <2>9. q \in Int /\ s[r] = k + Base * q BY <1>2, <1>3, <2>1 DEF SumsUp
  <2>10. Number(Base, z, M) = (t * Base) * (q * V) + k * (t * V)
    <3> HIDE DEF t, k, q
    <3> QED BY <2>4, <2>6, <2>7, <2>8
  <2> HIDE DEF t, k, q
  <2>11. (t * Base) * (q * V) + k * (t * V) = t * ((k + Base * q) * V)
    BY <1>1, <1>2, <2>1, <2>8, <2>9
  <2>12. Is(r)
    <3>1. Number(Base, z, M) = t * (s[r] * V) BY <2>9, <2>10, <2>11
    <3> QED BY <2>3, <3>1 DEF z, t
  <2> HIDE DEF Is
  <2> QED BY <2>1, <2>12
<1>8. Is(0)
  <2> HIDE DEF S
  <2>1. \A r \in 0 .. w : r \in S BY <1>6, <1>7, DownFrom
  <2>2. 0 \in 0 .. w OBVIOUS
  <2> HIDE DEF Is
  <2> QED BY <2>1, <2>2 DEF S
<1> DEFINE z == C(0)
<1>9. Digits(z, M) /\ Number(Base, z, M) = Value(c) * V
  <2>1. TwoTo[ByteBits * 0] = 1 BY <1>1, Units
  <2>2. 1 * (Value(c) * V) = Value(c) * V BY <1>2
  <2>3. Number(Base, z, M) = TwoTo[ByteBits * 0] * (s[0] * V) BY <1>8
  <2>4. Number(Base, z, M) = 1 * (Value(c) * V) BY <1>2, <2>1, <2>3
  <2> QED BY <1>8, <2>2, <2>4
<1>10. \A i \in 0 .. M - 1 : z[i] = sum[i] BY DEF SumsOf, Number
<1> HIDE DEF z
<1>11. Digits(sum, M) /\ Number(Base, z, M) = Number(Base, sum, M)
  BY <1>1, <1>9, <1>10, SameDigits
<1> QED BY <1>9, <1>11 DEF V

\* A sum along a diagonal, and its low and high halves.
LEMMA DiagonalIs ==
  ASSUME NEW w \in Nat, NEW c \in Bytes(w), NEW d \in Bytes(w), NEW i \in 0 .. 2 * w - 1
  PROVE  /\ Low(c, d, i) \in Nat /\ Low(c, d, i) <= (Base - 1) * w
         /\ High(c, d, i) \in Nat /\ High(c, d, i) <= (Base - 1) * w
         /\ Number(1, Products(c, d, w, i), w) = Low(c, d, i) + Base * High(c, d, i)
         /\ i = 2 * w - 1 => High(c, d, i) = 0
<1> DEFINE L == [r \in 0 .. w - 1 |-> IF OnDiagonal(i, r, w) THEN (c[r] * d[i - r]) % Base ELSE 0]
           H == [r \in 0 .. w - 1 |-> IF OnDiagonal(i, r, w) THEN (c[r] * d[i - r]) \div Base
                                                            ELSE 0]
           p == Products(c, d, w, i)
           top == Base - 1
           one == 1
<1>1. Base \in Nat \ {0} /\ Base \in Int /\ top \in Nat /\ one \in Int /\ Base > 1 BY BaseIs
<1>2. DOMAIN c = 0 .. w - 1 /\ width(c) = w BY ImmediateIs
<1>3. Low(c, d, i) = Number(1, L, w) /\ High(c, d, i) = Number(1, H, w)
  BY <1>2 DEF Low, High
<1>4. ASSUME NEW r \in 0 .. w - 1
      PROVE  L[r] \in 0 .. top /\ H[r] \in 0 .. top /\ p[r] = L[r] + Base * H[r]
  <2>1. CASE OnDiagonal(i, r, w)
    <3> DEFINE v == c[r] * d[i - r]
    <3>1. c[r] \in 0 .. Base - 1 /\ d[i - r] \in 0 .. Base - 1 /\ v \in Nat /\ p[r] = v
      BY <1>4, <2>1, ProductsAre DEF Products
    <3>2. L[r] = v % Base /\ H[r] = v \div Base BY <1>4, <2>1
    <3>3. v < Base * Base
      <4> DEFINE f == c[r]
                 g == d[i - r]
      <4>1. f \in Nat /\ g \in Nat /\ f < Base /\ g < Base BY <1>1, <3>1
      <4> HIDE DEF f, g
      <4>2. f * g < Base * Base
        <5>1. f * g <= f * Base BY <1>1, <4>1
        <5>2. f * Base < Base * Base BY <1>1, <4>1
        <5>3. f * g \in Int /\ f * Base \in Int /\ Base * Base \in Int BY <1>1, <4>1
        <5> QED BY <5>1, <5>2, <5>3
      <4> QED BY <4>2 DEF f, g
    <3> HIDE DEF v
    <3> DEFINE q == v \div Base
               m == v % Base
    <3>4. q \in Int /\ m \in 0 .. Base - 1 /\ v = Base * q + m
      <4>1. v \in Int BY <3>1
      <4> QED BY <1>1, <4>1, Parts
    <3>5. L[r] = m /\ H[r] = q BY <3>2
    <3> HIDE DEF q, m, L, H, p
    <3>6. q < Base
      <4> SUFFICES ASSUME q >= Base PROVE FALSE BY <1>1, <3>4
      <4>1. Base * q >= Base * Base BY <1>1, <3>4
      <4>2. Base * q \in Int /\ Base * Base \in Int BY <1>1, <3>4
      <4> QED BY <1>1, <3>1, <3>3, <3>4, <4>1, <4>2
    <3>7. q >= 0
      <4> SUFFICES ASSUME q <= -1 PROVE FALSE BY <3>4
      <4>1. Base * q <= Base * (-1) BY <1>1, <3>4
      <4>2. Base * (-1) = -Base /\ Base * q \in Int BY <1>1, <3>4
      <4> QED BY <1>1, <3>1, <3>4, <4>1, <4>2
    <3>8. p[r] = m + Base * q
      <4>1. Base * q \in Int BY <1>1, <3>4
      <4> QED BY <1>1, <3>1, <3>4, <4>1
    <3> QED BY <1>1, <3>4, <3>5, <3>6, <3>7, <3>8
  <2>2. CASE ~OnDiagonal(i, r, w)
    <3>1. L[r] = 0 /\ H[r] = 0 /\ p[r] = 0 BY <1>4, <2>2 DEF Products
    <3>2. 0 + Base * 0 = 0 BY <1>1
    <3> HIDE DEF L, H, p
    <3> QED BY <1>1, <3>1, <3>2
  <2> QED BY <2>1, <2>2
<1>5. i = 2 * w - 1 => \A r \in 0 .. w - 1 : H[r] \in 0 .. 0
  <2> SUFFICES ASSUME i = 2 * w - 1, NEW r \in 0 .. w - 1 PROVE H[r] = 0 OBVIOUS
  <2>1. ~OnDiagonal(i, r, w) BY DEF OnDiagonal
  <2> QED BY <2>1
<1> HIDE DEF L, H
<1>6. Terms(L, top, w) /\ Terms(H, top, w) BY <1>4 DEF Terms
<1>7. i = 2 * w - 1 => Number(1, H, w) = 0
  <2> SUFFICES ASSUME i = 2 * w - 1 PROVE Number(1, H, w) = 0 OBVIOUS
  <2> DEFINE u == 0
  <2>1. Terms(H, u, w) BY <1>5 DEF Terms
  <2>2. u \in Nat OBVIOUS
  <2> HIDE DEF u
  <2>3. Number(1, H, w) \in Nat /\ Number(1, H, w) <= u * w BY <2>1, <2>2, SumIs
  <2>4. 0 * w = 0 OBVIOUS
  <2> QED BY <2>3, <2>4 DEF u
<1>8. Number(1, L, w) \in Nat /\ Number(1, L, w) <= top * w
      /\ Number(1, H, w) \in Nat /\ Number(1, H, w) <= top * w
  <2> HIDE DEF top
  <2> QED BY <1>1, <1>6, SumIs
<1>9. Number(1, p, w) = Number(1, L, w) + Base * Number(1, H, w)
  <2>1. Digits(L, w) /\ Digits(H, w) BY <1>4 DEF Digits
  <2>2. Combines(p, L, Base, H, w) BY <1>4 DEF Combines
  <2> HIDE DEF p, one
  <2>3. Number(one, p, w) = Number(one, L, w) + Base * Number(one, H, w)
    BY <1>1, <2>1, <2>2, CombinationIs
  <2> QED BY <2>3 DEF one
<1> QED BY <1>3, <1>7, <1>8, <1>9

\* The high halves go to the next diagonal.
Columns(column, c, d, m) ==
  \A i \in 0 .. m - 1 : column[i] = Low(c, d, i) + IF i = 0 THEN 0 ELSE High(c, d, i - 1)

LEMMA ColumnsAre ==
  ASSUME NEW w \in Nat, w > 0, NEW c \in Bytes(w), NEW d \in Bytes(w),
         NEW column, Columns(column, c, d, 2 * w)
  PROVE  Digits(column, 2 * w) /\ Number(Base, column, 2 * w) = Value(c) * Value(d)
<1> DEFINE M == 2 * w
           L == [i \in 0 .. M - 1 |-> Low(c, d, i)]
           H == [i \in 0 .. M - 1 |-> High(c, d, i)]
           U == [i \in 0 .. M - 1 |-> IF i = 0 THEN 0 ELSE High(c, d, i - 1)]
           sum == [i \in 0 .. M - 1 |-> Number(1, Products(c, d, w, i), w)]
           s == Suffixes(Base, H, M)
           f == [i \in 0 .. M |-> IF i = 0 THEN Base * s[0] ELSE s[i - 1]]
           one == 1
<1>1. Base \in Nat /\ Base \in Int /\ M \in Nat /\ M > 1 /\ one \in Int BY BaseIs
<1>2. ASSUME NEW i \in 0 .. M - 1
      PROVE  /\ L[i] \in Int /\ H[i] \in Int /\ U[i] \in Int
             /\ sum[i] = L[i] + Base * H[i]
             /\ column[i] = L[i] + U[i]
             /\ i = M - 1 => H[i] = 0
             /\ i # 0 => U[i] = H[i - 1]
             /\ i = 0 => U[i] = 0
  <2>1. i # 0 => i - 1 \in 0 .. M - 1 BY <1>1
  <2>2. /\ L[i] = Low(c, d, i) /\ H[i] = High(c, d, i)
        /\ U[i] = IF i = 0 THEN 0 ELSE High(c, d, i - 1)
        /\ i # 0 => H[i - 1] = High(c, d, i - 1)
    BY <2>1
  <2>3. /\ Low(c, d, i) \in Int /\ High(c, d, i) \in Int
        /\ Number(1, Products(c, d, w, i), w) = Low(c, d, i) + Base * High(c, d, i)
        /\ i = 2 * w - 1 => High(c, d, i) = 0
    BY DiagonalIs
  <2>4. i # 0 => High(c, d, i - 1) \in Int BY <2>1, DiagonalIs
  <2>5. column[i] = Low(c, d, i) + IF i = 0 THEN 0 ELSE High(c, d, i - 1) BY DEF Columns
  <2>6. sum[i] = Number(1, Products(c, d, w, i), w) OBVIOUS
  <2> HIDE DEF L, H, U, sum
  <2> QED BY <2>2, <2>3, <2>4, <2>5, <2>6
<1>3. Digits(L, M) /\ Digits(H, M) /\ Digits(U, M) BY <1>2 DEF Digits
<1>4. SumsOf(sum, c, d, w) BY DEF SumsOf
<1>5. Combines(sum, L, Base, H, M) BY <1>2 DEF Combines
<1>6. Combines(column, L, one, U, M)
  <2> SUFFICES ASSUME NEW i \in 0 .. M - 1 PROVE column[i] = L[i] + 1 * U[i] BY DEF Combines
  <2>1. column[i] = L[i] + U[i] /\ U[i] \in Int BY <1>2
  <2> HIDE DEF L, U
  <2> QED BY <2>1
<1> HIDE DEF L, H, U, sum
<1>7. s \in [0 .. M -> Int] /\ SumsUp(s, Base, H, M)
  <2> HIDE DEF M
  <2> QED BY <1>1, <1>3, SuffixesIs
<1>8. Number(Base, H, M) = s[0] BY DEF Number
<1> HIDE DEF s
<1>9. SumsUp(f, Base, U, M)
  <2>1. f[M] = 0
    <3>1. f[M] = s[M - 1] BY <1>1
    <3>2. M - 1 \in 0 .. M - 1 /\ (M - 1) + 1 = M BY <1>1
    <3>3. s[M - 1] = H[M - 1] + Base * s[M] BY <1>7, <3>2 DEF SumsUp
    <3>4. s[M] = 0 /\ H[M - 1] = 0 /\ Base * 0 = 0 BY <1>1, <1>2, <1>7, <3>2 DEF SumsUp
    <3> QED BY <3>1, <3>3, <3>4
  <2>2. ASSUME NEW i \in 0 .. M - 1 PROVE f[i] = U[i] + Base * f[i + 1]
    <3>1. i \in 0 .. M /\ i + 1 \in 0 .. M /\ i + 1 # 0 /\ (i + 1) - 1 = i BY <1>1
    <3>2. f[i + 1] = s[i] BY <3>1
    <3>3. CASE i = 0
      <4>1. f[i] = Base * s[0] /\ U[i] = 0 BY <1>2, <3>1, <3>3
      <4>2. Base * s[0] \in Int BY <1>1, <1>7
      <4> HIDE DEF f
      <4> QED BY <3>2, <3>3, <4>1, <4>2
    <3>4. CASE i # 0
      <4>1. i - 1 \in 0 .. M - 1 /\ (i - 1) + 1 = i BY <3>4
      <4>2. f[i] = s[i - 1] BY <3>1, <3>4
      <4>3. s[i - 1] = H[i - 1] + Base * s[i] BY <1>7, <4>1 DEF SumsUp
      <4>4. U[i] = H[i - 1] BY <1>2, <3>4
      <4> HIDE DEF f
      <4> QED BY <3>2, <4>2, <4>3, <4>4
    <3> QED BY <3>3, <3>4
  <2> HIDE DEF f
  <2> QED BY <2>1, <2>2 DEF SumsUp
<1>10. f[0] = Base * s[0] BY <1>1
<1> HIDE DEF f, M
<1>11. Number(Base, U, M) = Base * s[0] BY <1>1, <1>3, <1>9, <1>10, NumberIs
<1>12. Number(Base, sum, M) = Number(Base, L, M) + Base * s[0]
  BY <1>1, <1>3, <1>5, <1>8, CombinationIs
<1>13. Digits(column, M)
       /\ Number(Base, column, M) = Number(Base, L, M) + one * Number(Base, U, M)
  <2> HIDE DEF one
  <2> QED BY <1>1, <1>3, <1>6, CombinationIs
<1>14. Base * s[0] \in Int
  <2>1. 0 \in 0 .. M BY <1>1
  <2> QED BY <1>1, <1>7, <2>1
<1> DEFINE q == Base * s[0]
<1>15. Number(Base, column, M) = Number(Base, L, M) + one * q BY <1>11, <1>13
<1>16. one * q = q BY <1>14
<1>17. Number(Base, column, M) = Number(Base, sum, M)
  <2> HIDE DEF q, one
  <2>1. Number(Base, sum, M) = Number(Base, L, M) + q BY <1>12 DEF q
  <2> QED BY <1>15, <1>16, <2>1
<1>18. Number(Base, sum, M) = Value(c) * Value(d) BY <1>4, ConvolutionIs DEF M
<1> QED BY <1>13, <1>17, <1>18 DEF M

LEMMA ProductBelow ==
  ASSUME NEW s \in Nat, NEW t \in Nat, NEW u \in Nat, s < u, t < u
  PROVE  s * t \in Nat /\ s * t < u * u
<1>1. s * t <= s * u /\ s * u < u * u OBVIOUS
<1>2. s * t \in Nat /\ s * u \in Int /\ u * u \in Int OBVIOUS
<1> QED BY <1>1, <1>2

LEMMA QuotientSmall ==
  ASSUME NEW t \in Nat \ {0}, NEW v \in 0 .. t * t - 1
  PROVE  v \div t \in 0 .. t - 1 /\ v % (t * t) = v
<1>1. t * t \in Nat \ {0} OBVIOUS
<1>2. v \in Nat /\ v \in 0 .. t * t - 1 /\ v \in Int BY <1>1
<1>3. v % (t * t) = v BY <1>1, <1>2, WrapsUp
<1>4. v \div t \in Nat BY <1>2, QuotientFits
<1> DEFINE q == v \div t
           r == v % t
<1>5. q \in Nat /\ r \in 0 .. t - 1 /\ v = t * q + r BY <1>2, <1>4, Parts
<1> HIDE DEF q, r
<1>6. q < t
  <2> SUFFICES ASSUME q >= t PROVE FALSE BY <1>5
  <2>1. t * q >= t * t BY <1>5
  <2>2. t * q \in Int /\ t * t \in Int BY <1>5
  <2>3. v < t * t BY <1>1, <1>2
  <2> QED BY <1>5, <2>1, <2>2, <2>3
<1>7. q \in 0 .. t - 1 BY <1>5, <1>6
<1> QED BY <1>3, <1>7 DEF q

\* lattice_multiply: the sums of the diagonals fit into two bytes, and their carries make
\* up the product.
LEMMA LatticeIs ==
  ASSUME NEW w \in Nat, w > 0, 2 * w <= Base, NEW c \in Bytes(w), NEW d \in Bytes(w)
  PROVE  Lattice(c, d) \in Bytes(2 * w) /\ Value(Lattice(c, d)) = Value(c) * Value(d)
<1> DEFINE M == 2 * w
           column == [i \in 0 .. M - 1 |-> Low(c, d, i) + IF i = 0 THEN 0 ELSE High(c, d, i - 1)]
           tmp == Carries(column, M)
           D == [i \in 0 .. M - 1 |-> tmp[i] + column[i]]
           t == Diagonals(c, d)
           e == Lattice(c, d)
           top == Base - 1
           P == TwoTo[ByteBits * w]
           Q == TwoTo[ByteBits * M]
           z == Value(c) * Value(d)
<1>1. /\ Base \in Nat \ {0} /\ Base \in Int /\ M \in Nat /\ M > 1 /\ top \in Nat
      /\ ByteBits \in Nat
  BY BaseIs
<1>2. DOMAIN c = 0 .. w - 1 /\ width(c) = w BY ImmediateIs
<1>3. Columns(column, c, d, 2 * w) BY DEF Columns
<1>4. ASSUME NEW i \in 0 .. M - 1 PROVE column[i] \in 0 .. top * Base
  <2>1. i # 0 => i - 1 \in 0 .. M - 1 BY <1>1
  <2>2. /\ Low(c, d, i) \in Nat /\ Low(c, d, i) <= top * w
        /\ i # 0 => High(c, d, i - 1) \in Nat /\ High(c, d, i - 1) <= top * w
    BY <2>1, DiagonalIs
  <2>3. column[i] = Low(c, d, i) + IF i = 0 THEN 0 ELSE High(c, d, i - 1) OBVIOUS
  <2>4. top * w \in Nat /\ top * w + top * w = top * (2 * w) BY <1>1
  <2>5. top * (2 * w) <= top * Base /\ top * Base \in Nat BY <1>1
  <2> DEFINE u == top * w
             g == top * (2 * w)
             l == top * Base
  <2>6. /\ u \in Nat /\ u + u = g /\ g <= l /\ l \in Nat
        /\ Low(c, d, i) <= u /\ (i # 0 => High(c, d, i - 1) <= u)
    BY <2>2, <2>4, <2>5
  <2> HIDE DEF u, g, l, column, M, top
  <2>7. ASSUME i = 0 PROVE column[i] \in 0 .. l BY <2>2, <2>3, <2>6, <2>7
  <2>8. ASSUME i # 0 PROVE column[i] \in 0 .. l BY <2>2, <2>3, <2>6, <2>8
  <2>9. column[i] \in 0 .. l BY <2>7, <2>8
  <2> QED BY <2>9 DEF l
<1>5. /\ column[0] = Low(c, d, 0)
      /\ \A i \in 0 .. M - 1 : i # 0 => column[i] = Low(c, d, i) + High(c, d, i - 1)
  <2>1. 0 \in 0 .. M - 1 BY <1>1
  <2>2. Low(c, d, 0) \in Nat BY <2>1, DiagonalIs
  <2>3. column[0] = Low(c, d, 0) + 0 BY <2>1
  <2> QED BY <2>2, <2>3
<1> HIDE DEF column
<1>6. Digits(column, M) /\ Number(Base, column, M) = z BY <1>3, ColumnsAre
<1>7. Carried(tmp, column, M)
  <2> HIDE DEF M
  <2> QED BY <1>1, <1>6, CarriesIs
<1> HIDE DEF tmp
<1>8. \A i \in 0 .. M : tmp[i] \in 0 .. top
  <2> DEFINE S == {i \in 0 .. M : tmp[i] \in 0 .. top}
  <2>1. 0 \in S BY <1>1, <1>7 DEF Carried
  <2>2. ASSUME NEW i \in 0 .. M - 1, i \in S PROVE i + 1 \in S
    <3> DEFINE v == tmp[i] + column[i]
               l == top * Base
    <3>1. tmp[i] \in 0 .. top /\ column[i] \in 0 .. l BY <1>4, <2>2
    <3>2. l + top = Base * Base - 1 /\ l \in Nat /\ Base * Base \in Nat BY <1>1
    <3>3. tmp[i + 1] = v \div Base BY <1>7 DEF Carried
    <3>4. v \in 0 .. Base * Base - 1
      <4> DEFINE bb == Base * Base
      <4>1. l + top = bb - 1 /\ bb \in Nat BY <3>2
      <4> HIDE DEF l, bb
      <4> QED BY <1>1, <3>1, <3>2, <4>1 DEF bb
    <3> HIDE DEF v
    <3>5. v \div Base \in 0 .. Base - 1 BY <1>1, <3>4, QuotientSmall
    <3>6. i + 1 \in 0 .. M BY <1>1
    <3> QED BY <3>3, <3>5, <3>6
  <2> HIDE DEF S
  <2>3. \A i \in 0 .. M : i \in S BY <1>1, <2>1, <2>2, UpTo
  <2> QED BY <2>3 DEF S
<1>9. ASSUME NEW i \in 0 .. M - 1
      PROVE  /\ D[i] \in 0 .. Base * Base - 1 /\ D[i] = tmp[i] + column[i]
             /\ i # 0 => tmp[i] = D[i - 1] \div Base
  <2>1. D[i] = tmp[i] + column[i] OBVIOUS
  <2>2. tmp[i] \in 0 .. top /\ column[i] \in 0 .. top * Base
    <3>1. i \in 0 .. M BY <1>1
    <3> QED BY <1>4, <1>8, <3>1
  <2>3. D[i] \in 0 .. Base * Base - 1
    <3> DEFINE bb == Base * Base
               l == top * Base
    <3>1. l + top = bb - 1 /\ bb \in Nat /\ l \in Nat BY <1>1
    <3>2. column[i] \in 0 .. l BY <2>2
    <3> HIDE DEF l, bb, D
    <3>3. D[i] \in 0 .. bb - 1 BY <1>1, <2>1, <2>2, <3>1, <3>2
    <3> QED BY <3>3 DEF bb
  <2>4. ASSUME i # 0 PROVE tmp[i] = D[i - 1] \div Base
    <3>1. i - 1 \in 0 .. M - 1 /\ (i - 1) + 1 = i BY <1>1, <2>4
    <3>2. tmp[(i - 1) + 1] = (tmp[i - 1] + column[i - 1]) \div Base BY <1>7, <3>1 DEF Carried
    <3>3. D[i - 1] = tmp[i - 1] + column[i - 1] BY <3>1
    <3> HIDE DEF D
    <3> QED BY <3>1, <3>2, <3>3
  <2> QED BY <2>1, <2>3, <2>4
<1>10. \A i \in 0 .. M - 1 :
         D[i] = IF i = 0 THEN Low(c, d, 0)
                ELSE (D[i - 1] \div Base + High(c, d, i - 1) + Low(c, d, i)) % (Base * Base)
  <2> TAKE i \in 0 .. M - 1
  <2>1. CASE i = 0
    <3>1. D[0] = tmp[0] + column[0] BY <1>9, <2>1
    <3>2. tmp[0] = 0 /\ column[0] \in Int BY <1>6, <1>7, <2>1 DEF Carried, Digits
    <3> HIDE DEF D
    <3> QED BY <1>5, <2>1, <3>1, <3>2
  <2>2. CASE i # 0
    <3> DEFINE h == High(c, d, i - 1)
               l == Low(c, d, i)
               k == D[i - 1] \div Base
    <3>1. i - 1 \in 0 .. M - 1 BY <2>2
    <3>2. h \in Int /\ l \in Int BY <3>1, DiagonalIs
    <3>3. D[i] = k + column[i] /\ D[i] \in 0 .. Base * Base - 1 BY <1>9, <2>2
    <3>4. k \in Int
      <4>1. k = tmp[i] /\ i \in 0 .. M BY <1>1, <1>9, <2>2
      <4> QED BY <1>7, <4>1 DEF Carried
    <3>5. column[i] = l + h BY <1>5, <2>2
    <3> HIDE DEF h, l, k, D
    <3>6. D[i] = k + h + l BY <3>2, <3>3, <3>4, <3>5
    <3>7. D[i] % (Base * Base) = D[i] BY <1>1, <3>3, QuotientSmall
    <3>8. D[i] = (k + h + l) % (Base * Base) BY <3>6, <3>7
    <3> QED BY <2>2, <3>8 DEF h, l, k
  <2> QED BY <2>1, <2>2
<1> HIDE DEF D
<1> DEFINE Byte_Value(g, i) ==
             IF i = 0 THEN Low(c, d, 0)
             ELSE (g[i - 1] \div Base + High(c, d, i - 1) + Low(c, d, i)) % (Base * Base)
<1>11. D = [i \in 0 .. M - 1 |-> Byte_Value(D, i)]
  <2>1. D = [i \in 0 .. M - 1 |-> tmp[i] + column[i]] BY DEF D
  <2>2. \A i \in 0 .. M - 1 : tmp[i] + column[i] = Byte_Value(D, i) BY <1>9, <1>10
  <2> HIDE DEF Byte_Value
  <2> QED BY <2>1, <2>2
<1>12. t = [i \in 0 .. M - 1 |-> Byte_Value(t, i)]
  BY <1>2, <1>11 DEF Diagonals
<1>13. \A i \in 0 .. M - 1 : t[i] = D[i]
  <2> DEFINE S == {i \in 0 .. M - 1 : t[i] = D[i]}
             k == M - 1
  <2> HIDE DEF t
  <2>1. \A i \in 0 .. M - 1 : t[i] = Byte_Value(t, i) BY <1>12
  <2>2. 0 \in S
    <3>1. 0 \in 0 .. M - 1 BY <1>1
    <3>2. t[0] = Low(c, d, 0) /\ D[0] = Low(c, d, 0) BY <1>10, <2>1, <3>1
    <3> QED BY <3>1, <3>2
  <2>3. ASSUME NEW i \in 0 .. k - 1, i \in S PROVE i + 1 \in S
    <3>1. i + 1 \in 0 .. M - 1 /\ i + 1 # 0 /\ (i + 1) - 1 = i BY <1>1
    <3>2. /\ t[i + 1] = (t[i] \div Base + High(c, d, i) + Low(c, d, i + 1)) % (Base * Base)
          /\ D[i + 1] = (D[i] \div Base + High(c, d, i) + Low(c, d, i + 1)) % (Base * Base)
      BY <1>10, <2>1, <3>1
    <3>3. t[i] = D[i] BY <2>3
    <3> QED BY <3>1, <3>2, <3>3
  <2>4. k \in Nat BY <1>1
  <2> HIDE DEF S, k
  <2>5. \A i \in 0 .. k : i \in S BY <2>2, <2>3, <2>4, UpTo
  <2> QED BY <2>5 DEF S, k
<1>14. e = [i \in 0 .. M - 1 |-> t[i] % Base] BY <1>2 DEF Lattice
<1> HIDE DEF t, e
<1>15. Kept(e, tmp, column, M)
  <2> SUFFICES ASSUME NEW i \in 0 .. M - 1 PROVE e[i] = (tmp[i] + column[i]) % Base BY DEF Kept
  <2>1. e[i] = D[i] % Base BY <1>13, <1>14
  <2>2. D[i] = tmp[i] + column[i] BY <1>9
  <2> QED BY <2>1, <2>2
<1> DEFINE last == tmp[M]
<1> HIDE DEF Byte_Value
<1>16. Proper(e, Base, M) /\ z = Number(Base, e, M) + Q * last
  <2> HIDE DEF M, z
  <2> QED BY <1>1, <1>6, <1>7, <1>15, CarriedIs
<1>17. e \in Bytes(M)
  <2>1. \A i \in 0 .. M - 1 : e[i] \in ByteValues BY <1>16 DEF Proper, ByteValues
  <2> QED BY <1>14, <2>1 DEF Bytes
<1>18. Value(e) = Number(Base, e, M) /\ Value(e) \in Nat
  <2> HIDE DEF M
  <2> QED BY <1>1, <1>17, ImmediateIs, ValueIs
<1>19. z \in Nat /\ z < Q /\ Q \in Nat \ {0}
  <2>1. Value(c) \in Nat /\ Value(d) \in Nat /\ Value(c) < P /\ Value(d) < P /\ P \in Nat
    BY <1>1, ValueIs, Units
  <2>2. Q = P * P
    <3>1. ByteBits * M = ByteBits * w + ByteBits * w /\ ByteBits * w \in Nat BY <1>1
    <3> QED BY <3>1, TwoToSum
  <2>3. Value(c) * Value(d) < P * P BY <2>1, ProductBelow
  <2>4. Value(c) * Value(d) \in Nat BY <2>1
  <2>5. Q \in Nat \ {0} BY <1>1, Units
  <2> QED BY <2>2, <2>3, <2>4, <2>5
<1>20. last = 0
  <2>1. last \in Nat
    <3>1. M \in 0 .. M BY <1>1
    <3>2. last \in 0 .. top BY <1>8, <3>1
    <3> QED BY <1>1, <3>2
  <2> HIDE DEF last, z, Q, M
  <2> SUFFICES ASSUME last >= 1 PROVE FALSE BY <2>1
  <2>2. Q * last >= Q BY <1>19, <2>1
  <2>3. Q * last \in Int /\ Number(Base, e, M) \in Nat BY <1>18, <1>19, <2>1
  <2> QED BY <1>16, <1>19, <2>2, <2>3
<1>21. z = Number(Base, e, M)
  <2>1. Q * 0 = 0 BY <1>19
  <2>2. Number(Base, e, M) \in Nat BY <1>18
  <2> HIDE DEF z, Q, M
  <2>3. z = Number(Base, e, M) + 0 BY <1>16, <1>20, <2>1
  <2> QED BY <2>2, <2>3
<1> QED BY <1>17, <1>18, <1>21 DEF e, M, z

LEMMA MultiplyIs ==
  ASSUME NEW w \in Nat, w > 0, ProductReturns(w), NEW c \in Bytes(w), NEW d \in Bytes(w)
  PROVE  Value(Multiply(c, d)) = Value(c) * Value(d)
<1> DEFINE P == TwoTo[ByteBits * w]
           z == Value(c) * Value(d)
<1>1. /\ ByteBits \in Nat /\ WordBytes \in Nat /\ Base \in Nat
      /\ MultiplyBytes \in Nat /\ LatticeBytes \in Nat /\ IndexBytes \in Nat
      /\ MultiplyBytes * 2 <= WordBytes
  BY ImmediateAssumption, BaseIs
<1>2. width(c) = w BY ImmediateIs
<1>3. CASE w <= MultiplyBytes
  <2>1. w <= WordBytes BY <1>1, <1>3
  <2>2. Word(c) = Value(c) /\ Word(d) = Value(d) BY <2>1, WordIs
  <2>3. Value(c) \in Nat /\ Value(d) \in Nat /\ Value(c) < P /\ Value(d) < P /\ P \in Nat
    BY <1>1, ValueIs, Units
  <2>4. z \in Nat /\ z < P * P
    <3> HIDE DEF P
    <3> QED BY <2>3, ProductBelow
  <2>5. P * P <= TwoTo[ByteBits * WordBytes]
    <3>1. ByteBits * w \in Nat /\ ByteBits * w + ByteBits * w = ByteBits * (2 * w) BY <1>1
    <3>2. TwoTo[ByteBits * (2 * w)] = P * P BY <3>1, TwoToSum
    <3>3. ByteBits * (2 * w) <= ByteBits * WordBytes
      <4>1. 2 * w <= WordBytes BY <1>1, <1>3
      <4> QED BY <1>1, <4>1
    <3>4. ByteBits * (2 * w) \in Nat /\ ByteBits * WordBytes \in Nat BY <1>1
    <3> DEFINE j == ByteBits * (2 * w)
               k == ByteBits * WordBytes
    <3>5. j \in Nat /\ k \in Nat /\ j <= k BY <3>3, <3>4
    <3> HIDE DEF j, k
    <3>6. TwoTo[j] <= TwoTo[k] BY <3>5, TwoToRises
    <3> QED BY <3>2, <3>6 DEF j, k
  <2>6. z < TwoTo[ByteBits * WordBytes]
    <3> DEFINE pp == P * P
               t == TwoTo[ByteBits * WordBytes]
    <3>1. pp \in Nat /\ t \in Nat /\ z < pp /\ pp <= t BY <1>1, <2>3, <2>4, <2>5, Units
    <3> HIDE DEF pp, t, z
    <3>2. z < t BY <2>4, <3>1
    <3> QED BY <3>2 DEF t
  <2> HIDE DEF z
  <2>7. Value(Imm(WordBytes * ByteBits, z)) = z BY <1>1, <2>4, <2>6, ImmIs
  <2>8. Multiply(c, d) = Imm(WordBytes * ByteBits, z) BY <1>2, <1>3, <2>2 DEF Multiply, z
  <2> QED BY <2>7, <2>8 DEF z
<1>4. CASE ~(w <= MultiplyBytes)
  <2>1. w < LatticeBytes
    <3>1. w < LatticeBytes \/ 2 * (4 * w) < IndexBytes BY DEF ProductReturns, SumReturns
    <3>2. IndexBytes <= 8 * LatticeBytes BY LatticeAssumption
    <3> QED BY <1>1, <3>1, <3>2
  <2>2. 2 * w <= Base
    <3>1. 2 * (LatticeBytes - 1) <= Base BY LatticeAssumption DEF Base
    <3> QED BY <1>1, <2>1, <3>1
  <2>3. Value(Lattice(c, d)) = z BY <2>2, LatticeIs
  <2> QED BY <1>2, <1>4, <2>3 DEF Multiply
<1> QED BY <1>3, <1>4

-----------------------------------------------------------------------------
(* The arithmetic shift.                                                    *)

LEMMA RemainderTwice ==
  ASSUME NEW s \in Nat \ {0}, NEW t \in Nat \ {0}, NEW v \in Nat
  PROVE  (v % (s * t)) % s = v % s
<1> DEFINE q == v \div (s * t)
           r == v % (s * t)
           p == r \div s
           u == r % s
<1>1. s * t \in Nat \ {0} /\ v \in Int OBVIOUS
<1>2. q \in Int /\ r \in 0 .. s * t - 1 /\ v = (s * t) * q + r BY <1>1, Parts
<1> HIDE DEF q, r
<1>3. r \in Int BY <1>1, <1>2
<1>4. p \in Int /\ u \in 0 .. s - 1 /\ r = s * p + u BY <1>3, Parts
<1> HIDE DEF p, u
<1>5. v = s * (t * q + p) + u
  <2>1. (s * t) * q + (s * p + u) = s * (t * q + p) + u BY <1>2, <1>4
  <2> QED BY <1>2, <1>4, <2>1
<1> DEFINE g == t * q + p
<1>6. g \in Int BY <1>2, <1>4
<1> HIDE DEF g
<1>7. (s * g + u) % s = u BY <1>4, <1>6, PartsOf
<1>8. v = s * g + u BY <1>5 DEF g
<1> QED BY <1>7, <1>8 DEF u, r

LEMMA DifferenceOfRemainder ==
  ASSUME NEW t \in Nat \ {0}, NEW v \in Nat, NEW m \in Nat
  PROVE  (m - v) % t = (m - (v % t)) % t
<1> DEFINE q == v \div t
           r == v % t
           p == (m - r) \div t
           u == (m - r) % t
<1>1. v \in Int OBVIOUS
<1>2. q \in Int /\ r \in 0 .. t - 1 /\ v = t * q + r BY <1>1, Parts
<1> HIDE DEF q, r
<1>3. m - r \in Int BY <1>2
<1>4. p \in Int /\ u \in 0 .. t - 1 /\ m - r = t * p + u BY <1>3, Parts
<1> HIDE DEF p, u
<1>5. m - v = t * (p - q) + u
  <2>1. t * (p - q) = t * p - t * q /\ t * p \in Int /\ t * q \in Int BY <1>2, <1>4
  <2> DEFINE tp == t * p
             tq == t * q
             tpq == t * (p - q)
  <2>2. tpq = tp - tq /\ tp \in Int /\ tq \in Int /\ v = tq + r /\ m - r = tp + u
    BY <1>2, <1>4, <2>1
  <2> HIDE DEF tp, tq, tpq
  <2>3. m - v = tpq + u BY <1>2, <1>4, <2>2
  <2> QED BY <2>3 DEF tpq
<1> DEFINE g == p - q
<1>6. g \in Int BY <1>2, <1>4
<1> HIDE DEF g
<1>7. (t * g + u) % t = u BY <1>4, <1>6, PartsOf
<1>8. m - v = t * g + u BY <1>5 DEF g
<1> QED BY <1>7, <1>8 DEF u, r

\* The count of a shift, from a word or from the whole.
LEMMA CountIs ==
  ASSUME NEW w \in Nat, NEW c \in Bytes(w), NEW m \in Nat
  PROVE  /\ Word(c) \in Nat /\ Base * Base \in Nat \ {0}
         /\ Count(c) = Value(c) % (Base * Base)
         /\ (m - Word(c)) % (Base * Base) = (m - (Value(c) % (Base * Base))) % (Base * Base)
<1> DEFINE t == Base * Base
<1>1. ByteBits \in Nat /\ WordBytes \in Nat /\ WordBytes > 1 /\ Base \in Nat \ {0} BY BaseIs
<1>2. t \in Nat \ {0} BY <1>1
<1>3. Value(c) \in Nat /\ Word(c) \in Nat BY ValueIs, WordIs
<1>4. Word(c) % t = Value(c) % t
  <2>1. CASE w <= WordBytes BY <2>1, WordIs
  <2>2. CASE w > WordBytes
    <3> DEFINE k == WordBytes - 2
               z == TwoTo[ByteBits * k]
    <3>1. k \in Nat /\ k + 1 \in Nat /\ WordBytes = k + 1 + 1 BY <1>1
    <3>2. /\ TwoTo[ByteBits * (k + 1)] = z * Base
          /\ TwoTo[ByteBits * (k + 1 + 1)] = TwoTo[ByteBits * (k + 1)] * Base
          /\ z \in Nat \ {0}
      BY <1>1, <3>1, Units, BaseIs
    <3> HIDE DEF k, z
    <3>3. TwoTo[ByteBits * WordBytes] = (z * Base) * Base BY <3>1, <3>2
    <3>4. (z * Base) * Base = t * z BY <1>1, <3>2
    <3>5. Word(c) = Value(c) % (t * z) BY <2>2, <3>3, <3>4, WordIs
    <3> HIDE DEF t
    <3>6. (Value(c) % (t * z)) % t = Value(c) % t BY <1>2, <1>3, <3>2, RemainderTwice
    <3> QED BY <3>5, <3>6
  <2> QED BY <1>1, <2>1, <2>2
<1>5. (m - Word(c)) % t = (m - (Value(c) % t)) % t
  <2> HIDE DEF t
  <2>1. (m - Word(c)) % t = (m - (Word(c) % t)) % t BY <1>2, <1>3, DifferenceOfRemainder
  <2> QED BY <1>4, <2>1
<1> QED BY <1>2, <1>3, <1>4, <1>5 DEF Count

LEMMA BitOfPower ==
  ASSUME NEW j \in Nat, NEW k \in 0 .. j
  PROVE  /\ Bit(TwoTo[j], k) = IF k = j THEN 1 ELSE 0
         /\ Bit(0, k) = 0
<1>1. k \in Nat /\ j - k \in Nat /\ TwoTo[k] \in Nat \ {0} /\ TwoTo[j - k] \in Nat BY TwoToIs
<1>2. TwoTo[j] = TwoTo[k] * TwoTo[j - k] BY <1>1, TwoToRises
<1> DEFINE t == TwoTo[k]
           q == TwoTo[j - k]
           zero == 0
           two == 2
<1>3. zero \in 0 .. t - 1 /\ q \in Int /\ zero \in 0 .. two - 1 /\ two \in Nat \ {0} /\ zero \in Int
  BY <1>1
<1>4. TwoTo[j] \div t = q
  <2> HIDE DEF t, q, zero
  <2>1. (t * q + zero) \div t = q BY <1>1, <1>3, PartsOf DEF t
  <2>2. t * q + 0 = t * q BY <1>1 DEF t, q
  <2> QED BY <1>2, <2>1, <2>2 DEF t, q, zero
<1>5. q % 2 = IF k = j THEN 1 ELSE 0
  <2>1. CASE k = j
    <3>1. q = 1 BY <2>1, TwoToIs
    <3>2. 1 \in 0 .. 2 - 1 /\ 2 \in Nat \ {0} OBVIOUS
    <3> QED BY <2>1, <3>1, <3>2, WrapsUp
  <2>2. CASE k # j
    <3> DEFINE i == j - k - 1
    <3>1. i \in Nat /\ j - k = i + 1 BY <2>2
    <3>2. q = 2 * TwoTo[i] /\ TwoTo[i] \in Int BY <3>1, TwoToIs
    <3> HIDE DEF q, zero, two
    <3>3. (two * TwoTo[i] + zero) % two = zero BY <1>3, <3>2, PartsOf
    <3>4. 2 * TwoTo[i] + 0 = 2 * TwoTo[i] BY <3>2
    <3> QED BY <2>2, <3>2, <3>3, <3>4 DEF zero, two
  <2> QED BY <2>1, <2>2
<1>6. Bit(0, k) = 0
  <2>1. zero \div t = zero
    <3>1. zero \in Nat /\ zero < t /\ t \in Nat \ {0} BY <1>1
    <3> HIDE DEF t, zero
    <3>2. (t * zero + zero) \div t = zero BY <1>3, <3>1, PartsOf
    <3>3. t * 0 + 0 = 0 BY <3>1
    <3> QED BY <3>2, <3>3 DEF zero
  <2>2. zero % two = zero
    <3> HIDE DEF two, zero
    <3> QED BY <1>3, WrapsUp
  <2> QED BY <2>1, <2>2 DEF Bit, t, zero, two
<1> QED BY <1>4, <1>5, <1>6 DEF Bit, t

\* The bits of a value and of a multiple that lies above it are or-ed to their sum.
LEMMA OrIs ==
  ASSUME NEW j \in Nat, NEW k \in Nat, NEW p \in Nat, p < TwoTo[j],
         NEW g \in Nat, g < TwoTo[k]
  PROVE  BitByBit(Disjoin, p, TwoTo[j] * g, j + k) = p + TwoTo[j] * g
<1> DEFINE t == TwoTo[j]
           v == p + t * g
           h == t * g
           m == j + k
           e == [i \in 0 .. m - 1 |-> Disjoin[<<Bit(p, i), Bit(h, i)>>]]
           zero == 0
<1>1. t \in Nat \ {0} /\ m \in Nat /\ h \in Nat /\ v \in Nat /\ zero \in Nat
      /\ TwoTo[k] \in Nat /\ zero \in 0 .. t - 1 /\ p \in 0 .. t - 1
      /\ zero \in Int /\ g \in Int
  BY TwoToIs
<1>2. v < TwoTo[m]
  <2>1. TwoTo[m] = t * TwoTo[k] BY TwoToSum
  <2>2. t * (g + 1) <= t * TwoTo[k] /\ t * (g + 1) = h + t /\ t * TwoTo[k] \in Nat BY <1>1
  <2> DEFINE q == t * TwoTo[k]
             f == t * (g + 1)
  <2>3. f <= q /\ f = h + t /\ q \in Nat /\ v = p + h BY <2>2
  <2> HIDE DEF q, f, v, h, t
  <2>4. v < q BY <1>1, <2>3
  <2> QED BY <2>1, <2>4 DEF q
<1>3. \A f \in {0, 1} : Disjoin[<<f, 0>>] = f /\ Disjoin[<<0, f>>] = f BY DEF Disjoin
<1>4. p % t = p /\ p \div t = 0 /\ h % t = 0 /\ h \div t = g /\ v % t = p /\ v \div t = g
  <2> HIDE DEF t, zero
  <2>1. (t * g + p) \div t = g /\ (t * g + p) % t = p BY <1>1, PartsOf
  <2>2. (t * g + zero) \div t = g /\ (t * g + zero) % t = zero BY <1>1, PartsOf
  <2>3. (t * zero + p) \div t = zero /\ (t * zero + p) % t = p BY <1>1, PartsOf
  <2>4. t * g + p = v /\ t * g + 0 = h /\ t * 0 + p = p BY <1>1
  <2> HIDE DEF v, h
  <2>5. (t * g + 0) \div t = g /\ (t * g + 0) % t = 0 BY <2>2 DEF zero
  <2>6. (t * 0 + p) \div t = 0 /\ (t * 0 + p) % t = p BY <2>3 DEF zero
  <2> QED BY <2>1, <2>4, <2>5, <2>6
<1> HIDE DEF v, h
<1>5. ASSUME NEW i \in 0 .. m - 1 PROVE e[i] = Bit(v, i)
  <2>1. e[i] = Disjoin[<<Bit(p, i), Bit(h, i)>>] /\ i \in Nat OBVIOUS
  <2>2. Bit(p, i) \in {0, 1} /\ Bit(h, i) \in {0, 1} BY <1>1, <2>1, BitIs
  <2> HIDE DEF e
  <2>3. CASE i < j
    <3>1. i \in 0 .. j - 1 BY <2>1, <2>3
    <3>2. Bit(v % t, i) = Bit(v, i) /\ Bit(h % t, i) = Bit(h, i)
      BY <1>1, <3>1, BitOfRemainder
    <3>3. Bit(v, i) = Bit(p, i) /\ Bit(h, i) = Bit(0, i) BY <1>4, <3>2
    <3>4. Bit(0, i) = 0 BY <2>1, BitOfPower
    <3> QED BY <1>3, <2>1, <2>2, <3>3, <3>4
  <2>4. CASE ~(i < j)
    <3> DEFINE r == i - j
    <3>1. r \in Nat /\ i = j + r BY <2>1, <2>4
    <3> HIDE DEF r
    <3>2. /\ Bit(v \div t, r) = Bit(v, j + r) /\ Bit(h \div t, r) = Bit(h, j + r)
          /\ Bit(p \div t, r) = Bit(p, j + r)
      BY <1>1, <3>1, BitOfQuotient
    <3>3. Bit(v, i) = Bit(g, r) /\ Bit(h, i) = Bit(g, r) /\ Bit(p, i) = Bit(0, r)
      BY <1>4, <3>1, <3>2
    <3>4. Bit(0, r) = 0 BY <3>1, BitOfPower
    <3> QED BY <1>3, <2>1, <2>2, <3>3, <3>4
  <2> QED BY <2>3, <2>4
<1>6. BitsOf(e, v, m) BY <1>5 DEF BitsOf
<1>7. BitByBit(Disjoin, p, h, m) = Number(2, e, m) BY DEF BitByBit
<1> HIDE DEF e, m
<1>8. Number(2, e, m) = v BY <1>1, <1>2, <1>6, BitsStandFor
<1> QED BY <1>7, <1>8 DEF v, h, m

\* The sign bit is tested by an And.
LEMMA SignIs ==
  ASSUME NEW w \in Nat, w > 0, NEW c \in Bytes(w)
  PROVE  Bool(And(SignBit(w * ByteBits, w * ByteBits), c))
         <=> Value(c) >= TwoTo[w * ByteBits] \div 2
<1> DEFINE m == w * ByteBits
           j == m - 1
           t == TwoTo[j]
           x0 == Value(c)
           f == Bit(x0, j)
           s == SignBit(m, m)
           e == [k \in 0 .. m - 1 |-> Conjoin[<<Bit(t, k), Bit(x0, k)>>]]
           v == f * t
<1>1. ByteBits \in Nat /\ ByteBits > 0 /\ m \in Nat /\ m = ByteBits * w /\ m > 0
  <2>1. ByteBits \in Nat /\ ByteBits > 0 BY BaseIs
  <2>2. w * ByteBits = ByteBits * w /\ w * ByteBits \in Nat /\ w * ByteBits >= 1 * ByteBits BY <2>1
  <2> QED BY <2>1, <2>2
<1>2. j \in Nat /\ m = j + 1 /\ t \in Nat \ {0} /\ TwoTo[m] = 2 * t BY <1>1, TwoToIs
<1>3. x0 \in Nat /\ x0 < 2 * t
  <2>1. x0 < TwoTo[ByteBits * w] /\ x0 \in Nat BY ValueIs
  <2> QED BY <1>1, <1>2, <2>1
<1>4. s \in Bytes(w) /\ Value(s) = t
  <2> DEFINE one == 1
  <2>1. one \in Nat /\ one < TwoTo[ByteBits * w] BY <1>1, <1>2
  <2> HIDE DEF one
  <2>2. Imm(w * ByteBits, one) \in Bytes(w) /\ Value(Imm(w * ByteBits, one)) = one
    BY <2>1, ImmIs
  <2> DEFINE i == Imm(w * ByteBits, one)
  <2>3. ShiftLeft(i, j) \in Bytes(w)
        /\ Value(ShiftLeft(i, j)) = (Value(i) * TwoTo[j]) % TwoTo[ByteBits * w]
    <3> HIDE DEF i, j
    <3> QED BY <1>2, <2>2, ShiftLeftIs DEF i
  <2>4. s = ShiftLeft(i, j) BY DEF SignBit, one
  <2>5. Value(i) * t = t BY <1>2, <2>2 DEF one
  <2>6. t % (2 * t) = t
    <3> DEFINE u == 2 * t
    <3>1. u \in Nat \ {0} /\ t \in 0 .. u - 1 BY <1>2
    <3> HIDE DEF u, t
    <3>2. t % u = t BY <3>1, WrapsUp
    <3> QED BY <3>2 DEF u
  <2>7. TwoTo[ByteBits * w] = 2 * t BY <1>1, <1>2
  <2> HIDE DEF i, s, t
  <2>8. Value(ShiftLeft(i, j)) = t BY <2>3, <2>5, <2>6, <2>7 DEF t
  <2> QED BY <2>3, <2>4, <2>8
<1>5. f = IF x0 >= t THEN 1 ELSE 0
  <2> DEFINE q == x0 \div t
             r == x0 % t
  <2>1. q \in Nat /\ r \in 0 .. t - 1 /\ x0 = t * q + r /\ f = q % 2
    <3> HIDE DEF t
    <3>1. x0 \in Int BY <1>3
    <3>2. x0 \div t \in Nat BY <1>2, <1>3, QuotientFits
    <3> QED BY <1>2, <3>1, <3>2, Parts DEF Bit, t
  <2> HIDE DEF q, r, f, x0, t
  <2>2. q < 2
    <3> SUFFICES ASSUME q >= 2 PROVE FALSE BY <2>1
    <3>1. t * q >= t * 2 /\ t * q \in Int BY <1>2, <2>1
    <3> QED BY <1>2, <1>3, <2>1, <3>1
  <2>3. 0 % 2 = 0 /\ 1 % 2 = 1
    <3>1. 2 \in Nat \ {0} /\ 0 \in 0 .. 2 - 1 /\ 1 \in 0 .. 2 - 1 OBVIOUS
    <3> QED BY <3>1, WrapsUp
  <2>4. CASE q = 0
    <3>1. t * 0 = 0 BY <1>2
    <3> QED BY <1>2, <2>1, <2>3, <2>4, <3>1
  <2>5. CASE q = 1
    <3>1. t * 1 = t BY <1>2
    <3> QED BY <1>2, <2>1, <2>3, <2>5, <3>1
  <2> QED BY <2>1, <2>2, <2>4, <2>5
<1>6. f \in {0, 1} /\ v \in Nat /\ v < TwoTo[m] /\ (f = 0 => v = 0) /\ (f = 1 => v = t)
  <2> HIDE DEF f
  <2>1. f \in {0, 1} BY <1>5
  <2>2. 0 * t = 0 /\ 1 * t = t BY <1>2
  <2>3. (f = 0 => v = 0) /\ (f = 1 => v = t) BY <2>2
  <2> HIDE DEF v, t
  <2> QED BY <1>2, <2>1, <2>3
<1>7. BitsOf(e, v, m)
  <2> SUFFICES ASSUME NEW k \in 0 .. m - 1 PROVE e[k] = Bit(v, k) BY DEF BitsOf
  <2>1. e[k] = Conjoin[<<Bit(t, k), Bit(x0, k)>>] /\ k \in 0 .. j /\ k \in Nat BY <1>2
  <2>2. Bit(t, k) = IF k = j THEN 1 ELSE 0
    BY <1>2, <2>1, BitOfPower
  <2>3. Bit(0, k) = 0 BY <1>2, <2>1, BitOfPower
  <2>4. Bit(x0, k) \in {0, 1}
    <3> HIDE DEF x0
    <3> QED BY <1>3, <2>1, BitIs
  <2>5. \A h \in {0, 1} : Conjoin[<<0, h>>] = 0 /\ Conjoin[<<1, h>>] = h BY DEF Conjoin
  <2> HIDE DEF v, t, x0, e, j
  <2>6. CASE k = j
    <3>1. e[k] = f BY <2>1, <2>2, <2>4, <2>5, <2>6 DEF f
    <3> QED BY <1>6, <2>2, <2>3, <2>6, <3>1
  <2>7. CASE k # j
    <3>1. e[k] = 0 /\ Bit(t, k) = 0 BY <2>1, <2>2, <2>4, <2>5, <2>7
    <3> QED BY <1>6, <2>3, <3>1
  <2> QED BY <2>6, <2>7
<1>8. Conjoin \in Table
  BY DEF Conjoin, Table
<1>9. And(s, c) \in Bytes(w) /\ Value(And(s, c)) = v
  <2> DEFINE g == And(s, c)
  <2>1. g \in Bytes(w) /\ Value(g) = BitByBit(Conjoin, Value(s), x0, m)
    <3> HIDE DEF s
    <3> QED BY <1>4, <1>8, BitwiseIs DEF And
  <2>2. BitByBit(Conjoin, t, x0, m) = Number(2, e, m) BY DEF BitByBit
  <2> HIDE DEF e, m, v
  <2>3. Number(2, e, m) = v BY <1>1, <1>6, <1>7, BitsStandFor
  <2> HIDE DEF s, t, x0, g
  <2>4. Value(g) = v BY <1>4, <2>1, <2>2, <2>3
  <2> QED BY <2>1, <2>4 DEF g
<1>10. Bool(And(s, c)) <=> v # 0
  <2> DEFINE g == And(s, c)
  <2> HIDE DEF g, v
  <2>1. g \in Bytes(w) /\ Value(g) = v BY <1>9 DEF g
  <2>2. Bool(g) <=> v # 0 BY <2>1, BoolIs
  <2> QED BY <2>2 DEF g
<1>11. v # 0 <=> x0 >= t
  <2> HIDE DEF v, t, x0, f
  <2> QED BY <1>2, <1>5, <1>6
<1>12. TwoTo[m] \div 2 = t
  <2> DEFINE two == 2
             zero == 0
  <2>1. two \in Nat \ {0} /\ zero \in 0 .. two - 1 /\ t \in Int BY <1>2
  <2> HIDE DEF two, zero, t
  <2>2. (two * t + zero) \div two = t BY <2>1, PartsOf
  <2>3. 2 * t + 0 = 2 * t BY <2>1
  <2>4. (2 * t + 0) \div 2 = t BY <2>2 DEF two, zero
  <2>5. (2 * t) \div 2 = t BY <2>3, <2>4
  <2> QED BY <1>2, <2>5
<1> QED
  <2> HIDE DEF v, t
  <2> QED BY <1>10, <1>11, <1>12

\* A shift by a count up to the size, filled up with ones from the left.
LEMMA SignedShift ==
  ASSUME NEW t \in Nat \ {0}, NEW u \in Nat \ {0}, NEW v \in Nat, v < u * t
  PROVE  /\ v \div u \in Nat /\ v \div u < t
         /\ (v \div u) % (u * t) = v \div u
         /\ ((v - u * t) \div u) % (u * t) = (v \div u) + (u * t - t)
<1> DEFINE q == v \div u
           r == v % u
           s == u * t
<1>1. v \in Int /\ u * t \in Nat \ {0} OBVIOUS
<1>2. q \in Nat /\ r \in 0 .. u - 1 /\ v = u * q + r /\ r \in Int /\ q \in Int /\ t \in Int
  <2>1. q \in Nat BY QuotientFits
  <2>2. q \in Int /\ r \in 0 .. u - 1 /\ v = u * q + r BY <1>1, Parts
  <2> HIDE DEF q, r, s
  <2> QED BY <2>1, <2>2
<1> HIDE DEF q, r
<1>3. q < t
  <2> SUFFICES ASSUME q >= t PROVE FALSE BY <1>2
  <2>1. u * q >= u * t /\ u * q \in Int /\ u * t \in Int BY <1>2
  <2> QED BY <1>2, <2>1
<1>4. t <= s /\ s \in Nat \ {0}
  <2>1. 1 * t <= u * t BY <1>1
  <2> QED BY <1>1, <2>1
<1>5. q % s = q
  <2>1. q \in 0 .. s - 1 BY <1>2, <1>3, <1>4
  <2> HIDE DEF s
  <2> QED BY <1>4, <2>1, WrapsUp
<1>6. (v - s) \div u = q - t
  <2>1. u * (q - t) = u * q - s /\ u * q \in Int BY <1>2
  <2> DEFINE k == q - t
             uq == u * q
             uk == u * k
  <2>2. k \in Int /\ uk = uq - s /\ uq \in Int /\ v = uq + r /\ uk \in Int BY <1>2, <2>1
  <2> HIDE DEF uq, uk, k, s
  <2>3. v - s = uk + r BY <1>2, <1>4, <2>2
  <2>4. (u * k + r) \div u = k BY <1>2, <2>2, PartsOf
  <2> QED BY <2>3, <2>4 DEF k, uk
<1>7. (q - t) % s = q + (s - t)
  <2> DEFINE g == q - t + s
  <2>1. g \in 0 .. s - 1 /\ g - s = q - t /\ g = q + (s - t)
    <3> HIDE DEF s
    <3> QED BY <1>2, <1>3, <1>4
  <2> HIDE DEF g, s
  <2>2. (g - s) % s = g BY <1>4, <2>1, WrapsUp
  <2> QED BY <2>1, <2>2
<1> QED BY <1>2, <1>3, <1>5, <1>6, <1>7 DEF q, s

\* Interpreter::Ashr.
LEMMA AshrIs ==
  ASSUME NEW w \in Nat, w > 0, w * ByteBits < Base * Base,
         NEW c \in Bytes(w), NEW d \in Bytes(w)
  PROVE  LET m == w * ByteBits
             k == Value(d) % (Base * Base)
             signed == IF Value(c) >= TwoTo[m] \div 2 THEN Value(c) - TwoTo[m] ELSE Value(c)
         IN  /\ k > m => Value(ShiftRightArithmetic(c, d)) = 0
             /\ k <= m => Value(ShiftRightArithmetic(c, d)) = (signed \div TwoTo[k]) % TwoTo[m]
<1> DEFINE m == w * ByteBits
           bb == Base * Base
           k == Value(d) % bb
           x0 == Value(c)
           span == TwoTo[m]
           shifted == ShiftRight(c, k)
           negative == x0 >= span \div 2
           j == (m - k) % bb
           fill == ShiftLeft(Mask(m, m), j)
           e == Or(shifted, fill)
<1>1. ByteBits \in Nat /\ ByteBits > 0 /\ Base \in Nat /\ m \in Nat /\ m = ByteBits * w
      /\ bb \in Nat \ {0} /\ w \in Nat
  <2>1. ByteBits \in Nat /\ ByteBits > 0 /\ Base \in Nat BY BaseIs
  <2>2. w * ByteBits = ByteBits * w /\ w * ByteBits \in Nat BY <2>1
  <2> QED BY <2>1, <2>2, CountIs
<1>2. size(c) = m BY ImmediateIs DEF size
<1>3. k = Count(d) /\ k \in 0 .. bb - 1 /\ j = (m - Word(d)) % bb
  <2>1. Value(d) \in Int BY ValueIs
  <2>2. Value(d) % bb \in 0 .. bb - 1
    <3> HIDE DEF bb
    <3> QED BY <1>1, <2>1, Parts
  <2>3. Count(d) = Value(d) % (Base * Base)
        /\ (m - Word(d)) % (Base * Base) = (m - (Value(d) % (Base * Base))) % (Base * Base)
    BY <1>1, CountIs
  <2> QED BY <2>2, <2>3
<1>4. ShiftRightArithmetic(c, d) = IF negative THEN e ELSE shifted
  <2>1. Bool(And(SignBit(m, m), c)) <=> negative BY SignIs
  <2> HIDE DEF m, negative
  <2>2. ShiftRightArithmetic(c, d)
        = IF Bool(And(SignBit(m, m), c))
          THEN Or(ShiftRight(c, Count(d)), ShiftLeft(Mask(m, m), (m - Word(d)) % bb))
          ELSE ShiftRight(c, Count(d))
    BY <1>2 DEF ShiftRightArithmetic, bb
  <2> QED BY <1>3, <2>1, <2>2
<1>5. x0 \in Nat /\ x0 < span /\ span \in Nat \ {0} /\ TwoTo[k] \in Nat \ {0} /\ k \in Nat
  <2>1. x0 \in Nat /\ x0 < TwoTo[ByteBits * w] BY ValueIs
  <2>2. k \in Nat
    <3> HIDE DEF k, bb
    <3> QED BY <1>1, <1>3
  <2> HIDE DEF k
  <2> QED BY <1>1, <2>1, <2>2, TwoToIs
<1> HIDE DEF k, bb
<1>6. shifted \in Bytes(w) /\ Value(shifted) = x0 \div TwoTo[k] BY <1>5, ShiftRightIs
<1>7. k > m => x0 \div TwoTo[k] = 0
  <2> SUFFICES ASSUME k > m PROVE x0 \div TwoTo[k] = 0 OBVIOUS
  <2> DEFINE t == TwoTo[k]
             zero == 0
  <2>1. span <= t BY <1>1, <1>5, TwoToRises
  <2>2. x0 \in 0 .. t - 1 /\ zero \in Int /\ t \in Nat \ {0} BY <1>5, <2>1
  <2> HIDE DEF t, x0, zero
  <2>3. (t * zero + x0) \div t = zero BY <2>2, PartsOf
  <2>4. t * 0 + x0 = x0 BY <2>2
  <2> QED BY <2>3, <2>4 DEF zero, t
<1>8. Mask(m, m) \in Bytes(w) /\ Value(Mask(m, m)) = span - 1
  <2> DEFINE ones == [i \in 0 .. w - 1 |-> Base - 1]
             g == Mask(m, m)
             v == 1
             h == 0
  <2>1. m \div ByteBits = w
    <3> DEFINE zero == 0
    <3>1. ByteBits \in Nat \ {0} /\ w \in Int /\ zero \in 0 .. ByteBits - 1 BY <1>1
    <3> HIDE DEF zero
    <3>2. (ByteBits * w + zero) \div ByteBits = w BY <3>1, PartsOf
    <3>3. ByteBits * w + 0 = m BY <1>1
    <3> QED BY <3>2, <3>3 DEF zero
  <2>2. g = ones
    <3>1. g = [i \in 0 .. w - 1 |-> IF i \in DOMAIN ones THEN ones[i] ELSE 0]
      <4> HIDE DEF m
      <4> QED BY <2>1 DEF Mask, ZeroExtend
    <3> QED BY <3>1
  <2>3. Base - 1 \in ByteValues BY BaseIs DEF ByteValues
  <2>4. g \in Bytes(w) BY <2>2, <2>3 DEF Bytes
  <2>5. Digits(g, w) /\ Value(g) = Number(Base, g, w) BY <2>4, ImmediateIs
  <2>6. Filled(g, v, h, w) BY <2>2 DEF Filled
  <2>7. v \in {0, 1} /\ h \in 0 .. w /\ v = 1 OBVIOUS
  <2>8. ByteBits * (w - h) = m BY <1>1
  <2> HIDE DEF v, h, g
  <2>9. Suffixes(Base, g, w)[h] = TwoTo[ByteBits * (w - h)] - 1 BY <2>5, <2>6, <2>7, FilledIs
  <2>10. Suffixes(Base, g, w)[h] = Value(g) BY <2>5 DEF Number, h
  <2> QED BY <2>4, <2>8, <2>9, <2>10 DEF g
<1>9. j \in Nat
  <2>1. m - k \in Int BY <1>1, <1>5
  <2>2. j \in 0 .. bb - 1
    <3> DEFINE v == m - k
    <3> HIDE DEF v
    <3>1. v % bb \in 0 .. bb - 1 BY <1>1, <2>1, Parts DEF v
    <3> QED BY <3>1 DEF v
  <2> HIDE DEF j
  <2> QED BY <1>1, <2>2
<1> DEFINE t == TwoTo[j]
<1>10. fill \in Bytes(w) /\ Value(fill) = ((span - 1) * t) % span
  <2> DEFINE g == Mask(m, m)
  <2>1. g \in Bytes(w) /\ Value(g) = span - 1 BY <1>8
  <2>2. TwoTo[ByteBits * w] = span BY <1>1
  <2> HIDE DEF g, j, span
  <2>3. ShiftLeft(g, j) \in Bytes(w)
        /\ Value(ShiftLeft(g, j)) = (Value(g) * TwoTo[j]) % TwoTo[ByteBits * w]
    BY <1>9, <2>1, ShiftLeftIs
  <2> QED BY <2>1, <2>2, <2>3 DEF g
<1>11. e \in Bytes(w) /\ Value(e) = BitByBit(Disjoin, Value(shifted), Value(fill), m)
  <2>1. Disjoin \in Table BY DEF Disjoin, Table
  <2> HIDE DEF shifted, fill
  <2> QED BY <1>6, <1>10, <2>1, BitwiseIs DEF Or
<1>12. CASE k > m
  <2>1. Value(shifted) = 0 BY <1>6, <1>7, <1>12
  <2>2. ~negative => Value(ShiftRightArithmetic(c, d)) = 0 BY <1>4, <2>1
  <2>3. j = m - k + bb
    <3> DEFINE g == m - k + bb
    <3>1. g \in 0 .. bb - 1 /\ g - bb = m - k BY <1>1, <1>3, <1>5, <1>12
    <3> HIDE DEF g
    <3>2. (g - bb) % bb = g BY <1>1, <3>1, WrapsUp
    <3> QED BY <3>1, <3>2 DEF g
  <2>4. j >= m BY <1>1, <1>3, <1>5, <1>12, <2>3 DEF bb
  <2>5. Value(fill) = 0
    <3> DEFINE q == (span - 1) * TwoTo[j - m]
               zero == 0
               z == (span - 1) * t
    <3>1. t = span * TwoTo[j - m] /\ TwoTo[j - m] \in Nat
      <4> HIDE DEF j
      <4>1. j - m \in Nat BY <1>1, <1>9, <2>4
      <4> QED BY <1>1, <1>9, <2>4, <4>1, TwoToRises, TwoToIs
    <3>2. q \in Int /\ zero \in 0 .. span - 1
      <4> DEFINE l == TwoTo[j - m]
      <4>1. l \in Nat BY <3>1
      <4> HIDE DEF l, span
      <4> QED BY <1>5, <4>1 DEF l
    <3>3. z = span * q + 0
      <4> DEFINE l == TwoTo[j - m]
      <4>1. t = span * l /\ l \in Nat BY <3>1
      <4>2. q = (span - 1) * l OBVIOUS
      <4> HIDE DEF l, span, t, q
      <4>3. (span - 1) * (span * l) = span * ((span - 1) * l) + 0 BY <1>5, <4>1
      <4> QED BY <4>1, <4>2, <4>3
    <3> HIDE DEF q, zero, z, span
    <3>4. (span * q + zero) % span = zero BY <1>5, <3>2, PartsOf
    <3> QED BY <1>10, <3>3, <3>4 DEF zero, z
  <2>6. Value(e) = 0
    <3> DEFINE p == 0
               g == 0
               i == 0
    <3>1. p \in Nat /\ g \in Nat /\ i \in Nat /\ TwoTo[i] = 1 /\ p < TwoTo[i] /\ g < TwoTo[m]
          /\ i + m = m
      BY <1>1, <1>5, TwoToIs
    <3> HIDE DEF p, g, i
    <3>2. BitByBit(Disjoin, p, TwoTo[i] * g, i + m) = p + TwoTo[i] * g BY <1>1, <3>1, OrIs
    <3>3. TwoTo[i] * g = 0 BY <3>1 DEF g
    <3>4. p + 0 = 0 BY DEF p
    <3> QED BY <1>11, <2>1, <2>5, <3>1, <3>2, <3>3, <3>4 DEF p
  <2>7. Value(ShiftRightArithmetic(c, d)) = 0 BY <1>4, <2>2, <2>6
  <2> QED BY <1>5, <1>1, <1>12, <2>7 DEF k, bb
<1>13. CASE k <= m
  <2> DEFINE u == TwoTo[k]
             p == x0 \div u
             g == u - 1
  <2>1. j = m - k
    <3> DEFINE r == m - k
    <3>1. r \in 0 .. bb - 1 BY <1>1, <1>3, <1>5, <1>13 DEF bb
    <3> HIDE DEF r
    <3>2. r % bb = r BY <1>1, <3>1, WrapsUp
    <3> QED BY <3>2 DEF r
  <2>2. span = u * t /\ t \in Nat \ {0} /\ u \in Nat \ {0} /\ j + k = m
    <3> HIDE DEF j
    <3> QED BY <1>1, <1>5, <1>9, <1>13, <2>1, TwoToRises, TwoToIs
  <2>3. /\ p \in Nat /\ p < t
        /\ p % span = p
        /\ ((x0 - span) \div u) % span = p + (span - t)
    <3> HIDE DEF x0, u, t, span
    <3>1. x0 < u * t BY <1>5, <2>2
    <3>2. /\ p \in Nat /\ p < t
          /\ p % (u * t) = p
          /\ ((x0 - u * t) \div u) % (u * t) = p + (u * t - t)
      BY <1>5, <2>2, <3>1, SignedShift
    <3> QED BY <2>2, <3>2
  <2>4. Value(fill) = t * g
    <3> DEFINE z == (span - 1) * t
               q == t - 1
               r == t * g
    <3>1. z = span * q + r /\ q \in Int /\ r \in 0 .. span - 1 /\ span \in Nat \ {0}
      <4> HIDE DEF span, t, u
      <4>1. (span - 1) * t = span * (t - 1) + (span - t) BY <1>5, <2>2
      <4>2. t * (u - 1) = span - t
        <5>1. t * (u - 1) = u * t - t BY <2>2
        <5> QED BY <2>2, <5>1
      <4>3. t <= span
        <5>1. 1 * t <= u * t BY <2>2
        <5> QED BY <2>2, <5>1
      <4> DEFINE sq == span * (t - 1)
      <4>4. z = sq + (span - t) /\ r = span - t BY <4>1, <4>2
      <4>5. sq \in Int BY <1>5, <2>2
      <4> HIDE DEF z, sq, r
      <4>6. z = sq + r /\ r \in 0 .. span - 1 BY <1>5, <2>2, <4>3, <4>4, <4>5
      <4> QED BY <1>5, <2>2, <4>6 DEF sq
    <3> HIDE DEF z, q, r, span
    <3>2. (span * q + r) % span = r BY <3>1, PartsOf
    <3> QED BY <1>10, <3>1, <3>2 DEF z, r
  <2>5. Value(e) = p + t * g
    <3>1. g \in Nat /\ g < TwoTo[k]
      <4> HIDE DEF u
      <4> QED BY <2>2 DEF u
    <3>2. Value(e) = BitByBit(Disjoin, p, t * g, j + k) BY <1>6, <1>11, <2>2, <2>4
    <3> HIDE DEF j, p, g
    <3>3. BitByBit(Disjoin, p, TwoTo[j] * g, j + k) = p + TwoTo[j] * g
      BY <1>5, <1>9, <2>3, <3>1, OrIs
    <3> QED BY <3>2, <3>3
  <2>6. t * g = span - t
    <3> HIDE DEF t, u, span
    <3>1. t * (u - 1) = u * t - t BY <2>2
    <3> QED BY <2>2, <3>1
  <2>7. Value(ShiftRightArithmetic(c, d)) = IF negative THEN p + (span - t) ELSE p
    <3> HIDE DEF negative, p, t, span, e, shifted
    <3>1. Value(shifted) = p BY <1>6 DEF p
    <3> QED BY <1>4, <2>5, <2>6, <3>1
  <2> DEFINE signed == IF negative THEN x0 - span ELSE x0
  <2>8. (signed \div u) % span = IF negative THEN p + (span - t) ELSE p
    <3>1. CASE negative
      <4> HIDE DEF negative, t, span, u, x0
      <4> QED BY <2>3, <3>1
    <3>2. CASE ~negative
      <4> HIDE DEF negative, t, span, u, x0
      <4> QED BY <2>3, <3>2
    <3> QED BY <3>1, <3>2
  <2>9. Value(ShiftRightArithmetic(c, d)) = (signed \div TwoTo[k]) % TwoTo[m]
    BY <2>7, <2>8
  <2> QED BY <1>1, <1>5, <1>13, <2>9 DEF k, bb
<1>14. k > m \/ k <= m BY <1>1, <1>5
<1> QED BY <1>12, <1>13, <1>14

-----------------------------------------------------------------------------
(* The results of calls.                                                    *)

LEMMA CallIs ==
  ASSUME Called
  PROVE  /\ width(a) \in Nat /\ width(a) > 0 /\ a \in Bytes(width(a)) /\ b \in Bytes(width(a))
         /\ x = Value(a) /\ y = Value(b) /\ x \in Nat /\ y \in Nat
         /\ n = width(a) * ByteBits /\ n \in Nat /\ n < Base * Base
         /\ Span = TwoTo[ByteBits * width(a)] /\ Span = TwoTo[n] /\ Span \in Nat \ {0}
         /\ x < Span /\ y < Span
<1> DEFINE w == width(a)
<1>1. w \in Nat /\ w > 0 /\ a \in Bytes(w) /\ b \in Bytes(w) /\ size(a) < Base * Base
  BY DEF Called
<1>2. x = Value(a) /\ y = Value(b) BY DEF Called, x, y
<1>3. ByteBits \in Nat BY BaseIs
<1>4. n = w * ByteBits BY DEF n, size
<1> HIDE DEF w
<1>5. n = ByteBits * w /\ n \in Nat BY <1>1, <1>3, <1>4
<1>6. /\ Value(a) \in Nat /\ Value(a) < TwoTo[ByteBits * w]
      /\ Value(b) \in Nat /\ Value(b) < TwoTo[ByteBits * w]
  BY <1>1, ValueIs
<1>7. TwoTo[n] \in Nat \ {0} BY <1>5, TwoToIs
<1>8. n < Base * Base BY <1>1 DEF n
<1> QED BY <1>1, <1>2, <1>4, <1>5, <1>6, <1>7, <1>8 DEF Span, w

LEMMA SumReturned ==
  ASSUME Called, op = "Add"
  PROVE  Value(Plus(a, b)) = Expected
<1>1. Value(Plus(a, b)) = x + y BY CallIs, PlusIs
<1> QED BY <1>1 DEF Expected

LEMMA DifferenceReturned ==
  ASSUME Called, op = "Sub"
  PROVE  Value(Minus(a, b)) = Expected
<1> DEFINE p == TwoTo[ByteBits * width(a)]
<1>1. Value(Minus(a, b)) = (Value(a) - Value(b)) % (p * p)
  <2>1. width(a) \in Nat /\ a \in Bytes(width(a)) /\ b \in Bytes(width(a)) BY CallIs
  <2> QED BY <2>1, MinusIs
<1>2. x = Value(a) /\ y = Value(b) /\ p = Span BY CallIs
<1> HIDE DEF p
<1>3. Value(Minus(a, b)) = (x - y) % (Span * Span) BY <1>1, <1>2
<1> QED BY <1>3 DEF Expected

LEMMA ProductReturned ==
  ASSUME Called, op = "Mul", ProductReturns(width(a))
  PROVE  Value(Multiply(a, b)) = Expected
<1>1. /\ width(a) \in Nat /\ width(a) > 0 /\ a \in Bytes(width(a)) /\ b \in Bytes(width(a))
      /\ x = Value(a) /\ y = Value(b)
  BY CallIs
<1>2. Value(Multiply(a, b)) = x * y BY <1>1, MultiplyIs
<1> QED BY <1>2 DEF Expected

LEMMA TablesAre ==
  /\ Conjoin \in Table /\ Disjoin \in Table /\ Exclude \in Table
  /\ Conjoin = [p \in {0, 1} \X {0, 1} |-> p[1] * p[2]]
  /\ Disjoin = [p \in {0, 1} \X {0, 1} |-> IF p = <<0, 0>> THEN 0 ELSE 1]
  /\ Exclude = [p \in {0, 1} \X {0, 1} |-> IF p[1] = p[2] THEN 0 ELSE 1]
<1>1. \A p \in {0, 1} \X {0, 1} :
        /\ p[1] \in {0, 1} /\ p[2] \in {0, 1} /\ p[1] * p[2] \in {0, 1}
        /\ p[1] + p[2] - p[1] * p[2] = IF p = <<0, 0>> THEN 0 ELSE 1
        /\ (p[1] + p[2]) % 2 = IF p[1] = p[2] THEN 0 ELSE 1
  OBVIOUS
<1>2. Conjoin \in Table BY <1>1 DEF Conjoin, Table
<1>3. Conjoin = [p \in {0, 1} \X {0, 1} |-> p[1] * p[2]] BY DEF Conjoin
<1>4. Disjoin = [p \in {0, 1} \X {0, 1} |-> IF p = <<0, 0>> THEN 0 ELSE 1]
  BY <1>1 DEF Disjoin
<1>5. Exclude = [p \in {0, 1} \X {0, 1} |-> IF p[1] = p[2] THEN 0 ELSE 1]
  BY <1>1 DEF Exclude
<1>6. Disjoin \in Table BY <1>4 DEF Table
<1>7. Exclude \in Table BY <1>5 DEF Table
<1> QED BY <1>2, <1>3, <1>4, <1>5, <1>6, <1>7

LEMMA BitsReturned ==
  ASSUME Called
  PROVE  /\ op = "And" => Value(And(a, b)) = Expected
         /\ op = "Or" => Value(Or(a, b)) = Expected
         /\ op = "Xor" => Value(Xor(a, b)) = Expected
<1>1. /\ width(a) \in Nat /\ a \in Bytes(width(a)) /\ b \in Bytes(width(a))
      /\ x = Value(a) /\ y = Value(b) /\ n = width(a) * ByteBits
  BY CallIs
<1>2. ASSUME NEW table \in Table
      PROVE  Value(Bitwise(table, a, b)) = BitByBit(table, x, y, n)
  BY <1>1, BitwiseIs
<1>3. ASSUME op = "And" PROVE Value(And(a, b)) = Expected
  <2>1. Value(And(a, b)) = BitByBit(Conjoin, x, y, n) BY <1>2, TablesAre DEF And
  <2>2. Expected = BitByBit([p \in {0, 1} \X {0, 1} |-> p[1] * p[2]], x, y, n)
    BY <1>3 DEF Expected
  <2> QED BY <2>1, <2>2, TablesAre
<1>4. ASSUME op = "Or" PROVE Value(Or(a, b)) = Expected
  <2>1. Value(Or(a, b)) = BitByBit(Disjoin, x, y, n) BY <1>2, TablesAre DEF Or
  <2>2. Expected
        = BitByBit([p \in {0, 1} \X {0, 1} |-> IF p = <<0, 0>> THEN 0 ELSE 1], x, y, n)
    BY <1>4 DEF Expected
  <2> QED BY <2>1, <2>2, TablesAre
<1>5. ASSUME op = "Xor" PROVE Value(Xor(a, b)) = Expected
  <2>1. Value(Xor(a, b)) = BitByBit(Exclude, x, y, n) BY <1>2, TablesAre DEF Xor
  <2>2. Expected
        = BitByBit([p \in {0, 1} \X {0, 1} |-> IF p[1] = p[2] THEN 0 ELSE 1], x, y, n)
    BY <1>5 DEF Expected
  <2> QED BY <2>1, <2>2, TablesAre
<1> QED BY <1>3, <1>4, <1>5

\* A shift by more than the size is the shift by the size.
LEMMA BeyondIs ==
  ASSUME NEW m \in Nat, NEW k \in Nat, k > m, NEW v \in Nat, v < TwoTo[m]
  PROVE  /\ v \div TwoTo[k] = v \div TwoTo[m]
         /\ (v * TwoTo[k]) % TwoTo[m] = (v * TwoTo[m]) % TwoTo[m]
<1> DEFINE t == TwoTo[m]
           u == TwoTo[k]
           l == TwoTo[k - m]
           zero == 0
<1>1. /\ t \in Nat \ {0} /\ u \in Nat \ {0} /\ l \in Nat /\ u = t * l /\ t <= u
      /\ zero \in Int /\ v \in Int
  <2>1. k - m \in Nat /\ m <= k /\ zero \in Int /\ v \in Int OBVIOUS
  <2>2. TwoTo[m] <= TwoTo[k] /\ TwoTo[k] = TwoTo[m] * TwoTo[k - m] BY <2>1, TwoToRises
  <2>3. t \in Nat \ {0} /\ u \in Nat \ {0} /\ l \in Nat BY <2>1, TwoToIs
  <2> QED BY <2>1, <2>2, <2>3
<1>2. v \in 0 .. t - 1 /\ v \in 0 .. u - 1 /\ zero \in 0 .. t - 1 BY <1>1
<1> HIDE DEF t, u, l, zero
<1>3. (t * zero + v) \div t = zero /\ (u * zero + v) \div u = zero BY <1>1, <1>2, PartsOf
<1>4. t * 0 + v = v /\ u * 0 + v = v BY <1>1
<1>5. v \div t = 0 /\ v \div u = 0 BY <1>3, <1>4 DEF zero
<1> DEFINE q == v * l
<1>6. q \in Int BY <1>1
<1>7. v * u = t * q + 0 /\ v * t = t * v + 0
  <2>1. v * (t * l) = t * (v * l) + 0 /\ v * t = t * v + 0 BY <1>1
  <2> QED BY <1>1, <2>1
<1> HIDE DEF q
<1>8. (t * q + zero) % t = zero /\ (t * v + zero) % t = zero BY <1>1, <1>2, <1>6, PartsOf
<1>9. (v * u) % t = 0 /\ (v * t) % t = 0 BY <1>7, <1>8 DEF zero
<1> QED BY <1>5, <1>9 DEF t, u

LEMMA ShiftReturned ==
  ASSUME Called
  PROVE  /\ op = "Lshl" => Value(ShiftLeft(a, Count(b))) = Expected
         /\ op = "Lshr" => Value(ShiftRight(a, Count(b))) = Expected
<1> DEFINE k == y % (Base * Base)
           w == width(a)
<1>1. /\ w \in Nat /\ a \in Bytes(w) /\ b \in Bytes(w) /\ x = Value(a) /\ y = Value(b)
      /\ x \in Nat /\ y \in Nat /\ n \in Nat /\ Span = TwoTo[n] /\ x < TwoTo[n]
      /\ Span = TwoTo[ByteBits * w]
  BY CallIs
<1> HIDE DEF w
<1>2. Count(b) = k BY <1>1, CountIs
<1>3. k \in Nat
  <2> DEFINE bb == Base * Base
  <2>1. bb \in Nat \ {0} BY <1>1, CountIs
  <2> HIDE DEF bb
  <2>2. y % bb \in Nat BY <1>1, <2>1, QuotientFits
  <2> QED BY <2>2 DEF bb
<1>4. Shift = IF k > n THEN n ELSE k BY DEF Shift
<1> HIDE DEF k
<1>5. Value(ShiftLeft(a, k)) = (x * TwoTo[k]) % Span BY <1>1, <1>3, ShiftLeftIs
<1>6. Value(ShiftRight(a, k)) = x \div TwoTo[k] BY <1>1, <1>3, ShiftRightIs
<1>7. k > n => /\ x \div TwoTo[k] = x \div TwoTo[n]
               /\ (x * TwoTo[k]) % TwoTo[n] = (x * TwoTo[n]) % TwoTo[n]
  <2> DEFINE m == n
             v == x
  <2>1. m \in Nat /\ v \in Nat /\ v < TwoTo[m] BY <1>1
  <2> HIDE DEF m, v
  <2>2. k > m => /\ v \div TwoTo[k] = v \div TwoTo[m]
                 /\ (v * TwoTo[k]) % TwoTo[m] = (v * TwoTo[m]) % TwoTo[m]
    BY <1>3, <2>1, BeyondIs
  <2> QED BY <2>2 DEF m, v
<1>8. op = "Lshl" => Expected = (x * TwoTo[Shift]) % Span BY DEF Expected
<1>9. op = "Lshr" => Expected = x \div TwoTo[Shift] BY DEF Expected
<1>10. CASE k > n
  <2>1. Shift = n BY <1>4, <1>10
  <2>2. Value(ShiftLeft(a, k)) = (x * TwoTo[Shift]) % Span
        /\ Value(ShiftRight(a, k)) = x \div TwoTo[Shift]
    BY <1>1, <1>5, <1>6, <1>7, <1>10, <2>1
  <2> QED BY <1>2, <1>8, <1>9, <2>2
<1>11. CASE ~(k > n)
  <2>1. Shift = k BY <1>4, <1>11
  <2> QED BY <1>2, <1>5, <1>6, <1>8, <1>9, <2>1
<1> QED BY <1>10, <1>11

LEMMA SignedReturned ==
  ASSUME Called
  PROVE  /\ op = "Ashr" => Value(ShiftRightArithmetic(a, b)) = Expected
         /\ op = "Sex" => Value(SignExtend(a, 2 * n)) = Expected
<1> DEFINE k == y % (Base * Base)
           w == width(a)
           v == Value(a)
           s == IF v >= Span \div 2 THEN v - Span ELSE v
<1>1. /\ w \in Nat /\ w > 0 /\ a \in Bytes(w) /\ b \in Bytes(w) /\ x = v /\ y = Value(b)
      /\ x \in Nat /\ n \in Nat /\ n = w * ByteBits /\ n < Base * Base
      /\ Span = TwoTo[n] /\ Span = TwoTo[ByteBits * w] /\ Span \in Nat \ {0} /\ y \in Nat
  BY CallIs
<1> HIDE DEF w
<1>2. s = Signed(x) BY <1>1 DEF Signed
<1>3. ASSUME op = "Ashr" PROVE Value(ShiftRightArithmetic(a, b)) = Expected
  <2> DEFINE e == ShiftRightArithmetic(a, b)
             m == w * ByteBits
             signed == IF Value(a) >= TwoTo[m] \div 2 THEN Value(a) - TwoTo[m] ELSE Value(a)
             j == Value(b) % (Base * Base)
  <2>1. /\ j > m => Value(e) = 0
        /\ j <= m => Value(e) = (signed \div TwoTo[j]) % TwoTo[m]
    BY <1>1, AshrIs
  <2>2. m = n /\ j = k /\ TwoTo[m] = Span BY <1>1
  <2>3. signed = s BY <2>2
  <2>4. k \in Nat
    <3> DEFINE bb == Base * Base
    <3>1. bb \in Nat \ {0} BY <1>1, CountIs
    <3> HIDE DEF bb
    <3>2. y % bb \in Nat BY <1>1, <3>1, QuotientFits
    <3> QED BY <3>2 DEF bb
  <2>5. Expected = IF k > n THEN 0 ELSE (Signed(x) \div TwoTo[Shift]) % Span
    BY <1>3 DEF Expected
  <2>6. Shift = IF k > n THEN n ELSE k BY DEF Shift
  <2> HIDE DEF e, m, signed, j, k, s
  <2>7. CASE k > n BY <2>1, <2>2, <2>5, <2>7 DEF e
  <2>8. CASE ~(k > n)
    <3>1. k <= n BY <1>1, <2>4, <2>8
    <3>2. Value(e) = (signed \div TwoTo[j]) % TwoTo[m] BY <2>1, <2>2, <3>1
    <3>3. Value(e) = (Signed(x) \div TwoTo[k]) % Span BY <1>2, <2>2, <2>3, <3>2
    <3> QED BY <2>5, <2>6, <2>8, <3>3 DEF e
  <2> QED BY <2>7, <2>8
<1>4. ASSUME op = "Sex" PROVE Value(SignExtend(a, 2 * n)) = Expected
  <2> DEFINE p == TwoTo[ByteBits * w]
             g == IF Value(a) >= p \div 2 THEN p ELSE 0
             e == SignExtend(a, 2 * (w * ByteBits))
  <2>1. Value(e) = (Value(a) - g) % (p * p)
    BY <1>1, SignExtendIs
  <2>2. p = Span BY <1>1
  <2>3. Value(a) - g = s
    <3>1. Value(a) \in Int BY <1>1
    <3>2. CASE Value(a) >= Span \div 2 BY <2>2, <3>2
    <3>3. CASE ~(Value(a) >= Span \div 2)
      <4>1. g = 0 /\ s = Value(a) BY <2>2, <3>3
      <4> HIDE DEF g, s
      <4> QED BY <3>1, <4>1
    <3> QED BY <3>2, <3>3
  <2>4. Expected = Signed(x) % (Span * Span) BY <1>4 DEF Expected
  <2>5. e = SignExtend(a, 2 * n) BY <1>1
  <2> HIDE DEF e, g, p, s
  <2>6. Value(e) = s % (Span * Span) BY <2>1, <2>2, <2>3
  <2> QED BY <1>2, <2>4, <2>5, <2>6
<1> QED BY <1>3, <1>4

LEMMA ComparisonReturned ==
  ASSUME Called
  PROVE  /\ op = "Less" => Value(Truth(Less(a, b))) = Expected
         /\ op = "LessOrEqual" => Value(Truth(LessOrEqual(a, b))) = Expected
<1>1. /\ width(a) \in Nat /\ a \in Bytes(width(a)) /\ b \in Bytes(width(a))
      /\ x = Value(a) /\ y = Value(b)
  BY CallIs
<1>2. (Less(a, b) <=> x < y) /\ (LessOrEqual(a, b) <=> x <= y) BY <1>1, LessIs
<1>3. ASSUME NEW condition \in BOOLEAN
      PROVE  Value(Truth(condition)) = IF condition THEN 1 ELSE 0
  <2> DEFINE v == IF condition THEN 1 ELSE 0
             w == 1
  <2>1. /\ w \in Nat /\ v \in Nat /\ v <= 1
        /\ w * ByteBits = ByteBits /\ TwoTo[ByteBits * w] = Base /\ Base \in Nat /\ Base > 1
    <3>1. 1 * ByteBits = ByteBits /\ ByteBits * 1 = ByteBits BY BaseIs
    <3> QED BY <3>1, BaseIs
  <2> HIDE DEF v, w
  <2>2. v < TwoTo[ByteBits * w] BY <2>1
  <2>3. Value(Imm(w * ByteBits, v)) = v BY <2>1, <2>2, ImmIs
  <2>4. Value(Imm(ByteBits, v)) = v BY <2>1, <2>3
  <2> QED BY <2>4 DEF Truth, v
<1>4. (x < y) \in BOOLEAN /\ (x <= y) \in BOOLEAN OBVIOUS
<1>5. ASSUME op = "Less" PROVE Value(Truth(Less(a, b))) = Expected
  <2>1. Expected = IF x < y THEN 1 ELSE 0 BY <1>5 DEF Expected
  <2>2. Less(a, b) \in BOOLEAN BY DEF Less
  <2>3. Value(Truth(Less(a, b))) = IF Less(a, b) THEN 1 ELSE 0 BY <1>3, <2>2
  <2> QED BY <1>2, <2>1, <2>3
<1>6. ASSUME op = "LessOrEqual" PROVE Value(Truth(LessOrEqual(a, b))) = Expected
  <2>1. Expected = IF x <= y THEN 1 ELSE 0 BY <1>6 DEF Expected
  <2>2. LessOrEqual(a, b) \in BOOLEAN BY DEF LessOrEqual, Less
  <2>3. Value(Truth(LessOrEqual(a, b))) = IF LessOrEqual(a, b) THEN 1 ELSE 0 BY <1>3, <2>2
  <2> QED BY <1>2, <2>1, <2>3
<1> QED BY <1>5, <1>6

LEMMA ExpectedStays ==
  ASSUME UNCHANGED <<op, a, b, pair>>
  PROVE  Expected' = Expected
<1>1. op' = op /\ a' = a /\ b' = b /\ pair' = pair OBVIOUS
<1>2. x' = x /\ y' = y /\ n' = n BY <1>1 DEF x, y, n
<1>3. Span' = Span BY <1>2 DEF Span
<1>4. Shift' = Shift BY <1>2 DEF Shift
<1>5. Signed(x)' = Signed(x) BY <1>2, <1>3 DEF Signed
<1> QED BY <1>1, <1>2, <1>3, <1>4, <1>5 DEF Expected

LEMMA ResultsContinue == CallIInv /\ ResultsExact /\ [Next]_vars => ResultsExact'
<1> SUFFICES ASSUME CallIInv, ResultsExact, [Next]_vars PROVE ResultsExact' OBVIOUS
<1>1. Called BY DEF CallIInv
<1>2. ASSUME Returns, op \in {"Div", "Mod"} PROVE ResultsExact'
  <2>1. op' = op BY <1>2, ReturnLeaves
  <2> QED BY <1>2, <2>1 DEF ResultsExact
<1>3. ASSUME Returns, op \notin {"Div", "Mod"} PROVE Value(result') = Expected
  <2>1. ~Div /\ ~Mod BY <1>3 DEF Div, Mod, Return
  <2>2. CASE Add BY <1>1, <2>2, SumReturned DEF Add, Return
  <2>3. CASE Sub BY <1>1, <2>3, DifferenceReturned DEF Sub, Return
  <2>4. CASE Mul BY <1>1, <2>4, ProductReturned DEF Mul, Return
  <2>5. CASE Conjunction BY <1>1, <2>5, BitsReturned DEF Conjunction, Return
  <2>6. CASE Disjunction BY <1>1, <2>6, BitsReturned DEF Disjunction, Return
  <2>7. CASE Exclusion BY <1>1, <2>7, BitsReturned DEF Exclusion, Return
  <2>8. CASE Lshl BY <1>1, <2>8, ShiftReturned DEF Lshl, Return
  <2>9. CASE Lshr BY <1>1, <2>9, ShiftReturned DEF Lshr, Return
  <2>10. CASE Ashr BY <1>1, <2>10, SignedReturned DEF Ashr, Return
  <2>11. CASE Sex BY <1>1, <2>11, SignedReturned DEF Sex, Return
  <2>12. CASE CompareLess BY <1>1, <2>12, ComparisonReturned DEF CompareLess, Return
  <2>13. CASE CompareLessOrEqual
    BY <1>1, <2>13, ComparisonReturned DEF CompareLessOrEqual, Return
  <2> QED BY <1>3, <2>1, <2>2, <2>3, <2>4, <2>5, <2>6, <2>7, <2>8, <2>9, <2>10, <2>11,
             <2>12, <2>13 DEF Returns
<1>4. CASE Returns
  <2>1. UNCHANGED <<op, a, b, pair>> BY <1>4, ReturnLeaves DEF dvars
  <2>2. Expected' = Expected BY <2>1, ExpectedStays
  <2>3. op \notin {"Div", "Mod"} => Value(result)' = Expected' BY <1>3, <1>4, <2>2
  <2>4. op' = op BY <2>1
  <2> QED BY <2>3, <2>4 DEF ResultsExact
<1>5. CASE Divide \/ UNCHANGED vars
  <2>1. UNCHANGED <<op, a, b, pair>> /\ result' = result
    BY <1>5 DEF Divide, Iterate, vars, dvars
  <2>2. Expected' = Expected BY <2>1, ExpectedStays
  <2>3. op' = op /\ result' = result BY <2>1
  <2>4. Value(result)' = Value(result) BY <2>3
  <2> QED BY <2>2, <2>3, <2>4 DEF ResultsExact
<1> QED BY <1>4, <1>5 DEF Next, Returns

\* Sums, differences, products, operations on bits, shifts, sign extensions and
\* comparisons of Immediates are those of the integers, for operands of every width.
THEOREM ResultsStayExact == Spec => []ResultsExact
<1>1. Init => ResultsExact BY DEF Init, ResultsExact
<1> QED BY <1>1, ResultsContinue, CallInvariant, PTL DEF Spec

-----------------------------------------------------------------------------
(* The emulator: numbers of one bit and of as many as a register has.       *)

\* The emulator and A64 use the powers and numbers of Numerals.
LEMMA SameNumerals ==
  /\ Cpu!TwoTo = TwoTo /\ Arm!TwoTo = TwoTo
  /\ \A base, d, m : Cpu!Number(base, d, m) = Number(base, d, m)
<1>1. Cpu!TwoTo = TwoTo BY DEF Cpu!TwoTo, TwoTo
<1>2. Arm!TwoTo = TwoTo BY DEF Arm!TwoTo, TwoTo
<1>3. ASSUME NEW base, NEW d, NEW m PROVE Cpu!Number(base, d, m) = Number(base, d, m)
  BY DEF Cpu!Number, Cpu!Suffixes, Number, Suffixes
<1> QED BY <1>1, <1>2, <1>3

\* The registers have 4 and 8 bytes, as in the code.
LEMMA Widths ==
  /\ Byte \in Nat /\ Byte > 0 /\ Cpu!W = 4 * Byte /\ Cpu!X = 8 * Byte
  /\ Cpu!W \in Nat /\ Cpu!W > 0 /\ Cpu!X \in Nat /\ Cpu!X = Cpu!W + Cpu!W
  /\ OffsetBits \in Nat /\ OffsetBits > 2 /\ InstructionBytes = 4
BY SizesAssumption DEF Cpu!W, Cpu!X

\* The powers that occur by number.
LEMMA SmallPowers ==
  /\ TwoTo[0] = 1 /\ TwoTo[1] = 2 /\ TwoTo[2] = 4 /\ TwoTo[3] = 8
  /\ TwoTo[4] = 16 /\ TwoTo[8] = 256
<1>1. TwoTo[0 + 1] = 2 /\ TwoTo[1 + 1] = 4 /\ TwoTo[2 + 1] = 8 /\ TwoTo[3 + 1] = 16 BY TwoToIs
<1>2. TwoTo[4 + 1] = 32 /\ TwoTo[5 + 1] = 64 /\ TwoTo[6 + 1] = 128 /\ TwoTo[7 + 1] = 256
  BY <1>1, TwoToIs
<1> QED BY <1>1, <1>2, TwoToIs

\* A number of n bits, and the half that its sign is worth.
LEMMA Halves ==
  ASSUME NEW len \in Nat, len > 0
  PROVE  /\ len - 1 \in Nat /\ TwoTo[len - 1] \in Nat /\ TwoTo[len - 1] > 0
         /\ TwoTo[len] = 2 * TwoTo[len - 1] /\ TwoTo[len] \in Nat
<1>1. len - 1 \in Nat /\ len - 1 + 1 = len OBVIOUS
<1> QED BY <1>1, TwoToIs, TwoToNat

\* Quotient and remainder, one of them known.
LEMMA PartsAre ==
  ASSUME NEW t \in Nat \ {0}, NEW v \in Int, NEW q \in Int, NEW r \in 0 .. t - 1, v = t * q + r
  PROVE  v \div t = q /\ v % t = r
BY PartsOf

\* The highest bit of a number.
LEMMA BitSmall ==
  ASSUME NEW len \in Nat, len > 0, NEW u \in 0 .. TwoTo[len] - 1
  PROVE  /\ u \div TwoTo[len - 1] = IF u >= TwoTo[len - 1] THEN 1 ELSE 0
         /\ Cpu!SignBit(u, len) = IF u >= TwoTo[len - 1] THEN 1 ELSE 0
<1> DEFINE t == TwoTo[len - 1]
<1>1. t \in Nat \ {0} /\ TwoTo[len] = 2 * t /\ u \in Int BY Halves
<1>2. u \div t = IF u >= t THEN 1 ELSE 0
  <2> HIDE DEF t
  <2>1. CASE u >= t
    <3>1. PICK r \in 0 .. t - 1 : r = u - t BY <1>1, <2>1
    <3>2. 1 \in Int /\ u = t * 1 + r BY <1>1, <3>1
    <3>3. u \div t = 1 BY <1>1, <3>2, PartsAre, Zenon
    <3> QED BY <3>3, <2>1
  <2>2. CASE ~(u >= t)
    <3>1. 0 \in Int /\ u \in 0 .. t - 1 /\ u = t * 0 + u BY <1>1, <2>2
    <3>2. u \div t = 0 BY <1>1, <3>1, PartsAre, Zenon
    <3> QED BY <3>2, <2>2
  <2> QED BY <2>1, <2>2
<1>3. Cpu!SignBit(u, len) = (u \div t) % 2 BY SameNumerals DEF Cpu!SignBit, Cpu!Bit
<1> QED BY <1>2, <1>3

\* The operators of one bit.
LEMMA NumberOfOne ==
  ASSUME NEW v \in Int PROVE Cpu!Number(2, [k \in 0 .. 1 - 1 |-> v], 1) = v
<1> DEFINE d == [k \in 0 .. 1 - 1 |-> v]
           f == [k \in 0 .. 1 |-> IF k = 0 THEN v ELSE 0]
<1>1. Digits(d, 1) BY DEF Digits
<1>2. SumsUp(f, 2, d, 1) BY DEF SumsUp
<1>3. Number(2, d, 1) = f[0] BY <1>1, <1>2, NumberIs
<1> QED BY <1>3, SameNumerals

LEMMA BitsOfOne ==
  ASSUME NEW u \in {0, 1}, NEW v \in {0, 1}
  PROVE  /\ Cpu!And(u, v, 1) = IF u = 1 /\ v = 1 THEN 1 ELSE 0
         /\ Cpu!Or(u, v, 1) = IF u = 1 \/ v = 1 THEN 1 ELSE 0
         /\ Cpu!Xor(u, v, 1) = IF u # v THEN 1 ELSE 0
         /\ Cpu!Bisz(u) = 1 - u
<1>1. ASSUME NEW z \in {0, 1} PROVE Cpu!Bit(z, 0) = z
  <2>1. Cpu!Bit(z, 0) = (z \div 1) % 2 BY SameNumerals, TwoToIs DEF Cpu!Bit
  <2>2. (1 * z + 0) \div 1 = z BY PartsOf
  <2> QED BY <2>1, <2>2
<1>2. Cpu!And(u, v, 1) = IF u = 1 /\ v = 1 THEN 1 ELSE 0
  <2> DEFINE e == IF u = 1 /\ v = 1 THEN 1 ELSE 0
  <2>1. [k \in 0 .. 1 - 1 |-> IF Cpu!Bit(u, k) = 1 /\ Cpu!Bit(v, k) = 1 THEN 1 ELSE 0]
        = [k \in 0 .. 1 - 1 |-> e] BY <1>1
  <2>2. Cpu!And(u, v, 1) = Cpu!Number(2, [k \in 0 .. 1 - 1 |-> e], 1)
    BY <2>1, Zenon DEF Cpu!And, Cpu!Bits
  <2> QED BY <2>2, NumberOfOne
<1>3. Cpu!Or(u, v, 1) = IF u = 1 \/ v = 1 THEN 1 ELSE 0
  <2> DEFINE e == IF u = 1 \/ v = 1 THEN 1 ELSE 0
  <2>1. [k \in 0 .. 1 - 1 |-> IF Cpu!Bit(u, k) = 1 \/ Cpu!Bit(v, k) = 1 THEN 1 ELSE 0]
        = [k \in 0 .. 1 - 1 |-> e] BY <1>1
  <2>2. Cpu!Or(u, v, 1) = Cpu!Number(2, [k \in 0 .. 1 - 1 |-> e], 1)
    BY <2>1, Zenon DEF Cpu!Or, Cpu!Bits
  <2> QED BY <2>2, NumberOfOne
<1>4. Cpu!Xor(u, v, 1) = IF u # v THEN 1 ELSE 0
  <2> DEFINE e == IF u # v THEN 1 ELSE 0
  <2>1. [k \in 0 .. 1 - 1 |-> IF (Cpu!Bit(u, k) = 1) # (Cpu!Bit(v, k) = 1) THEN 1 ELSE 0]
        = [k \in 0 .. 1 - 1 |-> e] BY <1>1
  <2>2. Cpu!Xor(u, v, 1) = Cpu!Number(2, [k \in 0 .. 1 - 1 |-> e], 1)
    BY <2>1, Zenon DEF Cpu!Xor, Cpu!Bits
  <2> QED BY <2>2, NumberOfOne
<1>5. Cpu!Bisz(u) = 1 - u BY DEF Cpu!Bisz
<1> QED BY <1>2, <1>3, <1>4, <1>5

\* The remainder of what is less than twice the divisor, either way from 0.
LEMMA RemainderNear ==
  ASSUME NEW t \in Nat \ {0}, NEW z \in Int, -t <= z, z < 2 * t
  PROVE  z % t = IF z < 0 THEN z + t ELSE IF z < t THEN z ELSE z - t
<1>1. CASE z < 0
  <2>1. PICK r \in 0 .. t - 1 : r = z + t BY <1>1
  <2>2. -1 \in Int /\ z = t * (-1) + r BY <2>1
  <2>3. PICK q \in Int : q = -1 BY <2>2
  <2>4. z = t * q + r BY <2>2, <2>3
  <2>5. z % t = r BY <2>4, PartsAre, Zenon
  <2> QED BY <2>5, <2>1, <1>1
<1>2. CASE 0 <= z /\ z < t
  <2>1. 0 \in Int /\ z \in 0 .. t - 1 /\ z = t * 0 + z BY <1>2
  <2>2. z % t = z BY <2>1, PartsAre, Zenon
  <2> QED BY <2>2, <1>2
<1>3. CASE t <= z
  <2>1. PICK r \in 0 .. t - 1 : r = z - t BY <1>3
  <2>2. 1 \in Int /\ z = t * 1 + r BY <2>1
  <2>3. z % t = r BY <2>2, PartsAre, Zenon
  <2> QED BY <2>3, <2>1, <1>3
<1> QED BY <1>1, <1>2, <1>3

\* AddWithCarry computes what A64 defines, for every width: the sum, its carry out of the
\* highest bit, and the overflow of the sum of the numbers with a sign.
LEMMA AddedIs ==
  ASSUME NEW len \in Nat, len > 0, NEW u \in 0 .. TwoTo[len] - 1, NEW v \in 0 .. TwoTo[len] - 1,
         NEW c \in {0, 1}
  PROVE  /\ Cpu!AddWithCarry(u, v, c, len).result = (u + v + c) % TwoTo[len]
         /\ Cpu!AddWithCarry(u, v, c, len).flags = Arm!SumFlags(u, v, c, len)
<1> DEFINE t == TwoTo[len - 1]
           z == u + v + c
           r == IF z < 2 * t THEN z ELSE z - 2 * t
           over == IF (u >= t) # (r >= t) /\ (v >= t) # (r >= t) THEN 1 ELSE 0
<1>1. t \in Nat \ {0} /\ TwoTo[len] = 2 * t /\ TwoTo[len + 1] = 4 * t
  BY Halves, TwoToIs
<1>2. z \in 0 .. 4 * t - 1 /\ u \in Nat /\ v \in Nat /\ c \in Nat BY <1>1
<1>3. z % TwoTo[len] = r
  <2>1. 2 * t \in Nat \ {0} /\ z \in Int /\ -(2 * t) <= z /\ z < 2 * (2 * t) /\ ~(z < 0)
    BY <1>1, <1>2
  <2> HIDE DEF z
  <2>2. z % (2 * t) = IF z < 0 THEN z + (2 * t) ELSE IF z < 2 * t THEN z ELSE z - (2 * t)
    BY <2>1, RemainderNear, Zenon
  <2> QED BY <2>1, <2>2, <1>1
<1>4. r \in 0 .. TwoTo[len] - 1 BY <1>1, <1>2
<1>5. Cpu!Bit(z, len) = IF z >= 2 * t THEN 1 ELSE 0
  <2>1. len + 1 \in Nat /\ len + 1 > 0 /\ len + 1 - 1 = len
        /\ z \in 0 .. TwoTo[len + 1] - 1
    BY <1>1, <1>2
  <2> HIDE DEF z
  <2>2. Cpu!SignBit(z, len + 1) = IF z >= TwoTo[len + 1 - 1] THEN 1 ELSE 0
    BY <2>1, BitSmall
  <2> QED BY <2>1, <2>2, <1>1 DEF Cpu!SignBit
<1>6. /\ Cpu!SignBit(u, len) = IF u >= t THEN 1 ELSE 0
      /\ Cpu!SignBit(v, len) = IF v >= t THEN 1 ELSE 0
      /\ Cpu!SignBit(r, len) = IF r >= t THEN 1 ELSE 0
  <2> HIDE DEF r
  <2> QED BY <1>4, BitSmall
<1> DEFINE su == Cpu!SignBit(u, len)
           sv == Cpu!SignBit(v, len)
           sr == Cpu!SignBit(r, len)
<1>7. Cpu!And(Cpu!Xor(su, sr, 1), Cpu!Xor(sv, sr, 1), 1) = over
  <2>1. su \in {0, 1} /\ sv \in {0, 1} /\ sr \in {0, 1} BY <1>6
  <2> HIDE DEF su, sv, sr
  <2>2. /\ Cpu!Xor(su, sr, 1) = IF su # sr THEN 1 ELSE 0
        /\ Cpu!Xor(sv, sr, 1) = IF sv # sr THEN 1 ELSE 0 BY <2>1, BitsOfOne
  <2> DEFINE p == Cpu!Xor(su, sr, 1)
             q == Cpu!Xor(sv, sr, 1)
  <2>3. p \in {0, 1} /\ q \in {0, 1} BY <2>2
  <2> HIDE DEF p, q
  <2>4. Cpu!And(p, q, 1) = IF p = 1 /\ q = 1 THEN 1 ELSE 0 BY <2>3, BitsOfOne
  <2> USE DEF p, q
  <2>5. Cpu!And(p, q, 1) = IF su # sr /\ sv # sr THEN 1 ELSE 0 BY <2>4, <2>2
  <2>6. su # sr /\ sv # sr <=> (u >= t) # (r >= t) /\ (v >= t) # (r >= t)
    BY <1>6 DEF su, sv, sr
  <2> QED BY <2>5, <2>6
<1>8. Cpu!Bisz(r) = IF r = 0 THEN 1 ELSE 0 BY DEF Cpu!Bisz
<1>9. v + c + u = z BY <1>2
<1>10. /\ Cpu!AddWithCarry(u, v, c, len).result = r
       /\ Cpu!AddWithCarry(u, v, c, len).flags
          = [n |-> sr, z |-> Cpu!Bisz(r), c |-> Cpu!Bit(z, len),
             v |-> Cpu!And(Cpu!Xor(su, sr, 1), Cpu!Xor(sv, sr, 1), 1)]
  <2>1. (v + c + u) % Cpu!TwoTo[len] = r BY <1>9, <1>3, SameNumerals
  <2> HIDE DEF r, z
  <2> QED BY <2>1, <1>9 DEF Cpu!AddWithCarry, Cpu!Nzcv
<1>11. Arm!SumFlags(u, v, c, len)
       = [n |-> IF r >= t THEN 1 ELSE 0, z |-> IF r = 0 THEN 1 ELSE 0,
          c |-> IF z >= 2 * t THEN 1 ELSE 0, v |-> over]
  <2> DEFINE s == Arm!Signed(u, len) + Arm!Signed(v, len) + c
  <2>1. /\ Arm!Signed(u, len) = IF u >= t THEN u - 2 * t ELSE u
        /\ Arm!Signed(v, len) = IF v >= t THEN v - 2 * t ELSE v
    BY <1>1, SameNumerals DEF Arm!Signed
  <2>2. s = (IF u >= t THEN u - 2 * t ELSE u) + (IF v >= t THEN v - 2 * t ELSE v) + c BY <2>1
  <2>3. (IF ~(-t <= s /\ s < t) THEN 1 ELSE 0) = over BY <2>2, <1>1, <1>2
  <2>4. Arm!Modulus(len) = 2 * t BY <1>1, SameNumerals DEF Arm!Modulus
  <2>5. Arm!Signedly(s, len) <=> -t <= s /\ s < t BY SameNumerals DEF Arm!Signedly
  <2>6. z % Arm!Modulus(len) = r BY <1>3, <1>1, <2>4
  <2> HIDE DEF z, r, s, over
  <2>7. Arm!SumFlags(u, v, c, len) = Arm!FlagsOf(z, len, z >= 2 * t, ~Arm!Signedly(s, len))
    BY <2>4 DEF Arm!SumFlags, z, s
  <2>8. (IF ~Arm!Signedly(s, len) THEN 1 ELSE 0) = over BY <2>3, <2>5
  <2> QED BY <2>6, <2>7, <2>8, SameNumerals DEF Arm!FlagsOf, Arm!Flag
<1> HIDE DEF z, r, over, su, sv, sr
<1>12. Cpu!AddWithCarry(u, v, c, len).flags = Arm!SumFlags(u, v, c, len)
  BY <1>5, <1>6, <1>7, <1>8, <1>10, <1>11 DEF su, sv, sr
<1> QED BY <1>3, <1>10, <1>12 DEF z

\* The number with all bits inverted.
LEMMA NotIs ==
  ASSUME NEW len \in Nat, NEW v \in 0 .. TwoTo[len] - 1
  PROVE  Cpu!Not(v, len) = TwoTo[len] - 1 - v /\ Cpu!Not(v, len) \in 0 .. TwoTo[len] - 1
<1>1. TwoTo[len] \in Nat BY TwoToNat
<1>2. Cpu!Not(v, len) = TwoTo[len] - 1 - v BY SameNumerals DEF Cpu!Not
<1> QED BY <1>1, <1>2

\* With the second number inverted, a carry is the absence of a borrow.
LEMMA SubtractedIs ==
  ASSUME NEW len \in Nat, len > 0, NEW u \in 0 .. TwoTo[len] - 1, NEW v \in 0 .. TwoTo[len] - 1,
         NEW c \in {0, 1}
  PROVE  /\ Cpu!AddWithCarry(u, Cpu!Not(v, len), c, len).result = (u - v - (1 - c)) % TwoTo[len]
         /\ Cpu!AddWithCarry(u, Cpu!Not(v, len), c, len).flags
            = Arm!DifferenceFlags(u, v, 1 - c, len)
<1> DEFINE t == TwoTo[len - 1]
           neg == Cpu!Not(v, len)
           z == u - v - (1 - c)
           s == Arm!Signed(u, len) - Arm!Signed(v, len) - (1 - c)
           S == Arm!Signed(u, len) + Arm!Signed(neg, len) + c
<1>1. t \in Nat \ {0} /\ TwoTo[len] = 2 * t BY Halves
<1>2. neg = 2 * t - 1 - v /\ neg \in 0 .. TwoTo[len] - 1 BY <1>1, NotIs
<1> HIDE DEF neg
<1>3. u + neg + c = z + 2 * t /\ z \in Int /\ -(2 * t) <= z /\ z < 2 * t /\ u + neg + c \in Int
  BY <1>1, <1>2
<1>4. (z + 2 * t) % (2 * t) = z % (2 * t)
  <2>1. 2 * t \in Nat \ {0} /\ -(2 * t) <= z /\ z < 2 * (2 * t)
        /\ z + 2 * t \in Int /\ -(2 * t) <= z + 2 * t /\ z + 2 * t < 2 * (2 * t) BY <1>1, <1>3
  <2> HIDE DEF z
  <2>2. z % (2 * t) = IF z < 0 THEN z + (2 * t) ELSE IF z < 2 * t THEN z ELSE z - (2 * t)
    BY <2>1, <1>3, RemainderNear, Zenon
  <2> DEFINE Z == z + 2 * t
  <2>3. Z \in Int /\ -(2 * t) <= Z /\ Z < 2 * (2 * t) BY <2>1
  <2> HIDE DEF Z
  <2>4. Z % (2 * t) = IF Z < 0 THEN Z + (2 * t) ELSE IF Z < 2 * t THEN Z ELSE Z - (2 * t)
    BY <2>1, <2>3, RemainderNear, Zenon
  <2> QED BY <2>2, <2>4, <1>1, <1>3 DEF Z
<1>5. S = s
  <2>1. /\ Arm!Signed(u, len) = IF u >= t THEN u - 2 * t ELSE u
        /\ Arm!Signed(v, len) = IF v >= t THEN v - 2 * t ELSE v
        /\ Arm!Signed(neg, len) = IF neg >= t THEN neg - 2 * t ELSE neg
    BY <1>1, SameNumerals DEF Arm!Signed
  <2> QED BY <2>1, <1>1, <1>2
<1>6. Arm!Modulus(len) = 2 * t BY <1>1, SameNumerals DEF Arm!Modulus
<1>7. Arm!SumFlags(u, neg, c, len) = Arm!DifferenceFlags(u, v, 1 - c, len)
  <2>1. (u + neg + c >= Arm!Modulus(len)) = (z >= 0) BY <1>1, <1>3, <1>6
  <2>2. (u + neg + c) % Arm!Modulus(len) = z % Arm!Modulus(len) BY <1>3, <1>4, <1>6
  <2>3. Arm!SumFlags(u, neg, c, len)
        = Arm!FlagsOf(u + neg + c, len, u + neg + c >= Arm!Modulus(len), ~Arm!Signedly(S, len))
    BY DEF Arm!SumFlags
  <2>4. Arm!DifferenceFlags(u, v, 1 - c, len)
        = Arm!FlagsOf(z, len, z >= 0, ~Arm!Signedly(s, len))
    BY DEF Arm!DifferenceFlags
  <2> HIDE DEF z, s, S
  <2> QED BY <2>1, <2>2, <2>3, <2>4, <1>5 DEF Arm!FlagsOf
<1>8. Cpu!AddWithCarry(u, neg, c, len).result = (u + neg + c) % TwoTo[len]
      /\ Cpu!AddWithCarry(u, neg, c, len).flags = Arm!SumFlags(u, neg, c, len)
  BY <1>2, AddedIs
<1>9. (u + neg + c) % TwoTo[len] = z % TwoTo[len] BY <1>1, <1>3, <1>4
<1> QED BY <1>7, <1>8, <1>9 DEF neg

\* Flags computed are flags.
LEMMA FlagsAreFlagged ==
  ASSUME NEW u, NEW v, NEW c, NEW len
  PROVE  Arm!SumFlags(u, v, c, len) \in Flagged /\ Arm!DifferenceFlags(u, v, c, len) \in Flagged
BY DEF Arm!SumFlags, Arm!DifferenceFlags, Arm!FlagsOf, Arm!Flag, Flagged, ZeroOne

\* The conditions are tested as A64 defines them.
LEMMA ConditionIs ==
  ASSUME NEW f \in Flagged, NEW cc \in 0 .. 15
  PROVE  Cpu!ConditionHolds(f, cc) = IF Arm!Holds(cc, f) THEN 1 ELSE 0
<1>1. f.n \in {0, 1} /\ f.z \in {0, 1} /\ f.c \in {0, 1} /\ f.v \in {0, 1} BY DEF Flagged, ZeroOne
<1> DEFINE x1 == Cpu!Xor(f.n, f.v, 1)
           nz == Cpu!Bisz(f.z)
           eq == Cpu!Bisz(x1)
           hi == Cpu!And(f.c, nz, 1)
           gt == Cpu!And(eq, nz, 1)
<1>2. x1 = (IF f.n # f.v THEN 1 ELSE 0) /\ nz = 1 - f.z BY <1>1, BitsOfOne
<1>3. x1 \in {0, 1} /\ nz \in {0, 1} BY <1>1, <1>2
<1>4. eq = 1 - x1 /\ eq \in {0, 1}
  <2> HIDE DEF x1
  <2> QED BY <1>3, BitsOfOne
<1>5. hi = IF f.c = 1 /\ nz = 1 THEN 1 ELSE 0
  <2> HIDE DEF nz
  <2> QED BY <1>1, <1>3, BitsOfOne
<1>6. gt = IF eq = 1 /\ nz = 1 THEN 1 ELSE 0
  <2> HIDE DEF nz, eq
  <2> QED BY <1>3, <1>4, BitsOfOne
<1> HIDE DEF x1, nz, eq, hi, gt
<1> DEFINE h == cc \div 2
           even == CASE h = 0 -> f.z
                  [] h = 1 -> f.c
                  [] h = 2 -> f.n
                  [] h = 3 -> f.v
                  [] h = 4 -> hi
                  [] h = 5 -> eq
                  [] h = 6 -> gt
                  [] h = 7 -> 1
           Even == CASE h = 0 -> f.z = 1
                [] h = 1 -> f.c = 1
                [] h = 2 -> f.n = 1
                [] h = 3 -> f.v = 1
                [] h = 4 -> f.c = 1 /\ f.z = 0
                [] h = 5 -> f.n = f.v
                [] h = 6 -> f.n = f.v /\ f.z = 0
                [] h = 7 -> TRUE
<1>7. even \in {0, 1} /\ (even = 1 <=> Even)
  <2>1. h \in {0, 1, 2, 3, 4, 5, 6, 7} BY SMT
  <2> HIDE DEF h
  <2>2. CASE h = 0
    <3>1. even = f.z BY <2>2
    <3>2. Even <=> f.z = 1 BY <2>2
    <3> HIDE DEF even, Even
    <3> QED BY <1>1, <3>1, <3>2
  <2>3. CASE h = 1
    <3>1. even = f.c BY <2>3
    <3>2. Even <=> f.c = 1 BY <2>3
    <3> HIDE DEF even, Even
    <3> QED BY <1>1, <3>1, <3>2
  <2>4. CASE h = 2
    <3>1. even = f.n BY <2>4
    <3>2. Even <=> f.n = 1 BY <2>4
    <3> HIDE DEF even, Even
    <3> QED BY <1>1, <3>1, <3>2
  <2>5. CASE h = 3
    <3>1. even = f.v BY <2>5
    <3>2. Even <=> f.v = 1 BY <2>5
    <3> HIDE DEF even, Even
    <3> QED BY <1>1, <3>1, <3>2
  <2>6. CASE h = 4
    <3>1. even = hi BY <2>6
    <3>2. Even <=> f.c = 1 /\ f.z = 0 BY <2>6
    <3> HIDE DEF even, Even
    <3> QED BY <1>2, <1>5, <1>1, <3>1, <3>2
  <2>7. CASE h = 5
    <3>1. even = eq BY <2>7
    <3>2. Even <=> f.n = f.v BY <2>7
    <3> HIDE DEF even, Even
    <3> QED BY <1>2, <1>4, <1>1, <3>1, <3>2
  <2>8. CASE h = 6
    <3>1. even = gt BY <2>8
    <3>2. Even <=> f.n = f.v /\ f.z = 0 BY <2>8
    <3> HIDE DEF even, Even
    <3> QED BY <1>2, <1>4, <1>6, <1>1, <3>1, <3>2
  <2>9. CASE h = 7
    <3>1. even = 1 BY <2>9
    <3>2. Even <=> TRUE BY <2>9
    <3> HIDE DEF even, Even
    <3> QED BY <1>1, <3>1, <3>2
  <2> QED BY <2>1, <2>2, <2>3, <2>4, <2>5, <2>6, <2>7, <2>8, <2>9
<1>8. Cpu!ConditionHolds(f, cc) = IF cc # 15 /\ cc % 2 = 1 THEN Cpu!Bisz(even) ELSE even
  BY Zenon DEF Cpu!ConditionHolds, x1, nz, eq, hi, gt
<1>9. Arm!Holds(cc, f) <=> IF cc % 2 = 1 /\ cc # 15 THEN ~Even ELSE Even
  BY Zenon DEF Arm!Holds
<1>10. Cpu!Bisz(even) = 1 - even
  <2> HIDE DEF even
  <2> QED BY <1>7, BitsOfOne
<1> HIDE DEF even, Even
<1> QED BY <1>7, <1>8, <1>9, <1>10
-----------------------------------------------------------------------------
(* What conditions say of the numbers compared.                             *)

\* The conditions that a comparison can be asked for.
LEMMA HoldsIs ==
  ASSUME NEW f \in Flagged
  PROVE  /\ Arm!Holds(0, f) <=> f.z = 1
         /\ Arm!Holds(1, f) <=> f.z # 1
         /\ Arm!Holds(2, f) <=> f.c = 1
         /\ Arm!Holds(3, f) <=> f.c # 1
         /\ Arm!Holds(8, f) <=> f.c = 1 /\ f.z = 0
         /\ Arm!Holds(9, f) <=> ~(f.c = 1 /\ f.z = 0)
         /\ Arm!Holds(10, f) <=> f.n = f.v
         /\ Arm!Holds(11, f) <=> f.n # f.v
         /\ Arm!Holds(12, f) <=> f.n = f.v /\ f.z = 0
         /\ Arm!Holds(13, f) <=> ~(f.n = f.v /\ f.z = 0)
<1>1. /\ 0 \div 2 = 0 /\ 1 \div 2 = 0 /\ 2 \div 2 = 1 /\ 3 \div 2 = 1
      /\ 8 \div 2 = 4 /\ 9 \div 2 = 4
      /\ 10 \div 2 = 5 /\ 11 \div 2 = 5 /\ 12 \div 2 = 6 /\ 13 \div 2 = 6
      /\ 0 % 2 = 0 /\ 1 % 2 = 1 /\ 2 % 2 = 0 /\ 3 % 2 = 1 /\ 8 % 2 = 0 /\ 9 % 2 = 1
      /\ 10 % 2 = 0 /\ 11 % 2 = 1 /\ 12 % 2 = 0 /\ 13 % 2 = 1
  OBVIOUS
<1>2. Arm!Holds(0, f) <=> f.z = 1 BY <1>1 DEF Arm!Holds
<1>3. Arm!Holds(1, f) <=> f.z # 1 BY <1>1 DEF Arm!Holds
<1>4. Arm!Holds(2, f) <=> f.c = 1 BY <1>1 DEF Arm!Holds
<1>5. Arm!Holds(3, f) <=> f.c # 1 BY <1>1 DEF Arm!Holds
<1>6. Arm!Holds(8, f) <=> f.c = 1 /\ f.z = 0 BY <1>1 DEF Arm!Holds
<1>7. Arm!Holds(9, f) <=> ~(f.c = 1 /\ f.z = 0) BY <1>1 DEF Arm!Holds
<1>8. Arm!Holds(10, f) <=> f.n = f.v BY <1>1 DEF Arm!Holds
<1>9. Arm!Holds(11, f) <=> f.n # f.v BY <1>1 DEF Arm!Holds
<1>10. Arm!Holds(12, f) <=> f.n = f.v /\ f.z = 0 BY <1>1 DEF Arm!Holds
<1>11. Arm!Holds(13, f) <=> ~(f.n = f.v /\ f.z = 0) BY <1>1 DEF Arm!Holds
<1> QED BY <1>2, <1>3, <1>4, <1>5, <1>6, <1>7, <1>8, <1>9, <1>10, <1>11

\* A number with a sign, in two's complement.
LEMMA SignedIs ==
  ASSUME NEW len \in Nat, len > 0, NEW u \in 0 .. TwoTo[len] - 1
  PROVE  /\ Arm!Signed(u, len) = IF u >= TwoTo[len - 1] THEN u - TwoTo[len] ELSE u
         /\ Arm!Signed(u, len) \in Int
         /\ -TwoTo[len - 1] <= Arm!Signed(u, len) /\ Arm!Signed(u, len) < TwoTo[len - 1]
<1>1. Arm!Signed(u, len) = IF u >= TwoTo[len - 1] THEN u - TwoTo[len] ELSE u
  BY SameNumerals DEF Arm!Signed
<1>2. TwoTo[len - 1] \in Nat \ {0} /\ TwoTo[len] = 2 * TwoTo[len - 1] BY Halves
<1> QED BY <1>1, <1>2

\* What the flags of a difference say: which number is less, with and without a sign.
LEMMA DifferenceSays ==
  ASSUME NEW len \in Nat, len > 0, NEW u \in 0 .. TwoTo[len] - 1, NEW v \in 0 .. TwoTo[len] - 1,
         NEW k \in {0, 1}, NEW f, f = Arm!DifferenceFlags(u, v, k, len)
  PROVE  /\ f \in Flagged
         /\ f.c = 1 <=> u - v - k >= 0
         /\ f.n = f.v <=> Arm!Signed(u, len) - Arm!Signed(v, len) - k >= 0
         /\ k = 0 => (f.z = 1 <=> u = v)
<1> DEFINE t == TwoTo[len - 1]
           z == u - v - k
           s == Arm!Signed(u, len) - Arm!Signed(v, len) - k
           r == z % (2 * t)
<1>1. t \in Nat \ {0} /\ TwoTo[len] = 2 * t BY Halves
<1>2. r = IF z < 0 THEN z + 2 * t ELSE z
  <2>1. 2 * t \in Nat \ {0} /\ z \in Int /\ -(2 * t) <= z /\ z < 2 * (2 * t) /\ z < 2 * t BY <1>1
  <2> HIDE DEF z
  <2>2. z % (2 * t) = IF z < 0 THEN z + (2 * t) ELSE IF z < 2 * t THEN z ELSE z - (2 * t)
    BY <2>1, RemainderNear, Zenon
  <2> QED BY <2>1, <2>2
<1>3. /\ Arm!Signed(u, len) = IF u >= t THEN u - 2 * t ELSE u
      /\ Arm!Signed(v, len) = IF v >= t THEN v - 2 * t ELSE v BY <1>1, SignedIs
<1>4. f = [n |-> IF r >= t THEN 1 ELSE 0, z |-> IF r = 0 THEN 1 ELSE 0,
           c |-> IF z >= 0 THEN 1 ELSE 0, v |-> IF ~(-t <= s /\ s < t) THEN 1 ELSE 0]
  <2>1. Arm!Modulus(len) = 2 * t BY <1>1, SameNumerals DEF Arm!Modulus
  <2>2. Arm!Signedly(s, len) <=> -t <= s /\ s < t BY SameNumerals DEF Arm!Signedly
  <2>3. f = Arm!FlagsOf(z, len, z >= 0, ~Arm!Signedly(s, len)) BY DEF Arm!DifferenceFlags
  <2>4. z % Arm!Modulus(len) = r BY <2>1
  <2> HIDE DEF z, r, s
  <2> QED BY <2>2, <2>3, <2>4, SameNumerals DEF Arm!FlagsOf, Arm!Flag
<1>5. f \in Flagged BY FlagsAreFlagged
<1>6. f.c = 1 <=> z >= 0 BY <1>4
<1>7. f.n = f.v <=> s >= 0
  <2>1. f.n = (IF r >= t THEN 1 ELSE 0) /\ f.v = (IF ~(-t <= s /\ s < t) THEN 1 ELSE 0) BY <1>4
  <2>2. s = (IF u >= t THEN u - 2 * t ELSE u) - (IF v >= t THEN v - 2 * t ELSE v) - k BY <1>3
  <2> HIDE DEF s, r
  <2> QED BY <2>1, <2>2, <1>1, <1>2
<1>8. k = 0 => (f.z = 1 <=> u = v)
  <2>1. f.z = (IF r = 0 THEN 1 ELSE 0) BY <1>4
  <2> HIDE DEF r
  <2> QED BY <2>1, <1>1, <1>2
<1> QED BY <1>5, <1>6, <1>7, <1>8

\* After a comparison a condition holds if its relation does.
LEMMA RelationIs ==
  ASSUME NEW len \in Nat, len > 0, NEW u \in 0 .. TwoTo[len] - 1, NEW v \in 0 .. TwoTo[len] - 1,
         NEW cond \in Relations
  PROVE  Arm!Holds(cond, Arm!DifferenceFlags(u, v, 0, len)) <=> Related(cond, u, v, len)
<1> DEFINE f == Arm!DifferenceFlags(u, v, 0, len)
           A == Arm!Signed(u, len)
           B == Arm!Signed(v, len)
<1>1. /\ f \in Flagged
      /\ f.c = 1 <=> u - v - 0 >= 0
      /\ f.n = f.v <=> A - B - 0 >= 0
      /\ f.z = 1 <=> u = v
  BY DifferenceSays
<1>2. f.z \in {0, 1} BY <1>1 DEF Flagged, ZeroOne
<1>3. A \in Int /\ B \in Int /\ (A = B <=> u = v)
  <2>1. TwoTo[len - 1] \in Nat \ {0} /\ TwoTo[len] = 2 * TwoTo[len - 1] BY Halves
  <2> QED BY <2>1, SignedIs
<1> HIDE DEF f
<1>4. u \in Int /\ v \in Int BY TwoToNat
<1>5. Related(0, u, v, len) <=> u = v BY DEF Related
<1>6. Related(1, u, v, len) <=> u # v BY DEF Related
<1>7. Related(2, u, v, len) <=> u >= v BY DEF Related
<1>8. Related(3, u, v, len) <=> u < v BY DEF Related
<1>9. Related(8, u, v, len) <=> u > v BY DEF Related
<1>10. Related(9, u, v, len) <=> u <= v BY DEF Related
<1>11. Related(10, u, v, len) <=> A >= B BY DEF Related
<1>12. Related(11, u, v, len) <=> A < B BY DEF Related
<1>13. Related(12, u, v, len) <=> A > B BY DEF Related
<1>14. Related(13, u, v, len) <=> A <= B BY DEF Related
<1> HIDE DEF A, B
<1>15. cond \in {0, 1, 2, 3, 8, 9, 10, 11, 12, 13} BY DEF Relations
<1> SUFFICES Arm!Holds(cond, f) <=> Related(cond, u, v, len) BY DEF f
<1>16. CASE cond \in {0, 1} BY <1>1, <1>5, <1>6, <1>16, HoldsIs
<1>17. CASE cond \in {2, 3} BY <1>1, <1>4, <1>7, <1>8, <1>17, HoldsIs
<1>18. CASE cond \in {8, 9} BY <1>1, <1>2, <1>4, <1>9, <1>10, <1>18, HoldsIs
<1>19. CASE cond \in {10, 11} BY <1>1, <1>3, <1>11, <1>12, <1>19, HoldsIs
<1>20. CASE cond \in {12, 13} BY <1>1, <1>2, <1>3, <1>13, <1>14, <1>20, HoldsIs
<1> QED BY <1>15, <1>16, <1>17, <1>18, <1>19, <1>20

\* Numbers of two digits are compared by the high ones, with the borrow of the low ones.
LEMMA Lexicographic ==
  ASSUME NEW t \in Nat \ {0}, NEW p \in 0 .. t - 1, NEW q \in 0 .. t - 1,
         NEW up \in Int, NEW z \in Int, NEW k \in {0, 1}, k = 0 <=> p >= q
  PROVE  up - z - k >= 0 <=> p + t * up >= q + t * z
<1>1. PICK d \in Int : d = up - z OBVIOUS
<1> DEFINE ty == t * up
           tz == t * z
           td == t * d
<1>2. td \in Int /\ ty = tz + td /\ tz \in Int BY <1>1
<1>3. /\ d >= 1 => td >= t
      /\ d = 0 => td = 0
      /\ d <= -1 => td <= -t
  <2>1. ASSUME d >= 1 PROVE td >= t
    <3>1. t * d = t * (d - 1) + t /\ t * (d - 1) >= 0 BY <2>1
    <3> QED BY <3>1
  <2>2. ASSUME d <= -1 PROVE td <= -t
    <3>1. PICK e \in Nat : e = -d - 1 BY <2>2
    <3>2. t * (-e - 1) = -(t * e) - t /\ t * e \in Nat OBVIOUS
    <3>3. d = -e - 1 BY <3>1
    <3>4. t * d = t * (-e - 1) BY <3>3, Zenon
    <3> QED BY <3>2, <3>4
  <2> QED BY <2>1, <2>2
<1> SUFFICES up - z - k >= 0 <=> p + ty >= q + tz OBVIOUS
<1> HIDE DEF ty, tz, td
<1> QED BY <1>1, <1>2, <1>3

\* The same, with the powers given.
LEMMA SignedBy ==
  ASSUME NEW len, NEW v, NEW h, NEW l, TwoTo[len - 1] = h, TwoTo[len] = l
  PROVE  Arm!Signed(v, len) = IF v >= h THEN v - l ELSE v
BY SameNumerals DEF Arm!Signed

\* The number of two registers, and the one with a sign: that of the high register.
LEMMA WideIs ==
  ASSUME NEW len \in Nat, len > 0, NEW p \in 0 .. TwoTo[len] - 1, NEW up \in 0 .. TwoTo[len] - 1
  PROVE  /\ 2 * len \in Nat /\ 2 * len > 0 /\ TwoTo[2 * len] = TwoTo[len] * TwoTo[len]
         /\ p + TwoTo[len] * up \in 0 .. TwoTo[2 * len] - 1
         /\ Arm!Signed(p + TwoTo[len] * up, 2 * len) = p + TwoTo[len] * Arm!Signed(up, len)
<1> DEFINE t == TwoTo[len - 1]
           T == TwoTo[len]
<1>1. t \in Nat \ {0} /\ T = 2 * t /\ T \in Nat \ {0} /\ len - 1 \in Nat BY Halves
<1>2. 2 * len \in Nat /\ 2 * len > 0 /\ 2 * len = len + len
      /\ 2 * len - 1 = len + (len - 1)
  BY <1>1
<1>3. TwoTo[2 * len] = T * T /\ TwoTo[2 * len - 1] = T * t BY <1>1, <1>2, TwoToSum
<1> HIDE DEF t, T
<1>4. T * up \in Nat /\ T * up <= T * T - T
  <2>1. up \in Nat /\ T - 1 - up \in Nat /\ p \in Nat BY <1>1 DEF T
  <2>2. T * (T - 1 - up) \in Nat /\ T * up \in Nat /\ T * (T - 1 - up) = T * T - T - T * up
    BY <2>1, <1>1
  <2> QED BY <2>2, <1>1
<1>5. p \in 0 .. T - 1 /\ up \in 0 .. T - 1 BY DEF T
<1>6. T * T \in Nat BY <1>1
<1>7. p + T * up \in 0 .. T * T - 1 BY <1>1, <1>4, <1>5, <1>6
<1>8. p + T * up >= T * t <=> up >= t
  <2>1. CASE up >= t
    <3>1. T * (up - t) \in Nat /\ T * up = T * t + T * (up - t) BY <1>1, <1>5, <2>1
    <3>2. T * t \in Nat BY <1>1
    <3> QED BY <3>1, <3>2, <1>5, <2>1, <1>1
  <2>2. CASE ~(up >= t)
    <3>1. T * (t - 1 - up) \in Nat /\ T * up = T * t - T - T * (t - 1 - up) BY <1>1, <1>5, <2>2
    <3>2. T * t \in Nat BY <1>1
    <3> QED BY <3>1, <3>2, <1>5, <2>2, <1>1
  <2> QED BY <2>1, <2>2
<1>9. Arm!Signed(p + T * up, 2 * len)
      = IF p + T * up >= T * t THEN (p + T * up) - T * T ELSE p + T * up
  BY <1>3, SignedBy, Zenon
<1>10. Arm!Signed(up, len) = IF up >= t THEN up - T ELSE up
  BY SignedIs, <1>1 DEF t, T
<1>11. Arm!Signed(p + T * up, 2 * len) = p + T * Arm!Signed(up, len)
  <2>1. CASE up >= t
    <3>1. T * (up - T) = T * up - T * T BY <1>1, <1>5
    <3> QED BY <3>1, <1>4, <1>5, <1>6, <1>8, <1>9, <1>10, <2>1
  <2>2. CASE ~(up >= t) BY <1>8, <1>9, <1>10, <2>2
  <2> QED BY <2>1, <2>2
<1> QED BY <1>2, <1>3, <1>7, <1>11 DEF T

\* The flags of the low halves, carried into the comparison of the high ones, say the
\* relation of the whole.
LEMMA WideRelationIs ==
  ASSUME NEW len \in Nat, len > 0, NEW p \in 0 .. TwoTo[len] - 1, NEW up \in 0 .. TwoTo[len] - 1,
         NEW q \in 0 .. TwoTo[len] - 1, NEW z \in 0 .. TwoTo[len] - 1,
         NEW cond \in {2, 3, 10, 11}, NEW f, f = Arm!DifferenceFlags(p, q, 0, len)
  PROVE  Arm!Holds(cond, Arm!DifferenceFlags(up, z, 1 - f.c, len))
         <=> Related(cond, p + TwoTo[len] * up, q + TwoTo[len] * z, 2 * len)
<1> DEFINE T == TwoTo[len]
           k == 1 - f.c
           g == Arm!DifferenceFlags(up, z, k, len)
           A == Arm!Signed(up, len)
           B == Arm!Signed(z, len)
           AA == Arm!Signed(p + T * up, 2 * len)
           BB == Arm!Signed(q + T * z, 2 * len)
<1>1. f \in Flagged /\ (f.c = 1 <=> p - q - 0 >= 0) BY DifferenceSays
<1>2. k \in {0, 1} BY <1>1 DEF Flagged, ZeroOne
<1>3. p \in Int /\ q \in Int /\ up \in Int /\ z \in Int /\ T \in Nat \ {0}
  <2>1. T \in Nat \ {0} BY TwoToNat
  <2> QED BY <2>1
<1>4. k = 0 <=> p >= q BY <1>1, <1>3 DEF Flagged, ZeroOne
<1> HIDE DEF k
<1>5. g \in Flagged /\ (g.c = 1 <=> up - z - k >= 0) /\ (g.n = g.v <=> A - B - k >= 0)
  BY <1>2, DifferenceSays
<1>6. A \in Int /\ B \in Int BY SignedIs
<1>7. AA = p + T * A /\ BB = q + T * B
  <2>1. AA = p + T * A BY WideIs, Zenon
  <2>2. BB = q + T * B BY WideIs, Zenon
  <2> QED BY <2>1, <2>2
<1>8. Related(2, p + T * up, q + T * z, 2 * len) <=> p + T * up >= q + T * z BY DEF Related
<1>9. Related(3, p + T * up, q + T * z, 2 * len) <=> p + T * up < q + T * z BY DEF Related
<1>10. Related(10, p + T * up, q + T * z, 2 * len) <=> AA >= BB BY DEF Related
<1>11. Related(11, p + T * up, q + T * z, 2 * len) <=> AA < BB BY DEF Related
<1> HIDE DEF g, A, B, AA, BB, T
<1>12. p \in 0 .. T - 1 /\ q \in 0 .. T - 1 BY DEF T
<1>13. up - z - k >= 0 <=> p + T * up >= q + T * z BY <1>2, <1>3, <1>4, <1>12, Lexicographic
<1>14. A - B - k >= 0 <=> AA >= BB BY <1>2, <1>3, <1>4, <1>6, <1>7, <1>12, Lexicographic
<1>15. AA \in Int /\ BB \in Int /\ p + T * up \in Int /\ q + T * z \in Int
  <2>1. T * A \in Int /\ T * B \in Int /\ T * up \in Int /\ T * z \in Int BY <1>3, <1>6
  <2> QED BY <2>1, <1>3, <1>7
<1>16. Arm!Holds(cond, g) <=> Related(cond, p + T * up, q + T * z, 2 * len)
  <2>1. CASE cond = 2 BY <2>1, <1>5, <1>8, <1>13, HoldsIs
  <2>2. CASE cond = 3
    <3> DEFINE l == p + T * up
               r == q + T * z
    <3> HIDE DEF l, r
    <3>1. l \in Int /\ r \in Int BY <1>15 DEF l, r
    <3>2. l < r <=> ~(l >= r) BY <3>1
    <3> QED BY <2>2, <1>5, <1>9, <1>13, <3>2, HoldsIs DEF l, r
  <2>3. CASE cond = 10 BY <2>3, <1>5, <1>10, <1>14, HoldsIs
  <2>4. CASE cond = 11 BY <2>4, <1>5, <1>11, <1>14, <1>15, HoldsIs
  <2> QED BY <2>1, <2>2, <2>3, <2>4
<1> QED BY <1>16 DEF g, k, T
-----------------------------------------------------------------------------
(* What is decoded and which translation it has.                            *)

\* Each action that models a Translate... function is for some opcodes.
LEMMA OpcodesApart ==
  ASSUME NEW m, NEW i
  PROVE  /\ Cpu!PcRelativeAddressing(m, i) => i.opcode \in {"kAdr", "kAdrp"}
         /\ Cpu!AddSubtractImmediate(m, i) => i.opcode \in {"kAddImmediate", "kSubImmediate"}
         /\ Cpu!LogicalImmediate(m, i) =>
               i.opcode \in {"kAndImmediate", "kOrrImmediate", "kEorImmediate"}
         /\ Cpu!MoveWideImmediate(m, i) => i.opcode \in {"kMovn", "kMovz", "kMovk"}
         /\ Cpu!Bitfield(m, i) => i.opcode \in {"kSbfm", "kBfm", "kUbfm"}
         /\ Cpu!Extract(m, i) => i.opcode \in {"kExtr"}
         /\ Cpu!ConditionalBranch(m, i) => i.opcode \in {"kBCond"}
         /\ Cpu!ExceptionGeneration(m, i) =>
               i.opcode \in {"kSvc", "kHvc", "kSmc", "kBrk", "kHlt", "kDcps1", "kDcps2", "kDcps3"}
         /\ Cpu!System(m, i) => i.opcode \in {"kHint", "kSys", "kMsr", "kSysl", "kMrs"}
         /\ Cpu!BranchRegister(m, i) => i.opcode \in {"kBr", "kRet", "kEret", "kDrps", "kBlr"}
         /\ Cpu!BranchImmediate(m, i) => i.opcode \in {"kB", "kBl"}
         /\ Cpu!CompareAndBranch(m, i) => i.opcode \in {"kCbz", "kCbnz"}
         /\ Cpu!TestAndBranch(m, i) => i.opcode \in {"kTbz", "kTbnz"}
         /\ Cpu!LoadStoreExclusive(m, i) =>
               i.opcode \in {"kLdxr", "kLdar", "kCas", "kLdxp", "kStlr", "kStxr", "kStxp"}
         /\ Cpu!LoadLiteral(m, i) => i.opcode \in {"kLdrLiteral", "kLdrsLiteral", "kPrfmLiteral"}
         /\ Cpu!LoadStorePair(m, i) => i.opcode \in {"kLdp", "kLdpsw", "kStp"}
         /\ Cpu!LoadOrStore(m, i) => i.opcode \in {"kLdr", "kLdrs", "kStr", "kPrfm"}
         /\ Cpu!DataProcessingTwoSource(m, i) =>
               i.opcode \in {"kUdiv", "kSdiv", "kLsl", "kLsr", "kAsr", "kRor", "kPacga"}
         /\ Cpu!DataProcessingOneSource(m, i) =>
               i.opcode \in {"kRbit", "kRev16", "kRev32", "kRev", "kClz", "kCls", "kPacia"}
         /\ Cpu!LogicalShiftedRegister(m, i) =>
               i.opcode \in {"kAnd", "kBic", "kOrr", "kOrn", "kEor", "kEon"}
         /\ Cpu!AddSubtractShiftedRegister(m, i) =>
               i.opcode \in {"kAddShiftedRegister", "kSubShiftedRegister"}
         /\ Cpu!AddSubtractExtendedRegister(m, i) =>
               i.opcode \in {"kAddExtendedRegister", "kSubExtendedRegister"}
         /\ Cpu!AddSubtractWithCarry(m, i) => i.opcode \in {"kAdc", "kSbc"}
         /\ Cpu!ConditionalCompare(m, i) => i.opcode \in {"kCcmn", "kCcmp"}
         /\ Cpu!ConditionalSelect(m, i) => i.opcode \in {"kCsel", "kCsinc", "kCsinv", "kCsneg"}
         /\ Cpu!DataProcessingThreeSource(m, i) =>
               i.opcode \in {"kMadd", "kMsub", "kSmaddl", "kSmsubl", "kSmulh", "kUmaddl",
                             "kUmsubl", "kUmulh"}
         /\ Cpu!Unknown(m, i) => i.opcode \in {"kUnallocated", "kCasp"}
<1>1. Cpu!PcRelativeAddressing(m, i) => i.opcode \in {"kAdr", "kAdrp"}
  BY Zenon DEF Cpu!PcRelativeAddressing
<1>2. Cpu!AddSubtractImmediate(m, i) => i.opcode \in {"kAddImmediate", "kSubImmediate"}
  BY Zenon DEF Cpu!AddSubtractImmediate
<1>3. Cpu!LogicalImmediate(m, i) =>
        i.opcode \in {"kAndImmediate", "kOrrImmediate", "kEorImmediate"}
  BY Zenon DEF Cpu!LogicalImmediate
<1>4. Cpu!MoveWideImmediate(m, i) => i.opcode \in {"kMovn", "kMovz", "kMovk"}
  BY Zenon DEF Cpu!MoveWideImmediate
<1>5. Cpu!Bitfield(m, i) => i.opcode \in {"kSbfm", "kBfm", "kUbfm"}
  BY Zenon DEF Cpu!Bitfield
<1>6. Cpu!Extract(m, i) => i.opcode \in {"kExtr"}
  BY Zenon DEF Cpu!Extract
<1>7. Cpu!ConditionalBranch(m, i) => i.opcode \in {"kBCond"}
  BY Zenon DEF Cpu!ConditionalBranch
<1>8. Cpu!ExceptionGeneration(m, i) =>
        i.opcode \in {"kSvc", "kHvc", "kSmc", "kBrk", "kHlt", "kDcps1", "kDcps2", "kDcps3"}
  BY Zenon DEF Cpu!ExceptionGeneration
<1>9. Cpu!System(m, i) => i.opcode \in {"kHint", "kSys", "kMsr", "kSysl", "kMrs"}
  BY Zenon DEF Cpu!System
<1>10. Cpu!BranchRegister(m, i) => i.opcode \in {"kBr", "kRet", "kEret", "kDrps", "kBlr"}
  BY Zenon DEF Cpu!BranchRegister
<1>11. Cpu!BranchImmediate(m, i) => i.opcode \in {"kB", "kBl"}
  BY Zenon DEF Cpu!BranchImmediate
<1>12. Cpu!CompareAndBranch(m, i) => i.opcode \in {"kCbz", "kCbnz"}
  BY Zenon DEF Cpu!CompareAndBranch
<1>13. Cpu!TestAndBranch(m, i) => i.opcode \in {"kTbz", "kTbnz"}
  BY Zenon DEF Cpu!TestAndBranch
<1>14. Cpu!LoadStoreExclusive(m, i) =>
        i.opcode \in {"kLdxr", "kLdar", "kCas", "kLdxp", "kStlr", "kStxr", "kStxp"}
  BY Zenon DEF Cpu!LoadStoreExclusive
<1>15. Cpu!LoadLiteral(m, i) => i.opcode \in {"kLdrLiteral", "kLdrsLiteral", "kPrfmLiteral"}
  BY Zenon DEF Cpu!LoadLiteral
<1>16. Cpu!LoadStorePair(m, i) => i.opcode \in {"kLdp", "kLdpsw", "kStp"}
  BY Zenon DEF Cpu!LoadStorePair
<1>17. Cpu!LoadOrStore(m, i) => i.opcode \in {"kLdr", "kLdrs", "kStr", "kPrfm"}
  BY Zenon DEF Cpu!LoadOrStore
<1>18. Cpu!DataProcessingTwoSource(m, i) =>
        i.opcode \in {"kUdiv", "kSdiv", "kLsl", "kLsr", "kAsr", "kRor", "kPacga"}
  BY Zenon DEF Cpu!DataProcessingTwoSource
<1>19. Cpu!DataProcessingOneSource(m, i) =>
        i.opcode \in {"kRbit", "kRev16", "kRev32", "kRev", "kClz", "kCls", "kPacia"}
  BY Zenon DEF Cpu!DataProcessingOneSource
<1>20. Cpu!LogicalShiftedRegister(m, i) =>
        i.opcode \in {"kAnd", "kBic", "kOrr", "kOrn", "kEor", "kEon"}
  BY Zenon DEF Cpu!LogicalShiftedRegister
<1>21. Cpu!AddSubtractShiftedRegister(m, i) =>
        i.opcode \in {"kAddShiftedRegister", "kSubShiftedRegister"}
  BY Zenon DEF Cpu!AddSubtractShiftedRegister
<1>22. Cpu!AddSubtractExtendedRegister(m, i) =>
        i.opcode \in {"kAddExtendedRegister", "kSubExtendedRegister"}
  BY Zenon DEF Cpu!AddSubtractExtendedRegister
<1>23. Cpu!AddSubtractWithCarry(m, i) => i.opcode \in {"kAdc", "kSbc"}
  BY Zenon DEF Cpu!AddSubtractWithCarry
<1>24. Cpu!ConditionalCompare(m, i) => i.opcode \in {"kCcmn", "kCcmp"}
  BY Zenon DEF Cpu!ConditionalCompare
<1>25. Cpu!ConditionalSelect(m, i) => i.opcode \in {"kCsel", "kCsinc", "kCsinv", "kCsneg"}
  BY Zenon DEF Cpu!ConditionalSelect
<1>26. Cpu!DataProcessingThreeSource(m, i) =>
        i.opcode \in {"kMadd", "kMsub", "kSmaddl", "kSmsubl", "kSmulh", "kUmaddl", "kUmsubl",
                      "kUmulh"}
  BY Zenon DEF Cpu!DataProcessingThreeSource
<1>27. Cpu!Unknown(m, i) => i.opcode \in {"kUnallocated", "kCasp"}
  BY Zenon DEF Cpu!Unknown
<1> QED BY <1>1, <1>2, <1>3, <1>4, <1>5, <1>6, <1>7, <1>8, <1>9, <1>10, <1>11, <1>12, <1>13,
      <1>14, <1>15, <1>16, <1>17, <1>18, <1>19, <1>20, <1>21, <1>22, <1>23, <1>24, <1>25,
      <1>26, <1>27, Zenon

\* An opcode determines the action that translates it.
LEMMA Translates ==
  ASSUME NEW m, NEW i, Cpu!Translate(m, i)
  PROVE  /\ i.opcode \in {"kAddShiftedRegister", "kSubShiftedRegister"} =>
              Cpu!AddSubtractShiftedRegister(m, i)
         /\ i.opcode \in {"kAdc", "kSbc"} => Cpu!AddSubtractWithCarry(m, i)
         /\ i.opcode \in {"kCcmn", "kCcmp"} => Cpu!ConditionalCompare(m, i)
         /\ i.opcode = "kBCond" => Cpu!ConditionalBranch(m, i)
         /\ i.opcode \in {"kUdiv", "kSdiv"} => Cpu!DataProcessingTwoSource(m, i)
         /\ i.opcode \in {"kMadd", "kMsub", "kUmulh"} => Cpu!DataProcessingThreeSource(m, i)
         /\ i.opcode \in {"kLdp", "kStp"} => Cpu!LoadStorePair(m, i)
<1> DEFINE Others ==
      \/ Cpu!PcRelativeAddressing(m, i) \/ Cpu!AddSubtractImmediate(m, i)
      \/ Cpu!LogicalImmediate(m, i)
      \/ Cpu!MoveWideImmediate(m, i) \/ Cpu!Bitfield(m, i) \/ Cpu!Extract(m, i)
      \/ Cpu!ExceptionGeneration(m, i) \/ Cpu!System(m, i)
      \/ Cpu!BranchRegister(m, i) \/ Cpu!BranchImmediate(m, i) \/ Cpu!CompareAndBranch(m, i)
      \/ Cpu!TestAndBranch(m, i) \/ Cpu!LoadStoreExclusive(m, i) \/ Cpu!LoadLiteral(m, i)
      \/ Cpu!LoadOrStore(m, i)
      \/ Cpu!DataProcessingOneSource(m, i) \/ Cpu!LogicalShiftedRegister(m, i)
      \/ Cpu!AddSubtractExtendedRegister(m, i)
      \/ Cpu!ConditionalSelect(m, i) \/ Cpu!Unknown(m, i)
<1>1. Others => i.opcode \notin {"kAddShiftedRegister", "kSubShiftedRegister", "kAdc", "kSbc",
                  "kCcmn", "kCcmp", "kBCond", "kUdiv", "kSdiv", "kMadd",
                  "kMsub", "kUmulh", "kLdp", "kStp"}
        \/ Cpu!DataProcessingTwoSource(m, i)
  BY OpcodesApart, SMT
<1>2. \/ Others \/ Cpu!ConditionalBranch(m, i) \/ Cpu!LoadStorePair(m, i)
      \/ Cpu!DataProcessingTwoSource(m, i) \/ Cpu!AddSubtractShiftedRegister(m, i)
      \/ Cpu!AddSubtractWithCarry(m, i) \/ Cpu!ConditionalCompare(m, i)
      \/ Cpu!DataProcessingThreeSource(m, i)
  BY Zenon DEF Cpu!Translate
<1> HIDE DEF Others
<1> QED BY <1>1, <1>2, OpcodesApart, SMT

\* What the instructions of the sequences are decoded to.
LEMMA AddDecoded ==
  ASSUME NEW w, NEW i, i = Cpu!DecodeInstruction(w),
         w.class = "AddSubtractShiftedRegister", w.sf = 0, w.S = 1, w.shift = 0, w.imm = 0
  PROVE  /\ i.opcode = IF w.op = 1 THEN "kSubShiftedRegister" ELSE "kAddShiftedRegister"
         /\ i.set_flags = TRUE
         /\ i.operands[1] = Cpu!x(Cpu!W, w.d) /\ i.operands[2] = Cpu!x(Cpu!W, w.n)
         /\ i.operands[3] = Cpu!x(Cpu!W, w.m) /\ i.operands[4] = Cpu!Shift("Lsl", 0)
<1>1. Cpu!DecodeInstruction(w) = Cpu!DecodeAddSubtractShiftedRegister(w)
  BY Zenon DEF Cpu!DecodeInstruction
<1>2. Cpu!Size(w.sf) = Cpu!W /\ ~(w.imm > Cpu!Size(w.sf)) /\ ~(w.shift = 3) BY Widths DEF Cpu!Size
<1>3. Cpu!Shifts[w.shift + 1] = "Lsl" BY DEF Cpu!Shifts
<1> DEFINE z == Cpu!Three(w, Cpu!W) \o <<Cpu!Shift("Lsl", 0)>>
           o == IF w.op = 1 THEN "kSubShiftedRegister" ELSE "kAddShiftedRegister"
<1>4. Cpu!DecodeAddSubtractShiftedRegister(w) = Cpu!insn(o, w.S = 1, z)
  BY <1>2, <1>3, Zenon DEF Cpu!DecodeAddSubtractShiftedRegister
<1>5. z = <<Cpu!x(Cpu!W, w.d), Cpu!x(Cpu!W, w.n), Cpu!x(Cpu!W, w.m)>> \o <<Cpu!Shift("Lsl", 0)>>
  BY Zenon DEF Cpu!Three
<1> HIDE DEF z
<1>6. /\ z[1] = Cpu!x(Cpu!W, w.d) /\ z[2] = Cpu!x(Cpu!W, w.n)
      /\ z[3] = Cpu!x(Cpu!W, w.m) /\ z[4] = Cpu!Shift("Lsl", 0)
  BY <1>5
<1> HIDE DEF o
<1>7. i.opcode = o /\ i.set_flags = (w.S = 1) /\ i.operands = z BY <1>1, <1>4 DEF Cpu!insn
<1> QED BY <1>6, <1>7 DEF o

LEMMA CarryingDecoded ==
  ASSUME NEW w, NEW i, i = Cpu!DecodeInstruction(w),
         w.class = "AddSubtractWithCarry", w.sf = 0, w.opcode2 = 0
  PROVE  /\ i.opcode = IF w.op = 1 THEN "kSbc" ELSE "kAdc"
         /\ i.set_flags = (w.S = 1)
         /\ i.operands[1] = Cpu!x(Cpu!W, w.d) /\ i.operands[2] = Cpu!x(Cpu!W, w.n)
         /\ i.operands[3] = Cpu!x(Cpu!W, w.m)
<1>1. Cpu!DecodeInstruction(w) = Cpu!DecodeAddSubtractWithCarry(w)
  BY Zenon DEF Cpu!DecodeInstruction
<1>2. Cpu!Size(w.sf) = Cpu!W BY DEF Cpu!Size
<1> DEFINE z == <<Cpu!x(Cpu!W, w.d), Cpu!x(Cpu!W, w.n), Cpu!x(Cpu!W, w.m)>>
           o == IF w.op = 1 THEN "kSbc" ELSE "kAdc"
<1>3. Cpu!DecodeAddSubtractWithCarry(w) = Cpu!insn(o, w.S = 1, z)
  BY <1>2, Zenon DEF Cpu!DecodeAddSubtractWithCarry, Cpu!Three
<1>4. /\ z[1] = Cpu!x(Cpu!W, w.d) /\ z[2] = Cpu!x(Cpu!W, w.n) /\ z[3] = Cpu!x(Cpu!W, w.m)
  OBVIOUS
<1> HIDE DEF z, o
<1>5. i.opcode = o /\ i.set_flags = (w.S = 1) /\ i.operands = z BY <1>1, <1>3 DEF Cpu!insn
<1> QED BY <1>4, <1>5 DEF o

LEMMA CompareIfDecoded ==
  ASSUME NEW cond, NEW nzcv, NEW rn, NEW m, NEW i,
         i = Cpu!DecodeInstruction(CompareIf(cond, nzcv, rn, m))
  PROVE  /\ i.opcode = "kCcmn" /\ i.cc = cond
         /\ i.operands[1] = Cpu!x(Cpu!W, rn) /\ i.operands[2] = Cpu!x(Cpu!W, m)
         /\ i.operands[3] = Cpu!Immediate(8, nzcv)
<1> DEFINE w == CompareIf(cond, nzcv, rn, m)
<1>1. /\ w.class = "ConditionalCompare" /\ w.sf = 0 /\ w.op = 1 /\ w.immediate = 0
      /\ w.n = rn /\ w.m = m /\ w.nzcv = nzcv /\ w.cond = cond
  BY DEF CompareIf
<1> HIDE DEF w
<1>2. Cpu!DecodeInstruction(w) = Cpu!DecodeConditionalCompare(w)
  BY <1>1, Zenon DEF Cpu!DecodeInstruction
<1>3. Cpu!Size(w.sf) = Cpu!W /\ w.op = 1 /\ ~(w.immediate = 1) BY <1>1 DEF Cpu!Size
<1> DEFINE z == <<Cpu!x(Cpu!W, rn), Cpu!x(Cpu!W, m), Cpu!Immediate(8, nzcv)>>
           j == Cpu!insn("kCcmn", FALSE, z)
<1>4. Cpu!DecodeConditionalCompare(w) = Cpu!With(cond, j)
  BY <1>1, <1>3, Zenon DEF Cpu!DecodeConditionalCompare
<1>5. z[1] = Cpu!x(Cpu!W, rn) /\ z[2] = Cpu!x(Cpu!W, m) /\ z[3] = Cpu!Immediate(8, nzcv)
  OBVIOUS
<1> HIDE DEF z
<1>6. i = Cpu!With(cond, j) BY <1>2, <1>4 DEF w
<1>7. i.opcode = "kCcmn" /\ i.operands = z /\ i.cc = cond BY <1>6 DEF Cpu!insn, Cpu!With
<1> QED BY <1>5, <1>7

LEMMA BranchIfDecoded ==
  ASSUME NEW cond, NEW i, i = Cpu!DecodeInstruction(BranchIf(cond))
  PROVE  /\ i.opcode = "kBCond" /\ i.cc = cond
         /\ i.operands[1] = Cpu!Immediate(Cpu!X, 8)
<1> DEFINE w == BranchIf(cond)
<1>1. w.class = "ConditionalBranch" /\ w.o1 = 0 /\ w.o0 = 0 /\ w.imm = 2 /\ w.cond = cond
  BY DEF BranchIf
<1> HIDE DEF w
<1>2. Cpu!DecodeInstruction(w) = Cpu!DecodeConditionalBranch(w)
  BY <1>1, Zenon DEF Cpu!DecodeInstruction
<1>3. Cpu!sign_extend_bits(2) = 2
  <2>1. TwoTo[OffsetBits - 1] >= 4
    <3>1. OffsetBits - 1 \in Nat /\ 2 <= OffsetBits - 1 BY Widths
    <3>2. 2 \in Nat /\ TwoTo[2] <= TwoTo[OffsetBits - 1] BY <3>1, TwoToRises
    <3> QED BY <3>2, SmallPowers, TwoToNat, <3>1
  <2>2. TwoTo[OffsetBits - 1] \in Nat BY Widths, TwoToNat
  <2> QED BY <2>1, <2>2, SameNumerals DEF Cpu!sign_extend_bits
<1> DEFINE z == <<Cpu!Immediate(Cpu!X, 8)>>
           j == Cpu!insn("kBCond", FALSE, z)
<1>4. Cpu!sign_extend_bits(w.imm) * 4 = 8 BY <1>1, <1>3
<1>5. Cpu!DecodeConditionalBranch(w) = Cpu!With(cond, j)
  <2>1. ~(w.o1 = 1 \/ w.o0 = 1) BY <1>1
  <2> QED BY <1>1, <1>4, <2>1, Zenon DEF Cpu!DecodeConditionalBranch
<1>6. z[1] = Cpu!Immediate(Cpu!X, 8) OBVIOUS
<1> HIDE DEF z
<1>7. i = Cpu!With(cond, j) BY <1>2, <1>5 DEF w
<1>8. i.opcode = "kBCond" /\ i.operands = z /\ i.cc = cond BY <1>7 DEF Cpu!insn, Cpu!With
<1> QED BY <1>6, <1>8
-----------------------------------------------------------------------------
(* Steps of the emulator.                                                   *)

\* The low half of a register.
LEMMA LowWord ==
  ASSUME Sound, NEW r \in 0 .. 5
  PROVE  half(r) \in 0 .. TwoTo[Cpu!W] - 1
<1>1. TwoTo[Cpu!W] \in Nat \ {0} /\ TwoTo[Cpu!X] \in Nat BY Widths, TwoToNat
<1>2. registers[r] \in Int BY <1>1, SameNumerals DEF Sound, Cpu!Addresses
<1> DEFINE v == registers[r]
           t == TwoTo[Cpu!W]
<1> HIDE DEF v, t
<1>3. v % t \in 0 .. t - 1 BY <1>1, <1>2 DEF v, t
<1> QED BY <1>3, SameNumerals DEF half, v, t

\* An operand that names a register of the sequences has its low half.
LEMMA ReadIs ==
  ASSUME NEW i, NEW k \in 0 .. 3, NEW r \in 0 .. 5, i.operands[k + 1] = Cpu!x(Cpu!W, r)
  PROVE  Cpu!Get(Cpu!Machine, i, k) = half(r) /\ Cpu!SizeOf(i, k) = Cpu!W
<1>1. Cpu!Op(i, k) = Cpu!Register(Cpu!W, r) BY DEF Cpu!Op, Cpu!x
<1> DEFINE o == Cpu!Register(Cpu!W, r)
<1>2. o.kind = "Register" /\ o.size = Cpu!W /\ o.name = r BY DEF Cpu!Register
<1>3. Cpu!RegisterValue(Cpu!Machine, r) = registers[r]
  BY DEF Cpu!RegisterValue, Cpu!Machine, Cpu!kXzr, Cpu!kPc
<1> HIDE DEF o
<1>4. Cpu!GetOperand(Cpu!Machine, o) = registers[r] % Cpu!TwoTo[Cpu!W]
  BY <1>2, <1>3, Zenon DEF Cpu!GetOperand
<1> QED BY <1>1, <1>2, <1>4, SameNumerals DEF Cpu!Get, Cpu!SizeOf, half, o

\* Register 31 is not written.
LEMMA WriteToNone ==
  ASSUME NEW i, NEW m, NEW v, i.operands[1] = Cpu!x(Cpu!W, 31)
  PROVE  Cpu!Set(m, i, 0, v) = m
<1>1. Cpu!Op(i, 0) = Cpu!Register(Cpu!W, 31) BY DEF Cpu!Op, Cpu!x
<1>2. Cpu!SetOperand(m, Cpu!Register(Cpu!W, 31), v) = m
  BY DEF Cpu!SetOperand, Cpu!Register, Cpu!SetRegister, Cpu!kXzr
<1> QED BY <1>1, <1>2 DEF Cpu!Set

\* The addresses of the sequences do not wrap around.
LEMMA NoWrap ==
  ASSUME NEW v \in 0 .. 255
  PROVE  v % TwoTo[Cpu!X] = v
<1>1. 8 \in Nat /\ Cpu!X \in Nat /\ 8 <= Cpu!X BY Widths
<1>2. TwoTo[8] <= TwoTo[Cpu!X] BY <1>1, TwoToRises
<1>3. PICK t \in Nat \ {0} : t = TwoTo[Cpu!X] BY <1>1, TwoToNat
<1>4. 0 \in Int /\ v \in 0 .. t - 1 /\ v = t * 0 + v /\ v \in Int BY <1>2, <1>3, SmallPowers
<1>5. v % t = v BY <1>3, <1>4, PartsAre, Zenon
<1> QED BY <1>3, <1>5

\* A shift by nothing.
LEMMA NoShiftIs ==
  ASSUME NEW rn \in Nat, rn > 0, NEW v \in 0 .. TwoTo[rn] - 1
  PROVE  Cpu!ApplyShift(Cpu!Shift("Lsl", 0), v, rn) = v
<1>1. PICK t \in Nat \ {0} : t = TwoTo[rn] BY TwoToNat
<1>2. 0 \in Int /\ v \in 0 .. t - 1 /\ v = t * 0 + v /\ v \in Int BY <1>1
<1>3. v % t = v BY <1>1, <1>2, PartsAre, Zenon
<1>4. Cpu!Lshl(v, 0, rn) = v BY <1>1, <1>2, <1>3, SameNumerals, SmallPowers DEF Cpu!Lshl
<1> DEFINE s == Cpu!Shift("Lsl", 0)
<1>5. s.type = "Lsl" /\ s.count = 0 BY DEF Cpu!Shift
<1> HIDE DEF s
<1>6. Cpu!ApplyShift(s, v, rn) = Cpu!Lshl(v, 0, rn) BY <1>5, Zenon DEF Cpu!ApplyShift
<1> QED BY <1>4, <1>6 DEF s

\* A step translates the instruction at pc.
LEMMA Stepping ==
  ASSUME Cpu!SingleStep, NEW i, i = Cpu!DecodeInstruction(program[pc])
  PROVE  Cpu!Translate(Cpu!Machine, i) /\ pc \in DOMAIN program
BY Zenon DEF Cpu!SingleStep

\* What is left when the flags are written.
LEMMA FlagsOnlyWritten ==
  ASSUME NEW f, NEW m, m = [Cpu!Machine EXCEPT !.f = f], Cpu!Proceed(m), pc \in 0 .. 100
  PROVE  FlagsOnly(f)
<1>1. m.x = registers /\ m.f = f BY DEF Cpu!Machine
<1>2. (pc + 4) % TwoTo[Cpu!X] = pc + 4 BY NoWrap
<1>3. (pc + InstructionBytes) % Cpu!TwoTo[Cpu!X] = pc + 4 BY <1>2, Widths, SameNumerals
<1>4. registers' = m.x /\ flags' = m.f /\ pc' = (pc + InstructionBytes) % Cpu!TwoTo[Cpu!X]
  BY DEF Cpu!Proceed, Cpu!Leave
<1> QED BY <1>1, <1>3, <1>4 DEF FlagsOnly

\* What is left of a sum when register 31 is named for it.
LEMMA FlagsLeft ==
  ASSUME NEW i, i.operands[1] = Cpu!x(Cpu!W, 31), i.set_flags = TRUE, NEW sum,
         Finishes(i, sum), pc \in 0 .. 100
  PROVE  FlagsOnly(sum.flags)
<1> DEFINE f == sum.flags
           flagged == Cpu!SetFlags(Cpu!Machine, i, f)
<1>1. Cpu!Proceed(Cpu!Set(flagged, i, 0, sum.result)) BY DEF Finishes
<1>2. flagged = [Cpu!Machine EXCEPT !.f = f] BY DEF Cpu!SetFlags
<1> HIDE DEF flagged, f
<1>3. Cpu!Set(flagged, i, 0, sum.result) = flagged BY WriteToNone
<1>4. Cpu!Proceed(flagged) BY <1>1, <1>3
<1>5. FlagsOnly(f) BY <1>2, <1>4, FlagsOnlyWritten
<1> QED BY <1>5 DEF f

\* ADDS (op 0) and SUBS (op 1), up to the sum.
LEMMA AdditionRuns ==
  ASSUME Sound, Cpu!SingleStep, NEW op1 \in {0, 1}, NEW rn \in 0 .. 5, NEW m \in 0 .. 5, NEW d,
         Adds(program[pc], op1, rn, m, d), NEW i, i = Cpu!DecodeInstruction(program[pc])
  PROVE  /\ i.operands[1] = Cpu!x(Cpu!W, d) /\ i.set_flags = TRUE
         /\ Finishes(i, Cpu!AddWithCarry(half(rn), AddedTo(op1, half(m)), op1, Cpu!W))
<1>2. Cpu!Translate(Cpu!Machine, i) BY Stepping
<1>3. /\ i.opcode = IF op1 = 1 THEN "kSubShiftedRegister" ELSE "kAddShiftedRegister"
      /\ i.set_flags = TRUE
      /\ i.operands[1] = Cpu!x(Cpu!W, d) /\ i.operands[2] = Cpu!x(Cpu!W, rn)
      /\ i.operands[3] = Cpu!x(Cpu!W, m) /\ i.operands[4] = Cpu!Shift("Lsl", 0)
  BY AddDecoded DEF Adds
<1>4. i.opcode \in {"kAddShiftedRegister", "kSubShiftedRegister"} BY <1>3
<1>5. Cpu!AddSubtractShiftedRegister(Cpu!Machine, i) BY <1>2, <1>4, Translates
<1>6. /\ Cpu!Get(Cpu!Machine, i, 1) = half(rn) /\ Cpu!Get(Cpu!Machine, i, 2) = half(m)
      /\ Cpu!SizeOf(i, 1) = Cpu!W /\ Cpu!Op(i, 3) = Cpu!Shift("Lsl", 0)
  BY <1>3, ReadIs DEF Cpu!Op
<1>7. Cpu!ApplyShift(Cpu!Op(i, 3), Cpu!Get(Cpu!Machine, i, 2), Cpu!SizeOf(i, 1)) = half(m)
  BY <1>6, LowWord, Widths, NoShiftIs
<1> DEFINE sum == Cpu!AddWithCarry(half(rn), AddedTo(op1, half(m)), op1, Cpu!W)
<1>8. CASE op1 = 1
  <2>1. i.opcode = "kSubShiftedRegister" BY <1>3, <1>8
  <2>2. Cpu!AddSubtract(Cpu!Machine, i, TRUE, half(m))
    BY <2>1, <1>5, <1>7, Zenon DEF Cpu!AddSubtractShiftedRegister
  <2>3. sum = Cpu!AddWithCarry(half(rn), Cpu!Not(half(m), Cpu!W), 1, Cpu!W)
    BY <1>8 DEF AddedTo
  <2>4. Finishes(i, sum) BY <2>2, <2>3, <1>6, Zenon DEF Cpu!AddSubtract, Finishes
  <2> QED BY <1>3, <2>4
<1>9. CASE op1 = 0
  <2>1. i.opcode # "kSubShiftedRegister" BY <1>3, <1>9
  <2>2. Cpu!AddSubtract(Cpu!Machine, i, FALSE, half(m))
    BY <2>1, <1>5, <1>7, Zenon DEF Cpu!AddSubtractShiftedRegister
  <2>3. sum = Cpu!AddWithCarry(half(rn), half(m), 0, Cpu!W) BY <1>9 DEF AddedTo
  <2>4. Finishes(i, sum) BY <2>2, <2>3, <1>6, Zenon DEF Cpu!AddSubtract, Finishes
  <2> QED BY <1>3, <2>4
<1> QED BY <1>8, <1>9

\* ADC, SBC and SBCS (S 1), up to the sum.
LEMMA CarryRuns ==
  ASSUME Sound, Cpu!SingleStep, NEW op1 \in {0, 1},
         NEW rn \in 0 .. 5, NEW m \in 0 .. 5, NEW d,
         AddsCarry(program[pc], op1, rn, m, d), NEW i, i = Cpu!DecodeInstruction(program[pc])
  PROVE  /\ i.operands[1] = Cpu!x(Cpu!W, d)
         /\ Flagging(program[pc], i)
         /\ Finishes(i, Cpu!AddWithCarry(half(rn), AddedTo(op1, half(m)), flags.c, Cpu!W))
<1>2. Cpu!Translate(Cpu!Machine, i) BY Stepping
<1>3. /\ i.opcode = (IF op1 = 1 THEN "kSbc" ELSE "kAdc")
      /\ Flagging(program[pc], i)
      /\ i.operands[1] = Cpu!x(Cpu!W, d) /\ i.operands[2] = Cpu!x(Cpu!W, rn)
      /\ i.operands[3] = Cpu!x(Cpu!W, m)
  <2>1. i.set_flags = (program[pc].S = 1) BY CarryingDecoded, Zenon DEF AddsCarry
  <2>2. Flagging(program[pc], i) BY <2>1, Zenon DEF Flagging
  <2> QED BY <2>2, CarryingDecoded DEF AddsCarry
<1>4. i.opcode \in {"kAdc", "kSbc"} BY <1>3
<1>5. Cpu!AddSubtractWithCarry(Cpu!Machine, i) BY <1>2, <1>4, Translates
<1>6. /\ Cpu!Get(Cpu!Machine, i, 1) = half(rn) /\ Cpu!Get(Cpu!Machine, i, 2) = half(m)
      /\ Cpu!SizeOf(i, 1) = Cpu!W
  BY <1>3, ReadIs
<1>7. Cpu!Machine.f = flags BY DEF Cpu!Machine
<1> DEFINE sum == Cpu!AddWithCarry(half(rn), AddedTo(op1, half(m)), flags.c, Cpu!W)
<1>8. CASE op1 = 1
  <2>1. i.opcode = "kSbc" BY <1>3, <1>8
  <2>2. sum = Cpu!AddWithCarry(half(rn), Cpu!Not(half(m), Cpu!W), flags.c, Cpu!W)
    BY <1>8 DEF AddedTo
  <2>3. Finishes(i, sum)
    BY <2>1, <2>2, <1>5, <1>6, <1>7, Zenon DEF Cpu!AddSubtractWithCarry, Finishes
  <2> QED BY <1>3, <2>3
<1>9. CASE op1 = 0
  <2>1. i.opcode # "kSbc" BY <1>3, <1>9
  <2>2. sum = Cpu!AddWithCarry(half(rn), half(m), flags.c, Cpu!W) BY <1>9 DEF AddedTo
  <2>3. Finishes(i, sum)
    BY <2>1, <2>2, <1>5, <1>6, <1>7, Zenon DEF Cpu!AddSubtractWithCarry, Finishes
  <2> QED BY <1>3, <2>3
<1> QED BY <1>8, <1>9

\* CMP: the flags are those of the difference.
LEMMA CompareStep ==
  ASSUME Sound, Cpu!SingleStep, NEW rn \in 0 .. 5, NEW m \in 0 .. 5, pc \in 0 .. 100,
         program[pc] = SetFlagsSub(rn, m)
  PROVE  FlagsOnly(Arm!DifferenceFlags(half(rn), half(m), 0, Cpu!W))
<1> DEFINE i == Cpu!DecodeInstruction(program[pc])
           sum == Cpu!AddWithCarry(half(rn), AddedTo(1, half(m)), 1, Cpu!W)
<1>1. Adds(program[pc], 1, rn, m, 31) BY DEF Adds, SetFlagsSub
<1>2. 1 \in {0, 1} /\ 1 - 1 = 0 OBVIOUS
<1>3. i.operands[1] = Cpu!x(Cpu!W, 31) /\ i.set_flags = TRUE /\ Finishes(i, sum)
  BY <1>1, <1>2, AdditionRuns
<1>4. half(rn) \in 0 .. TwoTo[Cpu!W] - 1 /\ half(m) \in 0 .. TwoTo[Cpu!W] - 1 BY LowWord
<1>5. sum.flags = Arm!DifferenceFlags(half(rn), half(m), 1 - 1, Cpu!W)
  BY <1>2, <1>4, Widths, SubtractedIs DEF AddedTo
<1> HIDE DEF i, sum
<1>6. FlagsOnly(sum.flags) BY <1>3, FlagsLeft
<1> QED BY <1>2, <1>5, <1>6

\* SBCS: the flags are those of the difference, with the borrow.
LEMMA CarryingStep ==
  ASSUME Sound, Cpu!SingleStep, NEW rn \in 0 .. 5, NEW m \in 0 .. 5, pc \in 0 .. 100,
         program[pc] = Carrying(1, 1, rn, m, 31)
  PROVE  FlagsOnly(Arm!DifferenceFlags(half(rn), half(m), 1 - flags.c, Cpu!W))
<1> DEFINE i == Cpu!DecodeInstruction(program[pc])
           sum == Cpu!AddWithCarry(half(rn), AddedTo(1, half(m)), flags.c, Cpu!W)
<1>1. i.operands[1] = Cpu!x(Cpu!W, 31) /\ i.set_flags = TRUE /\ Finishes(i, sum)
  <2>1. AddsCarry(program[pc], 1, rn, m, 31) /\ program[pc].S = 1 /\ 1 \in {0, 1}
    BY DEF AddsCarry, Carrying
  <2>2. i.operands[1] = Cpu!x(Cpu!W, 31) /\ Flagging(program[pc], i) /\ Finishes(i, sum)
    BY <2>1, CarryRuns
  <2> QED BY <2>1, <2>2 DEF Flagging
<1>2. half(rn) \in 0 .. TwoTo[Cpu!W] - 1 /\ half(m) \in 0 .. TwoTo[Cpu!W] - 1 BY LowWord
<1>3. flags.c \in {0, 1} BY DEF Sound, Flagged, ZeroOne
<1>4. sum.flags = Arm!DifferenceFlags(half(rn), half(m), 1 - flags.c, Cpu!W)
  BY <1>2, <1>3, Widths, SubtractedIs DEF AddedTo
<1> HIDE DEF i, sum
<1>5. FlagsOnly(sum.flags) BY <1>1, FlagsLeft
<1> QED BY <1>4, <1>5

\* A branch goes two instructions on, over the next.
LEMMA BranchStep ==
  ASSUME Sound, Cpu!SingleStep, NEW cond \in 0 .. 15, pc \in 0 .. 100,
         program[pc] = BranchIf(cond)
  PROVE  /\ registers' = registers /\ flags' = flags
         /\ pc' = pc + IF Arm!Holds(cond, flags) THEN 8 ELSE 4
<1> DEFINE i == Cpu!DecodeInstruction(BranchIf(cond))
<1>1. Cpu!Translate(Cpu!Machine, i) BY Stepping
<1>2. /\ i.opcode = "kBCond" /\ i.cc = cond /\ i.operands[1] = Cpu!Immediate(Cpu!X, 8)
  BY BranchIfDecoded
<1> HIDE DEF i
<1>3. Cpu!ConditionalBranch(Cpu!Machine, i) BY <1>1, <1>2, Translates
<1>4. Cpu!Get(Cpu!Machine, i, 0) = 8
  <2> DEFINE o == Cpu!Immediate(Cpu!X, 8)
  <2>1. 8 % TwoTo[Cpu!X] = 8 BY NoWrap
  <2>2. o.kind = "Immediate" /\ o.value = 8 BY <2>1, SameNumerals DEF Cpu!Immediate
  <2>3. Cpu!Op(i, 0) = o BY <1>2 DEF Cpu!Op
  <2> HIDE DEF o
  <2>4. Cpu!GetOperand(Cpu!Machine, o) = o.value BY <2>2, Zenon DEF Cpu!GetOperand
  <2> QED BY <2>2, <2>3, <2>4 DEF Cpu!Get
<1>5. Cpu!Machine.f = flags /\ Cpu!Machine.x = registers BY DEF Cpu!Machine
<1> DEFINE c == Cpu!ConditionHolds(flags, cond)
<1>6. Cpu!Jump(Cpu!Machine, c, pc + 8)
  BY <1>2, <1>3, <1>4, <1>5, Zenon DEF Cpu!ConditionalBranch
<1>7. c = IF Arm!Holds(cond, flags) THEN 1 ELSE 0 BY ConditionIs DEF Sound
<1> HIDE DEF c
<1>8. (pc + 8) % Cpu!TwoTo[Cpu!X] = pc + 8 /\ (pc + 4) % Cpu!TwoTo[Cpu!X] = pc + 4
  BY NoWrap, SameNumerals
<1>9. CASE Arm!Holds(cond, flags)
  <2>1. Cpu!Leave(Cpu!Machine, pc + 8) BY <1>6, <1>7, <1>9 DEF Cpu!Jump
  <2> QED BY <1>5, <1>8, <1>9, <2>1 DEF Cpu!Leave
<1>10. CASE ~Arm!Holds(cond, flags)
  <2>1. Cpu!Leave(Cpu!Machine, pc + 4)
    BY <1>6, <1>7, <1>10, Widths DEF Cpu!Jump, Cpu!Proceed
  <2> QED BY <1>5, <1>8, <1>10, <2>1 DEF Cpu!Leave
<1> QED BY <1>9, <1>10
-----------------------------------------------------------------------------
(* Code that jumps inside an instruction.                                   *)

\* The kinds of REIL instructions.
LEMMA KindsOfCode ==
  ASSUME NEW h, NEW k
  PROVE  /\ Cpu!Jcc(h, k).op = "Jcc" /\ Cpu!Jcc(h, k).label = k /\ Cpu!Jcc(h, k).holds = h
         /\ Cpu!Piece(h).op = "Piece" /\ Cpu!Piece(h).outcome = h
         /\ Cpu!Nop(k).op = "Nop" /\ Cpu!Nop(k).label = k
         /\ Cpu!Offset(h, k).op = "Offset"
         /\ Cpu!Offset(h, k).offset = k /\ Cpu!Offset(h, k).holds = h
BY DEF Cpu!Jcc, Cpu!Piece, Cpu!Nop, Cpu!Offset

\* What Erase does to code with the label at i: the jumps are settled, and the Nop goes,
\* unless it is the last instruction.
LEMMA Erasing ==
  ASSUME NEW c, NEW i \in Nat, Len(c) \in Nat, DOMAIN c = 1 .. Len(c), i < Len(c)
  PROVE  \E d : /\ DOMAIN d = 1 .. Len(c) /\ d = [j \in 1 .. Len(c) |-> d[j]]
                /\ ErasedTo(c, d, c[i + 1].label, i)
                /\ Cpu!Erase(c, i) = IF i = Len(c) - 1 THEN d
                     ELSE SubSeq(d, 1, i) \o SubSeq(d, i + 2, Len(d))
<1> DEFINE d == [j \in DOMAIN c |->
                       IF c[j].op = "Jcc" /\ c[j].label = c[i + 1].label
                       THEN Cpu!Offset(c[j].holds, i) ELSE c[j]]
<1>1. Cpu!Erase(c, i) = IF i = Len(c) - 1 THEN d
                     ELSE SubSeq(d, 1, i) \o SubSeq(d, i + 2, Len(c))
  BY Zenon DEF Cpu!Erase
<1>2. ErasedTo(c, d, c[i + 1].label, i) BY DEF ErasedTo
<1>3. DOMAIN d = 1 .. Len(c) /\ d = [j \in 1 .. Len(c) |-> d[j]] OBVIOUS
<1>4. Len(d) = Len(c) 
  <2> HIDE DEF d
  <2> QED BY <1>3
<1> HIDE DEF d
<1> QED BY <1>1, <1>2, <1>3, <1>4

\* A part of a sequence.
LEMMA SubSeqIs ==
  ASSUME NEW S, NEW d, NEW m \in Int, NEW l \in Int, InRange(d, S, m, l)
  PROVE  /\ SubSeq(d, m, l) \in Seq(S) /\ Len(SubSeq(d, m, l)) = IF m <= l THEN l - m + 1 ELSE 0
         /\ \A j \in 1 .. l - m + 1 : SubSeq(d, m, l)[j] = d[m + j - 1]
<1>1. \A i \in m .. l : d[i] \in S BY DEF InRange
<1>2. /\ SubSeq(d, m, l) \in Seq(S)
      /\ Len(SubSeq(d, m, l)) = IF m <= l THEN l - m + 1 ELSE 0
      /\ \A i \in 1 .. l - m + 1 : SubSeq(d, m, l)[i] = d[m + i - 1]
  BY ONLY <1>1, m \in Int, l \in Int, SubSeqProperties
<1> QED BY ONLY <1>2

\* The elements of a sequence from which one was taken out.
LEMMA SplicedIs ==
  ASSUME NEW d, NEW l \in Nat, NEW i \in 0 .. l - 1, NEW e, Spliced(d, l, i, e)
  PROVE  /\ Len(e) = l - 1 /\ DOMAIN e = 1 .. l - 1
         /\ \A j \in 1 .. i : e[j] = d[j]
         /\ \A j \in i + 1 .. l - 1 : e[j] = d[j + 1]
<1> DEFINE S == {d[j] : j \in 1 .. l}
<1>2. \A j \in 1 .. l : d[j] \in S OBVIOUS
<1> HIDE DEF S
<1> DEFINE u == SubSeq(d, 1, i)
           v == SubSeq(d, i + 2, l)
<1>3. u \in Seq(S) /\ Len(u) = i /\ \A j \in 1 .. i : u[j] = d[j]
  <2>1. PICK k \in Int : k = 1 OBVIOUS
  <2>2. i \in Int /\ InRange(d, S, k, i) BY <1>2, <2>1 DEF InRange
  <2>3. u = SubSeq(d, k, i) BY <2>1
  <2> HIDE DEF u
  <2>4. /\ u \in Seq(S) /\ Len(u) = IF k <= i THEN i - k + 1 ELSE 0
        /\ \A j \in 1 .. i - k + 1 : u[j] = d[k + j - 1] BY <2>2, <2>3, SubSeqIs, Zenon
  <2> QED BY <2>1, <2>4
<1>4. v \in Seq(S) /\ Len(v) = l - 1 - i /\ \A j \in 1 .. l - 1 - i : v[j] = d[i + 1 + j]
  <2>1. i + 2 \in Int /\ l \in Int /\ InRange(d, S, i + 2, l) BY <1>2 DEF InRange
  <2>2. /\ v \in Seq(S) /\ Len(v) = IF i + 2 <= l THEN l - (i + 2) + 1 ELSE 0
        /\ \A j \in 1 .. l - (i + 2) + 1 : v[j] = d[i + 2 + j - 1] BY <2>1, SubSeqIs, Zenon
  <2> HIDE DEF v
  <2>3. \A j \in 1 .. l - 1 - i : v[j] = d[i + 1 + j]
    <3> TAKE j \in 1 .. l - 1 - i
    <3>1. j \in 1 .. l - (i + 2) + 1 /\ i + 2 + j - 1 = i + 1 + j OBVIOUS
    <3> QED BY <2>2, <3>1
  <2> QED BY <2>2, <2>3
<1>5. e = u \o v BY Zenon DEF Spliced, u, v
<1> HIDE DEF u, v
<1>6. /\ e \in Seq(S) /\ Len(e) = Len(u) + Len(v)
      /\ \A j \in 1 .. Len(u) + Len(v) : e[j] = IF j <= Len(u) THEN u[j] ELSE v[j - Len(u)]
  BY <1>3, <1>4, <1>5, ConcatProperties, Zenon
<1>7. Len(e) = l - 1 /\ DOMAIN e = 1 .. l - 1 BY <1>3, <1>4, <1>6
<1>8. \A j \in i + 1 .. l - 1 : e[j] = d[j + 1]
  <2> TAKE j \in i + 1 .. l - 1
  <2>1. j - i \in 1 .. l - 1 - i /\ i + 1 + (j - i) = j + 1 /\ ~(j <= i) OBVIOUS
  <2>2. j \in 1 .. Len(u) + Len(v) BY <1>3, <1>4
  <2>3. e[j] = v[j - i] BY <1>3, <1>6, <2>1, <2>2
  <2>4. v[j - i] = d[i + 1 + (j - i)] BY <1>4, <2>1
  <2> QED BY <2>1, <2>3, <2>4
<1>9. \A j \in 1 .. i : e[j] = d[j] BY <1>3, <1>4, <1>6
<1> QED BY <1>7, <1>8, <1>9

\* Finalise is the last of a row of codes, if there is such a row.
LEMMA FinaliseIs ==
  ASSUME NEW c, NEW f, IsLoop(f, c)
  PROVE  \E g : IsLoop(g, c) /\ Cpu!Finalise(c) = g[Len(c)]
<1> DEFINE g == CHOOSE at : at = [i \in 0 .. Len(c) |->
        IF i = 0 THEN c
        ELSE LET before == at[i - 1]
             IN  IF i <= Len(before) /\ before[i].op = "Nop" THEN Cpu!Erase(before, i - 1)
                 ELSE before]
<1>1. Cpu!Finalise(c) = g[Len(c)] BY Zenon DEF Cpu!Finalise
<1>2. g = CHOOSE at : IsLoop(at, c) BY Zenon DEF IsLoop, Erased
<1> HIDE DEF g
<1>3. IsLoop(g, c) BY <1>2, Zenon
<1> QED BY <1>1, <1>3

\* Execute reads off the first of a row of outcomes, if there is such a row.
LEMMA ExecuteIs ==
  ASSUME NEW c, NEW default, NEW f, IsWalk(f, Cpu!Finalise(c))
  PROVE  \E g : /\ IsWalk(g, Cpu!Finalise(c))
                /\ Cpu!Execute(c, default) = IF g[0] = <<>> THEN default ELSE g[0][1]
<1> DEFINE e == Cpu!Finalise(c)
           g == CHOOSE from : from = [offset \in 0 .. Len(e) |->
        IF offset = Len(e) THEN <<>>
        ELSE LET ri == e[offset + 1]
             IN  IF ri.op = "Offset" /\ ri.holds THEN from[ri.offset]
                 ELSE IF ri.op = "Jcc" /\ ri.holds THEN <<Cpu!Abort>>
                 ELSE LET rest == from[offset + 1]
                      IN  IF ri.op = "Piece" /\ rest = <<>> THEN <<ri.outcome>> ELSE rest]
<1>1. Cpu!Execute(c, default) = IF g[0] = <<>> THEN default ELSE g[0][1] BY Zenon DEF Cpu!Execute
<1>2. g = CHOOSE from : IsWalk(from, e) BY Zenon DEF IsWalk, Walked
<1> HIDE DEF g
<1>3. IsWalk(g, e) BY <1>2, Zenon
<1> QED BY <1>1, <1>3

\* The first label of a conditional compare goes, and its jump is settled.
LEMMA FirstErased ==
  ASSUME NEW h, NEW t, NEW p, NEW q, NEW c, c = Choice(h, t, p, q), NEW d, d = Cpu!Erase(c, 3)
  PROVE  /\ Len(d) = 5 /\ DOMAIN d = 1 .. 5
         /\ d[1] = Cpu!Offset(h, 3) /\ d[2] = Cpu!Piece(p) /\ d[3] = Cpu!Jcc(t, 1)
         /\ d[4] = Cpu!Piece(q) /\ d[5] = Cpu!Nop(1)
<1>1. /\ Len(c) = 6 /\ DOMAIN c = 1 .. 6
      /\ c[1] = Cpu!Jcc(h, 0) /\ c[2] = Cpu!Piece(p) /\ c[3] = Cpu!Jcc(t, 1)
      /\ c[4] = Cpu!Nop(0) /\ c[5] = Cpu!Piece(q) /\ c[6] = Cpu!Nop(1)
  BY DEF Choice
<1>2. PICK k \in Nat : k = 3 OBVIOUS
<1>3. PICK e : /\ DOMAIN e = 1 .. Len(c) /\ e = [j \in 1 .. Len(c) |-> e[j]]
               /\ ErasedTo(c, e, c[k + 1].label, k)
               /\ Cpu!Erase(c, k) = IF k = Len(c) - 1 THEN e
                     ELSE SubSeq(e, 1, k) \o SubSeq(e, k + 2, Len(e))
  <2>1. Len(c) \in Nat /\ DOMAIN c = 1 .. Len(c) /\ k < Len(c) BY <1>1, <1>2
  <2> QED BY <2>1, Erasing
<1>4. Len(e) = 6 BY <1>1, <1>3
<1>5. Spliced(e, 6, k, d) BY <1>1, <1>2, <1>3, <1>4 DEF Spliced
<1>6. PICK l \in Nat : l = 6 OBVIOUS
<1>7. Spliced(e, l, k, d) /\ k \in 0 .. l - 1 BY <1>2, <1>5, <1>6
<1>8. /\ Len(d) = l - 1 /\ DOMAIN d = 1 .. l - 1
      /\ \A j \in 1 .. k : d[j] = e[j]
      /\ \A j \in k + 1 .. l - 1 : d[j] = e[j + 1]
  BY <1>7, SplicedIs
<1>9. ErasedTo(c, e, 0, 3) BY <1>1, <1>2, <1>3, KindsOfCode
<1>10. /\ e[1] = Cpu!Offset(h, 3) /\ e[2] = Cpu!Piece(p) /\ e[3] = Cpu!Jcc(t, 1)
       /\ e[5] = Cpu!Piece(q) /\ e[6] = Cpu!Nop(1)
  <2>1. \A j \in 1 .. 6 : e[j] = IF c[j].op = "Jcc" /\ c[j].label = 0
                       THEN Cpu!Offset(c[j].holds, 3) ELSE c[j] BY <1>1, <1>9 DEF ErasedTo
  <2>2. /\ c[1].op = "Jcc" /\ c[1].label = 0 /\ c[1].holds = h /\ c[2].op = "Piece"
        /\ c[3].op = "Jcc" /\ c[3].label = 1 /\ c[5].op = "Piece" /\ c[6].op = "Nop"
    BY <1>1, KindsOfCode
  <2> QED BY <1>1, <2>1, <2>2
<1>11. /\ Len(d) = 5 /\ DOMAIN d = 1 .. 5 /\ d[1] = e[1] /\ d[2] = e[2] /\ d[3] = e[3]
       /\ d[4] = e[5] /\ d[5] = e[6]
  BY <1>2, <1>6, <1>8
<1> QED BY <1>10, <1>11

\* The second label is the last instruction, and stays.
LEMMA LastErased ==
  ASSUME NEW h, NEW t, NEW p, NEW q, NEW c,
         Len(c) = 5, DOMAIN c = 1 .. 5, c[1] = Cpu!Offset(h, 3), c[2] = Cpu!Piece(p),
         c[3] = Cpu!Jcc(t, 1), c[4] = Cpu!Piece(q), c[5] = Cpu!Nop(1), NEW d, d = Cpu!Erase(c, 4)
  PROVE  /\ Len(d) = 5
         /\ d[1] = Cpu!Offset(h, 3) /\ d[2] = Cpu!Piece(p) /\ d[3] = Cpu!Offset(t, 4)
         /\ d[4] = Cpu!Piece(q) /\ d[5] = Cpu!Nop(1)
<1>1. PICK k \in Nat : k = 4 OBVIOUS
<1>2. PICK e : /\ DOMAIN e = 1 .. Len(c) /\ e = [j \in 1 .. Len(c) |-> e[j]]
               /\ ErasedTo(c, e, c[k + 1].label, k)
               /\ Cpu!Erase(c, k) = IF k = Len(c) - 1 THEN e
                     ELSE SubSeq(e, 1, k) \o SubSeq(e, k + 2, Len(e))
  <2>1. Len(c) \in Nat /\ DOMAIN c = 1 .. Len(c) /\ k < Len(c) BY <1>1
  <2> QED BY <2>1, Erasing
<1>3. d = e BY <1>1, <1>2
<1>4. Len(d) = 5 BY <1>2, <1>3
<1>5. ErasedTo(c, d, 1, 4) BY <1>1, <1>2, <1>3, KindsOfCode
<1>6. \A j \in 1 .. 5 : d[j] = IF c[j].op = "Jcc" /\ c[j].label = 1
                       THEN Cpu!Offset(c[j].holds, 4) ELSE c[j] BY <1>5 DEF ErasedTo
<1>7. /\ c[1].op = "Offset" /\ c[2].op = "Piece" /\ c[3].op = "Jcc" /\ c[3].label = 1
      /\ c[3].holds = t /\ c[4].op = "Piece" /\ c[5].op = "Nop"
  BY KindsOfCode
<1> QED BY <1>4, <1>6, <1>7

\* Finalise settles both jumps of a conditional compare.
LEMMA FinalChoice ==
  ASSUME NEW h, NEW t, NEW p, NEW q
  PROVE  IsFinal(Cpu!Finalise(Choice(h, t, p, q)), h, t, p, q)
<1> DEFINE d == Cpu!Finalise(Choice(h, t, p, q))
           c == Choice(h, t, p, q)
           e == Cpu!Erase(c, 3)
           z == Cpu!Erase(e, 4)
           f == [k \in 0 .. 6 |-> IF k < 4 THEN c ELSE IF k = 4 THEN e ELSE z]
<1>1. /\ Len(c) = 6 /\ c[1].op # "Nop" /\ c[2].op # "Nop" /\ c[3].op # "Nop" /\ c[4].op = "Nop"
  <2>1. /\ Len(c) = 6 /\ c[1] = Cpu!Jcc(h, 0) /\ c[2] = Cpu!Piece(p) /\ c[3] = Cpu!Jcc(t, 1)
        /\ c[4] = Cpu!Nop(0) BY DEF Choice
  <2> HIDE DEF c
  <2> QED BY <2>1, KindsOfCode
<1>2. /\ Len(e) = 5 /\ DOMAIN e = 1 .. 5
      /\ e[1] = Cpu!Offset(h, 3) /\ e[2] = Cpu!Piece(p) /\ e[3] = Cpu!Jcc(t, 1)
      /\ e[4] = Cpu!Piece(q) /\ e[5] = Cpu!Nop(1)
  BY FirstErased
<1> HIDE DEF c
<1> HIDE DEF e
<1>3. /\ Len(z) = 5
      /\ z[1] = Cpu!Offset(h, 3) /\ z[2] = Cpu!Piece(p) /\ z[3] = Cpu!Offset(t, 4)
      /\ z[4] = Cpu!Piece(q) /\ z[5] = Cpu!Nop(1)
  BY <1>2, LastErased
<1>4. e[5].op = "Nop" BY <1>2, KindsOfCode
<1> HIDE DEF z
<1>5. /\ Erased(c, 1) = c /\ Erased(c, 2) = c /\ Erased(c, 3) = c /\ Erased(c, 4) = e
      /\ Erased(e, 5) = z /\ Erased(z, 6) = z
  BY <1>1, <1>2, <1>3, <1>4 DEF Erased, e, z
<1>6. IsLoop(f, c)
  <2> DEFINE F == [k \in 0 .. Len(c) |-> IF k = 0 THEN c ELSE Erased(f[k - 1], k)]
  <2>1. \A k \in 0 .. 6 : f[k] = F[k]
    <3> TAKE k \in 0 .. 6
    <3>1. k \in {0, 1, 2, 3, 4, 5, 6} OBVIOUS
    <3>2. F[k] = IF k = 0 THEN c ELSE Erased(f[k - 1], k) BY <1>1
    <3> HIDE DEF F
    <3>3. f[0] = c /\ f[1] = c /\ f[2] = c /\ f[3] = c /\ f[4] = e /\ f[5] = z /\ f[6] = z
      OBVIOUS
    <3> HIDE DEF f
    <3> QED BY <3>1, <3>2, <3>3, <1>5
  <2>2. F = [k \in 0 .. 6 |-> F[k]] /\ f = [k \in 0 .. 6 |-> f[k]] BY <1>1
  <2> HIDE DEF f, F
  <2>3. f = F BY <2>1, <2>2
  <2> QED BY <2>3 DEF IsLoop, F
<1>7. PICK g : IsLoop(g, c) /\ Cpu!Finalise(c) = g[Len(c)] BY <1>6, FinaliseIs
<1>8. \A k \in 0 .. 6 : g[k] = IF k = 0 THEN c ELSE Erased(g[k - 1], k) BY <1>1, <1>7 DEF IsLoop
<1>9. g[0] = c BY <1>8
<1>10. g[1] = c BY <1>5, <1>8, <1>9
<1>11. g[2] = c BY <1>5, <1>8, <1>10
<1>12. g[3] = c BY <1>5, <1>8, <1>11
<1>13. g[4] = e BY <1>5, <1>8, <1>12
<1>14. g[5] = z BY <1>5, <1>8, <1>13
<1>15. g[6] = z BY <1>5, <1>8, <1>14
<1>16. d = z BY <1>1, <1>7, <1>15 DEF c
<1> QED BY <1>3, <1>16 DEF IsFinal

\* The code of a conditional compare chooses.
LEMMA ChoiceRun ==
  ASSUME NEW h \in BOOLEAN, NEW p, NEW q, NEW default
  PROVE  Chooses(h, p, q, default)
<1> DEFINE t == TRUE
           c == Choice(h, t, p, q)
           d == Cpu!Finalise(c)
           yes == <<q>>
           no == <<p>>
           f == [k \in 0 .. 5 |-> IF k = 0 THEN IF h THEN yes ELSE no
                                  ELSE IF k = 1 THEN no ELSE IF k = 3 THEN yes ELSE <<>>]
<1> HIDE DEF t
<1>1. /\ Len(d) = 5
      /\ d[1] = Cpu!Offset(h, 3) /\ d[2] = Cpu!Piece(p) /\ d[3] = Cpu!Offset(t, 4)
      /\ d[4] = Cpu!Piece(q) /\ d[5] = Cpu!Nop(1)
  <2>1. IsFinal(d, h, t, p, q) BY FinalChoice, Zenon
  <2> HIDE DEF d
  <2> QED BY <2>1, Zenon DEF IsFinal
<1> HIDE DEF d
<1>2. /\ d[1].op = "Offset" /\ (d[1].holds <=> h) /\ d[1].offset = 3
      /\ d[2].op = "Piece" /\ d[2].outcome = p
      /\ d[3].op = "Offset" /\ d[3].holds /\ d[3].offset = 4
      /\ d[4].op = "Piece" /\ d[4].outcome = q /\ d[5].op = "Nop"
  BY <1>1 DEF Cpu!Offset, Cpu!Piece, Cpu!Nop, t
<1>3. ASSUME NEW g
      PROVE  /\ Walked(d, g, 5) = <<>> /\ Walked(d, g, 4) = g[5]
             /\ Walked(d, g, 3) = IF g[4] = <<>> THEN yes ELSE g[4]
             /\ Walked(d, g, 2) = g[4]
             /\ Walked(d, g, 1) = IF g[2] = <<>> THEN no ELSE g[2]
             /\ Walked(d, g, 0) = IF h THEN g[3] ELSE g[1]
  <2>1. Walked(d, g, 5) = <<>> BY <1>1 DEF Walked
  <2>2. Walked(d, g, 4) = g[5] BY <1>1, <1>2 DEF Walked
  <2>3. Walked(d, g, 3) = IF g[4] = <<>> THEN yes ELSE g[4] BY <1>1, <1>2 DEF Walked
  <2>4. Walked(d, g, 2) = g[4]
    <3>1. ~(2 = Len(d)) /\ 2 + 1 = 3 BY <1>1
    <3>2. d[2 + 1].op = "Offset" /\ d[2 + 1].holds /\ d[2 + 1].offset = 4 BY <1>2, <3>1
    <3> QED BY <3>1, <3>2, Zenon DEF Walked
  <2>5. Walked(d, g, 1) = IF g[2] = <<>> THEN no ELSE g[2] BY <1>1, <1>2 DEF Walked
  <2>6. Walked(d, g, 0) = IF h THEN g[3] ELSE g[1] BY <1>1, <1>2 DEF Walked
  <2> QED BY <2>1, <2>2, <2>3, <2>4, <2>5, <2>6
<1>4. yes # <<>> /\ no # <<>> /\ yes[1] = q /\ no[1] = p OBVIOUS
<1> HIDE DEF yes, no
<1>5. IsWalk(f, d)
  <2> DEFINE F == [k \in 0 .. Len(d) |-> Walked(d, f, k)]
  <2>1. \A k \in 0 .. 5 : f[k] = F[k]
    <3> TAKE k \in 0 .. 5
    <3>1. k \in {0, 1, 2, 3, 4, 5} OBVIOUS
    <3>2. F[k] = Walked(d, f, k) BY <1>1
    <3> HIDE DEF F
    <3>3. f[0] = (IF h THEN yes ELSE no) /\ f[1] = no /\ f[2] = <<>> /\ f[3] = yes
          /\ f[4] = <<>> /\ f[5] = <<>>
      OBVIOUS
    <3> HIDE DEF f
    <3> QED BY <3>1, <3>2, <3>3, <1>3
  <2>2. F = [k \in 0 .. 5 |-> F[k]] /\ f = [k \in 0 .. 5 |-> f[k]] BY <1>1
  <2> HIDE DEF f, F
  <2>3. f = F BY <2>1, <2>2
  <2> QED BY <2>3 DEF IsWalk, F
<1>6. PICK g : /\ IsWalk(g, d)
               /\ Cpu!Execute(c, default) = IF g[0] = <<>> THEN default ELSE g[0][1]
  BY <1>5, ExecuteIs DEF d
<1>7. \A k \in 0 .. 5 : g[k] = Walked(d, g, k) BY <1>1, <1>6 DEF IsWalk
<1>8. g[5] = <<>> /\ g[4] = <<>> BY <1>3, <1>7
<1>9. g[3] = yes /\ g[2] = <<>> BY <1>3, <1>7, <1>8
<1>10. g[1] = no BY <1>3, <1>7, <1>9
<1>11. g[0] = IF h THEN yes ELSE no BY <1>3, <1>7, <1>9, <1>10
<1>12. Cpu!Execute(c, default) = IF h THEN q ELSE p BY <1>4, <1>6, <1>11
<1> QED BY <1>12, Zenon DEF t, Chooses
-----------------------------------------------------------------------------
(* The conditional compare.                                                 *)

\* The flags that a number of at most one bit stands for.
LEMMA SpelledIs ==
  ASSUME NEW v \in {0, 1, 2, 4}
  PROVE  /\ Spelled(v) \in Flagged
         /\ Spelled(v).n = 0 /\ Spelled(v).z = (IF v = 4 THEN 1 ELSE 0)
         /\ Spelled(v).c = (IF v = 2 THEN 1 ELSE 0) /\ Spelled(v).v = (IF v = 1 THEN 1 ELSE 0)
<1>1. /\ Cpu!Bit(v, 3) = (v \div 8) % 2 /\ Cpu!Bit(v, 2) = (v \div 4) % 2
      /\ Cpu!Bit(v, 1) = (v \div 2) % 2 /\ Cpu!Bit(v, 0) = (v \div 1) % 2
  BY SameNumerals, SmallPowers DEF Cpu!Bit
<1>2. /\ (v \div 8) % 2 = 0 /\ (v \div 4) % 2 = (IF v = 4 THEN 1 ELSE 0)
      /\ (v \div 2) % 2 = (IF v = 2 THEN 1 ELSE 0) /\ (v \div 1) % 2 = (IF v = 1 THEN 1 ELSE 0)
  <2>1. CASE v = 0 BY <2>1
  <2>2. CASE v = 1 BY <2>2
  <2>3. CASE v = 2 BY <2>3
  <2>4. CASE v = 4 BY <2>4
  <2> QED BY <2>1, <2>2, <2>3, <2>4
<1> QED BY <1>1, <1>2 DEF Spelled, Cpu!Nzcv, Flagged, ZeroOne

\* Flags chosen to fail a condition do.
LEMMA FailingIs ==
  ASSUME NEW cond \in Relations
  PROVE  /\ Failing(cond) \in {0, 1, 2, 4} /\ Spelled(Failing(cond)) \in Flagged
         /\ ~Arm!Holds(cond, Spelled(Failing(cond)))
<1>1. Failing(cond) = IF cond \in {1, 12} THEN 4 ELSE IF cond \in {3, 9} THEN 2
                          ELSE IF cond = 10 THEN 1 ELSE 0
  <2>1. cond \in {0, 1, 2, 3, 8, 9, 10, 11, 12, 13} BY DEF Relations
  <2> QED BY <2>1 DEF Failing
<1> DEFINE v == Failing(cond)
           f == Spelled(v)
<1>2. v \in {0, 1, 2, 4} BY <1>1
<1>3. /\ f \in Flagged /\ f.n = 0 /\ f.z = (IF v = 4 THEN 1 ELSE 0)
      /\ f.c = (IF v = 2 THEN 1 ELSE 0) /\ f.v = (IF v = 1 THEN 1 ELSE 0)
  BY <1>2, SpelledIs
<1> HIDE DEF f, v
<1>4. ~Arm!Holds(cond, f)
  <2>1. v = IF cond \in {1, 12} THEN 4 ELSE IF cond \in {3, 9} THEN 2
                          ELSE IF cond = 10 THEN 1 ELSE 0 BY <1>1 DEF v
  <2>2. cond \in {0, 1, 2, 3, 8, 9, 10, 11, 12, 13} BY DEF Relations
  <2> QED BY <1>3, <2>1, <2>2, HoldsIs
<1> QED BY <1>2, <1>3, <1>4 DEF f, v

\* CCMP: the flags of the difference if the condition holds, else those given.
LEMMA CompareIfStep ==
  ASSUME Sound, Cpu!SingleStep, NEW rn \in 0 .. 5, NEW m \in 0 .. 5, pc \in 0 .. 100,
         NEW cond \in 0 .. 15, NEW nzcv \in 0 .. 15, program[pc] = CompareIf(cond, nzcv, rn, m)
  PROVE  FlagsOnly(IF Arm!Holds(cond, flags)
               THEN Arm!DifferenceFlags(half(rn), half(m), 0, Cpu!W) ELSE Spelled(nzcv))
<1> DEFINE i == Cpu!DecodeInstruction(CompareIf(cond, nzcv, rn, m))
<1>1. Cpu!Translate(Cpu!Machine, i) BY Stepping
<1>2. /\ i.opcode = "kCcmn" /\ i.cc = cond
      /\ i.operands[1] = Cpu!x(Cpu!W, rn) /\ i.operands[2] = Cpu!x(Cpu!W, m)
      /\ i.operands[3] = Cpu!Immediate(8, nzcv)
  BY CompareIfDecoded
<1> HIDE DEF i
<1>3. Cpu!ConditionalCompare(Cpu!Machine, i) BY <1>1, <1>2, Translates
<1>4. /\ Cpu!Get(Cpu!Machine, i, 0) = half(rn) /\ Cpu!Get(Cpu!Machine, i, 1) = half(m)
      /\ Cpu!SizeOf(i, 0) = Cpu!W
  BY <1>2, ReadIs
<1>5. Cpu!Op(i, 2).value = nzcv
  <2>1. nzcv % 256 = nzcv OBVIOUS
  <2> QED BY <1>2, <2>1, SameNumerals, SmallPowers DEF Cpu!Op, Cpu!Immediate
<1>6. half(rn) \in 0 .. TwoTo[Cpu!W] - 1 /\ half(m) \in 0 .. TwoTo[Cpu!W] - 1 BY LowWord
<1>7. Cpu!W \in Nat /\ Cpu!W > 0 BY Widths
<1>8. Cpu!Machine.f = flags BY DEF Cpu!Machine
<1> DEFINE sum == Cpu!AddWithCarry(half(rn), Cpu!Not(half(m), Cpu!W), 1, Cpu!W)
           difference == Arm!DifferenceFlags(half(rn), half(m), 0, Cpu!W)
           holds == Cpu!ConditionHolds(flags, cond) # 0
           h == Arm!Holds(cond, flags)
           f == IF h THEN difference ELSE Spelled(nzcv)
<1>9. sum.flags = difference
  <2>1. 1 \in {0, 1} /\ 1 - 1 = 0 OBVIOUS
  <2>2. sum.flags = Arm!DifferenceFlags(half(rn), half(m), 1 - 1, Cpu!W)
    BY <1>6, <1>7, <2>1, SubtractedIs
  <2> QED BY <2>1, <2>2
<1>10. holds \in BOOLEAN /\ (holds <=> h)
  <2>1. Cpu!ConditionHolds(flags, cond) = IF h THEN 1 ELSE 0 BY ConditionIs DEF Sound
  <2> HIDE DEF h
  <2> QED BY <2>1
<1> DEFINE got == IF minimal THEN IF holds THEN sum.flags ELSE Spelled(nzcv)
                  ELSE Cpu!Execute(Choice(holds, TRUE, Spelled(nzcv), sum.flags), flags)
<1>11. Cpu!Proceed([Cpu!Machine EXCEPT !.f = got])
  BY <1>2, <1>3, <1>4, <1>5, <1>8, Zenon DEF Cpu!ConditionalCompare, Choice, Spelled
<1> HIDE DEF sum, difference, h, holds
<1>12. holds \in BOOLEAN BY <1>10
<1>13. Cpu!Execute(Choice(holds, TRUE, Spelled(nzcv), sum.flags), flags)
       = IF holds THEN sum.flags ELSE Spelled(nzcv)
  <2>1. Chooses(holds, Spelled(nzcv), sum.flags, flags) BY <1>12, ChoiceRun, Zenon
  <2> QED BY <2>1, Zenon DEF Chooses
<1>14. got = f BY <1>9, <1>10, <1>13, Zenon
<1> HIDE DEF got, f
<1>15. FlagsOnly(f) BY <1>11, <1>14, FlagsOnlyWritten
<1> QED BY <1>15 DEF f, h, difference
-----------------------------------------------------------------------------
(* The sequences.                                                           *)

\* The places of the instructions of a sequence.
LEMMA TwoInstructions ==
  ASSUME NEW u, NEW v, NEW p, p = Sequence(<<u, v>>)
  PROVE  DOMAIN p = {0, 4} /\ p[0] = u /\ p[4] = v
<1> DEFINE words == <<u, v>>
           places == {Place(k - 1) : k \in DOMAIN words}
<1>1. DOMAIN words = {1, 2} /\ words[1] = u /\ words[2] = v /\ InstructionBytes = 4 BY Widths
<1> HIDE DEF words
<1>2. places = {0, 4} BY <1>1 DEF Place
<1>3. p = [address \in places |-> words[address \div InstructionBytes + 1]]
  BY Zenon DEF Sequence, words
<1> HIDE DEF places
<1>4. p[0] = words[0 \div 4 + 1] /\ p[4] = words[4 \div 4 + 1] /\ DOMAIN p = places
  BY <1>1, <1>2, <1>3
<1>5. 0 \div 4 + 1 = 1 /\ 4 \div 4 + 1 = 2 OBVIOUS
<1> QED BY <1>1, <1>2, <1>4, <1>5

LEMMA ThreeInstructions ==
  ASSUME NEW u, NEW v, NEW last, NEW p, p = Sequence(<<u, v, last>>)
  PROVE  DOMAIN p = {0, 4, 8} /\ p[0] = u /\ p[4] = v /\ p[8] = last
<1> DEFINE words == <<u, v, last>>
           places == {Place(k - 1) : k \in DOMAIN words}
<1>1. DOMAIN words = {1, 2, 3} /\ words[1] = u /\ words[2] = v /\ words[3] = last
      /\ InstructionBytes = 4
  BY Widths
<1> HIDE DEF words
<1>2. places = {0, 4, 8} BY <1>1 DEF Place
<1>3. p = [address \in places |-> words[address \div InstructionBytes + 1]]
  BY Zenon DEF Sequence, words
<1> HIDE DEF places
<1>4. /\ p[0] = words[0 \div 4 + 1] /\ p[4] = words[4 \div 4 + 1] /\ p[8] = words[8 \div 4 + 1]
      /\ DOMAIN p = places
  BY <1>1, <1>2, <1>3
<1>5. 0 \div 4 + 1 = 1 /\ 4 \div 4 + 1 = 2 /\ 8 \div 4 + 1 = 3 OBVIOUS
<1> QED BY <1>1, <1>2, <1>4, <1>5

\* What is said of the registers stays when they do.
LEMMA SameNumbers ==
  ASSUME registers' = registers
  PROVE  /\ \A cond, rn, m : Relates(cond, rn, m)' = Relates(cond, rn, m)
         /\ \A first, cond : BothRelate(first, cond)' = BothRelate(first, cond)
         /\ \A cond : WideRelates(cond)' = WideRelates(cond)
         /\ \A rn, m : Difference(rn, m)' = Difference(rn, m)
<1>1. \A r : half(r)' = half(r) BY DEF half
<1>2. \A l, h : Wide(l, h)' = Wide(l, h) BY <1>1 DEF Wide
<1>3. ASSUME NEW cond, NEW rn, NEW m PROVE Relates(cond, rn, m)' = Relates(cond, rn, m)
  BY <1>1, Zenon DEF Relates
<1>4. ASSUME NEW first, NEW cond PROVE BothRelate(first, cond)' = BothRelate(first, cond)
  BY <1>3, Zenon DEF BothRelate
<1>5. ASSUME NEW cond PROVE WideRelates(cond)' = WideRelates(cond) BY <1>2, Zenon DEF WideRelates
<1>6. ASSUME NEW rn, NEW m PROVE Difference(rn, m)' = Difference(rn, m)
  BY <1>1, Zenon DEF Difference
<1> QED BY <1>3, <1>4, <1>5, <1>6

\* The conditions for which a comparison has a relation.
LEMMA RelationsAre == Relations \subseteq 0 .. 15 /\ {2, 3, 10, 11} \subseteq Relations
BY DEF Relations

\* After CMP, a condition holds exactly if its relation does.
LEMMA ComparisonSays ==
  ASSUME Sound, NEW cond \in Relations, NEW rn \in 0 .. 5, NEW m \in 0 .. 5
  PROVE  /\ Arm!Holds(cond, Difference(rn, m)) <=> Relates(cond, rn, m)
         /\ Difference(rn, m) \in Flagged
<1>1. half(rn) \in 0 .. TwoTo[Cpu!W] - 1 /\ half(m) \in 0 .. TwoTo[Cpu!W] - 1 BY LowWord
<1>2. Cpu!W \in Nat /\ Cpu!W > 0 BY Widths
<1>3. Arm!Holds(cond, Difference(rn, m)) <=> Relates(cond, rn, m)
  BY <1>1, <1>2, RelationIs DEF Difference, Relates
<1>4. Difference(rn, m) \in Flagged BY FlagsAreFlagged DEF Difference
<1> QED BY <1>3, <1>4

\* Steps that write no register keep the machine sound.
LEMMA SoundRemains ==
  ASSUME Sound, registers' = registers, flags' \in Flagged
  PROVE  Sound'
BY DEF Sound

\* Only instructions of the program are run.
LEMMA ProgramStays == ASSUME Cpu!SingleStep PROVE program' = program /\ pc \in DOMAIN program
BY Zenon DEF Cpu!SingleStep

\* Steps of CMP, B.cond.
LEMMA ComparingStep == ASSUME Comparing, Cpu!SingleStep PROVE Comparing'
<1> SUFFICES ASSUME NEW cond \in Relations, program' = Sequence(Compared(cond))
             PROVE  Sound' /\ AtTwo(cond, Relates(cond, 0, 1))'
  BY DEF Comparing
<1> DEFINE relation == Relates(cond, 0, 1)
<1>1. program = Sequence(Compared(cond)) /\ pc \in DOMAIN program BY ProgramStays
<1>2. Sound /\ AtTwo(cond, relation) BY <1>1 DEF Comparing
<1>3. /\ DOMAIN program = {0, 4} /\ program[0] = SetFlagsSub(0, 1)
      /\ program[4] = BranchIf(cond)
  BY <1>1, TwoInstructions DEF Compared
<1>4. cond \in 0 .. 15 BY RelationsAre
<1>5. CASE pc = 0
  <2>1. FlagsOnly(Difference(0, 1)) BY <1>2, <1>3, <1>5, CompareStep DEF Difference
  <2>2. /\ registers' = registers /\ flags' = Difference(0, 1) /\ pc' = 4
    BY <1>5, <2>1 DEF FlagsOnly
  <2>3. Arm!Holds(cond, flags') <=> relation BY <1>2, <2>2, ComparisonSays
  <2>4. relation' = relation BY <2>2, SameNumbers
  <2>5. Sound' BY <1>2, <2>2, ComparisonSays, SoundRemains
  <2> HIDE DEF relation
  <2> QED BY <2>2, <2>3, <2>4, <2>5 DEF AtTwo, relation
<1>6. CASE pc = 4
  <2>1. /\ registers' = registers /\ flags' = flags
        /\ pc' = pc + IF Arm!Holds(cond, flags) THEN 8 ELSE 4
    BY <1>2, <1>3, <1>4, <1>6, BranchStep
  <2>2. relation' = relation BY <2>1, SameNumbers
  <2>3. Sound' BY <1>2, <2>1, SoundRemains DEF Sound
  <2> HIDE DEF relation
  <2>4. Arm!Holds(cond, flags) <=> relation BY <1>2, <1>6 DEF AtTwo
  <2>5. pc' = IF relation THEN 12 ELSE 8 BY <1>6, <2>1, <2>4
  <2> QED BY <2>2, <2>3, <2>5 DEF AtTwo, relation
<1> QED BY <1>1, <1>3, <1>5, <1>6

\* Steps of CMP, CCMP, B.cond.
LEMMA BothComparingStep == ASSUME BothComparing, Cpu!SingleStep PROVE BothComparing'
<1> SUFFICES ASSUME NEW first \in Relations, NEW cond \in Relations,
                    program' = Sequence(BothCompared(first, cond))
             PROVE  Sound' /\ AtThree(cond, Arm!Holds(first, flags) <=> Relates(first, 0, 1),
                                      BothRelate(first, cond))'
  BY DEF BothComparing
<1> DEFINE relation == BothRelate(first, cond)
           compared == Arm!Holds(first, flags) <=> Relates(first, 0, 1)
<1>1. program = Sequence(BothCompared(first, cond)) /\ pc \in DOMAIN program BY ProgramStays
<1>2. Sound /\ AtThree(cond, compared, relation) BY <1>1 DEF BothComparing
<1>3. /\ DOMAIN program = {0, 4, 8} /\ program[0] = SetFlagsSub(0, 1)
      /\ program[4] = CompareIf(first, Failing(cond), 2, 3)
      /\ program[8] = BranchIf(cond)
  BY <1>1, ThreeInstructions DEF BothCompared
<1>4. cond \in 0 .. 15 /\ first \in 0 .. 15 BY RelationsAre
<1>5. CASE pc = 0
  <2>1. FlagsOnly(Difference(0, 1)) BY <1>2, <1>3, <1>5, CompareStep DEF Difference
  <2>2. /\ registers' = registers /\ flags' = Difference(0, 1) /\ pc' = 4
    BY <1>5, <2>1 DEF FlagsOnly
  <2>3. Arm!Holds(first, flags') <=> Relates(first, 0, 1) BY <1>2, <2>2, ComparisonSays
  <2>4. Relates(first, 0, 1)' = Relates(first, 0, 1) BY <2>2, SameNumbers
  <2>5. Sound' BY <1>2, <2>2, ComparisonSays, SoundRemains
  <2> HIDE DEF relation
  <2>6. compared' BY <2>3, <2>4
  <2> HIDE DEF compared
  <2> QED BY <2>2, <2>5, <2>6 DEF AtThree, relation, compared
<1>6. CASE pc = 4
  <2>1. Failing(cond) \in 0 .. 15 /\ Spelled(Failing(cond)) \in Flagged
        /\ ~Arm!Holds(cond, Spelled(Failing(cond)))
    BY FailingIs
  <2> DEFINE f == IF Arm!Holds(first, flags) THEN Difference(2, 3)
                  ELSE Spelled(Failing(cond))
  <2>2. FlagsOnly(f)
    <3>1. PICK rn \in 0 .. 5, m \in 0 .. 5 : rn = 2 /\ m = 3 OBVIOUS
    <3>2. program[pc] = CompareIf(first, Failing(cond), rn, m) BY <1>3, <1>6, <3>1
    <3>3. pc \in 0 .. 100 BY <1>6
    <3> HIDE DEF f, relation, compared
    <3>4. FlagsOnly(IF Arm!Holds(first, flags)
                THEN Arm!DifferenceFlags(half(rn), half(m), 0, Cpu!W)
                ELSE Spelled(Failing(cond)))
      BY <1>2, <1>4, <2>1, <3>2, <3>3, CompareIfStep, Zenon
    <3> QED BY <3>1, <3>4, Zenon DEF f, Difference
  <2>3. registers' = registers /\ flags' = f /\ pc' = 8 BY <1>6, <2>2 DEF FlagsOnly
  <2>4. Arm!Holds(first, flags) <=> Relates(first, 0, 1) 
    <3> HIDE DEF relation
    <3> QED BY <1>2, <1>6 DEF AtThree
  <2>5. /\ Arm!Holds(cond, Difference(2, 3)) <=> Relates(cond, 2, 3)
        /\ Difference(2, 3) \in Flagged
    BY <1>2, ComparisonSays
  <2>6. f \in Flagged /\ (Arm!Holds(cond, f) <=> relation) 
    <3>1. CASE Arm!Holds(first, flags)
      <4>1. f = Difference(2, 3) BY <3>1
      <4> HIDE DEF f
      <4> QED BY <3>1, <2>4, <2>5, <4>1 DEF BothRelate
    <3>2. CASE ~Arm!Holds(first, flags)
      <4>1. f = Spelled(Failing(cond)) BY <3>2
      <4> HIDE DEF f
      <4> QED BY <3>2, <2>1, <2>4, <4>1 DEF BothRelate
    <3> QED BY <3>1, <3>2
  <2>7. relation' = relation BY <2>3, SameNumbers
  <2> HIDE DEF f
  <2>8. Sound' BY <1>2, <2>3, <2>6, SoundRemains
  <2> HIDE DEF relation, compared
  <2> QED BY <2>3, <2>6, <2>7, <2>8 DEF AtThree, relation, compared
<1>7. CASE pc = 8
  <2>1. /\ registers' = registers /\ flags' = flags
        /\ pc' = pc + IF Arm!Holds(cond, flags) THEN 8 ELSE 4
    BY <1>2, <1>3, <1>4, <1>7, BranchStep
  <2>2. relation' = relation BY <2>1, SameNumbers
  <2>3. Sound' BY <1>2, <2>1, SoundRemains DEF Sound
  <2> HIDE DEF relation, compared
  <2>4. Arm!Holds(cond, flags) <=> relation BY <1>2, <1>7 DEF AtThree
  <2>5. pc' = IF relation THEN 16 ELSE 12 BY <1>7, <2>1, <2>4
  <2> QED BY <2>2, <2>3, <2>5 DEF AtThree, relation, compared
<1> QED BY <1>1, <1>3, <1>5, <1>6, <1>7

\* Steps of CMP, SBCS, B.cond.
LEMMA WideComparingStep == ASSUME WideComparing, Cpu!SingleStep PROVE WideComparing'
<1> SUFFICES ASSUME NEW cond \in {2, 3, 10, 11},
                    program' = Sequence(WideCompared(cond))
             PROVE  Sound' /\ AtThree(cond, flags = Difference(0, 2), WideRelates(cond))'
  BY DEF WideComparing
<1> DEFINE relation == WideRelates(cond)
           compared == flags = Difference(0, 2)
<1>1. program = Sequence(WideCompared(cond)) /\ pc \in DOMAIN program BY ProgramStays
<1>2. Sound /\ AtThree(cond, compared, relation) BY <1>1 DEF WideComparing
<1>3. /\ DOMAIN program = {0, 4, 8} /\ program[0] = SetFlagsSub(0, 2)
      /\ program[4] = Carrying(1, 1, 1, 3, 31)
      /\ program[8] = BranchIf(cond)
  BY <1>1, ThreeInstructions DEF WideCompared
<1>4. cond \in 0 .. 15 /\ cond \in Relations BY RelationsAre
<1>5. CASE pc = 0
  <2>1. FlagsOnly(Difference(0, 2)) BY <1>2, <1>3, <1>5, CompareStep DEF Difference
  <2>2. /\ registers' = registers /\ flags' = Difference(0, 2) /\ pc' = 4
    BY <1>5, <2>1 DEF FlagsOnly
  <2>3. Difference(0, 2)' = Difference(0, 2) BY <2>2, SameNumbers
  <2>4. Sound' BY <1>2, <1>4, <2>2, ComparisonSays, SoundRemains
  <2>5. compared' BY <2>2, <2>3
  <2> HIDE DEF relation, compared
  <2> QED BY <2>2, <2>4, <2>5 DEF AtThree, relation, compared
<1>6. CASE pc = 4
  <2> DEFINE g == Arm!DifferenceFlags(half(1), half(3), 1 - flags.c, Cpu!W)
  <2>1. FlagsOnly(g) BY <1>2, <1>3, <1>6, CarryingStep
  <2>2. registers' = registers /\ flags' = g /\ pc' = 8 BY <1>6, <2>1 DEF FlagsOnly
  <2>3. flags = Difference(0, 2)
    <3> HIDE DEF relation
    <3> QED BY <1>2, <1>6 DEF AtThree
  <2>4. Arm!Holds(cond, g) <=> relation
    <3>1. /\ half(0) \in 0 .. TwoTo[Cpu!W] - 1 /\ half(1) \in 0 .. TwoTo[Cpu!W] - 1
          /\ half(2) \in 0 .. TwoTo[Cpu!W] - 1 /\ half(3) \in 0 .. TwoTo[Cpu!W] - 1
      BY <1>2, LowWord
    <3>2. Cpu!W \in Nat /\ Cpu!W > 0 BY Widths
    <3>3. flags = Arm!DifferenceFlags(half(0), half(2), 0, Cpu!W) BY <2>3 DEF Difference
    <3>4. Arm!Holds(cond, g)
          <=> Related(cond, half(0) + TwoTo[Cpu!W] * half(1),
                          half(2) + TwoTo[Cpu!W] * half(3), 2 * Cpu!W)
      BY <3>1, <3>2, <3>3, WideRelationIs
    <3>5. /\ Wide(0, 1) = half(0) + TwoTo[Cpu!W] * half(1)
          /\ Wide(2, 3) = half(2) + TwoTo[Cpu!W] * half(3)
      BY SameNumerals, Zenon DEF Wide
    <3> QED BY <3>4, <3>5, Zenon DEF WideRelates
  <2>5. g \in Flagged BY FlagsAreFlagged
  <2>6. relation' = relation BY <2>2, SameNumbers
  <2> HIDE DEF g
  <2>7. Sound' BY <1>2, <2>2, <2>5, SoundRemains
  <2> HIDE DEF relation, compared
  <2> QED BY <2>2, <2>4, <2>6, <2>7 DEF AtThree, relation, compared
<1>7. CASE pc = 8
  <2>1. /\ registers' = registers /\ flags' = flags
        /\ pc' = pc + IF Arm!Holds(cond, flags) THEN 8 ELSE 4
    BY <1>2, <1>3, <1>4, <1>7, BranchStep
  <2>2. relation' = relation BY <2>1, SameNumbers
  <2>3. Sound' BY <1>2, <2>1, SoundRemains DEF Sound
  <2> HIDE DEF relation, compared
  <2>4. Arm!Holds(cond, flags) <=> relation BY <1>2, <1>7 DEF AtThree
  <2>5. pc' = IF relation THEN 16 ELSE 12 BY <1>7, <2>1, <2>4
  <2> QED BY <2>2, <2>3, <2>5 DEF AtThree, relation, compared
<1> QED BY <1>1, <1>3, <1>5, <1>6, <1>7

\* A run begins with the first instruction.
LEMMA Initially ==
  ASSUME Cpu!Init
  PROVE  Sound /\ pc \in DOMAIN program /\ \A p \in DOMAIN program : pc <= p
<1>1. PICK k \in DOMAIN Starts :
        /\ program \in Starts[k].programs /\ registers \in Starts[k].registers
        /\ flags \in Starts[k].flags /\ pc = Starts[k].pc
  BY Zenon DEF Cpu!Init
<1>2. pc \in DOMAIN program /\ \A p \in DOMAIN program : pc <= p
  BY <1>1, StartsAssumption, Zenon
<1>3. Used \subseteq DOMAIN registers BY <1>1, StartsAssumption, Zenon
<1>4. \A r \in DOMAIN registers : registers[r] \in Cpu!Addresses
  BY <1>1, StartsAssumption, Zenon
<1>5. flags \in Flagged
  <2>1. Starts[k].flags \subseteq [n : {0, 1}, z : {0, 1}, c : {0, 1}, v : {0, 1}]
    BY <1>1, StartsAssumption, Zenon
  <2> QED BY <1>1, <2>1, Zenon DEF Flagged, ZeroOne
<1>6. \A r \in 0 .. 5 : r \in Used BY DEF Used
<1> QED BY <1>2, <1>3, <1>4, <1>5, <1>6, Zenon DEF Sound

LEMMA ComparisonsAtFirst == ASSUME Cpu!Init PROVE Comparisons
<1>1. Sound /\ pc \in DOMAIN program /\ \A p \in DOMAIN program : pc <= p BY Initially
<1>2. Comparing
  <2> SUFFICES ASSUME NEW cond \in Relations, program = Sequence(Compared(cond))
               PROVE  Sound /\ AtTwo(cond, Relates(cond, 0, 1))
    BY DEF Comparing
  <2>1. DOMAIN program = {0, 4} BY TwoInstructions DEF Compared
  <2>2. pc = 0 BY <1>1, <2>1
  <2> QED BY <1>1, <2>2 DEF AtTwo
<1>3. BothComparing
  <2> SUFFICES ASSUME NEW first \in Relations, NEW cond \in Relations,
                      program = Sequence(BothCompared(first, cond))
               PROVE  Sound /\ AtThree(cond, Arm!Holds(first, flags) <=> Relates(first, 0, 1),
                                       BothRelate(first, cond))
    BY DEF BothComparing
  <2>1. DOMAIN program = {0, 4, 8} BY ThreeInstructions DEF BothCompared
  <2>2. pc = 0 BY <1>1, <2>1
  <2> QED BY <1>1, <2>2 DEF AtThree
<1>4. WideComparing
  <2> SUFFICES ASSUME NEW cond \in {2, 3, 10, 11}, program = Sequence(WideCompared(cond))
               PROVE  Sound /\ AtThree(cond, flags = Difference(0, 2), WideRelates(cond))
    BY DEF WideComparing
  <2>1. DOMAIN program = {0, 4, 8} BY ThreeInstructions DEF WideCompared
  <2>2. pc = 0 BY <1>1, <2>1
  <2> QED BY <1>1, <2>2 DEF AtThree
<1> QED BY <1>2, <1>3, <1>4 DEF Comparisons

LEMMA ComparisonsStay == ASSUME UNCHANGED Cpu!vars, Comparisons PROVE Comparisons'
<1>1. program' = program /\ registers' = registers /\ flags' = flags /\ pc' = pc
  BY DEF Cpu!vars, Cpu!state
<1>2. Sound' <=> Sound BY <1>1 DEF Sound
<1>3. Comparing'
  <2> SUFFICES ASSUME NEW cond \in Relations, program' = Sequence(Compared(cond))
               PROVE  Sound' /\ AtTwo(cond, Relates(cond, 0, 1))'
    BY DEF Comparing
  <2>1. Sound /\ AtTwo(cond, Relates(cond, 0, 1)) BY <1>1 DEF Comparisons, Comparing
  <2>2. Relates(cond, 0, 1)' = Relates(cond, 0, 1) BY <1>1, SameNumbers
  <2> QED BY <1>1, <1>2, <2>1, <2>2 DEF AtTwo
<1>4. BothComparing'
  <2> SUFFICES ASSUME NEW first \in Relations, NEW cond \in Relations,
                      program' = Sequence(BothCompared(first, cond))
               PROVE  Sound' /\ AtThree(cond, Arm!Holds(first, flags) <=> Relates(first, 0, 1),
                                        BothRelate(first, cond))'
    BY DEF BothComparing
  <2>1. Sound /\ AtThree(cond, Arm!Holds(first, flags) <=> Relates(first, 0, 1),
            BothRelate(first, cond))
    BY <1>1 DEF Comparisons, BothComparing
  <2>2. /\ Relates(first, 0, 1)' = Relates(first, 0, 1)
        /\ BothRelate(first, cond)' = BothRelate(first, cond)
    BY <1>1, SameNumbers
  <2> QED BY <1>1, <1>2, <2>1, <2>2 DEF AtThree
<1>5. WideComparing'
  <2> SUFFICES ASSUME NEW cond \in {2, 3, 10, 11},
                      program' = Sequence(WideCompared(cond))
               PROVE  Sound' /\ AtThree(cond, flags = Difference(0, 2), WideRelates(cond))'
    BY DEF WideComparing
  <2>1. Sound /\ AtThree(cond, flags = Difference(0, 2), WideRelates(cond))
    BY <1>1 DEF Comparisons, WideComparing
  <2>2. Difference(0, 2)' = Difference(0, 2) /\ WideRelates(cond)' = WideRelates(cond)
    BY <1>1, SameNumbers
  <2> QED BY <1>1, <1>2, <2>1, <2>2 DEF AtThree
<1> QED BY <1>3, <1>4, <1>5 DEF Comparisons

\* At the end of a sequence the invariant is what is to be proved.
LEMMA ComparisonsMean == ASSUME Comparisons PROVE ConditionMeaning
<1> SUFFICES ASSUME NEW cond \in Conditions("ConditionalBranch")
             PROVE
    /\ TakenIf(Compared(cond), Relates(cond, 0, 1))
    /\ \A first \in Conditions("ConditionalCompare") :
         TakenIf(BothCompared(first, cond), BothRelate(first, cond))
    /\ cond \in {2, 3, 10, 11} => TakenIf(WideCompared(cond), WideRelates(cond))
  BY Zenon DEF ConditionMeaning, Relates, BothRelate, WideRelates
<1>1. cond \in Relations BY DEF Conditions
<1>2. \A rn \in 0 .. 100 : Place(rn) = 4 * rn BY Widths DEF Place
<1>3. TakenIf(Compared(cond), Relates(cond, 0, 1))
  <2>1. Len(Compared(cond)) = 2 BY DEF Compared
  <2>2. program = Sequence(Compared(cond)) => AtTwo(cond, Relates(cond, 0, 1))
    BY <1>1 DEF Comparisons, Comparing
  <2> QED BY <1>2, <2>1, <2>2 DEF TakenIf, AtTwo
<1>4. ASSUME NEW first \in Conditions("ConditionalCompare")
      PROVE  TakenIf(BothCompared(first, cond), BothRelate(first, cond))
  <2>1. Len(BothCompared(first, cond)) = 3 BY DEF BothCompared
  <2>2. first \in Relations BY DEF Conditions
  <2>3. program = Sequence(BothCompared(first, cond)) =>
          AtThree(cond, Arm!Holds(first, flags) <=> Relates(first, 0, 1),
            BothRelate(first, cond))
    BY <1>1, <2>2 DEF Comparisons, BothComparing
  <2> QED BY <1>2, <2>1, <2>3 DEF TakenIf, AtThree
<1>5. ASSUME cond \in {2, 3, 10, 11} PROVE TakenIf(WideCompared(cond), WideRelates(cond))
  <2>1. Len(WideCompared(cond)) = 3 BY DEF WideCompared
  <2>2. program = Sequence(WideCompared(cond)) =>
          AtThree(cond, flags = Difference(0, 2), WideRelates(cond))
    BY <1>5 DEF Comparisons, WideComparing
  <2> QED BY <1>2, <2>1, <2>2 DEF TakenIf, AtThree
<1> QED BY <1>3, <1>4, <1>5

\* Sequences that compare and branch (CMP, B.cond; CMP, CCMP, B.cond; CMP, SBCS, B.cond)
\* branch if and only if the numbers are in the relation that the condition is named for,
\* with registers of every width, whatever is in them, and with either way to translate
\* a jump inside an instruction.
THEOREM ConditionsMean == Emulation => []ConditionMeaning
<1>1. Cpu!Init => Comparisons BY ComparisonsAtFirst
<1>2. Comparisons /\ [Cpu!SingleStep]_(Cpu!vars) => Comparisons'
  <2>1. ASSUME Comparisons, Cpu!SingleStep PROVE Comparisons'
    <3>1. Comparing' BY <2>1, ComparingStep DEF Comparisons
    <3>2. BothComparing' BY <2>1, BothComparingStep DEF Comparisons
    <3>3. WideComparing' BY <2>1, WideComparingStep DEF Comparisons
    <3> QED BY <3>1, <3>2, <3>3 DEF Comparisons
  <2> QED BY <2>1, ComparisonsStay
<1>3. Comparisons => ConditionMeaning BY ComparisonsMean
<1> QED BY <1>1, <1>2, <1>3, PTL DEF Emulation, Cpu!Spec
-----------------------------------------------------------------------------
(* What the sequences that compute leave behind.                           *)

\* What is left when a register is written.
LEMMA WrittenIs ==
  ASSUME NEW f, NEW m, m = [x |-> registers, f |-> f, mem |-> memory],
         NEW i, NEW sz, NEW d \in 0 .. 5, i.operands[1] = Cpu!x(sz, d),
         NEW v \in 0 .. TwoTo[Cpu!X] - 1, Cpu!Proceed(Cpu!Set(m, i, 0, v)), pc \in 0 .. 100
  PROVE  Writes(d, v, f)
<1>1. v % TwoTo[Cpu!X] = v
  <2>1. PICK t \in Nat \ {0} : t = TwoTo[Cpu!X] BY Widths, TwoToNat
  <2>2. 0 \in Int /\ v \in 0 .. t - 1 /\ v = t * 0 + v /\ v \in Int BY <2>1
  <2>3. v % t = v BY <2>1, <2>2, PartsAre, Zenon
  <2> QED BY <2>1, <2>3
<1>2. Cpu!Op(i, 0) = Cpu!Register(sz, d) BY DEF Cpu!Op, Cpu!x
<1> DEFINE o == Cpu!Register(sz, d)
<1>3. o.kind = "Register" /\ o.name = d BY DEF Cpu!Register
<1> HIDE DEF o
<1>4. Cpu!SetOperand(m, o, v) = Cpu!SetRegister(m, d, v) BY <1>3 DEF Cpu!SetOperand
<1>5. Cpu!Set(m, i, 0, v) = Cpu!SetRegister(m, d, v) BY <1>2, <1>4 DEF Cpu!Set, o
<1> DEFINE z == Cpu!SetRegister(m, d, v)
<1>6. z = [m EXCEPT !.x[d] = v] BY <1>1, SameNumerals DEF Cpu!SetRegister, Cpu!kXzr
<1>7. z.x = [registers EXCEPT ![d] = v] /\ z.f = f /\ z.mem = memory BY <1>6
<1> HIDE DEF z
<1>8. Cpu!Proceed(z) BY <1>5 DEF z
<1>9. (pc + InstructionBytes) % Cpu!TwoTo[Cpu!X] = pc + 4 BY NoWrap, Widths, SameNumerals
<1> QED BY <1>7, <1>8, <1>9 DEF Cpu!Proceed, Cpu!Leave, Writes

-----------------------------------------------------------------------------
(* Sums that carry.                                                         *)

\* What AddWithCarry returns is the sum or the difference, and the carry out of it.
LEMMA TotalIs ==
  ASSUME NEW op1 \in {0, 1}, NEW u \in 0 .. TwoTo[Cpu!W] - 1, NEW v \in 0 .. TwoTo[Cpu!W] - 1,
         NEW c \in {0, 1}, NEW sum, sum = Cpu!AddWithCarry(u, AddedTo(op1, v), c, Cpu!W)
  PROVE  /\ sum.result = Total(op1, u, v, c) % TwoTo[Cpu!W]
         /\ sum.flags.c = Carry(op1, Total(op1, u, v, c)) /\ sum.flags \in Flagged
<1>1. Cpu!W \in Nat /\ Cpu!W > 0 BY Widths
<1>2. Arm!Modulus(Cpu!W) = TwoTo[Cpu!W] BY SameNumerals DEF Arm!Modulus
<1>3. CASE op1 = 1
  <2>1. sum.result = (u - v - (1 - c)) % TwoTo[Cpu!W]
        /\ sum.flags = Arm!DifferenceFlags(u, v, 1 - c, Cpu!W)
    BY <1>1, <1>3, SubtractedIs DEF AddedTo
  <2>2. sum.flags \in Flagged BY <2>1, FlagsAreFlagged
  <2>3. Arm!DifferenceFlags(u, v, 1 - c, Cpu!W).c = IF u - v - (1 - c) >= 0 THEN 1 ELSE 0
    BY DEF Arm!DifferenceFlags, Arm!FlagsOf, Arm!Flag
  <2> QED BY <1>3, <2>1, <2>2, <2>3 DEF Total, Carry
<1>4. CASE op1 = 0
  <2>1. sum.result = (u + v + c) % TwoTo[Cpu!W] /\ sum.flags = Arm!SumFlags(u, v, c, Cpu!W)
    BY <1>1, <1>4, AddedIs DEF AddedTo
  <2>2. sum.flags \in Flagged BY <2>1, FlagsAreFlagged
  <2>3. Arm!SumFlags(u, v, c, Cpu!W).c = IF u + v + c >= TwoTo[Cpu!W] THEN 1 ELSE 0
    BY <1>2 DEF Arm!SumFlags, Arm!FlagsOf, Arm!Flag
  <2> QED BY <1>4, <2>1, <2>2, <2>3 DEF Total, Carry
<1> QED BY <1>3, <1>4

\* A remainder of half the bits fits a register and a half of one.
LEMMA SmallFits ==
  ASSUME NEW v \in Int
  PROVE  v % TwoTo[Cpu!W] \in 0 .. TwoTo[Cpu!X] - 1 /\ v % TwoTo[Cpu!W] \in 0 .. TwoTo[Cpu!W] - 1
<1>1. TwoTo[Cpu!W] <= TwoTo[Cpu!X] BY Widths, TwoToRises
<1>2. PICK t \in Nat \ {0} : t = TwoTo[Cpu!W] BY Widths, TwoToNat
<1>3. v % t \in 0 .. t - 1 BY <1>2
<1> QED BY <1>1, <1>2, <1>3, TwoToNat, Widths

\* What is left of a sum when another register is named for it.
LEMMA RegisterLeft ==
  ASSUME NEW d \in 0 .. 5, NEW i, i.operands[1] = Cpu!x(Cpu!W, d), NEW sum,
         sum.result \in 0 .. TwoTo[Cpu!X] - 1, Finishes(i, sum), pc \in 0 .. 100
  PROVE  /\ i.set_flags = TRUE => Writes(d, sum.result, sum.flags)
         /\ i.set_flags = FALSE => Writes(d, sum.result, flags)
<1> DEFINE f == IF i.set_flags THEN sum.flags ELSE flags
           v == sum.result
           mm == Cpu!SetFlags(Cpu!Machine, i, sum.flags)
<1> SUFFICES ASSUME i.set_flags \in BOOLEAN PROVE Writes(d, v, f) OBVIOUS
<1>1. mm = [x |-> registers, f |-> f, mem |-> memory] BY DEF Cpu!SetFlags, Cpu!Machine
<1>2. Cpu!Proceed(Cpu!Set(mm, i, 0, v)) BY DEF Finishes
<1>3. v \in 0 .. TwoTo[Cpu!X] - 1 OBVIOUS
<1> HIDE DEF mm, f, v
<1> QED BY <1>1, <1>2, <1>3, WrittenIs

\* ADDS (op 0) and SUBS (op 1): the sum is written, and its carry kept in the flags.
LEMMA AddStep ==
  ASSUME Sound, Cpu!SingleStep, pc \in 0 .. 100, NEW op1 \in {0, 1},
         NEW rn \in 0 .. 5, NEW m \in 0 .. 5, NEW d \in 0 .. 5,
         program[pc] = AddOf(op1, rn, m, d)
  PROVE  Sums(op1, half(rn), half(m), op1, d)
<1> DEFINE i == Cpu!DecodeInstruction(program[pc])
           sum == Cpu!AddWithCarry(half(rn), AddedTo(op1, half(m)), op1, Cpu!W)
           r == Total(op1, half(rn), half(m), op1)
<1>1. i.operands[1] = Cpu!x(Cpu!W, d) /\ i.set_flags = TRUE /\ Finishes(i, sum)
  <2>1. Adds(program[pc], op1, rn, m, d) BY DEF Adds, AddOf, SetFlagsSub
  <2> QED BY <2>1, AdditionRuns
<1>2. half(rn) \in 0 .. TwoTo[Cpu!W] - 1 /\ half(m) \in 0 .. TwoTo[Cpu!W] - 1 BY LowWord
<1>3. /\ sum.result = r % TwoTo[Cpu!W] /\ sum.flags.c = Carry(op1, r)
      /\ sum.flags \in Flagged
  BY <1>2, TotalIs
<1>4. r \in Int BY <1>2, TwoToNat, Widths DEF Total
<1> HIDE DEF i, sum, r
<1>5. Writes(d, sum.result, sum.flags) BY <1>1, <1>3, <1>4, SmallFits, RegisterLeft
<1> QED BY <1>3, <1>5 DEF Sums, r

\* ADC and SBC: the carry is counted in.
LEMMA CarryStep ==
  ASSUME Sound, Cpu!SingleStep, pc \in 0 .. 100, NEW op1 \in {0, 1},
         NEW rn \in 0 .. 5, NEW m \in 0 .. 5, NEW d \in 0 .. 5,
         program[pc] = Carrying(op1, 0, rn, m, d)
  PROVE  Writes(d, Total(op1, half(rn), half(m), flags.c) % TwoTo[Cpu!W], flags)
<1> DEFINE i == Cpu!DecodeInstruction(program[pc])
           sum == Cpu!AddWithCarry(half(rn), AddedTo(op1, half(m)), flags.c, Cpu!W)
           r == Total(op1, half(rn), half(m), flags.c)
<1>1. i.operands[1] = Cpu!x(Cpu!W, d) /\ i.set_flags = FALSE /\ Finishes(i, sum)
  <2>1. AddsCarry(program[pc], op1, rn, m, d) /\ program[pc].S = 0 BY DEF AddsCarry, Carrying
  <2>2. i.operands[1] = Cpu!x(Cpu!W, d) /\ Flagging(program[pc], i) /\ Finishes(i, sum)
    BY <2>1, CarryRuns
  <2>3. ~(0 = 1) OBVIOUS
  <2> QED BY <2>1, <2>2, <2>3, Zenon DEF Flagging
<1>2. half(rn) \in 0 .. TwoTo[Cpu!W] - 1 /\ half(m) \in 0 .. TwoTo[Cpu!W] - 1 BY LowWord
<1>3. flags.c \in {0, 1} BY DEF Sound, Flagged, ZeroOne
<1>4. sum.result = r % TwoTo[Cpu!W] BY <1>2, <1>3, TotalIs
<1>5. r \in Int BY <1>2, <1>3, TwoToNat, Widths DEF Total
<1> HIDE DEF i, sum, r
<1>6. Writes(d, sum.result, flags) BY <1>1, <1>4, <1>5, SmallFits, RegisterLeft
<1> QED BY <1>4, <1>6 DEF r

\* A write changes one register and keeps the machine sound.
LEMMA WritesKeep ==
  ASSUME Complete, NEW d \in 0 .. 5, NEW f \in Flagged, NEW v \in 0 .. TwoTo[Cpu!X] - 1,
         Writes(d, v, f)
  PROVE  /\ Complete' /\ registers'[d] = v /\ half(d)' = v % TwoTo[Cpu!W] /\ Keeps(d)
         /\ flags' = f /\ pc' = pc + 4
<1>1. d \in Used /\ 0 .. 5 \subseteq Used BY DEF Used
<1>2. registers' = [registers EXCEPT ![d] = v] /\ flags' = f /\ pc' = pc + 4 BY DEF Writes
<1>3. DOMAIN registers' = DOMAIN registers /\ registers'[d] = v BY <1>1, <1>2 DEF Complete
<1>4. \A r \in Used \ {d} : registers'[r] = registers[r] BY <1>2 DEF Complete
<1>5. Keeps(d) BY <1>4 DEF Keeps, half
<1>6. v \in Cpu!Addresses BY SameNumerals DEF Cpu!Addresses
<1>7. \A r \in 0 .. 5 : registers'[r] \in Cpu!Addresses
  BY <1>1, <1>3, <1>4, <1>6 DEF Complete, Sound
<1>8. Sound' BY <1>2, <1>7 DEF Sound
<1>9. Complete' BY <1>3, <1>8 DEF Complete
<1>10. half(d)' = v % TwoTo[Cpu!W] BY <1>3 DEF half
<1> QED BY <1>2, <1>3, <1>5, <1>9, <1>10

\* What carries from the low digits to the high ones makes the sum of both.
LEMMA TwoDigits ==
  ASSUME NEW t \in Nat \ {0}, NEW low \in 0 .. t - 1, NEW high \in 0 .. t - 1,
         NEW z \in Int, NEW s \in Int, NEW k \in Int, NEW q \in Int,
         NEW w \in Int, w = s + k, Splits(z, t, low, k), Splits(w, t, high, q)
  PROVE  Joined(z, s, t, low, high)
<1> USE DEF Joined
<1>1. z = low + t * k /\ s + k = high + t * q BY DEF Splits
<1>2. PICK tt \in Nat \ {0} : tt = t * t
  <2>1. t * t \in Nat \ {0} OBVIOUS
  <2> QED BY <2>1
<1>3. t * high <= t * (t - 1) /\ t * high >= 0 /\ t * (t - 1) = tt - t BY <1>2
<1>4. low + t * high \in 0 .. tt - 1 BY <1>2, <1>3
<1>5. t * (s + k) = t * s + t * k OBVIOUS
<1>6. t * (high + t * q) = t * high + t * (t * q) OBVIOUS
<1>7. t * (t * q) = tt * q BY <1>2
<1>8. t * (s + k) = t * (high + t * q) BY <1>1
<1> DEFINE ts == t * s
           tk == t * k
           th == t * high
           tq == tt * q
<1>9. ts + tk = th + tq BY <1>5, <1>6, <1>7, <1>8
<1>10. ts \in Int /\ tk \in Int /\ th \in Int /\ tq \in Int BY <1>2
<1>11. z = low + tk BY <1>1
<1> HIDE DEF ts, tk, th, tq
<1>12. z + ts = tq + (low + th) BY <1>9, <1>10, <1>11
<1>13. (z + ts) = tt * q + (low + th) /\ low + th \in 0 .. tt - 1 /\ z + ts \in Int
  BY <1>4, <1>10, <1>12 DEF tq, th
<1>14. (z + ts) % tt = low + th
  <2>1. PICK e \in Int : e = z + ts BY <1>13
  <2>2. PICK r \in 0 .. tt - 1 : r = low + th BY <1>13
  <2>3. e = tt * q + r BY <1>13, <2>1, <2>2
  <2>4. e % tt = r BY <2>3, PartsAre, Zenon
  <2> QED BY <2>1, <2>2, <2>4
<1>15. (z + t * s) % tt = low + t * high BY <1>14, Zenon DEF ts, th
<1> QED BY <1>2, <1>15, Zenon

\* The sums of the low halves and, with the carry, of the high ones make the sum of both.
LEMMA CarriedSum ==
  ASSUME NEW op1 \in {0, 1}, NEW t \in Nat \ {0}, t = TwoTo[Cpu!W],
         NEW u \in 0 .. t - 1, NEW v \in 0 .. t - 1, NEW up \in 0 .. t - 1, NEW vp \in 0 .. t - 1,
         NEW z, z = Total(op1, u, v, op1)
  PROVE  SumsTo(op1, t, z, u, v, up, vp)
<1>1. PICK k \in Int : k = IF op1 = 1 THEN Carry(op1, z) - 1 ELSE Carry(op1, z) BY DEF Carry
<1>2. PICK s \in Int : s = SumOf(op1, up, vp)
  <2>1. SumOf(op1, up, vp) \in Int BY DEF SumOf
  <2> QED BY <2>1
<1>3. z \in Int /\ z = SumOf(op1, u, v) BY DEF Total, SumOf
<1>4. z % t \in 0 .. t - 1 /\ z = (z % t) + t * k
  <2>1. -t <= z /\ z < 2 * t /\ (op1 = 0 => z >= 0) /\ (op1 = 1 => z < t) BY DEF Total
  <2>2. z % t = IF z < 0 THEN z + t ELSE IF z < t THEN z ELSE z - t BY <1>3, <2>1, RemainderNear
  <2>3. CASE k = -1
    <3>1. t * k = -t BY <2>3
    <3>2. op1 = 1 /\ z < 0 BY <1>1, <2>3, <1>3 DEF Carry
    <3> QED BY <1>3, <2>1, <2>2, <3>1, <3>2
  <2>4. CASE k = 0
    <3>1. t * k = 0 BY <2>4
    <3>2. 0 <= z /\ z < t BY <1>1, <2>1, <2>4, <1>3 DEF Carry
    <3> QED BY <1>3, <2>1, <2>2, <3>1, <3>2
  <2>5. CASE k = 1
    <3>1. t * k = t BY <2>5
    <3>2. t <= z BY <1>1, <2>1, <2>5, <1>3 DEF Carry
    <3> QED BY <1>3, <2>1, <2>2, <3>1, <3>2
  <2>6. k \in {-1, 0, 1} BY <1>1 DEF Carry
  <2> QED BY <2>3, <2>4, <2>5, <2>6
<1>5. Total(op1, up, vp, Carry(op1, z)) = s + k
  <2>1. Carry(op1, z) \in {0, 1} BY DEF Carry
  <2> QED BY <1>1, <1>2, <2>1 DEF Total, SumOf
<1>6. s + k \in Int /\ (s + k) % t \in 0 .. t - 1 /\ (s + k) \div t \in Int
      /\ s + k = ((s + k) % t) + t * ((s + k) \div t)
  <2>1. PICK e \in Int : e = s + k OBVIOUS
  <2>2. e % t \in 0 .. t - 1 /\ e \div t \in Int /\ e = (e % t) + t * (e \div t) OBVIOUS
  <2> QED BY <2>1, <2>2
<1>7. (z + t * s) % (t * t) = (z % t) + t * ((s + k) % t)
  <2>1. PICK low \in 0 .. t - 1 : low = z % t BY <1>4
  <2>2. PICK high \in 0 .. t - 1 : high = (s + k) % t BY <1>6
  <2>3. PICK q \in Int : q = (s + k) \div t BY <1>6
  <2>4. z = low + t * k BY <1>4, <2>1, Zenon
  <2>5. s + k = high + t * q BY <1>6, <2>2, <2>3, Zenon
  <2>6. (z + t * s) % (t * t) = low + t * high
    <3>1. PICK e \in Int : e = z BY <1>3
    <3>2. Splits(e, t, low, k) BY <2>4, <3>1, Zenon DEF Splits
    <3>3. PICK w \in Int : w = s + k OBVIOUS
    <3>4. Splits(w, t, high, q) BY <2>5, <3>3, Zenon DEF Splits
    <3>5. Joined(e, s, t, low, high) BY <3>2, <3>4, <3>3, TwoDigits
    <3> QED BY <3>1, <3>5, Zenon DEF Joined
  <2> QED BY <2>1, <2>2, <2>6, Zenon
<1>8. SumOf(op1, u + t * up, v + t * vp) = z + t * s
  <2>1. t * (up - vp) = t * up - t * vp /\ t * (up + vp) = t * up + t * vp OBVIOUS
  <2>2. t * s = IF op1 = 1 THEN t * (up - vp) ELSE t * (up + vp) BY <1>2 DEF SumOf
  <2> DEFINE a1 == t * up
             b1 == t * vp
             c1 == t * s
  <2>3. c1 = IF op1 = 1 THEN a1 - b1 ELSE a1 + b1 BY <2>1, <2>2
  <2>4. a1 \in Int /\ b1 \in Int OBVIOUS
  <2> SUFFICES SumOf(op1, u + a1, v + b1) = z + c1 OBVIOUS
  <2> HIDE DEF a1, b1, c1
  <2> QED BY <1>3, <2>3, <2>4 DEF SumOf
<1>9. TwoTo[Cpu!X] = t * t
  <2>1. TwoTo[Cpu!W + Cpu!W] = TwoTo[Cpu!W] * TwoTo[Cpu!W] BY Widths, TwoToSum, Zenon
  <2> QED BY <2>1, Widths, Zenon
<1> QED BY <1>5, <1>7, <1>8, <1>9, Zenon DEF SumsTo

\* A number of half a register is its own low half.
LEMMA WordFits ==
  ASSUME NEW v \in 0 .. TwoTo[Cpu!W] - 1
  PROVE  v % TwoTo[Cpu!W] = v
<1>1. PICK t \in Nat \ {0} : t = TwoTo[Cpu!W] BY Widths, TwoToNat
<1>2. 0 \in Int /\ v \in 0 .. t - 1 /\ v = t * 0 + v /\ v \in Int BY <1>1
<1>3. v % t = v BY <1>1, <1>2, PartsAre, Zenon
<1> QED BY <1>1, <1>3

\* Sums are integers and carries are bits.
LEMMA TotalWhole ==
  ASSUME NEW op1 \in {0, 1}, NEW u \in 0 .. TwoTo[Cpu!W] - 1, NEW v \in 0 .. TwoTo[Cpu!W] - 1,
         NEW c \in {0, 1}
  PROVE  Total(op1, u, v, c) \in Int /\ Carry(op1, Total(op1, u, v, c)) \in {0, 1}
<1>1. TwoTo[Cpu!W] \in Nat BY Widths, TwoToNat
<1> QED BY <1>1 DEF Total, Carry

\* Steps of ADDS, ADC and of SUBS, SBC.
LEMMA SummingStep == ASSUME Summing, Cpu!SingleStep PROVE Summing'
<1> SUFFICES ASSUME NEW op1 \in {0, 1}, program' = Sequence(WideSum(op1))
             PROVE  Complete' /\ AtSum(op1)'
  BY DEF Summing
<1>1. program = Sequence(WideSum(op1)) /\ pc \in DOMAIN program BY ProgramStays
<1>2. Complete /\ AtSum(op1) BY <1>1 DEF Summing
<1>3. /\ DOMAIN program = {0, 4} /\ program[0] = AddOf(op1, 0, 2, 4)
      /\ program[4] = Carrying(op1, 0, 1, 3, 5)
  BY <1>1, TwoInstructions DEF WideSum
<1>4. {0, 1, 2, 3, 4, 5} \subseteq Used BY DEF Used
<1>5. /\ half(0) \in 0 .. TwoTo[Cpu!W] - 1 /\ half(1) \in 0 .. TwoTo[Cpu!W] - 1
      /\ half(2) \in 0 .. TwoTo[Cpu!W] - 1 /\ half(3) \in 0 .. TwoTo[Cpu!W] - 1
      /\ half(4) \in 0 .. TwoTo[Cpu!W] - 1
  BY <1>2, LowWord DEF Complete
<1> DEFINE z == LowSum(op1)
           v == z % TwoTo[Cpu!W]
<1>6. z \in Int /\ Carry(op1, z) \in {0, 1} BY <1>5, TotalWhole DEF LowSum
<1>7. CASE pc = 0
  <2>1. Sums(op1, half(0), half(2), op1, 4) BY <1>2, <1>3, <1>7, AddStep DEF Complete
  <2>2. PICK f \in Flagged : Writes(4, v, f) /\ f.c = Carry(op1, z)
    BY <2>1 DEF Sums, LowSum
  <2>3. v \in 0 .. TwoTo[Cpu!X] - 1 /\ v \in 0 .. TwoTo[Cpu!W] - 1 BY <1>6, SmallFits
  <2>4. v % TwoTo[Cpu!W] = v BY <2>3, WordFits
  <2> HIDE DEF v
  <2>5. /\ Complete' /\ half(4)' = v % TwoTo[Cpu!W] /\ Keeps(4) /\ flags' = f /\ pc' = pc + 4
    BY <1>2, <2>2, <2>3, WritesKeep
  <2>6. half(0)' = half(0) /\ half(2)' = half(2) BY <2>5, <1>4 DEF Keeps
  <2>7. LowSum(op1)' = z BY <2>6 DEF LowSum
  <2>8. pc' = 4 BY <1>7, <2>5
  <2>9. half(4)' = v BY <2>4, <2>5
  <2>10. flags'.c = Carry(op1, z) BY <2>2, <2>5
  <2>11. (flags.c = Carry(op1, LowSum(op1)))' BY <2>7, <2>10 DEF Carry
  <2>12. (half(4) = LowSum(op1) % TwoTo[Cpu!W])' BY <2>7, <2>9 DEF v
  <2> QED BY <2>5, <2>8, <2>11, <2>12 DEF AtSum
<1>8. CASE pc = 4
  <2>1. half(4) = v /\ flags.c = Carry(op1, z) BY <1>2, <1>8 DEF AtSum
  <2> DEFINE y1 == Total(op1, half(1), half(3), flags.c)
             w == y1 % TwoTo[Cpu!W]
  <2>2. y1 \in Int BY <1>5, <1>6, <2>1, TotalWhole
  <2>3. w \in 0 .. TwoTo[Cpu!X] - 1 /\ w \in 0 .. TwoTo[Cpu!W] - 1 BY <2>2, SmallFits
  <2>4. Writes(5, w, flags) BY <1>2, <1>3, <1>8, CarryStep DEF Complete
  <2>5. w % TwoTo[Cpu!W] = w BY <2>3, WordFits
  <2>6. flags \in Flagged BY <1>2 DEF Complete, Sound
  <2>7. w = Total(op1, half(1), half(3), Carry(op1, z)) % TwoTo[Cpu!W] BY <2>1
  <2> HIDE DEF w, y1, v, z
  <2>8. /\ Complete' /\ half(5)' = w % TwoTo[Cpu!W] /\ Keeps(5) /\ pc' = pc + 4
    BY <1>2, <2>3, <2>4, <2>6, WritesKeep
  <2>9. /\ half(0)' = half(0) /\ half(2)' = half(2) /\ half(1)' = half(1) /\ half(3)' = half(3)
        /\ half(4)' = half(4) /\ half(5)' = w
    BY <2>5, <2>8, <1>4 DEF Keeps
  <2>10. Wide(4, 5)' = v + TwoTo[Cpu!W] * w BY <2>1, <2>9 DEF Wide
  <2>11. Wide(0, 1)' = half(0) + TwoTo[Cpu!W] * half(1)
         /\ Wide(2, 3)' = half(2) + TwoTo[Cpu!W] * half(3) BY <2>9, Zenon DEF Wide
  <2>12. v + TwoTo[Cpu!W] * w
         = SumOf(op1, half(0) + TwoTo[Cpu!W] * half(1), half(2) + TwoTo[Cpu!W] * half(3))
           % TwoTo[Cpu!X]
    <3>1. PICK t \in Nat \ {0} : t = TwoTo[Cpu!W] BY Widths, TwoToNat
    <3>2. PICK u0 \in 0 .. t - 1 : u0 = half(0) BY <1>5, <3>1
    <3>3. PICK u1 \in 0 .. t - 1 : u1 = half(1) BY <1>5, <3>1
    <3>4. PICK v0 \in 0 .. t - 1 : v0 = half(2) BY <1>5, <3>1
    <3>5. PICK v1 \in 0 .. t - 1 : v1 = half(3) BY <1>5, <3>1
    <3>6. z = Total(op1, u0, v0, op1) BY <3>2, <3>4 DEF z, LowSum
    <3>7. SumsTo(op1, t, z, u0, v0, u1, v1) BY <3>1, <3>6, CarriedSum
    <3>8. (z % t) + t * (Total(op1, u1, v1, Carry(op1, z)) % t)
         = SumOf(op1, u0 + t * u1, v0 + t * v1) % TwoTo[Cpu!X]
      BY <3>7, Zenon DEF SumsTo
    <3>9. v = z % t /\ w = Total(op1, u1, v1, Carry(op1, z)) % t
      BY <2>7, <3>1, <3>3, <3>5 DEF v
    <3>10. v + t * w = (z % t) + t * (Total(op1, u1, v1, Carry(op1, z)) % t) BY <3>9, Zenon
    <3>11. v + t * w = SumOf(op1, u0 + t * u1, v0 + t * v1) % TwoTo[Cpu!X]
      BY <3>8, <3>10, Zenon
    <3> QED BY <3>1, <3>2, <3>3, <3>4, <3>5, <3>11, Zenon
  <2>13. SumLeft(op1)'
    BY <2>10, <2>11, <2>12, Zenon DEF SumLeft, SumOf
  <2>14. pc' = 8 BY <1>8, <2>8
  <2> QED BY <2>8, <2>13, <2>14 DEF AtSum
<1> QED BY <1>1, <1>3, <1>7, <1>8

-----------------------------------------------------------------------------
(* Products.                                                                *)

\* A bit of the multiplier, and the bits above it.
LEMMA NextBit ==
  ASSUME NEW v \in Nat, NEW k \in Nat
  PROVE  /\ Cpu!Bit(v, k) \in {0, 1}
         /\ v \div TwoTo[k] \in Nat /\ v \div TwoTo[k + 1] \in Nat
         /\ v \div TwoTo[k] = 2 * (v \div TwoTo[k + 1]) + Cpu!Bit(v, k)
<1>1. PICK s \in Nat \ {0} : s = TwoTo[k] BY TwoToIs
<1>2. PICK w \in Nat : w = v \div s
  <2>1. v \div s \in Nat BY <1>1
  <2> QED BY <2>1
<1>3. TwoTo[k + 1] = s * 2
  <2>1. TwoTo[k + 1] = 2 * TwoTo[k] BY TwoToIs
  <2> QED BY <1>1, <2>1
<1>4. v \div (s * 2) = w \div 2
  <2>1. PICK two \in Nat \ {0} : two = 2 OBVIOUS
  <2>2. PICK e \in Int : e = v OBVIOUS
  <2>3. e \div (s * two) = (e \div s) \div two BY PartsTwice, Zenon
  <2> QED BY <1>2, <2>1, <2>2, <2>3, Zenon
<1>5. v \div TwoTo[k + 1] = w \div 2 BY <1>3, <1>4, Zenon
<1>6. Cpu!Bit(v, k) = w % 2 BY <1>1, <1>2, SameNumerals DEF Cpu!Bit
<1>7. v \div TwoTo[k] = w BY <1>1, <1>2
<1>8. w = 2 * (w \div 2) + (w % 2) /\ w % 2 \in {0, 1} /\ w \div 2 \in Nat OBVIOUS
<1> QED BY <1>5, <1>6, <1>7, <1>8

\* Twice a remainder instead of twice the number, before the remainder is taken again.
LEMMA DoubledRemainder ==
  ASSUME NEW t \in Nat \ {0}, NEW y1 \in Int, NEW z \in Int
  PROVE  (z + 2 * (y1 % t)) % t = (z + 2 * y1) % t
<1>1. PICK q \in Int : q = y1 \div t BY Parts
<1>2. PICK r \in Int : r = y1 % t BY Parts
<1>3. y1 = t * q + r BY <1>1, <1>2, Parts
<1>4. PICK e \in Int : e = z + 2 * r OBVIOUS
<1>5. PICK p \in Int : p = e \div t BY Parts
<1>6. PICK s \in 0 .. t - 1 : s = e % t BY Parts
<1>7. e = t * p + s BY <1>5, <1>6, Parts
<1>8. PICK w \in Int : w = z + 2 * y1 OBVIOUS
<1>9. PICK g \in Int : g = 2 * q + p OBVIOUS
<1>10. w = t * g + s
  <2>1. t * (2 * q + p) = 2 * (t * q) + t * p OBVIOUS
  <2>2. t * g = 2 * (t * q) + t * p BY <1>9, <2>1
  <2> DEFINE tq == t * q
             tp == t * p
             tg == t * g
  <2>3. tg = 2 * tq + tp /\ y1 = tq + r /\ e = tp + s BY <1>3, <1>7, <2>2
  <2>4. tq \in Int /\ tp \in Int /\ tg \in Int OBVIOUS
  <2> SUFFICES w = tg + s OBVIOUS
  <2> HIDE DEF tq, tp, tg
  <2> QED BY <2>3, <2>4, <1>4, <1>8
<1>11. w % t = s BY <1>10, PartsAre, Zenon
<1> QED BY <1>2, <1>4, <1>6, <1>8, <1>11

\* The product of a number by the bits from k on.
LEMMA BitsTimes ==
  ASSUME NEW t \in Nat \ {0}, NEW u \in Nat, NEW v \in Nat, NEW k \in Nat
  PROVE  (u * (v \div TwoTo[k])) % t
         = (Cpu!Bit(v, k) * u + 2 * ((u * (v \div TwoTo[k + 1])) % t)) % t
<1>1. PICK e \in Nat : e = v \div TwoTo[k + 1] BY NextBit
<1>2. PICK c \in {0, 1} : c = Cpu!Bit(v, k) BY NextBit
<1>3. v \div TwoTo[k] = 2 * e + c BY <1>1, <1>2, NextBit
<1>4. u * (2 * e + c) = c * u + 2 * (u * e) OBVIOUS
<1>5. PICK y1 \in Int : y1 = u * e OBVIOUS
<1>6. PICK z \in Int : z = c * u OBVIOUS
<1>7. (z + 2 * (y1 % t)) % t = (z + 2 * y1) % t BY DoubledRemainder
<1>8. u * (v \div TwoTo[k]) = z + 2 * y1 BY <1>3, <1>4, <1>5, <1>6
<1> QED BY <1>1, <1>2, <1>5, <1>6, <1>7, <1>8

\* Mul is multiplication, for every width.
LEMMA MulIs ==
  ASSUME NEW len \in Nat, NEW u \in Nat, NEW v \in Nat, v < TwoTo[len]
  PROVE  Cpu!Mul(u, v, len) = (u * v) % TwoTo[len]
<1> DEFINE from[k \in 0 .. len] ==
             IF k = len THEN 0 ELSE (Cpu!Bit(v, k) * u + 2 * from[k + 1]) % Cpu!TwoTo[len]
           t == TwoTo[len]
           Next1(k, z) == (Cpu!Bit(v, k) * u + 2 * z) % t
           g == [k \in 0 .. len |-> (u * (v \div TwoTo[k])) % t]
<1>1. Cpu!Mul(u, v, len) = from[0] BY Zenon DEF Cpu!Mul
<1>2. t \in Nat \ {0} BY TwoToNat
<1>3. g[len] = 0
  <2>1. len \in 0 .. len OBVIOUS
  <2>2. 0 \in Int /\ v = t * 0 + v /\ v \in 0 .. t - 1 /\ v \in Int BY <1>2
  <2> HIDE DEF t
  <2>3. v \div t = 0 BY <1>2, <2>2, PartsAre, Zenon
  <2>4. (u * 0) % t = 0 BY <1>2
  <2> QED BY <2>1, <2>3, <2>4 DEF t
<1>4. ASSUME NEW k \in 0 .. len - 1 PROVE g[k] = Next1(k, g[k + 1])
  <2>1. k \in Nat /\ k \in 0 .. len /\ k + 1 \in 0 .. len OBVIOUS
  <2> HIDE DEF t
  <2>2. g[k] = (u * (v \div TwoTo[k])) % t /\ g[k + 1] = (u * (v \div TwoTo[k + 1])) % t
    BY <2>1
  <2>3. (u * (v \div TwoTo[k])) % t
        = (Cpu!Bit(v, k) * u + 2 * ((u * (v \div TwoTo[k + 1])) % t)) % t
    BY <1>2, <2>1, BitsTimes
  <2> QED BY <2>2, <2>3, Zenon
<1> HIDE DEF Next1, g, t
<1>5. g = [k \in 0 .. len |-> IF k = len THEN 0 ELSE Next1(k, g[k + 1])]
  <2>1. ASSUME NEW k \in 0 .. len PROVE g[k] = IF k = len THEN 0 ELSE Next1(k, g[k + 1])
    <3>1. k # len => k \in 0 .. len - 1 OBVIOUS
    <3> QED BY <1>3, <1>4, <3>1
  <2>2. g = [k \in 0 .. len |-> g[k]] BY DEF g
  <2> HIDE DEF g
  <2> QED BY <2>1, <2>2
<1>6. \A k, z : Next1(k, z) = (Cpu!Bit(v, k) * u + 2 * z) % Cpu!TwoTo[len]
  BY SameNumerals DEF Next1, t
<1>7. from = [k \in 0 .. len |-> IF k = len THEN 0 ELSE Next1(k, from[k + 1])]
  <2>1. g = [k \in 0 .. len |->
               IF k = len THEN 0 ELSE (Cpu!Bit(v, k) * u + 2 * g[k + 1]) % Cpu!TwoTo[len]]
    BY <1>5, <1>6, Zenon
  <2>2. from = [k \in 0 .. len |->
               IF k = len THEN 0 ELSE (Cpu!Bit(v, k) * u + 2 * from[k + 1]) % Cpu!TwoTo[len]]
    BY <2>1
  <2> HIDE DEF from
  <2> QED BY <2>2, <1>6, Zenon
<1> HIDE DEF from
<1> DEFINE S == {k \in 0 .. len : from[k] = g[k]}
<1>8. len \in S
  <2>1. len \in 0 .. len OBVIOUS
  <2>2. from[len] = 0 BY <1>7, <2>1
  <2> QED BY <1>3, <2>1, <2>2
<1>9. \A k \in 0 .. len - 1 : k + 1 \in S => k \in S
  <2> TAKE k \in 0 .. len - 1
  <2>1. k # len /\ k \in 0 .. len OBVIOUS
  <2>2. from[k] = Next1(k, from[k + 1]) BY <1>7, <2>1
  <2> QED BY <1>4, <2>1, <2>2
<1>10. 0 \in S
  <2> HIDE DEF S
  <2>1. \A k \in 0 .. len : k \in S BY <1>8, <1>9, DownFrom
  <2> QED BY <2>1
<1>11. g[0] = (u * v) % t
  <2>1. v \div 1 = v /\ TwoTo[0] = 1 /\ 0 \in 0 .. len BY TwoToIs
  <2> QED BY <2>1 DEF g
<1> QED BY <1>1, <1>10, <1>11 DEF t

\* What MADD, MSUB and UMULH are decoded to.
LEMMA MultipliedDecoded ==
  ASSUME NEW w, NEW i, i = Cpu!DecodeInstruction(w), NEW opcode,
         w.class = "DataProcessingThreeSource", w.op54 = 0,
         Multiplies(opcode, w.op31 * 2 + w.o0, w.sf)
  PROVE  MultipliedAs(i, w, opcode)
<1> DEFINE sz == Cpu!Size(w.sf)
           kind == w.op31 * 2 + w.o0
<1>1. Cpu!DecodeInstruction(w) = Cpu!DecodeDataProcessingThreeSource(w)
  BY Zenon DEF Cpu!DecodeInstruction
<1>2. kind \notin {2, 3, 10, 11} BY DEF Multiplies
<1> DEFINE o == CASE kind \in 0 .. 3 -> <<"kMadd", "kMsub", "kSmaddl", "kSmsubl">>[kind + 1]
                  [] kind \in {4, 5} /\ w.sf = 1   -> "kSmulh"
                  [] kind \in {10, 11}             -> <<"kUmaddl", "kUmsubl">>[kind - 9]
                  [] kind \in {12, 13} /\ w.sf = 1 -> "kUmulh"
                  [] OTHER                         -> "kUnallocated"
           z == <<Cpu!x(sz, w.d), Cpu!x(sz, w.n), Cpu!x(sz, w.m), Cpu!x(sz, w.a)>>
<1>3. o = opcode /\ opcode # "kUnallocated" BY DEF Multiplies
<1>4. Cpu!DecodeDataProcessingThreeSource(w) = Cpu!insn(o, FALSE, z)
  <2>1. ~(w.op54 # 0 \/ o = "kUnallocated") BY <1>3
  <2> QED BY <2>1, <1>2, Zenon DEF Cpu!DecodeDataProcessingThreeSource
<1>5. /\ z[1] = Cpu!x(sz, w.d) /\ z[2] = Cpu!x(sz, w.n)
      /\ z[3] = Cpu!x(sz, w.m) /\ z[4] = Cpu!x(sz, w.a)
  OBVIOUS
<1> HIDE DEF z, o
<1>6. i.opcode = o /\ i.set_flags = FALSE /\ i.operands = z BY <1>1, <1>4 DEF Cpu!insn
<1> QED BY <1>3, <1>5, <1>6 DEF MultipliedAs

\* What a whole register has; 31 has nothing.
LEMMA WholeIs ==
  ASSUME Complete, NEW i, NEW k \in 0 .. 3, NEW r \in 0 .. 5,
         i.operands[k + 1] = Cpu!x(Cpu!X, r)
  PROVE  Cpu!Get(Cpu!Machine, i, k) = registers[r] /\ Cpu!SizeOf(i, k) = Cpu!X
<1>1. Cpu!Op(i, k) = Cpu!Register(Cpu!X, r) BY DEF Cpu!Op, Cpu!x
<1> DEFINE o == Cpu!Register(Cpu!X, r)
<1>2. o.kind = "Register" /\ o.size = Cpu!X /\ o.name = r BY DEF Cpu!Register
<1>3. Cpu!RegisterValue(Cpu!Machine, r) = registers[r]
  BY DEF Cpu!RegisterValue, Cpu!Machine, Cpu!kXzr, Cpu!kPc
<1> HIDE DEF o
<1>4. Cpu!GetOperand(Cpu!Machine, o) = registers[r] % Cpu!TwoTo[Cpu!X]
  BY <1>2, <1>3, Zenon DEF Cpu!GetOperand
<1>5. registers[r] % Cpu!TwoTo[Cpu!X] = registers[r]
  <2>1. PICK t \in Nat \ {0} : t = TwoTo[Cpu!X] BY Widths, TwoToNat
  <2>2. PICK v \in 0 .. t - 1 : v = registers[r]
    BY <2>1, SameNumerals DEF Complete, Sound, Cpu!Addresses
  <2>3. 0 \in Int /\ v = t * 0 + v /\ v \in Int BY <2>1
  <2>4. v % t = v BY <2>3, PartsAre, Zenon
  <2> QED BY <2>1, <2>2, <2>4, SameNumerals
<1> QED BY <1>1, <1>2, <1>4, <1>5 DEF Cpu!Get, Cpu!SizeOf, o

\* Register 31 reads as 0.
LEMMA NothingIs ==
  ASSUME NEW i, NEW k \in 0 .. 3, i.operands[k + 1] = Cpu!x(Cpu!X, 31)
  PROVE  Cpu!Get(Cpu!Machine, i, k) = 0
<1>1. Cpu!Op(i, k) = Cpu!Register(Cpu!X, 31) BY DEF Cpu!Op, Cpu!x
<1> DEFINE o == Cpu!Register(Cpu!X, 31)
<1>2. o.kind = "Register" /\ o.size = Cpu!X /\ o.name = 31 BY DEF Cpu!Register
<1>3. Cpu!RegisterValue(Cpu!Machine, 31) = 0 BY DEF Cpu!RegisterValue, Cpu!kXzr
<1> HIDE DEF o
<1>4. Cpu!GetOperand(Cpu!Machine, o) = 0 % Cpu!TwoTo[Cpu!X]
  BY <1>2, <1>3, Zenon DEF Cpu!GetOperand
<1>5. 0 % Cpu!TwoTo[Cpu!X] = 0
  <2>1. PICK t \in Nat \ {0} : t = TwoTo[Cpu!X] BY Widths, TwoToNat
  <2>2. 0 % t = 0 OBVIOUS
  <2> QED BY <2>1, <2>2, SameNumerals
<1> QED BY <1>1, <1>4, <1>5 DEF Cpu!Get, o

\* A product of two numbers of so many bits has twice as many.
LEMMA ProductFits ==
  ASSUME NEW len \in Nat, NEW t \in Nat \ {0}, IsPower(t, len),
         NEW u \in 0 .. t - 1, NEW v \in 0 .. t - 1
  PROVE  HasHalves(u, v, t, len)
<1>1. t = TwoTo[len] BY DEF IsPower
<1>2. TwoTo[2 * len] = t * t /\ 2 * len \in Nat
  <2>1. TwoTo[len + len] = t * t BY <1>1, TwoToSum, Zenon
  <2>2. 2 * len = len + len /\ 2 * len \in Nat OBVIOUS
  <2> QED BY <2>1, <2>2, Zenon
<1>3. PICK tt \in Nat \ {0} : tt = t * t
  <2>1. t * t \in Nat \ {0} OBVIOUS
  <2> QED BY <2>1
<1>4. PICK p \in Nat : p = u * v
  <2>1. u * v \in Nat OBVIOUS
  <2> QED BY <2>1
<1>5. v < t /\ t <= tt /\ p < tt
  <2>1. u * v <= (t - 1) * v OBVIOUS
  <2>2. (t - 1) * v <= (t - 1) * t OBVIOUS
  <2>3. (t - 1) * t = tt - t BY <1>3
  <2>4. t <= tt
    <3>1. t * 1 <= t * t OBVIOUS
    <3> QED BY <3>1, <1>3
  <2> QED BY <2>1, <2>2, <2>3, <2>4, <1>4
<1>6. v < TwoTo[2 * len] /\ u \in Nat /\ v \in Nat BY <1>2, <1>3, <1>5
<1>7. Cpu!Mul(u, v, 2 * len) = (u * v) % TwoTo[2 * len]
  <2>1. PICK double \in Nat : double = 2 * len BY <1>2
  <2>2. PICK p1 \in Nat : p1 = u BY <1>6
  <2>3. PICK p2 \in Nat : p2 = v BY <1>6
  <2>4. p2 < TwoTo[double] BY <1>6, <2>1, <2>3, Zenon
  <2>5. Cpu!Mul(p1, p2, double) = (p1 * p2) % TwoTo[double] BY <2>4, MulIs, Zenon
  <2> QED BY <2>1, <2>2, <2>3, <2>5, Zenon
<1>8. p % tt = p
  <2>1. 0 \in Int /\ p = tt * 0 + p /\ p \in Int /\ p \in 0 .. tt - 1 BY <1>5
  <2> QED BY <2>1, PartsAre, Zenon
<1>9. Cpu!Mul(u, v, 2 * len) = p BY <1>2, <1>3, <1>4, <1>7, <1>8, Zenon
<1>10. p % t \in 0 .. t - 1 /\ p \div t \in Int /\ p = t * (p \div t) + (p % t)
  <2>1. PICK e \in Int : e = p OBVIOUS
  <2>2. e % t \in 0 .. t - 1 /\ e \div t \in Int /\ e = t * (e \div t) + (e % t) BY Parts, Zenon
  <2> QED BY <2>1, <2>2, Zenon
<1>11. p \div t \in 0 .. t - 1
  <2>1. PICK q \in Int : q = p \div t BY <1>10
  <2>2. PICK r \in 0 .. t - 1 : r = p % t BY <1>10
  <2>3. p = t * q + r BY <1>10, <2>1, <2>2
  <2>4. q >= 0
    <3>1. SUFFICES ASSUME q <= -1 PROVE FALSE OBVIOUS
    <3>2. t * q <= t * (-1) BY <3>1
    <3> QED BY <2>3, <3>2
  <2>5. q <= t - 1
    <3>1. SUFFICES ASSUME q >= t PROVE FALSE OBVIOUS
    <3>2. t * q >= t * t BY <3>1
    <3> QED BY <2>3, <3>2, <1>3, <1>5
  <2> QED BY <2>1, <2>4, <2>5
<1> QED BY <1>4, <1>9, <1>10, <1>11 DEF HasHalves

\* The registers of the sequences have numbers of a register.
LEMMA Whole ==
  ASSUME Complete, NEW r \in 0 .. 5
  PROVE  registers[r] \in 0 .. TwoTo[Cpu!X] - 1
BY SameNumerals DEF Complete, Sound, Cpu!Addresses

\* MUL and UMULH.
LEMMA ProductStep ==
  ASSUME Complete, Cpu!SingleStep, pc \in 0 .. 100, NEW high \in {0, 1}, NEW d \in 0 .. 5,
         program[pc] = Multiplying(high, d)
  PROVE  Writes(d, ProductPart(high, registers[0], registers[1]), flags)
<1> DEFINE word == Multiplying(high, d)
           i == Cpu!DecodeInstruction(word)
           o == IF high = 1 THEN "kUmulh" ELSE "kMadd"
           kind == IF high = 1 THEN 12 ELSE 0
<1>1. /\ word.class = "DataProcessingThreeSource" /\ word.op54 = 0 /\ word.sf = 1 /\ word.o0 = 0
      /\ word.op31 = IF high = 1 THEN 6 ELSE 0
      /\ word.n = 0 /\ word.m = 1 /\ word.a = 31 /\ word.d = d
  BY DEF Multiplying, Multiplied
<1>2. Cpu!Translate(Cpu!Machine, i) BY Stepping
<1> HIDE DEF word
<1>3. kind = word.op31 * 2 + word.o0 /\ Multiplies(o, kind, word.sf) /\ Cpu!X = Cpu!Size(word.sf)
  BY <1>1 DEF Multiplies, Cpu!Size
<1> HIDE DEF o, kind
<1>4. /\ i.opcode = o /\ i.set_flags = FALSE
      /\ i.operands[1] = Cpu!x(Cpu!X, d) /\ i.operands[2] = Cpu!x(Cpu!X, 0)
      /\ i.operands[3] = Cpu!x(Cpu!X, 1) /\ i.operands[4] = Cpu!x(Cpu!X, 31)
  <2> HIDE DEF i
  <2>1. i = Cpu!DecodeInstruction(word) BY DEF i
  <2>2. Multiplies(o, word.op31 * 2 + word.o0, word.sf) BY <1>3, Zenon
  <2>3. MultipliedAs(i, word, o) BY <1>1, <2>1, <2>2, MultipliedDecoded, Zenon
  <2> QED BY <1>1, <1>3, <2>3 DEF MultipliedAs
<1> HIDE DEF i
<1>5. i.opcode \in {"kMadd", "kMsub", "kUmulh"} BY <1>4 DEF o
<1>6. Cpu!DataProcessingThreeSource(Cpu!Machine, i) BY <1>2, <1>5, Translates
<1>7. /\ Cpu!Get(Cpu!Machine, i, 1) = registers[0] /\ Cpu!Get(Cpu!Machine, i, 2) = registers[1]
      /\ Cpu!Get(Cpu!Machine, i, 3) = 0
      /\ Cpu!SizeOf(i, 1) = Cpu!X
  BY <1>4, WholeIs, NothingIs
<1>8. Cpu!SizeOf(i, 0) = Cpu!X
  <2>1. 0 + 1 = 1 OBVIOUS
  <2> QED BY <1>4, <2>1, WholeIs
<1>9. PICK t \in Nat \ {0} : t = TwoTo[Cpu!X] BY Widths, TwoToNat
<1>10. PICK u \in 0 .. t - 1 : u = registers[0] BY <1>9, Whole
<1>11. PICK v \in 0 .. t - 1 : v = registers[1] BY <1>9, Whole
<1> DEFINE p == Cpu!Mul(u, v, 2 * Cpu!X)
           w == ProductPart(high, u, v)
<1>12. /\ p = u * v /\ p \in Nat /\ p % t \in 0 .. t - 1 /\ p \div t \in 0 .. t - 1
  <2>1. PICK len \in Nat : len = Cpu!X BY Widths
  <2>2. IsPower(t, len) BY <1>9, <2>1 DEF IsPower
  <2>3. HasHalves(u, v, t, len) BY <2>2, ProductFits
  <2>4. /\ Cpu!Mul(u, v, 2 * len) = u * v /\ u * v \in Nat
        /\ (u * v) % t \in 0 .. t - 1 /\ (u * v) \div t \in 0 .. t - 1
    BY <2>3, Zenon DEF HasHalves
  <2>5. p = u * v BY <2>1, <2>4, Zenon
  <2> HIDE DEF p
  <2> QED BY <2>4, <2>5, Zenon
<1>13. w = (IF high = 1 THEN p \div t ELSE p % t) /\ w \in 0 .. t - 1
  BY <1>9, <1>12 DEF ProductPart
<1> HIDE DEF p, w
<1>14. w % t = w
  <2>1. PICK r \in 0 .. t - 1 : r = w BY <1>13
  <2>2. 0 \in Int /\ r = t * 0 + r /\ r \in Int OBVIOUS
  <2>3. r % t = r BY <2>2, PartsAre, Zenon
  <2> QED BY <2>1, <2>3
<1>15. Cpu!Proceed(Cpu!Set(Cpu!Machine, i, 0, w))
  <2>1. CASE high = 1
    <3>1. i.opcode = "kUmulh" BY <1>4, <2>1 DEF o
    <3>2. Cpu!Proceed(Cpu!Set(Cpu!Machine, i, 0, Cpu!Lshr(p, Cpu!X) % Cpu!TwoTo[Cpu!X]))
      BY <3>1, <1>6, <1>7, <1>8, <1>10, <1>11, Zenon DEF Cpu!DataProcessingThreeSource, p
    <3>3. Cpu!Lshr(p, Cpu!X) % Cpu!TwoTo[Cpu!X] = w
      BY <1>9, <1>13, <1>14, <2>1, SameNumerals DEF Cpu!Lshr
    <3> QED BY <3>2, <3>3, Zenon
  <2>2. CASE high = 0
    <3>1. i.opcode = "kMadd" BY <1>4, <2>2 DEF o
    <3>2. Cpu!Proceed(Cpu!Set(Cpu!Machine, i, 0, (0 + p) % Cpu!TwoTo[Cpu!X]))
      BY <3>1, <1>6, <1>7, <1>8, <1>10, <1>11, Zenon DEF Cpu!DataProcessingThreeSource, p
    <3>3. (0 + p) % Cpu!TwoTo[Cpu!X] = w BY <1>9, <1>12, <1>13, <2>2, SameNumerals
    <3> QED BY <3>2, <3>3, Zenon
  <2> QED BY <2>1, <2>2
<1>16. Cpu!Machine = [x |-> registers, f |-> flags, mem |-> memory] BY DEF Cpu!Machine
<1>17. w \in 0 .. TwoTo[Cpu!X] - 1 BY <1>9, <1>13
<1>18. Writes(d, w, flags) BY <1>4, <1>15, <1>16, <1>17, WrittenIs
<1> QED BY <1>10, <1>11, <1>18 DEF w

\* Both instructions leave the product in two registers.
LEMMA ProducingStep == ASSUME Producing, Cpu!SingleStep PROVE Producing'
<1> SUFFICES ASSUME program' = Sequence(WideProduct)
             PROVE  Complete' /\ (pc = 0 \/ (pc = 4 /\ LowLeft) \/ (pc = 8 /\ ProductLeft))'
  BY DEF Producing
<1>1. program = Sequence(WideProduct) /\ pc \in DOMAIN program BY ProgramStays
<1>2. Complete /\ (pc = 0 \/ (pc = 4 /\ LowLeft) \/ (pc = 8 /\ ProductLeft))
  BY <1>1 DEF Producing
<1>3. /\ DOMAIN program = {0, 4} /\ program[0] = Multiplying(0, 4)
      /\ program[4] = Multiplying(1, 5)
  BY <1>1, TwoInstructions DEF WideProduct, Multiplying
<1>4. {0, 1, 2, 3, 4, 5} \subseteq Used BY DEF Used
<1>5. PICK t \in Nat \ {0} : t = TwoTo[Cpu!X] BY Widths, TwoToNat
<1>6. PICK u \in 0 .. t - 1 : u = registers[0] BY <1>2, <1>5, Whole
<1>7. PICK v \in 0 .. t - 1 : v = registers[1] BY <1>2, <1>5, Whole
<1>8. /\ (u * v) % t \in 0 .. t - 1 /\ (u * v) \div t \in 0 .. t - 1
      /\ u * v = t * ((u * v) \div t) + ((u * v) % t)
  <2>1. PICK len \in Nat : len = Cpu!X BY Widths
  <2>2. IsPower(t, len) BY <1>5, <2>1 DEF IsPower
  <2>3. HasHalves(u, v, t, len) BY <2>2, ProductFits
  <2> QED BY <2>3, Zenon DEF HasHalves
<1>9. flags \in Flagged BY <1>2 DEF Complete, Sound
<1>10. CASE pc = 0
  <2> DEFINE w == ProductPart(0, u, v)
  <2>1. w \in 0 .. TwoTo[Cpu!X] - 1 BY <1>5, <1>8 DEF ProductPart
  <2>2. Writes(4, w, flags) BY <1>2, <1>3, <1>6, <1>7, <1>10, ProductStep
  <2>3. w = ProductPart(0, registers[0], registers[1]) BY <1>6, <1>7
  <2> HIDE DEF w
  <2>4. Complete' /\ registers'[4] = w /\ Keeps(4) /\ pc' = pc + 4
    BY <1>2, <1>9, <2>1, <2>2, WritesKeep
  <2>5. registers'[0] = registers[0] /\ registers'[1] = registers[1] BY <1>4, <2>4 DEF Keeps
  <2>6. LowLeft' BY <2>3, <2>4, <2>5 DEF LowLeft, ProductPart
  <2> QED BY <1>10, <2>4, <2>6
<1>11. CASE pc = 4
  <2> DEFINE w == ProductPart(1, u, v)
  <2>1. w \in 0 .. TwoTo[Cpu!X] - 1 /\ w = (u * v) \div t BY <1>5, <1>8 DEF ProductPart
  <2>2. Writes(5, w, flags) BY <1>2, <1>3, <1>6, <1>7, <1>11, ProductStep
  <2>3. registers[4] = (u * v) % t
    <3>1. LowLeft BY <1>2, <1>11
    <3> QED BY <3>1, <1>5, <1>6, <1>7 DEF LowLeft, ProductPart
  <2> HIDE DEF w
  <2>4. Complete' /\ registers'[5] = w /\ Keeps(5) /\ pc' = pc + 4
    BY <1>2, <1>9, <2>1, <2>2, WritesKeep
  <2>5. /\ registers'[0] = u /\ registers'[1] = v /\ registers'[4] = (u * v) % t
        /\ registers'[5] = (u * v) \div t
    BY <1>4, <1>6, <1>7, <2>1, <2>3, <2>4 DEF Keeps
  <2>6. ((u * v) % t) + t * ((u * v) \div t) = u * v BY <1>8
  <2>7. registers'[4] + t * registers'[5] = registers'[0] * registers'[1]
    BY <2>5, <2>6, Zenon
  <2>8. ProductLeft' BY <1>5, <2>7, Zenon DEF ProductLeft
  <2>9. pc' = 8 BY <1>11, <2>4
  <2> QED BY <2>4, <2>8, <2>9
<1> QED BY <1>1, <1>3, <1>10, <1>11

-----------------------------------------------------------------------------
(* Quotients with a sign, and remainders.                                   *)

\* Or joins numbers that have no bit in common.
LEMMA OrJoins ==
  ASSUME NEW j \in Nat, NEW k \in Nat, NEW p \in Nat, p < TwoTo[j],
         NEW g \in Nat, g < TwoTo[k], NEW h \in Nat, h = TwoTo[j] * g
  PROVE  Cpu!Or(p, h, j + k) = p + h
<1> DEFINE m == j + k
           e == [l \in 0 .. m - 1 |-> Disjoin[<<Bit(p, l), Bit(h, l)>>]]
           d == [l \in 0 .. m - 1 |-> IF Cpu!Bit(p, l) = 1 \/ Cpu!Bit(h, l) = 1 THEN 1 ELSE 0]
<1>1. ASSUME NEW l \in 0 .. m - 1 PROVE e[l] = d[l]
  <2>1. PICK u \in {0, 1} : u = Bit(p, l) BY BitIs
  <2>2. PICK v \in {0, 1} : v = Bit(h, l) BY BitIs
  <2>3. Cpu!Bit(p, l) = u /\ Cpu!Bit(h, l) = v BY <2>1, <2>2, SameNumerals DEF Cpu!Bit, Bit
  <2>4. Disjoin[<<u, v>>] = IF u = 1 \/ v = 1 THEN 1 ELSE 0 BY TablesAre
  <2>5. e[l] = Disjoin[<<u, v>>] BY <2>1, <2>2
  <2>6. d[l] = IF u = 1 \/ v = 1 THEN 1 ELSE 0 BY <2>3
  <2> QED BY <2>4, <2>5, <2>6
<1>2. e = d
  <2>1. e = [l \in 0 .. m - 1 |-> e[l]] /\ d = [l \in 0 .. m - 1 |-> d[l]] OBVIOUS
  <2> HIDE DEF e, d
  <2> QED BY <1>1, <2>1
<1>3. Cpu!Or(p, h, m) = Cpu!Number(2, d, m) BY Zenon DEF Cpu!Or, Cpu!Bits
<1>4. BitByBit(Disjoin, p, h, m) = Number(2, e, m) BY Zenon DEF BitByBit
<1>5. BitByBit(Disjoin, p, TwoTo[j] * g, m) = p + TwoTo[j] * g BY OrIs
<1> HIDE DEF e, d
<1> QED BY <1>2, <1>3, <1>4, <1>5, SameNumerals, Zenon

\* Or with nothing.
LEMMA OrNone ==
  ASSUME NEW len \in Nat, NEW v \in 0 .. TwoTo[len] - 1
  PROVE  Cpu!Or(v, 0, len) = v /\ Cpu!Or(0, v, len) = v
<1>1. TwoTo[len] \in Nat \ {0} /\ TwoTo[0] = 1 BY TwoToNat, TwoToIs
<1>2. PICK none \in Nat : none = 0 OBVIOUS
<1>3. v \in Nat /\ v < TwoTo[len] /\ none < TwoTo[none] /\ none < TwoTo[len] BY <1>1, <1>2
<1>4. len + none = len /\ none + len = len BY <1>2
<1>5. Cpu!Or(v, none, len + none) = v + none
  <2>1. none = TwoTo[len] * none BY <1>1, <1>2
  <2> QED BY <1>3, <2>1, OrJoins
<1>6. Cpu!Or(none, v, none + len) = none + v
  <2>1. v = TwoTo[none] * v BY <1>1, <1>2
  <2> QED BY <1>3, <2>1, OrJoins
<1> QED BY <1>2, <1>4, <1>5, <1>6

\* The magnitude and the sign of a number.
LEMMA MagnitudeIs ==
  ASSUME NEW len \in Nat, len > 0, NEW u \in 0 .. TwoTo[len] - 1
  PROVE  /\ Cpu!SignedToUnsigned(u, len).value = Arm!Magnitude(Arm!Signed(u, len))
         /\ Cpu!SignedToUnsigned(u, len).sign = IF Arm!Signed(u, len) < 0 THEN 1 ELSE 0
<1> DEFINE negative == Cpu!SignBit(u, len)
<1>1. PICK h \in Nat \ {0} : h = TwoTo[len - 1] BY Halves
<1>2. PICK t \in Nat \ {0} : t = TwoTo[len] BY TwoToNat
<1>3. t = 2 * h /\ len - 1 \in Nat BY <1>1, <1>2, Halves
<1>4. negative = IF u >= h THEN 1 ELSE 0 BY <1>1, BitSmall
<1>5. Arm!Signed(u, len) = IF u >= h THEN u - t ELSE u BY <1>1, <1>2, SignedIs
<1>6. Cpu!Not(u, len) = t - 1 - u BY <1>2, NotIs
<1> DEFINE first == negative * ((Cpu!Not(u, len) + 1) % t)
           second == (1 - negative) * (u % h)
<1>7. /\ Cpu!SignedToUnsigned(u, len).value = Cpu!Or(first, second, len)
      /\ Cpu!SignedToUnsigned(u, len).sign = negative
  BY <1>1, <1>2, SameNumerals DEF Cpu!SignedToUnsigned
<1> HIDE DEF negative
<1>8. CASE u >= h
  <2>1. PICK r \in 0 .. t - 1 : r = t - u BY <1>2, <1>3, <1>8
  <2>2. r % t = r
    <3>1. 0 \in Int /\ r = t * 0 + r /\ r \in Int OBVIOUS
    <3> QED BY <3>1, PartsAre, Zenon
  <2>3. Cpu!Not(u, len) + 1 = r BY <1>6, <2>1, <1>2
  <2>4. (Cpu!Not(u, len) + 1) % t = r BY <2>2, <2>3
  <2>5. PICK w \in Int : w = u % h BY <1>1
  <2>6. first = r BY <1>4, <1>8, <2>4
  <2>7. second = 0 BY <1>4, <1>8, <2>5
  <2>8. Cpu!Or(r, 0, len) = r BY <1>2, OrNone
  <2>9. Arm!Magnitude(Arm!Signed(u, len)) = r BY <1>5, <1>8, <2>1, <1>2 DEF Arm!Magnitude
  <2>10. Arm!Signed(u, len) < 0 BY <1>5, <1>8, <1>2
  <2> HIDE DEF first, second
  <2> QED BY <1>4, <1>7, <1>8, <2>6, <2>7, <2>8, <2>9, <2>10
<1>9. CASE ~(u >= h)
  <2>1. u % h = u
    <3>1. PICK r \in 0 .. h - 1 : r = u BY <1>9
    <3>2. 0 \in Int /\ r = h * 0 + r /\ r \in Int OBVIOUS
    <3>3. r % h = r BY <3>2, PartsAre, Zenon
    <3> QED BY <3>1, <3>3
  <2>2. PICK w \in Int : w = (Cpu!Not(u, len) + 1) % t
    <3>1. Cpu!Not(u, len) + 1 \in Int BY <1>6
    <3> QED BY <3>1
  <2>3. first = 0 BY <1>4, <1>9, <2>2
  <2>4. second = u BY <1>4, <1>9, <2>1
  <2>5. Cpu!Or(0, u, len) = u BY OrNone
  <2>6. Arm!Signed(u, len) = u BY <1>5, <1>9
  <2>7. Arm!Magnitude(Arm!Signed(u, len)) = u /\ ~(Arm!Signed(u, len) < 0)
    BY <2>6 DEF Arm!Magnitude
  <2> HIDE DEF first, second
  <2> QED BY <1>4, <1>7, <1>9, <2>3, <2>4, <2>5, <2>7
<1> QED BY <1>8, <1>9

\* The number of a magnitude and a sign.
LEMMA NegatedIs ==
  ASSUME NEW len \in Nat, len > 0, NEW q \in 0 .. TwoTo[len - 1], NEW c \in {0, 1},
         c = 0 => q < TwoTo[len - 1]
  PROVE  /\ Cpu!UnsignedToSigned(q, c, len) \in 0 .. TwoTo[len] - 1
         /\ Arm!Signed(Cpu!UnsignedToSigned(q, c, len), len) = IF c = 1 THEN -q ELSE q
<1>1. PICK h \in Nat \ {0} : h = TwoTo[len - 1] BY Halves
<1>2. PICK t \in Nat \ {0} : t = TwoTo[len] BY TwoToNat
<1>3. t = 2 * h /\ len - 1 \in Nat BY <1>1, <1>2, Halves
<1>4. q \in 0 .. h /\ q \in 0 .. TwoTo[len] - 1 /\ (c = 0 => q < h) BY <1>1, <1>2, <1>3
<1>5. Cpu!Not(q, len) = t - 1 - q BY <1>2, <1>4, NotIs
<1> DEFINE first == c * ((Cpu!Not(q, len) + 1) % t)
           second == Cpu!Bisz(c) * (q % h)
           w == Cpu!UnsignedToSigned(q, c, len)
<1>6. w = Cpu!Or(first, second, len)
  BY <1>1, <1>2, SameNumerals DEF Cpu!UnsignedToSigned
<1>7. Cpu!Bisz(c) = 1 - c BY DEF Cpu!Bisz
<1>8. PICK r \in 0 .. t - 1 : r = (t - q) % t
  <2>1. PICK e \in Int : e = t - q BY <1>4
  <2>2. e % t \in 0 .. t - 1 BY Parts
  <2> QED BY <2>1, <2>2
<1>9. (Cpu!Not(q, len) + 1) % t = r
  <2>1. Cpu!Not(q, len) + 1 = t - q BY <1>4, <1>5
  <2> QED BY <1>8, <2>1
<1> HIDE DEF w
<1>10. CASE c = 1
  <2>1. PICK z \in Int : z = q % h BY <1>4
  <2>2. first = r /\ second = 0 BY <1>7, <1>9, <1>10, <2>1
  <2>3. Cpu!Or(r, 0, len) = r BY <1>2, OrNone
  <2> HIDE DEF first, second
  <2>4. w = r BY <1>6, <2>2, <2>3
  <2>5. r = IF q = 0 THEN 0 ELSE t - q
    <3>1. PICK e \in Int : e = t - q BY <1>4
    <3>2. -t <= e /\ e < 2 * t BY <3>1, <1>3, <1>4
    <3>3. e % t = IF e < 0 THEN e + t ELSE IF e < t THEN e ELSE e - t BY <3>2, RemainderNear
    <3> QED BY <3>1, <3>3, <1>8, <1>4, <1>3
  <2>6. Arm!Signed(r, len) = IF r >= h THEN r - t ELSE r BY <1>1, <1>2, SignedIs
  <2>7. Arm!Signed(r, len) = -q BY <2>5, <2>6, <1>3, <1>4
  <2> QED BY <1>2, <1>10, <2>4, <2>7 DEF w
<1>11. CASE c = 0
  <2>1. q % h = q
    <3>1. PICK e \in 0 .. h - 1 : e = q BY <1>4, <1>11
    <3>2. 0 \in Int /\ e = h * 0 + e /\ e \in Int OBVIOUS
    <3>3. e % h = e BY <3>2, PartsAre, Zenon
    <3> QED BY <3>1, <3>3
  <2>2. first = 0 /\ second = q BY <1>7, <1>8, <1>9, <1>11, <2>1
  <2>3. Cpu!Or(0, q, len) = q BY <1>4, OrNone
  <2> HIDE DEF first, second
  <2>4. w = q BY <1>6, <2>2, <2>3
  <2>5. Arm!Signed(q, len) = IF q >= h THEN q - t ELSE q BY <1>1, <1>2, <1>4, SignedIs
  <2>6. Arm!Signed(q, len) = q BY <2>5, <1>4, <1>11
  <2> QED BY <1>4, <1>11, <2>4, <2>6 DEF w
<1> QED BY <1>10, <1>11

\* What has its sign put back fits again.
LEMMA NegatedFits ==
  ASSUME NEW len \in Nat, len > 0, NEW q \in 0 .. TwoTo[len - 1], NEW c \in {0, 1}
  PROVE  Cpu!UnsignedToSigned(q, c, len) \in 0 .. TwoTo[len] - 1
<1>1. CASE c = 0 => q < TwoTo[len - 1] BY <1>1, NegatedIs
<1>2. CASE c = 0 /\ ~(q < TwoTo[len - 1])
  <2>1. PICK h \in Nat \ {0} : h = TwoTo[len - 1] BY Halves
  <2>2. PICK t \in Nat \ {0} : t = TwoTo[len] BY TwoToNat
  <2>3. t = 2 * h BY <2>1, <2>2, Halves
  <2>4. q = h /\ c = 0 BY <1>2, <2>1
  <2>5. h % h = 0
    <3>1. 1 \in Int /\ h = h * 1 + 0 /\ h \in Int /\ 0 \in 0 .. h - 1 OBVIOUS
    <3> QED BY <3>1, PartsAre, Zenon
  <2>6. PICK z \in Int : z = (Cpu!Not(q, len) + 1) % t
    <3>1. PICK e \in Int : e = Cpu!Not(q, len) + 1
      <4>1. Cpu!Not(q, len) = t - 1 - q BY <2>2, SameNumerals DEF Cpu!Not
      <4>2. Cpu!Not(q, len) + 1 \in Int BY <4>1, <2>4
      <4> QED BY <4>2
    <3>2. e % t \in 0 .. t - 1 BY Parts
    <3> QED BY <3>1, <3>2
  <2> DEFINE first == c * ((Cpu!Not(q, len) + 1) % t)
             second == Cpu!Bisz(c) * (q % h)
  <2>7. Cpu!UnsignedToSigned(q, c, len) = Cpu!Or(first, second, len)
    BY <2>1, <2>2, SameNumerals DEF Cpu!UnsignedToSigned
  <2>8. Cpu!Bisz(c) = 1 BY <2>4 DEF Cpu!Bisz
  <2>9. first = 0 /\ second = 0 BY <2>4, <2>5, <2>6, <2>8
  <2>10. Cpu!Or(0, 0, len) = 0
    <3>1. 0 \in 0 .. TwoTo[len] - 1 BY <2>2
    <3> QED BY <3>1, OrNone
  <2> HIDE DEF first, second
  <2> QED BY <2>2, <2>7, <2>9, <2>10
<1> QED BY <1>1, <1>2

\* The sign and the magnitude of a number of half a register.
LEMMA AbsoluteIs ==
  ASSUME NEW u \in 0 .. TwoTo[Cpu!W] - 1
  PROVE  /\ Arm!Signed(u, Cpu!W) \in Int
         /\ Absolute(u) \in 0 .. TwoTo[Cpu!W - 1] /\ Negative(u) \in {0, 1}
         /\ Arm!Signed(u, Cpu!W) = IF Negative(u) = 1 THEN -Absolute(u) ELSE Absolute(u)
         /\ Absolute(u) = 0 <=> u = 0
         /\ u \notin {0, TwoTo[Cpu!W] - 1} => Absolute(u) >= 2 \/ Negative(u) = 0
         /\ u # TwoTo[Cpu!W - 1] => Absolute(u) < TwoTo[Cpu!W - 1]
<1>1. PICK h \in Nat \ {0} : h = TwoTo[Cpu!W - 1] BY Halves, Widths
<1>2. PICK t \in Nat \ {0} : t = TwoTo[Cpu!W] BY TwoToNat, Widths
<1>3. t = 2 * h BY <1>1, <1>2, Halves, Widths
<1>4. Arm!Signed(u, Cpu!W) = IF u >= h THEN u - t ELSE u BY <1>1, <1>2, SignedIs, Widths
<1>5. u \in 0 .. t - 1 BY <1>2
<1>6. CASE u >= h
  <2>1. Arm!Signed(u, Cpu!W) = u - t /\ u - t < 0 BY <1>4, <1>5, <1>6
  <2>2. Absolute(u) = t - u /\ Negative(u) = 1
    BY <2>1, <1>5 DEF Absolute, Negative, Arm!Magnitude
  <2> QED BY <1>1, <1>2, <1>3, <1>5, <1>6, <2>1, <2>2
<1>7. CASE u < h
  <2>1. Arm!Signed(u, Cpu!W) = u BY <1>4, <1>5, <1>7
  <2>2. Absolute(u) = u /\ Negative(u) = 0
    BY <2>1, <1>5 DEF Absolute, Negative, Arm!Magnitude
  <2> QED BY <1>1, <1>2, <1>3, <1>5, <1>7, <2>1, <2>2
<1> QED BY <1>5, <1>6, <1>7

\* Div is the quotient that leaves less than the divisor; it is 0 for the divisor 0.
LEMMA QuotientBelow ==
  ASSUME NEW u \in Nat, NEW v \in Nat
  PROVE  /\ Cpu!Div(u, v) \in 0 .. u /\ (v = 0 => Cpu!Div(u, v) = 0)
         /\ (v >= 2 /\ u > 0 => Cpu!Div(u, v) < u)
         /\ (v > 0 => /\ u - v * Cpu!Div(u, v) \in 0 .. v - 1)
<1>1. CASE v = 0 BY <1>1 DEF Cpu!Div
<1>2. CASE v > 0
  <2>1. PICK q \in Int : q = u \div v BY <1>2
  <2>2. PICK r \in 0 .. v - 1 : u = v * q + r
    <3>1. u % v \in 0 .. v - 1 /\ u = v * (u \div v) + (u % v) BY <1>2
    <3> QED BY <2>1, <3>1
  <2>3. Cpu!Div(u, v) = q BY <1>2, <2>1 DEF Cpu!Div
  <2>4. q >= 0
    <3>1. SUFFICES ASSUME q <= -1 PROVE FALSE OBVIOUS
    <3>2. v * q <= v * (-1) BY <3>1, <1>2
    <3> QED BY <2>2, <3>2
  <2>5. v * q >= q
    <3>1. v * q >= 1 * q BY <1>2, <2>4
    <3> QED BY <3>1
  <2>6. v >= 2 => v * q >= 2 * q BY <2>4
  <2>7. u - v * q = r BY <2>2
  <2>8. q <= u BY <2>2, <2>5
  <2>9. ASSUME v >= 2, u > 0 PROVE q < u BY <2>2, <2>4, <2>6, <2>9
  <2> QED BY <1>2, <2>3, <2>4, <2>7, <2>8, <2>9
<1> QED BY <1>1, <1>2

\* Sdiv rounds to 0, where the quotient exists.
LEMMA SdivIs ==
  ASSUME NEW u \in 0 .. TwoTo[Cpu!W] - 1, NEW v \in 0 .. TwoTo[Cpu!W] - 1
  PROVE  /\ Cpu!Sdiv(u, v, Cpu!W) \in 0 .. TwoTo[Cpu!W] - 1
         /\ <<u, v>> \notin Undivided =>
               Arm!Signed(Cpu!Sdiv(u, v, Cpu!W), Cpu!W) = TruncatedQuotient(u, v)
<1>1. Cpu!W \in Nat /\ Cpu!W > 0 BY Widths
<1>2. PICK c \in {0, 1} : c = (IF Negative(u) # Negative(v) THEN 1 ELSE 0) OBVIOUS
<1>3. Cpu!Xor(Negative(u), Negative(v), 1) = c BY AbsoluteIs, BitsOfOne, <1>2
<1>4. PICK q \in 0 .. TwoTo[Cpu!W - 1] : q = Cpu!Div(Absolute(u), Absolute(v))
  <2>1. TwoTo[Cpu!W - 1] \in Nat BY <1>1, Halves
  <2>2. Absolute(u) \in Nat /\ Absolute(v) \in Nat /\ Absolute(u) <= TwoTo[Cpu!W - 1]
    BY <2>1, AbsoluteIs
  <2>3. Cpu!Div(Absolute(u), Absolute(v)) \in 0 .. Absolute(u) BY <2>2, QuotientBelow
  <2>4. Cpu!Div(Absolute(u), Absolute(v)) \in 0 .. TwoTo[Cpu!W - 1] BY <2>1, <2>2, <2>3
  <2> QED BY <2>4
<1>5. Cpu!Sdiv(u, v, Cpu!W) = Cpu!UnsignedToSigned(q, c, Cpu!W)
  <2>1. /\ Cpu!SignedToUnsigned(u, Cpu!W).value = Absolute(u)
        /\ Cpu!SignedToUnsigned(u, Cpu!W).sign = Negative(u)
        /\ Cpu!SignedToUnsigned(v, Cpu!W).value = Absolute(v)
        /\ Cpu!SignedToUnsigned(v, Cpu!W).sign = Negative(v)
    BY <1>1, MagnitudeIs DEF Absolute, Negative
  <2> QED BY <2>1, <1>3, <1>4, Zenon DEF Cpu!Sdiv
<1>6. Cpu!UnsignedToSigned(q, c, Cpu!W) \in 0 .. TwoTo[Cpu!W] - 1 BY <1>1, NegatedFits
<1>7. ASSUME <<u, v>> \notin Undivided
      PROVE  Arm!Signed(Cpu!UnsignedToSigned(q, c, Cpu!W), Cpu!W) = IF c = 1 THEN -q ELSE q
  <2>1. ASSUME c = 0 PROVE q < TwoTo[Cpu!W - 1]
    <3>1. TwoTo[Cpu!W - 1] \in Nat /\ TwoTo[Cpu!W - 1] > 0 BY <1>1, Halves
    <3>2. Negative(u) = Negative(v) BY <1>2, <2>1
    <3>3. CASE u # TwoTo[Cpu!W - 1]
      <4>1. Absolute(u) \in Nat /\ Absolute(v) \in Nat /\ Absolute(u) < TwoTo[Cpu!W - 1]
        BY <3>1, <3>3, AbsoluteIs
      <4>2. Cpu!Div(Absolute(u), Absolute(v)) \in 0 .. Absolute(u) BY <4>1, QuotientBelow
      <4> QED BY <1>4, <3>1, <4>1, <4>2
    <3>4. CASE u = TwoTo[Cpu!W - 1]
      <4>1. v # 0 /\ v # TwoTo[Cpu!W] - 1 BY <1>7, <3>4 DEF Undivided
      <4>2. Negative(u) = 1
        <5>1. Arm!Signed(u, Cpu!W) = u - TwoTo[Cpu!W] BY <1>1, <3>1, <3>4, SignedIs
        <5>2. TwoTo[Cpu!W] = 2 * TwoTo[Cpu!W - 1] BY <1>1, Halves
        <5>3. u - TwoTo[Cpu!W] < 0 BY <3>1, <3>4, <5>2
        <5> QED BY <5>1, <5>3 DEF Negative
      <4>3. Absolute(v) >= 2
        <5>1. Negative(v) # 0 BY <3>2, <4>2
        <5>2. v \notin {0, TwoTo[Cpu!W] - 1} BY <4>1
        <5>3. Absolute(v) >= 2 \/ Negative(v) = 0 BY <5>2, AbsoluteIs, Zenon
        <5> QED BY <5>1, <5>3
      <4>4. /\ Absolute(u) \in Nat /\ Absolute(v) \in Nat /\ Absolute(u) <= TwoTo[Cpu!W - 1]
            /\ Absolute(u) > 0
        BY <3>1, <3>4, AbsoluteIs
      <4>5. Cpu!Div(Absolute(u), Absolute(v)) < Absolute(u) BY <4>3, <4>4, QuotientBelow
      <4>6. Cpu!Div(Absolute(u), Absolute(v)) \in 0 .. Absolute(u) BY <4>4, QuotientBelow
      <4> QED BY <1>4, <3>1, <4>4, <4>5, <4>6
    <3> QED BY <3>3, <3>4
  <2> QED BY <1>1, <2>1, NegatedIs
<1>8. <<u, v>> \notin Undivided => (IF c = 1 THEN -q ELSE q) = TruncatedQuotient(u, v)
  BY <1>2, <1>4 DEF TruncatedQuotient, Apart
<1> QED BY <1>5, <1>6, <1>7, <1>8

\* A number and the one with a sign differ by a multiple of the modulus.
LEMMA Congruent ==
  ASSUME NEW t \in Nat \ {0}, IsPower(t, Cpu!W), NEW u \in 0 .. t - 1
  PROVE  Congr(u, Arm!Signed(u, Cpu!W), t)
<1> USE DEF IsPower, Congr
<1>1. Arm!Signed(u, Cpu!W) = (IF u >= TwoTo[Cpu!W - 1] THEN u - t ELSE u)
      /\ Arm!Signed(u, Cpu!W) \in Int
  BY SignedIs, Widths
<1>2. CASE u >= TwoTo[Cpu!W - 1]
  <2>1. u = Arm!Signed(u, Cpu!W) + t * 1 BY <1>1, <1>2
  <2> QED BY <2>1
<1>3. CASE ~(u >= TwoTo[Cpu!W - 1])
  <2>1. u = Arm!Signed(u, Cpu!W) + t * 0 BY <1>1, <1>3
  <2> QED BY <2>1
<1> QED BY <1>2, <1>3

\* What is small is found again behind its remainder.
LEMMA SmallAgain ==
  ASSUME NEW t \in Nat \ {0}, IsPower(t, Cpu!W), NEW z \in Int, NEW w \in Int,
         Congr(w, z, t), Small(z)
  PROVE  Arm!Signed(w % t, Cpu!W) = z
<1>1. t = TwoTo[Cpu!W] /\ -TwoTo[Cpu!W - 1] <= z /\ z < TwoTo[Cpu!W - 1] BY DEF IsPower, Small
<1>2. PICK g \in Int : w = z + t * g BY DEF Congr
<1>3. PICK h \in Nat \ {0} : h = TwoTo[Cpu!W - 1] BY Halves, Widths
<1>4. t = 2 * h BY <1>1, <1>3, Halves, Widths
<1>5. PICK r \in 0 .. t - 1 : r = IF z < 0 THEN z + t ELSE z BY <1>1, <1>3, <1>4
<1>6. PICK q \in Int : q = IF z < 0 THEN g - 1 ELSE g OBVIOUS
<1>7. w = t * q + r
  <2>1. t * (g - 1) = t * g - t OBVIOUS
  <2>2. t * q = IF z < 0 THEN t * g - t ELSE t * g BY <1>6, <2>1
  <2> QED BY <1>2, <1>5, <2>2
<1>8. w % t = r
  <2>1. w \in Int /\ q \in Int /\ r \in 0 .. t - 1 /\ w = t * q + r BY <1>5, <1>7
  <2> QED BY <2>1, PartsAre, Zenon
<1>9. Arm!Signed(r, Cpu!W) = IF r >= h THEN r - t ELSE r BY <1>1, <1>3, SignedIs, Widths
<1> QED BY <1>1, <1>3, <1>4, <1>5, <1>8, <1>9

\* The difference of a number and a product, all of them with a sign.
LEMMA CongruentDifference ==
  ASSUME NEW t \in Int, NEW u \in Int, NEW v \in Int, NEW q \in Int,
         NEW us \in Int, NEW vs \in Int, NEW qs \in Int,
         Congr(u, us, t), Congr(v, vs, t), Congr(q, qs, t),
         NEW w \in Int, w = u - q * v, NEW z \in Int, z = us - qs * vs
  PROVE  Congr(w, z, t)
<1>1. PICK i \in Int : u = us + t * i BY DEF Congr
<1>2. PICK j \in Int : v = vs + t * j BY DEF Congr
<1>3. PICK k \in Int : q = qs + t * k BY DEF Congr
<1>4. PICK g \in Int : g = i - qs * j - k * vs - t * (k * j) OBVIOUS
<1>5. (qs + t * k) * (vs + t * j)
      = qs * vs + t * (qs * j) + t * (k * vs) + t * (t * (k * j))
  OBVIOUS
<1>6. t * (i - qs * j - k * vs - t * (k * j))
      = t * i - t * (qs * j) - t * (k * vs) - t * (t * (k * j))
  OBVIOUS
<1>7. t * g = t * i - t * (qs * j) - t * (k * vs) - t * (t * (k * j)) BY <1>4, <1>6, Zenon
<1>8. q * v = qs * vs + t * (qs * j) + t * (k * vs) + t * (t * (k * j))
  BY <1>2, <1>3, <1>5, Zenon
<1> DEFINE A1 == t * (qs * j)
           A2 == t * (k * vs)
           A3 == t * (t * (k * j))
           A4 == qs * vs
           A5 == t * i
           A6 == t * g
           A7 == q * v
<1>9. /\ A1 \in Int /\ A2 \in Int /\ A3 \in Int /\ A4 \in Int /\ A5 \in Int /\ A6 \in Int
      /\ A7 \in Int
  OBVIOUS
<1>10. A6 = A5 - A1 - A2 - A3 /\ A7 = A4 + A1 + A2 + A3 /\ u = us + A5
  BY <1>1, <1>7, <1>8
<1>11. u - A7 = (us - A4) + A6
  <2> HIDE DEF A1, A2, A3, A4, A5, A6, A7
  <2> QED BY <1>9, <1>10
<1>12. w = z + t * g BY <1>11, Zenon DEF A4, A6, A7
<1> QED BY <1>12 DEF Congr

\* SDIV and MSUB leave a remainder with the sign of the dividend.
LEMMA SignedRemains ==
  ASSUME NEW t \in Nat \ {0}, IsPower(t, Cpu!W), NEW u \in 0 .. t - 1, NEW v \in 0 .. t - 1,
         <<u, v>> \notin Undivided, NEW q, q = Cpu!Sdiv(u, v, Cpu!W)
  PROVE  RemainderOk(u, v, q, (u - q * v) % t)
<1>1. t = TwoTo[Cpu!W] BY DEF IsPower
<1> USE <1>1
<1>2. PICK h \in Nat \ {0} : h = TwoTo[Cpu!W - 1] BY Halves, Widths
<1>3. q \in 0 .. t - 1 /\ Arm!Signed(q, Cpu!W) = TruncatedQuotient(u, v) BY SdivIs
<1>4. v # 0
  <2>1. <<u, 0>> \in Undivided BY DEF Undivided
  <2> QED BY <2>1
<1>5. PICK m \in Nat : m = Absolute(u) BY AbsoluteIs, <1>2
<1>6. PICK n1 \in Nat : n1 = Absolute(v) BY AbsoluteIs, <1>2
<1>7. n1 > 0 /\ n1 <= h BY <1>2, <1>4, <1>6, AbsoluteIs
<1>8. PICK d \in Int : d = Cpu!Div(m, n1) BY QuotientBelow
<1>9. PICK e \in 0 .. n1 - 1 : e = m - n1 * d BY <1>7, <1>8, QuotientBelow
<1>10. PICK us \in Int : us = Arm!Signed(u, Cpu!W) BY AbsoluteIs
<1>11. PICK vs \in Int : vs = Arm!Signed(v, Cpu!W) BY AbsoluteIs
<1>12. PICK qs \in Int : qs = TruncatedQuotient(u, v)
  BY <1>5, <1>6, <1>8 DEF TruncatedQuotient
<1>13. PICK z \in Int : z = IF Negative(u) = 1 THEN -e ELSE e OBVIOUS
<1>14. /\ Negative(u) \in {0, 1} /\ Negative(v) \in {0, 1}
       /\ us = (IF Negative(u) = 1 THEN -m ELSE m) /\ vs = (IF Negative(v) = 1 THEN -n1 ELSE n1)
       /\ qs = IF Negative(u) # Negative(v) THEN -d ELSE d
  BY <1>5, <1>6, <1>8, <1>10, <1>11, <1>12, AbsoluteIs DEF TruncatedQuotient, Apart
<1>15. qs * vs = IF Negative(u) = 1 THEN -(n1 * d) ELSE n1 * d
  <2>1. (-d) * n1 = -(n1 * d) /\ d * (-n1) = -(n1 * d) /\ (-d) * (-n1) = n1 * d /\ d * n1 = n1 * d
    OBVIOUS
  <2>2. CASE Negative(u) = 0 /\ Negative(v) = 0 BY <2>1, <2>2, <1>14
  <2>3. CASE Negative(u) = 0 /\ Negative(v) = 1 BY <2>1, <2>3, <1>14
  <2>4. CASE Negative(u) = 1 /\ Negative(v) = 0 BY <2>1, <2>4, <1>14
  <2>5. CASE Negative(u) = 1 /\ Negative(v) = 1 BY <2>1, <2>5, <1>14
  <2> QED BY <1>14, <2>2, <2>3, <2>4, <2>5
<1>16. qs * vs + z = us
  <2>1. PICK nd \in Int : nd = n1 * d OBVIOUS
  <2>2. qs * vs = IF Negative(u) = 1 THEN -nd ELSE nd BY <1>15, <2>1
  <2>3. e = m - nd BY <1>9, <2>1
  <2> QED BY <2>2, <2>3, <1>13, <1>14
<1>17. Arm!Magnitude(z) < n1 /\ Arm!Magnitude(vs) = n1 /\ (z = 0 \/ (z < 0) = (us < 0))
  <2>1. Arm!Magnitude(z) = e BY <1>13, <1>14 DEF Arm!Magnitude
  <2>2. Arm!Magnitude(vs) = n1 BY <1>14 DEF Arm!Magnitude
  <2>3. e # 0 => m > 0
    <3>1. CASE m = 0
      <4>1. d = 0 BY <1>8, <3>1, QuotientBelow
      <4>2. n1 * d = 0 BY <4>1
      <4> QED BY <1>9, <3>1, <4>2
    <3> QED BY <3>1
  <2>4. z = 0 \/ (z < 0 <=> us < 0) BY <2>3, <1>13, <1>14
  <2> QED BY <2>1, <2>2, <2>4
<1>18. Arm!Signed((u - q * v) % t, Cpu!W) = z
  <2>1. PICK w \in Int : w = u - q * v
    <3>1. q * v \in Int BY <1>3
    <3> QED BY <3>1
  <2>2. us - qs * vs = z
    <3>1. PICK p \in Int : p = qs * vs OBVIOUS
    <3> QED BY <3>1, <1>16
  <2>3. Congr(u, us, t) /\ Congr(v, vs, t) BY <1>10, <1>11, Congruent
  <2>4. Congr(q, qs, t) BY <1>3, <1>12, Congruent
  <2>5. t \in Int /\ u \in Int /\ v \in Int /\ q \in Int BY <1>3
  <2>6. Congr(w, z, t)
    <3>1. PICK w1 \in Int : w1 = u - q * v BY <2>1
    <3>2. z = us - qs * vs BY <2>2, Zenon
    <3>3. Congr(w1, z, t) BY <2>3, <2>4, <2>5, <3>1, <3>2, CongruentDifference, Zenon
    <3> QED BY <2>1, <3>1, <3>3
  <2>7. Small(z) BY <1>2, <1>7, <1>13 DEF Small
  <2>8. Arm!Signed(w % t, Cpu!W) = z BY <2>6, <2>7, SmallAgain, Zenon
  <2> QED BY <2>1, <2>8
<1>19. Arm!Signed(q, Cpu!W) = qs BY <1>3, <1>12
<1> QED BY <1>10, <1>11, <1>16, <1>17, <1>18, <1>19, Zenon DEF RemainderOk

\* What UDIV and SDIV are decoded to.
LEMMA DividedDecoded ==
  ASSUME NEW w, NEW i, i = Cpu!DecodeInstruction(w),
         w.class = "DataProcessingTwoSource", w.sf = 0, w.S = 0, w.opc \in {2, 3}
  PROVE  DividedAs(i, w)
<1>1. Cpu!DecodeInstruction(w) = Cpu!DecodeDataProcessingTwoSource(w)
  BY Zenon DEF Cpu!DecodeInstruction
<1> DEFINE o == CASE w.opc \in {2, 3}   -> <<"kUdiv", "kSdiv">>[w.opc - 1]
                  [] w.opc \in 8 .. 11  -> <<"kLsl", "kLsr", "kAsr", "kRor">>[w.opc - 7]
                  [] w.opc \in {12} \cup (16 .. 23) -> "kPacga"
                  [] OTHER              -> "kUnallocated"
           z == Cpu!Three(w, Cpu!W)
<1>2. o = QuotientOpcode(w.opc) /\ o # "kUnallocated" BY DEF QuotientOpcode
<1>3. Cpu!Size(w.sf) = Cpu!W BY DEF Cpu!Size
<1>4. Cpu!DecodeDataProcessingTwoSource(w) = Cpu!insn(o, FALSE, z)
  <2>1. ~(w.S = 1 \/ o = "kUnallocated") BY <1>2
  <2> QED BY <2>1, <1>3, Zenon DEF Cpu!DecodeDataProcessingTwoSource
<1>5. /\ z[1] = Cpu!x(Cpu!W, w.d) /\ z[2] = Cpu!x(Cpu!W, w.n)
      /\ z[3] = Cpu!x(Cpu!W, w.m)
  BY DEF Cpu!Three
<1> HIDE DEF z, o
<1>6. i.opcode = o /\ i.set_flags = FALSE /\ i.operands = z BY <1>1, <1>4 DEF Cpu!insn
<1> QED BY <1>2, <1>5, <1>6 DEF DividedAs

\* Quotients fit half a register.
LEMMA RatioFits ==
  ASSUME NEW opc \in {2, 3}, NEW u \in 0 .. TwoTo[Cpu!W] - 1, NEW v \in 0 .. TwoTo[Cpu!W] - 1
  PROVE  Ratio(opc, u, v) \in 0 .. TwoTo[Cpu!W] - 1
<1>1. PICK t \in Nat \ {0} : t = TwoTo[Cpu!W] BY TwoToNat, Widths
<1>2. Cpu!Sdiv(u, v, Cpu!W) \in 0 .. TwoTo[Cpu!W] - 1 BY SdivIs
<1>3. Cpu!Div(u, v) \in 0 .. u BY <1>1, QuotientBelow
<1> QED BY <1>1, <1>2, <1>3 DEF Ratio

\* UDIV (opc 2) and SDIV (opc 3).
LEMMA QuotientStep ==
  ASSUME Complete, Cpu!SingleStep, pc \in 0 .. 100, NEW opc \in {2, 3},
         program[pc] = QuotientOf(opc, 0, 1, 4)
  PROVE  Writes(4, Ratio(opc, half(0), half(1)), flags)
<1> DEFINE word == QuotientOf(opc, 0, 1, 4)
           i == Cpu!DecodeInstruction(word)
<1>1. /\ word.class = "DataProcessingTwoSource" /\ word.sf = 0 /\ word.S = 0 /\ word.opc = opc
      /\ word.n = 0 /\ word.m = 1 /\ word.d = 4
  BY DEF QuotientOf
<1>2. Cpu!Translate(Cpu!Machine, i) BY Stepping
<1> HIDE DEF word
<1>3. /\ i.opcode = QuotientOpcode(opc) /\ i.set_flags = FALSE
      /\ i.operands[1] = Cpu!x(Cpu!W, 4) /\ i.operands[2] = Cpu!x(Cpu!W, 0)
      /\ i.operands[3] = Cpu!x(Cpu!W, 1)
  <2> HIDE DEF i
  <2>1. i = Cpu!DecodeInstruction(word) BY DEF i
  <2>2. DividedAs(i, word) BY <1>1, <2>1, DividedDecoded
  <2> QED BY <1>1, <2>2 DEF DividedAs
<1> HIDE DEF i
<1>4. i.opcode \in {"kUdiv", "kSdiv"} BY <1>3 DEF QuotientOpcode
<1>5. Cpu!DataProcessingTwoSource(Cpu!Machine, i) BY <1>2, <1>4, Translates
<1>6. /\ Cpu!Get(Cpu!Machine, i, 1) = half(0) /\ Cpu!Get(Cpu!Machine, i, 2) = half(1)
      /\ Cpu!SizeOf(i, 1) = Cpu!W
  BY <1>3, ReadIs
<1>7. half(0) \in 0 .. TwoTo[Cpu!W] - 1 /\ half(1) \in 0 .. TwoTo[Cpu!W] - 1
  BY LowWord DEF Complete
<1>8. PICK v : v = Ratio(opc, half(0), half(1)) OBVIOUS
<1>9. v \in 0 .. TwoTo[Cpu!W] - 1 BY <1>7, <1>8, RatioFits
<1>10. v \in 0 .. TwoTo[Cpu!X] - 1
  <2>1. v \in Int BY <1>9
  <2>2. v % TwoTo[Cpu!W] \in 0 .. TwoTo[Cpu!X] - 1 BY <2>1, SmallFits
  <2>3. v % TwoTo[Cpu!W] = v BY <1>9, WordFits
  <2> QED BY <2>2, <2>3
<1>11. Cpu!Proceed(Cpu!Set(Cpu!Machine, i, 0, v))
  <2>1. i.opcode # "kPacga" BY <1>4
  <2>2. CASE opc = 3
    <3>1. i.opcode = "kSdiv" /\ i.opcode # "kUdiv" BY <1>3, <2>2 DEF QuotientOpcode
    <3>2. v = Cpu!Sdiv(half(0), half(1), Cpu!W) BY <1>8, <2>2 DEF Ratio
    <3> QED BY <2>1, <3>1, <3>2, <1>5, <1>6, Zenon DEF Cpu!DataProcessingTwoSource
  <2>3. CASE opc = 2
    <3>1. i.opcode = "kUdiv" BY <1>3, <2>3 DEF QuotientOpcode
    <3>2. v = Cpu!Div(half(0), half(1)) BY <1>8, <2>3 DEF Ratio
    <3> QED BY <2>1, <3>1, <3>2, <1>5, <1>6, Zenon DEF Cpu!DataProcessingTwoSource
  <2> QED BY <2>2, <2>3
<1>12. Cpu!Machine = [x |-> registers, f |-> flags, mem |-> memory] BY DEF Cpu!Machine
<1>13. Writes(4, v, flags) BY <1>3, <1>10, <1>11, <1>12, WrittenIs
<1> QED BY <1>8, <1>13

\* MSUB, of the halves.
LEMMA MultiplySubtractStep ==
  ASSUME Complete, Cpu!SingleStep, pc \in 0 .. 100, program[pc] = Multiplied(0, 0, 1, 4, 1, 0, 5)
  PROVE  Writes(5, (half(0) - half(4) * half(1)) % TwoTo[Cpu!W], flags)
<1> DEFINE word == Multiplied(0, 0, 1, 4, 1, 0, 5)
           i == Cpu!DecodeInstruction(word)
<1>1. /\ word.class = "DataProcessingThreeSource" /\ word.op54 = 0 /\ word.sf = 0 /\ word.o0 = 1
      /\ word.op31 = 0 /\ word.n = 4 /\ word.m = 1 /\ word.a = 0 /\ word.d = 5
  BY DEF Multiplied
<1>2. Cpu!Translate(Cpu!Machine, i) BY Stepping
<1> HIDE DEF word
<1>3. Multiplies("kMsub", word.op31 * 2 + word.o0, word.sf) /\ Cpu!W = Cpu!Size(word.sf)
  BY <1>1 DEF Multiplies, Cpu!Size
<1>4. /\ i.opcode = "kMsub" /\ i.set_flags = FALSE
      /\ i.operands[1] = Cpu!x(Cpu!W, 5) /\ i.operands[2] = Cpu!x(Cpu!W, 4)
      /\ i.operands[3] = Cpu!x(Cpu!W, 1) /\ i.operands[4] = Cpu!x(Cpu!W, 0)
  <2> HIDE DEF i
  <2>1. i = Cpu!DecodeInstruction(word) BY DEF i
  <2>2. MultipliedAs(i, word, "kMsub") BY <1>1, <1>3, <2>1, MultipliedDecoded, Zenon
  <2> QED BY <1>1, <1>3, <2>2 DEF MultipliedAs
<1> HIDE DEF i
<1>5. i.opcode \in {"kMadd", "kMsub", "kUmulh"} BY <1>4
<1>6. Cpu!DataProcessingThreeSource(Cpu!Machine, i) BY <1>2, <1>5, Translates
<1>7. /\ Cpu!Get(Cpu!Machine, i, 1) = half(4) /\ Cpu!Get(Cpu!Machine, i, 2) = half(1)
      /\ Cpu!Get(Cpu!Machine, i, 3) = half(0)
      /\ Cpu!SizeOf(i, 1) = Cpu!W
  BY <1>4, ReadIs
<1>8. Cpu!SizeOf(i, 0) = Cpu!W
  <2>1. 0 + 1 = 1 OBVIOUS
  <2>2. i.operands[0 + 1] = Cpu!x(Cpu!W, 5) BY <1>4, <2>1
  <2> QED BY <2>2, ReadIs
<1>9. PICK t \in Nat \ {0} : t = TwoTo[Cpu!W] BY Widths, TwoToNat
<1>10. half(0) \in 0 .. t - 1 /\ half(1) \in 0 .. t - 1 /\ half(4) \in 0 .. t - 1
  BY <1>9, LowWord DEF Complete
<1>11. PICK u \in 0 .. t - 1 : u = half(4) BY <1>10
<1>12. PICK v \in 0 .. t - 1 : v = half(1) BY <1>10
<1>13. PICK k \in 0 .. t - 1 : k = half(0) BY <1>10
<1>14. Cpu!Mul(u, v, 2 * Cpu!W) = u * v /\ u * v \in Nat
  <2>1. PICK len \in Nat : len = Cpu!W BY Widths
  <2>2. IsPower(t, len) BY <1>9, <2>1 DEF IsPower
  <2>3. HasHalves(u, v, t, len) BY <2>2, ProductFits
  <2>4. Cpu!Mul(u, v, 2 * len) = u * v /\ u * v \in Nat BY <2>3, Zenon DEF HasHalves
  <2> QED BY <2>1, <2>4, Zenon
<1>15. PICK p \in Nat : p = u * v BY <1>14
<1>16. PICK e \in Int : e = k - p OBVIOUS
<1>17. e = k - u * v BY <1>15, <1>16
<1> DEFINE w == e % TwoTo[Cpu!W]
<1>18. w \in 0 .. TwoTo[Cpu!X] - 1 BY SmallFits
<1>19. e = half(0) - Cpu!Mul(half(4), half(1), 2 * Cpu!W)
  BY <1>11, <1>12, <1>13, <1>14, <1>17, Zenon
<1> HIDE DEF w
<1>20. Cpu!Proceed(Cpu!Set(Cpu!Machine, i, 0, w))
  <2>1. w = (half(0) - Cpu!Mul(half(4), half(1), 2 * Cpu!W)) % Cpu!TwoTo[Cpu!W]
    BY <1>19, SameNumerals, Zenon DEF w
  <2>2. i.opcode \notin {"kMadd", "kUmaddl"} /\ i.opcode \in {"kMsub", "kUmsubl"} BY <1>4
  <2> QED BY <2>1, <2>2, <1>4, <1>6, <1>7, <1>8, Zenon DEF Cpu!DataProcessingThreeSource
<1>21. Cpu!Machine = [x |-> registers, f |-> flags, mem |-> memory] BY DEF Cpu!Machine
<1>22. Writes(5, w, flags) BY <1>4, <1>18, <1>20, <1>21, WrittenIs
<1>23. w = (half(0) - half(4) * half(1)) % TwoTo[Cpu!W]
  BY <1>11, <1>12, <1>13, <1>17, Zenon DEF w
<1> QED BY <1>22, <1>23, Zenon

\* So does what is left.
LEMMA LeftOverFits ==
  ASSUME NEW t \in Nat, IsPower(t, Cpu!W),
         NEW u \in 0 .. t - 1, NEW q \in 0 .. t - 1, NEW v \in 0 .. t - 1
  PROVE  LeftOver(u, q, v) \in 0 .. TwoTo[Cpu!X] - 1 /\ LeftOver(u, q, v) \in 0 .. TwoTo[Cpu!W] - 1
<1>1. PICK p \in Int : p = q * v
  <2>1. q * v \in Int OBVIOUS
  <2> QED BY <2>1
<1>2. PICK e \in Int : e = u - p OBVIOUS
<1>3. LeftOver(u, q, v) = e % TwoTo[Cpu!W] BY <1>1, <1>2, Zenon DEF LeftOver
<1> QED BY <1>3, SmallFits

\* Steps of UDIV, MSUB and of SDIV, MSUB.
LEMMA LeavingStep == ASSUME Leaving, Cpu!SingleStep PROVE Leaving'
<1> SUFFICES ASSUME NEW opc \in {2, 3}, program' = Sequence(RemainderOf(opc))
             PROVE  Complete' /\ AtRemainder(opc)'
  BY DEF Leaving
<1>1. program = Sequence(RemainderOf(opc)) /\ pc \in DOMAIN program BY ProgramStays
<1>2. Complete /\ AtRemainder(opc) BY <1>1 DEF Leaving
<1>3. /\ DOMAIN program = {0, 4} /\ program[0] = QuotientOf(opc, 0, 1, 4)
      /\ program[4] = Multiplied(0, 0, 1, 4, 1, 0, 5)
  BY <1>1, TwoInstructions DEF RemainderOf
<1>4. {0, 1, 4, 5} \subseteq Used BY DEF Used
<1>5. /\ half(0) \in 0 .. TwoTo[Cpu!W] - 1 /\ half(1) \in 0 .. TwoTo[Cpu!W] - 1
      /\ half(4) \in 0 .. TwoTo[Cpu!W] - 1
  BY <1>2, LowWord DEF Complete
<1>6. flags \in Flagged BY <1>2 DEF Complete, Sound
<1>7. CASE pc = 0
  <2> DEFINE w == Ratio(opc, half(0), half(1))
  <2>1. w \in 0 .. TwoTo[Cpu!W] - 1 BY <1>5, RatioFits
  <2>2. Writes(4, w, flags) BY <1>2, <1>3, <1>7, QuotientStep
  <2> HIDE DEF w
  <2>3. w % TwoTo[Cpu!W] = w BY <2>1, WordFits
  <2>4. w \in 0 .. TwoTo[Cpu!X] - 1
    <3>1. w \in Int BY <2>1
    <3>2. w % TwoTo[Cpu!W] \in 0 .. TwoTo[Cpu!X] - 1 BY <3>1, SmallFits
    <3> QED BY <2>3, <3>2
  <2>5. Complete' /\ half(4)' = w /\ Keeps(4) /\ pc' = pc + 4
    BY <1>2, <1>6, <2>2, <2>3, <2>4, WritesKeep
  <2>6. half(0)' = half(0) /\ half(1)' = half(1) BY <2>5, <1>4 DEF Keeps
  <2>7. Divides(opc)' BY <2>5, <2>6 DEF Divides, w
  <2> QED BY <1>7, <2>5, <2>7 DEF AtRemainder
<1>8. CASE pc = 4
  <2>1. Divides(opc) BY <1>2, <1>8 DEF AtRemainder
  <2> DEFINE w == LeftOver(half(0), half(4), half(1))
  <2>2. w \in 0 .. TwoTo[Cpu!X] - 1 /\ w \in 0 .. TwoTo[Cpu!W] - 1
    <3>1. PICK t \in Nat : t = TwoTo[Cpu!W] BY Widths, TwoToNat
    <3>2. IsPower(t, Cpu!W) BY <3>1 DEF IsPower
    <3>3. half(0) \in 0 .. t - 1 /\ half(1) \in 0 .. t - 1 /\ half(4) \in 0 .. t - 1
      BY <1>5, <3>1
    <3> QED BY <3>2, <3>3, LeftOverFits
  <2>3. Writes(5, w, flags)
    BY <1>2, <1>3, <1>8, MultiplySubtractStep DEF LeftOver
  <2> HIDE DEF w
  <2>4. w % TwoTo[Cpu!W] = w BY <2>2, WordFits
  <2>5. Complete' /\ half(5)' = w /\ Keeps(5) /\ pc' = pc + 4
    BY <1>2, <1>6, <2>2, <2>3, <2>4, WritesKeep
  <2>6. half(0)' = half(0) /\ half(1)' = half(1) /\ half(4)' = half(4)
    BY <2>5, <1>4 DEF Keeps
  <2>7. Divides(opc)' BY <2>1, <2>6 DEF Divides
  <2>8. LeavesOver' BY <2>5, <2>6 DEF LeavesOver, w
  <2> QED BY <1>8, <2>5, <2>7, <2>8 DEF AtRemainder
<1> QED BY <1>1, <1>3, <1>7, <1>8

\* UDIV and MSUB leave the remainder.
LEMMA UnsignedRemains ==
  ASSUME NEW t \in Nat \ {0}, IsPower(t, Cpu!W), NEW u \in 0 .. t - 1, NEW v \in 0 .. t - 1, v # 0,
         NEW q, q = Ratio(2, u, v), NEW r, r = LeftOver(u, q, v)
  PROVE  Splits(u, v, r, q) /\ r < v
<1>1. q = Cpu!Div(u, v) BY DEF Ratio
<1>2. PICK p \in Int : p = q
  <2>1. Cpu!Div(u, v) \in Int BY QuotientBelow
  <2> QED BY <1>1, <2>1
<1>3. u - v * p \in 0 .. v - 1
  <2>1. u - v * Cpu!Div(u, v) \in 0 .. v - 1 BY QuotientBelow
  <2> QED BY <1>1, <1>2, <2>1
<1>4. PICK e \in 0 .. v - 1 : e = u - v * p BY <1>3
<1>5. u = e + v * p
  <2>1. PICK vp \in Int : vp = v * p OBVIOUS
  <2> QED BY <1>4, <2>1
<1>6. t = TwoTo[Cpu!W] BY DEF IsPower
<1>7. r = e
  <2>1. v * p = p * v OBVIOUS
  <2>2. e = u - q * v BY <1>2, <1>4, <2>1
  <2>3. e \in 0 .. TwoTo[Cpu!W] - 1 BY <1>6
  <2>4. e % TwoTo[Cpu!W] = e BY <2>3, WordFits
  <2> QED BY <2>2, <2>4 DEF LeftOver
<1> QED BY <1>2, <1>4, <1>5, <1>7 DEF Splits

\* At the end the remainder is left.
LEMMA LeavingLeft == ASSUME Leaving PROVE RemaindersLeft
<1>1. Place(2) = 8 /\ \A opc \in {2, 3} : Len(RemainderOf(opc)) = 2
  BY Widths DEF Place, RemainderOf
<1>2. ASSUME NEW opc \in {2, 3}, Finished(RemainderOf(opc))
      PROVE  Complete /\ Divides(opc) /\ LeavesOver
  <2>1. pc = 8 /\ program = Sequence(RemainderOf(opc)) BY <1>1, <1>2 DEF Finished
  <2> QED BY <2>1 DEF Leaving, AtRemainder
<1>3. PICK t \in Nat \ {0} : t = TwoTo[Cpu!W] BY TwoToNat, Widths
<1>4. IsPower(t, Cpu!W) BY <1>3 DEF IsPower
<1>5. ASSUME Complete
      PROVE  half(0) \in 0 .. t - 1 /\ half(1) \in 0 .. t - 1 /\ half(4) \in 0 .. t - 1
  BY <1>3, <1>5, LowWord DEF Complete
<1>6. ASSUME Finished(RemainderOf(2)), half(1) # 0
      PROVE  half(4) * half(1) + half(5) = half(0) /\ half(5) < half(1)
  <2>1. Complete /\ Divides(2) /\ LeavesOver BY <1>2, <1>6
  <2>2. PICK u \in 0 .. t - 1 : u = half(0) BY <1>5, <2>1
  <2>3. PICK v \in 0 .. t - 1 : v = half(1) BY <1>5, <2>1
  <2>4. PICK q \in 0 .. t - 1 : q = half(4) BY <1>5, <2>1
  <2>5. PICK r : r = half(5) OBVIOUS
  <2>6. q = Ratio(2, u, v) /\ r = LeftOver(u, q, v) /\ v # 0
    BY <1>6, <2>1, <2>2, <2>3, <2>4, <2>5, Zenon DEF Divides, LeavesOver
  <2>7. Splits(u, v, r, q) /\ r < v BY <1>4, <2>6, UnsignedRemains
  <2>8. r \in Int
    <3>1. LeftOver(u, q, v) \in 0 .. TwoTo[Cpu!W] - 1 BY <1>4, LeftOverFits
    <3> QED BY <2>6, <3>1
  <2>9. u = r + v * q BY <2>7, Zenon DEF Splits
  <2>10. q * v + r = u
    <3>1. v * q = q * v OBVIOUS
    <3>2. PICK p \in Int : p = q * v OBVIOUS
    <3> QED BY <2>8, <2>9, <3>1, <3>2
  <2> QED BY <2>2, <2>3, <2>4, <2>5, <2>7, <2>10, Zenon
<1>7. ASSUME Finished(RemainderOf(3)), <<half(0), half(1)>> \notin Undivided
      PROVE  RemainderOk(half(0), half(1), half(4), half(5))
  <2>1. Complete /\ Divides(3) /\ LeavesOver BY <1>2, <1>7
  <2>2. PICK u \in 0 .. t - 1 : u = half(0) BY <1>5, <2>1
  <2>3. PICK v \in 0 .. t - 1 : v = half(1) BY <1>5, <2>1
  <2>4. PICK q : q = half(4) OBVIOUS
  <2>5. q = Cpu!Sdiv(u, v, Cpu!W) BY <2>1, <2>2, <2>3, <2>4 DEF Divides, Ratio
  <2>6. <<u, v>> \notin Undivided BY <1>7, <2>2, <2>3
  <2>7. RemainderOk(u, v, q, (u - q * v) % t) BY <1>4, <2>5, <2>6, SignedRemains
  <2>8. half(5) = (u - q * v) % t
    BY <1>3, <2>1, <2>2, <2>3, <2>4, Zenon DEF LeavesOver, LeftOver
  <2> QED BY <2>2, <2>3, <2>4, <2>7, <2>8, Zenon
<1> QED BY <1>6, <1>7, Zenon DEF RemaindersLeft, RemainderOk

-----------------------------------------------------------------------------
(* Frames.                                                                  *)

\* What STP and LDP are decoded to.
LEMMA PairDecoded ==
  ASSUME NEW w, NEW i, i = Cpu!DecodeInstruction(w),
         w.class = "LoadStorePair", w.opc = 2, w.load \in {0, 1}
  PROVE  PairedAs(i, w)
<1>1. Cpu!DecodeInstruction(w) = Cpu!DecodeLoadStorePair(w)
  BY Zenon DEF Cpu!DecodeInstruction
<1> DEFINE o == IF w.load = 0 THEN "kStp"
                ELSE IF w.opc = 1 /\ w.op3 # 0 THEN "kLdpsw" ELSE "kLdp"
           z == <<Cpu!x(Cpu!X, w.t), Cpu!x(Cpu!X, w.t2), Indexing(w)>>
<1>2. o = Paired(w.load) BY DEF Paired
<1>3. Cpu!DecodeLoadStorePair(w) = Cpu!insn(o, FALSE, z)
  <2>1. ~(w.opc = 3 \/ (w.opc = 1 /\ w.load = 0)) /\ w.opc >= 2 OBVIOUS
  <2> QED BY <2>1, Zenon DEF Cpu!DecodeLoadStorePair, Indexing
<1>4. z[1] = Cpu!x(Cpu!X, w.t) /\ z[2] = Cpu!x(Cpu!X, w.t2) /\ z[3] = Indexing(w)
  OBVIOUS
<1> HIDE DEF z, o
<1>5. i.opcode = o /\ i.operands = z BY <1>1, <1>3 DEF Cpu!insn
<1> QED BY <1>2, <1>4, <1>5 DEF PairedAs

\* The operand with register 31 as its base is at the stack pointer.
LEMMA IndexedIs ==
  ASSUME NEW mode \in {1, 3}, NEW offset \in Int,
         NEW o, o = Cpu!Indexed(Cpu!x_or_sp(Cpu!X, 31), offset, Cpu!X * 2, mode)
  PROVE  AtStack(o, offset, mode)
<1> DEFINE r == Cpu!x_or_sp(Cpu!X, 31)
           g == Cpu!Immediate(Cpu!X, offset)
<1>1. r.name = 32 BY DEF Cpu!x_or_sp, Cpu!Register, Cpu!kSp
<1>2. g.value = offset % TwoTo[Cpu!X] BY SameNumerals DEF Cpu!Immediate
<1> HIDE DEF r, g
<1>3. o = [kind |-> "ImmediateOffset", base |-> r, offset |-> g, size |-> Cpu!X * 2,
           writeback |-> mode \in {1, 3}, post_index |-> mode = 1]
  BY Zenon DEF Cpu!Indexed, Cpu!ImmediateOffset, r, g
<1> DEFINE back == mode \in {1, 3}
           post == mode = 1
<1>4. o = [kind |-> "ImmediateOffset", base |-> r, offset |-> g, size |-> Cpu!X * 2,
           writeback |-> back, post_index |-> post]
  BY <1>3, Zenon
<1> HIDE DEF back, post
<1>5. o.kind = "ImmediateOffset" /\ o.base = r /\ o.offset = g /\ o.size = Cpu!X * 2
  BY <1>4
<1>6. o.writeback = back /\ o.post_index = post BY <1>4
<1>7. o.writeback /\ (o.post_index <=> mode = 1)
  <2>1. back BY DEF back
  <2>2. post <=> mode = 1 BY Zenon DEF post
  <2> QED BY <1>6, <2>1, <2>2, Zenon
<1> QED BY <1>1, <1>2, <1>5, <1>7, Zenon DEF AtStack

\* Where such an operand is, and what is written back.
LEMMA AddressIs ==
  ASSUME NEW o, NEW offset \in Int, NEW mode \in {1, 3}, AtStack(o, offset, mode), NEW m
  PROVE  /\ Cpu!Address(m, o) = Moved(m.x[32], offset)
         /\ Cpu!Accessed(m, o) = IF mode = 1 THEN m.x[32] ELSE Moved(m.x[32], offset)
         /\ Cpu!WriteBack(m, o) = [m EXCEPT !.x[32] = Moved(m.x[32], offset) % TwoTo[Cpu!X]]
<1>1. Cpu!RegisterValue(m, 32) = m.x[32] BY DEF Cpu!RegisterValue, Cpu!kXzr, Cpu!kPc
<1>2. o.kind = "ImmediateOffset" /\ o.base.name = 32 /\ o.offset.value = offset % TwoTo[Cpu!X]
  BY Zenon DEF AtStack
<1>3. Cpu!Address(m, o) = (m.x[32] + (offset % TwoTo[Cpu!X])) % TwoTo[Cpu!X]
  BY <1>1, <1>2, SameNumerals, Zenon DEF Cpu!Address
<1>4. Cpu!Address(m, o) = Moved(m.x[32], offset) BY <1>3, Zenon DEF Moved
<1>5. o.writeback /\ (o.post_index <=> mode = 1) BY Zenon DEF AtStack
<1>6. Cpu!Accessed(m, o) = IF mode = 1 THEN m.x[32] ELSE Moved(m.x[32], offset)
  <2>1. CASE mode = 1
    <3>1. o.post_index BY <1>5, <2>1, Zenon
    <3>2. Cpu!Accessed(m, o) = m.x[32] BY <1>1, <1>2, <3>1, Zenon DEF Cpu!Accessed
    <3> QED BY <2>1, <3>2
  <2>2. CASE mode = 3
    <3>1. mode # 1 BY <2>2
    <3>2. ~o.post_index BY <1>5, <3>1, Zenon
    <3>3. Cpu!Accessed(m, o) = Cpu!Address(m, o) BY <3>2, Zenon DEF Cpu!Accessed
    <3> QED BY <1>4, <2>2, <3>3
  <2> QED BY <2>1, <2>2
<1>7. Cpu!WriteBack(m, o) = Cpu!SetRegister(m, 32, Moved(m.x[32], offset))
  BY <1>2, <1>4, <1>5, Zenon DEF Cpu!WriteBack
<1>8. Cpu!SetRegister(m, 32, Moved(m.x[32], offset))
      = [m EXCEPT !.x[32] = Moved(m.x[32], offset) % TwoTo[Cpu!X]]
  BY SameNumerals DEF Cpu!SetRegister, Cpu!kXzr
<1> QED BY <1>4, <1>6, <1>7, <1>8

\* Two registers have sixteen bytes.
LEMMA PairSizes ==
  /\ (Cpu!X * 2) \div Byte = 16 /\ Cpu!X * 2 = Byte * 16 /\ Cpu!X * 2 = Cpu!X + Cpu!X
  /\ 2 * Cpu!X = Cpu!X + Cpu!X
  /\ TwoTo[Cpu!X + Cpu!X] = TwoTo[Cpu!X] * TwoTo[Cpu!X]
  /\ TwoTo[Cpu!X] \in Nat \ {0} /\ TwoTo[Cpu!X] > 16
<1>1. Byte \in Nat \ {0} /\ Cpu!X = 8 * Byte /\ Cpu!X \in Nat BY Widths
<1>2. Cpu!X * 2 = Byte * 16 /\ Cpu!X * 2 = Cpu!X + Cpu!X /\ 2 * Cpu!X = Cpu!X + Cpu!X BY <1>1
<1>3. (Byte * 16) \div Byte = 16
  <2>1. PICK e \in Int : e = Byte * 16 BY <1>1
  <2>2. 16 \in Int /\ 0 \in 0 .. Byte - 1 /\ e = Byte * 16 + 0 BY <1>1, <2>1
  <2>3. e \div Byte = 16 BY <1>1, <2>2, PartsAre, Zenon
  <2> QED BY <2>1, <2>3
<1>4. TwoTo[Cpu!X + Cpu!X] = TwoTo[Cpu!X] * TwoTo[Cpu!X] BY <1>1, TwoToSum, Zenon
<1>5. TwoTo[Cpu!X] \in Nat \ {0} BY <1>1, TwoToNat
<1>6. TwoTo[8] <= TwoTo[Cpu!X] /\ TwoTo[8] > 16
  <2>1. 8 \in Nat /\ 8 <= Cpu!X BY <1>1
  <2>2. TwoTo[8] > 16 BY SmallPowers
  <2> QED BY <1>1, <2>1, <2>2, TwoToRises
<1> QED BY <1>2, <1>3, <1>4, <1>5, <1>6, TwoToNat

\* Sixteen bytes do not overlap: every one is stored at an address of its own.
LEMMA AddressesApart ==
  ASSUME NEW t \in Nat, t > 16, NEW s \in 0 .. t - 1, NEW k \in 0 .. 15
  PROVE  (s + k) % t \in 0 .. t - 1 /\ (((s + k) % t) - s) % t = k
<1>1. PICK z \in Int : z = s + k OBVIOUS
<1>2. z % t = IF z < t THEN z ELSE z - t
  <2>1. t \in Nat \ {0} /\ -t <= z /\ z < 2 * t /\ ~(z < 0) BY <1>1
  <2> QED BY <2>1, RemainderNear
<1>3. PICK y1 \in Int : y1 = IF z < t THEN z ELSE z - t BY <1>1
<1>4. z % t = y1 BY <1>2, <1>3
<1>5. PICK g \in Int : g = y1 - s BY <1>3
<1>6. g % t = k
  <2>1. t \in Nat \ {0} /\ -t <= g /\ g < 2 * t /\ g < t BY <1>1, <1>3, <1>5
  <2>2. g % t = IF g < 0 THEN g + t ELSE IF g < t THEN g ELSE g - t BY <2>1, RemainderNear
  <2> QED BY <1>1, <1>3, <1>5, <2>1, <2>2
<1> QED BY <1>1, <1>3, <1>4, <1>5, <1>6

\* What is stored is loaded.
LEMMA StoredLoads ==
  ASSUME NEW mem, NEW s \in Cpu!Addresses, NEW v \in Nat, v < TwoTo[Byte * 16]
  PROVE  Cpu!GetMemory(Cpu!SetMemory(mem, s, v, Cpu!X * 2), s, Cpu!X * 2) = v
<1> DEFINE after == Cpu!SetMemory(mem, s, v, Cpu!X * 2)
           d == [k \in 0 .. 15 |-> after[(s + k) % TwoTo[Cpu!X]]]
<1>1. PICK t \in Nat : t = TwoTo[Cpu!X] /\ t > 16 BY PairSizes
<1>2. Cpu!Addresses = 0 .. t - 1 BY <1>1, SameNumerals DEF Cpu!Addresses
<1>3. after = [address \in Cpu!Addresses |->
                IF (address - s) % t < 16
                THEN (v \div TwoTo[Byte * ((address - s) % t)]) % TwoTo[Byte] ELSE mem[address]]
  BY <1>1, PairSizes, SameNumerals, Zenon DEF Cpu!SetMemory
<1> HIDE DEF after
<1>4. ASSUME NEW k \in 0 .. 15 PROVE d[k] = (v \div TwoTo[Byte * k]) % TwoTo[Byte]
  <2>1. (s + k) % t \in 0 .. t - 1 /\ (((s + k) % t) - s) % t = k BY <1>1, <1>2, AddressesApart
  <2>2. PICK address \in Cpu!Addresses : address = (s + k) % t BY <1>2, <2>1
  <2>3. (address - s) % t = k /\ k < 16 BY <2>1, <2>2
  <2>4. d[k] = after[address] BY <1>1, <2>2
  <2> HIDE DEF d
  <2> QED BY <1>3, <2>3, <2>4
<1>5. DigitsOf(d, v, Byte, 16)
  <2> HIDE DEF d
  <2> QED BY <1>4 DEF DigitsOf
<1>6. Number(TwoTo[Byte], d, 16) = v
  <2>1. Byte \in Nat /\ 16 \in Nat BY Widths
  <2> HIDE DEF d
  <2> QED BY <1>5, <2>1, DigitsStandFor
<1>7. Cpu!GetMemory(after, s, Cpu!X * 2) = Cpu!Number(Cpu!TwoTo[Byte], d, 16)
  <2>1. 16 - 1 = 15 OBVIOUS
  <2> QED BY <2>1, PairSizes, SameNumerals, Zenon DEF Cpu!GetMemory
<1> HIDE DEF d
<1> QED BY <1>6, <1>7, SameNumerals, Zenon DEF after

\* A number below the modulus.
LEMMA Below ==
  ASSUME NEW t \in Nat \ {0}, NEW v \in 0 .. t - 1
  PROVE  v % t = v
<1>1. 0 \in Int /\ v = t * 0 + v /\ v \in Int OBVIOUS
<1> QED BY <1>1, PartsAre, Zenon

\* Packing loses nothing.
LEMMA PackedIs ==
  ASSUME NEW t \in Nat \ {0}, IsPower(t, Cpu!X), NEW u \in 0 .. t - 1, NEW v \in 0 .. t - 1
  PROVE  Packed(t, u, v)
<1>1. t = TwoTo[Cpu!X] BY DEF IsPower
<1>2. PICK tt \in Nat \ {0} : tt = t * t
  <2>1. t * t \in Nat \ {0} OBVIOUS
  <2> QED BY <2>1
<1>3. TwoTo[Cpu!X + Cpu!X] = tt BY <1>1, <1>2, PairSizes
<1>4. PICK h \in Nat : h = t * v
  <2>1. t * v \in Nat OBVIOUS
  <2> QED BY <2>1
<1>5. h <= tt - t
  <2>1. t * v <= t * (t - 1) OBVIOUS
  <2>2. t * (t - 1) = t * t - t OBVIOUS
  <2> QED BY <2>1, <2>2, <1>2, <1>4
<1>6. PICK z \in 0 .. tt - 1 : z = u + h BY <1>4, <1>5
<1>7. z % tt = z /\ h % tt = h
  <2>1. 0 \in Int /\ h \in 0 .. tt - 1 /\ z = tt * 0 + z /\ h = tt * 0 + h /\ z \in Int /\ h \in Int
    BY <1>4, <1>5
  <2> QED BY <2>1, PartsAre, Zenon
<1>8. z % t = u /\ (z \div t) % t = v
  <2>1. z = t * v + u /\ z \in Int /\ v \in Int BY <1>4, <1>6
  <2>2. z \div t = v /\ z % t = u BY <2>1, PartsAre, Zenon
  <2>3. v % t = v BY Below
  <2> QED BY <2>2, <2>3
<1>9. Cpu!Pack(<<u, v>>, Cpu!X) = z
  <2>1. Cpu!Lshl(v, Cpu!X, Cpu!X + Cpu!X) = h
    <3>1. v * t = h BY <1>4
    <3>2. (v * t) % tt = h BY <1>7, <3>1
    <3> QED BY <1>1, <1>3, <3>2, SameNumerals, Zenon DEF Cpu!Lshl
  <2>2. Cpu!Or(u, h, Cpu!X + Cpu!X) = u + h
    <3>1. PICK j \in Nat : j = Cpu!X BY Widths
    <3>2. u \in Nat /\ u < TwoTo[j] /\ v \in Nat /\ v < TwoTo[j] BY <1>1, <3>1
    <3>3. h = TwoTo[j] * v BY <1>1, <1>4, <3>1
    <3>4. Cpu!Or(u, h, j + j) = u + h BY <3>2, <3>3, OrJoins
    <3> QED BY <3>1, <3>4
  <2>3. <<u, v>>[1] = u /\ <<u, v>>[2] = v OBVIOUS
  <2>4. Cpu!Pack(<<u, v>>, Cpu!X) = Cpu!Or(u, Cpu!Lshl(v, Cpu!X, Cpu!X + Cpu!X), Cpu!X + Cpu!X)
    BY <2>3, PairSizes, Zenon DEF Cpu!Pack
  <2> QED BY <2>1, <2>2, <2>4, <1>6, Zenon
<1>10. TwoTo[Cpu!X * 2] = tt /\ TwoTo[Byte * 16] = tt BY <1>3, PairSizes, Zenon
<1>11. z = u + t * v BY <1>4, <1>6
<1>12. z \in Nat /\ z < tt OBVIOUS
<1> QED BY <1>7, <1>8, <1>9, <1>10, <1>11, <1>12, Zenon DEF Packed

\* There and back.
LEMMA MovedBack ==
  ASSUME NEW s \in 0 .. TwoTo[Cpu!X] - 1, NEW g \in Int, NEW c \in Int, c = -g
  PROVE  /\ Moved(s, c) \in 0 .. TwoTo[Cpu!X] - 1
         /\ Moved(Moved(s, c), g) = s
<1>1. PICK t \in Nat \ {0} : t = TwoTo[Cpu!X] BY PairSizes
<1>2. PICK p \in Int : p = c % t BY <1>1
<1>3. PICK q1 \in Int : c = t * q1 + p
  <2>1. c \div t \in Int /\ c = t * (c \div t) + (c % t) BY Parts
  <2> QED BY <1>2, <2>1
<1>4. PICK e \in Int : e = s + p BY <1>1
<1>5. PICK r \in 0 .. t - 1 : r = e % t
  <2>1. e % t \in 0 .. t - 1 BY Parts
  <2> QED BY <2>1
<1>6. PICK q2 \in Int : e = t * q2 + r
  <2>1. e \div t \in Int /\ e = t * (e \div t) + (e % t) BY Parts
  <2> QED BY <1>5, <2>1
<1>7. PICK k \in Int : k = g % t BY <1>1
<1>8. PICK q3 \in Int : g = t * q3 + k
  <2>1. g \div t \in Int /\ g = t * (g \div t) + (g % t) BY Parts
  <2> QED BY <1>7, <2>1
<1>9. PICK z \in Int : z = r + k OBVIOUS
<1>10. z = t * (-q1 - q2 - q3) + s
  <2>1. t * (-q1 - q2 - q3) = -(t * q1) - t * q2 - t * q3 OBVIOUS
  <2>2. PICK i1 \in Int : i1 = t * q1 OBVIOUS
  <2>3. PICK i2 \in Int : i2 = t * q2 OBVIOUS
  <2>4. PICK i3 \in Int : i3 = t * q3 OBVIOUS
  <2>5. c = i1 + p /\ e = i2 + r /\ g = i3 + k BY <1>3, <1>6, <1>8, <2>2, <2>3, <2>4
  <2>6. z = -i1 - i2 - i3 + s BY <1>1, <1>4, <1>9, <2>5
  <2> QED BY <2>1, <2>2, <2>3, <2>4, <2>6, <1>1
<1>11. PICK q \in Int : q = -q1 - q2 - q3
  <2>1. -q1 - q2 - q3 \in Int OBVIOUS
  <2> QED BY <2>1
<1>12. z % t = s
  <2>1. z = t * q + s /\ s \in 0 .. t - 1 /\ z \in Int BY <1>1, <1>10, <1>11, Zenon
  <2> QED BY <2>1, PartsAre, Zenon
<1>13. Moved(s, c) = r BY <1>1, <1>2, <1>4, <1>5, Zenon DEF Moved
<1>14. Moved(r, g) = s BY <1>1, <1>7, <1>9, <1>12, Zenon DEF Moved
<1> QED BY <1>1, <1>13, <1>14

\* The immediate of the instruction that makes room, and of the one that gives it back.
LEMMA RoomIs ==
  ASSUME NEW by \in 1 .. TwoTo[OffsetBits - 1] - 1
  PROVE  /\ Cpu!sign_extend_bits(by) = by /\ Cpu!sign_extend_bits(TwoTo[OffsetBits] - by) = -by
         /\ by \in Int
<1>1. PICK h \in Nat \ {0} : h = TwoTo[OffsetBits - 1] BY Halves, Widths
<1>2. TwoTo[OffsetBits] = 2 * h BY <1>1, Halves, Widths
<1>3. by \in 1 .. h - 1 BY <1>1
<1> QED BY <1>1, <1>2, <1>3, SameNumerals DEF Cpu!sign_extend_bits

\* STP stores both registers where it has moved the stack pointer to.
LEMMA PushStep ==
  ASSUME Complete, registers[32] \in 0 .. TwoTo[Cpu!X] - 1, Cpu!SingleStep, pc \in 0 .. 100,
         NEW by \in 1 .. TwoTo[OffsetBits - 1] - 1, program[pc] = Pushing(by)
  PROVE  Pushes(by)
<1> DEFINE word == Pushing(by)
           i == Cpu!DecodeInstruction(word)
<1>1. /\ word.class = "LoadStorePair" /\ word.opc = 2 /\ word.load = 0 /\ word.op3 = 3
      /\ word.imm = TwoTo[OffsetBits] - by /\ word.t = 0 /\ word.t2 = 1 /\ word.n = 31
  BY DEF Pushing, StackPair
<1>2. Cpu!Translate(Cpu!Machine, i) BY Stepping
<1> HIDE DEF word
<1> DEFINE o == Indexing(word)
<1>3. /\ i.opcode = "kStp" /\ i.operands[1] = Cpu!x(Cpu!X, 0) /\ i.operands[2] = Cpu!x(Cpu!X, 1)
      /\ i.operands[3] = o
  <2> HIDE DEF i, o
  <2>1. i = Cpu!DecodeInstruction(word) BY DEF i
  <2>2. PairedAs(i, word) BY <1>1, <2>1, PairDecoded
  <2> QED BY <1>1, <2>2 DEF PairedAs, Paired, o
<1> HIDE DEF i
<1>4. PICK offset \in Int : offset = (-by) * 8 BY RoomIs
<1>5. AtStack(o, offset, 3)
  <2>1. o = Cpu!Indexed(Cpu!x_or_sp(Cpu!X, 31), offset, Cpu!X * 2, 3)
    BY <1>1, <1>4, RoomIs, Zenon DEF Indexing
  <2> HIDE DEF o
  <2> QED BY <2>1, IndexedIs
<1> HIDE DEF o
<1>6. Cpu!LoadStorePair(Cpu!Machine, i)
  <2>1. i.opcode \in {"kLdp", "kStp"} BY <1>3
  <2> QED BY <1>2, <2>1, Translates
<1>7. /\ Cpu!Get(Cpu!Machine, i, 0) = registers[0] /\ Cpu!Get(Cpu!Machine, i, 1) = registers[1]
      /\ Cpu!SizeOf(i, 0) = Cpu!X
  <2>1. 0 + 1 = 1 /\ 1 + 1 = 2 OBVIOUS
  <2>2. i.operands[0 + 1] = Cpu!x(Cpu!X, 0) /\ i.operands[1 + 1] = Cpu!x(Cpu!X, 1)
    BY <1>3, <2>1
  <2> QED BY <2>2, WholeIs
<1>8. Cpu!Op(i, 2) = o BY <1>3 DEF Cpu!Op
<1>9. PICK t \in Nat \ {0} : t = TwoTo[Cpu!X] BY PairSizes
<1>10. PICK u \in 0 .. t - 1 : u = registers[0] BY <1>9, Whole
<1>11. PICK v \in 0 .. t - 1 : v = registers[1] BY <1>9, Whole
<1>12. Packed(t, u, v)
  <2>1. IsPower(t, Cpu!X) BY <1>9 DEF IsPower
  <2> QED BY <2>1, PackedIs
<1>13. Cpu!Proceed(Cpu!Set(Cpu!Machine, i, 2, u + t * v))
  <2>1. Cpu!Proceed(Cpu!Set(Cpu!Machine, i, 2, Cpu!Pack(<<u, v>>, Cpu!X)))
    BY <1>3, <1>6, <1>7, <1>10, <1>11, Zenon DEF Cpu!LoadStorePair
  <2> QED BY <1>12, <2>1, Zenon DEF Packed
<1> DEFINE m == Cpu!Machine
           low == Lowered(by)
           saved == Cpu!SetMemory(memory, low, u + t * v, Cpu!X * 2)
           m1 == [m EXCEPT !.mem = saved]
<1>14. m.x = registers /\ m.f = flags /\ m.mem = memory BY DEF Cpu!Machine
<1>15. m1.x = registers /\ m1.f = flags /\ m1.mem = saved BY DEF Cpu!Machine
<1>16. m1 = [x |-> registers, f |-> flags, mem |-> saved] BY DEF Cpu!Machine
<1> HIDE DEF m, m1, saved
<1>17. low = Moved(registers[32], offset) BY <1>4 DEF Lowered
<1>18. low \in 0 .. t - 1 /\ low % t = low
  <2>1. PICK g \in Int : g = -offset OBVIOUS
  <2>2. offset = -g BY <2>1
  <2>3. Moved(registers[32], offset) \in 0 .. TwoTo[Cpu!X] - 1 BY <2>2, MovedBack
  <2>4. low \in 0 .. t - 1 BY <1>9, <1>17, <2>3
  <2> HIDE DEF low
  <2> QED BY <2>4, Below
<1> HIDE DEF low
<1>19. Cpu!Accessed(m, o) = low
  <2>1. Cpu!Accessed(m, o) = IF 3 = 1 THEN m.x[32] ELSE Moved(m.x[32], offset)
    BY <1>5, AddressIs
  <2> QED BY <2>1, <1>14, <1>17
<1>20. Cpu!WriteBack(m1, o) = [m1 EXCEPT !.x[32] = low]
  <2>1. Cpu!WriteBack(m1, o) = [m1 EXCEPT !.x[32] = Moved(m1.x[32], offset) % TwoTo[Cpu!X]]
    BY <1>5, AddressIs
  <2>2. Moved(m1.x[32], offset) % TwoTo[Cpu!X] = low BY <1>9, <1>15, <1>17, <1>18
  <2> QED BY <2>1, <2>2, Zenon
<1>21. Cpu!SetOperand(m, o, u + t * v) = Cpu!WriteBack(m1, o)
  <2>1. o.kind # "Register" /\ o.size = Cpu!X * 2
    <3>1. o.kind = "ImmediateOffset" /\ o.size = Cpu!X * 2 BY <1>5, Zenon DEF AtStack
    <3> QED BY <3>1
  <2>2. (u + t * v) % Cpu!TwoTo[o.size] = u + t * v
    BY <1>12, <2>1, SameNumerals, Zenon DEF Packed
  <2>3. Cpu!SetOperand(m, o, u + t * v)
        = Cpu!WriteBack([m EXCEPT !.mem = Cpu!SetMemory(m.mem, low, u + t * v, Cpu!X * 2)], o)
    BY <1>19, <2>1, <2>2, Zenon DEF Cpu!SetOperand
  <2>4. [m EXCEPT !.mem = Cpu!SetMemory(m.mem, low, u + t * v, Cpu!X * 2)] = m1
    BY <1>14, Zenon DEF m1, saved
  <2> QED BY <2>3, <2>4, Zenon
<1> DEFINE m2 == [m1 EXCEPT !.x[32] = low]
<1>22. /\ m2.x = [registers EXCEPT ![32] = low] /\ m2.f = flags /\ m2.mem = saved
  BY <1>16
<1>23. Cpu!Proceed(m2)
  BY <1>8, <1>13, <1>20, <1>21, Zenon DEF Cpu!Set, m, m2
<1> HIDE DEF m2
<1>24. (pc + InstructionBytes) % Cpu!TwoTo[Cpu!X] = pc + 4 BY NoWrap, Widths, SameNumerals
<1>25. /\ registers' = [registers EXCEPT ![32] = low] /\ flags' = flags /\ memory' = saved
       /\ pc' = pc + 4
  BY <1>22, <1>23, <1>24 DEF Cpu!Proceed, Cpu!Leave
<1>26. saved = Cpu!SetMemory(memory, low, Both, Cpu!X * 2)
  BY <1>9, <1>10, <1>11, Zenon DEF Both, saved
<1> QED BY <1>25, <1>26, Zenon DEF Pushes, low

\* LDP loads what was stored and moves the stack pointer afterwards.
LEMMA PopStep ==
  ASSUME Complete, registers[32] \in 0 .. TwoTo[Cpu!X] - 1, Cpu!SingleStep, pc \in 0 .. 100,
         NEW by \in 1 .. TwoTo[OffsetBits - 1] - 1, program[pc] = Popping(by), Stacked
  PROVE  Pops(by)
<1> DEFINE word == Popping(by)
           i == Cpu!DecodeInstruction(word)
<1>1. /\ word.class = "LoadStorePair" /\ word.opc = 2 /\ word.load = 1 /\ word.op3 = 1
      /\ word.imm = by /\ word.t = 4 /\ word.t2 = 5 /\ word.n = 31
  BY DEF Popping, StackPair
<1>2. Cpu!Translate(Cpu!Machine, i) BY Stepping
<1> HIDE DEF word
<1> DEFINE o == Indexing(word)
<1>3. /\ i.opcode = "kLdp" /\ i.operands[1] = Cpu!x(Cpu!X, 4) /\ i.operands[2] = Cpu!x(Cpu!X, 5)
      /\ i.operands[3] = o
  <2> HIDE DEF i, o
  <2>1. i = Cpu!DecodeInstruction(word) BY DEF i
  <2>2. PairedAs(i, word) BY <1>1, <2>1, PairDecoded
  <2> QED BY <1>1, <2>2 DEF PairedAs, Paired, o
<1> HIDE DEF i
<1>4. PICK offset \in Int : offset = by * 8 BY RoomIs
<1>5. AtStack(o, offset, 1)
  <2>1. o = Cpu!Indexed(Cpu!x_or_sp(Cpu!X, 31), offset, Cpu!X * 2, 1)
    BY <1>1, <1>4, RoomIs, Zenon DEF Indexing
  <2> HIDE DEF o
  <2> QED BY <2>1, IndexedIs
<1> HIDE DEF o
<1>6. Cpu!LoadStorePair(Cpu!Machine, i)
  <2>1. i.opcode \in {"kLdp", "kStp"} BY <1>3
  <2> QED BY <1>2, <2>1, Translates
<1>7. Cpu!SizeOf(i, 0) = Cpu!X
  <2>1. 0 + 1 = 1 OBVIOUS
  <2>2. i.operands[0 + 1] = Cpu!x(Cpu!X, 4) BY <1>3, <2>1
  <2> QED BY <2>2, WholeIs
<1>8. Cpu!Op(i, 2) = o BY <1>3 DEF Cpu!Op
<1>9. PICK t \in Nat \ {0} : t = TwoTo[Cpu!X] BY PairSizes
<1>10. PICK u \in 0 .. t - 1 : u = registers[0] BY <1>9, Whole
<1>11. PICK v \in 0 .. t - 1 : v = registers[1] BY <1>9, Whole
<1>12. Packed(t, u, v)
  <2>1. IsPower(t, Cpu!X) BY <1>9 DEF IsPower
  <2> QED BY <2>1, PackedIs
<1> DEFINE m == Cpu!Machine
           up == GivenBack(by)
           m1 == [m EXCEPT !.x[32] = up]
           m2 == [m1 EXCEPT !.x[4] = u]
           m3 == [m2 EXCEPT !.x[5] = v]
<1>13. m.x = registers /\ m.f = flags /\ m.mem = memory BY DEF Cpu!Machine
<1>14. m = [x |-> registers, f |-> flags, mem |-> memory] BY DEF Cpu!Machine
<1> HIDE DEF m
<1>15. up = Moved(registers[32], offset) BY <1>4 DEF GivenBack
<1>16. up \in 0 .. t - 1 /\ up % t = up
  <2>1. PICK g \in Int : g = -offset OBVIOUS
  <2>2. offset = -g BY <2>1
  <2>3. Moved(registers[32], offset) \in 0 .. TwoTo[Cpu!X] - 1 BY <2>2, MovedBack
  <2>4. up \in 0 .. t - 1 BY <1>9, <1>15, <2>3
  <2> HIDE DEF up
  <2> QED BY <2>4, Below
<1> HIDE DEF up
<1>17. Cpu!Accessed(m, o) = registers[32]
  <2>1. Cpu!Accessed(m, o) = IF 1 = 1 THEN m.x[32] ELSE Moved(m.x[32], offset)
    BY <1>5, AddressIs
  <2> QED BY <2>1, <1>13
<1>18. Cpu!WriteBack(m, o) = m1
  <2>1. Cpu!WriteBack(m, o) = [m EXCEPT !.x[32] = Moved(m.x[32], offset) % TwoTo[Cpu!X]]
    BY <1>5, AddressIs
  <2>2. Moved(m.x[32], offset) % TwoTo[Cpu!X] = up BY <1>9, <1>13, <1>15, <1>16
  <2> QED BY <2>1, <2>2, Zenon
<1>19. Cpu!GetOperand(m, o) = u + t * v
  <2>1. o.kind # "Register" /\ o.kind # "Immediate" /\ o.size = Cpu!X * 2
    <3>1. o.kind = "ImmediateOffset" /\ o.size = Cpu!X * 2 BY <1>5, Zenon DEF AtStack
    <3> QED BY <3>1
  <2>2. Cpu!GetOperand(m, o) = Cpu!GetMemory(memory, registers[32], Cpu!X * 2)
    BY <1>13, <1>17, <2>1, Zenon DEF Cpu!GetOperand
  <2> QED BY <2>2, <1>9, <1>10, <1>11, Zenon DEF Stacked, Both
<1>20. Cpu!Unpack(u + t * v, Cpu!X) = <<u, v>>
  <2>1. Cpu!Lshr(u + t * v, Cpu!X) = (u + t * v) \div t BY <1>9, SameNumerals, Zenon DEF Cpu!Lshr
  <2>2. (u + t * v) % t = u /\ ((u + t * v) \div t) % t = v BY <1>12, Zenon DEF Packed
  <2> QED BY <1>9, <2>1, <2>2, SameNumerals, Zenon DEF Cpu!Unpack
<1>21. <<u, v>>[1] = u /\ <<u, v>>[2] = v OBVIOUS
<1>22. Cpu!Proceed(Cpu!Set(Cpu!Set(m1, i, 0, u), i, 1, v))
  <2>1. Cpu!LoadPair(m, i, Cpu!Same)
    <3>1. i.opcode # "kLdpsw" /\ i.opcode # "kStp" BY <1>3
    <3> QED BY <3>1, <1>6, Zenon DEF Cpu!LoadStorePair, m
  <2>2. Cpu!Get(m, i, 2) = u + t * v /\ Cpu!After(m, i, 2) = m1
    BY <1>8, <1>18, <1>19, Zenon DEF Cpu!Get, Cpu!After
  <2>3. Cpu!Proceed(Cpu!Set(Cpu!Set(m1, i, 0, <<u, v>>[1]), i, 1, <<u, v>>[2]))
    BY <1>7, <1>20, <2>1, <2>2, Zenon DEF Cpu!LoadPair, Cpu!Same
  <2> QED BY <2>3, <1>21, Zenon
<1>23. u % t = u /\ v % t = v BY Below
<1>24. ASSUME NEW z, NEW r \in {4, 5}, NEW k, NEW w \in 0 .. t - 1, w % t = w,
              Cpu!Op(i, k) = Cpu!Register(Cpu!X, r)
       PROVE  Cpu!Set(z, i, k, w) = [z EXCEPT !.x[r] = w]
  <2> DEFINE reg == Cpu!Register(Cpu!X, r)
  <2>1. reg.kind = "Register" /\ reg.name = r BY DEF Cpu!Register
  <2> HIDE DEF reg
  <2>2. Cpu!SetOperand(z, reg, w) = Cpu!SetRegister(z, r, w)
    BY <2>1, Zenon DEF Cpu!SetOperand
  <2>3. Cpu!SetRegister(z, r, w) = [z EXCEPT !.x[r] = w % TwoTo[Cpu!X]]
    BY SameNumerals DEF Cpu!SetRegister, Cpu!kXzr
  <2> QED BY <1>9, <1>24, <2>2, <2>3, Zenon DEF Cpu!Set, reg
<1>25. Cpu!Op(i, 0) = Cpu!Register(Cpu!X, 4) /\ Cpu!Op(i, 1) = Cpu!Register(Cpu!X, 5)
  BY <1>3 DEF Cpu!Op, Cpu!x
<1>26. Cpu!Set(m1, i, 0, u) = m2
  <2> HIDE DEF m1
  <2> QED BY <1>23, <1>24, <1>25
<1>27. Cpu!Set(m2, i, 1, v) = m3
  <2> HIDE DEF m2
  <2> QED BY <1>23, <1>24, <1>25
<1>28. Cpu!Proceed(m3) BY <1>22, <1>26, <1>27, Zenon
<1>29. m1.x = [registers EXCEPT ![32] = up] /\ m1.f = flags
       /\ m1 = [x |-> m1.x, f |-> flags, mem |-> memory]
  BY <1>14
<1>30. m2.x = [m1.x EXCEPT ![4] = u] /\ m2.f = flags
       /\ m2 = [x |-> m2.x, f |-> flags, mem |-> memory]
  <2> HIDE DEF m1
  <2> QED BY <1>29
<1>31. m3.x = [m2.x EXCEPT ![5] = v] /\ m3.f = flags
  <2> HIDE DEF m2
  <2> QED BY <1>30
<1> HIDE DEF m1, m2, m3
<1>32. (pc + InstructionBytes) % Cpu!TwoTo[Cpu!X] = pc + 4 BY NoWrap, Widths, SameNumerals
<1>33. registers' = m3.x /\ flags' = flags /\ pc' = pc + 4
  BY <1>28, <1>31, <1>32 DEF Cpu!Proceed, Cpu!Leave
<1>34. registers' = [[[registers EXCEPT ![32] = up] EXCEPT ![4] = registers[0]]
                       EXCEPT ![5] = registers[1]]
  BY <1>10, <1>11, <1>29, <1>30, <1>31, <1>33, Zenon
<1> QED BY <1>33, <1>34, Zenon DEF Pops, up

\* Steps of STP, LDP.
LEMMA FramingStep == ASSUME Framing, Cpu!SingleStep PROVE Framing'
<1> SUFFICES ASSUME NEW by \in 1 .. TwoTo[OffsetBits - 1] - 1, program' = Sequence(Frame(by))
             PROVE  Framed' /\ AtFrame(by)'
  BY DEF Framing
<1>1. program = Sequence(Frame(by)) /\ pc \in DOMAIN program BY ProgramStays
<1>2. Framed /\ AtFrame(by) BY <1>1 DEF Framing
<1>3. DOMAIN program = {0, 4} /\ program[0] = Pushing(by) /\ program[4] = Popping(by)
  BY <1>1, TwoInstructions DEF Frame, Pushing, Popping
<1>4. Used = {0, 1, 2, 3, 4, 5, 30, 32} BY DEF Used, Arm!SP
<1>5. PICK t \in Nat \ {0} : t = TwoTo[Cpu!X] /\ Cpu!Addresses = 0 .. t - 1
  BY PairSizes, SameNumerals DEF Cpu!Addresses
<1>6. /\ Complete /\ registers[32] \in 0 .. t - 1 /\ registers[30] \in 0 .. t - 1
      /\ Used \subseteq DOMAIN registers /\ flags \in Flagged
      /\ \A r \in 0 .. 5 : registers[r] \in 0 .. t - 1
  BY <1>2, <1>5 DEF Framed, Complete, Sound
<1>7. by \in Int BY RoomIs
<1>8. CASE pc = 0
  <2>1. Pushes(by) BY <1>3, <1>5, <1>6, <1>8, PushStep
  <2>2. registers[32] = registers[30] BY <1>2, <1>8 DEF AtFrame
  <2>3. PICK low : low = Lowered(by) OBVIOUS
  <2>4. low \in 0 .. t - 1 /\ low = Moved(registers[30], (-by) * 8)
    <3>1. PICK g \in Int : g = by * 8 BY <1>7
    <3>2. PICK c \in Int : c = (-by) * 8 BY <1>7
    <3>3. c = -g BY <1>7, <3>1, <3>2
    <3>4. Moved(registers[32], c) \in 0 .. t - 1 BY <1>5, <1>6, <3>3, MovedBack
    <3> QED BY <2>2, <2>3, <3>2, <3>4 DEF Lowered
  <2>5. /\ registers' = [registers EXCEPT ![32] = low] /\ flags' = flags /\ pc' = 4
        /\ memory' = Cpu!SetMemory(memory, low, Both, Cpu!X * 2)
    BY <1>8, <2>1, <2>3 DEF Pushes
  <2>6. registers'[32] = low /\ registers'[30] = registers[30]
        /\ \A r \in 0 .. 5 : registers'[r] = registers[r]
    BY <1>4, <1>6, <2>5
  <2>7. DOMAIN registers' = DOMAIN registers BY <2>5
  <2>8. Framed' BY <1>5, <1>6, <2>4, <2>5, <2>6, <2>7 DEF Framed, Complete, Sound
  <2>9. Stacked'
    <3>1. PICK u \in 0 .. t - 1 : u = registers[0] BY <1>6
    <3>2. PICK v \in 0 .. t - 1 : v = registers[1] BY <1>6
    <3>3. IsPower(t, Cpu!X) BY <1>5 DEF IsPower
    <3>4. Packed(t, u, v) BY <3>3, PackedIs
    <3>5. PICK z \in Nat : z = u + t * v /\ z < TwoTo[Byte * 16] BY <3>4, Zenon DEF Packed
    <3>6. Both = z /\ Both' = z BY <1>5, <2>6, <3>1, <3>2, <3>5 DEF Both
    <3>7. low \in Cpu!Addresses BY <1>5, <2>4
    <3>8. Cpu!GetMemory(Cpu!SetMemory(memory, low, z, Cpu!X * 2), low, Cpu!X * 2) = z
      BY <3>5, <3>7, StoredLoads
    <3> QED BY <2>5, <2>6, <3>6, <3>8, Zenon DEF Stacked
  <2> QED BY <2>4, <2>5, <2>6, <2>8, <2>9 DEF AtFrame
<1>9. CASE pc = 4
  <2>1. registers[32] = Moved(registers[30], (-by) * 8) /\ Stacked BY <1>2, <1>9 DEF AtFrame
  <2>2. Pops(by) BY <1>3, <1>5, <1>6, <1>9, <2>1, PopStep
  <2>3. PICK up : up = GivenBack(by) OBVIOUS
  <2>4. up = registers[30]
    <3>1. PICK g \in Int : g = by * 8 BY <1>7
    <3>2. PICK c \in Int : c = (-by) * 8 BY <1>7
    <3>3. c = -g BY <1>7, <3>1, <3>2
    <3>4. Moved(Moved(registers[30], c), g) = registers[30] BY <1>5, <1>6, <3>3, MovedBack
    <3> QED BY <2>1, <2>3, <3>1, <3>2, <3>4, Zenon DEF GivenBack
  <2>5. /\ registers' = [[[registers EXCEPT ![32] = up] EXCEPT ![4] = registers[0]]
                           EXCEPT ![5] = registers[1]]
        /\ flags' = flags /\ pc' = 8
    BY <1>9, <2>2, <2>3 DEF Pops
  <2>6. /\ registers'[32] = registers[30] /\ registers'[30] = registers[30]
        /\ registers'[4] = registers[0] /\ registers'[5] = registers[1]
        /\ \A r \in 0 .. 3 : registers'[r] = registers[r]
        /\ DOMAIN registers' = DOMAIN registers
    BY <1>4, <1>6, <2>4, <2>5
  <2>7. \A r \in 0 .. 5 : registers'[r] \in 0 .. t - 1 BY <1>6, <2>6
  <2>8. Framed' BY <1>5, <1>6, <2>5, <2>6, <2>7 DEF Framed, Complete, Sound
  <2> QED BY <2>5, <2>6, <2>8 DEF AtFrame
<1> QED BY <1>1, <1>3, <1>8, <1>9

\* The registers that are used are those of a machine, x30 is the stack pointer.
LEMMA CompleteAtFirst ==
  ASSUME Cpu!Init
  PROVE  Framed /\ registers[32] = registers[30]
<1>1. PICK k \in DOMAIN Starts : registers \in Starts[k].registers BY Zenon DEF Cpu!Init
<1>2. Used \subseteq DOMAIN registers /\ registers[30] = registers[Arm!SP]
  BY <1>1, StartsAssumption, Zenon
<1>3. \A r \in DOMAIN registers : registers[r] \in Cpu!Addresses
  BY <1>1, StartsAssumption, Zenon
<1>4. Arm!SP = 32 /\ 30 \in Used /\ 32 \in Used BY DEF Used, Arm!SP
<1>5. Sound BY Initially
<1> QED BY <1>2, <1>3, <1>4, <1>5 DEF Framed, Complete

\* The invariant holds before the first instruction.
LEMMA ComputingAtFirst == ASSUME Cpu!Init PROVE Computing
<1>1. /\ Framed /\ Complete /\ registers[32] = registers[30] /\ pc \in DOMAIN program
      /\ \A p \in DOMAIN program : pc <= p
  BY Initially, CompleteAtFirst DEF Framed
<1>2. ASSUME DOMAIN program = {0, 4} PROVE pc = 0 BY <1>1, <1>2
<1>3. Summing
  <2> SUFFICES ASSUME NEW op1 \in {0, 1}, program = Sequence(WideSum(op1))
               PROVE  Complete /\ AtSum(op1)
    BY DEF Summing
  <2> QED BY <1>1, <1>2, TwoInstructions DEF WideSum, AtSum
<1>4. Producing
  <2> SUFFICES ASSUME program = Sequence(WideProduct) PROVE Complete /\ pc = 0 BY DEF Producing
  <2> QED BY <1>1, <1>2, TwoInstructions DEF WideProduct
<1>5. Leaving
  <2> SUFFICES ASSUME NEW opc \in {2, 3}, program = Sequence(RemainderOf(opc))
               PROVE  Complete /\ AtRemainder(opc)
    BY DEF Leaving
  <2> QED BY <1>1, <1>2, TwoInstructions DEF RemainderOf, AtRemainder
<1>6. Framing
  <2> SUFFICES ASSUME NEW by \in 1 .. TwoTo[OffsetBits - 1] - 1, program = Sequence(Frame(by))
               PROVE  Framed /\ AtFrame(by)
    BY DEF Framing
  <2> QED BY <1>1, <1>2, TwoInstructions DEF Frame, AtFrame
<1> QED BY <1>3, <1>4, <1>5, <1>6 DEF Computing

\* It depends on nothing but the state of the emulator.
LEMMA ComputingStays == ASSUME UNCHANGED Cpu!vars, Computing PROVE Computing'
<1>1. /\ program' = program /\ registers' = registers /\ flags' = flags /\ pc' = pc
      /\ memory' = memory
  BY DEF Cpu!vars, Cpu!state
<1>2. (Sound' <=> Sound) /\ (Complete' <=> Complete) /\ (Framed' <=> Framed)
  BY <1>1 DEF Sound, Complete, Framed
<1>3. \A r : half(r)' = half(r) BY <1>1 DEF half
<1>4. \A l, h : Wide(l, h)' = Wide(l, h) BY <1>3 DEF Wide
<1>5. Summing'
  <2> SUFFICES ASSUME NEW op1 \in {0, 1}, program' = Sequence(WideSum(op1))
               PROVE  Complete' /\ AtSum(op1)'
    BY DEF Summing
  <2>1. Complete /\ AtSum(op1) BY <1>1 DEF Computing, Summing
  <2>2. LowSum(op1)' = LowSum(op1) BY <1>3, Zenon DEF LowSum
  <2>3. SumLeft(op1)' <=> SumLeft(op1) BY <1>4, Zenon DEF SumLeft
  <2>4. half(4)' = half(4) BY <1>3
  <2> QED BY <1>1, <1>2, <2>1, <2>2, <2>3, <2>4 DEF AtSum
<1>6. Producing'
  BY <1>1, <1>2 DEF Computing, Producing, LowLeft, ProductLeft
<1>7. Leaving'
  <2> SUFFICES ASSUME NEW opc \in {2, 3}, program' = Sequence(RemainderOf(opc))
               PROVE  Complete' /\ AtRemainder(opc)'
    BY DEF Leaving
  <2>1. Complete /\ AtRemainder(opc) BY <1>1 DEF Computing, Leaving
  <2>2. Divides(opc)' <=> Divides(opc) BY <1>3, Zenon DEF Divides
  <2>3. LeavesOver' <=> LeavesOver BY <1>3, Zenon DEF LeavesOver
  <2> QED BY <1>1, <1>2, <2>1, <2>2, <2>3 DEF AtRemainder
<1>8. Framing'
  <2> SUFFICES ASSUME NEW by \in 1 .. TwoTo[OffsetBits - 1] - 1, program' = Sequence(Frame(by))
               PROVE  Framed' /\ AtFrame(by)'
    BY DEF Framing
  <2>1. Framed /\ AtFrame(by) BY <1>1 DEF Computing, Framing
  <2>2. Stacked' <=> Stacked BY <1>1 DEF Stacked, Both
  <2> QED BY <1>1, <1>2, <2>1, <2>2 DEF AtFrame
<1> QED BY <1>5, <1>6, <1>7, <1>8 DEF Computing

\* At the end of a sequence the invariant is what is to be proved.
LEMMA ComputingComputes == ASSUME Computing PROVE IdiomsCompute
<1>1. Place(2) = 8 BY Widths DEF Place
<1>2. ASSUME NEW words, Len(words) = 2, Finished(words)
      PROVE  pc = 8 /\ program = Sequence(words)
  BY <1>1, <1>2 DEF Finished
<1>3. SumsCarry
  <2>1. ASSUME NEW op1 \in {0, 1}, Finished(WideSum(op1)) PROVE SumLeft(op1)
    <3>1. Len(WideSum(op1)) = 2 BY DEF WideSum
    <3>2. pc = 8 /\ program = Sequence(WideSum(op1)) BY <1>2, <2>1, <3>1
    <3> QED BY <3>2 DEF Computing, Summing, AtSum
  <2>2. ASSUME Finished(WideProduct) PROVE ProductLeft
    <3>1. Len(WideProduct) = 2 BY DEF WideProduct
    <3>2. pc = 8 /\ program = Sequence(WideProduct) BY <1>2, <2>2, <3>1
    <3> QED BY <3>2 DEF Computing, Producing
  <2>3. ASSUME Finished(WideSum(0))
        PROVE  Wide(4, 5) = (Wide(0, 1) + Wide(2, 3)) % TwoTo[Cpu!X]
    <3>1. SumLeft(0) BY <2>1, <2>3
    <3>2. 0 # 1 OBVIOUS
    <3> QED BY <3>1, <3>2, Zenon DEF SumLeft, SumOf
  <2>4. ASSUME Finished(WideSum(1))
        PROVE  Wide(4, 5) = (Wide(0, 1) - Wide(2, 3)) % TwoTo[Cpu!X]
    <3>1. SumLeft(1) BY <2>1, <2>4
    <3> QED BY <3>1, Zenon DEF SumLeft, SumOf
  <2> QED BY <2>2, <2>3, <2>4, Zenon DEF SumsCarry, ProductLeft
<1>4. RemaindersLeft BY LeavingLeft DEF Computing
<1>5. FramesBalance
  <2>1. ASSUME NEW by \in 1 .. TwoTo[OffsetBits - 1] - 1, Finished(Frame(by))
        PROVE  /\ registers[4] = registers[0] /\ registers[5] = registers[1]
               /\ registers[Arm!SP] = registers[30]
    <3>1. Len(Frame(by)) = 2 BY DEF Frame
    <3>2. pc = 8 /\ program = Sequence(Frame(by)) BY <1>2, <2>1, <3>1
    <3> QED BY <3>2 DEF Computing, Framing, AtFrame, Arm!SP
  <2> QED BY <2>1, Zenon DEF FramesBalance
<1> QED BY <1>3, <1>4, <1>5 DEF IdiomsCompute

\* Sequences that compute leave what they are for: sums and differences of two registers
\* with the carry between them, the product of two registers in two, the remainder behind
\* a quotient, and registers and stack pointer behind a frame; with registers of every
\* width, whatever is in them, and frames of every size.
THEOREM IdiomsComputed == Emulation => []IdiomsCompute
<1>1. Cpu!Init => Computing BY ComputingAtFirst
<1>2. Computing /\ [Cpu!SingleStep]_(Cpu!vars) => Computing'
  <2>1. ASSUME Computing, Cpu!SingleStep PROVE Computing'
    <3>1. Summing' BY <2>1, SummingStep DEF Computing
    <3>2. Producing' BY <2>1, ProducingStep DEF Computing
    <3>3. Leaving' BY <2>1, LeavingStep DEF Computing
    <3>4. Framing' BY <2>1, FramingStep DEF Computing
    <3> QED BY <3>1, <3>2, <3>3, <3>4 DEF Computing
  <2> QED BY <2>1, ComputingStays
<1>3. Computing => IdiomsCompute BY ComputingComputes
<1> QED BY <1>1, <1>2, <1>3, PTL DEF Emulation, Cpu!Spec
=============================================================================
