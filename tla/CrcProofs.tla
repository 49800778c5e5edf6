------------------------------ MODULE CrcProofs ------------------------------
(***************************************************************************)
(* The tables of crc.py compute the CRCs of the polynomials, whatever the  *)
(* data.                                                                   *)
(***************************************************************************)
EXTENDS Crc, SequenceTheorems, WellFoundedInduction, TLAPS

-----------------------------------------------------------------------------
(* Induction.  The library's theorems of induction have an operator for a    *)
(* parameter, which no prover here can instantiate; that of least elements   *)
(* has a set, and from it comes an induction over sets of numbers.           *)

\* A set that has 0, and with each number the next, has them all.
LEMMA SetInduction ==
  ASSUME NEW S, 0 \in S, \A k \in Nat : k \in S => k + 1 \in S
  PROVE  Nat \subseteq S
<1>. DEFINE T == Nat \ S
<1>1. SUFFICES ASSUME T # {} PROVE FALSE
  OBVIOUS
<1>2. PICK x \in T : \A y \in T : <<y, x>> \notin OpToRel(<, Nat)
  <2>1. IsWellFoundedOn(OpToRel(<, Nat), Nat)
    BY NatLessThanWellFounded, Zenon
  <2>2. T \subseteq Nat
    OBVIOUS
  <2>. HIDE DEF T
  <2>. QED BY <2>1, <2>2, <1>1, WFMin, Zenon
<1>3. \A y \in T : ~(y < x)
  BY <1>2 DEF OpToRel
<1>4. x \in Nat /\ x # 0 /\ x - 1 \in Nat /\ x - 1 < x
  OBVIOUS
<1>5. x - 1 \in S
  BY <1>3, <1>4
<1>. QED BY <1>4, <1>5

\* The same with all the numbers before it.
LEMMA StrongInduction ==
  ASSUME NEW S, \A k \in Nat : (0..(k - 1) \subseteq S) => k \in S
  PROVE  Nat \subseteq S
<1>. DEFINE T == {k \in Nat : 0..(k - 1) \subseteq S}
<1>1. 0 \in T
  OBVIOUS
<1>2. ASSUME NEW k \in Nat, k \in T PROVE k + 1 \in T
  BY <1>2
<1>3. Nat \subseteq T
  <2>. HIDE DEF T
  <2>. QED BY <1>1, <1>2, SetInduction
<1>. QED BY <1>3

-----------------------------------------------------------------------------
(* Exclusive or *)

Pairs2 == Nat \X Nat
HalfPair(p) == << p[1] \div 2, p[2] \div 2 >>

\* What Xor's definition says of a function that may be it.
XorBody(g, p) ==
  IF p = << 0, 0 >> THEN 0 ELSE 2 * g[HalfPair(p)] + ((p[1] + p[2]) % 2)

\* g is it as far as k.
XorUpTo(g, k) ==
  /\ g \in [Pairs2 -> Nat]
  /\ \A p \in Pairs2 : p[1] + p[2] <= k => g[p] = XorBody(g, p)

LEMMA Halving ==
  ASSUME NEW p \in Pairs2
  PROVE  /\ HalfPair(p) \in Pairs2
         /\ HalfPair(p)[1] + HalfPair(p)[2] <= p[1] + p[2]
         /\ p # << 0, 0 >> => HalfPair(p)[1] + HalfPair(p)[2] < p[1] + p[2]
         /\ p[1] + p[2] \in Nat
         /\ (p[1] + p[2]) % 2 \in Nat
<1>. PICK a \in Nat, b \in Nat : p = << a, b >>
  BY DEF Pairs2
<1>1. a \div 2 \in Nat /\ b \div 2 \in Nat /\ a \div 2 <= a /\ b \div 2 <= b
  OBVIOUS
<1>2. (a # 0 => a \div 2 < a) /\ (b # 0 => b \div 2 < b)
  OBVIOUS
<1>3. HalfPair(p) = << a \div 2, b \div 2 >> /\ p[1] = a /\ p[2] = b
  BY DEF HalfPair
<1>. QED BY <1>1, <1>2, <1>3 DEF Pairs2

LEMMA XorBodyType ==
  ASSUME NEW g \in [Pairs2 -> Nat], NEW p \in Pairs2 PROVE XorBody(g, p) \in Nat
<1>1. g[HalfPair(p)] \in Nat /\ (p[1] + p[2]) % 2 \in Nat
  BY Halving
<1>. QED BY <1>1 DEF XorBody

\* There are such functions for each k,
LEMMA XorUpToExists == \A k \in Nat : \E g : XorUpTo(g, k)
<1>. DEFINE S == {k \in Nat : \E g : XorUpTo(g, k)}
<1>1. 0 \in S
  <2>. DEFINE g == [p \in Pairs2 |-> 0]
  <2>1. \A p \in Pairs2 : p[1] + p[2] <= 0 => p = << 0, 0 >>
    BY DEF Pairs2
  <2>2. XorUpTo(g, 0)
    BY <2>1 DEF XorUpTo, XorBody
  <2>. QED BY <2>2
<1>2. ASSUME NEW k \in Nat, k \in S PROVE k + 1 \in S
  <2>1. PICK g : XorUpTo(g, k)
    BY <1>2
  <2>. DEFINE h == [p \in Pairs2 |-> XorBody(g, p)]
  <2>2. h \in [Pairs2 -> Nat]
    BY <2>1, XorBodyType DEF XorUpTo
  <2>3. ASSUME NEW p \in Pairs2, p[1] + p[2] <= k + 1 PROVE h[p] = XorBody(h, p)
    <3>1. CASE p = << 0, 0 >>
      BY <3>1 DEF XorBody
    <3>2. CASE p # << 0, 0 >>
      <4>1. HalfPair(p) \in Pairs2 /\ HalfPair(p)[1] + HalfPair(p)[2] <= k
        <5>. DEFINE q == HalfPair(p)
        <5>1. q \in Pairs2 /\ q[1] + q[2] < p[1] + p[2] /\ p[1] + p[2] \in Nat /\ q[1] + q[2] \in Nat
          BY <3>2, Halving
        <5>. HIDE DEF q
        <5>2. q[1] + q[2] <= k
          BY <5>1, <2>3
        <5>. QED BY <5>1, <5>2 DEF q
      <4>2. h[HalfPair(p)] = g[HalfPair(p)]
        BY <4>1, <2>1 DEF XorUpTo
      <4>3. h[p] = XorBody(g, p)
        OBVIOUS
      <4>. HIDE DEF h
      <4>. QED BY <4>2, <4>3 DEF XorBody
    <3>. QED BY <3>1, <3>2
  <2>. HIDE DEF h
  <2>4. XorUpTo(h, k + 1)
    BY <2>2, <2>3 DEF XorUpTo
  <2>. QED BY <2>4
<1>3. Nat \subseteq S
  <2>. HIDE DEF S
  <2>. QED BY <1>1, <1>2, SetInduction
<1>. QED BY <1>3

\* they agree,
LEMMA XorUpToUnique ==
  ASSUME NEW n \in Nat, NEW g, NEW h, XorUpTo(g, n), XorUpTo(h, n)
  PROVE  \A p \in Pairs2 : p[1] + p[2] <= n => g[p] = h[p]
<1>. DEFINE S == {k \in Nat : k <= n => \A p \in Pairs2 : p[1] + p[2] = k => g[p] = h[p]}
<1>1. ASSUME NEW k \in Nat, 0..(k - 1) \subseteq S PROVE k \in S
  <2>. SUFFICES ASSUME k <= n, NEW p \in Pairs2, p[1] + p[2] = k PROVE g[p] = h[p]
    OBVIOUS
  <2>1. g[p] = XorBody(g, p) /\ h[p] = XorBody(h, p)
    BY DEF XorUpTo
  <2>2. CASE p = << 0, 0 >>
    BY <2>1, <2>2 DEF XorBody
  <2>3. CASE p # << 0, 0 >>
    <3>. DEFINE q == HalfPair(p)
    <3>1. q \in Pairs2 /\ q[1] + q[2] < k /\ q[1] + q[2] \in Nat
      BY <2>3, Halving
    <3>. HIDE DEF q
    <3>2. q[1] + q[2] \in 0..(k - 1) /\ q[1] + q[2] <= n
      BY <3>1
    <3>3. g[q] = h[q]
      BY <3>1, <3>2, <1>1
    <3>. QED BY <2>1, <3>3 DEF XorBody, q
  <2>. QED BY <2>2, <2>3
<1>2. Nat \subseteq S
  <2>. HIDE DEF S
  <2>. QED BY <1>1, StrongInduction
<1>. QED
  BY <1>2, Halving

\* and what all of them begin with is Xor's function.
LEMMA XorFunction == \E f : f = [p \in Pairs2 |-> XorBody(f, p)]
<1>. DEFINE pick(k) == CHOOSE g : XorUpTo(g, k)
            F == [p \in Pairs2 |-> pick(p[1] + p[2])[p]]
<1>1. \A k \in Nat : XorUpTo(pick(k), k)
  BY XorUpToExists
<1>. HIDE DEF pick
<1>2. ASSUME NEW p \in Pairs2 PROVE F[p] = XorBody(F, p)
  <2>. DEFINE q == HalfPair(p)
              k == p[1] + p[2]
              j == q[1] + q[2]
  <2>1. q \in Pairs2 /\ k \in Nat /\ j \in Nat /\ j <= k
    BY Halving
  <2>2. F[p] = pick(k)[p] /\ F[q] = pick(j)[q]
    BY <2>1
  <2>. HIDE DEF q, F
  <2>3. XorUpTo(pick(k), k) /\ XorUpTo(pick(j), j)
    BY <1>1, <2>1
  <2>4. XorUpTo(pick(k), j)
    <3>. SUFFICES ASSUME NEW r \in Pairs2, r[1] + r[2] <= j PROVE pick(k)[r] = XorBody(pick(k), r)
      BY <2>3 DEF XorUpTo
    <3>1. r[1] + r[2] <= k
      <4>. HIDE DEF j, k
      <4>. QED BY <2>1, Halving
    <3>. QED BY <3>1, <2>3 DEF XorUpTo
  <2>5. pick(k)[q] = pick(j)[q]
    <3>1. q[1] + q[2] <= j
      BY <2>1
    <3>. HIDE DEF k, j
    <3>. QED BY <2>1, <2>3, <2>4, <3>1, XorUpToUnique
  <2>6. pick(k)[p] = XorBody(pick(k), p)
    BY <2>3, <2>1 DEF XorUpTo
  <2>. QED BY <2>2, <2>5, <2>6 DEF XorBody, q
<1>3. F = [p \in Pairs2 |-> XorBody(F, p)]
  <2>1. F = [p \in Pairs2 |-> F[p]]
    OBVIOUS
  <2>. HIDE DEF F
  <2>. QED BY <1>2, <2>1
<1>. QED BY <1>3

\* a ^ b is a number; its last bit is that of a + b, the others those of the halves.
LEMMA XorStep ==
  ASSUME NEW a \in Nat, NEW b \in Nat
  PROVE  /\ Xor(a, b) \in Nat
         /\ Xor(a, b) = 2 * Xor(a \div 2, b \div 2) + ((a + b) % 2)
<1>. DEFINE F == CHOOSE f : f = [p \in Pairs2 |-> XorBody(f, p)]
<1>1. F = [p \in Pairs2 |-> XorBody(F, p)]
  BY XorFunction
<1>2. \A x, y : Xor(x, y) = F[<< x, y >>]
  BY DEF Xor, XorBody, HalfPair, Pairs2
<1>. HIDE DEF F
<1>3. \A p \in Pairs2 : F[p] = XorBody(F, p)
  BY <1>1
<1>4. \A p \in Pairs2 : F[p] \in Nat
  <2>. DEFINE S == {k \in Nat : \A p \in Pairs2 : p[1] + p[2] = k => F[p] \in Nat}
  <2>1. ASSUME NEW k \in Nat, 0..(k - 1) \subseteq S PROVE k \in S
    <3>. SUFFICES ASSUME NEW p \in Pairs2, p[1] + p[2] = k PROVE F[p] \in Nat
      OBVIOUS
    <3>1. CASE p = << 0, 0 >>
      BY <3>1, <1>3 DEF XorBody
    <3>2. CASE p # << 0, 0 >>
      <4>. DEFINE q == HalfPair(p)
      <4>1. q \in Pairs2 /\ q[1] + q[2] \in 0..(k - 1) /\ (p[1] + p[2]) % 2 \in Nat
        <5>1. q \in Pairs2 /\ q[1] + q[2] < k /\ q[1] + q[2] \in Nat /\ (p[1] + p[2]) % 2 \in Nat
          BY <3>2, Halving
        <5>. HIDE DEF q
        <5>. QED BY <5>1
      <4>. HIDE DEF q
      <4>2. F[q] \in Nat
        BY <4>1, <2>1
      <4>3. F[p] = 2 * F[q] + ((p[1] + p[2]) % 2)
        BY <1>3, <3>2 DEF XorBody, q
      <4>. QED BY <4>1, <4>2, <4>3
    <3>. QED BY <3>1, <3>2
  <2>2. Nat \subseteq S
    <3>. HIDE DEF S
    <3>. QED BY <2>1, StrongInduction
  <2>. QED BY <2>2, Halving
<1>5. << a, b >> \in Pairs2 /\ << a \div 2, b \div 2 >> = HalfPair(<< a, b >>)
  BY DEF Pairs2, HalfPair
<1>6. F[<< a, b >>] = XorBody(F, << a, b >>)
  BY <1>3, <1>5
<1>7. CASE a = 0 /\ b = 0
  <2>1. HalfPair(<< a, b >>) = << 0, 0 >>
    BY <1>7 DEF HalfPair
  <2>2. F[<< 0, 0 >>] = 0
    BY <1>6, <1>7 DEF XorBody
  <2>3. 0 = 2 * 0 + ((0 + 0) % 2)
    OBVIOUS
  <2>. QED BY <1>2, <1>5, <1>7, <2>1, <2>2, <2>3
<1>8. CASE ~(a = 0 /\ b = 0)
  BY <1>2, <1>4, <1>5, <1>6, <1>8 DEF XorBody
<1>. QED BY <1>7, <1>8

\* A set that has 0, and each number whose half it has, has them all.
LEMMA HalvingInduction ==
  ASSUME NEW S, 0 \in S, \A k \in Nat : k \div 2 \in S => k \in S
  PROVE  Nat \subseteq S
<1>1. ASSUME NEW k \in Nat, 0..(k - 1) \subseteq S PROVE k \in S
  <2>1. CASE k = 0
    BY <2>1
  <2>2. CASE k # 0
    <3>1. k \div 2 \in 0..(k - 1)
      BY <2>2
    <3>. QED BY <3>1, <1>1
  <2>. QED BY <2>1, <2>2
<1>. QED BY <1>1, StrongInduction

LEMMA HalfOfNat ==
  ASSUME NEW a \in Nat
  PROVE  a \div 2 \in Nat /\ a % 2 \in 0..1 /\ a = 2 * (a \div 2) + (a % 2)
OBVIOUS

\* The half and the last bit of a ^ b.
LEMMA XorHalf ==
  ASSUME NEW a \in Nat, NEW b \in Nat
  PROVE  /\ Xor(a, b) \in Nat
         /\ Xor(a, b) \div 2 = Xor(a \div 2, b \div 2)
         /\ Xor(a, b) % 2 = (a + b) % 2
<1>. DEFINE x == Xor(a, b)
            y == Xor(a \div 2, b \div 2)
<1>1. x \in Nat /\ y \in Nat /\ x = 2 * y + ((a + b) % 2)
  BY XorStep, HalfOfNat
<1>. HIDE DEF x, y
<1>2. x \div 2 = y /\ x % 2 = (a + b) % 2
  BY <1>1
<1>. QED BY <1>1, <1>2 DEF x, y

LEMMA XorCommutes == \A a, b \in Nat : Xor(a, b) = Xor(b, a)
<1>. DEFINE S == {k \in Nat : \A a, b \in 0..k : Xor(a, b) = Xor(b, a)}
<1>1. 0 \in S
  OBVIOUS
<1>2. ASSUME NEW k \in Nat, k \div 2 \in S PROVE k \in S
  <2>. SUFFICES ASSUME NEW a \in 0..k, NEW b \in 0..k PROVE Xor(a, b) = Xor(b, a)
    OBVIOUS
  <2>1. a \div 2 \in 0..(k \div 2) /\ b \div 2 \in 0..(k \div 2) /\ a \in Nat /\ b \in Nat /\ a + b = b + a
    OBVIOUS
  <2>2. Xor(a \div 2, b \div 2) = Xor(b \div 2, a \div 2)
    BY <2>1, <1>2
  <2>3. /\ Xor(a, b) = 2 * Xor(a \div 2, b \div 2) + ((a + b) % 2)
        /\ Xor(b, a) = 2 * Xor(b \div 2, a \div 2) + ((b + a) % 2)
    BY <2>1, XorStep, Zenon
  <2>. QED BY <2>1, <2>2, <2>3, Zenon
<1>3. Nat \subseteq S
  <2>. HIDE DEF S
  <2>. QED BY <1>1, <1>2, HalvingInduction
<1>. QED
  <2>. TAKE a, b \in Nat
  <2>1. a + b \in S /\ a \in 0..(a + b) /\ b \in 0..(a + b)
    BY <1>3
  <2>. QED BY <2>1

LEMMA XorNothing == \A a \in Nat : Xor(a, 0) = a /\ Xor(0, a) = a
<1>. DEFINE S == {a \in Nat : Xor(a, 0) = a}
<1>1. 0 \in S
  <2>1. 0 \div 2 = 0 /\ (0 + 0) % 2 = 0
    OBVIOUS
  <2>2. Xor(0, 0) \in Nat /\ Xor(0, 0) = 2 * Xor(0, 0) + 0
    BY <2>1, XorStep
  <2>. QED BY <2>2
<1>2. ASSUME NEW a \in Nat, a \div 2 \in S PROVE a \in S
  <2>1. Xor(a, 0) = 2 * Xor(a \div 2, 0) + ((a + 0) % 2)
    <3>1. 0 \div 2 = 0
      OBVIOUS
    <3>. QED BY <3>1, XorStep
  <2>. QED BY <2>1, <1>2
<1>3. Nat \subseteq S
  <2>. HIDE DEF S
  <2>. QED BY <1>1, <1>2, HalvingInduction
<1>. QED BY <1>3, XorCommutes

LEMMA XorSelf == \A a \in Nat : Xor(a, a) = 0
<1>. DEFINE S == {a \in Nat : Xor(a, a) = 0}
<1>1. 0 \in S
  BY XorNothing
<1>2. ASSUME NEW a \in Nat, a \div 2 \in S PROVE a \in S
  <2>1. (a + a) % 2 = 0 /\ Xor(a \div 2, a \div 2) = 0
    BY <1>2
  <2>2. Xor(a, a) = 2 * Xor(a \div 2, a \div 2) + ((a + a) % 2)
    BY XorStep
  <2>. QED BY <2>1, <2>2
<1>3. Nat \subseteq S
  <2>. HIDE DEF S
  <2>. QED BY <1>1, <1>2, HalvingInduction
<1>. QED BY <1>3

LEMMA XorAssociates == \A a, b, c \in Nat : Xor(Xor(a, b), c) = Xor(a, Xor(b, c))
<1>. DEFINE S == {k \in Nat : \A a, b, c \in 0..k : Xor(Xor(a, b), c) = Xor(a, Xor(b, c))}
<1>1. 0 \in S
  BY XorNothing
<1>2. ASSUME NEW k \in Nat, k \div 2 \in S PROVE k \in S
  <2>. SUFFICES ASSUME NEW a \in 0..k, NEW b \in 0..k, NEW c \in 0..k
                PROVE  Xor(Xor(a, b), c) = Xor(a, Xor(b, c))
    OBVIOUS
  <2>. DEFINE u == Xor(a, b)
              v == Xor(b, c)
              h == a \div 2
              i == b \div 2
              j == c \div 2
  <2>1. a \in Nat /\ b \in Nat /\ c \in Nat /\ h \in 0..(k \div 2) /\ i \in 0..(k \div 2) /\ j \in 0..(k \div 2)
    OBVIOUS
  <2>2. u \in Nat /\ u \div 2 = Xor(h, i) /\ u % 2 = (a + b) % 2
    BY <2>1, XorHalf
  <2>3. v \in Nat /\ v \div 2 = Xor(i, j) /\ v % 2 = (b + c) % 2
    BY <2>1, XorHalf
  <2>. HIDE DEF u, v
  <2>4. Xor(u, c) = 2 * Xor(u \div 2, j) + ((u + c) % 2)
    BY <2>1, <2>2, XorStep
  <2>5. Xor(a, v) = 2 * Xor(h, v \div 2) + ((a + v) % 2)
    BY <2>1, <2>3, XorStep
  <2>6. Xor(Xor(h, i), j) = Xor(h, Xor(i, j))
    BY <2>1, <1>2
  <2>7. (u + c) % 2 = (a + v) % 2
    BY <2>1, <2>2, <2>3
  <2>. QED BY <2>2, <2>3, <2>4, <2>5, <2>6, <2>7 DEF u, v
<1>3. Nat \subseteq S
  <2>. HIDE DEF S
  <2>. QED BY <1>1, <1>2, HalvingInduction
<1>. QED
  <2>. TAKE a, b, c \in Nat
  <2>1. a + b + c \in S /\ a \in 0..(a + b + c) /\ b \in 0..(a + b + c) /\ c \in 0..(a + b + c)
    BY <1>3
  <2>. QED BY <2>1

\* What is done twice is undone.
LEMMA XorTwice ==
  ASSUME NEW a \in Nat, NEW b \in Nat
  PROVE  Xor(Xor(a, b), b) = a
BY XorAssociates, XorSelf, XorNothing, XorStep

\* Numbers that differ in nothing are one.
LEMMA XorZero ==
  ASSUME NEW a \in Nat, NEW b \in Nat, Xor(a, b) = 0
  PROVE  a = b
BY XorTwice, XorNothing

\* Four numbers in another order.
LEMMA XorSwap ==
  ASSUME NEW a \in Nat, NEW b \in Nat, NEW c \in Nat, NEW d \in Nat
  PROVE  Xor(Xor(a, b), Xor(c, d)) = Xor(Xor(a, c), Xor(b, d))
<1>1. \A x, y \in Nat : Xor(x, y) \in Nat
  BY XorStep
<1>2. Xor(Xor(a, b), Xor(c, d)) = Xor(a, Xor(Xor(b, c), d))
  BY <1>1, XorAssociates
<1>3. Xor(Xor(a, c), Xor(b, d)) = Xor(a, Xor(Xor(c, b), d))
  BY <1>1, XorAssociates
<1>. QED BY <1>2, <1>3, XorCommutes

-----------------------------------------------------------------------------
(* Exclusive or of numbers in two parts, the lower of width m                *)

Under(m) == {k \in Nat : k < m}

Splits(m) ==
  /\ \A x, y \in Under(m) : Xor(x, y) \in Under(m)
  /\ \A a, b \in Nat : \A x, y \in Under(m) :
       Xor(m * a + x, m * b + y) = m * Xor(a, b) + Xor(x, y)

LEMMA SplitsOne == Splits(1)
<1>1. Xor(0, 0) = 0
  BY XorNothing
<1>2. ASSUME NEW a \in Nat, NEW b \in Nat
      PROVE  Xor(1 * a + 0, 1 * b + 0) = 1 * Xor(a, b) + Xor(0, 0)
  <2>1. 1 * a + 0 = a /\ 1 * b + 0 = b /\ Xor(a, b) \in Nat
    BY XorStep
  <2>. QED BY <1>1, <2>1
<1>3. Under(1) = {0}
  BY DEF Under
<1>. QED BY <1>1, <1>2, <1>3 DEF Splits

LEMMA SplitsTwice ==
  ASSUME NEW m \in Nat \ {0}, Splits(m) PROVE Splits(2 * m)
<1>1. ASSUME NEW x \in Under(2 * m), NEW y \in Under(2 * m)
      PROVE  Xor(x, y) \in Under(2 * m)
  <2>1. x \div 2 \in Under(m) /\ y \div 2 \in Under(m) /\ (x + y) % 2 \in 0..1
    BY DEF Under
  <2>2. Xor(x \div 2, y \div 2) \in Under(m)
    BY <2>1 DEF Splits
  <2>3. Xor(x, y) = 2 * Xor(x \div 2, y \div 2) + ((x + y) % 2)
    <3>1. x \in Nat /\ y \in Nat
      BY DEF Under
    <3>. QED BY <3>1, XorStep, Zenon
  <2>4. Xor(x, y) \in Nat /\ Xor(x, y) < 2 * m
    BY <2>1, <2>2, <2>3 DEF Under
  <2>. QED BY <2>4 DEF Under
<1>2. ASSUME NEW a \in Nat, NEW b \in Nat, NEW x \in Under(2 * m), NEW y \in Under(2 * m)
      PROVE  Xor((2 * m) * a + x, (2 * m) * b + y) = (2 * m) * Xor(a, b) + Xor(x, y)
  <2>. DEFINE p == m * a
              q == m * b
              xh == x \div 2
              yh == y \div 2
              xl == x % 2
              yl == y % 2
              z == Xor(a, b)
  <2>1. p \in Nat /\ q \in Nat /\ (2 * m) * a = 2 * p /\ (2 * m) * b = 2 * q
    OBVIOUS
  <2>2. xh \in Under(m) /\ yh \in Under(m) /\ xl \in 0..1 /\ yl \in 0..1
        /\ x = 2 * xh + xl /\ y = 2 * yh + yl
    BY DEF Under
  <2>3. z \in Nat /\ Xor(xh, yh) \in Nat
    <3>1. xh \in Nat /\ yh \in Nat
      BY DEF Under
    <3>. HIDE DEF xh, yh
    <3>. QED BY <3>1, XorStep, Zenon
  <2>4. Xor(p + xh, q + yh) = m * z + Xor(xh, yh)
    BY <2>2 DEF Splits
  <2>. HIDE DEF p, q, xh, yh, xl, yl, z
  <2>5. Xor(2 * (p + xh) + xl, 2 * (q + yh) + yl) = 2 * Xor(p + xh, q + yh) + ((xl + yl) % 2)
    <3>. DEFINE u == 2 * (p + xh) + xl
                v == 2 * (q + yh) + yl
    <3>1. u \in Nat /\ v \in Nat /\ u \div 2 = p + xh /\ v \div 2 = q + yh
      BY <2>1, <2>2 DEF Under
    <3>2. (u + v) % 2 = (xl + yl) % 2
      BY <2>1, <2>2
    <3>. HIDE DEF u, v
    <3>3. Xor(u, v) = 2 * Xor(u \div 2, v \div 2) + ((u + v) % 2)
      BY <3>1, XorStep, Zenon
    <3>4. Xor(u, v) = 2 * Xor(p + xh, q + yh) + ((xl + yl) % 2)
      BY <3>1, <3>2, <3>3, Zenon
    <3>. QED BY <3>4 DEF u, v
  <2>6. Xor(x, y) = 2 * Xor(xh, yh) + ((xl + yl) % 2)
    <3>1. x \in Nat /\ y \in Nat /\ (x + y) % 2 = (xl + yl) % 2
      BY <2>2 DEF Under
    <3>2. Xor(x, y) = 2 * Xor(x \div 2, y \div 2) + ((x + y) % 2)
      BY <3>1, XorStep, Zenon
    <3>. QED BY <3>1, <3>2, Zenon DEF xh, yh
  <2>7. 2 * (p + xh) + xl = (2 * m) * a + x /\ 2 * (q + yh) + yl = (2 * m) * b + y
    BY <2>1, <2>2
  <2>8. 2 * (m * z + Xor(xh, yh)) + ((xl + yl) % 2) = (2 * m) * z + (2 * Xor(xh, yh) + ((xl + yl) % 2))
    <3>. DEFINE w == m * z
    <3>1. w \in Nat /\ (2 * m) * z = 2 * w /\ (xl + yl) % 2 \in Nat
      BY <2>2, <2>3
    <3>. HIDE DEF w
    <3>2. 2 * (w + Xor(xh, yh)) + ((xl + yl) % 2) = 2 * w + (2 * Xor(xh, yh) + ((xl + yl) % 2))
      BY <3>1, <2>3
    <3>. QED BY <3>1, <3>2 DEF w
  <2>. QED BY <2>4, <2>5, <2>6, <2>7, <2>8 DEF z
<1>. QED BY <1>1, <1>2 DEF Splits

LEMMA SplitsAt == Splits(2) /\ Splits(64) /\ Splits(256) /\ Splits(32768) /\ Splits(65536)
<1>1. Splits(2) /\ Splits(4) /\ Splits(8) /\ Splits(16)
  <2>1. Splits(2 * 1)
    BY SplitsOne, SplitsTwice
  <2>2. Splits(2 * 2)
    BY <2>1, SplitsTwice
  <2>3. Splits(2 * 4)
    BY <2>2, SplitsTwice
  <2>4. Splits(2 * 8)
    BY <2>3, SplitsTwice
  <2>. QED BY <2>1, <2>2, <2>3, <2>4
<1>2. Splits(32) /\ Splits(64) /\ Splits(128) /\ Splits(256)
  <2>1. Splits(2 * 16)
    BY <1>1, SplitsTwice
  <2>2. Splits(2 * 32)
    BY <2>1, SplitsTwice
  <2>3. Splits(2 * 64)
    BY <2>2, SplitsTwice
  <2>4. Splits(2 * 128)
    BY <2>3, SplitsTwice
  <2>. QED BY <2>1, <2>2, <2>3, <2>4
<1>3. Splits(512) /\ Splits(1024) /\ Splits(2048) /\ Splits(4096)
  <2>1. Splits(2 * 256)
    BY <1>2, SplitsTwice
  <2>2. Splits(2 * 512)
    BY <2>1, SplitsTwice
  <2>3. Splits(2 * 1024)
    BY <2>2, SplitsTwice
  <2>4. Splits(2 * 2048)
    BY <2>3, SplitsTwice
  <2>. QED BY <2>1, <2>2, <2>3, <2>4
<1>4. Splits(8192) /\ Splits(16384) /\ Splits(32768) /\ Splits(65536)
  <2>1. Splits(2 * 4096)
    BY <1>3, SplitsTwice
  <2>2. Splits(2 * 8192)
    BY <2>1, SplitsTwice
  <2>3. Splits(2 * 16384)
    BY <2>2, SplitsTwice
  <2>4. Splits(2 * 32768)
    BY <2>3, SplitsTwice
  <2>. QED BY <2>1, <2>2, <2>3, <2>4
<1>. QED BY <1>1, <1>2, <1>4
-----------------------------------------------------------------------------
(* Loops                                                                     *)

\* f is what the loop's variable is after each turn.
Turns(f, turn, base, seq) ==
  f = [i \in 0..Len(seq) |-> IF i = 0 THEN base ELSE turn[<< f[i - 1], seq[i] >>]]

LEMMA LoopExists ==
  ASSUME NEW S, NEW T, NEW turn \in [S \X T -> S], NEW base \in S, NEW seq \in Seq(T)
  PROVE  \E f : Turns(f, turn, base, seq)
<1>. DEFINE Upto(f, k) ==
       /\ f \in [0..k -> S]
       /\ f[0] = base
       /\ \A i \in 1..k : f[i] = turn[<< f[i - 1], seq[i] >>]
     N == {k \in Nat : k <= Len(seq) => \E f : Upto(f, k)}
<1>0. Len(seq) \in Nat /\ \A i \in 1..Len(seq) : seq[i] \in T
  BY LenProperties, ElementOfSeq
<1>1. 0 \in N
  <2>1. Upto([i \in 0..0 |-> base], 0)
    OBVIOUS
  <2>. QED BY <2>1
<1>2. ASSUME NEW k \in Nat, k \in N PROVE k + 1 \in N
  <2>. SUFFICES ASSUME k + 1 <= Len(seq) PROVE \E f : Upto(f, k + 1)
    OBVIOUS
  <2>1. PICK f : Upto(f, k)
    BY <1>0, <1>2
  <2>. DEFINE v == turn[<< f[k], seq[k + 1] >>]
              g == [i \in 0..(k + 1) |-> IF i = k + 1 THEN v ELSE f[i]]
  <2>2. seq[k + 1] \in T /\ f[k] \in S
    BY <1>0, <2>1
  <2>3. v \in S
    BY <2>2
  <2>4. g \in [0..(k + 1) -> S]
    <3>. HIDE DEF v
    <3>. QED BY <2>1, <2>3
  <2>5. \A i \in 0..k : g[i] = f[i]
    OBVIOUS
  <2>6. g[k + 1] = v
    OBVIOUS
  <2>. HIDE DEF g
  <2>7. g[0] = base
    BY <2>1, <2>5
  <2>8. ASSUME NEW i \in 1..(k + 1) PROVE g[i] = turn[<< g[i - 1], seq[i] >>]
    <3>1. i - 1 \in 0..k /\ g[i - 1] = f[i - 1]
      BY <2>5
    <3>2. CASE i = k + 1
      BY <3>1, <3>2, <2>6
    <3>3. CASE i # k + 1
      BY <3>1, <3>3, <2>1, <2>5
    <3>. QED BY <3>2, <3>3
  <2>9. Upto(g, k + 1)
    BY <2>4, <2>7, <2>8
  <2>. QED BY <2>9
<1>3. Nat \subseteq N
  <2>. HIDE DEF N
  <2>. QED BY <1>1, <1>2, SetInduction
<1>4. PICK f : Upto(f, Len(seq))
  BY <1>0, <1>3
<1>5. f = [i \in 0..Len(seq) |-> f[i]]
  BY <1>4
<1>6. \A i \in 0..Len(seq) : f[i] = IF i = 0 THEN base ELSE turn[<< f[i - 1], seq[i] >>]
  BY <1>0, <1>4
<1>7. Turns(f, turn, base, seq)
  BY <1>5, <1>6 DEF Turns
<1>. QED BY <1>7

\* The values of a loop, and the last of them.
Values(f, S, turn, base, seq) ==
  /\ f \in [0..Len(seq) -> S]
  /\ f[0] = base
  /\ \A i \in 1..Len(seq) : f[i] = turn[<< f[i - 1], seq[i] >>]
  /\ Loop(turn, base, seq) = f[Len(seq)]

LEMMA LoopTurns ==
  ASSUME NEW S, NEW T, NEW turn \in [S \X T -> S], NEW base \in S, NEW seq \in Seq(T)
  PROVE  \E f : Values(f, S, turn, base, seq)
<1>. DEFINE f == CHOOSE g : Turns(g, turn, base, seq)
<1>0. Len(seq) \in Nat /\ \A i \in 1..Len(seq) : seq[i] \in T
  BY LenProperties, ElementOfSeq
<1>1. Turns(f, turn, base, seq)
  BY LoopExists
<1>2. Loop(turn, base, seq) = f[Len(seq)]
  BY DEF Loop, Turns
<1>. HIDE DEF f
<1>3. f[0] = base /\ \A i \in 1..Len(seq) : f[i] = turn[<< f[i - 1], seq[i] >>]
  BY <1>0, <1>1 DEF Turns
<1>4. f = [i \in 0..Len(seq) |-> f[i]]
  BY <1>1 DEF Turns
<1>5. \A i \in 0..Len(seq) : f[i] \in S
  <2>. DEFINE N == {k \in Nat : k <= Len(seq) => f[k] \in S}
  <2>1. 0 \in N
    BY <1>3
  <2>2. ASSUME NEW k \in Nat, k \in N PROVE k + 1 \in N
    <3>. SUFFICES ASSUME k + 1 <= Len(seq) PROVE f[k + 1] \in S
      OBVIOUS
    <3>1. f[k] \in S /\ k + 1 \in 1..Len(seq) /\ (k + 1) - 1 = k
      BY <1>0, <2>2
    <3>2. f[k + 1] = turn[<< f[k], seq[k + 1] >>]
      BY <1>3, <3>1
    <3>. QED BY <1>0, <3>1, <3>2
  <2>3. Nat \subseteq N
    <3>. HIDE DEF N
    <3>. QED BY <2>1, <2>2, SetInduction
  <2>. QED BY <1>0, <2>3
<1>6. Values(f, S, turn, base, seq)
  BY <1>2, <1>3, <1>4, <1>5 DEF Values
<1>. QED BY <1>6

LEMMA LoopType ==
  ASSUME NEW S, NEW T, NEW turn \in [S \X T -> S], NEW base \in S, NEW seq \in Seq(T)
  PROVE  Loop(turn, base, seq) \in S
<1>1. Len(seq) \in Nat
  BY LenProperties
<1>2. PICK f : Values(f, S, turn, base, seq)
  BY LoopTurns, Zenon
<1>. QED BY <1>1, <1>2 DEF Values

\* One element more, one turn more.
Turned(turn, s, x) == turn[<< s, x >>]

IsTurn(turn, S, T) == turn \in [S \X T -> S]

LEMMA LoopAppend ==
  ASSUME NEW S, NEW T, NEW turn, IsTurn(turn, S, T), NEW base \in S,
         NEW seq \in Seq(T), NEW x \in T
  PROVE  Loop(turn, base, Append(seq, x)) = Turned(turn, Loop(turn, base, seq), x)
<1>t. turn \in [S \X T -> S]
  BY DEF IsTurn
<1>. DEFINE long == Append(seq, x)
            m == Len(seq)
<1>1. /\ m \in Nat /\ long \in Seq(T) /\ Len(long) = m + 1
      /\ (\A i \in 1..m : long[i] = seq[i]) /\ long[m + 1] = x
  BY LenProperties, AppendProperties
<1>. HIDE DEF long
<1>a. PICK f : Values(f, S, turn, base, seq)
  BY <1>t, LoopTurns, Zenon
<1>b. PICK g : Values(g, S, turn, base, long)
  BY <1>1, <1>t, LoopTurns, Zenon
<1>2. /\ f[0] = base
      /\ \A i \in 1..m : f[i] = turn[<< f[i - 1], seq[i] >>]
      /\ Loop(turn, base, seq) = f[m]
  BY <1>a DEF Values
<1>3. /\ g[0] = base
      /\ \A i \in 1..(m + 1) : g[i] = turn[<< g[i - 1], long[i] >>]
      /\ Loop(turn, base, long) = g[m + 1]
  BY <1>1, <1>b DEF Values
<1>. HIDE DEF m
<1>4. g[m] = f[m]
  <2>. DEFINE N == {k \in Nat : k <= m => g[k] = f[k]}
  <2>1. 0 \in N
    BY <1>2, <1>3
  <2>2. ASSUME NEW k \in Nat, k \in N PROVE k + 1 \in N
    <3>. SUFFICES ASSUME k + 1 <= m PROVE g[k + 1] = f[k + 1]
      OBVIOUS
    <3>1. k + 1 \in 1..m /\ k + 1 \in 1..(m + 1) /\ (k + 1) - 1 = k
      BY <1>1
    <3>2. f[k + 1] = turn[<< f[k], seq[k + 1] >>]
      BY <1>2, <3>1
    <3>3. g[k + 1] = turn[<< g[k], long[k + 1] >>]
      BY <1>3, <3>1
    <3>4. g[k] = f[k] /\ long[k + 1] = seq[k + 1]
      BY <1>1, <2>2, <3>1
    <3>. QED BY <3>2, <3>3, <3>4, Zenon
  <2>3. Nat \subseteq N
    <3>. HIDE DEF N
    <3>. QED BY <2>1, <2>2, SetInduction
  <2>. QED BY <1>1, <2>3
<1>5. g[m + 1] = turn[<< g[m], x >>]
  <2>1. m + 1 \in 1..(m + 1) /\ (m + 1) - 1 = m
    BY <1>1
  <2>. QED BY <1>1, <1>3, <2>1
<1>. QED BY <1>2, <1>3, <1>4, <1>5 DEF long, Turned

\* Eight turns.
InEight(f, S, turn, base, seq) ==
  /\ f \in [0..8 -> S]
  /\ f[0] = base /\ Loop(turn, base, seq) = f[8]
  /\ f[1] = turn[<< f[0], seq[1] >>] /\ f[2] = turn[<< f[1], seq[2] >>]
  /\ f[3] = turn[<< f[2], seq[3] >>] /\ f[4] = turn[<< f[3], seq[4] >>]
  /\ f[5] = turn[<< f[4], seq[5] >>] /\ f[6] = turn[<< f[5], seq[6] >>]
  /\ f[7] = turn[<< f[6], seq[7] >>] /\ f[8] = turn[<< f[7], seq[8] >>]

LEMMA LoopOfEight ==
  ASSUME NEW S, NEW T, NEW turn \in [S \X T -> S], NEW base \in S, NEW seq \in Seq(T),
         Len(seq) = 8
  PROVE  \E f : InEight(f, S, turn, base, seq)
<1>1. PICK f : Values(f, S, turn, base, seq)
  BY LoopTurns, Zenon
<1>2. f \in [0..8 -> S] /\ f[0] = base /\ Loop(turn, base, seq) = f[8]
  BY <1>1 DEF Values
<1>3. \A i \in 1..8 : f[i] = turn[<< f[i - 1], seq[i] >>]
  BY <1>1 DEF Values
<1>4. f[1] = turn[<< f[1 - 1], seq[1] >>] /\ f[2] = turn[<< f[2 - 1], seq[2] >>]
  BY <1>3
<1>5. f[3] = turn[<< f[3 - 1], seq[3] >>] /\ f[4] = turn[<< f[4 - 1], seq[4] >>]
  BY <1>3
<1>6. f[5] = turn[<< f[5 - 1], seq[5] >>] /\ f[6] = turn[<< f[6 - 1], seq[6] >>]
  BY <1>3
<1>7. f[7] = turn[<< f[7 - 1], seq[7] >>] /\ f[8] = turn[<< f[8 - 1], seq[8] >>]
  BY <1>3
<1>8. /\ f[1] = turn[<< f[0], seq[1] >>] /\ f[2] = turn[<< f[1], seq[2] >>]
      /\ f[3] = turn[<< f[2], seq[3] >>] /\ f[4] = turn[<< f[3], seq[4] >>]
      /\ f[5] = turn[<< f[4], seq[5] >>] /\ f[6] = turn[<< f[5], seq[6] >>]
      /\ f[7] = turn[<< f[6], seq[7] >>] /\ f[8] = turn[<< f[7], seq[8] >>]
  <2>. /\ 1 - 1 = 0 /\ 2 - 1 = 1 /\ 3 - 1 = 2 /\ 4 - 1 = 3
       /\ 5 - 1 = 4 /\ 6 - 1 = 5 /\ 7 - 1 = 6 /\ 8 - 1 = 7
    OBVIOUS
  <2>. QED BY <1>4, <1>5, <1>6, <1>7, Zenon
<1>9. InEight(f, S, turn, base, seq)
  BY <1>2, <1>8 DEF InEight
<1>. QED BY <1>9
-----------------------------------------------------------------------------
(* Sixteen bits                                                              *)

LEMMA XorDouble ==
  ASSUME NEW a \in Nat, NEW b \in Nat PROVE Xor(2 * a, 2 * b) = 2 * Xor(a, b)
<1>. DEFINE p == 2 * a
            q == 2 * b
<1>1. p \in Nat /\ q \in Nat /\ p \div 2 = a /\ q \div 2 = b /\ (p + q) % 2 = 0
  OBVIOUS
<1>. HIDE DEF p, q
<1>2. Xor(p, q) = 2 * Xor(p \div 2, q \div 2) + ((p + q) % 2)
  BY <1>1, XorStep, Zenon
<1>3. Xor(a, b) \in Nat
  BY XorStep
<1>. QED BY <1>1, <1>2, <1>3 DEF p, q

LEMMA XorBit ==
  ASSUME NEW t \in 0..1, NEW u \in 0..1 PROVE Xor(t, u) = (t + u) % 2
<1>1. Xor(0, 0) = 0 /\ Xor(0, 1) = 1 /\ Xor(1, 0) = 1 /\ Xor(1, 1) = 0
  BY XorNothing, XorSelf
<1>2. 0 = (0 + 0) % 2 /\ 1 = (0 + 1) % 2 /\ 1 = (1 + 0) % 2 /\ 0 = (1 + 1) % 2
  OBVIOUS
<1>3. (t = 0 \/ t = 1) /\ (u = 0 \/ u = 1)
  OBVIOUS
<1>. QED BY <1>1, <1>2, <1>3

LEMMA HalvesUnder == Halves = Under(HalfRange)
<1>1. HalfRange \in Nat \ {0}
  BY DEF HalfRange
<1>. QED BY <1>1 DEF Halves, Under

LEMMA ByteUnder == Byte = Under(256)
BY DEF Byte, Under

\* The widths are kept.
LEMMA XorWidths ==
  /\ \A a, b \in Byte : Xor(a, b) \in Byte
  /\ \A a, b \in Halves : Xor(a, b) \in Halves
BY SplitsAt, HalvesUnder, ByteUnder DEF Splits, HalfRange

\* Sixteen bits are the high one and the others.
Lows       == Under(32768)
Join(t, s) == 32768 * t + s

LEMMA JoinXor ==
  \A t, u \in 0..1 : \A s, r \in Lows :
    Xor(s, r) \in Lows /\ Xor(Join(t, s), Join(u, r)) = Join(Xor(t, u), Xor(s, r))
<1>. SUFFICES ASSUME NEW t \in 0..1, NEW u \in 0..1, NEW s \in Lows, NEW r \in Lows
     PROVE  Xor(s, r) \in Lows /\ Xor(Join(t, s), Join(u, r)) = Join(Xor(t, u), Xor(s, r))
  OBVIOUS
<1>1. t \in Nat /\ u \in Nat
  OBVIOUS
<1>. QED BY <1>1, SplitsAt DEF Splits, Lows, Join

\* What the bit that is shifted out brings in.
Poly16(t) == IF t = 1 THEN 4129 ELSE 0

LEMMA Poly16Xor ==
  ASSUME NEW t \in 0..1, NEW u \in 0..1
  PROVE  Poly16(Xor(t, u)) = Xor(Poly16(t), Poly16(u)) /\ Poly16(t) \in Under(HalfRange)
<1>1. Xor(0, 0) = 0 /\ Xor(0, 1) = 1 /\ Xor(1, 0) = 1 /\ Xor(1, 1) = 0
  BY XorNothing, XorSelf
<1>2. Xor(0, 4129) = 4129 /\ Xor(4129, 0) = 4129 /\ Xor(4129, 4129) = 0
  BY XorNothing, XorSelf
<1>3. (t = 0 \/ t = 1) /\ (u = 0 \/ u = 1)
  OBVIOUS
<1>4. 0 \in Under(HalfRange) /\ 4129 \in Under(HalfRange)
  BY DEF Under, HalfRange
<1>. QED BY <1>1, <1>2, <1>3, <1>4 DEF Poly16

LEMMA Shift16Parts ==
  ASSUME NEW t \in 0..1, NEW s \in Lows, NEW c, c = Join(t, s)
  PROVE  /\ Shift16(c) = Xor(2 * s, Poly16(t))
         /\ \A x \in 0..1 : Bit16(c, x) = Xor(2 * s, Poly16(Xor(t, x)))
<1>1. c \in Nat /\ c \div 32768 = t /\ (2 * c) % 65536 = 2 * s
  BY DEF Under, Lows, Join, HalfRange
<1>2. IF t = 1 THEN c >= 32768 /\ 2 * c - 65536 = 2 * s ELSE ~(c >= 32768) /\ 2 * c = 2 * s
  BY DEF Under, Lows, Join, HalfRange
<1>3. Xor(2 * s, 0) = 2 * s
  BY XorNothing DEF Under, Lows
<1>4. ASSUME NEW x \in 0..1 PROVE Xor(t, x) = (c \div 32768 + x) % 2 /\ Xor(t, x) \in 0..1
  BY <1>1, XorBit
<1>5. Shift16(c) = Xor(2 * s, Poly16(t))
  BY <1>2, <1>3 DEF Shift16, Poly16
<1>6. ASSUME NEW x \in 0..1 PROVE Bit16(c, x) = Xor(2 * s, Poly16(Xor(t, x)))
  BY <1>1, <1>3, <1>4 DEF Bit16, Poly16
<1>. QED BY <1>5, <1>6

LEMMA InParts16 ==
  ASSUME NEW c \in Halves
  PROVE  \E t \in 0..1, s \in Lows : c = Join(t, s)
<1>1. c = 32768 * (c \div 32768) + (c % 32768) /\ c \div 32768 \in 0..1 /\ c % 32768 \in Lows
  BY HalvesUnder DEF Under, Lows, Join, HalfRange
<1>2. c = Join(c \div 32768, c % 32768)
  BY <1>1 DEF Join
<1>. QED BY <1>1, <1>2

\* A turn keeps the width, and turns of two numbers combine.
LEMMA Shift16Type ==
  ASSUME NEW c \in Halves
  PROVE  Shift16(c) \in Halves /\ \A x \in 0..1 : Bit16(c, x) \in Halves
<1>1. PICK t \in 0..1, s \in Lows : c = Join(t, s)
  BY InParts16
<1>2. 2 * s \in Halves
  BY HalvesUnder DEF Under, Lows, Join, HalfRange
<1>3. ASSUME NEW u \in 0..1 PROVE Xor(2 * s, Poly16(u)) \in Halves
  <2>1. Poly16(u) \in Halves
    BY Poly16Xor, HalvesUnder
  <2>. QED BY <1>2, <2>1, XorWidths, Zenon
<1>4. \A x \in 0..1 : Xor(t, x) \in 0..1
  BY XorBit
<1>5. /\ Shift16(c) = Xor(2 * s, Poly16(t))
      /\ \A x \in 0..1 : Bit16(c, x) = Xor(2 * s, Poly16(Xor(t, x)))
  BY <1>1, Shift16Parts
<1>. QED BY <1>3, <1>4, <1>5, Zenon

LEMMA Shift16Linear ==
  ASSUME NEW c \in Halves, NEW d \in Halves
  PROVE  Shift16(Xor(c, d)) = Xor(Shift16(c), Shift16(d))
<1>a. PICK t \in 0..1, s \in Lows : c = Join(t, s)
  BY InParts16
<1>b. PICK u \in 0..1, r \in Lows : d = Join(u, r)
  BY InParts16
<1>. DEFINE v == Xor(t, u)
            q == Xor(s, r)
<1>1. v \in 0..1 /\ Poly16(v) = Xor(Poly16(t), Poly16(u))
  BY XorBit, Poly16Xor
<1>2. q \in Lows /\ Xor(c, d) = Join(v, q)
  <2>1. \A y \in Lows :
          Xor(s, y) \in Lows /\ Xor(Join(t, s), Join(u, y)) = Join(Xor(t, u), Xor(s, y))
    BY JoinXor
  <2>. QED BY <1>a, <1>b, <2>1
<1>3. Xor(2 * s, 2 * r) = 2 * q
  BY XorDouble DEF Under, Lows
<1>. HIDE DEF v, q
<1>4. Shift16(Xor(c, d)) = Xor(2 * q, Poly16(v))
  BY <1>1, <1>2, Shift16Parts
<1>5. Shift16(c) = Xor(2 * s, Poly16(t)) /\ Shift16(d) = Xor(2 * r, Poly16(u))
  BY <1>a, <1>b, Shift16Parts
<1>6. 2 * s \in Nat /\ 2 * r \in Nat /\ Poly16(t) \in Nat /\ Poly16(u) \in Nat
  BY DEF Poly16, Under, Lows
<1>7. Xor(Xor(2 * s, 2 * r), Xor(Poly16(t), Poly16(u)))
        = Xor(Xor(2 * s, Poly16(t)), Xor(2 * r, Poly16(u)))
  <2>. DEFINE i == 2 * s
              j == 2 * r
              k == Poly16(t)
              l == Poly16(u)
  <2>1. i \in Nat /\ j \in Nat /\ k \in Nat /\ l \in Nat
    BY <1>6
  <2>. HIDE DEF i, j, k, l
  <2>2. Xor(Xor(i, j), Xor(k, l)) = Xor(Xor(i, k), Xor(j, l))
    BY <2>1, XorSwap
  <2>. QED BY <2>2 DEF i, j, k, l
<1>. QED BY <1>1, <1>3, <1>4, <1>5, <1>7

\* A turn that shifts a one in beside the bit x is a turn for that bit.
LEMMA OneBit16 ==
  ASSUME NEW c \in Halves, NEW x \in 0..1, NEW r \in Lows
  PROVE  Shift16(Xor(c, Join(x, r))) = Xor(Bit16(c, x), 2 * r)
<1>a. PICK t \in 0..1, s \in Lows : c = Join(t, s)
  BY InParts16
<1>. DEFINE v == Xor(t, x)
            q == Xor(s, r)
            p == Poly16(v)
<1>1. v \in 0..1 /\ p \in Nat
  BY XorBit DEF Poly16
<1>2. q \in Lows /\ Xor(c, Join(x, r)) = Join(v, q)
  BY <1>a, JoinXor
<1>3. Xor(2 * s, 2 * r) = 2 * q
  BY XorDouble DEF Under, Lows
<1>4. Bit16(c, x) = Xor(2 * s, p)
  BY <1>a, Shift16Parts
<1>. HIDE DEF v, q
<1>5. Shift16(Xor(c, Join(x, r))) = Xor(2 * q, p)
  BY <1>1, <1>2, Shift16Parts
<1>. HIDE DEF p
<1>6. Xor(Xor(2 * s, 2 * r), p) = Xor(Xor(2 * s, p), 2 * r)
  <2>. DEFINE i == 2 * s
              j == 2 * r
  <2>1. i \in Nat /\ j \in Nat
    BY DEF Under, Lows, Join, HalfRange
  <2>. HIDE DEF i, j
  <2>2. Xor(Xor(i, j), p) = Xor(i, Xor(j, p)) /\ Xor(Xor(i, p), j) = Xor(i, Xor(p, j))
    BY <1>1, <2>1, XorAssociates
  <2>3. Xor(j, p) = Xor(p, j)
    BY <1>1, <2>1, XorCommutes
  <2>. QED BY <2>2, <2>3 DEF i, j
<1>. QED BY <1>3, <1>4, <1>5, <1>6

\* Eight turns.
Shifts16(c) ==
  Shift16(Shift16(Shift16(Shift16(Shift16(Shift16(Shift16(Shift16(c))))))))

LEMMA Shifts16Linear ==
  ASSUME NEW c \in Halves, NEW d \in Halves
  PROVE  Shifts16(Xor(c, d)) = Xor(Shifts16(c), Shifts16(d)) /\ Shifts16(c) \in Halves
<1>1. \A x, y \in Halves :
        Shift16(x) \in Halves /\ Shift16(Xor(x, y)) = Xor(Shift16(x), Shift16(y))
  BY Shift16Type, Shift16Linear
<1>. DEFINE c2 == Shift16(Shift16(c))
            d2 == Shift16(Shift16(d))
            c4 == Shift16(Shift16(c2))
            d4 == Shift16(Shift16(d2))
            c6 == Shift16(Shift16(c4))
            d6 == Shift16(Shift16(d4))
<1>2. c2 \in Halves /\ d2 \in Halves /\ Shift16(Shift16(Xor(c, d))) = Xor(c2, d2)
  BY <1>1
<1>. HIDE DEF c2, d2
<1>3. c4 \in Halves /\ d4 \in Halves /\ Shift16(Shift16(Xor(c2, d2))) = Xor(c4, d4)
  BY <1>1, <1>2
<1>. HIDE DEF c4, d4
<1>4. c6 \in Halves /\ d6 \in Halves /\ Shift16(Shift16(Xor(c4, d4))) = Xor(c6, d6)
  BY <1>1, <1>3
<1>. HIDE DEF c6, d6
<1>5. /\ Shift16(Shift16(c6)) \in Halves
      /\ Shift16(Shift16(Xor(c6, d6))) = Xor(Shift16(Shift16(c6)), Shift16(Shift16(d6)))
  BY <1>1, <1>4
<1>6. Shifts16(Xor(c, d)) = Shift16(Shift16(Xor(c6, d6)))
  BY <1>2, <1>3, <1>4 DEF Shifts16
<1>7. Shifts16(c) = Shift16(Shift16(c6)) /\ Shifts16(d) = Shift16(Shift16(d6))
  BY DEF Shifts16, c2, c4, c6, d2, d4, d6
<1>. QED BY <1>5, <1>6, <1>7

\* What only moves up.
LEMMA Shifts16Low ==
  ASSUME NEW l \in Byte PROVE Shifts16(l) = 256 * l
<1>1. \A s \in Nat : s < 32768 => Shift16(s) = 2 * s
  BY DEF Shift16
<1>2. l \in Nat /\ l < 256
  BY DEF Byte
<1>. DEFINE l2 == Shift16(Shift16(l))
            l4 == Shift16(Shift16(l2))
            l6 == Shift16(Shift16(l4))
<1>3. l2 = 4 * l
  BY <1>1, <1>2
<1>. HIDE DEF l2
<1>4. l4 = 16 * l
  BY <1>1, <1>2, <1>3
<1>. HIDE DEF l4
<1>5. l6 = 64 * l
  BY <1>1, <1>2, <1>4
<1>. HIDE DEF l6
<1>6. Shift16(Shift16(l6)) = 256 * l
  BY <1>1, <1>2, <1>5
<1>7. Shifts16(l) = Shift16(Shift16(l6))
  BY DEF Shifts16, l2, l4, l6
<1>. QED BY <1>6, <1>7

LEMMA Entry16Shifts ==
  ASSUME NEW i \in Byte PROVE Entry16(i, 8) = Shifts16(256 * i) /\ 256 * i \in Halves
<1>. DEFINE turn == [p \in Halves \X (1..8) |-> Shift16(p[1])]
            base == 256 * i
            seq == [k \in 1..8 |-> k]
<1>1. turn \in [Halves \X (1..8) -> Halves]
  BY Shift16Type
<1>2. base \in Halves
  BY HalvesUnder, ByteUnder DEF Under, HalfRange
<1>3. seq \in Seq(1..8) /\ Len(seq) = 8 /\ \A k \in 1..8 : seq[k] \in 1..8
  OBVIOUS
<1>4. \A c \in Halves :
        /\ turn[<< c, seq[1] >>] = Shift16(c) /\ turn[<< c, seq[2] >>] = Shift16(c)
        /\ turn[<< c, seq[3] >>] = Shift16(c) /\ turn[<< c, seq[4] >>] = Shift16(c)
        /\ turn[<< c, seq[5] >>] = Shift16(c) /\ turn[<< c, seq[6] >>] = Shift16(c)
        /\ turn[<< c, seq[7] >>] = Shift16(c) /\ turn[<< c, seq[8] >>] = Shift16(c)
  OBVIOUS
<1>5. Entry16(i, 8) = Loop(turn, base, seq)
  BY DEF Entry16
<1>. HIDE DEF turn, seq, base
<1>6. PICK f : InEight(f, Halves, turn, base, seq)
  BY <1>1, <1>2, <1>3, LoopOfEight
<1>7. /\ f[1] = Shift16(f[0]) /\ f[2] = Shift16(f[1]) /\ f[3] = Shift16(f[2])
      /\ f[4] = Shift16(f[3]) /\ f[5] = Shift16(f[4]) /\ f[6] = Shift16(f[5])
      /\ f[7] = Shift16(f[6]) /\ f[8] = Shift16(f[7])
  <2>1. /\ f[0] \in Halves /\ f[1] \in Halves /\ f[2] \in Halves /\ f[3] \in Halves
        /\ f[4] \in Halves /\ f[5] \in Halves /\ f[6] \in Halves /\ f[7] \in Halves
    <3>1. f \in [0..8 -> Halves]
      BY <1>6 DEF InEight
    <3>. QED BY <3>1
  <2>. QED BY <1>4, <1>6, <2>1 DEF InEight
<1>8. Shifts16(base) = f[8] /\ Loop(turn, base, seq) = f[8]
  BY <1>6, <1>7 DEF Shifts16, InEight
<1>. QED BY <1>2, <1>5, <1>8 DEF base

\* The bits of a byte, the high one first, and what is left after each.
LEMMA BitsLeft16 ==
  ASSUME NEW b \in Byte
  PROVE  /\ 256 * b = Join((b \div 128) % 2, 256 * (b % 128))
         /\ 2 * (256 * (b % 128)) = Join((b \div 64) % 2, 512 * (b % 64))
         /\ 2 * (512 * (b % 64)) = Join((b \div 32) % 2, 1024 * (b % 32))
         /\ 2 * (1024 * (b % 32)) = Join((b \div 16) % 2, 2048 * (b % 16))
         /\ 2 * (2048 * (b % 16)) = Join((b \div 8) % 2, 4096 * (b % 8))
         /\ 2 * (4096 * (b % 8)) = Join((b \div 4) % 2, 8192 * (b % 4))
         /\ 2 * (8192 * (b % 4)) = Join((b \div 2) % 2, 16384 * (b % 2))
         /\ 2 * (16384 * (b % 2)) = Join((b \div 1) % 2, 0)
<1>1. b \in Nat /\ b < 256
  BY DEF Byte
<1>2. 256 * b = Join((b \div 128) % 2, 256 * (b % 128))
  BY <1>1 DEF Join
<1>3. 2 * (256 * (b % 128)) = Join((b \div 64) % 2, 512 * (b % 64))
  BY <1>1 DEF Join
<1>4. 2 * (512 * (b % 64)) = Join((b \div 32) % 2, 1024 * (b % 32))
  BY <1>1 DEF Join
<1>5. 2 * (1024 * (b % 32)) = Join((b \div 16) % 2, 2048 * (b % 16))
  BY <1>1 DEF Join
<1>6. 2 * (2048 * (b % 16)) = Join((b \div 8) % 2, 4096 * (b % 8))
  BY <1>1 DEF Join
<1>7. 2 * (4096 * (b % 8)) = Join((b \div 4) % 2, 8192 * (b % 4))
  BY <1>1 DEF Join
<1>8. 2 * (8192 * (b % 4)) = Join((b \div 2) % 2, 16384 * (b % 2))
  BY <1>1 DEF Join
<1>9. 2 * (16384 * (b % 2)) = Join((b \div 1) % 2, 0)
  BY <1>1 DEF Join
<1>. QED BY <1>2, <1>3, <1>4, <1>5, <1>6, <1>7, <1>8, <1>9

LEMMA LeftLow16 ==
  ASSUME NEW b \in Byte
  PROVE  /\ 256 * (b % 128) \in Lows /\ 512 * (b % 64) \in Lows
         /\ 1024 * (b % 32) \in Lows /\ 2048 * (b % 16) \in Lows
         /\ 4096 * (b % 8) \in Lows /\ 8192 * (b % 4) \in Lows
         /\ 16384 * (b % 2) \in Lows /\ 0 \in Lows
<1>1. b \in Nat /\ b < 256
  BY DEF Byte
<1>2. 256 * (b % 128) \in Lows /\ 512 * (b % 64) \in Lows
  BY <1>1 DEF Lows, Under
<1>3. 1024 * (b % 32) \in Lows /\ 2048 * (b % 16) \in Lows
  BY <1>1 DEF Lows, Under
<1>4. 4096 * (b % 8) \in Lows /\ 8192 * (b % 4) \in Lows
  BY <1>1 DEF Lows, Under
<1>5. 16384 * (b % 2) \in Lows /\ 0 \in Lows
  BY <1>1 DEF Lows, Under
<1>. QED BY <1>2, <1>3, <1>4, <1>5

LEMMA HighFirstBits ==
  ASSUME NEW b \in Byte
  PROVE  /\ HighFirst(b) \in Seq(0..1) /\ Len(HighFirst(b)) = 8
         /\ HighFirst(b)[1] = (b \div 128) % 2 /\ HighFirst(b)[2] = (b \div 64) % 2
         /\ HighFirst(b)[3] = (b \div 32) % 2 /\ HighFirst(b)[4] = (b \div 16) % 2
         /\ HighFirst(b)[5] = (b \div 8) % 2 /\ HighFirst(b)[6] = (b \div 4) % 2
         /\ HighFirst(b)[7] = (b \div 2) % 2 /\ HighFirst(b)[8] = (b \div 1) % 2
<1>. DEFINE places == << 128, 64, 32, 16, 8, 4, 2, 1 >>
<1>1. b \in Nat /\ b < 256
  BY DEF Byte
<1>2. HighFirst(b) = [k \in 1..8 |-> (b \div places[k]) % 2]
  BY DEF HighFirst, Bits
<1>3. \A k \in 1..8 : places[k] \in Nat \ {0}
  OBVIOUS
<1>4. /\ places[1] = 128 /\ places[2] = 64 /\ places[3] = 32 /\ places[4] = 16
      /\ places[5] = 8 /\ places[6] = 4 /\ places[7] = 2 /\ places[8] = 1
  OBVIOUS
<1>. HIDE DEF places
<1>5. \A k \in 1..8 : (b \div places[k]) % 2 \in 0..1
  <2>. SUFFICES ASSUME NEW k \in 1..8 PROVE (b \div places[k]) % 2 \in 0..1
    OBVIOUS
  <2>1. b \div places[k] \in Nat
    BY <1>1, <1>3
  <2>. QED BY <2>1
<1>6. HighFirst(b) \in Seq(0..1) /\ Len(HighFirst(b)) = 8
  BY <1>2, <1>5
<1>7. \A k \in 1..8 : HighFirst(b)[k] = (b \div places[k]) % 2
  BY <1>2
<1>8. /\ HighFirst(b)[1] = (b \div places[1]) % 2 /\ HighFirst(b)[2] = (b \div places[2]) % 2
      /\ HighFirst(b)[3] = (b \div places[3]) % 2 /\ HighFirst(b)[4] = (b \div places[4]) % 2
      /\ HighFirst(b)[5] = (b \div places[5]) % 2 /\ HighFirst(b)[6] = (b \div places[6]) % 2
      /\ HighFirst(b)[7] = (b \div places[7]) % 2 /\ HighFirst(b)[8] = (b \div places[8]) % 2
  BY <1>7
<1>. QED BY <1>4, <1>6, <1>8

\* The eight bits of a byte are eight turns of the value with the byte put in
\* at its top.
LEMMA Byte16Shifts ==
  ASSUME NEW c \in Halves, NEW b \in Byte
  PROVE  Byte16(c, b) = Shifts16(Xor(c, 256 * b)) /\ Byte16(c, b) \in Halves
<1>. DEFINE turn == [p \in Halves \X (0..1) |-> Bit16(p[1], p[2])]
            x == HighFirst(b)
            r1 == 256 * (b % 128)
            r2 == 512 * (b % 64)
            r3 == 1024 * (b % 32)
            r4 == 2048 * (b % 16)
            r5 == 4096 * (b % 8)
            r6 == 8192 * (b % 4)
            r7 == 16384 * (b % 2)
<1>1. x \in Seq(0..1) /\ Len(x) = 8
  BY HighFirstBits
<1>2. /\ 256 * b = Join(x[1], r1) /\ 2 * r1 = Join(x[2], r2) /\ 2 * r2 = Join(x[3], r3)
      /\ 2 * r3 = Join(x[4], r4) /\ 2 * r4 = Join(x[5], r5) /\ 2 * r5 = Join(x[6], r6)
      /\ 2 * r6 = Join(x[7], r7) /\ 2 * r7 = Join(x[8], 0)
  BY HighFirstBits, BitsLeft16
<1>3. /\ r1 \in Lows /\ r2 \in Lows /\ r3 \in Lows /\ r4 \in Lows
      /\ r5 \in Lows /\ r6 \in Lows /\ r7 \in Lows /\ 0 \in Lows
  BY LeftLow16
<1>4. turn \in [Halves \X (0..1) -> Halves]
  BY Shift16Type
<1>5. \A d \in Halves, y \in 0..1 : turn[<< d, y >>] = Bit16(d, y)
  OBVIOUS
<1>6. Byte16(c, b) = Loop(turn, c, x)
  BY DEF Byte16
<1>. HIDE DEF turn, x, r1, r2, r3, r4, r5, r6, r7
<1>7. PICK f : InEight(f, Halves, turn, c, x)
  BY <1>1, <1>4, LoopOfEight
<1>8. /\ f[0] \in Halves /\ f[1] \in Halves /\ f[2] \in Halves /\ f[3] \in Halves
      /\ f[4] \in Halves /\ f[5] \in Halves /\ f[6] \in Halves /\ f[7] \in Halves
      /\ f[8] \in Halves
  <2>1. f \in [0..8 -> Halves]
    BY <1>7 DEF InEight
  <2>. QED BY <2>1
<1>9. /\ x[1] \in 0..1 /\ x[2] \in 0..1 /\ x[3] \in 0..1 /\ x[4] \in 0..1
      /\ x[5] \in 0..1 /\ x[6] \in 0..1 /\ x[7] \in 0..1 /\ x[8] \in 0..1
  <2>1. \A k \in 1..8 : x[k] \in 0..1
    BY <1>1, ElementOfSeq
  <2>. QED BY <2>1
<1>10. /\ f[1] = Bit16(f[0], x[1]) /\ f[2] = Bit16(f[1], x[2])
       /\ f[3] = Bit16(f[2], x[3]) /\ f[4] = Bit16(f[3], x[4])
       /\ f[5] = Bit16(f[4], x[5]) /\ f[6] = Bit16(f[5], x[6])
       /\ f[7] = Bit16(f[6], x[7]) /\ f[8] = Bit16(f[7], x[8])
  BY <1>5, <1>7, <1>8, <1>9 DEF InEight
<1>11. \A d \in Halves, y \in 0..1, r \in Lows :
         Shift16(Xor(d, Join(y, r))) = Xor(Bit16(d, y), 2 * r)
  BY OneBit16
<1>12. /\ Shift16(Xor(f[0], Join(x[1], r1))) = Xor(f[1], 2 * r1)
       /\ Shift16(Xor(f[1], Join(x[2], r2))) = Xor(f[2], 2 * r2)
       /\ Shift16(Xor(f[2], Join(x[3], r3))) = Xor(f[3], 2 * r3)
       /\ Shift16(Xor(f[3], Join(x[4], r4))) = Xor(f[4], 2 * r4)
  BY <1>3, <1>8, <1>9, <1>10, <1>11
<1>13. /\ Shift16(Xor(f[4], Join(x[5], r5))) = Xor(f[5], 2 * r5)
       /\ Shift16(Xor(f[5], Join(x[6], r6))) = Xor(f[6], 2 * r6)
       /\ Shift16(Xor(f[6], Join(x[7], r7))) = Xor(f[7], 2 * r7)
       /\ Shift16(Xor(f[7], Join(x[8], 0))) = Xor(f[8], 0)
  <2>1. 2 * 0 = 0
    OBVIOUS
  <2>. QED BY <1>3, <1>8, <1>9, <1>10, <1>11, <2>1
<1>14. Shifts16(Xor(f[0], 256 * b)) = Xor(f[8], 0)
  BY <1>2, <1>12, <1>13 DEF Shifts16
<1>15. Xor(f[8], 0) = f[8]
  BY <1>8, XorNothing, HalvesUnder DEF Under
<1>16. c = f[0] /\ Loop(turn, c, x) = f[8]
  BY <1>7 DEF InEight
<1>. QED BY <1>6, <1>8, <1>14, <1>15, <1>16

\* One byte by the table is its eight bits.
LEMMA Turn16Byte16 ==
  ASSUME NEW c \in Halves, NEW b \in Byte
  PROVE  Turn16(c, b) = Byte16(c, b)
<1>. DEFINE h == c \div 256
            l == c % 256
            i == Xor(h, b)
<1>1. c \in Nat /\ c < 65536
  BY HalvesUnder DEF Under, HalfRange
<1>2. h \in Byte /\ l \in Byte /\ c = 256 * h + l
  BY <1>1, ByteUnder DEF Under
<1>3. i \in Byte
  BY <1>2, XorWidths
<1>. HIDE DEF h, l
<1>4. Xor(c, 256 * b) = Xor(256 * i, l)
  <2>1. h \in Nat /\ b \in Nat /\ i \in Nat /\ 0 \in Under(256) /\ l \in Under(256)
    BY <1>2, <1>3, ByteUnder DEF Under
  <2>2. \A u, v \in Nat, x, y \in Under(256) :
          Xor(256 * u + x, 256 * v + y) = 256 * Xor(u, v) + Xor(x, y)
    BY SplitsAt DEF Splits
  <2>3. Xor(256 * h + l, 256 * b + 0) = 256 * Xor(h, b) + Xor(l, 0)
    BY <2>1, <2>2
  <2>4. Xor(256 * i + 0, 256 * 0 + l) = 256 * Xor(i, 0) + Xor(0, l)
    <3>. HIDE DEF i
    <3>. QED BY <2>1, <2>2
  <2>5. Xor(l, 0) = l /\ Xor(0, l) = l /\ Xor(i, 0) = i
    BY <1>2, <2>1, XorNothing DEF Under
  <2>. HIDE DEF i
  <2>6. 256 * b + 0 = 256 * b /\ 256 * i + 0 = 256 * i /\ 256 * 0 + l = l
    BY <2>1 DEF Under
  <2>. QED BY <1>2, <2>3, <2>4, <2>5, <2>6 DEF i
<1>5. 256 * i \in Halves /\ Table16[i] = Shifts16(256 * i)
  BY <1>3, Entry16Shifts DEF Table16
<1>6. l \in Halves
  BY <1>2, ByteUnder, HalvesUnder DEF Under, HalfRange
<1>7. Shifts16(Xor(256 * i, l)) = Xor(Shifts16(256 * i), Shifts16(l))
  BY <1>5, <1>6, Shifts16Linear
<1>8. Shifts16(l) = 256 * l /\ Shifts16(l) \in Nat /\ Shifts16(256 * i) \in Nat
  <2>1. Shifts16(256 * i) \in Halves /\ Shifts16(l) \in Halves
    BY <1>5, <1>6, Shifts16Linear
  <2>. QED BY <1>2, <2>1, Shifts16Low, HalvesUnder DEF Under
<1>9. Turn16(c, b) = Xor(256 * l, Table16[i])
  BY DEF Turn16, l, h
<1>. HIDE DEF i
<1>10. Turn16(c, b) = Xor(Shifts16(256 * i), Shifts16(l))
  BY <1>5, <1>8, <1>9, XorCommutes
<1>. QED BY <1>4, <1>7, <1>10, Byte16Shifts

\* crc16, with the table, is the remainder by the polynomial.
LEMMA Crc16Agrees == \A data : crc16(data) = Serial16(data)
<1>1. [p \in Halves \X Byte |-> Turn16(p[1], p[2])]
        = [p \in Halves \X Byte |-> Byte16(p[1], p[2])]
  BY Turn16Byte16
<1>. QED BY <1>1, Zenon DEF crc16, Serial16

LEMMA Crc16Type ==
  ASSUME NEW data \in Seq(Byte) PROVE crc16(data) \in Halves
<1>. DEFINE turn == [p \in Halves \X Byte |-> Byte16(p[1], p[2])]
<1>1. turn \in [Halves \X Byte -> Halves]
  BY Byte16Shifts
<1>2. 0 \in Halves
  BY HalvesUnder DEF Under, HalfRange
<1>3. crc16(data) = Loop(turn, 0, data)
  BY Crc16Agrees DEF Serial16
<1>. HIDE DEF turn
<1>4. Loop(turn, 0, data) \in Halves
  BY <1>1, <1>2, LoopType, Zenon
<1>. QED BY <1>3, <1>4

-----------------------------------------------------------------------------
(* Thirty-two bits                                                           *)

LEMMA WordParts ==
  /\ \A w \in Words : w = Word(w.hi, w.lo) /\ w.hi \in Halves /\ w.lo \in Halves
  /\ \A h, l \in Halves : Word(h, l) \in Words
  /\ \A h, l : Word(h, l).hi = h /\ Word(h, l).lo = l
BY DEF Words, Word

LEMMA HalvesNat == \A c \in Halves : c \in Nat
BY HalvesUnder DEF Under

LEMMA WordXorType == \A v, w \in Words : WordXor(v, w) \in Words
BY WordParts, XorWidths DEF WordXor

LEMMA WordXorNothing == \A w \in Words : WordXor(w, Word(0, 0)) = w /\ WordXor(Word(0, 0), w) = w
<1>1. ASSUME NEW w \in Words PROVE Xor(w.hi, 0) = w.hi /\ Xor(w.lo, 0) = w.lo
                                /\ Xor(0, w.hi) = w.hi /\ Xor(0, w.lo) = w.lo
  BY WordParts, HalvesNat, XorNothing
<1>. QED BY <1>1, WordParts DEF WordXor

LEMMA WordXorSwap ==
  ASSUME NEW a \in Words, NEW b \in Words, NEW c \in Words, NEW d \in Words
  PROVE  WordXor(WordXor(a, b), WordXor(c, d)) = WordXor(WordXor(a, c), WordXor(b, d))
<1>1. /\ a.hi \in Nat /\ b.hi \in Nat /\ c.hi \in Nat /\ d.hi \in Nat
      /\ a.lo \in Nat /\ b.lo \in Nat /\ c.lo \in Nat /\ d.lo \in Nat
  BY WordParts, HalvesNat
<1>2. Xor(Xor(a.hi, b.hi), Xor(c.hi, d.hi)) = Xor(Xor(a.hi, c.hi), Xor(b.hi, d.hi))
  BY <1>1, XorSwap
<1>3. Xor(Xor(a.lo, b.lo), Xor(c.lo, d.lo)) = Xor(Xor(a.lo, c.lo), Xor(b.lo, d.lo))
  BY <1>1, XorSwap
<1>. QED BY <1>2, <1>3 DEF WordXor, Word

LEMMA WordXorSelf == \A w \in Words : WordXor(w, w) = Word(0, 0)
BY WordParts, HalvesNat, XorSelf DEF WordXor

\* Half of a word: its high half's last bit moves to the low half.
LEMMA HalfOfType == \A w \in Words : HalfOf(w) \in Words
<1>. SUFFICES ASSUME NEW w \in Words PROVE HalfOf(w) \in Words
  OBVIOUS
<1>1. w.hi \in Halves /\ w.lo \in Halves
  BY WordParts
<1>2. w.hi \div 2 \in Halves /\ w.lo \div 2 + 32768 * (w.hi % 2) \in Halves
  BY <1>1, HalvesUnder DEF Under, HalfRange
<1>. QED BY <1>2, WordParts DEF HalfOf

LEMMA HalfOfJoin ==
  ASSUME NEW w \in Words
  PROVE  /\ HalfOf(w) = Word(w.hi \div 2, Join(w.hi % 2, w.lo \div 2))
         /\ w.hi % 2 \in 0..1 /\ w.lo \div 2 \in Lows
<1>1. w.hi \in Nat /\ w.lo \in Nat /\ w.lo < 65536
  BY WordParts, HalvesUnder DEF Under, HalfRange
<1>2. w.lo \div 2 + 32768 * (w.hi % 2) = 32768 * (w.hi % 2) + (w.lo \div 2)
  BY <1>1
<1>3. w.hi % 2 \in 0..1 /\ w.lo \div 2 \in Lows
  BY <1>1 DEF Lows, Under
<1>. QED BY <1>2, <1>3 DEF HalfOf, Join

LEMMA HalfOfXor ==
  ASSUME NEW v \in Words, NEW w \in Words
  PROVE  HalfOf(WordXor(v, w)) = WordXor(HalfOf(v), HalfOf(w))
<1>. DEFINE x == WordXor(v, w)
<1>1. v.hi \in Nat /\ v.lo \in Nat /\ w.hi \in Nat /\ w.lo \in Nat
  BY WordParts, HalvesNat
<1>2. x \in Words /\ x.hi = Xor(v.hi, w.hi) /\ x.lo = Xor(v.lo, w.lo)
  BY WordXorType, WordParts DEF WordXor
<1>. HIDE DEF x
<1>h. \A a, b \in Nat : Xor(a, b) \div 2 = Xor(a \div 2, b \div 2) /\ Xor(a, b) % 2 = (a + b) % 2
  BY XorHalf
<1>3. x.hi \div 2 = Xor(v.hi \div 2, w.hi \div 2) /\ x.lo \div 2 = Xor(v.lo \div 2, w.lo \div 2)
  BY <1>1, <1>2, <1>h, Zenon
<1>4. x.hi % 2 = Xor(v.hi % 2, w.hi % 2)
  <2>1. x.hi % 2 = (v.hi + w.hi) % 2
    BY <1>1, <1>2, <1>h, Zenon
  <2>2. v.hi % 2 \in 0..1 /\ w.hi % 2 \in 0..1 /\ ((v.hi % 2) + (w.hi % 2)) % 2 = (v.hi + w.hi) % 2
    BY <1>1
  <2>3. Xor(v.hi % 2, w.hi % 2) = ((v.hi % 2) + (w.hi % 2)) % 2
    BY <2>2, XorBit, Zenon
  <2>. QED BY <2>1, <2>2, <2>3, Zenon
<1>5. Join(x.hi % 2, x.lo \div 2)
        = Xor(Join(v.hi % 2, v.lo \div 2), Join(w.hi % 2, w.lo \div 2))
  <2>1. /\ v.hi % 2 \in 0..1 /\ w.hi % 2 \in 0..1
        /\ v.lo \div 2 \in Lows /\ w.lo \div 2 \in Lows
    BY HalfOfJoin
  <2>2. Xor(Join(v.hi % 2, v.lo \div 2), Join(w.hi % 2, w.lo \div 2))
          = Join(Xor(v.hi % 2, w.hi % 2), Xor(v.lo \div 2, w.lo \div 2))
    <3>. DEFINE i == v.hi % 2
                j == w.hi % 2
                k == v.lo \div 2
                l == w.lo \div 2
    <3>1. i \in 0..1 /\ j \in 0..1 /\ k \in Lows /\ l \in Lows
      BY <2>1
    <3>. HIDE DEF i, j, k, l
    <3>2. \A a, b \in Nat : \A s, r \in Lows : Xor(Join(a, s), Join(b, r)) = Join(Xor(a, b), Xor(s, r))
      BY SplitsAt DEF Splits, Lows, Join
    <3>3. i \in Nat /\ j \in Nat
      BY <3>1
    <3>4. Xor(Join(i, k), Join(j, l)) = Join(Xor(i, j), Xor(k, l))
      BY <3>1, <3>2, <3>3, Zenon
    <3>. QED BY <3>4 DEF i, j, k, l
  <2>. QED BY <1>3, <1>4, <2>1, <2>2
<1>. QED BY <1>2, <1>3, <1>5, HalfOfJoin, WordParts DEF WordXor, x

\* What the bit that is shifted out brings in.
Poly32(t) == IF t = 1 THEN Word(60856, 33568) ELSE Word(0, 0)

LEMMA Poly32Xor ==
  /\ \A t \in 0..1 : Poly32(t) \in Words
  /\ \A t, u \in 0..1 : Poly32((t + u) % 2) = WordXor(Poly32(t), Poly32(u))
<1>1. Word(0, 0) \in Words /\ Word(60856, 33568) \in Words
  <2>1. 0 \in Halves /\ 60856 \in Halves /\ 33568 \in Halves
    BY HalvesUnder DEF Under, HalfRange
  <2>. QED BY <2>1, WordParts
<1>2. /\ WordXor(Word(0, 0), Word(0, 0)) = Word(0, 0)
      /\ WordXor(Word(60856, 33568), Word(0, 0)) = Word(60856, 33568)
      /\ WordXor(Word(0, 0), Word(60856, 33568)) = Word(60856, 33568)
      /\ WordXor(Word(60856, 33568), Word(60856, 33568)) = Word(0, 0)
  BY <1>1, WordXorNothing, WordXorSelf
<1>3. \A t, u \in 0..1 : (t = 0 \/ t = 1) /\ (u = 0 \/ u = 1)
  OBVIOUS
<1>4. (0 + 0) % 2 = 0 /\ (0 + 1) % 2 = 1 /\ (1 + 0) % 2 = 1 /\ (1 + 1) % 2 = 0
  OBVIOUS
<1>5. \A t \in 0..1 : Poly32(t) \in Words
  BY <1>1 DEF Poly32
<1>6. ASSUME NEW t \in 0..1, NEW u \in 0..1
      PROVE  Poly32((t + u) % 2) = WordXor(Poly32(t), Poly32(u))
  BY <1>2, <1>3, <1>4 DEF Poly32
<1>. QED BY <1>5, <1>6

LEMMA Shift32Parts ==
  ASSUME NEW w \in Words
  PROVE  /\ Shift32(w) = WordXor(HalfOf(w), Poly32(w.lo % 2))
         /\ \A x \in 0..1 : Bit32(w, x) = WordXor(HalfOf(w), Poly32((w.lo + x) % 2))
         /\ w.lo \in Nat /\ w.lo % 2 \in 0..1
<1>1. w.lo \in Nat
  BY WordParts, HalvesNat
<1>2. w.lo % 2 \in 0..1
  BY <1>1
<1>3. WordXor(HalfOf(w), Word(0, 0)) = HalfOf(w)
  BY HalfOfType, WordXorNothing
<1>. QED BY <1>1, <1>2, <1>3 DEF Shift32, Bit32, Poly32

LEMMA Shift32Type ==
  ASSUME NEW w \in Words
  PROVE  Shift32(w) \in Words /\ \A x \in 0..1 : Bit32(w, x) \in Words
<1>1. w.lo \in Nat /\ w.lo % 2 \in 0..1
  BY Shift32Parts
<1>2. \A x \in 0..1 : (w.lo + x) % 2 \in 0..1
  BY <1>1
<1>3. \A t \in 0..1 : WordXor(HalfOf(w), Poly32(t)) \in Words
  BY HalfOfType, Poly32Xor, WordXorType
<1>. QED BY <1>1, <1>2, <1>3, Shift32Parts

LEMMA Shift32Linear ==
  ASSUME NEW v \in Words, NEW w \in Words
  PROVE  Shift32(WordXor(v, w)) = WordXor(Shift32(v), Shift32(w))
<1>. DEFINE x == WordXor(v, w)
            t == v.lo % 2
            u == w.lo % 2
<1>1. x \in Words /\ x.lo = Xor(v.lo, w.lo)
  BY WordXorType, WordParts DEF WordXor
<1>2. v.lo \in Nat /\ w.lo \in Nat /\ t \in 0..1 /\ u \in 0..1
  BY Shift32Parts
<1>3. x.lo % 2 = (t + u) % 2
  <2>1. \A a, b \in Nat : Xor(a, b) % 2 = (a + b) % 2
    BY XorHalf
  <2>2. x.lo % 2 = (v.lo + w.lo) % 2
    BY <1>1, <1>2, <2>1, Zenon
  <2>. QED BY <1>2, <2>2
<1>4. HalfOf(x) = WordXor(HalfOf(v), HalfOf(w))
  BY HalfOfXor
<1>5. Shift32(x) = WordXor(HalfOf(x), Poly32(x.lo % 2))
  BY <1>1, Shift32Parts
<1>6. /\ Shift32(v) = WordXor(HalfOf(v), Poly32(t))
      /\ Shift32(w) = WordXor(HalfOf(w), Poly32(u))
  BY Shift32Parts
<1>. HIDE DEF x, t, u
<1>7. Poly32((t + u) % 2) = WordXor(Poly32(t), Poly32(u))
      /\ Poly32(t) \in Words /\ Poly32(u) \in Words
  BY <1>2, Poly32Xor
<1>8. HalfOf(v) \in Words /\ HalfOf(w) \in Words
  BY HalfOfType
<1>9. WordXor(WordXor(HalfOf(v), HalfOf(w)), WordXor(Poly32(t), Poly32(u)))
        = WordXor(WordXor(HalfOf(v), Poly32(t)), WordXor(HalfOf(w), Poly32(u)))
  BY <1>7, <1>8, WordXorSwap
<1>10. Shift32(x) = WordXor(Shift32(v), Shift32(w))
  BY <1>3, <1>4, <1>5, <1>6, <1>7, <1>9
<1>. QED BY <1>10 DEF x

\* A turn that shifts the bit x out is a turn for that bit.
LEMMA OneBit32 ==
  ASSUME NEW w \in Words, NEW x \in 0..1, NEW r \in Byte, 2 * r + x \in Byte
  PROVE  Shift32(WordXor(w, Word(0, 2 * r + x))) = WordXor(Bit32(w, x), Word(0, r))
<1>. DEFINE n == 2 * r + x
            v == Word(0, n)
            y == WordXor(w, v)
            p == Poly32((w.lo + x) % 2)
<1>1. r \in Nat /\ n \in Nat /\ n \div 2 = r
  BY DEF Byte
<1>2. n \in Halves /\ 0 \in Halves /\ r \in Halves
  BY ByteUnder, HalvesUnder DEF Under, HalfRange
<1>3. v \in Words /\ Word(0, r) \in Words /\ v.lo = n
  BY <1>2, WordParts
<1>4. HalfOf(v) = Word(0, r)
  <2>1. 0 \div 2 = 0 /\ 0 % 2 = 0 /\ n \div 2 + 32768 * 0 = r
    BY <1>1
  <2>. HIDE DEF n
  <2>. QED BY <2>1 DEF HalfOf, Word
<1>5. y \in Words /\ y.lo = Xor(w.lo, n)
  BY <1>3, WordXorType, WordParts DEF WordXor
<1>6. w.lo \in Nat
  BY WordParts, HalvesNat
<1>7. y.lo % 2 = (w.lo + x) % 2 /\ (w.lo + x) % 2 \in 0..1
  <2>1. \A a, b \in Nat : Xor(a, b) % 2 = (a + b) % 2
    BY XorHalf
  <2>2. (w.lo + n) % 2 = (w.lo + x) % 2
    BY <1>1, <1>6
  <2>. HIDE DEF n
  <2>3. y.lo % 2 = (w.lo + n) % 2
    BY <1>1, <1>5, <1>6, <2>1, Zenon
  <2>4. (w.lo + x) % 2 \in 0..1
    BY <1>6
  <2>. QED BY <2>2, <2>3, <2>4
<1>8. HalfOf(y) = WordXor(HalfOf(w), Word(0, r))
  BY <1>3, <1>4, HalfOfXor
<1>. HIDE DEF y
<1>9. Shift32(y) = WordXor(HalfOf(y), p)
  BY <1>5, <1>7, Shift32Parts
<1>10. Bit32(w, x) = WordXor(HalfOf(w), p) /\ p \in Words
  BY <1>7, Shift32Parts, Poly32Xor
<1>. HIDE DEF p
<1>11. WordXor(WordXor(HalfOf(w), Word(0, r)), p) = WordXor(WordXor(HalfOf(w), p), Word(0, r))
  <2>. DEFINE h == HalfOf(w)
              z == Word(0, r)
              o == Word(0, 0)
  <2>1. h \in Words /\ z \in Words /\ o \in Words /\ p \in Words
    BY <1>2, <1>3, <1>10, HalfOfType, WordParts
  <2>2. WordXor(p, o) = p /\ WordXor(o, p) = p /\ WordXor(z, o) = z /\ WordXor(o, z) = z
    BY <2>1, WordXorNothing
  <2>. HIDE DEF h, z, o
  <2>3. WordXor(WordXor(h, z), WordXor(p, o)) = WordXor(WordXor(h, p), WordXor(z, o))
    BY <2>1, WordXorSwap
  <2>4. WordXor(WordXor(h, z), p) = WordXor(WordXor(h, p), z)
    BY <2>2, <2>3
  <2>. QED BY <2>4 DEF h, z
<1>12. Shift32(y) = WordXor(Bit32(w, x), Word(0, r))
  BY <1>8, <1>9, <1>10, <1>11
<1>. QED BY <1>12 DEF y

Shifts32(w) ==
  Shift32(Shift32(Shift32(Shift32(Shift32(Shift32(Shift32(Shift32(w))))))))

LEMMA Shifts32Linear ==
  ASSUME NEW c \in Words, NEW d \in Words
  PROVE  Shifts32(WordXor(c, d)) = WordXor(Shifts32(c), Shifts32(d)) /\ Shifts32(c) \in Words
<1>1. \A x, y \in Words :
        Shift32(x) \in Words /\ Shift32(WordXor(x, y)) = WordXor(Shift32(x), Shift32(y))
  BY Shift32Type, Shift32Linear
<1>. DEFINE c2 == Shift32(Shift32(c))
            d2 == Shift32(Shift32(d))
            c4 == Shift32(Shift32(c2))
            d4 == Shift32(Shift32(d2))
            c6 == Shift32(Shift32(c4))
            d6 == Shift32(Shift32(d4))
<1>2. c2 \in Words /\ d2 \in Words /\ Shift32(Shift32(WordXor(c, d))) = WordXor(c2, d2)
  BY <1>1
<1>. HIDE DEF c2, d2
<1>3. c4 \in Words /\ d4 \in Words /\ Shift32(Shift32(WordXor(c2, d2))) = WordXor(c4, d4)
  BY <1>1, <1>2
<1>. HIDE DEF c4, d4
<1>4. c6 \in Words /\ d6 \in Words /\ Shift32(Shift32(WordXor(c4, d4))) = WordXor(c6, d6)
  BY <1>1, <1>3
<1>. HIDE DEF c6, d6
<1>5. /\ Shift32(Shift32(c6)) \in Words
      /\ Shift32(Shift32(WordXor(c6, d6))) = WordXor(Shift32(Shift32(c6)), Shift32(Shift32(d6)))
  BY <1>1, <1>4
<1>6. Shifts32(WordXor(c, d)) = Shift32(Shift32(WordXor(c6, d6)))
  BY <1>2, <1>3, <1>4 DEF Shifts32
<1>7. Shifts32(c) = Shift32(Shift32(c6)) /\ Shifts32(d) = Shift32(Shift32(d6))
  BY DEF Shifts32, c2, c4, c6, d2, d4, d6
<1>. QED BY <1>5, <1>6, <1>7

\* What only moves down.
LEMMA Shift32Even ==
  ASSUME NEW h \in Nat, NEW l \in Nat, NEW h2, NEW l2,
         l % 2 = 0, h2 = h \div 2, l2 = l \div 2 + 32768 * (h % 2)
  PROVE  Shift32(Word(h, l)) = Word(h2, l2)
<1>1. Word(h, l).lo = l /\ Word(h, l).hi = h
  BY DEF Word
<1>2. l % 2 # 1
  OBVIOUS
<1>3. Shift32(Word(h, l)) = HalfOf(Word(h, l))
  BY <1>1, <1>2 DEF Shift32
<1>4. HalfOf(Word(h, l)) = Word(h \div 2, l \div 2 + 32768 * (h % 2))
  <2>. DEFINE w == Word(h, l)
  <2>1. w.lo = l /\ w.hi = h
    BY <1>1
  <2>. HIDE DEF w
  <2>2. HalfOf(w) = Word(h \div 2, l \div 2 + 32768 * (h % 2))
    BY <2>1 DEF HalfOf
  <2>. QED BY <2>2 DEF w
<1>. QED BY <1>3, <1>4

LEMMA Shifts32High ==
  ASSUME NEW h \in Nat, NEW m \in Byte
  PROVE  Shifts32(Word(h, 256 * m)) = Word(h \div 256, m + 256 * (h % 256))
<1>. DEFINE w1 == Word(h \div 2, 128 * m + 32768 * (h % 2))
            w2 == Word(h \div 4, 64 * m + 16384 * (h % 4))
            w3 == Word(h \div 8, 32 * m + 8192 * (h % 8))
            w4 == Word(h \div 16, 16 * m + 4096 * (h % 16))
            w5 == Word(h \div 32, 8 * m + 2048 * (h % 32))
            w6 == Word(h \div 64, 4 * m + 1024 * (h % 64))
            w7 == Word(h \div 128, 2 * m + 512 * (h % 128))
            w8 == Word(h \div 256, m + 256 * (h % 256))
<1>0. m \in Nat
  BY DEF Byte
<1>1. Shift32(Word(h, 256 * m)) = w1
  <2>. DEFINE l == 256 * m
              b == h \div 2
              k == 128 * m + 32768 * (h % 2)
  <2>1. l \in Nat /\ l % 2 = 0
    BY <1>0
  <2>2. k = l \div 2 + 32768 * (h % 2) /\ b = h \div 2
    BY <1>0
  <2>. HIDE DEF l, b, k
  <2>3. Shift32(Word(h, l)) = Word(b, k)
    BY <2>1, <2>2, Shift32Even
  <2>. QED BY <2>3 DEF b, k, l
<1>2. Shift32(w1) = w2
  <2>. DEFINE a == h \div 2
              l == 128 * m + 32768 * (h % 2)
              b == h \div 4
              k == 64 * m + 16384 * (h % 4)
  <2>1. a \in Nat /\ l \in Nat /\ l % 2 = 0 /\ b = a \div 2
    BY <1>0
  <2>2. k = l \div 2 + 32768 * (a % 2)
    BY <1>0
  <2>. HIDE DEF a, l, b, k
  <2>3. Shift32(Word(a, l)) = Word(b, k)
    BY <2>1, <2>2, Shift32Even
  <2>. QED BY <2>3 DEF a, b, k, l
<1>3. Shift32(w2) = w3
  <2>. DEFINE a == h \div 4
              l == 64 * m + 16384 * (h % 4)
              b == h \div 8
              k == 32 * m + 8192 * (h % 8)
  <2>1. a \in Nat /\ l \in Nat /\ l % 2 = 0 /\ b = a \div 2
    BY <1>0
  <2>2. k = l \div 2 + 32768 * (a % 2)
    BY <1>0
  <2>. HIDE DEF a, l, b, k
  <2>3. Shift32(Word(a, l)) = Word(b, k)
    BY <2>1, <2>2, Shift32Even
  <2>. QED BY <2>3 DEF a, b, k, l
<1>4. Shift32(w3) = w4
  <2>. DEFINE a == h \div 8
              l == 32 * m + 8192 * (h % 8)
              b == h \div 16
              k == 16 * m + 4096 * (h % 16)
  <2>1. a \in Nat /\ l \in Nat /\ l % 2 = 0 /\ b = a \div 2
    BY <1>0
  <2>2. k = l \div 2 + 32768 * (a % 2)
    BY <1>0
  <2>. HIDE DEF a, l, b, k
  <2>3. Shift32(Word(a, l)) = Word(b, k)
    BY <2>1, <2>2, Shift32Even
  <2>. QED BY <2>3 DEF a, b, k, l
<1>5. Shift32(w4) = w5
  <2>. DEFINE a == h \div 16
              l == 16 * m + 4096 * (h % 16)
              b == h \div 32
              k == 8 * m + 2048 * (h % 32)
  <2>1. a \in Nat /\ l \in Nat /\ l % 2 = 0 /\ b = a \div 2
    BY <1>0
  <2>2. k = l \div 2 + 32768 * (a % 2)
    BY <1>0
  <2>. HIDE DEF a, l, b, k
  <2>3. Shift32(Word(a, l)) = Word(b, k)
    BY <2>1, <2>2, Shift32Even
  <2>. QED BY <2>3 DEF a, b, k, l
<1>6. Shift32(w5) = w6
  <2>. DEFINE a == h \div 32
              l == 8 * m + 2048 * (h % 32)
              b == h \div 64
              k == 4 * m + 1024 * (h % 64)
  <2>1. a \in Nat /\ l \in Nat /\ l % 2 = 0 /\ b = a \div 2
    BY <1>0
  <2>2. k = l \div 2 + 32768 * (a % 2)
    BY <1>0
  <2>. HIDE DEF a, l, b, k
  <2>3. Shift32(Word(a, l)) = Word(b, k)
    BY <2>1, <2>2, Shift32Even
  <2>. QED BY <2>3 DEF a, b, k, l
<1>7. Shift32(w6) = w7
  <2>. DEFINE a == h \div 64
              l == 4 * m + 1024 * (h % 64)
              b == h \div 128
              k == 2 * m + 512 * (h % 128)
  <2>1. a \in Nat /\ l \in Nat /\ l % 2 = 0 /\ b = a \div 2
    BY <1>0
  <2>2. k = l \div 2 + 32768 * (a % 2)
    BY <1>0
  <2>. HIDE DEF a, l, b, k
  <2>3. Shift32(Word(a, l)) = Word(b, k)
    BY <2>1, <2>2, Shift32Even
  <2>. QED BY <2>3 DEF a, b, k, l
<1>8. Shift32(w7) = w8
  <2>. DEFINE a == h \div 128
              l == 2 * m + 512 * (h % 128)
              b == h \div 256
              k == m + 256 * (h % 256)
  <2>1. a \in Nat /\ l \in Nat /\ l % 2 = 0 /\ b = a \div 2
    BY <1>0
  <2>2. k = l \div 2 + 32768 * (a % 2)
    BY <1>0
  <2>. HIDE DEF a, l, b, k
  <2>3. Shift32(Word(a, l)) = Word(b, k)
    BY <2>1, <2>2, Shift32Even
  <2>. QED BY <2>3 DEF a, b, k, l
<1>. HIDE DEF w1, w2, w3, w4, w5, w6, w7, w8
<1>9. Shifts32(Word(h, 256 * m)) = w8
  BY <1>1, <1>2, <1>3, <1>4, <1>5, <1>6, <1>7, <1>8 DEF Shifts32
<1>. QED BY <1>9 DEF w8

LEMMA Entry32Shifts ==
  ASSUME NEW i \in Byte PROVE Entry32(i, 8) = Shifts32(Word(0, i)) /\ Word(0, i) \in Words
<1>. DEFINE turn == [p \in Words \X (1..8) |-> Shift32(p[1])]
            base == Word(0, i)
            seq == [k \in 1..8 |-> k]
<1>1. turn \in [Words \X (1..8) -> Words]
  BY Shift32Type
<1>2. base \in Words
  <2>1. 0 \in Halves /\ i \in Halves
    BY HalvesUnder, ByteUnder DEF Under, HalfRange
  <2>. QED BY <2>1, WordParts
<1>3. seq \in Seq(1..8) /\ Len(seq) = 8 /\ \A k \in 1..8 : seq[k] \in 1..8
  OBVIOUS
<1>4. \A c \in Words :
        /\ turn[<< c, seq[1] >>] = Shift32(c) /\ turn[<< c, seq[2] >>] = Shift32(c)
        /\ turn[<< c, seq[3] >>] = Shift32(c) /\ turn[<< c, seq[4] >>] = Shift32(c)
        /\ turn[<< c, seq[5] >>] = Shift32(c) /\ turn[<< c, seq[6] >>] = Shift32(c)
        /\ turn[<< c, seq[7] >>] = Shift32(c) /\ turn[<< c, seq[8] >>] = Shift32(c)
  OBVIOUS
<1>5. Entry32(i, 8) = Loop(turn, base, seq)
  BY DEF Entry32
<1>. HIDE DEF turn, seq, base
<1>6. PICK f : InEight(f, Words, turn, base, seq)
  BY <1>1, <1>2, <1>3, LoopOfEight
<1>7. /\ f[1] = Shift32(f[0]) /\ f[2] = Shift32(f[1]) /\ f[3] = Shift32(f[2])
      /\ f[4] = Shift32(f[3]) /\ f[5] = Shift32(f[4]) /\ f[6] = Shift32(f[5])
      /\ f[7] = Shift32(f[6]) /\ f[8] = Shift32(f[7])
  <2>1. /\ f[0] \in Words /\ f[1] \in Words /\ f[2] \in Words /\ f[3] \in Words
        /\ f[4] \in Words /\ f[5] \in Words /\ f[6] \in Words /\ f[7] \in Words
    <3>1. f \in [0..8 -> Words]
      BY <1>6 DEF InEight
    <3>. QED BY <3>1
  <2>. QED BY <1>4, <1>6, <2>1 DEF InEight
<1>8. Shifts32(base) = f[8] /\ Loop(turn, base, seq) = f[8]
  BY <1>6, <1>7 DEF Shifts32, InEight
<1>. QED BY <1>2, <1>5, <1>8 DEF base

\* The bits of a byte, the low one first, and what is left after each.
LEMMA BitsLeft32 ==
  ASSUME NEW b \in Byte
  PROVE  /\ b = 2 * (b \div 2) + ((b \div 1) % 2)
         /\ b \div 2 = 2 * (b \div 4) + ((b \div 2) % 2)
         /\ b \div 4 = 2 * (b \div 8) + ((b \div 4) % 2)
         /\ b \div 8 = 2 * (b \div 16) + ((b \div 8) % 2)
         /\ b \div 16 = 2 * (b \div 32) + ((b \div 16) % 2)
         /\ b \div 32 = 2 * (b \div 64) + ((b \div 32) % 2)
         /\ b \div 64 = 2 * (b \div 128) + ((b \div 64) % 2)
         /\ b \div 128 = 2 * 0 + ((b \div 128) % 2)
<1>1. b \in Nat /\ b < 256
  BY DEF Byte
<1>2. /\ b = 2 * (b \div 2) + ((b \div 1) % 2)
      /\ b \div 2 = 2 * (b \div 4) + ((b \div 2) % 2)
      /\ b \div 4 = 2 * (b \div 8) + ((b \div 4) % 2)
  BY <1>1
<1>3. /\ b \div 8 = 2 * (b \div 16) + ((b \div 8) % 2)
      /\ b \div 16 = 2 * (b \div 32) + ((b \div 16) % 2)
      /\ b \div 32 = 2 * (b \div 64) + ((b \div 32) % 2)
  BY <1>1
<1>4. /\ b \div 64 = 2 * (b \div 128) + ((b \div 64) % 2)
      /\ b \div 128 = 2 * 0 + ((b \div 128) % 2)
  BY <1>1
<1>. QED BY <1>2, <1>3, <1>4

LEMMA LeftByte32 ==
  ASSUME NEW b \in Byte
  PROVE  /\ b \div 2 \in Byte /\ b \div 4 \in Byte /\ b \div 8 \in Byte /\ b \div 16 \in Byte
         /\ b \div 32 \in Byte /\ b \div 64 \in Byte /\ b \div 128 \in Byte /\ 0 \in Byte
<1>1. b \in Nat /\ b < 256
  BY DEF Byte
<1>2. b \div 2 < 256 /\ b \div 4 < 256 /\ b \div 8 < 256 /\ b \div 16 < 256
  BY <1>1
<1>3. b \div 32 < 256 /\ b \div 64 < 256 /\ b \div 128 < 256
  BY <1>1
<1>4. /\ b \div 2 \in Nat /\ b \div 4 \in Nat /\ b \div 8 \in Nat /\ b \div 16 \in Nat
      /\ b \div 32 \in Nat /\ b \div 64 \in Nat /\ b \div 128 \in Nat
  BY <1>1
<1>5. \A k \in Nat : k < 256 => k \in Byte
  BY DEF Byte
<1>. QED BY <1>2, <1>3, <1>4, <1>5

LEMMA LowFirstBits ==
  ASSUME NEW b \in Byte
  PROVE  /\ LowFirst(b) \in Seq(0..1) /\ Len(LowFirst(b)) = 8
         /\ LowFirst(b)[1] = (b \div 1) % 2 /\ LowFirst(b)[2] = (b \div 2) % 2
         /\ LowFirst(b)[3] = (b \div 4) % 2 /\ LowFirst(b)[4] = (b \div 8) % 2
         /\ LowFirst(b)[5] = (b \div 16) % 2 /\ LowFirst(b)[6] = (b \div 32) % 2
         /\ LowFirst(b)[7] = (b \div 64) % 2 /\ LowFirst(b)[8] = (b \div 128) % 2
<1>. DEFINE places == << 1, 2, 4, 8, 16, 32, 64, 128 >>
<1>1. b \in Nat /\ b < 256
  BY DEF Byte
<1>2. LowFirst(b) = [k \in 1..8 |-> (b \div places[k]) % 2]
  BY DEF LowFirst, Bits
<1>3. \A k \in 1..8 : places[k] \in Nat \ {0}
  OBVIOUS
<1>4. /\ places[1] = 1 /\ places[2] = 2 /\ places[3] = 4 /\ places[4] = 8
      /\ places[5] = 16 /\ places[6] = 32 /\ places[7] = 64 /\ places[8] = 128
  OBVIOUS
<1>. HIDE DEF places
<1>5. \A k \in 1..8 : (b \div places[k]) % 2 \in 0..1
  <2>. SUFFICES ASSUME NEW k \in 1..8 PROVE (b \div places[k]) % 2 \in 0..1
    OBVIOUS
  <2>1. b \div places[k] \in Nat
    BY <1>1, <1>3
  <2>. QED BY <2>1
<1>6. LowFirst(b) \in Seq(0..1) /\ Len(LowFirst(b)) = 8
  BY <1>2, <1>5
<1>7. \A k \in 1..8 : LowFirst(b)[k] = (b \div places[k]) % 2
  BY <1>2
<1>8. /\ LowFirst(b)[1] = (b \div places[1]) % 2 /\ LowFirst(b)[2] = (b \div places[2]) % 2
      /\ LowFirst(b)[3] = (b \div places[3]) % 2 /\ LowFirst(b)[4] = (b \div places[4]) % 2
      /\ LowFirst(b)[5] = (b \div places[5]) % 2 /\ LowFirst(b)[6] = (b \div places[6]) % 2
      /\ LowFirst(b)[7] = (b \div places[7]) % 2 /\ LowFirst(b)[8] = (b \div places[8]) % 2
  BY <1>7
<1>. QED BY <1>4, <1>6, <1>8

\* Of s the bit y drops out, and r is left.
Drops(s, y, r) == s = 2 * r + y

LEMMA BitDrops ==
  ASSUME NEW d \in Words, NEW y \in 0..1, NEW r \in Byte, NEW s \in Byte, Drops(s, y, r)
  PROVE  Shift32(WordXor(d, Word(0, s))) = WordXor(Bit32(d, y), Word(0, r))
<1>1. s = 2 * r + y
  BY DEF Drops
<1>2. Shift32(WordXor(d, Word(0, 2 * r + y))) = WordXor(Bit32(d, y), Word(0, r))
  BY <1>1, OneBit32
<1>. QED BY <1>1, <1>2

\* The eight bits of a byte are eight turns of the word with the byte put in at
\* its bottom.
LEMMA Byte32Shifts ==
  ASSUME NEW c \in Words, NEW b \in Byte
  PROVE  Byte32(c, b) = Shifts32(WordXor(c, Word(0, b))) /\ Byte32(c, b) \in Words
<1>. DEFINE turn == [p \in Words \X (0..1) |-> Bit32(p[1], p[2])]
            x == LowFirst(b)
            r1 == b \div 2
            r2 == b \div 4
            r3 == b \div 8
            r4 == b \div 16
            r5 == b \div 32
            r6 == b \div 64
            r7 == b \div 128
<1>1. x \in Seq(0..1) /\ Len(x) = 8
  BY LowFirstBits
<1>2. /\ Drops(b, x[1], r1) /\ Drops(r1, x[2], r2) /\ Drops(r2, x[3], r3)
      /\ Drops(r3, x[4], r4) /\ Drops(r4, x[5], r5) /\ Drops(r5, x[6], r6)
      /\ Drops(r6, x[7], r7) /\ Drops(r7, x[8], 0)
  BY LowFirstBits, BitsLeft32 DEF Drops
<1>3. /\ r1 \in Byte /\ r2 \in Byte /\ r3 \in Byte /\ r4 \in Byte
      /\ r5 \in Byte /\ r6 \in Byte /\ r7 \in Byte /\ 0 \in Byte
  BY LeftByte32
<1>4. turn \in [Words \X (0..1) -> Words]
  BY Shift32Type
<1>5. \A d \in Words, y \in 0..1 : turn[<< d, y >>] = Bit32(d, y)
  OBVIOUS
<1>6. Byte32(c, b) = Loop(turn, c, x)
  BY DEF Byte32
<1>. HIDE DEF turn, x, r1, r2, r3, r4, r5, r6, r7
<1>7. PICK f : InEight(f, Words, turn, c, x)
  BY <1>1, <1>4, LoopOfEight
<1>8. /\ f[0] \in Words /\ f[1] \in Words /\ f[2] \in Words /\ f[3] \in Words
      /\ f[4] \in Words /\ f[5] \in Words /\ f[6] \in Words /\ f[7] \in Words
      /\ f[8] \in Words
  <2>1. f \in [0..8 -> Words]
    BY <1>7 DEF InEight
  <2>. QED BY <2>1
<1>9. /\ x[1] \in 0..1 /\ x[2] \in 0..1 /\ x[3] \in 0..1 /\ x[4] \in 0..1
      /\ x[5] \in 0..1 /\ x[6] \in 0..1 /\ x[7] \in 0..1 /\ x[8] \in 0..1
  <2>1. \A k \in 1..8 : x[k] \in 0..1
    BY <1>1, ElementOfSeq
  <2>. QED BY <2>1
<1>10. /\ f[1] = Bit32(f[0], x[1]) /\ f[2] = Bit32(f[1], x[2])
       /\ f[3] = Bit32(f[2], x[3]) /\ f[4] = Bit32(f[3], x[4])
       /\ f[5] = Bit32(f[4], x[5]) /\ f[6] = Bit32(f[5], x[6])
       /\ f[7] = Bit32(f[6], x[7]) /\ f[8] = Bit32(f[7], x[8])
  BY <1>5, <1>7, <1>8, <1>9 DEF InEight
<1>11. \A d \in Words, y \in 0..1, r \in Byte, s \in Byte :
         Drops(s, y, r) => Shift32(WordXor(d, Word(0, s))) = WordXor(Bit32(d, y), Word(0, r))
  BY BitDrops
<1>12. /\ Shift32(WordXor(f[0], Word(0, b))) = WordXor(f[1], Word(0, r1))
       /\ Shift32(WordXor(f[1], Word(0, r1))) = WordXor(f[2], Word(0, r2))
       /\ Shift32(WordXor(f[2], Word(0, r2))) = WordXor(f[3], Word(0, r3))
       /\ Shift32(WordXor(f[3], Word(0, r3))) = WordXor(f[4], Word(0, r4))
  <2>1. Shift32(WordXor(f[0], Word(0, b))) = WordXor(f[1], Word(0, r1))
    BY <1>2, <1>3, <1>8, <1>9, <1>10, <1>11
  <2>2. Shift32(WordXor(f[1], Word(0, r1))) = WordXor(f[2], Word(0, r2))
    BY <1>2, <1>3, <1>8, <1>9, <1>10, <1>11
  <2>3. Shift32(WordXor(f[2], Word(0, r2))) = WordXor(f[3], Word(0, r3))
    BY <1>2, <1>3, <1>8, <1>9, <1>10, <1>11
  <2>4. Shift32(WordXor(f[3], Word(0, r3))) = WordXor(f[4], Word(0, r4))
    BY <1>2, <1>3, <1>8, <1>9, <1>10, <1>11
  <2>. QED BY <2>1, <2>2, <2>3, <2>4
<1>13. /\ Shift32(WordXor(f[4], Word(0, r4))) = WordXor(f[5], Word(0, r5))
       /\ Shift32(WordXor(f[5], Word(0, r5))) = WordXor(f[6], Word(0, r6))
       /\ Shift32(WordXor(f[6], Word(0, r6))) = WordXor(f[7], Word(0, r7))
       /\ Shift32(WordXor(f[7], Word(0, r7))) = WordXor(f[8], Word(0, 0))
  <2>1. Shift32(WordXor(f[4], Word(0, r4))) = WordXor(f[5], Word(0, r5))
    BY <1>2, <1>3, <1>8, <1>9, <1>10, <1>11
  <2>2. Shift32(WordXor(f[5], Word(0, r5))) = WordXor(f[6], Word(0, r6))
    BY <1>2, <1>3, <1>8, <1>9, <1>10, <1>11
  <2>3. Shift32(WordXor(f[6], Word(0, r6))) = WordXor(f[7], Word(0, r7))
    BY <1>2, <1>3, <1>8, <1>9, <1>10, <1>11
  <2>4. Shift32(WordXor(f[7], Word(0, r7))) = WordXor(f[8], Word(0, 0))
    BY <1>2, <1>3, <1>8, <1>9, <1>10, <1>11
  <2>. QED BY <2>1, <2>2, <2>3, <2>4
<1>14. Shifts32(WordXor(f[0], Word(0, b))) = WordXor(f[8], Word(0, 0))
  BY <1>12, <1>13 DEF Shifts32
<1>15. WordXor(f[8], Word(0, 0)) = f[8]
  BY <1>8, WordXorNothing
<1>16. c = f[0] /\ Loop(turn, c, x) = f[8]
  BY <1>7 DEF InEight
<1>. QED BY <1>6, <1>8, <1>14, <1>15, <1>16

\* One byte by the table is its eight bits.
LEMMA Turn32Byte32 ==
  ASSUME NEW w \in Words, NEW b \in Byte
  PROVE  Turn32(w, b) = Byte32(w, b)
<1>. DEFINE m == w.lo \div 256
            l == w.lo % 256
            i == Xor(l, b)
            up == Word(w.hi, 256 * m)
            down == Word(w.hi \div 256, m + 256 * (w.hi % 256))
<1>1. w.lo \in Nat /\ w.lo < 65536 /\ w.hi \in Nat /\ w.hi \in Halves /\ w = Word(w.hi, w.lo)
  BY WordParts, HalvesUnder DEF Under, HalfRange
<1>2. m \in Byte /\ l \in Byte /\ w.lo = 256 * m + l
  BY <1>1, ByteUnder DEF Under
<1>3. i \in Byte
  BY <1>2, XorWidths
<1>. HIDE DEF m, l
<1>4. WordXor(w, Word(0, b)) = WordXor(Word(0, i), up)
  <2>1. m \in Nat /\ b \in Under(256) /\ i \in Under(256) /\ 0 \in Under(256) /\ l \in Under(256)
        /\ 0 \in Nat
    BY <1>2, <1>3, ByteUnder DEF Under
  <2>2. \A u, v \in Nat, x, y \in Under(256) :
          Xor(256 * u + x, 256 * v + y) = 256 * Xor(u, v) + Xor(x, y)
    BY SplitsAt DEF Splits
  <2>3. Xor(256 * m + l, 256 * 0 + b) = 256 * Xor(m, 0) + Xor(l, b)
    BY <2>1, <2>2
  <2>4. Xor(256 * 0 + i, 256 * m + 0) = 256 * Xor(0, m) + Xor(i, 0)
    <3>. HIDE DEF i
    <3>. QED BY <2>1, <2>2
  <2>5. Xor(m, 0) = m /\ Xor(0, m) = m /\ Xor(i, 0) = i /\ Xor(w.hi, 0) = w.hi /\ Xor(0, w.hi) = w.hi
    <3>. HIDE DEF i
    <3>. QED BY <1>1, <2>1, XorNothing DEF Under
  <2>6. Xor(w.lo, b) = 256 * m + i
    <3>1. 256 * 0 + b = b
      BY <2>1 DEF Under
    <3>. QED BY <1>2, <2>3, <2>5, <3>1
  <2>7. Xor(i, 256 * m) = 256 * m + i
    <3>. HIDE DEF i
    <3>1. 256 * 0 + i = i /\ 256 * m + 0 = 256 * m
      BY <2>1 DEF Under
    <3>. QED BY <2>4, <2>5, <3>1
  <2>8. WordXor(w, Word(0, b)) = Word(w.hi, 256 * m + i)
    BY <2>5, <2>6 DEF WordXor, Word
  <2>9. WordXor(Word(0, i), up) = Word(w.hi, 256 * m + i)
    BY <2>5, <2>7 DEF WordXor, Word
  <2>. QED BY <2>8, <2>9
<1>5. Word(0, i) \in Words /\ Table32[i] = Shifts32(Word(0, i))
  BY <1>3, Entry32Shifts DEF Table32
<1>6. up \in Words
  <2>1. 256 * m \in Halves
    BY <1>2, ByteUnder, HalvesUnder DEF Under, HalfRange
  <2>. QED BY <1>1, <2>1, WordParts
<1>7. Shifts32(up) = down
  BY <1>1, <1>2, Shifts32High
<1>8. Turn32(w, b) = WordXor(down, Table32[i])
  BY DEF Turn32, m, l
<1>. HIDE DEF i, up, down
<1>9. Shifts32(WordXor(Word(0, i), up)) = WordXor(Shifts32(Word(0, i)), Shifts32(up))
      /\ Shifts32(Word(0, i)) \in Words
  BY <1>5, <1>6, Shifts32Linear
<1>10. down \in Words
  BY <1>6, <1>7, Shifts32Linear
<1>11. \A u, v \in Words : WordXor(u, v) = WordXor(v, u)
  BY WordParts, HalvesNat, XorCommutes DEF WordXor
<1>12. Turn32(w, b) = WordXor(Shifts32(Word(0, i)), Shifts32(up))
  BY <1>5, <1>7, <1>8, <1>9, <1>10, <1>11
<1>. QED BY <1>4, <1>9, <1>12, Byte32Shifts

\* crc32, with the table, is the remainder by the polynomial.
LEMMA Crc32Agrees == \A data : crc32(data) = Serial32(data)
<1>1. [p \in Words \X Byte |-> Turn32(p[1], p[2])]
        = [p \in Words \X Byte |-> Byte32(p[1], p[2])]
  BY Turn32Byte32
<1>. QED BY <1>1, Zenon DEF crc32, Serial32

LEMMA OnesType == Ones \in Words
<1>1. 65535 \in Halves
  BY HalvesUnder DEF Under, HalfRange
<1>. QED BY <1>1, WordParts DEF Ones

LEMMA Crc32Type ==
  ASSUME NEW data \in Seq(Byte) PROVE crc32(data) \in Words
<1>. DEFINE turn == [p \in Words \X Byte |-> Byte32(p[1], p[2])]
<1>1. turn \in [Words \X Byte -> Words]
  BY Byte32Shifts
<1>2. crc32(data) = WordXor(Loop(turn, Ones, data), Ones)
  BY Crc32Agrees DEF Serial32
<1>. HIDE DEF turn
<1>3. Loop(turn, Ones, data) \in Words
  BY <1>1, OnesType, LoopType, Zenon
<1>. QED BY <1>2, <1>3, OnesType, WordXorType

-----------------------------------------------------------------------------
(* A byte that changes, changes the CRC                                      *)

\* Different values stay different, and different bytes make them so.
TellsApart(turn, S, T) ==
  /\ \A r, s \in S : \A x \in T : turn[<< r, x >>] = turn[<< s, x >>] => r = s
  /\ \A s \in S : \A x, y \in T : turn[<< s, x >>] = turn[<< s, y >>] => x = y

\* s and t differ in their i-th elements, and nowhere else.
OneOff(s, t, i) ==
  /\ Len(s) = Len(t) /\ i \in 1..Len(s) /\ s[i] # t[i]
  /\ \A j \in 1..Len(s) : j # i => s[j] = t[j]

LEMMA LoopTellsApart ==
  ASSUME NEW S, NEW T, NEW turn, IsTurn(turn, S, T), TellsApart(turn, S, T), NEW base \in S,
         NEW s \in Seq(T), NEW t \in Seq(T), NEW i, OneOff(s, t, i)
  PROVE  Loop(turn, base, s) # Loop(turn, base, t)
<1>t. turn \in [S \X T -> S]
  BY DEF IsTurn
<1>. DEFINE m == Len(s)
<1>1. /\ m \in Nat /\ Len(t) = m /\ i \in 1..m /\ s[i] # t[i]
      /\ \A j \in 1..m : s[j] \in T /\ t[j] \in T /\ (j # i => s[j] = t[j])
  BY LenProperties, ElementOfSeq DEF OneOff
<1>a. PICK f : Values(f, S, turn, base, s)
  BY <1>t, LoopTurns, Zenon
<1>b. PICK g : Values(g, S, turn, base, t)
  BY <1>t, LoopTurns, Zenon
<1>2. /\ f[0] = base /\ Loop(turn, base, s) = f[m]
      /\ \A j \in 1..m : f[j] = turn[<< f[j - 1], s[j] >>]
      /\ \A j \in 0..m : f[j] \in S
  BY <1>a DEF Values
<1>3. /\ g[0] = base /\ Loop(turn, base, t) = g[m]
      /\ \A j \in 1..m : g[j] = turn[<< g[j - 1], t[j] >>]
      /\ \A j \in 0..m : g[j] \in S
  BY <1>1, <1>b DEF Values
<1>. HIDE DEF m
<1>. DEFINE N == {k \in Nat : k <= m => /\ k < i => f[k] = g[k]
                                        /\ k >= i => f[k] # g[k]}
<1>4. 0 \in N
  BY <1>1, <1>2, <1>3
<1>5. ASSUME NEW k \in Nat, k \in N PROVE k + 1 \in N
  <2>. SUFFICES ASSUME k + 1 <= m
                PROVE  (k + 1 < i => f[k + 1] = g[k + 1]) /\ (k + 1 >= i => f[k + 1] # g[k + 1])
    OBVIOUS
  <2>1. k + 1 \in 1..m /\ k \in 0..m /\ (k + 1) - 1 = k /\ k <= m
    BY <1>1
  <2>2. (k < i => f[k] = g[k]) /\ (k >= i => f[k] # g[k])
    BY <1>5, <2>1
  <2>3. /\ f[k + 1] = turn[<< f[k], s[k + 1] >>] /\ g[k + 1] = turn[<< g[k], t[k + 1] >>]
        /\ f[k] \in S /\ g[k] \in S /\ s[k + 1] \in T /\ t[k + 1] \in T
        /\ (k + 1 # i => s[k + 1] = t[k + 1])
    BY <1>1, <1>2, <1>3, <2>1
  <2>4. CASE k + 1 < i
    <3>1. k < i /\ k + 1 # i /\ ~(k + 1 >= i)
      BY <1>1, <2>4
    <3>. QED BY <2>2, <2>3, <3>1
  <2>5. CASE k + 1 = i
    <3>1. k < i /\ ~(k + 1 < i) /\ s[k + 1] # t[k + 1]
      BY <1>1, <2>5
    <3>. QED BY <2>2, <2>3, <3>1 DEF TellsApart
  <2>6. CASE k >= i
    <3>1. k + 1 # i /\ ~(k + 1 < i)
      BY <1>1, <2>6
    <3>. QED BY <2>2, <2>3, <2>6, <3>1 DEF TellsApart
  <2>7. k + 1 < i \/ k + 1 = i \/ k >= i
    BY <1>1
  <2>. QED BY <2>4, <2>5, <2>6, <2>7
<1>6. Nat \subseteq N
  <2>. HIDE DEF N
  <2>. QED BY <1>4, <1>5, SetInduction
<1>7. m \in N /\ m >= i /\ m <= m
  BY <1>1, <1>6
<1>. QED BY <1>2, <1>3, <1>7

LEMMA XorCancels ==
  \A a, b, p \in Nat : Xor(a, p) = Xor(b, p) => a = b
BY XorTwice

LEMMA Shift16Back ==
  ASSUME NEW c \in Halves, NEW d \in Halves, Shift16(c) = Shift16(d)
  PROVE  c = d
<1>a. PICK t \in 0..1, s \in Lows : c = Join(t, s)
  BY InParts16
<1>b. PICK u \in 0..1, r \in Lows : d = Join(u, r)
  BY InParts16
<1>1. Shift16(c) = Xor(2 * s, Poly16(t)) /\ Shift16(d) = Xor(2 * r, Poly16(u))
  BY <1>a, <1>b, Shift16Parts
<1>2. /\ 2 * s \in Nat /\ 2 * r \in Nat /\ Poly16(t) \in Nat /\ Poly16(u) \in Nat
      /\ (2 * s + Poly16(t)) % 2 = t /\ (2 * r + Poly16(u)) % 2 = u
  <2>1. s \in Nat /\ r \in Nat
    BY DEF Under, Lows
  <2>2. /\ Poly16(t) \in Nat /\ Poly16(u) \in Nat /\ Poly16(t) % 2 = t /\ Poly16(u) % 2 = u
    BY DEF Poly16
  <2>. QED BY <2>1, <2>2
<1>3. t = u
  <2>. DEFINE x == 2 * s
              y == 2 * r
              p == Poly16(t)
              q == Poly16(u)
  <2>1. x \in Nat /\ y \in Nat /\ p \in Nat /\ q \in Nat /\ (x + p) % 2 = t /\ (y + q) % 2 = u
        /\ Xor(x, p) = Xor(y, q)
    BY <1>1, <1>2
  <2>. HIDE DEF x, y, p, q
  <2>2. Xor(x, p) % 2 = (x + p) % 2 /\ Xor(y, q) % 2 = (y + q) % 2
    BY <2>1, XorHalf
  <2>. QED BY <2>1, <2>2, Zenon
<1>4. 2 * s = 2 * r
  BY <1>1, <1>2, <1>3, XorCancels
<1>5. s = r
  BY <1>4 DEF Under, Lows
<1>. QED BY <1>a, <1>b, <1>3, <1>5

LEMMA Shifts16Back ==
  ASSUME NEW c \in Halves, NEW d \in Halves, Shifts16(c) = Shifts16(d)
  PROVE  c = d
<1>1. \A x, y \in Halves : Shift16(x) \in Halves /\ (Shift16(x) = Shift16(y) => x = y)
  BY Shift16Type, Shift16Back
<1>2. \A x, y \in Halves :
        /\ Shift16(Shift16(x)) \in Halves
        /\ Shift16(Shift16(x)) = Shift16(Shift16(y)) => x = y
  BY <1>1
<1>3. \A x, y \in Halves :
        /\ Shift16(Shift16(Shift16(Shift16(x)))) \in Halves
        /\ Shift16(Shift16(Shift16(Shift16(x)))) = Shift16(Shift16(Shift16(Shift16(y)))) => x = y
  BY <1>2
<1>. DEFINE c4 == Shift16(Shift16(Shift16(Shift16(c))))
            d4 == Shift16(Shift16(Shift16(Shift16(d))))
<1>4. c4 \in Halves /\ d4 \in Halves /\ (c4 = d4 => c = d)
  BY <1>3
<1>5. Shift16(Shift16(Shift16(Shift16(c4)))) = Shift16(Shift16(Shift16(Shift16(d4))))
  BY DEF Shifts16
<1>. HIDE DEF c4, d4
<1>6. c4 = d4
  BY <1>3, <1>4, <1>5
<1>. QED BY <1>4, <1>6

LEMMA Byte16TellsApart ==
  TellsApart([p \in Halves \X Byte |-> Byte16(p[1], p[2])], Halves, Byte)
<1>1. \A c \in Halves, b \in Byte :
        /\ c \in Nat /\ 256 * b \in Nat /\ Xor(c, 256 * b) \in Halves
        /\ Byte16(c, b) = Shifts16(Xor(c, 256 * b))
  <2>1. \A b \in Byte : b \in Nat /\ 256 * b \in Halves /\ 256 * b \in Nat
    BY ByteUnder, HalvesUnder DEF Under, HalfRange
  <2>. QED BY <2>1, Byte16Shifts, HalvesNat, XorWidths
<1>2. ASSUME NEW c \in Halves, NEW d \in Halves, NEW b \in Byte, Byte16(c, b) = Byte16(d, b)
      PROVE  c = d
  <2>1. Xor(c, 256 * b) = Xor(d, 256 * b)
    BY <1>1, <1>2, Shifts16Back
  <2>. QED BY <1>1, <2>1, XorCancels
<1>3. ASSUME NEW c \in Halves, NEW x \in Byte, NEW y \in Byte, Byte16(c, x) = Byte16(c, y)
      PROVE  x = y
  <2>1. Xor(c, 256 * x) = Xor(c, 256 * y)
    BY <1>1, <1>3, Shifts16Back
  <2>2. Xor(256 * x, c) = Xor(256 * y, c)
    BY <1>1, <2>1, XorCommutes
  <2>3. 256 * x = 256 * y
    BY <1>1, <2>2, XorCancels
  <2>. QED BY <2>3, ByteUnder DEF Under
<1>. QED BY <1>2, <1>3 DEF TellsApart

LEMMA WordXorCancels ==
  \A v, w, p \in Words : WordXor(v, p) = WordXor(w, p) => v = w
<1>. SUFFICES ASSUME NEW v \in Words, NEW w \in Words, NEW p \in Words, WordXor(v, p) = WordXor(w, p)
     PROVE  v = w
  OBVIOUS
<1>1. /\ v.hi \in Nat /\ v.lo \in Nat /\ w.hi \in Nat /\ w.lo \in Nat /\ p.hi \in Nat /\ p.lo \in Nat
      /\ v = Word(v.hi, v.lo) /\ w = Word(w.hi, w.lo)
  BY WordParts, HalvesNat
<1>2. Xor(v.hi, p.hi) = Xor(w.hi, p.hi) /\ Xor(v.lo, p.lo) = Xor(w.lo, p.lo)
  BY WordParts DEF WordXor
<1>3. v.hi = w.hi /\ v.lo = w.lo
  BY <1>1, <1>2, XorCancels
<1>. QED BY <1>1, <1>3

\* The polynomial's first bit is set, and half of a word has none there.
LEMMA TopBit32 ==
  ASSUME NEW w \in Words, NEW t \in 0..1
  PROVE  LET h == WordXor(HalfOf(w), Poly32(t)).hi IN h \in Nat /\ (h >= 32768 <=> t = 1)
<1>. DEFINE s == w.hi \div 2
            p == Poly32(t).hi
            h == WordXor(HalfOf(w), Poly32(t)).hi
<1>1. w.hi \in Nat /\ w.hi < 65536
  BY WordParts, HalvesUnder DEF Under, HalfRange
<1>2. s \in Lows /\ s = Join(0, s) /\ HalfOf(w).hi = s
  BY <1>1 DEF Lows, Under, Join, HalfOf, Word
<1>3. h = Xor(s, p)
  BY <1>2 DEF WordXor, Word
<1>4. p = Join(t, IF t = 1 THEN 28088 ELSE 0)
  BY DEF Poly32, Word, Join
<1>5. 28088 \in Lows /\ 0 \in Lows /\ 0 \in 0..1
  BY DEF Lows, Under
<1>6. Xor(0, t) = t
  BY XorNothing
<1>. HIDE DEF s, p, h
<1>7. PICK r \in Lows : p = Join(t, r)
  BY <1>4, <1>5
<1>8. Xor(s, r) \in Lows /\ Xor(Join(0, s), Join(t, r)) = Join(Xor(0, t), Xor(s, r))
  <2>1. s \in Lows
    BY <1>2
  <2>2. \A z \in 0..1 : \A x \in Lows :
          Xor(x, r) \in Lows /\ Xor(Join(z, x), Join(t, r)) = Join(Xor(z, t), Xor(x, r))
    <3>. SUFFICES ASSUME NEW z \in 0..1, NEW x \in Lows
         PROVE  Xor(x, r) \in Lows /\ Xor(Join(z, x), Join(t, r)) = Join(Xor(z, t), Xor(x, r))
      OBVIOUS
    <3>1. t \in Nat /\ z \in Nat
      OBVIOUS
    <3>. QED BY <3>1, SplitsAt DEF Splits, Lows, Join
  <2>. QED BY <1>5, <2>1, <2>2
<1>9. h = Join(t, Xor(s, r))
  BY <1>2, <1>3, <1>6, <1>7, <1>8
<1>. QED BY <1>8, <1>9 DEF Join, Lows, Under, h

LEMMA HalfOfBack ==
  ASSUME NEW v \in Words, NEW w \in Words, HalfOf(v) = HalfOf(w), v.lo % 2 = w.lo % 2
  PROVE  v = w
<1>1. /\ HalfOf(v) = Word(v.hi \div 2, Join(v.hi % 2, v.lo \div 2))
      /\ HalfOf(w) = Word(w.hi \div 2, Join(w.hi % 2, w.lo \div 2))
      /\ v.hi % 2 \in 0..1 /\ v.lo \div 2 \in Lows
      /\ w.hi % 2 \in 0..1 /\ w.lo \div 2 \in Lows
  BY HalfOfJoin
<1>2. v.hi \div 2 = w.hi \div 2 /\ Join(v.hi % 2, v.lo \div 2) = Join(w.hi % 2, w.lo \div 2)
  <2>. DEFINE a == v.hi \div 2
              b == w.hi \div 2
              c == Join(v.hi % 2, v.lo \div 2)
              d == Join(w.hi % 2, w.lo \div 2)
  <2>1. Word(a, c) = Word(b, d)
    BY <1>1
  <2>. HIDE DEF a, b, c, d
  <2>2. a = b /\ c = d
    BY <2>1 DEF Word
  <2>. QED BY <2>2 DEF a, b, c, d
<1>3. \A t, u \in 0..1 : \A s, r \in Lows : Join(t, s) = Join(u, r) => t = u /\ s = r
  BY DEF Join, Lows, Under
<1>4. v.hi % 2 = w.hi % 2 /\ v.lo \div 2 = w.lo \div 2
  BY <1>1, <1>2, <1>3
<1>5. /\ v.hi \in Nat /\ v.lo \in Nat /\ w.hi \in Nat /\ w.lo \in Nat
      /\ v = Word(v.hi, v.lo) /\ w = Word(w.hi, w.lo)
  BY WordParts, HalvesNat
<1>6. \A a, b \in Nat : a \div 2 = b \div 2 /\ a % 2 = b % 2 => a = b
  OBVIOUS
<1>7. v.hi = w.hi /\ v.lo = w.lo
  BY <1>2, <1>4, <1>5, <1>6
<1>. QED BY <1>5, <1>7

LEMMA Shift32Back ==
  ASSUME NEW v \in Words, NEW w \in Words, Shift32(v) = Shift32(w)
  PROVE  v = w
<1>. DEFINE t == v.lo % 2
            u == w.lo % 2
<1>1. /\ t \in 0..1 /\ u \in 0..1
      /\ WordXor(HalfOf(v), Poly32(t)) = WordXor(HalfOf(w), Poly32(u))
  BY Shift32Parts
<1>. HIDE DEF t, u
<1>2. t = 1 <=> u = 1
  BY <1>1, TopBit32
<1>3. t = u
  BY <1>1, <1>2
<1>4. HalfOf(v) = HalfOf(w)
  BY <1>1, <1>3, HalfOfType, Poly32Xor, WordXorCancels
<1>. QED BY <1>3, <1>4, HalfOfBack DEF t, u

LEMMA Shifts32Back ==
  ASSUME NEW c \in Words, NEW d \in Words, Shifts32(c) = Shifts32(d)
  PROVE  c = d
<1>1. \A x, y \in Words : Shift32(x) \in Words /\ (Shift32(x) = Shift32(y) => x = y)
  BY Shift32Type, Shift32Back
<1>2. \A x, y \in Words :
        /\ Shift32(Shift32(x)) \in Words
        /\ Shift32(Shift32(x)) = Shift32(Shift32(y)) => x = y
  BY <1>1
<1>3. \A x, y \in Words :
        /\ Shift32(Shift32(Shift32(Shift32(x)))) \in Words
        /\ Shift32(Shift32(Shift32(Shift32(x)))) = Shift32(Shift32(Shift32(Shift32(y)))) => x = y
  BY <1>2
<1>. DEFINE c4 == Shift32(Shift32(Shift32(Shift32(c))))
            d4 == Shift32(Shift32(Shift32(Shift32(d))))
<1>4. c4 \in Words /\ d4 \in Words /\ (c4 = d4 => c = d)
  BY <1>3
<1>5. Shift32(Shift32(Shift32(Shift32(c4)))) = Shift32(Shift32(Shift32(Shift32(d4))))
  BY DEF Shifts32
<1>. HIDE DEF c4, d4
<1>6. c4 = d4
  BY <1>3, <1>4, <1>5
<1>. QED BY <1>4, <1>6

LEMMA Byte32TellsApart ==
  TellsApart([p \in Words \X Byte |-> Byte32(p[1], p[2])], Words, Byte)
<1>1. \A c \in Words, b \in Byte :
        /\ Word(0, b) \in Words /\ WordXor(c, Word(0, b)) \in Words
        /\ Byte32(c, b) = Shifts32(WordXor(c, Word(0, b)))
  <2>1. \A b \in Byte : b \in Halves /\ 0 \in Halves
    BY ByteUnder, HalvesUnder DEF Under, HalfRange
  <2>. QED BY <2>1, Byte32Shifts, WordParts, WordXorType
<1>2. ASSUME NEW c \in Words, NEW d \in Words, NEW b \in Byte, Byte32(c, b) = Byte32(d, b)
      PROVE  c = d
  <2>1. WordXor(c, Word(0, b)) = WordXor(d, Word(0, b))
    BY <1>1, <1>2, Shifts32Back
  <2>. QED BY <1>1, <2>1, WordXorCancels
<1>3. ASSUME NEW c \in Words, NEW x \in Byte, NEW y \in Byte, Byte32(c, x) = Byte32(c, y)
      PROVE  x = y
  <2>1. WordXor(c, Word(0, x)) = WordXor(c, Word(0, y))
    BY <1>1, <1>3, Shifts32Back
  <2>2. Xor(c.lo, x) = Xor(c.lo, y)
    BY <2>1, WordParts DEF WordXor
  <2>3. c.lo \in Nat /\ x \in Nat /\ y \in Nat
    BY WordParts, HalvesNat, ByteUnder DEF Under
  <2>4. Xor(x, c.lo) = Xor(y, c.lo)
    BY <2>2, <2>3, XorCommutes
  <2>. QED BY <2>3, <2>4, XorCancels
<1>. QED BY <1>2, <1>3 DEF TellsApart

-----------------------------------------------------------------------------
(* The theorems                                                              *)

\* Both tables give the remainders of their polynomials, for all data
\* (_build_crc16_table, _build_crc32_table, crc16 and crc32).
THEOREM TablesCompute ==
  \A data \in Seq(Byte) : crc16(data) = Serial16(data) /\ crc32(data) = Serial32(data)
BY Crc16Agrees, Crc32Agrees

\* Damage to one byte never passes for what was sent: data of any length that
\* differ in a single byte, in any of its bits, have different CRCs, of either
\* width.  That is what the engines' comparisons of CRCs rely on, and what
\* the ideal checks of the other modules stand for.
THEOREM DamagedByteShows ==
  ASSUME NEW s \in Seq(Byte), NEW t \in Seq(Byte), NEW i, OneOff(s, t, i)
  PROVE  crc16(s) # crc16(t) /\ crc32(s) # crc32(t)
<1>1. crc16(s) # crc16(t)
  <2>. DEFINE turn == [p \in Halves \X Byte |-> Byte16(p[1], p[2])]
  <2>1. IsTurn(turn, Halves, Byte) /\ TellsApart(turn, Halves, Byte)
    BY Byte16Shifts, Byte16TellsApart DEF IsTurn
  <2>2. 0 \in Halves
    BY HalvesUnder DEF Under, HalfRange
  <2>3. crc16(s) = Loop(turn, 0, s) /\ crc16(t) = Loop(turn, 0, t)
    BY Crc16Agrees DEF Serial16
  <2>. HIDE DEF turn
  <2>. QED BY <2>1, <2>2, <2>3, LoopTellsApart
<1>2. crc32(s) # crc32(t)
  <2>. DEFINE turn == [p \in Words \X Byte |-> Byte32(p[1], p[2])]
              u == Loop(turn, Ones, s)
              v == Loop(turn, Ones, t)
  <2>1. IsTurn(turn, Words, Byte) /\ TellsApart(turn, Words, Byte)
    BY Byte32Shifts, Byte32TellsApart DEF IsTurn
  <2>2. crc32(s) = WordXor(u, Ones) /\ crc32(t) = WordXor(v, Ones)
    BY Crc32Agrees DEF Serial32
  <2>3. u \in Words /\ v \in Words /\ Ones \in Words
    <3>. HIDE DEF turn
    <3>1. turn \in [Words \X Byte -> Words]
      BY <2>1 DEF IsTurn
    <3>. QED BY <3>1, OnesType, LoopType, Zenon
  <2>4. u # v
    <3>. HIDE DEF turn
    <3>. QED BY <2>1, <2>3, LoopTellsApart
  <2>. HIDE DEF u, v
  <2>. QED BY <2>2, <2>3, <2>4, WordXorCancels
<1>. QED BY <1>1, <1>2
=============================================================================
