--------------------------- MODULE WeightsProofs ----------------------------
(***************************************************************************)
(* Theorems about Weights, for every set of zones, every number of         *)
(* instances and of calls, and every width of the integers.                *)
(*                                                                         *)
(* The loops are recursive functions.  That each has the values its        *)
(* equation gives, and what holds of all its values, is shown by induction *)
(* on a set of numbers: no induction theorem with an operator as parameter *)
(* is needed.                                                              *)
(***************************************************************************)
EXTENDS Weights, FiniteSetTheorems, WellFoundedInduction, TLAPS

-----------------------------------------------------------------------------
(* Induction and recursion.                                                *)

\* A nonempty set of natural numbers has a least element.
LEMMA LeastElement ==
  ASSUME NEW T \in SUBSET Nat, T # {}
  PROVE  \E x \in T : \A y \in T : x <= y
<1> DEFINE R == OpToRel(<, Nat)
<1>1. IsWellFoundedOn(R, Nat)
  BY NatLessThanWellFounded
<1>2. \A m, n \in Nat : m < n => <<m, n>> \in R
  BY DEF OpToRel
<1> HIDE DEF R
<1>3. \E x \in T : \A y \in T : ~ (<<y, x>> \in R)
  BY <1>1, WFMin
<1>4. PICK x \in T : \A y \in T : ~ (<<y, x>> \in R)
  BY <1>3
<1>5. ASSUME NEW y \in T PROVE x <= y
  <2>1. x \in Nat /\ y \in Nat /\ ~ (<<y, x>> \in R)
    BY <1>4
  <2>2. ~ (y < x)
    BY <2>1, <1>2
  <2> QED  BY <2>1, <2>2
<1> QED  BY <1>5

\* A set of numbers with zero and with the successor of each has them all.
LEMMA SetInduction ==
  ASSUME NEW L \in SUBSET Nat, 0 \in L, \A m \in L : m + 1 \in L
  PROVE  L = Nat
<1>1. SUFFICES ASSUME Nat \ L # {} PROVE FALSE
  OBVIOUS
<1>2. PICK x \in Nat \ L : \A y \in Nat \ L : x <= y
  BY <1>1, LeastElement
<1>3. x - 1 \in Nat /\ x - 1 \notin Nat \ L
  BY <1>2
<1> QED  BY <1>2, <1>3

\* The values of a loop of n turns, from base.
IsLoop(r, S, n, base, step) ==
  /\ r \in [0..n -> S]
  /\ r[0] = base
  /\ \A i \in 1..n : r[i] = step[<<i, r[i - 1]>>]

\* A loop that starts from a value of S and stays in S has a value at each turn.
LEMMA Recursion ==
  ASSUME NEW S, NEW n \in Nat, NEW base \in S, NEW step \in [(1..n) \X S -> S]
  PROVE  \E r : IsLoop(r, S, n, base, step)
<1> DEFINE Has(k) == \E r \in [0..k -> S] :
             r[0] = base /\ \A i \in 1..k : r[i] = step[<<i, r[i - 1]>>]
           L == {k \in Nat : k <= n => Has(k)}
<1>1. Has(0)
  <2>1. [j \in 0..0 |-> base] \in [0..0 -> S]
    OBVIOUS
  <2>2. [j \in 0..0 |-> base][0] = base /\ 1..0 = {}
    OBVIOUS
  <2> QED  BY <2>1, <2>2
<1>2. ASSUME NEW k \in L PROVE k + 1 \in L
  <2>1. SUFFICES ASSUME k + 1 <= n PROVE Has(k + 1)
    OBVIOUS
  <2>2. PICK r \in [0..k -> S] : r[0] = base /\ \A i \in 1..k : r[i] = step[<<i, r[i - 1]>>]
    BY <1>2, <2>1
  <2> DEFINE q == [j \in 0..(k + 1) |-> IF j = k + 1 THEN step[<<k + 1, r[k]>>] ELSE r[j]]
  <2>3. step[<<k + 1, r[k]>>] \in S
    BY <2>1, <2>2
  <2>4. q \in [0..(k + 1) -> S]
    <3>1. ASSUME NEW j \in 0..(k + 1) PROVE q[j] \in S
      <4>1. CASE j = k + 1
        BY <4>1, <2>3
      <4>2. CASE j # k + 1
        <5>1. j \in 0..k
          BY <4>2
        <5> QED  BY <5>1, <4>2
      <4> QED  BY <4>1, <4>2
    <3> QED  BY <3>1
  <2>5. q[0] = base
    BY <2>2
  <2>6. ASSUME NEW i \in 1..(k + 1) PROVE q[i] = step[<<i, q[i - 1]>>]
    <3>1. CASE i = k + 1
      <4>1. k \in 0..(k + 1) /\ k # k + 1 /\ i - 1 = k /\ k + 1 \in 0..(k + 1)
        BY <3>1
      <4>2. q[k] = r[k] /\ q[k + 1] = step[<<k + 1, r[k]>>]
        BY <4>1
      <4> QED  BY <4>1, <4>2, <3>1
    <3>2. CASE i # k + 1
      <4>1. i \in 1..k /\ i \in 0..(k + 1) /\ i - 1 \in 0..(k + 1) /\ i - 1 # k + 1
        BY <3>2
      <4>2. q[i] = r[i] /\ q[i - 1] = r[i - 1]
        BY <4>1, <3>2
      <4> QED  BY <4>1, <4>2, <2>2
    <3> QED  BY <3>1, <3>2
  <2> HIDE DEF q
  <2> QED  BY <2>4, <2>5, <2>6
<1> HIDE DEF Has
<1>3. L = Nat
  <2>1. L \in SUBSET Nat
    OBVIOUS
  <2>2. 0 \in L
    BY <1>1
  <2> HIDE DEF L
  <2> QED  BY <2>1, <2>2, <1>2, SetInduction
<1>4. Has(n)
  BY <1>3
<1> QED  BY <1>4 DEF Has, IsLoop

\* A set of turns with the first, and with the next of each, has them all.
LEMMA LoopInduction ==
  ASSUME NEW n \in Nat, NEW G, 0 \in G,
         \A i \in 1..n : i - 1 \in G => i \in G
  PROVE  \A i \in 0..n : i \in G
<1> DEFINE L == {k \in Nat : k <= n => k \in G}
<1>1. ASSUME NEW k \in L PROVE k + 1 \in L
  <2>1. SUFFICES ASSUME k + 1 <= n PROVE k + 1 \in G
    OBVIOUS
  <2>2. k \in G /\ k + 1 \in 1..n /\ (k + 1) - 1 = k
    BY <2>1
  <2> QED  BY <2>2
<1>2. L \in SUBSET Nat /\ 0 \in L
  OBVIOUS
<1> HIDE DEF L
<1>3. L = Nat
  BY <1>1, <1>2, SetInduction
<1> QED  BY <1>3 DEF L

\* A function with the values of such a loop has all its values in S.
LEMMA LoopType ==
  ASSUME NEW S, NEW n \in Nat, NEW t, DOMAIN t = 0..n, t = [i \in DOMAIN t |-> t[i]],
         t[0] \in S, \A i \in 1..n : t[i - 1] \in S => t[i] \in S
  PROVE  t \in [0..n -> S]
<1> DEFINE G == {i \in 0..n : t[i] \in S}
<1>1. 0 \in G /\ \A i \in 1..n : i - 1 \in G => i \in G
  OBVIOUS
<1> HIDE DEF G
<1>2. \A i \in 0..n : i \in G
  BY <1>1, LoopInduction
<1> QED  BY <1>2 DEF G

-----------------------------------------------------------------------------
(* The operators on integers.                                              *)

\* An element of a sequence over S is in S.
LEMMA ElementType ==
  ASSUME NEW S, NEW s \in Seq(S), NEW i \in 1..Len(s)
  PROVE  s[i] \in S
OBVIOUS

\* A function on 1..n is a sequence.
LEMMA FunctionIsSeq ==
  ASSUME NEW S, NEW n \in Nat, NEW s \in [1..n -> S]
  PROVE  s \in Seq(S) /\ DOMAIN s = 1..n /\ Len(s) = n
OBVIOUS

USE DEF Integer

\* What Wrap returns is an integer, and it leaves integers alone.
LEMMA WrapInteger ==
  ASSUME NEW n \in Int
  PROVE  /\ Wrap(n) \in Integer
         /\ n \in Integer => Wrap(n) = n
<1> DEFINE m == 2 * Half
           a == n + Half
<1>1. m \in Nat /\ m > 0 /\ a \in Int /\ Half \in Int
  BY WeightsAssumption
<1>2. Wrap(n) = (a % m) - Half
  BY DEF Wrap
<1>3. n \in Integer => a \in 0..(m - 1)
  BY <1>1
<1>4. -Half..(Half - 1) = {i \in Int : -Half <= i /\ i < m - Half}
  BY <1>1
<1> HIDE DEF m, a
<1>5. a % m \in 0..(m - 1)
  BY <1>1
<1>6. a \in 0..(m - 1) => a % m = a
  BY <1>1
<1> QED  BY <1>1, <1>2, <1>3, <1>4, <1>5, <1>6 DEF a, m

\* What counts as the weight of an instance is positive.
LEMMA EffectiveInteger ==
  ASSUME NEW w \in Integer
  PROVE  Effective(w) \in 1..(Half - 1) /\ Effective(w) \in Integer
BY WeightsAssumption DEF Effective

\* Division of a multiple is exact.
LEMMA QuotientOfMultiple ==
  ASSUME NEW k \in Nat, NEW b \in Nat \ {0}
  PROVE  Quotient(k * b, b) = k
<1>1. k * b \in Nat
  OBVIOUS
<1>2. Abs(b) = b /\ Abs(k * b) = k * b
  BY <1>1 DEF Abs
<1>3. (k * b) \div b = k
  OBVIOUS
<1> QED  BY <1>1, <1>2, <1>3 DEF Quotient

\* Go's division is defined for every divisor but zero.
LEMMA QuotientInt ==
  ASSUME NEW a \in Int, NEW b \in Int, b # 0
  PROVE  Quotient(a, b) \in Int
<1>1. Abs(a) \in Nat /\ Abs(b) \in Nat \ {0}
  BY DEF Abs
<1>2. Abs(a) \div Abs(b) \in Int
  BY <1>1
<1> QED  BY <1>2 DEF Quotient

\* Division by a positive number stays within the range of integers.
LEMMA QuotientInteger ==
  ASSUME NEW a \in Integer, NEW b \in Nat \ {0}
  PROVE  Quotient(a, b) \in Integer
<1>1. Abs(a) \in Nat /\ Abs(b) = b
  BY WeightsAssumption DEF Abs
<1> DEFINE q == Abs(a) \div b
<1>2. ASSUME NEW c \in Nat, NEW d \in Nat \ {0} PROVE c \div d \in 0..c
  OBVIOUS
<1>3. q \in 0..Abs(a)
  BY <1>1, <1>2
<1>4. Quotient(a, b) = IF a < 0 THEN -q ELSE q
  BY <1>1, WeightsAssumption DEF Quotient
<1> HIDE DEF q
<1>5. CASE a < 0
  BY <1>3, <1>4, <1>5, WeightsAssumption DEF Abs
<1>6. CASE ~ (a < 0)
  BY <1>3, <1>4, <1>6, WeightsAssumption DEF Abs
<1> QED  BY <1>5, <1>6

-----------------------------------------------------------------------------
(* The loops.                                                              *)

\* totalWeight after each instance of a zone.
LEMMA TotalsLoop ==
  ASSUME NEW s \in Seq(Integer)
  PROVE  /\ Totals(s) \in [0..Len(s) -> Integer]
         /\ Totals(s)[0] = 0
         /\ \A i \in 1..Len(s) : Totals(s)[i] = Wrap(Totals(s)[i - 1] + Effective(s[i]))
<1> DEFINE n == Len(s)
           step == [p \in (1..n) \X Integer |-> Wrap(p[2] + Effective(s[p[1]]))]
           Loop(f) == [i \in 0..n |-> IF i = 0 THEN 0 ELSE Wrap(f[i - 1] + Effective(s[i]))]
           t == CHOOSE f : f = Loop(f)
<1>1. n \in Nat /\ 0 \in Integer
  BY WeightsAssumption
<1>2. \A i \in 1..n : Effective(s[i]) \in Int
  BY EffectiveInteger, WeightsAssumption
<1>3. \A i \in 1..n : \A a \in Integer : Wrap(a + Effective(s[i])) \in Integer
  <2>1. TAKE i \in 1..n
  <2>2. TAKE a \in Integer
  <2>3. a + Effective(s[i]) \in Int
    BY <1>2, WeightsAssumption
  <2> QED  BY <2>3, WrapInteger
<1>4. step \in [(1..n) \X Integer -> Integer]
  BY <1>3
<1>5. \A i \in 1..n : \A a \in Integer : step[<<i, a>>] = Wrap(a + Effective(s[i]))
  OBVIOUS
<1>6. Totals(s) = t
  BY DEF Totals
<1> HIDE DEF n, step, Loop, t, Integer
<1>7. PICK r : IsLoop(r, Integer, n, 0, step)
  BY <1>1, <1>4, Recursion
<1>8. r = Loop(r)
  <2>0. \A i \in 1..n : i - 1 \in 0..n
    BY <1>1
  <2>1. \A i \in 1..n : r[i] = Wrap(r[i - 1] + Effective(s[i]))
    BY <2>0, <1>5, <1>7 DEF IsLoop
  <2> QED  BY <2>1, <1>1, <1>7 DEF Loop, IsLoop
<1>9. t = Loop(t)
  BY <1>8 DEF t
<1>10. DOMAIN t = 0..n /\ t = [i \in DOMAIN t |-> t[i]] /\ t[0] = 0
  BY <1>1, <1>9 DEF Loop
<1>11. \A i \in 1..n : t[i] = Wrap(t[i - 1] + Effective(s[i]))
  BY <1>1, <1>9 DEF Loop
<1>12. t \in [0..n -> Integer]
  <2>1. \A i \in 1..n : t[i - 1] \in Integer => t[i] \in Integer
    BY <1>3, <1>11
  <2> QED  BY <2>1, <1>1, <1>10, LoopType
<1> QED  BY <1>6, <1>10, <1>11, <1>12 DEF n

\* The exact sums of a sequence.
LEMMA SumsLoop ==
  ASSUME NEW s \in Seq(Integer)
  PROVE  /\ Sums(s) \in [0..Len(s) -> Int]
         /\ Sums(s)[0] = 0
         /\ \A i \in 1..Len(s) : Sums(s)[i] = Sums(s)[i - 1] + s[i]
<1> DEFINE n == Len(s)
           step == [p \in (1..n) \X Int |-> p[2] + s[p[1]]]
           Loop(f) == [i \in 0..n |-> IF i = 0 THEN 0 ELSE f[i - 1] + s[i]]
           t == CHOOSE f : f = Loop(f)
<1>1. n \in Nat /\ 0 \in Int
  OBVIOUS
<1>2. \A i \in 1..n : s[i] \in Int
  BY WeightsAssumption
<1>3. step \in [(1..n) \X Int -> Int]
  BY <1>2
<1>4. \A i \in 1..n : \A a \in Int : step[<<i, a>>] = a + s[i]
  OBVIOUS
<1>5. Sums(s) = t
  BY DEF Sums
<1> HIDE DEF n, step, Loop, t
<1>6. PICK r : IsLoop(r, Int, n, 0, step)
  BY <1>1, <1>3, Recursion
<1>7. r = Loop(r)
  <2>0. \A i \in 1..n : i - 1 \in 0..n
    BY <1>1
  <2>1. \A i \in 1..n : r[i] = r[i - 1] + s[i]
    BY <2>0, <1>4, <1>6 DEF IsLoop
  <2> QED  BY <2>1, <1>1, <1>6 DEF Loop, IsLoop
<1>8. t = Loop(t)
  BY <1>7 DEF t
<1>9. DOMAIN t = 0..n /\ t = [i \in DOMAIN t |-> t[i]] /\ t[0] = 0
  BY <1>1, <1>8 DEF Loop
<1>10. \A i \in 1..n : t[i] = t[i - 1] + s[i]
  BY <1>1, <1>8 DEF Loop
<1>11. t \in [0..n -> Int]
  <2>1. \A i \in 1..n : t[i - 1] \in Int => t[i] \in Int
    BY <1>2, <1>10
  <2> QED  BY <2>1, <1>1, <1>9, LoopType
<1> QED  BY <1>5, <1>9, <1>10, <1>11 DEF n

\* comMulti after each zone, when the instances of the zones have weights.
LEMMA ProductsLoop ==
  ASSUME NEW order \in Seq(Zones), weights \in [Zones -> Seq(Integer)]
  PROVE  /\ Products(order) \in [0..Len(order) -> Int]
         /\ Products(order)[0] = 1
         /\ \A i \in 1..Len(order) :
              Products(order)[i] = Wrap(Products(order)[i - 1] * ZoneTotal(order[i]))
<1> DEFINE n == Len(order)
           step == [p \in (1..n) \X Int |-> Wrap(p[2] * ZoneTotal(order[p[1]]))]
           Loop(f) == [i \in 0..n |-> IF i = 0 THEN 1 ELSE Wrap(f[i - 1] * ZoneTotal(order[i]))]
           t == CHOOSE f : f = Loop(f)
<1>1. n \in Nat /\ 1 \in Int
  OBVIOUS
<1>2. \A i \in 1..n : ZoneTotal(order[i]) \in Int
  <2>1. TAKE i \in 1..n
  <2>2. order[i] \in Zones
    OBVIOUS
  <2>3. weights[order[i]] \in Seq(Integer)
    BY <2>2
  <2>4. Totals(weights[order[i]]) \in [0..Len(weights[order[i]]) -> Integer]
    BY <2>3, TotalsLoop
  <2>5. Len(weights[order[i]]) \in 0..Len(weights[order[i]])
    BY <2>3
  <2> QED  BY <2>4, <2>5, WeightsAssumption DEF ZoneTotal
<1>3. \A i \in 1..n : \A a \in Int : Wrap(a * ZoneTotal(order[i])) \in Int
  <2>1. TAKE i \in 1..n
  <2>2. TAKE a \in Int
  <2>3. a * ZoneTotal(order[i]) \in Int
    BY <1>2
  <2> QED  BY <2>3, WrapInteger, WeightsAssumption
<1>4. step \in [(1..n) \X Int -> Int]
  BY <1>3
<1>5. \A i \in 1..n : \A a \in Int : step[<<i, a>>] = Wrap(a * ZoneTotal(order[i]))
  OBVIOUS
<1>6. Products(order) = t
  BY DEF Products
<1> HIDE DEF n, step, Loop, t
<1>7. PICK r : IsLoop(r, Int, n, 1, step)
  BY <1>1, <1>4, Recursion
<1>8. r = Loop(r)
  <2>0. \A i \in 1..n : i - 1 \in 0..n
    BY <1>1
  <2>1. \A i \in 1..n : r[i] = Wrap(r[i - 1] * ZoneTotal(order[i]))
    BY <2>0, <1>5, <1>7 DEF IsLoop
  <2> QED  BY <2>1, <1>1, <1>7 DEF Loop, IsLoop
<1>9. t = Loop(t)
  BY <1>8 DEF t
<1>10. DOMAIN t = 0..n /\ t = [i \in DOMAIN t |-> t[i]] /\ t[0] = 1
  BY <1>1, <1>9 DEF Loop
<1>11. \A i \in 1..n : t[i] = Wrap(t[i - 1] * ZoneTotal(order[i]))
  BY <1>1, <1>9 DEF Loop
<1>12. t \in [0..n -> Int]
  <2>1. \A i \in 1..n : t[i - 1] \in Int => t[i] \in Int
    BY <1>3, <1>11
  <2> QED  BY <2>1, <1>1, <1>10, LoopType
<1> QED  BY <1>6, <1>10, <1>11, <1>12 DEF n

\* The weight told of an instance is an integer: at the first, the total is zero.
LEMMA ToldInteger ==
  ASSUME NEW w \in Integer, NEW total \in Integer, NEW n \in Nat, n = 0 => total = 0
  PROVE  Told(w, total, n) \in Integer
<1>1. CASE w > 0
  BY <1>1 DEF Told
<1>2. CASE ~ (w > 0) /\ total = 0
  BY <1>2, WeightsAssumption DEF Told
<1>3. CASE ~ (w > 0) /\ total # 0
  BY <1>3, QuotientInteger DEF Told, Average
<1> QED  BY <1>1, <1>2, <1>3

\* One turn of newAddress.
AddTo(inss, skipped, i, total) ==
  IF i \in skipped THEN total ELSE Wrap(total + Told(inss[i], total, i - 1))

\* totalWeight after each instance, in newAddress.
LEMMA AddressTotalsLoop ==
  ASSUME NEW inss \in Seq(Integer), NEW skipped
  PROVE  /\ AddressTotals(inss, skipped) \in [0..Len(inss) -> Integer]
         /\ AddressTotals(inss, skipped)[0] = 0
         /\ \A i \in 1..Len(inss) :
              AddressTotals(inss, skipped)[i] =
                AddTo(inss, skipped, i, AddressTotals(inss, skipped)[i - 1])
<1> DEFINE n == Len(inss)
           step == [p \in (1..n) \X Integer |->
                      IF p[1] = 1 /\ p[2] # 0 THEN 0 ELSE AddTo(inss, skipped, p[1], p[2])]
           Loop(f) == [i \in 0..n |->
                         IF i = 0 THEN 0
                         ELSE IF i \in skipped THEN f[i - 1]
                         ELSE Wrap(f[i - 1] + Told(inss[i], f[i - 1], i - 1))]
           t == CHOOSE f : f = Loop(f)
<1>1. n \in Nat /\ 0 \in Integer
  BY WeightsAssumption
<1>2. ASSUME NEW i \in 1..n, NEW a \in Integer, i = 1 => a = 0
      PROVE  AddTo(inss, skipped, i, a) \in Integer
  <2>1. inss[i] \in Integer
    BY ElementType
  <2>1a. i - 1 \in Nat /\ (i - 1 = 0 => a = 0)
    BY <1>2
  <2>2. Told(inss[i], a, i - 1) \in Integer
    BY <2>1, <2>1a, ToldInteger
  <2>3. a + Told(inss[i], a, i - 1) \in Int
    BY <2>2, WeightsAssumption
  <2>4. Wrap(a + Told(inss[i], a, i - 1)) \in Integer
    BY <2>3, WrapInteger
  <2> QED  BY <2>4 DEF AddTo
<1>3. step \in [(1..n) \X Integer -> Integer]
  BY <1>1, <1>2
<1>4. \A i \in 1..n : \A a \in Integer :
        (i = 1 => a = 0) => step[<<i, a>>] = AddTo(inss, skipped, i, a)
  OBVIOUS
<1>5. AddressTotals(inss, skipped) = t
  BY DEF AddressTotals
<1> HIDE DEF n, step, Loop, t, Integer
<1>6. PICK r : IsLoop(r, Integer, n, 0, step)
  BY <1>1, <1>3, Recursion
<1>7. r = Loop(r)
  <2>1. \A i \in 1..n : i - 1 \in 0..n /\ (i = 1 => i - 1 = 0)
    BY <1>1
  <2>2. \A i \in 1..n : r[i] = AddTo(inss, skipped, i, r[i - 1])
    <3>1. TAKE i \in 1..n
    <3>2. r[i - 1] \in Integer /\ (i = 1 => r[i - 1] = 0)
      BY <2>1, <1>6 DEF IsLoop
    <3>3. r[i] = step[<<i, r[i - 1]>>]
      BY <1>6 DEF IsLoop
    <3> QED  BY <3>2, <3>3, <1>4
  <2>3. r = [i \in 0..n |-> IF i = 0 THEN 0 ELSE AddTo(inss, skipped, i, r[i - 1])]
    BY <2>2, <1>1, <1>6 DEF IsLoop
  <2> QED  BY <2>3 DEF Loop, AddTo
<1>8. t = Loop(t)
  BY <1>7 DEF t
<1>9. DOMAIN t = 0..n /\ t = [i \in DOMAIN t |-> t[i]] /\ t[0] = 0
  BY <1>1, <1>8 DEF Loop
<1>10. \A i \in 1..n : t[i] = AddTo(inss, skipped, i, t[i - 1])
  BY <1>1, <1>8 DEF Loop, AddTo
<1>11. t \in [0..n -> Integer]
  <2>1. ASSUME NEW i \in 1..n, t[i - 1] \in Integer PROVE t[i] \in Integer
    <3>1. i = 1 => i - 1 = 0
      OBVIOUS
    <3>2. i = 1 => t[i - 1] = 0
      BY <3>1, <1>9
    <3> QED  BY <2>1, <3>2, <1>2, <1>10
  <2> QED  BY <2>1, <1>1, <1>9, LoopType
<1> QED  BY <1>5, <1>9, <1>10, <1>11 DEF n

\* The instances of all zones are a sequence of instances.
LEMMA FlattenSeqType ==
  ASSUME NEW T, NEW seqs \in Seq(Seq(T))
  PROVE  FlattenSeq(seqs) \in Seq(T)
<1>1. CASE Len(seqs) = 0
  <2>1. seqs = << >>
    BY <1>1
  <2>2. FlattenSeq(seqs) = << >>
    BY <1>1, <2>1 DEF FlattenSeq
  <2>3. << >> \in Seq(T)
    OBVIOUS
  <2> QED  BY <2>2, <2>3
<1>2. CASE Len(seqs) # 0
  <2> DEFINE n == Len(seqs)
             step == [p \in (1..n) \X Seq(T) |-> p[2] \o seqs[p[1]]]
             Loop(f) == [i \in 1..n |-> IF i = 1 THEN seqs[i] ELSE f[i - 1] \o seqs[i]]
             t == CHOOSE f : f = Loop(f)
  <2>1. n \in Nat /\ n \in 1..n /\ 1 \in 1..n /\ << >> \in Seq(T)
    BY <1>2
  <2>2. \A i \in 1..n : seqs[i] \in Seq(T)
    OBVIOUS
  <2>3. step \in [(1..n) \X Seq(T) -> Seq(T)]
    BY <2>2
  <2>4. \A i \in 1..n : \A a \in Seq(T) : step[<<i, a>>] = a \o seqs[i]
    OBVIOUS
  <2>5. FlattenSeq(seqs) = t[n]
    BY <1>2 DEF FlattenSeq
  <2>6. \A s \in Seq(T) : << >> \o s = s
    OBVIOUS
  <2> HIDE DEF n, step, Loop, t
  <2>7. PICK r : IsLoop(r, Seq(T), n, << >>, step)
    BY <2>1, <2>3, Recursion
  <2> DEFINE u == [i \in 1..n |-> r[i]]
  <2>8. \A i \in 1..n : i - 1 \in 0..n /\ (i = 1 => i - 1 = 0) /\ (i # 1 => i - 1 \in 1..n)
    BY <2>1
  <2>9. \A i \in 1..n : u[i] = IF i = 1 THEN seqs[i] ELSE u[i - 1] \o seqs[i]
    <3>1. TAKE i \in 1..n
    <3>2. r[i] = r[i - 1] \o seqs[i]
      BY <2>4, <2>7, <2>8 DEF IsLoop
    <3>3. i = 1 => r[i] = seqs[i]
      BY <3>2, <2>2, <2>6, <2>7, <2>8 DEF IsLoop
    <3> QED  BY <3>2, <3>3, <2>8
  <2>10. u = Loop(u)
    BY <2>9 DEF Loop
  <2> HIDE DEF u
  <2>11. t = Loop(t)
    BY <2>10 DEF t
  <2>12. \A i \in 1..n : t[i] = IF i = 1 THEN seqs[i] ELSE t[i - 1] \o seqs[i]
    BY <2>11 DEF Loop
  <2> DEFINE G == {0} \cup {i \in 1..n : t[i] \in Seq(T)}
  <2>13. ASSUME NEW i \in 1..n, i - 1 \in G PROVE i \in G
    <3>1. CASE i = 1
      BY <3>1, <2>2, <2>12
    <3>2. CASE i # 1
      <4>1. t[i - 1] \in Seq(T)
        BY <2>13, <3>2
      <4>2. t[i - 1] \o seqs[i] \in Seq(T)
        BY <4>1, <2>2
      <4> QED  BY <4>2, <3>2, <2>12
    <3> QED  BY <3>1, <3>2
  <2>14. 0 \in G
    OBVIOUS
  <2> HIDE DEF G
  <2>15. \A i \in 0..n : i \in G
    BY <2>1, <2>13, <2>14, LoopInduction
  <2>16. n \in G /\ n \in 0..n /\ n # 0
    BY <2>1, <2>15, <1>2 DEF n
  <2> QED  BY <2>5, <2>16 DEF G
<1> QED  BY <1>1, <1>2

-----------------------------------------------------------------------------
(* What UseScheduler computes when nothing overflows.                      *)

\* Without overflow totalWeight is the sum, and no less than any weight in it.
LEMMA TotalsExact ==
  ASSUME NEW s \in Seq(Integer),
         \A i \in 1..Len(s) : Totals(s)[i - 1] + Effective(s[i]) \in Integer
  PROVE  /\ \A i \in 1..Len(s) : Totals(s)[i] = Totals(s)[i - 1] + Effective(s[i])
         /\ \A i \in 0..Len(s) : Totals(s)[i] \in Nat /\ Totals(s)[i] >= i
         /\ \A i \in 1..Len(s) : Effective(s[i]) <= Totals(s)[Len(s)]
<1> DEFINE n == Len(s)
           t == Totals(s)
           e(i) == Effective(s[i])
           G == {i \in 0..n : t[i] \in Nat /\ t[i] >= i /\ \A j \in 1..i : e(j) <= t[i]}
<1>1. n \in Nat
  OBVIOUS
<1>2. t[0] = 0
  BY TotalsLoop
<1>3. \A i \in 1..n : e(i) \in Nat \ {0}
  <2>1. TAKE i \in 1..n
  <2>2. s[i] \in Integer
    BY ElementType
  <2> QED  BY <2>2, EffectiveInteger
<1>4. \A i \in 1..n : t[i] = t[i - 1] + e(i)
  <2>1. TAKE i \in 1..n
  <2>2. t[i - 1] + e(i) \in Integer
    OBVIOUS
  <2>3. t[i - 1] + e(i) \in Int
    BY <2>2, WeightsAssumption
  <2>4. Wrap(t[i - 1] + e(i)) = t[i - 1] + e(i)
    BY <2>2, <2>3, WrapInteger
  <2> QED  BY <2>4, TotalsLoop
<1> HIDE DEF n, t, e
<1>5. 0 \in G
  BY <1>1, <1>2
<1>6. ASSUME NEW i \in 1..n, i - 1 \in G PROVE i \in G
  <2>1. t[i - 1] \in Nat /\ t[i - 1] >= i - 1 /\ \A j \in 1..(i - 1) : e(j) <= t[i - 1]
    BY <1>6
  <2>2. t[i] = t[i - 1] + e(i) /\ e(i) \in Nat \ {0}
    BY <1>3, <1>4
  <2>3. t[i] \in Nat /\ t[i] >= i
    BY <2>1, <2>2
  <2>4. ASSUME NEW j \in 1..i PROVE e(j) <= t[i]
    <3>1. CASE j = i
      BY <3>1, <2>1, <2>2
    <3>2. CASE j # i
      <4>1. j \in 1..(i - 1) /\ j \in 1..n
        BY <1>1, <3>2
      <4>2. e(j) <= t[i - 1] /\ e(j) \in Nat
        BY <4>1, <2>1, <1>3
      <4> QED  BY <4>2, <2>1, <2>2
    <3> QED  BY <3>1, <3>2
  <2> QED  BY <1>1, <2>3, <2>4
<1> HIDE DEF G
<1>7. \A i \in 0..n : i \in G
  BY <1>1, <1>5, <1>6, LoopInduction
<1>8. n \in 0..n
  BY <1>1
<1>9. /\ \A i \in 0..n : t[i] \in Nat /\ t[i] >= i
      /\ \A i \in 1..n : e(i) <= t[n]
  BY <1>7, <1>8 DEF G
<1> QED  BY <1>4, <1>9 DEF n, t, e

\* Without overflow comMulti is a multiple of the total of each zone.
LEMMA ProductDivisible ==
  ASSUME weights \in [Zones -> Seq(Integer)],
         NEW order \in Seq(Zones),
         \A i \in 1..Len(order) : Products(order)[i - 1] * ZoneTotal(order[i]) \in Integer,
         \A i \in 1..Len(order) : ZoneTotal(order[i]) \in Nat \ {0},
         NEW k \in 1..Len(order)
  PROVE  \E q \in Nat \ {0} : Product(order) = q * ZoneTotal(order[k])
<1> DEFINE n == Len(order)
           p == Products(order)
           t(i) == ZoneTotal(order[i])
           G == {i \in 0..n : /\ p[i] \in Nat \ {0}
                              /\ i >= k => \E q \in Nat \ {0} : p[i] = q * t(k)}
<1>1. n \in Nat /\ k \in 1..n
  OBVIOUS
<1>2. p[0] = 1
  BY ProductsLoop
<1>3. \A i \in 1..n : t(i) \in Nat \ {0}
  OBVIOUS
<1>4. \A i \in 1..n : p[i] = p[i - 1] * t(i)
  <2>1. TAKE i \in 1..n
  <2>2. p[i - 1] * t(i) \in Integer
    OBVIOUS
  <2>3. p[i - 1] * t(i) \in Int
    BY <2>2, WeightsAssumption
  <2>4. Wrap(p[i - 1] * t(i)) = p[i - 1] * t(i)
    BY <2>2, <2>3, WrapInteger
  <2> QED  BY <2>4, ProductsLoop
<1>5. Product(order) = p[n]
  BY DEF Product
<1> HIDE DEF n, p, t
<1>6. 0 \in G
  BY <1>1, <1>2
<1>7. ASSUME NEW i \in 1..n, i - 1 \in G PROVE i \in G
  <2>1. p[i - 1] \in Nat \ {0} /\ t(i) \in Nat \ {0} /\ p[i] = p[i - 1] * t(i)
    BY <1>3, <1>4, <1>7
  <2>2. \A a, b \in Nat \ {0} : a * b \in Nat \ {0}
    OBVIOUS
  <2>3. p[i] \in Nat \ {0}
    BY <2>1, <2>2
  <2>4. ASSUME i >= k PROVE \E q \in Nat \ {0} : p[i] = q * t(k)
    <3>1. CASE i = k
      BY <3>1, <2>1
    <3>2. CASE i # k
      <4>1. i - 1 >= k
        BY <1>1, <2>4, <3>2
      <4>2. PICK q \in Nat \ {0} : p[i - 1] = q * t(k)
        BY <4>1, <1>7
      <4>3. t(k) \in Nat
        BY <1>1, <1>3
      <4>4. \A a, b, c \in Nat : (a * b) * c = (a * c) * b
        OBVIOUS
      <4>5. p[i] = (q * t(i)) * t(k)
        BY <4>2, <4>3, <4>4, <2>1
      <4>6. q * t(i) \in Nat \ {0}
        BY <2>1, <2>2
      <4> QED  BY <4>5, <4>6
    <3> QED  BY <3>1, <3>2
  <2>5. i \in 0..n
    BY <1>1
  <2> QED  BY <2>3, <2>4, <2>5
<1> HIDE DEF G
<1>8. \A i \in 0..n : i \in G
  BY <1>1, <1>6, <1>7, LoopInduction
<1>9. n \in G /\ n >= k
  BY <1>1, <1>8
<1>10. \E q \in Nat \ {0} : p[n] = q * t(k)
  BY <1>9 DEF G
<1> QED  BY <1>5, <1>10 DEF t

\* The order in which a map is walked has each of its keys.
LEMMA OrderOnto ==
  ASSUME NEW S, IsFiniteSet(S), NEW order \in SetToSeqs(S)
  PROVE  /\ order \in Seq(S)
         /\ \A z \in S : \E k \in 1..Len(order) : order[k] = z
<1> DEFINE n == Cardinality(S)
<1>1. n \in Nat
  BY FS_CardinalityType
<1>2. order \in [1..n -> S] /\ \A i, j \in 1..n : i # j => order[i] # order[j]
  BY DEF SetToSeqs
<1> HIDE DEF n
<1>3. order \in Seq(S) /\ Len(order) = n
  BY <1>1, <1>2
<1>4. order \in Injection(1..n, S)
  BY <1>2 DEF Injection, IsInjective
<1>5. Cardinality(1..n) = n /\ IsFiniteSet(1..n)
  BY <1>1, FS_Interval
<1>6. order \in Surjection(1..n, S)
  BY <1>4, <1>5, FS_Injection DEF n
<1>7. \A z \in S : \E k \in 1..n : order[k] = z
  BY <1>6 DEF Surjection
<1> QED  BY <1>3, <1>7

StateOK ==
  /\ weights \in [Zones -> Seq(Integer)]
  /\ DOMAIN dst \subseteq Zones
  /\ \A z \in DOMAIN dst : dst[z] \in Nat

\* Without overflow the total of a zone is the sum of its weights.
LEMMA ZoneTotalExact ==
  ASSUME StateOK, ~SumsOverflow, NEW z \in DOMAIN dst
  PROVE  LET s == weights[z]
         IN /\ s \in Seq(Integer)
            /\ \A i \in 1..Len(s) : Totals(s)[i] = Totals(s)[i - 1] + Effective(s[i])
            /\ \A i \in 0..Len(s) : Totals(s)[i] \in Nat
            /\ \A i \in 1..Len(s) : Effective(s[i]) <= ZoneTotal(z)
            /\ ZoneTotal(z) \in Nat
            /\ s # << >> => ZoneTotal(z) > 0
<1> DEFINE s == weights[z]
<1>1. s \in Seq(Integer)
  BY DEF StateOK
<1>2. \A i \in 1..Len(s) : Totals(s)[i - 1] + Effective(s[i]) \in Integer
  <2>1. DOMAIN s = 1..Len(s)
    BY <1>1
  <2> QED  BY <2>1 DEF SumsOverflow
<1>3. ZoneTotal(z) = Totals(s)[Len(s)]
  BY DEF ZoneTotal
<1>4. Len(s) \in 0..Len(s) /\ (s # << >> => Len(s) > 0)
  BY <1>1
<1> HIDE DEF s
<1>5. /\ \A i \in 1..Len(s) : Totals(s)[i] = Totals(s)[i - 1] + Effective(s[i])
      /\ \A i \in 0..Len(s) : Totals(s)[i] \in Nat /\ Totals(s)[i] >= i
      /\ \A i \in 1..Len(s) : Effective(s[i]) <= Totals(s)[Len(s)]
  BY <1>1, <1>2, TotalsExact
<1>6. ZoneTotal(z) \in Nat /\ (s # << >> => ZoneTotal(z) > 0)
  BY <1>1, <1>3, <1>4, <1>5
<1> QED  BY <1>1, <1>3, <1>5, <1>6 DEF s

\* Then the factor of a zone, times the zone's total, is its share of comMulti,
\* and no weight overflows.
LEMMA FixExact ==
  ASSUME StateOK, ~Panics, ~SumsOverflow,
         NEW order \in SetToSeqs(DOMAIN dst), ~ProductsOverflow(order),
         NEW z \in DOMAIN dst
  PROVE  /\ Product(order) \in Nat
         /\ FixWeight(z, order) \in Nat
         /\ FixWeight(z, order) * ZoneTotal(z) = dst[z] * Product(order)
         /\ FixWeight(z, order) = 0 <=> dst[z] = 0
         /\ \A i \in DOMAIN weights[z] :
              Rescaled(weights[z][i], FixWeight(z, order)) =
                Effective(weights[z][i]) * FixWeight(z, order)
<1> DEFINE f == FixWeight(z, order)
           p == Product(order)
           t == ZoneTotal(z)
           d == dst[z]
<1>1. IsFiniteSet(DOMAIN dst)
  BY WeightsAssumption, FS_Subset DEF StateOK
<1>2. order \in Seq(DOMAIN dst) /\ \E k \in 1..Len(order) : order[k] = z
  BY <1>1, OrderOnto
<1>3. order \in Seq(Zones)
  BY <1>2 DEF StateOK
<1>4. \A y \in DOMAIN dst : ZoneTotal(y) \in Nat \ {0}
  BY ZoneTotalExact DEF Panics
<1>5. \A i \in 1..Len(order) : ZoneTotal(order[i]) \in Nat \ {0}
  BY <1>2, <1>4, ElementType
<1>6. \A i \in 1..Len(order) : Products(order)[i - 1] * ZoneTotal(order[i]) \in Integer
  <2>1. DOMAIN order = 1..Len(order)
    BY <1>2
  <2> QED  BY <2>1 DEF ProductsOverflow
<1>7. PICK k \in 1..Len(order) : order[k] = z
  BY <1>2
<1>8. weights \in [Zones -> Seq(Integer)]
  BY DEF StateOK
<1>9. PICK q \in Nat \ {0} : p = q * t
  <2>1. \E q \in Nat \ {0} : Product(order) = q * ZoneTotal(order[k])
    BY <1>3, <1>5, <1>6, <1>8, ProductDivisible
  <2> QED  BY <2>1, <1>7
<1>10. t \in Nat \ {0} /\ d \in Nat
  BY <1>4 DEF StateOK
<1>11. d * p \in Integer /\ d * p \in Int
  BY WeightsAssumption DEF ProductsOverflow
<1>12. f = Quotient(Wrap(d * p), t)
  BY DEF FixWeight
<1> HIDE DEF f, p, t, d
<1>13. p \in Nat /\ d * p = (d * q) * t /\ d * q \in Nat
  <2>1. q \in Nat /\ t \in Nat /\ d \in Nat
    BY <1>10
  <2>2. \A a, b, c \in Nat : a * (b * c) = (a * b) * c /\ a * b \in Nat
    OBVIOUS
  <2> QED  BY <2>1, <2>2, <1>9
<1>14. Wrap(d * p) = (d * q) * t
  BY <1>11, <1>13, WrapInteger
<1>15. f = d * q
  BY <1>10, <1>12, <1>13, <1>14, QuotientOfMultiple
<1>16. f = 0 <=> d = 0
  BY <1>10, <1>15
<1>17. f * t = d * p
  BY <1>13, <1>15
<1>18. ASSUME NEW i \in DOMAIN weights[z]
       PROVE  Rescaled(weights[z][i], f) = Effective(weights[z][i]) * f
  <2> DEFINE e == Effective(weights[z][i])
  <2>1. weights[z] \in Seq(Integer) /\ i \in 1..Len(weights[z])
    BY <1>8 DEF StateOK
  <2>2. weights[z][i] \in Integer
    BY <2>1, ElementType
  <2>3. e \in Nat
    BY <2>2, EffectiveInteger
  <2>4. e <= t
    BY <2>1, ZoneTotalExact DEF t
  <2> HIDE DEF e
  <2>5. e * f \in Nat /\ e * f <= t * f
    <3>1. f \in Nat /\ t \in Nat
      BY <1>10, <1>13, <1>15
    <3>2. \A a, b, c \in Nat : a <= b => a * c <= b * c /\ a * c \in Nat
      OBVIOUS
    <3> QED  BY <3>1, <3>2, <2>3, <2>4
  <2>6. t * f = f * t /\ f * t \in Integer
    BY <1>10, <1>11, <1>13, <1>15, <1>17
  <2>7. e * f \in Integer
    BY <2>5, <2>6, WeightsAssumption
  <2>8. Wrap(e * f) = e * f
    BY <2>5, <2>7, WrapInteger
  <2> QED  BY <2>8 DEF Rescaled, e
<1> QED  BY <1>13, <1>15, <1>16, <1>17, <1>18 DEF f, p, t, d

\* The sum of weights multiplied with one factor is the factor times their total.
LEMMA SumScaled ==
  ASSUME NEW s \in Seq(Integer), NEW u \in Seq(Integer), Len(u) = Len(s), NEW f \in Nat,
         \A i \in 1..Len(s) : Totals(s)[i] = Totals(s)[i - 1] + Effective(s[i]),
         \A i \in 1..Len(s) : u[i] = Effective(s[i]) * f
  PROVE  Sum(u) = f * Totals(s)[Len(s)]
<1> DEFINE n == Len(s)
           t == Totals(s)
           a == Sums(u)
           e(i) == Effective(s[i])
           G == {i \in 0..n : a[i] = f * t[i]}
<1>1. n \in Nat /\ n \in 0..n
  OBVIOUS
<1>2. \A i \in 1..n : e(i) \in Int
  <2>1. TAKE i \in 1..n
  <2>2. s[i] \in Integer
    BY ElementType
  <2> QED  BY <2>2, EffectiveInteger
<1>3. t \in [0..n -> Integer] /\ t[0] = 0 /\ \A i \in 1..n : t[i] = t[i - 1] + e(i)
  BY TotalsLoop
<1>4. a[0] = 0 /\ \A i \in 1..n : a[i] = a[i - 1] + e(i) * f
  BY SumsLoop
<1>5. Sum(u) = a[n]
  BY DEF Sum
<1> HIDE DEF n, t, a, e
<1>6. ASSUME NEW i \in 1..n, i - 1 \in G PROVE i \in G
  <2>1. i - 1 \in 0..n /\ i \in 0..n
    BY <1>1
  <2>2. t[i - 1] \in Int /\ e(i) \in Int
    <3>1. \A x \in Integer : x \in Int
      BY WeightsAssumption
    <3> QED  BY <2>1, <3>1, <1>2, <1>3
  <2>3. a[i] = f * t[i - 1] + e(i) * f /\ t[i] = t[i - 1] + e(i)
    BY <1>3, <1>4, <1>6
  <2>4. \A b, c, g \in Int : g * b + c * g = g * (b + c)
    OBVIOUS
  <2>5. a[i] = f * t[i]
    BY <2>2, <2>3, <2>4
  <2> QED  BY <2>1, <2>5
<1>7. 0 \in G
  BY <1>1, <1>3, <1>4
<1> HIDE DEF G
<1>8. \A i \in 0..n : i \in G
  BY <1>1, <1>6, <1>7, LoopInduction
<1>9. a[n] = f * t[n]
  BY <1>1, <1>8 DEF G
<1> QED  BY <1>5, <1>9 DEF n, t

-----------------------------------------------------------------------------
(* The inductive invariant.                                                *)

TypeInv ==
  /\ StateOK
  /\ first \in [Zones -> Seq(Integer)]
  /\ \A z \in Zones :
       Len(first[z]) <= MaxInstances /\ DOMAIN weights[z] = DOMAIN first[z]
  /\ calls \in 0..MaxCalls /\ overflow \in BOOLEAN
  /\ outcome \in {"none", "unscheduled", "scheduled", "panic"}

\* What newAddress made is of instances it can be given.
AddressesOK ==
  /\ addrs.inss \in Seq(Integer)
  /\ addrs.told = newAddress(addrs.inss, addrs.skipped)

\* The weights of a zone that is scheduled are those of the poll, or all zero,
\* or all positive and in the proportions of the poll: a weight that a call made
\* zero is the default for the next, as it is for the zone's other instances.
InProportion(z) ==
  LET w == weights[z]
      e == [i \in DOMAIN w |-> Effective(first[z][i])]
  IN \/ w = first[z]
     \/ dst[z] = 0 /\ \A i \in DOMAIN w : w[i] = 0
     \/ /\ dst[z] > 0
        /\ \A i \in DOMAIN w : w[i] > 0
        /\ \A i, j \in DOMAIN w : w[i] * e[j] = w[j] * e[i]

ProportionsInv == ~overflow => \A z \in DOMAIN dst : InProportion(z)

IInv ==
  /\ TypeInv
  /\ AddressesOK
  /\ ProportionsInv
  /\ ProportionsKept
  /\ SharesFollowSchedule
  /\ PanicsOnlyOnGaps

\* The state after a poll satisfies the inductive invariant.
LEMMA InitIInv == Init => IInv
<1> SUFFICES ASSUME Init PROVE IInv
  OBVIOUS
<1> USE DEF Init
<1>1. \A v \in Weight0 \cup {NoMap} : v \in Integer
  BY WeightsAssumption DEF NoMap
<1>2. ASSUME NEW z \in Zones
      PROVE  weights[z] \in Seq(Integer) /\ Len(weights[z]) <= MaxInstances
  <2>1. PICK n \in 0..MaxInstances : weights[z] \in [1..n -> Weight0 \cup {NoMap}]
    BY <1>2
  <2>2. weights[z] \in [1..n -> Integer]
    BY <1>1, <2>1
  <2>3. n \in Nat /\ n <= MaxInstances
    BY WeightsAssumption
  <2>4. weights[z] \in Seq(Integer) /\ Len(weights[z]) = n
    BY <2>2, <2>3, FunctionIsSeq
  <2> QED  BY <2>3, <2>4
<1>3. weights \in [Zones -> Seq(Integer)]
  <2>1. weights = [z \in Zones |-> weights[z]]
    OBVIOUS
  <2> QED  BY <2>1, <1>2
<1>4. DOMAIN dst \subseteq Zones /\ \A z \in DOMAIN dst : dst[z] \in Nat
  <2>1. PICK S \in SUBSET Zones : dst \in [S -> Shares]
    OBVIOUS
  <2>2. \A v \in Shares : v \in Nat
    BY WeightsAssumption
  <2> QED  BY <2>1, <2>2
<1>5. TypeInv
  <2>1. calls \in 0..MaxCalls
    BY WeightsAssumption
  <2>2. overflow \in BOOLEAN /\ outcome \in {"none", "unscheduled", "scheduled", "panic"}
    OBVIOUS
  <2>3. first = weights
    OBVIOUS
  <2> QED  BY <1>2, <1>3, <1>4, <2>1, <2>2, <2>3 DEF TypeInv, StateOK
<1>6. AddressesOK
  <2>1. addrs.inss = << >> /\ addrs.skipped = {} /\ addrs.told = << >>
    BY DEF NoAddress
  <2>2. newAddress(<< >>, {}) = << >>
    BY DEF newAddress
  <2> QED  BY <2>1, <2>2 DEF AddressesOK
<1>7. ProportionsInv
  BY DEF ProportionsInv, InProportion
<1>8. ProportionsKept /\ SharesFollowSchedule /\ PanicsOnlyOnGaps
  BY DEF ProportionsKept, SharesFollowSchedule, PanicsOnlyOnGaps
<1> QED  BY <1>5, <1>6, <1>7, <1>8 DEF IInv

\* The weights that a call writes are integers, one for each instance.
LEMMA ScheduledType ==
  ASSUME TypeInv, ~Panics, NEW order \in SetToSeqs(DOMAIN dst), NEW z \in Zones
  PROVE  /\ Scheduled(order)[z] \in Seq(Integer)
         /\ DOMAIN Scheduled(order)[z] = DOMAIN weights[z]
         /\ Len(Scheduled(order)[z]) = Len(weights[z])
<1>1. weights \in [Zones -> Seq(Integer)] /\ weights[z] \in Seq(Integer)
  BY DEF TypeInv, StateOK
<1>2. CASE z \notin DOMAIN dst
  BY <1>1, <1>2 DEF Scheduled
<1>3. CASE z \in DOMAIN dst
  <2> DEFINE f == FixWeight(z, order)
             n == Len(weights[z])
             u == [j \in DOMAIN weights[z] |-> Rescaled(weights[z][j], f)]
  <2>1. Scheduled(order)[z] = u
    BY <1>3 DEF Scheduled
  <2>2. order \in Seq(Zones)
    <3>1. IsFiniteSet(DOMAIN dst)
      BY WeightsAssumption, FS_Subset DEF TypeInv, StateOK
    <3>2. order \in Seq(DOMAIN dst)
      BY <3>1, OrderOnto
    <3> QED  BY <3>2 DEF TypeInv, StateOK
  <2>3. Product(order) \in Int
    <3>1. Products(order) \in [0..Len(order) -> Int]
      BY <1>1, <2>2, ProductsLoop
    <3>2. Len(order) \in 0..Len(order)
      BY <2>2
    <3> QED  BY <3>1, <3>2 DEF Product
  <2>4. ZoneTotal(z) \in Int /\ ZoneTotal(z) # 0
    <3>1. Totals(weights[z]) \in [0..n -> Integer] /\ n \in 0..n
      BY <1>1, TotalsLoop
    <3>2. ZoneTotal(z) \in Integer
      BY <3>1 DEF ZoneTotal
    <3> QED  BY <3>2, <1>3, WeightsAssumption DEF Panics
  <2>5. dst[z] * Product(order) \in Int
    BY <1>3, <2>3 DEF TypeInv, StateOK
  <2>6. Wrap(dst[z] * Product(order)) \in Int
    BY <2>5, WrapInteger, WeightsAssumption
  <2>7. f \in Int
    BY <2>4, <2>6, QuotientInt DEF FixWeight
  <2> HIDE DEF f
  <2>8. \A j \in 1..n : Rescaled(weights[z][j], f) \in Integer
    <3>1. TAKE j \in 1..n
    <3>2. weights[z][j] \in Integer
      BY <1>1, ElementType
    <3>3. Effective(weights[z][j]) * f \in Int
      BY <3>2, <2>7, EffectiveInteger
    <3> QED  BY <3>3, WrapInteger DEF Rescaled
  <2>9. DOMAIN weights[z] = 1..n /\ n \in Nat
    BY <1>1
  <2>10. u \in [1..n -> Integer]
    BY <2>8, <2>9
  <2> HIDE DEF n, u
  <2>11. u \in Seq(Integer) /\ DOMAIN u = 1..n /\ Len(u) = n
    BY <2>9, <2>10, FunctionIsSeq
  <2> QED  BY <2>1, <2>9, <2>11 DEF n
<1> QED  BY <1>2, <1>3

\* Without overflow a call gives each zone its share of comMulti.
LEMMA ScheduledExact ==
  ASSUME TypeInv, ~Panics, ~SumsOverflow,
         NEW order \in SetToSeqs(DOMAIN dst), ~ProductsOverflow(order),
         NEW z \in DOMAIN dst
  PROVE  /\ Sum(Scheduled(order)[z]) = dst[z] * Product(order)
         /\ Product(order) \in Nat /\ dst[z] \in Nat
<1> DEFINE s == weights[z]
           u == Scheduled(order)[z]
           f == FixWeight(z, order)
<1>1. StateOK /\ z \in Zones
  BY DEF TypeInv, StateOK
<1>2. u \in Seq(Integer) /\ Len(u) = Len(s) /\ s \in Seq(Integer) /\ DOMAIN s = 1..Len(s)
  BY <1>1, ScheduledType DEF StateOK
<1>3. /\ Product(order) \in Nat /\ f \in Nat
      /\ f * ZoneTotal(z) = dst[z] * Product(order)
      /\ \A i \in DOMAIN s : Rescaled(s[i], f) = Effective(s[i]) * f
  BY <1>1, FixExact
<1>4. \A i \in 1..Len(s) : u[i] = Effective(s[i]) * f
  BY <1>1, <1>2, <1>3 DEF Scheduled
<1>5. \A i \in 1..Len(s) : Totals(s)[i] = Totals(s)[i - 1] + Effective(s[i])
  BY <1>1, ZoneTotalExact
<1>6. ZoneTotal(z) = Totals(s)[Len(s)]
  BY DEF ZoneTotal
<1>7. dst[z] \in Nat
  BY <1>1 DEF StateOK
<1> HIDE DEF s, u, f
<1>8. Sum(u) = f * Totals(s)[Len(s)]
  BY <1>2, <1>3, <1>4, <1>5, SumScaled
<1> QED  BY <1>3, <1>6, <1>7, <1>8 DEF u

\* And keeps the proportions within the zone.
LEMMA ScheduledProportions ==
  ASSUME TypeInv, ~Panics, ~SumsOverflow,
         NEW order \in SetToSeqs(DOMAIN dst), ~ProductsOverflow(order),
         NEW z \in DOMAIN dst, InProportion(z)
  PROVE  LET u == Scheduled(order)[z]
             e == [i \in DOMAIN u |-> Effective(first[z][i])]
         IN \/ dst[z] = 0 /\ \A i \in DOMAIN u : u[i] = 0
            \/ /\ dst[z] > 0
               /\ \A i \in DOMAIN u : u[i] > 0
               /\ \A i, j \in DOMAIN u : u[i] * e[j] = u[j] * e[i]
<1> DEFINE w == weights[z]
           D == DOMAIN w
           u == Scheduled(order)[z]
           f == FixWeight(z, order)
           g(i) == Effective(w[i])
           e(i) == Effective(first[z][i])
<1>1. StateOK /\ z \in Zones
  BY DEF TypeInv, StateOK
<1>2. DOMAIN u = D /\ w \in Seq(Integer) /\ D = 1..Len(w)
  BY <1>1, ScheduledType DEF StateOK
<1>3. first[z] \in Seq(Integer) /\ DOMAIN first[z] = D /\ D = 1..Len(first[z])
  BY <1>1 DEF TypeInv
<1>4. f \in Nat /\ (f = 0 <=> dst[z] = 0) /\ \A i \in D : Rescaled(w[i], f) = g(i) * f
  BY <1>1, FixExact
<1>5. \A i \in D : u[i] = g(i) * f
  BY <1>1, <1>2, <1>4 DEF Scheduled
<1>6. \A i \in D : g(i) \in Nat \ {0} /\ e(i) \in Nat \ {0}
  <2>1. TAKE i \in D
  <2>2. w[i] \in Integer
    BY <1>2, ElementType
  <2>3. first[z][i] \in Integer
    BY <1>3, ElementType
  <2> QED  BY <2>2, <2>3, EffectiveInteger
<1>7. dst[z] \in Nat
  BY <1>1 DEF StateOK
<1>8. CASE dst[z] = 0
  <2>1. f = 0
    BY <1>4, <1>8
  <2> HIDE DEF u, f, g, e, D
  <2>2. \A i \in D : u[i] = 0
    BY <2>1, <1>5, <1>6
  <2> QED  BY <2>2, <1>2, <1>8 DEF u
<1>9. CASE dst[z] > 0
  <2>1. \A i, j \in D : g(i) * e(j) = g(j) * e(i)
    <3>1. CASE w = first[z]
      <4>1. \A i \in D : g(i) = e(i)
        BY <3>1
      <4>2. \A a, b \in Nat : a * b = b * a
        OBVIOUS
      <4> HIDE DEF D, g, e
      <4> QED  BY <4>1, <4>2, <1>6
    <3>2. CASE /\ \A i \in D : w[i] > 0
               /\ \A i, j \in D : w[i] * e(j) = w[j] * e(i)
      <4>1. \A i \in D : g(i) = w[i]
        <5>1. TAKE i \in D
        <5>2. w[i] \in Integer /\ w[i] > 0
          BY <1>2, <3>2, ElementType
        <5> QED  BY <5>2, WeightsAssumption DEF Effective
      <4> HIDE DEF D, g, e, w
      <4> QED  BY <4>1, <3>2
    <3>3. \/ w = first[z]
          \/ dst[z] = 0
          \/ /\ \A i \in D : w[i] > 0
             /\ \A i, j \in D : w[i] * e(j) = w[j] * e(i)
      <4> DEFINE h == [i \in DOMAIN w |-> Effective(first[z][i])]
      <4>1. \A i \in D : h[i] = e(i)
        OBVIOUS
      <4>2. \/ w = first[z]
            \/ dst[z] = 0
            \/ /\ \A i \in D : w[i] > 0
               /\ \A i, j \in D : w[i] * h[j] = w[j] * h[i]
        BY DEF InProportion
      <4> HIDE DEF D, e, h, w
      <4> QED  BY <4>1, <4>2
    <3> HIDE DEF D, e, w
    <3> QED  BY <1>9, <1>7, <3>1, <3>2, <3>3
  <2>2. f \in Nat \ {0}
    BY <1>4, <1>9
  <2> DEFINE ee == [i \in DOMAIN u |-> Effective(first[z][i])]
  <2>3. \A i \in D : ee[i] = e(i)
    BY <1>2
  <2> HIDE DEF u, f, g, e, D, ee
  <2>4. \A i \in D : u[i] > 0
    <3>1. \A a, b \in Nat \ {0} : a * b > 0
      OBVIOUS
    <3> QED  BY <3>1, <2>2, <1>5, <1>6
  <2>5. ASSUME NEW i \in D, NEW j \in D PROVE u[i] * e(j) = u[j] * e(i)
    <3>1. \A a, b, c \in Nat : (a * b) * c = (a * c) * b
      OBVIOUS
    <3>2. u[i] = g(i) * f /\ u[j] = g(j) * f
      BY <1>5
    <3>3. g(i) \in Nat /\ g(j) \in Nat /\ e(i) \in Nat /\ e(j) \in Nat /\ f \in Nat
      BY <1>6, <2>2
    <3>4. (g(i) * f) * e(j) = (g(i) * e(j)) * f
      BY <3>1, <3>3
    <3>5. (g(j) * f) * e(i) = (g(j) * e(i)) * f
      BY <3>1, <3>3
    <3> QED  BY <3>2, <3>4, <3>5, <2>1
  <2>6. \A i, j \in D : u[i] * ee[j] = u[j] * ee[i]
    BY <2>3, <2>5
  <2>7. DOMAIN u = D
    BY <1>2
  <2> QED  BY <1>9, <2>4, <2>6, <2>7 DEF u, ee
<1> QED  BY <1>7, <1>8, <1>9

\* A call that writes no weights keeps the invariant, unless it panics.
LEMMA UnchangedWeights ==
  ASSUME IInv, UNCHANGED <<weights, dst, first, addrs>>,
         calls' \in 0..MaxCalls, overflow' \in BOOLEAN, ~overflow' => ~overflow,
         outcome' \in {"none", "unscheduled", "scheduled", "panic"},
         outcome' = "scheduled" => outcome = "scheduled",
         PanicsOnlyOnGaps'
  PROVE  IInv'
<1>1. TypeInv'
  BY DEF IInv, TypeInv, StateOK
<1>2. AddressesOK'
  BY DEF IInv, AddressesOK
<1>3. ProportionsInv'
  BY DEF IInv, ProportionsInv, InProportion
<1>4. ProportionsKept'
  BY DEF IInv, ProportionsKept
<1>5. SharesFollowSchedule'
  BY DEF IInv, SharesFollowSchedule
<1> QED  BY <1>1, <1>2, <1>3, <1>4, <1>5 DEF IInv

\* UseScheduler keeps it.
LEMMA UseSchedulerIInv == IInv /\ UseScheduler => IInv'
<1> SUFFICES ASSUME IInv, UseScheduler PROVE IInv'
  OBVIOUS
<1>1. /\ UNCHANGED <<dst, first, addrs>>
      /\ calls' \in 0..MaxCalls
  <2>1. calls \in 0..MaxCalls /\ calls < MaxCalls /\ calls' = calls + 1 /\ UNCHANGED <<dst, first, addrs>>
    BY DEF UseScheduler, IInv, TypeInv
  <2> QED  BY <2>1, WeightsAssumption
<1>2. TypeInv /\ StateOK /\ overflow \in BOOLEAN
  BY DEF IInv, TypeInv
<1>3. CASE /\ Unscheduled
           /\ outcome' = "unscheduled"
           /\ UNCHANGED <<weights, overflow>>
  <2>1. PanicsOnlyOnGaps'
    BY <1>3 DEF PanicsOnlyOnGaps
  <2>2. overflow' \in BOOLEAN /\ (~overflow' => ~overflow)
    BY <1>2, <1>3
  <2> QED  BY <1>1, <1>3, <2>1, <2>2, UnchangedWeights
<1>4. CASE /\ Panics
           /\ outcome' = "panic"
           /\ overflow' = (overflow \/ SumsOverflow)
           /\ UNCHANGED weights
  <2>1. overflow' \in BOOLEAN /\ (~overflow' => ~overflow /\ ~SumsOverflow)
    BY <1>2, <1>4
  <2>2. PICK z \in DOMAIN dst :
          weights[z] = << >> \/ ZoneTotal(z) = 0 \/ NoMap \in Range(weights[z])
    BY <1>4 DEF Panics
  <2>3. weights[z] # << >> /\ ~SumsOverflow => ZoneTotal(z) > 0
    BY <1>2, ZoneTotalExact
  <2>4. weights[z] = << >> \/ NoMap \in Range(weights[z]) \/ overflow'
    <3>1. ~ (0 > 0)
      OBVIOUS
    <3> QED  BY <2>1, <2>2, <2>3, <3>1
  <2>5. PanicsOnlyOnGaps'
    BY <1>1, <1>4, <2>4 DEF PanicsOnlyOnGaps
  <2> QED  BY <1>1, <1>4, <2>1, <2>5, UnchangedWeights
<1>5. ASSUME ~Panics, outcome' = "scheduled",
             NEW order \in SetToSeqs(DOMAIN dst),
             overflow' = (overflow \/ SumsOverflow \/ ProductsOverflow(order)),
             weights' = Scheduled(order)
      PROVE  IInv'
  <2>1. overflow' \in BOOLEAN /\ (~overflow' => ~overflow /\ ~SumsOverflow /\ ~ProductsOverflow(order))
    BY <1>2, <1>5 DEF SumsOverflow, ProductsOverflow
  <2>2. TypeInv'
    <3>1. \A z \in Zones : weights'[z] \in Seq(Integer) /\ DOMAIN weights'[z] = DOMAIN weights[z]
      BY <1>2, <1>5, ScheduledType
    <3>2. weights' = [z \in Zones |-> weights'[z]]
      BY <1>5 DEF Scheduled
    <3>3. weights' \in [Zones -> Seq(Integer)]
      <4> HIDE DEF Integer
      <4> QED  BY <3>1, <3>2
    <3>4. StateOK'
      BY <1>1, <1>2, <3>3 DEF StateOK
    <3> QED  BY <1>1, <1>2, <1>5, <2>1, <3>1, <3>4 DEF TypeInv
  <2>3. AddressesOK'
    BY <1>1 DEF IInv, AddressesOK
  <2>4. ASSUME ~overflow', NEW z \in DOMAIN dst
        PROVE  LET u == weights'[z]
                   e == [i \in DOMAIN u |-> Effective(first[z][i])]
               IN \/ dst[z] = 0 /\ \A i \in DOMAIN u : u[i] = 0
                  \/ /\ dst[z] > 0
                     /\ \A i \in DOMAIN u : u[i] > 0
                     /\ \A i, j \in DOMAIN u : u[i] * e[j] = u[j] * e[i]
    <3>1. InProportion(z)
      BY <2>1, <2>4 DEF IInv, ProportionsInv
    <3> QED  BY <1>2, <1>5, <2>1, <2>4, <3>1, ScheduledProportions
  <2>5. ProportionsInv'
    BY <1>1, <2>4 DEF ProportionsInv, InProportion
  <2>6. ProportionsKept'
    <3> SUFFICES ASSUME ~overflow', NEW z \in DOMAIN dst,
                        NEW i \in DOMAIN weights'[z], NEW j \in DOMAIN weights'[z]
                 PROVE  weights'[z][i] * Effective(first[z][j]) = weights'[z][j] * Effective(first[z][i])
      BY <1>1 DEF ProportionsKept
    <3> DEFINE u == weights'[z]
               D == DOMAIN u
               e(k) == Effective(first[z][k])
               ee == [k \in D |-> e(k)]
    <3>1. ee[i] = e(i) /\ ee[j] = e(j)
      OBVIOUS
    <3>2. \/ \A k \in D : u[k] = 0
          \/ \A k, l \in D : u[k] * ee[l] = u[l] * ee[k]
      BY <2>4
    <3>3. e(i) \in Int /\ e(j) \in Int
      <4>1. first[z] \in Seq(Integer) /\ D = 1..Len(first[z])
        BY <1>2, <1>5, ScheduledType DEF TypeInv, StateOK
      <4>2. first[z][i] \in Integer /\ first[z][j] \in Integer
        BY <4>1, ElementType
      <4> QED  BY <4>2, EffectiveInteger
    <3> HIDE DEF u, D, e, ee
    <3>4. i \in D /\ j \in D
      BY DEF D, u
    <3>5. u[i] * e(j) = u[j] * e(i)
      BY <3>1, <3>2, <3>3, <3>4
    <3> QED  BY <3>5 DEF u, e
  <2>7. SharesFollowSchedule'
    <3> SUFFICES ASSUME ~overflow', NEW y \in DOMAIN dst, NEW z \in DOMAIN dst
                 PROVE  Sum(weights'[y]) * dst[z] = Sum(weights'[z]) * dst[y]
      BY <1>1 DEF SharesFollowSchedule
    <3> DEFINE p == Product(order)
    <3>1. Sum(weights'[y]) = dst[y] * p /\ Sum(weights'[z]) = dst[z] * p
      BY <1>2, <1>5, <2>1, ScheduledExact
    <3>2. p \in Nat /\ dst[y] \in Nat /\ dst[z] \in Nat
      BY <1>2, <1>5, <2>1, ScheduledExact
    <3>3. \A a, b, c \in Nat : (a * c) * b = (b * c) * a
      OBVIOUS
    <3> HIDE DEF p
    <3> QED  BY <3>1, <3>2, <3>3
  <2>8. PanicsOnlyOnGaps'
    BY <1>5 DEF PanicsOnlyOnGaps
  <2> QED  BY <2>2, <2>3, <2>5, <2>6, <2>7, <2>8 DEF IInv
<1> QED  BY <1>3, <1>4, <1>5 DEF UseScheduler

\* And so does a resolver: the instances it reads have integers for weights.
LEMMA ResolveIInv ==
  ASSUME IInv, NEW z \in Zones, Resolve(z)
  PROVE  IInv'
<1>1. UNCHANGED <<weights, dst, first, calls, outcome, overflow>>
  BY DEF Resolve
<1>2. weights \in [Zones -> Seq(Integer)]
  BY DEF IInv, TypeInv, StateOK
<1>3. PICK order \in SetToSeqs(Zones) :
        \E inss : /\ inss = IF weights[z] # << >> THEN weights[z]
                            ELSE FlattenSeq([i \in DOMAIN order |-> weights[order[i]]])
                  /\ \E skipped \in SUBSET DOMAIN inss :
                       addrs' = [inss |-> inss, skipped |-> skipped,
                                 told |-> newAddress(inss, skipped)]
  BY DEF Resolve
<1>4. PICK inss :
        /\ inss = IF weights[z] # << >> THEN weights[z]
                  ELSE FlattenSeq([i \in DOMAIN order |-> weights[order[i]]])
        /\ \E skipped \in SUBSET DOMAIN inss :
             addrs' = [inss |-> inss, skipped |-> skipped,
                       told |-> newAddress(inss, skipped)]
  BY <1>3
<1>5. inss \in Seq(Integer)
  <2> DEFINE seqs == [i \in DOMAIN order |-> weights[order[i]]]
  <2>1. order \in Seq(Zones)
    BY WeightsAssumption, OrderOnto
  <2>2. \A i \in 1..Len(order) : weights[order[i]] \in Seq(Integer)
    BY <1>2, <2>1, ElementType
  <2>3. DOMAIN order = 1..Len(order) /\ Len(order) \in Nat
    BY <2>1
  <2>4. seqs \in [1..Len(order) -> Seq(Integer)]
    BY <2>2, <2>3
  <2> HIDE DEF Integer
  <2>5. seqs \in Seq(Seq(Integer))
    BY <2>3, <2>4, FunctionIsSeq
  <2>6. FlattenSeq(seqs) \in Seq(Integer)
    BY <2>5, FlattenSeqType
  <2> QED  BY <1>2, <1>4, <2>6
<1>6. AddressesOK'
  BY <1>4, <1>5 DEF AddressesOK
<1>7. TypeInv'
  BY <1>1 DEF IInv, TypeInv, StateOK
<1>8. ProportionsInv'
  BY <1>1 DEF IInv, ProportionsInv, InProportion
<1>9. ProportionsKept' /\ PanicsOnlyOnGaps'
  BY <1>1 DEF IInv, ProportionsKept, PanicsOnlyOnGaps
<1>10. SharesFollowSchedule'
  BY <1>1 DEF IInv, SharesFollowSchedule
<1> QED  BY <1>6, <1>7, <1>8, <1>9, <1>10 DEF IInv

-----------------------------------------------------------------------------
(* What a resolver tells of the instances.                                 *)

\* The weight in an address is an integer.
LEMMA NewAddressType ==
  ASSUME NEW inss \in Seq(Integer), NEW skipped
  PROVE  /\ DOMAIN newAddress(inss, skipped) = 1..Len(inss) \ skipped
         /\ \A i \in 1..Len(inss) \ skipped :
              /\ newAddress(inss, skipped)[i] =
                   Told(inss[i], AddressTotals(inss, skipped)[i - 1], i - 1)
              /\ newAddress(inss, skipped)[i] \in Integer
<1> DEFINE t == AddressTotals(inss, skipped)
           a == newAddress(inss, skipped)
<1>1. DOMAIN inss = 1..Len(inss) /\ Len(inss) \in Nat
  OBVIOUS
<1>2. a = [i \in 1..Len(inss) \ skipped |-> Told(inss[i], t[i - 1], i - 1)]
  BY <1>1 DEF newAddress
<1>3. t \in [0..Len(inss) -> Integer] /\ t[0] = 0
  BY AddressTotalsLoop
<1> HIDE DEF t, a, Integer
<1>4. ASSUME NEW i \in 1..Len(inss) \ skipped
      PROVE  Told(inss[i], t[i - 1], i - 1) \in Integer
  <2>1. inss[i] \in Integer
    BY ElementType
  <2>2. i - 1 \in 0..Len(inss) /\ i - 1 \in Nat
    BY <1>1
  <2>3. t[i - 1] \in Integer /\ (i - 1 = 0 => t[i - 1] = 0)
    BY <1>3, <2>2
  <2> QED  BY <2>1, <2>2, <2>3, ToldInteger
<1> QED  BY <1>2, <1>4 DEF t, a

\* The quotient lies between the bounds of the number divided.
LEMMA DivisionBetween ==
  ASSUME NEW a \in Nat, NEW n \in Nat \ {0}, NEW lo \in Nat, NEW hi \in Nat,
         lo * n <= a, a <= hi * n
  PROVE  lo <= a \div n /\ a \div n <= hi /\ Quotient(a, n) = a \div n
<1> DEFINE q == a \div n
<1>1. q \in Nat /\ q * n <= a /\ a < (q + 1) * n
  OBVIOUS
<1>2. Quotient(a, n) = q
  BY DEF Quotient, Abs
<1> HIDE DEF q
<1>3. \A b, c \in Nat : b < c => (b + 1) * n <= c * n
  OBVIOUS
<1>4. \A b, c \in Nat : b * n \in Nat
  OBVIOUS
<1>5. lo <= q
  <2>1. SUFFICES ASSUME q < lo PROVE FALSE
    BY <1>1
  <2>2. (q + 1) * n <= lo * n
    BY <1>1, <1>3, <2>1
  <2> QED  BY <1>1, <1>4, <2>2
<1>6. q <= hi
  <2>1. SUFFICES ASSUME hi < q PROVE FALSE
    BY <1>1
  <2>2. (hi + 1) * n <= q * n /\ hi * n < (hi + 1) * n
    BY <1>1, <1>3, <2>1
  <2> QED  BY <1>1, <1>4, <2>2
<1> QED  BY <1>2, <1>5, <1>6 DEF q

\* Multiplication keeps an order.
LEMMA TimesMonotone ==
  ASSUME NEW x \in Nat, NEW y \in Nat, NEW n \in Nat, x <= y
  PROVE  x * n <= y * n /\ x * n \in Nat /\ y * n \in Nat
OBVIOUS

\* The total of m addresses is at least m times the least of their weights, and
\* at most m times the greatest, and all are positive.
LEMMA TotalsBetween ==
  ASSUME NEW inss \in Seq(Integer), NEW k \in 1..Len(inss),
         \A i \in 1..(k - 1) : AddressTotals(inss, {})[i] =
                                 AddressTotals(inss, {})[i - 1] + newAddress(inss, {})[i]
  PROVE  LET t == AddressTotals(inss, {})
             a == newAddress(inss, {})
         IN /\ t[k - 1] \in Nat /\ t[k - 1] >= k - 1
            /\ a[k] \in Nat \ {0} /\ \A i \in 1..(k - 1) : a[i] \in Nat \ {0}
            /\ k > 1 => \E lo, hi \in 1..(k - 1) :
                          a[lo] * (k - 1) <= t[k - 1] /\ t[k - 1] <= a[hi] * (k - 1)
<1> DEFINE t == AddressTotals(inss, {})
           a == newAddress(inss, {})
           Between(m) == m > 0 => \E lo, hi \in 1..m : a[lo] * m <= t[m] /\ t[m] <= a[hi] * m
           G == {m \in 0..(k - 1) : /\ t[m] \in Nat /\ t[m] >= m
                                    /\ \A i \in 1..m : a[i] \in Nat \ {0}
                                    /\ Between(m)}
<1>1. k \in Nat /\ k <= Len(inss) /\ k - 1 \in Nat /\ Len(inss) \in Nat
  OBVIOUS
<1>2. t[0] = 0
  BY AddressTotalsLoop
<1>3. \A i \in 1..k : a[i] = Told(inss[i], t[i - 1], i - 1) /\ inss[i] \in Int
  <2>1. TAKE i \in 1..k
  <2>2. i \in 1..Len(inss) \ {}
    BY <1>1
  <2>3. inss[i] \in Integer
    BY <2>2, ElementType
  <2>4. inss[i] \in Int
    BY <2>3, WeightsAssumption
  <2>5. a[i] = Told(inss[i], t[i - 1], i - 1)
    BY <2>2, NewAddressType
  <2> HIDE DEF a, t
  <2> QED  BY <2>4, <2>5
<1>4. \A i \in 1..(k - 1) : t[i] = t[i - 1] + a[i]
  OBVIOUS
<1> HIDE DEF t, a
<1>5. ASSUME NEW m \in 1..k, t[m - 1] \in Nat, t[m - 1] >= m - 1
      PROVE  a[m] \in Nat \ {0}
  <2>1. a[m] = Told(inss[m], t[m - 1], m - 1) /\ inss[m] \in Int
    BY <1>3
  <2>2. CASE inss[m] > 0
    BY <2>1, <2>2 DEF Told
  <2>3. CASE ~ (inss[m] > 0) /\ t[m - 1] = 0
    BY <2>1, <2>3, WeightsAssumption DEF Told
  <2>4. CASE ~ (inss[m] > 0) /\ t[m - 1] # 0
    <3>1. m - 1 \in Nat \ {0}
      <4>1. m - 1 = 0 => t[m - 1] = 0
        BY <1>2
      <4> QED  BY <4>1, <2>4
    <3>2. 1 * (m - 1) <= t[m - 1] /\ t[m - 1] <= t[m - 1] * (m - 1)
      <4>1. \A b \in Nat : \A n \in Nat \ {0} : b <= b * n /\ 1 * n = n
        OBVIOUS
      <4> QED  BY <4>1, <3>1, <1>5
    <3>3. 1 <= Quotient(t[m - 1], m - 1) /\ Quotient(t[m - 1], m - 1) <= t[m - 1]
      BY <3>1, <3>2, <1>5, DivisionBetween
    <3>4. Quotient(t[m - 1], m - 1) \in Int
      <4>1. t[m - 1] \in Int /\ m - 1 \in Int /\ m - 1 # 0
        BY <3>1, <1>5
      <4> QED  BY <4>1, QuotientInt
    <3> QED  BY <2>1, <2>4, <3>3, <3>4 DEF Told, Average
  <2> QED  BY <2>2, <2>3, <2>4
<1>6. ASSUME NEW m \in 1..(k - 1), m - 1 \in G PROVE m \in G
  <2>1. /\ t[m - 1] \in Nat /\ t[m - 1] >= m - 1
        /\ \A i \in 1..(m - 1) : a[i] \in Nat \ {0}
        /\ Between(m - 1)
    BY <1>6
  <2>2. m \in 1..k /\ m \in 0..(k - 1) /\ m \in Nat
    BY <1>1
  <2>3. a[m] \in Nat \ {0}
    BY <1>5, <2>1, <2>2
  <2>4. t[m] = t[m - 1] + a[m]
    BY <1>4
  <2>5. t[m] \in Nat /\ t[m] >= m
    BY <2>1, <2>2, <2>3, <2>4
  <2>6. \A i \in 1..m : a[i] \in Nat \ {0}
    <3>1. \A i \in 1..m : i = m \/ i \in 1..(m - 1)
      BY <2>2
    <3> QED  BY <3>1, <2>1, <2>3
  <2>7. \E lo, hi \in 1..m : a[lo] * m <= t[m] /\ t[m] <= a[hi] * m
    <3>1. CASE m = 1
      <4>1. t[m - 1] = 0 /\ 1 \in 1..m
        BY <3>1, <1>2
      <4>2. a[1] * m = a[1] /\ t[m] = a[1]
        BY <3>1, <4>1, <2>3, <2>4
      <4> QED  BY <4>1, <4>2, <2>3, <3>1
    <3>2. CASE m # 1
      <4>1. m - 1 > 0
        BY <2>2, <3>2
      <4>2. PICK l \in 1..(m - 1), h \in 1..(m - 1) :
              a[l] * (m - 1) <= t[m - 1] /\ t[m - 1] <= a[h] * (m - 1)
        BY <2>1, <4>1
      <4>3. a[l] \in Nat /\ a[h] \in Nat /\ a[m] \in Nat
        BY <2>1, <2>3
      <4>4. \A x, y, s, n \in Nat : x * n <= s /\ x <= y => x * (n + 1) <= s + y
        OBVIOUS
      <4>5. \A x, y, s, n \in Nat : s <= x * n /\ y <= x => s + y <= x * (n + 1)
        OBVIOUS
      <4>7. (m - 1) + 1 = m /\ m - 1 \in Nat
        BY <2>2
      <4>8. \E lo \in 1..m : a[lo] * m <= t[m]
        <5>1. CASE a[l] <= a[m]
          <6>1. a[l] * m <= t[m]
            BY <5>1, <4>2, <4>3, <4>4, <4>7, <2>1, <2>4
          <6>2. l \in 1..m
            BY <2>2
          <6> QED  BY <6>1, <6>2
        <5>2. CASE a[m] < a[l]
          <6>1. a[m] * (m - 1) <= t[m - 1]
            <7>0. a[m] <= a[l]
              BY <5>2, <4>3
            <7>1. a[m] * (m - 1) <= a[l] * (m - 1) /\ a[m] * (m - 1) \in Nat /\ a[l] * (m - 1) \in Nat
              BY <7>0, <4>3, <4>7, TimesMonotone
            <7> QED  BY <7>1, <4>2, <2>1
          <6>2. a[m] * m <= t[m]
            BY <6>1, <4>3, <4>4, <4>7, <2>1, <2>4
          <6>3. m \in 1..m
            OBVIOUS
          <6> QED  BY <6>2, <6>3
        <5> QED  BY <4>3, <5>1, <5>2
      <4>9. \E hi \in 1..m : t[m] <= a[hi] * m
        <5>1. CASE a[m] <= a[h]
          <6>1. t[m] <= a[h] * m
            BY <5>1, <4>2, <4>3, <4>5, <4>7, <2>1, <2>4
          <6>2. h \in 1..m
            BY <2>2
          <6> QED  BY <6>1, <6>2
        <5>2. CASE a[h] < a[m]
          <6>1. t[m - 1] <= a[m] * (m - 1)
            <7>0. a[h] <= a[m]
              BY <5>2, <4>3
            <7>1. a[h] * (m - 1) <= a[m] * (m - 1) /\ a[h] * (m - 1) \in Nat /\ a[m] * (m - 1) \in Nat
              BY <7>0, <4>3, <4>7, TimesMonotone
            <7> QED  BY <7>1, <4>2, <2>1
          <6>2. t[m] <= a[m] * m
            BY <6>1, <4>3, <4>5, <4>7, <2>1, <2>4
          <6>3. m \in 1..m
            OBVIOUS
          <6> QED  BY <6>2, <6>3
        <5> QED  BY <4>3, <5>1, <5>2
      <4> QED  BY <4>8, <4>9
    <3> QED  BY <3>1, <3>2
  <2> QED  BY <2>2, <2>5, <2>6, <2>7
<1>7. 0 \in G
  BY <1>1, <1>2
<1> HIDE DEF G
<1>8. \A m \in 0..(k - 1) : m \in G
  BY <1>1, <1>6, <1>7, LoopInduction
<1>9. k - 1 \in 0..(k - 1) /\ k \in 1..k
  BY <1>1
<1>10. k - 1 \in G
  BY <1>8, <1>9
<1>11. /\ t[k - 1] \in Nat /\ t[k - 1] >= k - 1
       /\ \A i \in 1..(k - 1) : a[i] \in Nat \ {0}
       /\ k - 1 > 0 => \E lo, hi \in 1..(k - 1) :
                          a[lo] * (k - 1) <= t[k - 1] /\ t[k - 1] <= a[hi] * (k - 1)
  BY <1>10 DEF G
<1>12. a[k] \in Nat \ {0}
  BY <1>5, <1>9, <1>11
<1>13. k > 1 => k - 1 > 0
  BY <1>1
<1> QED  BY <1>11, <1>12, <1>13 DEF t, a

-----------------------------------------------------------------------------
(* The theorems.                                                           *)

\* The invariant says that every variable has its type.
LEMMA IInvTypeOK == IInv => TypeOK
<1> SUFFICES ASSUME IInv PROVE TypeOK
  OBVIOUS
<1>1. TypeInv /\ AddressesOK
  BY DEF IInv
<1>2. ASSUME NEW z \in Zones PROVE Range(weights[z]) \subseteq Integer
  <2>1. weights[z] \in Seq(Integer)
    BY <1>1 DEF TypeInv, StateOK
  <2>2. DOMAIN weights[z] = 1..Len(weights[z])
    BY <2>1
  <2>3. \A i \in DOMAIN weights[z] : weights[z][i] \in Integer
    BY <2>1, <2>2, ElementType
  <2> HIDE DEF Integer
  <2> QED  BY <2>3 DEF Range
<1>3. Range(addrs.told) \subseteq Integer
  <2>1. addrs.inss \in Seq(Integer) /\ addrs.told = newAddress(addrs.inss, addrs.skipped)
    BY <1>1 DEF AddressesOK
  <2>2. \A i \in DOMAIN addrs.told : addrs.told[i] \in Integer
    BY <2>1, NewAddressType
  <2> HIDE DEF Integer
  <2> QED  BY <2>2 DEF Range
<1>4. DOMAIN addrs.told = DOMAIN addrs.inss \ addrs.skipped
  <2>1. addrs.inss \in Seq(Integer) /\ addrs.told = newAddress(addrs.inss, addrs.skipped)
    BY <1>1 DEF AddressesOK
  <2>2. DOMAIN newAddress(addrs.inss, addrs.skipped) = 1..Len(addrs.inss) \ addrs.skipped
    BY <2>1, NewAddressType
  <2>3. DOMAIN addrs.inss = 1..Len(addrs.inss)
    BY <2>1
  <2> QED  BY <2>1, <2>2, <2>3
<1> QED  BY <1>1, <1>2, <1>3, <1>4 DEF TypeOK, TypeInv

\* And that averages lie between the weights before them.
LEMMA IInvAverages == IInv => AveragesAreWithin
<1> DEFINE inss == addrs.inss
           told == addrs.told
           totals == AddressTotals(addrs.inss, addrs.skipped)
<1> SUFFICES ASSUME IInv, addrs.skipped = {}, NEW k \in DOMAIN told,
                    \A i \in 1..(k - 1) : totals[i] = totals[i - 1] + told[i]
             PROVE  /\ told[k] > 0
                    /\ inss[k] <= 0 /\ k > 1 =>
                         /\ \E i \in 1..(k - 1) : told[k] >= told[i]
                         /\ \E i \in 1..(k - 1) : told[k] <= told[i]
  BY DEF AveragesAreWithin
<1>1. inss \in Seq(Integer) /\ told = newAddress(inss, {})
  BY DEF IInv, AddressesOK
<1>2. k \in 1..Len(inss) /\ told[k] = Told(inss[k], totals[k - 1], k - 1)
  <2>1. DOMAIN told = 1..Len(inss) \ {}
    BY <1>1, NewAddressType
  <2>2. k \in 1..Len(inss) \ {}
    BY <2>1
  <2>3. newAddress(inss, {})[k] = Told(inss[k], AddressTotals(inss, {})[k - 1], k - 1)
    BY <1>1, <2>2, NewAddressType
  <2> QED  BY <1>1, <2>2, <2>3
<1>3. totals = AddressTotals(inss, {})
  OBVIOUS
<1>4. inss[k] \in Int
  <2>1. inss[k] \in Integer
    BY <1>1, <1>2, ElementType
  <2> QED  BY <2>1, WeightsAssumption
<1>5. \A i \in 1..(k - 1) : AddressTotals(inss, {})[i] =
                              AddressTotals(inss, {})[i - 1] + newAddress(inss, {})[i]
  BY <1>1
<1>6. /\ totals[k - 1] \in Nat /\ totals[k - 1] >= k - 1
      /\ told[k] \in Nat \ {0} /\ \A i \in 1..(k - 1) : told[i] \in Nat \ {0}
      /\ k > 1 => \E lo, hi \in 1..(k - 1) :
                    told[lo] * (k - 1) <= totals[k - 1] /\ totals[k - 1] <= told[hi] * (k - 1)
  BY <1>1, <1>2, <1>3, <1>5, TotalsBetween
<1> HIDE DEF inss, told, totals
<1>7. ASSUME inss[k] <= 0, k > 1
      PROVE  /\ \E i \in 1..(k - 1) : told[k] >= told[i]
             /\ \E i \in 1..(k - 1) : told[k] <= told[i]
  <2>1. k - 1 \in Nat \ {0} /\ k \in Nat
    BY <1>2, <1>7
  <2>2. PICK lo \in 1..(k - 1), hi \in 1..(k - 1) :
          told[lo] * (k - 1) <= totals[k - 1] /\ totals[k - 1] <= told[hi] * (k - 1)
    BY <1>6, <1>7
  <2>3. told[k] = Quotient(totals[k - 1], k - 1)
    <3>1. totals[k - 1] # 0
      BY <1>6, <2>1
    <3>2. ~ (inss[k] > 0)
      BY <1>4, <1>7
    <3> QED  BY <1>2, <3>1, <3>2 DEF Told, Average
  <2>4. told[lo] \in Nat /\ told[hi] \in Nat /\ totals[k - 1] \in Nat
    BY <1>6
  <2>5. told[lo] <= told[k] /\ told[k] <= told[hi]
    <3>1. told[lo] * (k - 1) <= totals[k - 1] /\ totals[k - 1] <= told[hi] * (k - 1)
      BY <2>2
    <3> DEFINE T == totals[k - 1]
               n == k - 1
               l == told[lo]
               h == told[hi]
    <3>2. T \in Nat /\ n \in Nat \ {0} /\ l \in Nat /\ h \in Nat /\ l * n <= T /\ T <= h * n
      BY <3>1, <2>1, <2>4
    <3>3. told[k] = Quotient(T, n)
      BY <2>3
    <3> HIDE DEF T, n, l, h
    <3>4. l <= Quotient(T, n) /\ Quotient(T, n) <= h
      <4>1. l <= T \div n /\ T \div n <= h /\ Quotient(T, n) = T \div n
        BY <3>2, DivisionBetween
      <4> QED  BY <4>1
    <3> QED  BY <3>3, <3>4 DEF l, h
  <2> QED  BY <1>6, <2>4, <2>5
<1> QED  BY <1>6, <1>7

\* The invariant holds of every state.
LEMMA Invariance == Spec => []IInv
<1>1. IInv /\ [Next]_vars => IInv'
  <2> SUFFICES ASSUME IInv, [Next]_vars PROVE IInv'
    OBVIOUS
  <2>1. CASE UseScheduler
    BY <2>1, UseSchedulerIInv
  <2>2. ASSUME NEW z \in Zones, Resolve(z) PROVE IInv'
    BY <2>2, ResolveIInv
  <2>3. CASE UNCHANGED vars
    <3>1. UNCHANGED <<weights, dst, first, addrs>> /\ UNCHANGED <<calls, overflow, outcome>>
      BY <2>3 DEF vars
    <3>2. PanicsOnlyOnGaps'
      BY <3>1 DEF IInv, PanicsOnlyOnGaps
    <3>3. calls' \in 0..MaxCalls /\ overflow' \in BOOLEAN
          /\ outcome' \in {"none", "unscheduled", "scheduled", "panic"}
      BY <3>1 DEF IInv, TypeInv
    <3> QED  BY <3>1, <3>2, <3>3, UnchangedWeights
  <2> QED  BY <2>1, <2>2, <2>3 DEF Next
<1> QED  BY <1>1, InitIInv, PTL DEF Spec

\* No operation of UseScheduler or newAddress leaves the type of a variable:
\* weights are integers whatever overflows, no average divides by zero, and the
\* resolver hands on an address for exactly the instances it does not leave out.
THEOREM TypeCorrect == Spec => []TypeOK
BY Invariance, IInvTypeOK, PTL

\* The zones of a schedule get exactly their shares, at each of any number of
\* calls on one poll, until a sum or a product overflows (naming.go:112-129).
THEOREM SharesFollow == Spec => []SharesFollowSchedule
<1>1. IInv => SharesFollowSchedule
  BY DEF IInv
<1> QED  BY <1>1, Invariance, PTL

\* Within a zone the proportions of the poll are kept (naming.go:120-129).
THEOREM ProportionsAreKept == Spec => []ProportionsKept
<1>1. IInv => ProportionsKept
  BY DEF IInv
<1> QED  BY <1>1, Invariance, PTL

\* UseScheduler panics on nothing but gaps, nil maps and overflow
\* (naming.go:85-118, 128).
THEOREM PanicsAreGaps == Spec => []PanicsOnlyOnGaps
<1>1. IInv => PanicsOnlyOnGaps
  BY DEF IInv
<1> QED  BY <1>1, Invariance, PTL

\* The weight made up for an address lies between those before it
\* (resolver.go:129-154).
THEOREM AveragesWithin == Spec => []AveragesAreWithin
BY Invariance, IInvAverages, PTL

=============================================================================
