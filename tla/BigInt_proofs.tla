------------------------------ MODULE BigInt_proofs ------------------------------
(***************************************************************************)
(* Theorems about BigInt, for any base of two or more, any length of the   *)
(* operands and any bound: limbs and sign stand for the integer they have  *)
(* to be, whatever is computed, and a machine integer comes out exactly    *)
(* when the number fits one.                                               *)
(*                                                                         *)
(* What limbs stand for is what they do from each place on (BiTail): the   *)
(* limb there and Base times what they do from the next.  Each loop over   *)
(* limbs is a function of the place, first shown to exist and to keep to   *)
(* its type (BiDefined), then followed from the highest place down: the    *)
(* result from there on is that of the operands, but for the carry or the  *)
(* borrow.  Long division follows the dividend's highest limbs instead,    *)
(* the quotient's so far times the divisor with what remains; a limb of    *)
(* the quotient is where the search's two ends meet.                       *)
(***************************************************************************)
EXTENDS BigInt, SequenceTheorems, NaturalsInduction, WellFoundedInduction, TLAPS

\* A base has two digits, and the bounds are natural numbers.
Assumptions == Base \in Nat /\ Base > 1 /\ {MaxLimbs, Bound} \subseteq Nat

-----------------------------------------------------------------------------
(* Big integers.  What an algorithm computes limb by limb is a recursive       *)
(* function of the limb's place; each is shown to exist, and to have its type. *)

\* A set of natural numbers has a least member.
LEMMA BiLeast ==
  ASSUME NEW S \in SUBSET Nat, S # {}
  PROVE  \E m \in S : \A k \in S : m <= k
<1> DEFINE R == OpToRel(<, Nat)
<1>1. IsWellFoundedOn(R, Nat)
  BY NatLessThanWellFounded
<1>2. \A k, m \in Nat : k < m => <<k, m>> \in R
  BY DEF OpToRel
<1> HIDE DEF R
<1>3. PICK m \in S : \A k \in S : ~ (<<k, m>> \in R)
  BY <1>1, WFMin
<1>4. \A k \in S : k \in Nat /\ m \in Nat /\ ~ (k < m)
  BY <1>2, <1>3
<1> QED BY <1>3, <1>4

\* What holds at one end and passes from each place to the next holds at all of them.
LEMMA BiUp ==
  ASSUME NEW n \in Nat, NEW S, 0 \in S, \A i \in 1 .. n : i - 1 \in S => i \in S
  PROVE  \A i \in 0 .. n : i \in S
<1> DEFINE U == {i \in 0 .. n : i \notin S}
<1> SUFFICES ASSUME U # {} PROVE FALSE
  OBVIOUS
<1>1. U \in SUBSET Nat
  OBVIOUS
<1> HIDE DEF U
<1>2. PICK m \in U : \A k \in U : m <= k
  BY <1>1, BiLeast
<1>3. m \in 0 .. n /\ m \notin S
  BY DEF U
<1>4. m # 0
  BY <1>3
<1>5. m \in 1 .. n /\ m - 1 \in 0 .. n /\ ~ (m <= m - 1)
  BY <1>3, <1>4
<1>6. m - 1 \notin S
  BY <1>3, <1>5
<1>7. m - 1 \in U
  BY <1>5, <1>6 DEF U
<1> QED BY <1>2, <1>5, <1>7

\* (The same, downwards.)
LEMMA BiDown ==
  ASSUME NEW n \in Nat, NEW S, n \in S, \A i \in 1 .. n : i \in S => i - 1 \in S
  PROVE  \A i \in 0 .. n : i \in S
<1> DEFINE D == {i \in 0 .. n : n - i \in S}
<1>1. 0 \in D
  OBVIOUS
<1>2. \A i \in 1 .. n : i - 1 \in D => i \in D
  <2> SUFFICES ASSUME NEW i \in 1 .. n, n - (i - 1) \in S PROVE n - i \in S
    OBVIOUS
  <2>1. n - (i - 1) \in 1 .. n /\ (n - (i - 1)) - 1 = n - i
    OBVIOUS
  <2> QED BY <2>1
<1> HIDE DEF D
<1>3. \A i \in 0 .. n : i \in D
  BY <1>1, <1>2, BiUp
<1> SUFFICES ASSUME NEW i \in 0 .. n PROVE i \in S
  OBVIOUS
<1>4. n - i \in 0 .. n /\ n - (n - i) = i
  OBVIOUS
<1>5. n - i \in D
  BY <1>3, <1>4
<1> QED BY <1>4, <1>5 DEF D

\* A function can be defined from 0 upwards, each value by the one before.
BiRuns(n, T, e, F) ==
  {g \in [0 .. n -> T] : g[0] = e /\ \A i \in 1 .. n : g[i] = F[i][g[i - 1]]}

\* Such a function there is.
LEMMA BiDefined ==
  ASSUME NEW n \in Nat, NEW T, NEW e \in T, NEW F \in [1 .. n -> [T -> T]]
  PROVE  BiRuns(n, T, e, F) # {}
<1> DEFINE Good(m, g) == g \in [0 .. m -> T] /\ g[0] = e
               /\ \A i \in 1 .. m : g[i] = F[i][g[i - 1]]
           S == {m \in 0 .. n : \E g : Good(m, g)}
<1>1. 0 \in S
  <2> DEFINE g == [i \in 0 .. 0 |-> e]
  <2>1. g \in [0 .. 0 -> T] /\ g[0] = e /\ 1 .. 0 = {}
    OBVIOUS
  <2> HIDE DEF g
  <2>2. Good(0, g)
    BY <2>1
  <2> QED BY <2>2
<1>2. \A m \in 1 .. n : m - 1 \in S => m \in S
  <2> SUFFICES ASSUME NEW m \in 1 .. n, m - 1 \in S PROVE m \in S
    OBVIOUS
  <2>1. PICK g : Good(m - 1, g)
    OBVIOUS
  <2> DEFINE h == [i \in 0 .. m |-> IF i = m THEN F[m][g[m - 1]] ELSE g[i]]
  <2>2. m - 1 \in 0 .. (m - 1) /\ g[m - 1] \in T /\ F[m][g[m - 1]] \in T
    <3>1. m - 1 \in 0 .. (m - 1)
      OBVIOUS
    <3>2. g[m - 1] \in T
      BY <2>1, <3>1
    <3>3. F[m] \in [T -> T]
      OBVIOUS
    <3> QED BY <3>1, <3>2, <3>3
  <2>3. \A i \in 0 .. m : i # m => i \in 0 .. (m - 1)
    OBVIOUS
  <2>4. h \in [0 .. m -> T]
    BY <2>1, <2>2, <2>3
  <2>5. h[0] = e
    <3>1. 0 \in 0 .. m /\ 0 # m
      OBVIOUS
    <3> QED BY <2>1, <3>1
  <2>6. \A i \in 1 .. m : h[i] = F[i][h[i - 1]]
    <3> SUFFICES ASSUME NEW i \in 1 .. m PROVE h[i] = F[i][h[i - 1]]
      OBVIOUS
    <3>1. i - 1 \in 0 .. m /\ i - 1 # m /\ i \in 0 .. m
      OBVIOUS
    <3>2. h[i - 1] = g[i - 1]
      BY <3>1
    <3>3. CASE i = m
      BY <3>1, <3>2, <3>3
    <3>4. CASE i # m
      <4>1. i \in 1 .. (m - 1)
        BY <3>4
      <4>2. h[i] = g[i]
        BY <3>1, <3>4
      <4> QED BY <4>1, <4>2, <3>2, <2>1
    <3> QED BY <3>3, <3>4
  <2> HIDE DEF h
  <2>7. Good(m, h)
    BY <2>4, <2>5, <2>6
  <2> HIDE DEF Good
  <2> QED BY <2>7
<1>3. n \in S
  <2> HIDE DEF S
  <2>1. \A i \in 0 .. n : i \in S
    BY <1>1, <1>2, BiUp
  <2>2. n \in 0 .. n
    OBVIOUS
  <2> QED BY <2>1, <2>2
<1>4. PICK g : Good(n, g)
  BY <1>3
<1>5. g \in BiRuns(n, T, e, F)
  BY <1>4 DEF BiRuns
<1> QED BY <1>5

-----------------------------------------------------------------------------
(* The integer that limbs stand for, from limb i on.                           *)

BiDigits == 0 .. (Base - 1)
BiLimbs == Seq(BiDigits)

BiTail(a, i) == IF i \in 1 .. Len(a) THEN Highest(a)[Len(a) - i + 1] ELSE 0

\* Division with a remainder.
LEMMA BiEuclid ==
  ASSUME NEW s \in Int, NEW m \in Nat \ {0}
  PROVE  /\ (s % m) \in 0 .. (m - 1) /\ (s \div m) \in Int
         /\ s = (s % m) + m * (s \div m)
         /\ s >= 0 => (s \div m) \in Nat
<1>1. (s % m) \in 0 .. (m - 1)
  BY SMT
<1>2. (s \div m) \in Int
  BY SMT
<1>3. s = (s % m) + m * (s \div m)
  BY SMT
<1>4. s >= 0 => (s \div m) >= 0
  BY SMT
<1>5. s >= 0 => (s \div m) \in Nat
  BY <1>2, <1>4
<1> QED BY <1>1, <1>2, <1>3, <1>5

\* A factor goes into a sum, and past another factor.
LEMMA BiSpread == \A m, a, b \in Nat : m * (a + b) = m * a + m * b
OBVIOUS
LEMMA BiSpreadThree == \A m, a, b, c \in Nat : m * (a + b + c) = m * a + m * b + m * c
OBVIOUS
LEMMA BiPast == \A m, a, b \in Nat : m * (a * b) = a * (m * b)
OBVIOUS
LEMMA BiTimes == \A a, b \in Nat : a * b \in Nat
OBVIOUS

-----------------------------------------------------------------------------
(* What limbs stand for.                                                   *)

LEMMA BiBase ==
  ASSUME Assumptions
  PROVE  Base \in Nat /\ Base > 1 /\ 0 \in BiDigits /\ BiDigits \subseteq Nat
BY DEF Assumptions, BiDigits

LEMMA BiLimb ==
  ASSUME Assumptions, NEW a \in BiLimbs
  PROVE  /\ Len(a) \in Nat /\ DOMAIN a = 1 .. Len(a)
         /\ \A i \in 1 .. Len(a) : Limb(a, i) = a[i] /\ a[i] \in BiDigits
         /\ \A i : Limb(a, i) \in BiDigits
         /\ \A i : i \notin 1 .. Len(a) => Limb(a, i) = 0
<1>1. Len(a) \in Nat /\ DOMAIN a = 1 .. Len(a) /\ \A i \in 1 .. Len(a) : a[i] \in BiDigits
  BY LenProperties DEF BiLimbs
<1> QED BY <1>1, BiBase, Zenon DEF Limb

\* What the k highest limbs stand for is natural, and goes up a limb at a time.
LEMMA BiHighest ==
  ASSUME Assumptions, NEW a \in BiLimbs
  PROVE  /\ Highest(a) \in [0 .. Len(a) -> Nat] /\ Highest(a)[0] = 0
         /\ \A k \in 1 .. Len(a) : Highest(a)[k]
                = a[Len(a) - k + 1] + Base * Highest(a)[k - 1]
<1> DEFINE n == Len(a)
           Step(k, t) == a[n - k + 1] + Base * t
           F == [k \in 1 .. n |-> [t \in Nat |-> Step(k, t)]]
           P(g) == g = [k \in 0 .. n |-> IF k = 0 THEN 0
               ELSE a[n - k + 1] + Base * g[k - 1]]
           H == Highest(a)
<1>1. n \in Nat /\ \A k \in 1 .. n : a[n - k + 1] \in Nat
  <2>1. n \in Nat /\ \A i \in 1 .. n : a[i] \in BiDigits
    BY BiLimb
  <2>2. \A k \in 1 .. n : n - k + 1 \in 1 .. n
    BY <2>1
  <2> QED BY <2>1, <2>2, BiBase
<1> HIDE DEF n
<1>2. \A k \in 1 .. n, t \in Nat : Step(k, t) \in Nat
  <2>1. \A t \in Nat : Base * t \in Nat
    BY BiBase
  <2> QED BY <1>1, <2>1
<1>3. H = CHOOSE h : P(h)
  BY DEF Highest, n
<1> HIDE DEF Step, H
<1>4. F \in [1 .. n -> [Nat -> Nat]]
  BY <1>2
<1>5. \A k \in 1 .. n, t \in Nat : F[k][t] = Step(k, t)
  OBVIOUS
<1> HIDE DEF F
<1>6. PICK g \in [0 .. n -> Nat] : g[0] = 0 /\ \A k \in 1 .. n : g[k] = F[k][g[k - 1]]
  <2>1. n \in Nat /\ 0 \in Nat
    BY <1>1
  <2>2. BiRuns(n, Nat, 0, F) # {}
    BY <2>1, <1>4, BiDefined, Zenon
  <2> QED BY <2>2 DEF BiRuns
<1>7. P(g)
  <2>1. \A k \in 1 .. n : k - 1 \in 0 .. n
    BY <1>1
  <2>2. \A k \in 1 .. n : g[k] = a[n - k + 1] + Base * g[k - 1]
    BY <2>1, <1>5, <1>6 DEF Step
  <2>3. \A k \in 0 .. n : k = 0 \/ k \in 1 .. n
    BY <1>1
  <2> QED BY <2>2, <2>3, <1>6
<1>8. P(H)
  <2> HIDE DEF P
  <2> QED BY <1>3, <1>7, Zenon
<1>9. H[0] = 0 /\ \A k \in 1 .. n : H[k] = a[n - k + 1] + Base * H[k - 1]
  <2>1. 0 \in 0 .. n /\ \A k \in 1 .. n : k \in 0 .. n /\ k # 0
    BY <1>1
  <2> QED BY <2>1, <1>8
<1> DEFINE S == {k \in 0 .. n : H[k] \in Nat}
<1>10. 0 \in S /\ \A k \in 1 .. n : k - 1 \in S => k \in S
  <2>1. 0 \in S
    BY <1>1, <1>9
  <2>2. ASSUME NEW k \in 1 .. n, k - 1 \in S PROVE k \in S
    <3>1. H[k - 1] \in Nat
      BY <2>2
    <3>2. Step(k, H[k - 1]) \in Nat
      BY <3>1, <1>2
    <3>3. H[k] = Step(k, H[k - 1])
      BY <1>9 DEF Step
    <3>4. k \in 0 .. n
      BY <1>1
    <3> QED BY <3>2, <3>3, <3>4
  <2> QED BY <2>1, <2>2
<1> HIDE DEF S
<1>11. \A k \in 0 .. n : k \in S
  BY <1>1, <1>10, BiUp
<1>12. \A k \in 0 .. n : H[k] \in Nat
  BY <1>11 DEF S
<1>13. H \in [0 .. n -> Nat]
  BY <1>8, <1>12
<1> QED BY <1>9, <1>13, Zenon DEF n, H

\* What the limbs from a place on stand for: 0 where there are none.
LEMMA BiTailIs ==
  ASSUME Assumptions, NEW a \in BiLimbs
  PROVE  /\ Magnitude(a) = BiTail(a, 1)
         /\ \A i : BiTail(a, i) \in Nat
         /\ \A i \in Nat \ {0} : BiTail(a, i) = Limb(a, i) + Base * BiTail(a, i + 1)
         /\ \A i : i \notin 1 .. Len(a) => BiTail(a, i) = 0
<1> DEFINE n == Len(a)
           H == Highest(a)
<1>1. n \in Nat /\ \A i \in 1 .. n : Limb(a, i) = a[i] /\ a[i] \in Nat
  BY BiLimb, BiBase
<1>2. /\ H \in [0 .. n -> Nat] /\ H[0] = 0
      /\ \A k \in 1 .. n : H[k] = a[n - k + 1] + Base * H[k - 1]
  BY BiHighest
<1>3. \A i : BiTail(a, i) = IF i \in 1 .. n THEN H[n - i + 1] ELSE 0
  BY DEF BiTail
<1>4. Magnitude(a) = H[n]
  BY DEF Magnitude
<1>5. \A i : i \notin 1 .. n => Limb(a, i) = 0
  BY BiLimb
<1> HIDE DEF n, H
<1>6. Magnitude(a) = BiTail(a, 1)
  <2>1. CASE n = 0
    BY <2>1, <1>2, <1>3, <1>4
  <2>2. CASE n # 0
    <3>1. 1 \in 1 .. n /\ n - 1 + 1 = n
      BY <2>2, <1>1
    <3> QED BY <3>1, <1>3, <1>4
  <2> QED BY <2>1, <2>2
<1>7. \A i : BiTail(a, i) \in Nat
  <2> SUFFICES ASSUME NEW i PROVE BiTail(a, i) \in Nat
    OBVIOUS
  <2>1. CASE i \in 1 .. n
    <3>1. n - i + 1 \in 0 .. n
      BY <2>1, <1>1
    <3> QED BY <2>1, <3>1, <1>2, <1>3
  <2>2. CASE i \notin 1 .. n
    BY <2>2, <1>3
  <2> QED BY <2>1, <2>2
<1>8. ASSUME NEW i \in Nat \ {0}
      PROVE  BiTail(a, i) = Limb(a, i) + Base * BiTail(a, i + 1)
  <2>1. CASE i \notin 1 .. n
    <3>1. i + 1 \notin 1 .. n
      BY <2>1, <1>1
    <3> QED BY <2>1, <3>1, <1>3, <1>5, BiBase
  <2>2. CASE i \in 1 .. n
    <3> DEFINE k == n - i + 1
    <3>1. k \in 1 .. n /\ n - k + 1 = i /\ k - 1 = n - i
      BY <2>2, <1>1
    <3>2. BiTail(a, i) = H[k]
      BY <2>2, <1>3
    <3>3. BiTail(a, i + 1) = H[k - 1]
      <4>1. CASE i = n
        <5>1. k - 1 = 0 /\ i + 1 \notin 1 .. n
          BY <4>1, <1>1
        <5> QED BY <5>1, <1>2, <1>3
      <4>2. CASE i # n
        <5>1. i + 1 \in 1 .. n /\ n - (i + 1) + 1 = k - 1
          BY <2>2, <4>2, <1>1
        <5> QED BY <5>1, <1>3
      <4> QED BY <4>1, <4>2
    <3> HIDE DEF k
    <3>4. H[k] = a[n - k + 1] + Base * H[k - 1]
      BY <3>1, <1>2
    <3> QED BY <2>2, <3>1, <3>2, <3>3, <3>4, <1>1
  <2> QED BY <2>1, <2>2
<1> QED BY <1>3, <1>6, <1>7, <1>8 DEF n

\* Multiples of the base are a base apart.
LEMMA BiScale ==
  ASSUME Assumptions
  PROVE  /\ \A p \in Nat : Base * p \in Nat
         /\ \A p, q \in Nat : p < q => Base * p + Base <= Base * q
<1>1. \A p \in Nat : Base * p \in Nat
  BY BiBase
<1>2. ASSUME NEW p \in Nat, NEW q \in Nat, p < q PROVE Base * p + Base <= Base * q
  <2>1. PICK r \in Nat : q = p + 1 + r
    <3>1. q - p - 1 \in Nat /\ q = p + 1 + (q - p - 1)
      BY <1>2
    <3> QED BY <3>1
  <2>2. Base * q = Base * p + Base + Base * r
    BY <2>1, BiBase
  <2>3. Base * r \in Nat /\ Base * p \in Nat /\ Base * q \in Nat
    BY <1>1
  <2> QED BY <2>2, <2>3, BiBase
<1> QED BY <1>1, <1>2

\* Limbs that agree from a place on stand for the same from there on.
LEMMA BiSame ==
  ASSUME Assumptions, NEW a \in BiLimbs, NEW b \in BiLimbs, NEW m \in Nat \ {0},
         \A j \in Nat : j >= m => Limb(a, j) = Limb(b, j)
  PROVE  \A j \in Nat : j >= m => BiTail(a, j) = BiTail(b, j)
<1> DEFINE n == Len(a) + Len(b) + m
           S == {k \in 0 .. n : k + 1 >= m => BiTail(a, k + 1) = BiTail(b, k + 1)}
<1>1. Len(a) \in Nat /\ Len(b) \in Nat
  BY BiLimb
<1>2. n \in Nat /\ \A j \in Nat : j > n => j \notin 1 .. Len(a) /\ j \notin 1 .. Len(b)
          /\ j >= m
  BY <1>1
<1> HIDE DEF n
<1>3. \A j \in Nat : j > n => BiTail(a, j) = BiTail(b, j)
  BY <1>2, BiTailIs
<1>4. n \in S
  BY <1>2, <1>3
<1>5. \A k \in 1 .. n : k \in S => k - 1 \in S
  <2> SUFFICES ASSUME NEW k \in 1 .. n, k \in S, k >= m PROVE BiTail(a, k) = BiTail(b, k)
    BY <1>2
  <2>1. k \in Nat \ {0} /\ k + 1 >= m
    BY <1>2
  <2>2. BiTail(a, k + 1) = BiTail(b, k + 1)
    BY <2>1
  <2>3. Limb(a, k) = Limb(b, k)
    BY <2>1
  <2> QED BY <2>1, <2>2, <2>3, BiTailIs, Zenon
<1> HIDE DEF S
<1>6. \A k \in 0 .. n : k \in S
  BY <1>2, <1>4, <1>5, BiDown
<1> SUFFICES ASSUME NEW j \in Nat, j >= m PROVE BiTail(a, j) = BiTail(b, j)
  OBVIOUS
<1>7. CASE j > n
  BY <1>3, <1>7
<1>8. CASE ~ (j > n)
  <2>1. j - 1 \in 0 .. n /\ (j - 1) + 1 = j
    BY <1>2, <1>8
  <2>2. j - 1 \in S
    BY <2>1, <1>6
  <2> QED BY <2>1, <2>2 DEF S
<1> QED BY <1>7, <1>8

\* What is less from a place on is less.
LEMMA BiLessFrom ==
  ASSUME Assumptions, NEW a \in BiLimbs, NEW b \in BiLimbs,
         NEW m \in Nat \ {0}, BiTail(a, m) < BiTail(b, m)
  PROVE  \A i \in 1 .. m : BiTail(a, i) < BiTail(b, i)
<1> DEFINE n == m - 1
           S == {k \in 0 .. n : BiTail(a, k + 1) < BiTail(b, k + 1)}
<1>1. n \in Nat /\ n + 1 = m /\ n \in 0 .. n
  OBVIOUS
<1> HIDE DEF n
<1>2. n \in S
  BY <1>1
<1>3. \A k \in 1 .. n : k \in S => k - 1 \in S
  <2> SUFFICES ASSUME NEW k \in 1 .. n, k \in S PROVE BiTail(a, k) < BiTail(b, k)
    BY <1>1
  <2>1. k \in Nat \ {0}
    BY <1>1
  <2> DEFINE p == BiTail(a, k + 1)
             q == BiTail(b, k + 1)
             d == Limb(a, k)
             e == Limb(b, k)
  <2>2. p < q
    OBVIOUS
  <2>3. p \in Nat /\ q \in Nat /\ BiTail(a, k) = d + Base * p /\ BiTail(b, k) = e + Base * q
    BY <2>1, BiTailIs
  <2>4. d \in BiDigits /\ e \in BiDigits
    BY BiLimb
  <2> HIDE DEF p, q, d, e
  <2>5. Base * p + Base <= Base * q /\ Base * p \in Nat /\ Base * q \in Nat
    BY <2>2, <2>3, BiScale
  <2>6. d + Base * p < e + Base * q
    BY <2>4, <2>5, BiBase DEF BiDigits
  <2> QED BY <2>3, <2>6
<1> HIDE DEF S
<1>4. \A k \in 0 .. n : k \in S
  BY <1>1, <1>2, <1>3, BiDown
<1> SUFFICES ASSUME NEW i \in 1 .. m PROVE BiTail(a, i) < BiTail(b, i)
  OBVIOUS
<1>5. i - 1 \in 0 .. n /\ (i - 1) + 1 = i
  BY <1>1
<1>6. i - 1 \in S
  BY <1>4, <1>5
<1> QED BY <1>5, <1>6 DEF S

-----------------------------------------------------------------------------
(* Limbs without zeros at the end are compared as integers are.                *)

BiFull(a) == Len(a) # 0 => a[Len(a)] # 0

LEMMA BiEmpty ==
  ASSUME Assumptions
  PROVE  /\ <<>> \in BiLimbs /\ BiFull(<<>>) /\ Len(<<>>) = 0 /\ Magnitude(<<>>) = 0
         /\ \A i : BiTail(<<>>, i) = 0
<1>1. <<>> \in BiLimbs /\ Len(<<>>) = 0
  BY DEF BiLimbs
<1>2. \A i : BiTail(<<>>, i) = 0
  BY <1>1, BiTailIs
<1>3. Magnitude(<<>>) = 0
  BY <1>1, <1>2, BiTailIs
<1> QED BY <1>1, <1>2, <1>3 DEF BiFull

\* The highest limb is not zero, so nothing up to it is.
LEMMA BiPositive ==
  ASSUME Assumptions, NEW a \in BiLimbs, BiFull(a)
  PROVE  \A i \in 1 .. Len(a) : BiTail(a, i) > 0
<1> DEFINE n == Len(a)
<1> SUFFICES ASSUME NEW i \in 1 .. n PROVE BiTail(a, i) > 0
  OBVIOUS
<1>1. n \in Nat \ {0} /\ n \in 1 .. n
  BY BiLimb
<1>2. a[n] \in BiDigits /\ a[n] # 0 /\ Limb(a, n) = a[n]
  BY <1>1, BiLimb DEF BiFull
<1>3. n + 1 \notin 1 .. n
  BY <1>1
<1>4. BiTail(a, n) = a[n] + Base * 0
  <2>1. BiTail(a, n + 1) = 0 /\ BiTail(a, n) = Limb(a, n) + Base * BiTail(a, n + 1)
    BY <1>1, <1>3, BiTailIs
  <2> QED BY <2>1, <1>2
<1>5. BiTail(a, n) > 0
  <2>1. a[n] \in Nat
    BY <1>2, BiBase
  <2>2. Base * 0 = 0
    BY BiBase
  <2> QED BY <2>1, <2>2, <1>2, <1>4
<1>6. BiTail(<<>>, n) < BiTail(a, n) /\ BiTail(<<>>, i) = 0 /\ <<>> \in BiLimbs
  BY <1>5, BiEmpty
<1> HIDE DEF n
<1>7. BiTail(<<>>, i) < BiTail(a, i)
  BY <1>1, <1>6, BiLessFrom
<1>8. BiTail(a, i) \in Nat
  BY BiTailIs
<1> QED BY <1>6, <1>7, <1>8

\* What compares as less stands for less: the longer one has a limb more that is not
\* zero, and of the same length the highest limb that differs decides.
LEMMA BiLessIs ==
  ASSUME Assumptions, NEW a \in BiLimbs,
         NEW b \in BiLimbs, BiFull(a), BiFull(b), LessThan(a, b)
  PROVE  Magnitude(a) < Magnitude(b)
<1>1. /\ Len(a) \in Nat /\ Len(b) \in Nat /\ DOMAIN a = 1 .. Len(a)
      /\ Magnitude(a) = BiTail(a, 1) /\ Magnitude(b) = BiTail(b, 1)
  BY BiLimb, BiTailIs
<1>2. CASE Len(a) < Len(b)
  <2> DEFINE m == Len(b)
  <2>1. m \in Nat \ {0} /\ m \in 1 .. m /\ 1 \in 1 .. m /\ m \notin 1 .. Len(a)
    BY <1>1, <1>2
  <2>2. BiTail(a, m) = 0 /\ BiTail(b, m) > 0
    BY <2>1, BiTailIs, BiPositive
  <2> HIDE DEF m
  <2>3. BiTail(a, m) < BiTail(b, m)
    BY <2>2
  <2>4. BiTail(a, 1) < BiTail(b, 1)
    BY <2>1, <2>3, BiLessFrom
  <2> QED BY <2>4, <1>1
<1>3. CASE ~ (Len(a) < Len(b))
  <2>1. PICK i \in 1 .. Len(a) : a[i] < b[i] /\ \A j \in (i + 1) .. Len(a) : a[j] = b[j]
    BY <1>1, <1>3, Zenon DEF LessThan
  <2>2. Len(a) = Len(b)
    BY <1>3, Zenon DEF LessThan
  <2>3. /\ \A j \in 1 .. Len(a) : Limb(a, j) = a[j] /\ Limb(b, j) = b[j]
        /\ \A j : j \notin 1 .. Len(a) => Limb(a, j) = 0 /\ Limb(b, j) = 0
    BY <2>2, BiLimb
  <2>4. \A j \in Nat : j >= i + 1 => j \in (i + 1) .. Len(a) \/ j \notin 1 .. Len(a)
    BY <1>1
  <2>5. \A j \in Nat : j >= i + 1 => Limb(a, j) = Limb(b, j)
    <3> SUFFICES ASSUME NEW j \in Nat, j >= i + 1 PROVE Limb(a, j) = Limb(b, j)
      OBVIOUS
    <3>1. CASE j \in (i + 1) .. Len(a)
      <4>1. j \in 1 .. Len(a)
        BY <3>1
      <4> QED BY <3>1, <4>1, <2>1, <2>3
    <3>2. CASE j \notin 1 .. Len(a)
      BY <3>2, <2>3
    <3> QED BY <3>1, <3>2, <2>4
  <2>6. i \in Nat \ {0} /\ i + 1 \in Nat \ {0} /\ i + 1 >= i + 1 /\ 1 \in 1 .. i
    OBVIOUS
  <2>7. BiTail(a, i + 1) = BiTail(b, i + 1)
    BY <2>5, <2>6, BiSame
  <2>8. /\ BiTail(a, i) = a[i] + Base * BiTail(a, i + 1)
        /\ BiTail(b, i) = b[i] + Base * BiTail(a, i + 1)
    BY <2>3, <2>6, <2>7, BiTailIs
  <2>9. a[i] \in Nat /\ b[i] \in Nat /\ Base * BiTail(a, i + 1) \in Nat
    BY <2>2, BiLimb, BiBase, BiTailIs, BiScale
  <2>10. BiTail(a, i) < BiTail(b, i)
    BY <2>1, <2>8, <2>9
  <2>11. BiTail(a, 1) < BiTail(b, 1)
    BY <2>6, <2>10, BiLessFrom
  <2> QED BY <2>11, <1>1
<1> QED BY <1>2, <1>3

\* Of two that differ, one is less: at the highest limb in which they do.
LEMMA BiTrichotomy ==
  ASSUME Assumptions, NEW a \in BiLimbs, NEW b \in BiLimbs, a # b
  PROVE  LessThan(a, b) \/ LessThan(b, a)
<1>1. /\ Len(a) \in Nat /\ Len(b) \in Nat /\ DOMAIN a = 1 .. Len(a)
      /\ DOMAIN b = 1 .. Len(b)
      /\ \A i \in 1 .. Len(a) : a[i] \in Nat
      /\ \A i \in 1 .. Len(b) : b[i] \in Nat
  BY BiLimb, BiBase
<1>2. CASE Len(a) # Len(b)
  <2>1. Len(a) < Len(b) \/ Len(b) < Len(a)
    <3>1. \A p, q \in Nat : p # q => p < q \/ q < p
      OBVIOUS
    <3> QED BY <3>1, <1>1, <1>2, Zenon
  <2> QED BY <2>1, Zenon DEF LessThan
<1>3. CASE Len(a) = Len(b)
  <2> DEFINE n == Len(a)
             U == {n - i : i \in {j \in 1 .. n : a[j] # b[j]}}
  <2>1. U \in SUBSET Nat
    BY <1>1
  <2>2. U # {}
    <3> SUFFICES ASSUME \A i \in 1 .. n : a[i] = b[i] PROVE FALSE
      OBVIOUS
    <3> QED BY <1>1, <1>3, SeqEqual DEF BiLimbs
  <2>3. PICK m \in U : \A k \in U : m <= k
    <3> HIDE DEF U
    <3> QED BY <2>1, <2>2, BiLeast
  <2>4. PICK i \in 1 .. n : m = n - i /\ a[i] # b[i]
    OBVIOUS
  <2>5. ASSUME NEW j \in (i + 1) .. n PROVE a[j] = b[j]
    <3> SUFFICES ASSUME a[j] # b[j] PROVE FALSE
      OBVIOUS
    <3>1. j \in 1 .. n
      BY <1>1
    <3>2. n - j \in U
      BY <3>1
    <3>3. m <= n - j
      BY <3>2, <2>3
    <3> QED BY <3>3, <2>4, <1>1
  <2>6. a[i] < b[i] \/ b[i] < a[i]
    <3>1. a[i] \in Nat /\ b[i] \in Nat
      BY <1>1, <1>3
    <3> QED BY <3>1, <2>4
  <2>7. i \in DOMAIN a /\ i \in DOMAIN b
    BY <1>1, <1>3
  <2> HIDE DEF U
  <2> QED BY <2>5, <2>6, <2>7, <1>3 DEF LessThan
<1> QED BY <1>2, <1>3

\* Comparing limbs is comparing what they stand for, and that determines the limbs.
LEMMA BiLess ==
  ASSUME Assumptions, NEW a \in BiLimbs, NEW b \in BiLimbs, BiFull(a), BiFull(b)
  PROVE  /\ LessThan(a, b) <=> Magnitude(a) < Magnitude(b)
         /\ Magnitude(a) = Magnitude(b) => a = b
<1>1. Magnitude(a) \in Nat /\ Magnitude(b) \in Nat
  BY BiTailIs
<1>2. LessThan(a, b) => Magnitude(a) < Magnitude(b)
  BY BiLessIs
<1>3. LessThan(b, a) => Magnitude(b) < Magnitude(a)
  BY BiLessIs
<1>4. a = b \/ LessThan(a, b) \/ LessThan(b, a)
  BY BiTrichotomy
<1>5. a = b => Magnitude(a) = Magnitude(b)
  OBVIOUS
<1> QED BY <1>1, <1>2, <1>3, <1>4, <1>5

\* Zeros at the end are dropped, and nothing else changes.
LEMMA BiTrimmed ==
  ASSUME Assumptions, NEW a \in BiLimbs
  PROVE  /\ Trimmed(a) \in BiLimbs /\ BiFull(Trimmed(a))
         /\ Magnitude(Trimmed(a)) = Magnitude(a)
         /\ BiFull(a) => Trimmed(a) = a
<1> DEFINE n == Len(a)
           P(m) == (m # 0 => a[m] # 0) /\ \A i \in (m + 1) .. n : a[i] = 0
           U == {m \in 0 .. n : \A i \in (m + 1) .. n : a[i] = 0}
           k == CHOOSE m \in 0 .. n : P(m)
           t == SubSeq(a, 1, k)
<1>1. n \in Nat /\ DOMAIN a = 1 .. n /\ \A i \in 1 .. n : a[i] \in BiDigits
  BY BiLimb
<1> HIDE DEF n
<1>2. PICK m \in U : \A l \in U : m <= l
  <2>1. n \in U
    BY <1>1
  <2>2. U \in SUBSET Nat
    BY <1>1
  <2> HIDE DEF U
  <2> QED BY <2>1, <2>2, BiLeast
<1>3. m # 0 => a[m] # 0
  <2> SUFFICES ASSUME m # 0, a[m] = 0 PROVE FALSE
    OBVIOUS
  <2>1. m \in 0 .. n /\ \A i \in (m + 1) .. n : a[i] = 0
    OBVIOUS
  <2>2. m - 1 \in 0 .. n /\ ~ (m <= m - 1)
    BY <2>1, <1>1
  <2>3. \A i \in ((m - 1) + 1) .. n : i = m \/ i \in (m + 1) .. n
    BY <2>1, <1>1
  <2>4. m - 1 \in U
    BY <2>1, <2>2, <2>3
  <2> HIDE DEF U
  <2> QED BY <1>2, <2>2, <2>4
<1>4. \E l \in 0 .. n : P(l)
  BY <1>3
<1>5. k \in 0 .. n /\ P(k)
  <2> HIDE DEF P
  <2> QED BY <1>4, Zenon
<1>6. Trimmed(a) = t
  BY Zenon DEF Trimmed, n
<1> HIDE DEF k
<1>7. t \in BiLimbs /\ Len(t) = k /\ \A i \in 1 .. k : t[i] = a[i]
  <2>1. a \in Seq(BiDigits) /\ 1 \in 1 .. (n + 1) /\ k \in 0 .. Len(a) /\ k \in Nat
    BY <1>1, <1>5 DEF BiLimbs, n
  <2>2. \A i \in 1 .. k : a[i] \in BiDigits
    BY <1>1, <1>5
  <2>3. t = [i \in 1 .. k |-> a[i]]
    BY <2>1, SMT
  <2>4. t \in [1 .. k -> BiDigits]
    BY <2>2, <2>3
  <2>5. t \in Seq(BiDigits) /\ Len(t) = k
    BY <2>1, <2>4, SeqDef, LenProperties
  <2> QED BY <2>3, <2>5 DEF BiLimbs
<1> HIDE DEF t
<1>8. \A j \in Nat : j >= 1 => Limb(t, j) = Limb(a, j)
  <2> SUFFICES ASSUME NEW j \in Nat, j >= 1 PROVE Limb(t, j) = Limb(a, j)
    OBVIOUS
  <2>1. CASE j \in 1 .. k
    <3>1. j \in 1 .. n
      BY <2>1, <1>1, <1>5
    <3> QED BY <2>1, <3>1, <1>7, BiLimb DEF n
  <2>2. CASE j \in (k + 1) .. n
    <3>1. j \notin 1 .. k /\ j \in 1 .. n
      BY <2>2, <1>1, <1>5
    <3>2. a[j] = 0
      BY <2>2, <1>5
    <3> QED BY <3>1, <3>2, <1>7, BiLimb DEF n
  <2>3. CASE j > n
    <3>1. j \notin 1 .. k /\ j \notin 1 .. n
      BY <2>3, <1>1, <1>5
    <3> QED BY <3>1, <1>7, BiLimb DEF n
  <2> QED BY <2>1, <2>2, <2>3, <1>1, <1>5
<1>9. BiTail(t, 1) = BiTail(a, 1)
  <2>1. 1 \in Nat \ {0} /\ 1 >= 1
    OBVIOUS
  <2> QED BY <2>1, <1>7, <1>8, BiSame
<1>10. Magnitude(t) = Magnitude(a)
  BY <1>7, <1>9, BiTailIs
<1>11. BiFull(t)
  <2> SUFFICES ASSUME k # 0 PROVE t[k] # 0
    BY <1>7 DEF BiFull
  <2>1. k \in 1 .. k
    BY <1>1, <1>5
  <2> QED BY <2>1, <1>5, <1>7
<1>12. ASSUME BiFull(a) PROVE t = a
  BY <1>7, <1>10, <1>11, <1>12, BiLess
<1> QED BY <1>6, <1>7, <1>10, <1>11, <1>12

-----------------------------------------------------------------------------
(* Limb by limb: division by the base gives a limb and a carry.                *)

\* A place keeps what is less than the base and carries the rest.
LEMMA BiCarry ==
  ASSUME Assumptions, NEW s \in Nat
  PROVE  /\ (s % Base) \in BiDigits /\ (s \div Base) \in Nat
         /\ s = (s % Base) + Base * (s \div Base)
         /\ \A c \in Nat : s < Base * c => (s \div Base) < c
<1>1. /\ (s % Base) \in 0 .. (Base - 1) /\ (s \div Base) \in Nat
      /\ s = (s % Base) + Base * (s \div Base)
  <2>1. Base \in Nat \ {0} /\ s \in Int /\ s >= 0
    BY BiBase
  <2> QED BY <2>1, BiEuclid, Zenon
<1>2. ASSUME NEW c \in Nat, s < Base * c PROVE (s \div Base) < c
  <2> DEFINE q == s \div Base
  <2>1. q \in Nat /\ s >= Base * q
    <3>1. Base * q \in Nat
      BY <1>1, BiScale
    <3> QED BY <1>1, <3>1
  <2> HIDE DEF q
  <2>2. c < q => Base * c + Base <= Base * q
    BY <2>1, BiScale
  <2>3. Base * c \in Nat /\ Base * q \in Nat
    BY <2>1, BiScale
  <2>4. c # q
    BY <1>2, <2>1, <2>3
  <2>5. ~ (c < q)
    BY <1>2, <2>1, <2>2, <2>3, BiBase
  <2> QED BY <2>1, <2>4, <2>5 DEF q
<1> QED BY <1>1, <1>2 DEF BiDigits

\* A place that is short of its due borrows one base.
LEMMA BiBorrow ==
  ASSUME Assumptions, NEW s \in Int, -Base <= s, s < Base
  PROVE  /\ (s % Base) \in BiDigits
         /\ s < 0 => s = (s % Base) - Base
         /\ s >= 0 => s = (s % Base)
<1> DEFINE q == s \div Base
           r == s % Base
<1>1. r \in 0 .. (Base - 1) /\ q \in Int /\ s = r + Base * q /\ (s >= 0 => q \in Nat)
  <2>1. Base \in Nat \ {0}
    BY BiBase
  <2> QED BY <2>1, BiEuclid, Zenon
<1> HIDE DEF q, r
<1>2. \A i \in Nat : i > 0 => Base * i >= Base
  <2> SUFFICES ASSUME NEW i \in Nat, i > 0 PROVE Base * i >= Base
    OBVIOUS
  <2>1. Base * 0 + Base <= Base * i /\ Base * 0 = 0
    BY BiScale, BiBase
  <2> QED BY <2>1, BiBase
\* The quotient is 0 or -1.
<1>3. CASE q \in Nat
  <2>1. q = 0
    <3> SUFFICES ASSUME q > 0 PROVE FALSE
      BY <1>3
    <3>1. Base * q >= Base /\ Base * q \in Nat
      BY <1>2, <1>3, BiScale
    <3> DEFINE y == Base * q
    <3>2. y >= Base /\ y \in Nat /\ s = r + y
      BY <3>1, <1>1
    <3> HIDE DEF y
    <3> QED BY <3>2, <1>1, BiBase
  <2>2. Base * q = 0
    BY <2>1, BiBase
  <2>3. s = r
    BY <2>2, <1>1, BiBase
  <2> QED BY <2>3, <1>1, BiBase DEF r, BiDigits
<1>4. CASE q \notin Nat
  <2> DEFINE i == -q
  <2>1. i \in Nat /\ i > 0 /\ Base * q = -(Base * i)
    <3>1. i \in Nat /\ i > 0
      BY <1>1, <1>4
    <3>2. Base * q = -(Base * i)
      BY <1>1, BiBase
    <3> QED BY <3>1, <3>2
  <2>2. s < 0
    BY <1>1, <1>4
  <2> HIDE DEF i
  <2>3. i = 1
    <3> SUFFICES ASSUME i > 1 PROVE FALSE
      BY <2>1
    <3>1. Base * 1 + Base <= Base * i /\ Base * 1 = Base /\ Base * i \in Nat
      BY <2>1, BiScale, BiBase
    <3> DEFINE y == Base * i
    <3>2. Base + Base <= y /\ y \in Nat /\ s = r - y
      <4>1. r \in Int
        BY <1>1, BiBase
      <4>2. Base + Base <= y /\ y \in Nat
        BY <3>1
      <4>3. s = r + (-y)
        BY <1>1, <2>1
      <4> HIDE DEF y
      <4> QED BY <4>1, <4>2, <4>3
    <3> HIDE DEF y
    <3> QED BY <3>2, <1>1, BiBase
  <2>4. Base * i = Base
    BY <2>3, BiBase
  <2>5. s = r - Base
    BY <2>1, <2>4, <1>1, BiBase
  <2> QED BY <2>2, <2>5, <1>1 DEF r, BiDigits
<1> QED BY <1>3, <1>4

-----------------------------------------------------------------------------
(* Sums.                                                                       *)

-----------------------------------------------------------------------------
(* Sums.                                                                   *)

LEMMA BiCarries ==
  ASSUME Assumptions, NEW a \in BiLimbs, NEW b \in BiLimbs
  PROVE  /\ Carries(a, b) \in [0 .. LongerOf(a, b) -> {0, 1}] /\ Carries(a, b)[0] = 0
         /\ \A i \in 1 .. LongerOf(a, b) :
              Carries(a, b)[i] = (Limb(a, i) + Limb(b, i) + Carries(a, b)[i - 1]) \div Base
<1> DEFINE n == LongerOf(a, b)
           T == {0, 1}
           e == 0
           Step(i, t) == (Limb(a, i) + Limb(b, i) + t) \div Base
           F == [i \in 1 .. n |-> [t \in T |-> Step(i, t)]]
           P(g) == g = [i \in 0 .. n |-> IF i = 0 THEN 0
               ELSE (Limb(a, i) + Limb(b, i) + g[i - 1]) \div Base]
           H == Carries(a, b)
<1>1. n \in Nat /\ e \in T
  BY BiLimb DEF LongerOf
<1>2. \A i \in 1 .. n, t \in T : Step(i, t) \in T
  <2> SUFFICES ASSUME NEW i \in 1 .. n, NEW t \in {0, 1} PROVE Step(i, t) \in {0, 1}
    OBVIOUS
  <2> DEFINE s == Limb(a, i) + Limb(b, i) + t
  <2>1. Limb(a, i) \in BiDigits /\ Limb(b, i) \in BiDigits
    BY BiLimb
  <2>2. s \in Nat /\ s < Base * 2
    BY <2>1, BiBase DEF BiDigits
  <2> HIDE DEF s
  <2>3. (s \div Base) \in Nat /\ (s \div Base) < 2
    BY <2>2, BiCarry
  <2>4. (s \div Base) \in {0, 1}
    BY <2>3
  <2> QED BY <2>4 DEF s
<1>3. H = CHOOSE h : P(h)
  BY Zenon DEF Carries, n
<1> HIDE DEF n, T, e, Step, H
<1>4. F \in [1 .. n -> [T -> T]]
  BY <1>2
<1>5. \A i \in 1 .. n, t \in T : F[i][t] = Step(i, t)
  OBVIOUS
<1> HIDE DEF F
<1>6. PICK g \in [0 .. n -> T] : g[0] = e /\ \A i \in 1 .. n : g[i] = F[i][g[i - 1]]
  <2>1. n \in Nat /\ e \in T
    BY <1>1
  <2>2. BiRuns(n, T, e, F) # {}
    BY <2>1, <1>4, BiDefined, Zenon
  <2> QED BY <2>2 DEF BiRuns
<1>7. P(g)
  <2>1. \A i \in 1 .. n : i - 1 \in 0 .. n
    BY <1>1
  <2>2. \A i \in 1 .. n : g[i] = Step(i, g[i - 1])
    BY <2>1, <1>5, <1>6
  <2>3. \A i \in 0 .. n : i = 0 \/ (i \in 1 .. n /\ i # 0)
    BY <1>1
  <2>4. \A i \in 0 .. n : g[i] = IF i = 0 THEN 0
            ELSE (Limb(a, i) + Limb(b, i) + g[i - 1]) \div Base
    BY <2>2, <2>3, <1>6 DEF Step, e
  <2> QED BY <2>4, <1>6, Zenon
<1>8. P(H)
  <2> HIDE DEF P
  <2> QED BY <1>3, <1>7, Zenon
<1>9. H[0] = e /\ \A i \in 1 .. n : H[i] = Step(i, H[i - 1])
  <2>1. 0 \in 0 .. n /\ \A i \in 1 .. n : i \in 0 .. n /\ i # 0
    BY <1>1
  <2>2. \A i \in 0 .. n : H[i] = IF i = 0 THEN 0
            ELSE (Limb(a, i) + Limb(b, i) + H[i - 1]) \div Base
    BY <1>8, Zenon
  <2> QED BY <2>1, <2>2 DEF Step, e
<1> DEFINE S == {i \in 0 .. n : H[i] \in T}
<1>10. 0 \in S /\ \A i \in 1 .. n : i - 1 \in S => i \in S
  <2>1. 0 \in S
    BY <1>1, <1>9
  <2>2. ASSUME NEW i \in 1 .. n, i - 1 \in S PROVE i \in S
    <3>1. Step(i, H[i - 1]) \in T
      BY <2>2, <1>2
    <3> QED BY <3>1, <1>1, <1>9
  <2> QED BY <2>1, <2>2
<1> HIDE DEF S
<1>11. \A i \in 0 .. n : i \in S
  <2>1. n \in Nat
    BY <1>1
  <2> QED BY <2>1, <1>10, BiUp
<1>12. \A i \in 0 .. n : H[i] \in T
  BY <1>11 DEF S
<1>13. H \in [0 .. n -> T]
  <2>1. H = [i \in 0 .. n |-> H[i]]
    BY <1>8
  <2> HIDE DEF P
  <2> QED BY <2>1, <1>12
<1> QED BY <1>9, <1>13, Zenon DEF n, T, e, H, Step

\* The sum from a place on is that of the operands, with the carry into it.
LEMMA BiAdd ==
  ASSUME Assumptions, NEW a \in BiLimbs, NEW b \in BiLimbs
  PROVE  /\ add_unsigned(a, b) \in BiLimbs
         /\ Magnitude(add_unsigned(a, b)) = Magnitude(a) + Magnitude(b)
<1> DEFINE n == LongerOf(a, b)
           carry == Carries(a, b)
           sum == [i \in 1 .. n |-> (Limb(a, i) + Limb(b, i) + carry[i - 1]) % Base]
           s == add_unsigned(a, b)
<1>1. /\ n \in Nat /\ \A i \in Nat : i > n => i \notin 1 .. Len(a) /\ i \notin 1 .. Len(b)
      /\ n \in 0 .. n
  BY BiLimb DEF LongerOf
<1>2. /\ carry \in [0 .. n -> {0, 1}] /\ carry[0] = 0
      /\ \A i \in 1 .. n : carry[i] = (Limb(a, i) + Limb(b, i) + carry[i - 1]) \div Base
  BY BiCarries
<1>3. s = IF carry[n] > 0 THEN Append(sum, carry[n]) ELSE sum
  BY Zenon DEF add_unsigned
<1> HIDE DEF n, carry, s
<1>4. ASSUME NEW i \in 1 .. n
      PROVE  /\ (Limb(a, i) + Limb(b, i) + carry[i - 1]) % Base \in BiDigits
             /\ Limb(a, i) + Limb(b, i) + carry[i - 1]
                  = ((Limb(a, i) + Limb(b, i) + carry[i - 1]) % Base) + Base * carry[i]
  <2> DEFINE t == Limb(a, i) + Limb(b, i) + carry[i - 1]
  <2>1. Limb(a, i) \in Nat /\ Limb(b, i) \in Nat
    BY BiLimb, BiBase
  <2>2. i - 1 \in 0 .. n /\ carry[i - 1] \in Nat
    BY <1>1, <1>2
  <2>3. t \in Nat
    BY <2>1, <2>2
  <2>4. carry[i] = t \div Base
    BY <1>2
  <2> HIDE DEF t
  <2>5. (t % Base) \in BiDigits /\ t = (t % Base) + Base * carry[i]
    BY <2>3, <2>4, BiCarry
  <2> QED BY <2>5 DEF t
<1>5. sum \in Seq(BiDigits) /\ Len(sum) = n
  BY <1>1, <1>4
<1>6. carry[n] \in {0, 1} /\ {0, 1} \subseteq BiDigits
  BY <1>1, <1>2, BiBase DEF BiDigits
<1>7. /\ s \in BiLimbs /\ \A i \in 1 .. n : Limb(s, i) = sum[i]
      /\ Limb(s, n + 1) = carry[n] /\ \A i \in Nat : i > n + 1 => i \notin 1 .. Len(s)
  <2> HIDE DEF sum
  <2>1. CASE carry[n] > 0
    <3>1. s = Append(sum, carry[n]) /\ carry[n] \in BiDigits
      BY <2>1, <1>3, <1>6
    <3>2. /\ s \in Seq(BiDigits) /\ Len(s) = n + 1 /\ s[n + 1] = carry[n]
          /\ \A i \in 1 .. n : s[i] = sum[i]
      BY <3>1, <1>5, AppendProperties
    <3>3. s \in BiLimbs
      BY <3>2 DEF BiLimbs
    <3>4. n + 1 \in 1 .. (n + 1) /\ \A i \in 1 .. n : i \in 1 .. (n + 1)
      BY <1>1
    <3>5. \A i \in Nat : i > n + 1 => i \notin 1 .. (n + 1)
      BY <1>1
    <3> QED BY <3>2, <3>3, <3>4, <3>5, BiLimb
  <2>2. CASE ~ (carry[n] > 0)
    <3>1. s = sum /\ carry[n] = 0
      BY <2>2, <1>3, <1>6
    <3>2. s \in BiLimbs /\ Len(s) = n
      BY <3>1, <1>5 DEF BiLimbs
    <3>3. \A i \in Nat : i > n => i \notin 1 .. n
      BY <1>1
    <3>4. n + 1 \in Nat /\ n + 1 > n /\ \A i \in Nat : i > n + 1 => i > n
      BY <1>1
    <3> QED BY <3>1, <3>2, <3>3, <3>4, BiLimb
  <2> QED BY <2>1, <2>2
<1> DEFINE S == {k \in 0 .. n : BiTail(s, k + 1) = BiTail(a, k + 1) + BiTail(b,
               k + 1) + carry[k]}
<1>8. n \in S
  <2>1. n + 1 \in Nat \ {0} /\ n + 1 > n /\ (n + 1) + 1 > n + 1 /\ (n + 1) + 1 \in Nat
    BY <1>1
  <2>2. BiTail(a, n + 1) = 0 /\ BiTail(b, n + 1) = 0
    BY <2>1, <1>1, BiTailIs
  <2>3. BiTail(s, (n + 1) + 1) = 0
    BY <2>1, <1>7, BiTailIs
  <2>4. BiTail(s, n + 1) = carry[n] + Base * 0
    BY <2>1, <2>3, <1>7, BiTailIs
  <2>5. Base * 0 = 0 /\ carry[n] \in Nat
    BY <1>6, BiBase
  <2>6. BiTail(s, n + 1) = BiTail(a, n + 1) + BiTail(b, n + 1) + carry[n]
    BY <2>2, <2>4, <2>5
  <2> QED BY <2>6, <1>1
<1>9. \A k \in 1 .. n : k \in S => k - 1 \in S
  <2> SUFFICES ASSUME NEW k \in 1 .. n, k \in S
               PROVE  BiTail(s, k) = BiTail(a, k) + BiTail(b, k) + carry[k - 1]
    BY <1>1
  <2> DEFINE A == Limb(a, k)
             B == Limb(b, k)
             D == (Limb(a, k) + Limb(b, k) + carry[k - 1]) % Base
             p == BiTail(a, k + 1)
             q == BiTail(b, k + 1)
             c == carry[k]
             was == carry[k - 1]
  <2>1. k \in Nat \ {0} /\ k - 1 \in 0 .. n /\ k \in 0 .. n
    BY <1>1
  <2>2. BiTail(s, k + 1) = p + q + c
    OBVIOUS
  <2>3. BiTail(a, k) = A + Base * p /\ BiTail(b, k) = B + Base * q /\ p \in Nat /\ q \in Nat
    BY <2>1, BiTailIs
  <2>4. BiTail(s, k) = D + Base * (p + q + c)
    BY <2>1, <2>2, <1>7, BiTailIs
  <2>5. A + B + was = D + Base * c /\ D \in Nat
    BY <1>4, BiBase
  <2>6. A \in Nat /\ B \in Nat /\ c \in Nat /\ was \in Nat
    <3>1. A \in Nat /\ B \in Nat
      BY BiLimb, BiBase
    <3>2. c \in {0, 1} /\ was \in {0, 1}
      BY <2>1, <1>2
    <3> QED BY <3>1, <3>2
  <2> HIDE DEF A, B, D, p, q, c, was
  <2>7. Base * (p + q + c) = Base * p + Base * q + Base * c
    BY <2>3, <2>6, BiBase
  <2>8. Base * p \in Nat /\ Base * q \in Nat /\ Base * c \in Nat
    BY <2>3, <2>6, BiScale
  <2>9. BiTail(s, k) = (A + Base * p) + (B + Base * q) + was
    BY <2>4, <2>5, <2>6, <2>7, <2>8
  <2> QED BY <2>3, <2>9 DEF was
<1> HIDE DEF S
<1>10. \A k \in 0 .. n : k \in S
  BY <1>1, <1>8, <1>9, BiDown
<1>11. BiTail(s, 1) = BiTail(a, 1) + BiTail(b, 1) + carry[0]
  <2>1. 0 \in S /\ 0 + 1 = 1
    BY <1>1, <1>10
  <2> QED BY <2>1 DEF S
<1>12. Magnitude(s) = Magnitude(a) + Magnitude(b)
  <2>1. BiTail(a, 1) \in Nat /\ BiTail(b, 1) \in Nat
    BY BiTailIs
  <2>2. /\ Magnitude(s) = BiTail(s, 1) /\ Magnitude(a) = BiTail(a, 1)
        /\ Magnitude(b) = BiTail(b, 1)
    BY <1>7, BiTailIs
  <2> QED BY <2>1, <2>2, <1>2, <1>11
<1> QED BY <1>7, <1>12 DEF s

-----------------------------------------------------------------------------
(* Differences: of limbs that are not less, in which the last limb does not    *)
(* borrow.                                                                     *)

-----------------------------------------------------------------------------
(* Differences.                                                            *)

LEMMA BiBorrowed ==
  ASSUME Assumptions, NEW a \in BiLimbs, NEW b \in BiLimbs
  PROVE  /\ Borrowed(a, b) \in [0 .. Len(a) -> {0, 1}] /\ Borrowed(a, b)[0] = 0
         /\ \A i \in 1 .. Len(a) :
              Borrowed(a, b)[i] = Borrows(Limb(a, i), Limb(b, i), Borrowed(a, b)[i - 1])
<1> DEFINE n == Len(a)
           T == {0, 1}
           e == 0
           Step(i, t) == Borrows(Limb(a, i), Limb(b, i), t)
           F == [i \in 1 .. n |-> [t \in T |-> Step(i, t)]]
           P(g) == g = [i \in 0 .. n |-> IF i = 0 THEN 0
               ELSE Borrows(Limb(a, i), Limb(b, i), g[i - 1])]
           H == Borrowed(a, b)
<1>1. n \in Nat /\ e \in T
  BY BiLimb
<1>2. \A i \in 1 .. n, t \in T : Step(i, t) \in T
  BY DEF Borrows
<1>3. H = CHOOSE h : P(h)
  BY Zenon DEF Borrowed, n
<1> HIDE DEF n, T, e, Step, H
<1>4. F \in [1 .. n -> [T -> T]]
  BY <1>2
<1>5. \A i \in 1 .. n, t \in T : F[i][t] = Step(i, t)
  OBVIOUS
<1> HIDE DEF F
<1>6. PICK g \in [0 .. n -> T] : g[0] = e /\ \A i \in 1 .. n : g[i] = F[i][g[i - 1]]
  <2>1. n \in Nat /\ e \in T
    BY <1>1
  <2>2. BiRuns(n, T, e, F) # {}
    BY <2>1, <1>4, BiDefined, Zenon
  <2> QED BY <2>2 DEF BiRuns
<1>7. P(g)
  <2>1. \A i \in 1 .. n : i - 1 \in 0 .. n
    BY <1>1
  <2>2. \A i \in 1 .. n : g[i] = Step(i, g[i - 1])
    BY <2>1, <1>5, <1>6
  <2>3. \A i \in 0 .. n : i = 0 \/ (i \in 1 .. n /\ i # 0)
    BY <1>1
  <2>4. \A i \in 0 .. n : g[i] = IF i = 0 THEN 0
            ELSE Borrows(Limb(a, i), Limb(b, i), g[i - 1])
    BY <2>2, <2>3, <1>6 DEF Step, e
  <2> QED BY <2>4, <1>6, Zenon
<1>8. P(H)
  <2> HIDE DEF P
  <2> QED BY <1>3, <1>7, Zenon
<1>9. H[0] = e /\ \A i \in 1 .. n : H[i] = Step(i, H[i - 1])
  <2>1. 0 \in 0 .. n /\ \A i \in 1 .. n : i \in 0 .. n /\ i # 0
    BY <1>1
  <2>2. \A i \in 0 .. n : H[i] = IF i = 0 THEN 0
            ELSE Borrows(Limb(a, i), Limb(b, i), H[i - 1])
    BY <1>8, Zenon
  <2> QED BY <2>1, <2>2 DEF Step, e
<1> DEFINE S == {i \in 0 .. n : H[i] \in T}
<1>10. 0 \in S /\ \A i \in 1 .. n : i - 1 \in S => i \in S
  <2>1. 0 \in S
    BY <1>1, <1>9
  <2>2. ASSUME NEW i \in 1 .. n, i - 1 \in S PROVE i \in S
    <3>1. Step(i, H[i - 1]) \in T
      BY <2>2, <1>2
    <3> QED BY <3>1, <1>1, <1>9
  <2> QED BY <2>1, <2>2
<1> HIDE DEF S
<1>11. \A i \in 0 .. n : i \in S
  <2>1. n \in Nat
    BY <1>1
  <2> QED BY <2>1, <1>10, BiUp
<1>12. \A i \in 0 .. n : H[i] \in T
  BY <1>11 DEF S
<1>13. H \in [0 .. n -> T]
  <2>1. H = [i \in 0 .. n |-> H[i]]
    BY <1>8
  <2> HIDE DEF P
  <2> QED BY <2>1, <1>12
<1> QED BY <1>9, <1>13, Zenon DEF n, T, e, H, Step

\* The difference from a place on is that of the operands, less the borrow from it.
LEMMA BiSubtract ==
  ASSUME Assumptions, NEW a \in BiLimbs,
         NEW b \in BiLimbs, Len(b) <= Len(a), Magnitude(b) <= Magnitude(a)
  PROVE  /\ sub_unsigned(a, b) \in BiLimbs
         /\ Magnitude(sub_unsigned(a, b)) = Magnitude(a) - Magnitude(b)
<1> DEFINE n == Len(a)
           borrow == Borrowed(a, b)
           Under(i) == Limb(a, i) - Limb(b, i) - borrow[i - 1]
           s == sub_unsigned(a, b)
           Rest(k) == BiTail(a, k + 1) - BiTail(b, k + 1) - borrow[k]
<1>1. /\ n \in Nat /\ \A i \in Nat : i > n => i \notin 1 .. Len(a) /\ i \notin 1 .. Len(b)
      /\ n \in 0 .. n /\ 0 \in 0 .. n
  BY BiLimb
<1>2. /\ borrow \in [0 .. n -> {0, 1}] /\ borrow[0] = 0
      /\ \A i \in 1 .. n : borrow[i] = Borrows(Limb(a, i), Limb(b, i), borrow[i - 1])
  BY BiBorrowed
<1>3. s = [i \in 1 .. n |-> (a[i] - Limb(b, i) - borrow[i - 1]) % Base]
  BY Zenon DEF sub_unsigned
<1>4. \A i \in 1 .. n : Limb(a, i) = a[i]
  BY BiLimb
<1> HIDE DEF n, borrow, s
<1>5. ASSUME NEW i \in 1 .. n
      PROVE  /\ (Under(i) % Base) \in BiDigits
             /\ Under(i) = (Under(i) % Base) - Base * borrow[i]
             /\ i - 1 \in 0 .. n /\ i \in 0 .. n
  <2>1. Limb(a, i) \in BiDigits /\ Limb(b, i) \in BiDigits
    BY BiLimb
  <2>2. i - 1 \in 0 .. n /\ i \in 0 .. n /\ borrow[i - 1] \in {0, 1}
    BY <1>1, <1>2
  <2>3. Under(i) \in Int /\ -Base <= Under(i) /\ Under(i) < Base
    BY <2>1, <2>2, BiBase DEF BiDigits
  <2>4. borrow[i] = IF Under(i) < 0 THEN 1 ELSE 0
    BY <1>2, Zenon DEF Borrows
  <2> DEFINE u == Under(i)
             r == u % Base
  <2> HIDE DEF Under
  <2>5. r \in BiDigits /\ (u < 0 => u = r - Base) /\ (u >= 0 => u = r)
    BY <2>3, BiBorrow
  <2>6. Base * 1 = Base /\ Base * 0 = 0
    BY BiBase
  <2> HIDE DEF r, u
  <2>7. r \in Nat /\ (u < 0 => u = r - Base * 1) /\ (u >= 0 => u = r - Base * 0)
    <3>1. r \in Nat
      BY <2>5, BiBase
    <3> QED BY <3>1, <2>5, <2>6
  <2>8. u = r - Base * borrow[i]
    <3>1. u \in Int /\ borrow[i] = IF u < 0 THEN 1 ELSE 0
      BY <2>3, <2>4 DEF u
    <3>2. CASE u < 0
      BY <3>1, <3>2, <2>7
    <3>3. CASE u >= 0
      BY <3>1, <3>3, <2>7
    <3> QED BY <3>1, <3>2, <3>3
  <2> QED BY <2>2, <2>5, <2>8 DEF r, u
<1>6. s = [i \in 1 .. n |-> Under(i) % Base]
  <2>1. \A i \in 1 .. n : (a[i] - Limb(b, i) - borrow[i - 1]) % Base = Under(i) % Base
    BY <1>4
  <2> HIDE DEF Under
  <2> QED BY <2>1, <1>3, Zenon
<1>7. s \in BiLimbs /\ Len(s) = n /\ \A i \in 1 .. n : Limb(s, i) = Under(i) % Base
  <2> HIDE DEF Under
  <2>1. s \in [1 .. n -> BiDigits]
    BY <1>5, <1>6
  <2>2. s \in Seq(BiDigits) /\ Len(s) = n
    BY <2>1, <1>1, SeqDef, LenProperties
  <2> QED BY <2>2, <1>6, BiLimb DEF BiLimbs
<1>8. ASSUME NEW k \in 1 .. n
      PROVE  /\ Rest(k - 1) = (Under(k) % Base) + Base * Rest(k)
             /\ Rest(k) \in Int /\ Rest(k - 1) \in Int
             /\ BiTail(s, k) = (Under(k) % Base) + Base * BiTail(s, k + 1)
             /\ BiTail(s, k) \in Int /\ BiTail(s, k + 1) \in Int
  <2> DEFINE A == Limb(a, k)
             B == Limb(b, k)
             D == Under(k) % Base
             p == BiTail(a, k + 1)
             q == BiTail(b, k + 1)
             c == borrow[k]
             was == borrow[k - 1]
  <2>1. k \in Nat \ {0} /\ (k - 1) + 1 = k
    BY <1>1
  <2>2. BiTail(a, k) = A + Base * p /\ BiTail(b, k) = B + Base * q /\ p \in Nat /\ q \in Nat
    BY <2>1, BiTailIs
  <2>3. D \in Nat /\ A - B - was = D - Base * c
    BY <1>5, BiBase
  <2>4. A \in Nat /\ B \in Nat
    BY BiLimb, BiBase
  <2>5. c \in {0, 1} /\ was \in {0, 1}
    BY <1>2, <1>5
  <2>6. /\ BiTail(s, k) = D + Base * BiTail(s, k + 1)
        /\ BiTail(s, k) \in Int /\ BiTail(s, k + 1) \in Int
    BY <2>1, <1>7, BiTailIs
  <2>7. Rest(k) = p - q - c /\ Rest(k - 1) = BiTail(a, k) - BiTail(b, k) - was
    BY <2>1
  <2> HIDE DEF A, B, D, p, q, c, was, Under, Rest
  <2>8. Base * (p - q - c) = Base * p - Base * q - Base * c
    BY <2>2, <2>5, BiBase
  <2>9. Base * p \in Nat /\ Base * q \in Nat /\ Base * c \in Nat
    BY <2>2, <2>5, BiScale
  <2>10. (A + Base * p) - (B + Base * q) - was = D + Base * (p - q - c)
    <3> DEFINE z == Base * (p - q - c)
               P == Base * p
               Q == Base * q
               C == Base * c
    <3>1. z = P - Q - C /\ P \in Nat /\ Q \in Nat /\ C \in Nat /\ A - B - was = D - C
      BY <2>3, <2>8, <2>9
    <3> HIDE DEF z, P, Q, C
    <3>2. (A + P) - (B + Q) - was = D + z
      BY <3>1, <2>3, <2>4, <2>5
    <3> QED BY <3>2 DEF z, P, Q
  <2>11. Rest(k) \in Int /\ Rest(k - 1) \in Int
    <3>1. Rest(k) \in Int
      BY <2>2, <2>5, <2>7
    <3> DEFINE P == Base * p
               Q == Base * q
    <3>2. P \in Nat /\ Q \in Nat
      BY <2>9
    <3>3. Rest(k - 1) = (A + P) - (B + Q) - was
      BY <2>2, <2>7
    <3> HIDE DEF P, Q, Rest
    <3>4. Rest(k - 1) \in Int
      BY <3>2, <3>3, <2>4, <2>5
    <3> QED BY <3>1, <3>4
  <2>12. Rest(k - 1) = D + Base * Rest(k)
    BY <2>2, <2>7, <2>10
  <2> QED BY <2>6, <2>11, <2>12 DEF D
<1>9. BiTail(a, n + 1) = 0 /\ BiTail(b, n + 1) = 0 /\ BiTail(s, n + 1) = 0
  <2>1. n + 1 \in Nat /\ n + 1 > n /\ n + 1 \notin 1 .. n
    BY <1>1
  <2> QED BY <2>1, <1>1, <1>7, BiTailIs
<1>10. /\ Magnitude(a) = BiTail(a, 1) /\ Magnitude(b) = BiTail(b, 1)
       /\ Magnitude(s) = BiTail(s, 1)
       /\ BiTail(a, 1) \in Nat /\ BiTail(b, 1) \in Nat
  BY <1>7, BiTailIs
<1>11. Rest(0) = Magnitude(a) - Magnitude(b)
  BY <1>2, <1>10
<1>12. Rest(n) = 0 - borrow[n] /\ borrow[n] \in {0, 1}
  BY <1>1, <1>2, <1>9
\* Were the last limb to borrow, b would be more than a.
<1>13. ASSUME borrow[n] = 1 PROVE FALSE
  <2> DEFINE S == {k \in 0 .. n : Rest(k) < 0}
  <2>1. n \in S
    BY <1>1, <1>12, <1>13
  <2>2. \A k \in 1 .. n : k \in S => k - 1 \in S
    <3> SUFFICES ASSUME NEW k \in 1 .. n, Rest(k) < 0 PROVE Rest(k - 1) < 0
      BY <1>5
    <3> DEFINE r == Rest(k)
               D == Under(k) % Base
    <3>1. r \in Int /\ r < 0 /\ Rest(k - 1) = D + Base * r /\ D \in BiDigits
      BY <1>5, <1>8
    <3> HIDE DEF r, D, Rest
    <3>2. PICK m \in Nat : r = -1 - m
      <4>1. -1 - r \in Nat /\ r = -1 - (-1 - r)
        BY <3>1
      <4> QED BY <4>1
    <3>3. Base * r = -Base - Base * m
      BY <3>2, BiBase
    <3>4. Base * m \in Nat
      BY BiScale
    <3>5. D + Base * r < 0
      <4> DEFINE y == Base * r
                 z == Base * m
      <4>1. y = -Base - z /\ z \in Nat /\ Base \in Nat /\ D \in Nat /\ D < Base
        BY <3>1, <3>3, <3>4, BiBase DEF BiDigits
      <4> HIDE DEF y, z
      <4>2. D + y < 0
        BY <4>1
      <4> QED BY <4>2 DEF y
    <3> QED BY <3>1, <3>5
  <2> HIDE DEF S
  <2>3. \A k \in 0 .. n : k \in S
    BY <1>1, <2>1, <2>2, BiDown
  <2>4. Rest(0) < 0
    BY <1>1, <2>3 DEF S
  <2> QED BY <2>4, <1>10, <1>11
<1>14. Rest(n) = 0
  BY <1>12, <1>13
<1> DEFINE S == {k \in 0 .. n : BiTail(s, k + 1) = Rest(k)}
<1>15. n \in S
  BY <1>1, <1>9, <1>14
<1>16. \A k \in 1 .. n : k \in S => k - 1 \in S
  <2> SUFFICES ASSUME NEW k \in 1 .. n, BiTail(s, k + 1) = Rest(k)
               PROVE BiTail(s, (k - 1) + 1) = Rest(k - 1)
    BY <1>5
  <2>1. (k - 1) + 1 = k
    BY <1>1
  <2> HIDE DEF Rest, Under
  <2> QED BY <2>1, <1>8
<1> HIDE DEF S
<1>17. \A k \in 0 .. n : k \in S
  BY <1>1, <1>15, <1>16, BiDown
<1>18. BiTail(s, 1) = Rest(0)
  <2>1. 0 \in S /\ 0 + 1 = 1
    BY <1>1, <1>17
  <2> QED BY <2>1 DEF S
<1> HIDE DEF Rest
<1> QED BY <1>7, <1>10, <1>11, <1>18 DEF s

-----------------------------------------------------------------------------
(* Products: by one limb, and row by row.                                      *)

-----------------------------------------------------------------------------
(* Products.                                                               *)

\* A product of two limbs has room for two more.
LEMMA BiLimbProduct ==
  ASSUME Assumptions, NEW d \in BiDigits, NEW k \in BiDigits, NEW s \in BiDigits
  PROVE  /\ d * k + s \in Nat /\ d * k + s < Base * Base
         /\ \A r \in BiDigits : d * k + r + s \in Nat /\ d * k + r + s < Base * Base
<1>1. d \in Nat /\ k \in Nat /\ d <= Base - 1 /\ k <= Base - 1 /\ s \in Nat /\ s <= Base - 1
  BY BiBase DEF BiDigits
<1> DEFINE m == Base - 1
           p == d * k
<1>2. PICK i \in Nat, j \in Nat : d + i = m /\ k + j = m
  <2>1. m - d \in Nat /\ m - k \in Nat /\ d + (m - d) = m /\ k + (m - k) = m
    BY <1>1, BiBase
  <2> QED BY <2>1
<1>3. m * m = p + d * j + i * k + i * j
  <2>1. m * m = (d + i) * (k + j)
    BY <1>2
  <2> QED BY <2>1, <1>1, <1>2
<1>4. d * j \in Nat /\ i * k \in Nat /\ i * j \in Nat /\ p \in Nat
  BY <1>1, <1>2
<1>5. Base * Base = m * m + 2 * m + 1 /\ m * m \in Nat /\ m \in Nat
  BY BiBase
<1> HIDE DEF p
<1>6. p <= m * m
  <2> DEFINE z == m * m
             z1 == d * j
             z2 == i * k
             z3 == i * j
  <2>1. z = p + z1 + z2 + z3 /\ z1 \in Nat /\ z2 \in Nat /\ z3 \in Nat /\ p \in Nat
    BY <1>3, <1>4
  <2> HIDE DEF z, z1, z2, z3
  <2>2. p <= z
    BY <2>1
  <2> QED BY <2>2 DEF z
<1>7. ASSUME NEW r \in Nat, r <= 2 * m PROVE p + r \in Nat /\ p + r < Base * Base
  <2> DEFINE z == m * m
             w == Base * Base
  <2>1. w = z + 2 * m + 1 /\ p <= z /\ p \in Nat /\ z \in Nat
    BY <1>4, <1>5, <1>6
  <2> HIDE DEF z, w
  <2>2. p + r \in Nat /\ p + r < w
    BY <2>1, <1>5, <1>7
  <2> QED BY <2>2 DEF w
<1>8. s <= 2 * m
  BY <1>1, BiBase
<1>9. ASSUME NEW r \in BiDigits PROVE p + r + s \in Nat /\ p + r + s < Base * Base
  <2>1. r + s \in Nat /\ r + s <= 2 * m /\ r \in Nat
    BY <1>1, BiBase DEF BiDigits
  <2>2. p + (r + s) \in Nat /\ p + (r + s) < Base * Base
    BY <2>1, <1>7
  <2>3. p + r + s = p + (r + s)
    BY <2>1, <1>1, <1>4
  <2> QED BY <2>2, <2>3
<1> QED BY <1>1, <1>7, <1>8, <1>9 DEF p

LEMMA BiSmallCarries ==
  ASSUME Assumptions, NEW a \in BiLimbs, NEW k \in BiDigits
  PROVE  /\ SmallCarries(a, k) \in [0 .. Len(a) -> BiDigits] /\ SmallCarries(a, k)[0] = 0
         /\ \A i \in 1 .. Len(a) :
              SmallCarries(a, k)[i] = (a[i] * k + SmallCarries(a, k)[i - 1]) \div Base
<1> DEFINE n == Len(a)
           T == BiDigits
           e == 0
           Step(i, t) == (a[i] * k + t) \div Base
           F == [i \in 1 .. n |-> [t \in T |-> Step(i, t)]]
           P(g) == g = [i \in 0 .. n |-> IF i = 0 THEN 0
               ELSE (a[i] * k + g[i - 1]) \div Base]
           H == SmallCarries(a, k)
<1>1. n \in Nat /\ e \in T
  BY BiLimb, BiBase
<1>2. \A i \in 1 .. n, t \in T : Step(i, t) \in T
  <2> SUFFICES ASSUME NEW i \in 1 .. n, NEW t \in BiDigits
               PROVE (a[i] * k + t) \div Base \in BiDigits
    OBVIOUS
  <2>1. a[i] \in BiDigits
    BY BiLimb
  <2>2. a[i] * k + t \in Nat /\ a[i] * k + t < Base * Base
    BY <2>1, BiLimbProduct, BiBase
  <2> DEFINE s == a[i] * k + t
  <2> HIDE DEF s
  <2>3. (s \div Base) \in Nat /\ (s \div Base) < Base
    BY <2>2, BiCarry, BiBase DEF s
  <2>4. (s \div Base) \in BiDigits
    BY <2>3, BiBase DEF BiDigits
  <2> QED BY <2>4 DEF s
<1>3. H = CHOOSE h : P(h)
  BY Zenon DEF SmallCarries, n
<1> HIDE DEF n, T, e, Step, H
<1>4. F \in [1 .. n -> [T -> T]]
  BY <1>2
<1>5. \A i \in 1 .. n, t \in T : F[i][t] = Step(i, t)
  OBVIOUS
<1> HIDE DEF F
<1>6. PICK g \in [0 .. n -> T] : g[0] = e /\ \A i \in 1 .. n : g[i] = F[i][g[i - 1]]
  <2>1. n \in Nat /\ e \in T
    BY <1>1
  <2>2. BiRuns(n, T, e, F) # {}
    BY <2>1, <1>4, BiDefined, Zenon
  <2> QED BY <2>2 DEF BiRuns
<1>7. P(g)
  <2>1. \A i \in 1 .. n : i - 1 \in 0 .. n
    BY <1>1
  <2>2. \A i \in 1 .. n : g[i] = Step(i, g[i - 1])
    BY <2>1, <1>5, <1>6
  <2>3. \A i \in 0 .. n : i = 0 \/ (i \in 1 .. n /\ i # 0)
    BY <1>1
  <2>4. \A i \in 0 .. n : g[i] = IF i = 0 THEN 0 ELSE (a[i] * k + g[i - 1]) \div Base
    BY <2>2, <2>3, <1>6 DEF Step, e
  <2> QED BY <2>4, <1>6, Zenon
<1>8. P(H)
  <2> HIDE DEF P
  <2> QED BY <1>3, <1>7, Zenon
<1>9. H[0] = e /\ \A i \in 1 .. n : H[i] = Step(i, H[i - 1])
  <2>1. 0 \in 0 .. n /\ \A i \in 1 .. n : i \in 0 .. n /\ i # 0
    BY <1>1
  <2>2. \A i \in 0 .. n : H[i] = IF i = 0 THEN 0 ELSE (a[i] * k + H[i - 1]) \div Base
    BY <1>8, Zenon
  <2> QED BY <2>1, <2>2 DEF Step, e
<1> DEFINE S == {i \in 0 .. n : H[i] \in T}
<1>10. 0 \in S /\ \A i \in 1 .. n : i - 1 \in S => i \in S
  <2>1. 0 \in S
    BY <1>1, <1>9
  <2>2. ASSUME NEW i \in 1 .. n, i - 1 \in S PROVE i \in S
    <3>1. Step(i, H[i - 1]) \in T
      BY <2>2, <1>2
    <3> QED BY <3>1, <1>1, <1>9
  <2> QED BY <2>1, <2>2
<1> HIDE DEF S
<1>11. \A i \in 0 .. n : i \in S
  <2>1. n \in Nat
    BY <1>1
  <2> QED BY <2>1, <1>10, BiUp
<1>12. \A i \in 0 .. n : H[i] \in T
  BY <1>11 DEF S
<1>13. H \in [0 .. n -> T]
  <2>1. H = [i \in 0 .. n |-> H[i]]
    BY <1>8
  <2> HIDE DEF P
  <2> QED BY <2>1, <1>12
<1> QED BY <1>9, <1>13, Zenon DEF n, T, e, H, Step

\* A product with one limb.
LEMMA BiSmall ==
  ASSUME Assumptions, NEW a \in BiLimbs, NEW k \in BiDigits
  PROVE  /\ mul_small(a, k) \in BiLimbs
         /\ Magnitude(mul_small(a, k)) = Magnitude(a) * k
         /\ BiFull(a) /\ k # 0 => BiFull(mul_small(a, k))
<1> DEFINE n == Len(a)
           carry == SmallCarries(a, k)
           product == [i \in 1 .. n |-> (a[i] * k + carry[i - 1]) % Base]
           s == mul_small(a, k)
<1>1. /\ n \in Nat /\ \A i \in Nat : i > n => i \notin 1 .. Len(a)
      /\ n \in 0 .. n
  BY BiLimb
<1>2. /\ carry \in [0 .. n -> BiDigits] /\ carry[0] = 0
      /\ \A i \in 1 .. n : carry[i] = (a[i] * k + carry[i - 1]) \div Base
  BY BiSmallCarries
<1>3. s = IF carry[n] > 0 THEN Append(product, carry[n]) ELSE product
  BY Zenon DEF mul_small
<1>4. \A i \in 1 .. n : Limb(a, i) = a[i] /\ a[i] \in BiDigits
  BY BiLimb
<1>0. \A i \in 1 .. n : i - 1 \in 0 .. n
  BY <1>1
<1>5. \A i \in 0 .. n : carry[i] \in BiDigits /\ carry[i] \in Nat
  BY <1>2, BiBase
<1> HIDE DEF n, carry, s
<1>6. ASSUME NEW i \in 1 .. n
      PROVE  /\ (a[i] * k + carry[i - 1]) % Base \in BiDigits
             /\ a[i] * k + carry[i - 1]
                    = ((a[i] * k + carry[i - 1]) % Base) + Base * carry[i]
  <2> DEFINE t == a[i] * k + carry[i - 1]
  <2>1. carry[i - 1] \in BiDigits
    BY <1>0, <1>5
  <2>2. t \in Nat
    BY <2>1, <1>4, BiLimbProduct
  <2>3. carry[i] = t \div Base
    BY <1>2
  <2> HIDE DEF t
  <2>4. (t % Base) \in BiDigits /\ t = (t % Base) + Base * carry[i]
    BY <2>2, <2>3, BiCarry
  <2> QED BY <2>4 DEF t
<1>7. product \in Seq(BiDigits) /\ Len(product) = n
  <2>1. product \in [1 .. n -> BiDigits]
    BY <1>6
  <2> HIDE DEF product
  <2> QED BY <2>1, <1>1, SeqDef, LenProperties
<1>8. carry[n] \in BiDigits /\ carry[n] \in Nat
  BY <1>1, <1>5
<1>9. /\ s \in BiLimbs /\ \A i \in 1 .. n : Limb(s, i) = product[i]
      /\ Limb(s, n + 1) = carry[n] /\ \A i \in Nat : i > n + 1 => i \notin 1 .. Len(s)
      /\ \/ carry[n] # 0 /\ Len(s) = n + 1
         \/ carry[n] = 0 /\ Len(s) = n
  <2> HIDE DEF product
  <2>1. CASE carry[n] > 0
    <3>1. s = Append(product, carry[n])
      BY <2>1, <1>3
    <3>2. /\ s \in Seq(BiDigits) /\ Len(s) = n + 1 /\ s[n + 1] = carry[n]
          /\ \A i \in 1 .. n : s[i] = product[i]
      BY <3>1, <1>7, <1>8, AppendProperties
    <3>3. s \in BiLimbs
      BY <3>2 DEF BiLimbs
    <3>4. n + 1 \in 1 .. (n + 1) /\ \A i \in 1 .. n : i \in 1 .. (n + 1)
      BY <1>1
    <3>5. \A i \in Nat : i > n + 1 => i \notin 1 .. (n + 1)
      BY <1>1
    <3>6. carry[n] # 0
      BY <2>1, <1>8
    <3> QED BY <3>2, <3>3, <3>4, <3>5, <3>6, BiLimb
  <2>2. CASE ~ (carry[n] > 0)
    <3>1. s = product /\ carry[n] = 0
      BY <2>2, <1>3, <1>8
    <3>2. s \in BiLimbs /\ Len(s) = n
      BY <3>1, <1>7 DEF BiLimbs
    <3>3. \A i \in Nat : i > n => i \notin 1 .. n
      BY <1>1
    <3>4. n + 1 \in Nat /\ n + 1 > n /\ \A i \in Nat : i > n + 1 => i > n
      BY <1>1
    <3> QED BY <3>1, <3>2, <3>3, <3>4, BiLimb
  <2> QED BY <2>1, <2>2
<1> DEFINE S == {m \in 0 .. n : BiTail(s, m + 1) = BiTail(a, m + 1) * k + carry[m]}
<1>10. k \in Nat
  BY BiBase
<1>11. n \in S
  <2>1. n + 1 \in Nat \ {0} /\ n + 1 > n /\ (n + 1) + 1 > n + 1 /\ (n + 1) + 1 \in Nat
    BY <1>1
  <2>2. BiTail(a, n + 1) = 0
    BY <2>1, <1>1, BiTailIs
  <2>3. BiTail(s, (n + 1) + 1) = 0
    BY <2>1, <1>9, BiTailIs
  <2>4. BiTail(s, n + 1) = carry[n] + Base * 0
    BY <2>1, <2>3, <1>9, BiTailIs
  <2>5. Base * 0 = 0 /\ 0 * k = 0
    BY <1>10, BiBase
  <2>6. BiTail(s, n + 1) = BiTail(a, n + 1) * k + carry[n]
    BY <2>2, <2>4, <2>5, <1>8
  <2> QED BY <2>6, <1>1
<1>12. \A m \in 1 .. n : m \in S => m - 1 \in S
  <2> SUFFICES ASSUME NEW m \in 1 .. n, m \in S
               PROVE  BiTail(s, m) = BiTail(a, m) * k + carry[m - 1]
    BY <1>1
  <2> DEFINE A == a[m]
             D == (a[m] * k + carry[m - 1]) % Base
             p == BiTail(a, m + 1)
             c == carry[m]
             was == carry[m - 1]
  <2>1. m \in Nat \ {0} /\ m - 1 \in 0 .. n /\ m \in 0 .. n
    BY <1>1
  <2>2. BiTail(s, m + 1) = p * k + c
    OBVIOUS
  <2>3. BiTail(a, m) = A + Base * p /\ p \in Nat
    BY <2>1, <1>4, BiTailIs
  <2>4. BiTail(s, m) = D + Base * (p * k + c)
    BY <2>1, <2>2, <1>9, BiTailIs
  <2>5. A * k + was = D + Base * c /\ D \in Nat
    BY <1>6, BiBase
  <2>6. A \in Nat /\ c \in Nat /\ was \in Nat
    BY <2>1, <1>4, <1>5, BiBase
  <2> HIDE DEF A, D, p, c, was
  <2>7. Base * (p * k + c) = (Base * p) * k + Base * c
    BY <2>3, <2>6, <1>10, BiBase
  <2>8. (A + Base * p) * k = A * k + (Base * p) * k
    BY <2>3, <2>6, <1>10, BiBase
  <2>9. Base * c \in Nat /\ A * k \in Nat /\ (Base * p) * k \in Nat
    BY <2>3, <2>6, <1>10, BiBase
  <2>10. D + Base * (p * k + c) = (A + Base * p) * k + was
    <3> DEFINE z == Base * (p * k + c)
               y == (A + Base * p) * k
               C == Base * c
               Q == (Base * p) * k
               R == A * k
    <3>1. z = Q + C /\ y = R + Q /\ R + was = D + C /\ C \in Nat /\ R \in Nat /\ Q \in Nat
      BY <2>5, <2>7, <2>8, <2>9
    <3> HIDE DEF z, y, C, Q, R
    <3>2. D + z = y + was
      BY <3>1, <2>5, <2>6
    <3> QED BY <3>2 DEF z, y
  <2>11. BiTail(s, m) = BiTail(a, m) * k + was
    BY <2>3, <2>4, <2>10
  <2> QED BY <2>11 DEF was
<1> HIDE DEF S
<1>13. \A m \in 0 .. n : m \in S
  BY <1>1, <1>11, <1>12, BiDown
<1>14. BiTail(s, 1) = BiTail(a, 1) * k + carry[0]
  <2>1. 0 \in S /\ 0 + 1 = 1
    BY <1>1, <1>13
  <2> QED BY <2>1 DEF S
<1>15. Magnitude(s) = Magnitude(a) * k
  <2>1. BiTail(a, 1) \in Nat /\ BiTail(a, 1) * k \in Nat
    BY <1>10, BiTailIs
  <2>2. Magnitude(s) = BiTail(s, 1) /\ Magnitude(a) = BiTail(a, 1)
    BY <1>9, BiTailIs
  <2> QED BY <2>1, <2>2, <1>2, <1>14
<1>16. ASSUME BiFull(a), k # 0 PROVE BiFull(s)
  <2>0. Limb(s, Len(s)) = s[Len(s)] \/ Len(s) = 0
    <3>1. Len(s) \in Nat
      BY <1>9, BiLimb
    <3>2. Len(s) # 0 => Len(s) \in 1 .. Len(s)
      BY <3>1
    <3> QED BY <3>2, <1>9, BiLimb
  <2>1. CASE carry[n] # 0 /\ Len(s) = n + 1
    BY <2>0, <2>1, <1>1, <1>9 DEF BiFull
  <2>2. CASE carry[n] = 0 /\ Len(s) = n
    <3> SUFFICES ASSUME n # 0 PROVE Limb(s, n) # 0
      BY <2>0, <2>2 DEF BiFull
    <3>1. n \in 1 .. n /\ n - 1 \in 0 .. n
      BY <1>1
    <3> DEFINE A == a[n]
               D == product[n]
               was == carry[n - 1]
    <3>2. A # 0 /\ A \in Nat /\ was \in Nat
      BY <3>1, <1>4, <1>5, <1>16, BiBase DEF BiFull, n
    <3>3. A * k + was = D + Base * 0
      BY <3>1, <1>6, <2>2
    <3>4. D \in Nat /\ Limb(s, n) = D
      BY <3>1, <1>6, <1>9, BiBase
    <3> HIDE DEF A, D, was
    <3>5. Base * 0 = 0
      BY BiBase
    <3>6. A * k # 0 /\ A * k \in Nat
      BY <3>2, <1>10, <1>16
    <3> QED BY <3>2, <3>3, <3>4, <3>5, <3>6
  <2> QED BY <2>1, <2>2, <1>9
<1> QED BY <1>9, <1>15, <1>16 DEF s

LEMMA BiRowCarries ==
  ASSUME Assumptions, NEW result \in BiLimbs, NEW b \in BiLimbs, NEW av \in BiDigits,
         NEW i \in Nat \ {0}
  PROVE  /\ RowCarries(result, b, av, i) \in [0 .. Len(result) -> BiDigits]
         /\ RowCarries(result, b, av, i)[0] = 0
         /\ \A k \in 1 .. Len(result) :
              RowCarries(result, b, av, i)[k] = IF k < i THEN 0
                  ELSE (av * Limb(b, k - i + 1) + result[k] + RowCarries(result, b, av,
                      i)[k - 1]) \div Base
<1> DEFINE n == Len(result)
           T == BiDigits
           e == 0
           Step(k, t) == IF k < i THEN 0
               ELSE (av * Limb(b, k - i + 1) + result[k] + t) \div Base
           F == [k \in 1 .. n |-> [t \in T |-> Step(k, t)]]
           P(g) == g = [k \in 0 .. n |-> IF k < i THEN 0
               ELSE (av * Limb(b, k - i + 1) + result[k] + g[k - 1]) \div Base]
           H == RowCarries(result, b, av, i)
<1>1. n \in Nat /\ e \in T
  BY BiLimb, BiBase
<1>2. \A k \in 1 .. n, t \in T : Step(k, t) \in T
  <2> SUFFICES ASSUME NEW k \in 1 .. n, NEW t \in BiDigits
               PROVE  (av * Limb(b, k - i + 1) + result[k] + t) \div Base \in BiDigits
    BY BiBase
  <2>1. result[k] \in BiDigits /\ Limb(b, k - i + 1) \in BiDigits
    BY BiLimb
  <2> DEFINE s == av * Limb(b, k - i + 1) + result[k] + t
  <2>2. s \in Nat /\ s < Base * Base
    BY <2>1, BiLimbProduct
  <2> HIDE DEF s
  <2>3. (s \div Base) \in Nat /\ (s \div Base) < Base
    BY <2>2, BiCarry, BiBase
  <2>4. (s \div Base) \in BiDigits
    BY <2>3, BiBase DEF BiDigits
  <2> QED BY <2>4 DEF s
<1>3. H = CHOOSE h : P(h)
  BY Zenon DEF RowCarries, n
<1> HIDE DEF n, T, e, Step, H
<1>4. F \in [1 .. n -> [T -> T]]
  BY <1>2
<1>5. \A k \in 1 .. n, t \in T : F[k][t] = Step(k, t)
  OBVIOUS
<1> HIDE DEF F
<1>6. PICK g \in [0 .. n -> T] : g[0] = e /\ \A k \in 1 .. n : g[k] = F[k][g[k - 1]]
  <2>1. n \in Nat /\ e \in T
    BY <1>1
  <2>2. BiRuns(n, T, e, F) # {}
    BY <2>1, <1>4, BiDefined, Zenon
  <2> QED BY <2>2 DEF BiRuns
<1>7. P(g)
  <2>1. \A k \in 1 .. n : k - 1 \in 0 .. n
    BY <1>1
  <2>2. \A k \in 1 .. n : g[k] = Step(k, g[k - 1])
    BY <2>1, <1>5, <1>6
  <2>3. \A k \in 0 .. n : k = 0 \/ (k \in 1 .. n /\ k # 0)
    BY <1>1
  <2>4. \A k \in 0 .. n : g[k] = IF k < i THEN 0
            ELSE (av * Limb(b, k - i + 1) + result[k] + g[k - 1]) \div Base
    BY <2>2, <2>3, <1>6 DEF Step, e
  <2> QED BY <2>4, <1>6, Zenon
<1>8. P(H)
  <2> HIDE DEF P
  <2> QED BY <1>3, <1>7, Zenon
<1>9. H[0] = e /\ \A k \in 1 .. n : H[k] = Step(k, H[k - 1])
  <2>1. 0 \in 0 .. n /\ \A k \in 1 .. n : k \in 0 .. n /\ k # 0
    BY <1>1
  <2>2. \A k \in 0 .. n : H[k] = IF k < i THEN 0
            ELSE (av * Limb(b, k - i + 1) + result[k] + H[k - 1]) \div Base
    BY <1>8, Zenon
  <2> QED BY <2>1, <2>2 DEF Step, e
<1> DEFINE S == {k \in 0 .. n : H[k] \in T}
<1>10. 0 \in S /\ \A k \in 1 .. n : k - 1 \in S => k \in S
  <2>1. 0 \in S
    BY <1>1, <1>9
  <2>2. ASSUME NEW k \in 1 .. n, k - 1 \in S PROVE k \in S
    <3>1. Step(k, H[k - 1]) \in T
      BY <2>2, <1>2
    <3> QED BY <3>1, <1>1, <1>9
  <2> QED BY <2>1, <2>2
<1> HIDE DEF S
<1>11. \A k \in 0 .. n : k \in S
  <2>1. n \in Nat
    BY <1>1
  <2> QED BY <2>1, <1>10, BiUp
<1>12. \A k \in 0 .. n : H[k] \in T
  BY <1>11 DEF S
<1>13. H \in [0 .. n -> T]
  <2>1. H = [k \in 0 .. n |-> H[k]]
    BY <1>8
  <2> HIDE DEF P
  <2> QED BY <2>1, <1>12
<1> QED BY <1>9, <1>13, Zenon DEF n, T, e, H, Step

\* A row of mul, limb by limb.
LEMMA BiRowTypes ==
  ASSUME Assumptions, NEW result \in BiLimbs, NEW b \in BiLimbs, NEW av \in BiDigits,
         NEW i \in Nat \ {0}
  PROVE  /\ AddRow(result, b, av, i) \in BiLimbs
         /\ Len(AddRow(result, b, av, i)) = Len(result)
         /\ \A k \in 1 .. Len(result) :
              /\ k < i => AddRow(result, b, av, i)[k] = result[k]
              /\ k >= i => av * Limb(b, k - i + 1) + result[k] + RowCarries(result, b, av,
                     i)[k - 1]
                             = AddRow(result, b, av, i)[k] + Base * RowCarries(result, b,
                                 av, i)[k]
<1> DEFINE n == Len(result)
           carry == RowCarries(result, b, av, i)
           Cell(k) == av * Limb(b, k - i + 1) + result[k] + carry[k - 1]
           s == AddRow(result, b, av, i)
<1>1. n \in Nat /\ \A k \in 1 .. n : k - 1 \in 0 .. n /\ k \in 0 .. n
          /\ result[k] \in BiDigits
  BY BiLimb
<1>2. /\ carry \in [0 .. n -> BiDigits]
      /\ \A k \in 1 .. n : carry[k] = IF k < i THEN 0 ELSE Cell(k) \div Base
  BY BiRowCarries
<1>3. s = [k \in 1 .. n |-> IF k < i THEN result[k] ELSE Cell(k) % Base]
  BY Zenon DEF AddRow
<1> HIDE DEF n, s, carry
<1>4. ASSUME NEW k \in 1 .. n
      PROVE  /\ Cell(k) % Base \in BiDigits
             /\ Cell(k) = (Cell(k) % Base) + Base * (Cell(k) \div Base)
  <2>1. /\ carry[k - 1] \in BiDigits /\ result[k] \in BiDigits
        /\ Limb(b, k - i + 1) \in BiDigits
    BY <1>1, <1>2, BiLimb
  <2>2. Cell(k) \in Nat
    BY <2>1, BiLimbProduct
  <2> HIDE DEF Cell
  <2> QED BY <2>2, BiCarry
<1> HIDE DEF Cell
<1>5. s \in [1 .. n -> BiDigits]
  BY <1>1, <1>3, <1>4
<1>6. s \in BiLimbs /\ Len(s) = n
  BY <1>1, <1>5, SeqDef, LenProperties DEF BiLimbs
<1>7. ASSUME NEW k \in 1 .. n
      PROVE  (k < i => s[k] = result[k]) /\ (k >= i => Cell(k) = s[k] + Base * carry[k])
  <2>1. CASE k < i
    BY <2>1, <1>3
  <2>2. CASE ~ (k < i)
    <3>1. s[k] = Cell(k) % Base /\ carry[k] = Cell(k) \div Base
      BY <2>2, <1>2, <1>3
    <3> QED BY <2>2, <3>1, <1>4
  <2> QED BY <2>1, <2>2
<1> QED BY <1>6, <1>7, Zenon DEF Cell, n, s, carry

\* One row adds av times b, at limb i.
LEMMA BiRow ==
  ASSUME Assumptions, NEW result \in BiLimbs, NEW b \in BiLimbs, NEW av \in BiDigits,
         NEW i \in Nat \ {0},
         i + Len(b) <= Len(result),
         \A k \in 1 .. Len(result) : k >= i + Len(b) => result[k] = 0
  PROVE  /\ \A k \in 1 .. Len(result) : k >= i + Len(b) + 1 => AddRow(result, b, av,
                i)[k] = 0
         /\ BiTail(AddRow(result, b, av, i), i) = BiTail(result, i) + av * Magnitude(b)
<1> DEFINE n == Len(result)
           end == i + Len(b)
           carry == RowCarries(result, b, av, i)
           s == AddRow(result, b, av, i)
<1>1. /\ n \in Nat /\ end \in Nat /\ end >= i /\ end \in 1 .. n /\ n \in 0 .. n
      /\ i - 1 \in 0 .. n
      /\ \A k \in 1 .. n : k - 1 \in 0 .. n /\ k \in 0 .. n
      /\ \A k \in Nat : k >= end => k - i + 1 \notin 1 .. Len(b)
  BY BiLimb
<1>2. /\ carry \in [0 .. n -> BiDigits] /\ carry[0] = 0
      /\ \A k \in 1 .. n : k < i => carry[k] = 0
  BY BiRowCarries
<1>3. /\ s \in BiLimbs /\ Len(s) = n
      /\ \A k \in 1 .. n : k >= i => av * Limb(b, k - i + 1) + result[k] + carry[k - 1]
                                       = s[k] + Base * carry[k]
  BY BiRowTypes
<1>4. \A k \in 1 .. n : /\ Limb(s, k) = s[k] /\ s[k] \in Nat /\ s[k] \in BiDigits
                        /\ Limb(result, k) = result[k] /\ result[k] \in Nat
  BY <1>3, BiLimb, BiBase
<1>5. \A k \in 0 .. n : carry[k] \in Nat /\ carry[k] \in BiDigits
  BY <1>2, BiBase
<1>6. \A k \in 1 .. n : k >= end => result[k] = 0 /\ Limb(b, k - i + 1) = 0
  BY <1>1, BiLimb
<1>7. av \in Nat /\ av * 0 = 0
  BY BiBase
<1> HIDE DEF n, end, s, carry
\* Beyond the row there is nothing but its last carry.
<1>8. \A k \in 1 .. n : k >= end => carry[k] = 0 /\ s[k] = carry[k - 1]
  <2> SUFFICES ASSUME NEW k \in 1 .. n, k >= end PROVE carry[k] = 0 /\ s[k] = carry[k - 1]
    OBVIOUS
  <2> DEFINE was == carry[k - 1]
             c == carry[k]
             d == s[k]
  <2>1. k >= i
    BY <1>1
  <2>2. was = d + Base * c
    <3>1. av * Limb(b, k - i + 1) + result[k] + was = d + Base * c
      BY <2>1, <1>3
    <3>2. av * 0 + 0 + was = d + Base * c
      BY <3>1, <1>6
    <3>3. was \in Nat
      BY <1>1, <1>5
    <3> QED BY <3>2, <3>3, <1>7
  <2>3. was \in BiDigits /\ c \in Nat /\ d \in Nat
    BY <1>1, <1>4, <1>5
  <2> HIDE DEF was, c, d
  <2>4. c = 0
    <3> SUFFICES ASSUME 0 < c PROVE FALSE
      BY <2>3
    <3>1. Base * 0 + Base <= Base * c /\ Base * c \in Nat
      BY <2>3, BiScale
    <3>2. Base * 0 = 0
      BY BiBase
    <3> QED BY <3>1, <3>2, <2>2, <2>3, BiBase DEF BiDigits
  <2>5. Base * 0 = 0
    BY BiBase
  <2> QED BY <2>2, <2>3, <2>4, <2>5 DEF was, c, d
<1>9. \A k \in 1 .. n : k >= end + 1 => s[k] = 0
  <2> SUFFICES ASSUME NEW k \in 1 .. n, k >= end + 1 PROVE s[k] = 0
    OBVIOUS
  <2>1. k >= end /\ k - 1 >= end /\ k - 1 \in 1 .. n
    BY <1>1
  <2> QED BY <2>1, <1>8
<1>10. carry[n] = 0
  <2>1. n \in 1 .. n /\ n >= end
    BY <1>1
  <2> QED BY <2>1, <1>8
<1> DEFINE S == {k \in 0 .. n : k + 1 >= i =>
                  BiTail(s, k + 1) = BiTail(result, k + 1) + av * BiTail(b,
                      k - i + 2) + carry[k]}
<1>11. n \in S
  <2>1. n + 1 \notin 1 .. n /\ n + 1 \in Nat /\ n + 1 >= end /\ (n + 1) - i + 1 = n - i + 2
    BY <1>1
  <2>2. n - i + 2 \notin 1 .. Len(b)
    BY <2>1, <1>1
  <2>3. BiTail(s, n + 1) = 0 /\ BiTail(result, n + 1) = 0
    BY <2>1, <1>3, BiTailIs DEF n
  <2>4. BiTail(b, n - i + 2) = 0
    BY <2>2, BiTailIs
  <2>5. BiTail(s, n + 1) = BiTail(result, n + 1) + av * BiTail(b, n - i + 2) + carry[n]
    BY <2>3, <2>4, <1>7, <1>10
  <2> QED BY <2>5, <1>1
<1>12. \A k \in 1 .. n : k \in S => k - 1 \in S
  <2> SUFFICES ASSUME NEW k \in 1 .. n, k \in S, k >= i
               PROVE  BiTail(s, k) = BiTail(result, k) + av * BiTail(b,
                          k - i + 1) + carry[k - 1]
    <3>1. ASSUME NEW k \in 1 .. n
          PROVE  k - 1 \in 0 .. n /\ (k - 1) + 1 = k /\ (k - 1) - i + 2 = k - i + 1
      BY <1>1
    <3> QED BY <3>1
  <2> DEFINE B == Limb(b, k - i + 1)
             R == result[k]
             D == s[k]
             p == BiTail(result, k + 1)
             q == BiTail(b, k - i + 2)
             c == carry[k]
             was == carry[k - 1]
  <2>1. /\ k \in Nat \ {0} /\ k - i + 1 \in Nat \ {0} /\ (k - i + 1) + 1 = k - i + 2
        /\ k - 1 \in 0 .. n /\ k \in 0 .. n /\ k + 1 >= i
    BY <1>1
  <2>2. BiTail(s, k + 1) = p + av * q + c
    BY <2>1
  <2>3. BiTail(result, k) = R + Base * p /\ p \in Nat
    BY <2>1, <1>4, BiTailIs
  <2>4. BiTail(b, k - i + 1) = B + Base * q /\ q \in Nat
    BY <2>1, BiTailIs
  <2>5. BiTail(s, k) = D + Base * (p + av * q + c)
    BY <2>1, <2>2, <1>3, <1>4, BiTailIs
  <2>6. av * B + R + was = D + Base * c
    BY <1>3
  <2>7. B \in Nat /\ R \in Nat /\ D \in Nat /\ c \in Nat /\ was \in Nat
    <3>1. B \in Nat
      BY BiLimb, BiBase
    <3>2. c \in Nat /\ was \in Nat
      BY <2>1, <1>5
    <3> QED BY <3>1, <3>2, <1>4
  <2> HIDE DEF B, R, D, p, q, c, was
  <2>0. Base \in Nat /\ av \in Nat /\ p \in Nat /\ q \in Nat /\ c \in Nat /\ B \in Nat
    BY <2>3, <2>4, <2>7, <1>7, BiBase
  <2>8. Base * (p + av * q + c) = Base * p + av * (Base * q) + Base * c
    <3>1. av * q \in Nat /\ Base * (av * q) = av * (Base * q)
      BY <2>0, BiTimes, BiPast, Zenon
    <3>2. Base * (p + av * q + c) = Base * p + Base * (av * q) + Base * c
      <4> DEFINE w == av * q
      <4>1. w \in Nat
        BY <3>1
      <4> HIDE DEF w
      <4>2. Base * (p + w + c) = Base * p + Base * w + Base * c
        BY <4>1, <2>0
      <4> QED BY <4>2 DEF w
    <3> QED BY <3>1, <3>2, Zenon
  <2>10. /\ Base * p \in Nat /\ Base * c \in Nat /\ av * B \in Nat
         /\ Base * q \in Nat /\ av * (Base * q) \in Nat
    <3>1. Base * p \in Nat /\ Base * q \in Nat /\ Base * c \in Nat /\ av * B \in Nat
      BY <2>0, BiTimes, Zenon
    <3> QED BY <2>0, <3>1, BiTimes, Zenon
  <2>9. av * (B + Base * q) = av * B + av * (Base * q)
    <3> DEFINE w == Base * q
    <3>1. w \in Nat
      BY <2>10
    <3> HIDE DEF w
    <3>2. av * (B + w) = av * B + av * w
      BY <3>1, <2>0
    <3> QED BY <3>2 DEF w
  <2>11. D + Base * (p + av * q + c) = (R + Base * p) + av * (B + Base * q) + was
    <3> DEFINE z == Base * (p + av * q + c)
               y == av * (B + Base * q)
               P == Base * p
               C == Base * c
               M == av * B
               Q == av * (Base * q)
    <3>1. /\ z = P + Q + C /\ y = M + Q /\ M + R + was = D + C
          /\ P \in Nat /\ C \in Nat /\ M \in Nat /\ Q \in Nat
      BY <2>6, <2>8, <2>9, <2>10
    <3> HIDE DEF z, y, P, C, M, Q
    <3>2. D + z = (R + P) + y + was
      BY <3>1, <2>7
    <3> QED BY <3>2 DEF z, y, P
  <2>12. BiTail(s, k) = BiTail(result, k) + av * BiTail(b, k - i + 1) + was
    BY <2>3, <2>4, <2>5, <2>11
  <2> QED BY <2>12 DEF was
<1> HIDE DEF S
<1>13. \A k \in 0 .. n : k \in S
  BY <1>1, <1>11, <1>12, BiDown
<1>14. BiTail(s, i) = BiTail(result, i) + av * BiTail(b, 1) + carry[i - 1]
  <2>1. i - 1 \in S /\ (i - 1) + 1 = i /\ (i - 1) - i + 2 = 1 /\ i >= i
    BY <1>1, <1>13
  <2> QED BY <2>1 DEF S
<1>15. carry[i - 1] = 0
  <2>1. i - 1 = 0 \/ (i - 1 \in 1 .. n /\ i - 1 < i)
    BY <1>1
  <2> QED BY <2>1, <1>2
<1>16. BiTail(s, i) = BiTail(result, i) + av * Magnitude(b)
  <2> DEFINE z == av * BiTail(b, 1)
             r == BiTail(result, i)
  <2>1. z \in Nat /\ r \in Nat
    <3>1. BiTail(b, 1) \in Nat /\ BiTail(result, i) \in Nat
      BY BiTailIs
    <3> QED BY <3>1, <1>7
  <2>2. BiTail(s, i) = r + z + 0
    BY <1>14, <1>15
  <2> HIDE DEF z, r
  <2>3. BiTail(s, i) = r + z
    BY <2>1, <2>2
  <2>4. Magnitude(b) = BiTail(b, 1)
    BY BiTailIs
  <2> QED BY <2>3, <2>4 DEF z, r
<1> QED BY <1>9, <1>16 DEF n, s, end

LEMMA BiRowsAre ==
  ASSUME Assumptions, NEW a \in BiLimbs, NEW b \in BiLimbs
  PROVE  /\ Rows(a, b) \in [0 .. Len(a) -> {r \in BiLimbs : Len(r) = Len(a) + Len(b)}]
         /\ Rows(a, b)[0] = [k \in 1 .. (Len(a) + Len(b)) |-> 0]
         /\ \A i \in 1 .. Len(a) :
              Rows(a, b)[i] = AddRow(Rows(a, b)[i - 1], b, a[i], i)
<1> DEFINE n == Len(a)
           T == {r \in BiLimbs : Len(r) = Len(a) + Len(b)}
           e == [k \in 1 .. (Len(a) + Len(b)) |-> 0]
           Step(i, t) == AddRow(t, b, a[i], i)
           F == [i \in 1 .. n |-> [t \in T |-> Step(i, t)]]
           P(g) == g = [i \in 0 .. n |-> IF i
               = 0 THEN [k \in 1 .. (Len(a) + Len(b)) |-> 0]
                   ELSE AddRow(g[i - 1], b, a[i], i)]
           H == Rows(a, b)
<1>1. n \in Nat /\ e \in T
  <2>1. Len(a) \in Nat /\ Len(b) \in Nat /\ Len(a) + Len(b) \in Nat
    BY BiLimb
  <2>2. e \in [1 .. (Len(a) + Len(b)) -> BiDigits]
    BY BiBase
  <2> HIDE DEF e
  <2>3. e \in Seq(BiDigits) /\ Len(e) = Len(a) + Len(b)
    BY <2>1, <2>2, SeqDef, LenProperties
  <2> QED BY <2>1, <2>3 DEF BiLimbs
<1>2. \A i \in 1 .. n, t \in T : Step(i, t) \in T
  <2> SUFFICES ASSUME NEW i \in 1 .. n, NEW t \in T PROVE Step(i, t) \in T
    OBVIOUS
  <2>1. a[i] \in BiDigits /\ i \in Nat \ {0}
    BY BiLimb
  <2> QED BY <2>1, BiRowTypes
<1>3. H = CHOOSE h : P(h)
  BY Zenon DEF Rows, n
<1> HIDE DEF n, T, e, Step, H
<1>4. F \in [1 .. n -> [T -> T]]
  BY <1>2
<1>5. \A i \in 1 .. n, t \in T : F[i][t] = Step(i, t)
  OBVIOUS
<1> HIDE DEF F
<1>6. PICK g \in [0 .. n -> T] : g[0] = e /\ \A i \in 1 .. n : g[i] = F[i][g[i - 1]]
  <2>1. n \in Nat /\ e \in T
    BY <1>1
  <2>2. BiRuns(n, T, e, F) # {}
    BY <2>1, <1>4, BiDefined, Zenon
  <2> QED BY <2>2 DEF BiRuns
<1>7. P(g)
  <2>1. \A i \in 1 .. n : i - 1 \in 0 .. n
    BY <1>1
  <2>2. \A i \in 1 .. n : g[i] = Step(i, g[i - 1])
    BY <2>1, <1>5, <1>6
  <2>3. \A i \in 0 .. n : i = 0 \/ (i \in 1 .. n /\ i # 0)
    BY <1>1
  <2>4. \A i \in 0 .. n : g[i] = IF i = 0 THEN [k \in 1 .. (Len(a) + Len(b)) |-> 0]
            ELSE AddRow(g[i - 1], b, a[i], i)
    BY <2>2, <2>3, <1>6 DEF Step, e
  <2> QED BY <2>4, <1>6, Zenon
<1>8. P(H)
  <2> HIDE DEF P
  <2> QED BY <1>3, <1>7, Zenon
<1>9. H[0] = e /\ \A i \in 1 .. n : H[i] = Step(i, H[i - 1])
  <2>1. 0 \in 0 .. n /\ \A i \in 1 .. n : i \in 0 .. n /\ i # 0
    BY <1>1
  <2>2. \A i \in 0 .. n : H[i] = IF i = 0 THEN [k \in 1 .. (Len(a) + Len(b)) |-> 0]
            ELSE AddRow(H[i - 1], b, a[i], i)
    BY <1>8, Zenon
  <2> QED BY <2>1, <2>2 DEF Step, e
<1> DEFINE S == {i \in 0 .. n : H[i] \in T}
<1>10. 0 \in S /\ \A i \in 1 .. n : i - 1 \in S => i \in S
  <2>1. 0 \in S
    BY <1>1, <1>9
  <2>2. ASSUME NEW i \in 1 .. n, i - 1 \in S PROVE i \in S
    <3>1. Step(i, H[i - 1]) \in T
      BY <2>2, <1>2
    <3> QED BY <3>1, <1>1, <1>9
  <2> QED BY <2>1, <2>2
<1> HIDE DEF S
<1>11. \A i \in 0 .. n : i \in S
  <2>1. n \in Nat
    BY <1>1
  <2> QED BY <2>1, <1>10, BiUp
<1>12. \A i \in 0 .. n : H[i] \in T
  BY <1>11 DEF S
<1>13. H \in [0 .. n -> T]
  <2>1. H = [i \in 0 .. n |-> H[i]]
    BY <1>8
  <2> HIDE DEF P
  <2> QED BY <2>1, <1>12
<1> QED BY <1>9, <1>13, Zenon DEF n, T, e, H, Step

\* After the row of a limb, the result from that limb on holds the product with the
\* limbs so far, and no row changes what is below it.
LEMMA BiProduct ==
  ASSUME Assumptions, NEW a \in BiLimbs, NEW b \in BiLimbs
  PROVE  /\ Rows(a, b)[Len(a)] \in BiLimbs
         /\ Magnitude(Rows(a, b)[Len(a)]) = Magnitude(a) * Magnitude(b)
<1> DEFINE la == Len(a)
           lb == Len(b)
           n == Len(a) + Len(b)
           rows == Rows(a, b)
           final == rows[la]
           mb == Magnitude(b)
<1>1. /\ la \in Nat /\ lb \in Nat /\ n \in Nat /\ n = la + lb /\ la \in 0 .. la
      /\ 0 \in 0 .. la
  BY BiLimb
<1>2. /\ \A i \in 0 .. la : rows[i] \in BiLimbs /\ Len(rows[i]) = n
      /\ \A k \in 1 .. n : rows[0][k] = 0
      /\ \A i \in 1 .. la : rows[i] = AddRow(rows[i - 1], b, a[i], i)
  <2> DEFINE T == {r \in BiLimbs : Len(r) = n}
  <2>1. /\ rows \in [0 .. la -> T] /\ rows[0] = [k \in 1 .. n |-> 0]
        /\ \A i \in 1 .. la : rows[i] = AddRow(rows[i - 1], b, a[i], i)
    BY BiRowsAre, Zenon
  <2> HIDE DEF rows, la, n
  <2>2. \A k \in 1 .. n : rows[0][k] = 0
    BY <2>1
  <2>3. \A i \in 0 .. la : rows[i] \in T
    <3> HIDE DEF T
    <3> QED BY <2>1
  <2> QED BY <2>1, <2>2, <2>3
<1>3. /\ \A i \in 1 .. la : a[i] \in BiDigits /\ Limb(a, i) = a[i] /\ a[i] \in Nat
      /\ mb \in Nat
  BY BiLimb, BiBase, BiTailIs
<1> HIDE DEF la, n, rows, mb
<1>4. \A i \in 1 .. la : /\ i \in Nat \ {0} /\ i - 1 \in 0 .. la /\ i \in 0 .. la
                         /\ i + lb <= n /\ (i - 1) + lb + 1 = i + lb
  BY <1>1
\* A row reaches one limb further than the one before.
<1> DEFINE Z == {i \in 0 .. la : \A k \in 1 .. n : k >= i + lb + 1 => rows[i][k] = 0}
<1>5. \A i \in 0 .. la : i \in Z
  <2>1. 0 \in Z
    BY <1>1, <1>2
  <2>2. ASSUME NEW i \in 1 .. la, i - 1 \in Z PROVE i \in Z
    <3> DEFINE r == rows[i - 1]
    <3>1. r \in BiLimbs /\ Len(r) = n /\ a[i] \in BiDigits /\ i \in Nat \ {0} /\ i + lb <= n
      BY <1>2, <1>3, <1>4
    <3>2. \A k \in 1 .. n : k >= i + lb => r[k] = 0
      BY <2>2, <1>4
    <3>3. rows[i] = AddRow(r, b, a[i], i)
      BY <1>2
    <3> HIDE DEF r
    <3>4. \A k \in 1 .. n : k >= i + lb + 1 => AddRow(r, b, a[i], i)[k] = 0
      BY <3>1, <3>2, BiRow
    <3>5. \A k \in 1 .. n : k >= i + lb + 1 => rows[i][k] = 0
      BY <3>3, <3>4
    <3> QED BY <3>5, <1>4
  <2> HIDE DEF Z
  <2> QED BY <1>1, <2>1, <2>2, BiUp
<1>6. ASSUME NEW i \in 1 .. la
      PROVE  /\ BiTail(rows[i], i) = BiTail(rows[i - 1], i) + a[i] * mb
             /\ \A k \in 1 .. n : k < i => rows[i][k] = rows[i - 1][k]
  <2> DEFINE r == rows[i - 1]
  <2>1. r \in BiLimbs /\ Len(r) = n /\ a[i] \in BiDigits /\ i \in Nat \ {0} /\ i + lb <= n
    BY <1>2, <1>3, <1>4
  <2>2. i - 1 \in Z /\ (i - 1) + lb + 1 = i + lb
    BY <1>4, <1>5
  <2>3. \A k \in 1 .. n : k >= i + lb => r[k] = 0
    BY <2>2
  <2>4. rows[i] = AddRow(r, b, a[i], i)
    BY <1>2
  <2> HIDE DEF r, Z
  <2>5. BiTail(AddRow(r, b, a[i], i), i) = BiTail(r, i) + a[i] * Magnitude(b)
    BY <2>1, <2>3, BiRow
  <2>6. \A k \in 1 .. n : k < i => AddRow(r, b, a[i], i)[k] = r[k]
    BY <2>1, BiRowTypes
  <2> QED BY <2>4, <2>5, <2>6, Zenon DEF r, mb
<1> HIDE DEF Z, final
<1>7. final = rows[la] /\ final \in BiLimbs /\ Len(final) = n
  BY <1>1, <1>2 DEF final
<1> DEFINE S == {i \in 0 .. la :
                  /\ \A k \in 1 .. n : k <= i => final[k] = rows[i][k]
                  /\ BiTail(final, i + 1) = BiTail(rows[i], i + 1) + BiTail(a, i + 1) * mb}
<1>8. la \in S
  <2>1. la + 1 \notin 1 .. la
    BY <1>1
  <2>2. BiTail(a, la + 1) = 0
    BY <2>1, BiTailIs DEF la
  <2>3. BiTail(final, la + 1) \in Nat
    BY <1>7, BiTailIs
  <2>4. BiTail(final, la + 1) = BiTail(final, la + 1) + 0 * mb
    <3>1. 0 * mb = 0
      BY <1>3
    <3> QED BY <2>3, <3>1
  <2> QED BY <1>1, <1>7, <2>2, <2>4
<1>9. ASSUME NEW i \in 1 .. la, i \in S PROVE i - 1 \in S
  <2>1. \A k \in 1 .. n : k <= i => final[k] = rows[i][k]
    BY <1>9
  <2>2. \A k \in 1 .. n : k <= i - 1 => final[k] = rows[i - 1][k]
    <3>1. \A k \in 1 .. n : k <= i - 1 => k <= i /\ k < i
      BY <1>4
    <3> QED BY <3>1, <2>1, <1>6
  <2> DEFINE A == a[i]
             F == final[i]
             p == BiTail(rows[i], i + 1)
             q == BiTail(a, i + 1)
             was == BiTail(rows[i - 1], i)
  <2>3. BiTail(final, i + 1) = p + q * mb
    BY <1>9
  <2>4. /\ i \in Nat \ {0} /\ i \in 1 .. n /\ i <= i /\ i - 1 \in 0 .. la /\ i \in 0 .. la
        /\ (i - 1) + 1 = i
    BY <1>1, <1>4
  <2>5. Limb(final, i) = F /\ F \in Nat /\ Limb(rows[i], i) = F
    <3>1. rows[i] \in BiLimbs /\ Len(rows[i]) = n
      BY <2>4, <1>2
    <3>2. Limb(rows[i], i) = rows[i][i] /\ Limb(final, i) = F /\ F \in BiDigits
      BY <3>1, <2>4, <1>7, BiLimb
    <3> QED BY <3>2, <2>1, <2>4, BiBase
  <2>6. BiTail(final, i) = F + Base * (p + q * mb)
    BY <2>3, <2>4, <2>5, <1>7, BiTailIs
  <2>7. /\ BiTail(rows[i], i) = F + Base * p /\ p \in Nat /\ q \in Nat /\ was \in Nat
        /\ BiTail(a, i) = A + Base * q
    <3>1. rows[i] \in BiLimbs /\ rows[i - 1] \in BiLimbs
      BY <2>4, <1>2
    <3>2. Limb(a, i) = A
      BY <1>3
    <3> QED BY <3>1, <3>2, <2>4, <2>5, BiTailIs
  <2>8. F + Base * p = was + A * mb
    BY <2>7, <1>6
  <2>9. A \in Nat
    BY <1>3
  <2> HIDE DEF A, F, p, q, was
  <2>10. Base * (p + q * mb) = Base * p + (Base * q) * mb
    BY <2>7, <1>3, BiBase
  <2>11. (A + Base * q) * mb = A * mb + (Base * q) * mb
    BY <2>7, <2>9, <1>3, BiBase
  <2>12. Base * p \in Nat /\ A * mb \in Nat /\ (Base * q) * mb \in Nat
    BY <2>7, <2>9, <1>3, BiBase
  <2>13. F + Base * (p + q * mb) = was + (A + Base * q) * mb
    <3> DEFINE z == Base * (p + q * mb)
               y == (A + Base * q) * mb
               P == Base * p
               M == A * mb
               Q == (Base * q) * mb
    <3>1. z = P + Q /\ y = M + Q /\ F + P = was + M /\ P \in Nat /\ M \in Nat /\ Q \in Nat
      BY <2>8, <2>10, <2>11, <2>12
    <3> HIDE DEF z, y, P, M, Q
    <3>2. F + z = was + y
      BY <3>1, <2>5, <2>7
    <3> QED BY <3>2 DEF z, y
  <2>14. BiTail(final, i) = BiTail(rows[i - 1], i) + BiTail(a, i) * mb
    BY <2>6, <2>7, <2>13 DEF was
  <2> QED BY <2>2, <2>4, <2>14
<1> HIDE DEF S
<1>10. \A i \in 0 .. la : i \in S
  BY <1>1, <1>8, <1>9, BiDown
<1>11. BiTail(final, 1) = BiTail(rows[0], 1) + BiTail(a, 1) * mb
  <2>1. 0 \in S /\ 0 + 1 = 1
    BY <1>1, <1>10
  <2> QED BY <2>1 DEF S
<1>12. BiTail(rows[0], 1) = 0
  <2>1. rows[0] \in BiLimbs /\ Len(rows[0]) = n
    BY <1>1, <1>2
  <2>2. \A k \in Nat : k >= 1 => Limb(rows[0], k) = 0 /\ Limb(<<>>, k) = 0
    <3> SUFFICES ASSUME NEW k \in Nat PROVE Limb(rows[0], k) = 0 /\ Limb(<<>>, k) = 0
      OBVIOUS
    <3>1. Limb(<<>>, k) = 0
      <4>1. k \notin 1 .. Len(<<>>)
        BY BiEmpty
      <4> QED BY <4>1, BiEmpty, BiLimb
    <3>2. Limb(rows[0], k) = 0
      BY <2>1, <1>2, BiLimb
    <3> QED BY <3>1, <3>2
  <2>3. 1 \in Nat \ {0} /\ 1 >= 1
    OBVIOUS
  <2>4. <<>> \in BiLimbs /\ BiTail(<<>>, 1) = 0
    BY BiEmpty
  <2>5. BiTail(rows[0], 1) = BiTail(<<>>, 1)
    <3> DEFINE r == rows[0]
               o == <<>>
    <3>1. r \in BiLimbs /\ o \in BiLimbs /\ 1 \in Nat \ {0}
      BY <2>1, <2>4
    <3>2. \A j \in Nat : j >= 1 => Limb(r, j) = Limb(o, j)
      BY <2>2
    <3> HIDE DEF r, o
    <3>3. \A j \in Nat : j >= 1 => BiTail(r, j) = BiTail(o, j)
      BY <3>1, <3>2, BiSame, Zenon
    <3>4. BiTail(r, 1) = BiTail(o, 1)
      BY <2>3, <3>3
    <3> QED BY <3>4 DEF r, o
  <2> QED BY <2>4, <2>5
<1>13. Magnitude(final) = Magnitude(a) * mb
  <2>1. /\ Magnitude(final) = BiTail(final, 1) /\ Magnitude(a) = BiTail(a, 1)
        /\ BiTail(a, 1) \in Nat
    BY <1>7, BiTailIs
  <2>2. BiTail(a, 1) * mb \in Nat
    BY <2>1, <1>3
  <2> QED BY <2>1, <2>2, <1>11, <1>12
<1> QED BY <1>7, <1>13 DEF mb, rows, la

\* Where the search may be: the limb it looks for is from lo to hi.
BiRange(b, s) ==
  {r \in [lo : 1 .. (Base - 1), hi : 1 .. (Base - 1)] :
     /\ r.lo <= r.hi
     /\ Magnitude(b) * r.lo <= Magnitude(s)
     /\ Magnitude(s) < Magnitude(b) * r.hi + Magnitude(b)}

-----------------------------------------------------------------------------
(* A limb of the quotient.                                                 *)

\* A round of the search keeps the limb between its ends, and brings them together.
LEMMA BiHalved ==
  ASSUME Assumptions, NEW b \in BiLimbs, NEW s \in BiLimbs, BiFull(b), BiFull(s),
         NEW r \in BiRange(b, s)
  PROVE  /\ Halved(b, s, r) \in BiRange(b, s)
         /\ r.lo < r.hi => Halved(b, s, r).hi - Halved(b, s, r).lo < r.hi - r.lo
         /\ r.lo >= r.hi => Halved(b, s, r) = r
<1> DEFINE lo == r.lo
           hi == r.hi
           mid == (lo + hi + 1) \div 2
           mb == Magnitude(b)
           ms == Magnitude(s)
           h == Halved(b, s, r)
<1>1. /\ lo \in 1 .. (Base - 1) /\ hi \in 1 .. (Base - 1) /\ lo <= hi
      /\ mb * lo <= ms /\ ms < mb * hi + mb /\ mb \in Nat /\ ms \in Nat
  BY BiTailIs DEF BiRange
<1>2. CASE lo >= hi
  <2>1. h = r
    BY <1>2, Zenon DEF Halved
  <2> QED BY <2>1, <1>1, <1>2
<1>3. CASE ~ (lo >= hi)
  <2>1. lo < hi
    BY <1>1, <1>3, BiBase
  <2>2. mid \in 1 .. (Base - 1) /\ lo < mid /\ mid <= hi
    BY <1>1, <2>1, BiBase
  <2>3. mid \in BiDigits /\ mid # 0
    BY <2>2, BiBase DEF BiDigits
  <2> HIDE DEF mid
  <2>4. LessThan(s, mul_small(b, mid)) <=> ms < mb * mid
    <3>1. /\ mul_small(b, mid) \in BiLimbs /\ BiFull(mul_small(b, mid))
          /\ Magnitude(mul_small(b, mid)) = mb * mid
      BY <2>3, BiSmall
    <3> QED BY <3>1, BiLess
  <2>5. CASE ms < mb * mid
    <3>1. h = [lo |-> lo, hi |-> mid - 1]
      BY <2>4, <2>5, <1>3, Zenon DEF Halved, mid
    <3>2. mid - 1 \in 1 .. (Base - 1) /\ lo <= mid - 1 /\ (mid - 1) - lo < hi - lo
      BY <2>2, <1>1, BiBase
    <3>3. mb * mid = mb * (mid - 1) + mb
      BY <2>2, <1>1, BiBase
    <3>4. ms < mb * (mid - 1) + mb
      <4> DEFINE y == mb * (mid - 1) + mb
      <4>1. mb * mid = y
        BY <3>3
      <4> HIDE DEF y
      <4>2. ms < y
        BY <2>5, <4>1
      <4> QED BY <4>2 DEF y
    <3>5. h.lo = lo /\ h.hi = mid - 1 /\ h \in [lo : 1 .. (Base - 1), hi : 1 .. (Base - 1)]
      BY <3>1, <3>2, <1>1
    <3> HIDE DEF h, lo, hi, mb, ms
    <3>6. /\ h.lo <= h.hi /\ mb * h.lo <= ms /\ ms < mb * h.hi + mb
      BY <3>2, <3>4, <3>5, <1>1
    <3>7. h \in BiRange(b, s)
      BY <3>5, <3>6, Zenon DEF BiRange, mb, ms
    <3>8. h.hi - h.lo < hi - lo
      BY <3>2, <3>5
    <3> QED BY <3>7, <3>8, <1>3, Zenon DEF h, lo, hi
  <2>6. CASE ~ (ms < mb * mid)
    <3>1. h = [lo |-> mid, hi |-> hi]
      BY <2>4, <2>6, <1>3, Zenon DEF Halved, mid
    <3>2. h.lo = mid /\ h.hi = hi /\ h \in [lo : 1 .. (Base - 1), hi : 1 .. (Base - 1)]
      BY <3>1, <2>2, <1>1
    <3>3. mb * mid \in Nat
      BY <2>2, <1>1, BiBase
    <3>4. mb * mid <= ms
      <4> DEFINE y == mb * mid
      <4>1. y \in Nat /\ ~ (ms < y)
        BY <2>6, <3>3
      <4> HIDE DEF y
      <4>2. y <= ms
        BY <4>1, <1>1
      <4> QED BY <4>2 DEF y
    <3> HIDE DEF h, lo, hi, mb, ms
    <3>5. /\ h.lo <= h.hi /\ mb * h.lo <= ms /\ ms < mb * h.hi + mb
      BY <3>2, <3>4, <2>2, <1>1
    <3>6. h \in BiRange(b, s)
      BY <3>2, <3>5, Zenon DEF BiRange, mb, ms
    <3>7. h.hi - h.lo < hi - lo
      BY <2>2, <3>2, <1>1, BiBase
    <3> QED BY <3>6, <3>7, <1>3, Zenon DEF h, lo, hi
  <2> QED BY <2>5, <2>6
<1> QED BY <1>2, <1>3

LEMMA BiSearchIs ==
  ASSUME Assumptions, NEW b \in BiLimbs, NEW s \in BiLimbs, BiFull(b), BiFull(s),
         ~ LessThan(s, b), Magnitude(s) < Base * Magnitude(b)
  PROVE  /\ Search(b, s) \in [0 .. Base -> BiRange(b, s)]
         /\ Search(b, s)[0] = [lo |-> 1, hi |-> Base - 1]
         /\ \A k \in 1 .. Base :
              Search(b, s)[k] = Halved(b, s, Search(b, s)[k - 1])
<1> DEFINE n == Base
           T == BiRange(b, s)
           e == [lo |-> 1, hi |-> Base - 1]
           Step(k, t) == Halved(b, s, t)
           F == [k \in 1 .. n |-> [t \in T |-> Step(k, t)]]
           P(g) == g = [k \in 0 .. n |-> IF k = 0 THEN [lo |-> 1, hi |-> Base - 1]
               ELSE Halved(b, s, g[k - 1])]
           H == Search(b, s)
<1>1. n \in Nat /\ e \in T
  <2> DEFINE mb == Magnitude(b)
             ms == Magnitude(s)
             top == Base - 1
  <2>1. mb \in Nat /\ ms \in Nat /\ mb <= ms
    <3>1. mb \in Nat /\ ms \in Nat
      BY BiTailIs
    <3>2. ~ (ms < mb)
      BY BiLess
    <3> QED BY <3>1, <3>2
  <2>2. top \in Nat /\ 1 \in 1 .. top /\ top \in 1 .. top /\ 1 <= top /\ Base \in Nat
    BY BiBase
  <2>3. mb * 1 <= ms
    BY <2>1
  <2>4. Base * mb = mb * top + mb
    BY <2>1, BiBase
  <2>5. ms < mb * top + mb
    BY <2>4
  <2> HIDE DEF mb, ms, top
  <2>6. e = [lo |-> 1, hi |-> top] /\ n = Base
    BY DEF top
  <2> HIDE DEF e, n
  <2>7. e \in [lo : 1 .. top, hi : 1 .. top] /\ e.lo = 1 /\ e.hi = top
    BY <2>2, <2>6
  <2>8. e.lo <= e.hi /\ mb * e.lo <= ms /\ ms < mb * e.hi + mb
    BY <2>2, <2>3, <2>5, <2>7
  <2>9. e \in BiRange(b, s)
    BY <2>7, <2>8, Zenon DEF BiRange, mb, ms, top
  <2> QED BY <2>2, <2>6, <2>9
<1>2. \A k \in 1 .. n, t \in T : Step(k, t) \in T
  BY BiHalved
<1>3. H = CHOOSE h : P(h)
  BY Zenon DEF Search, n
<1> HIDE DEF n, T, e, Step, H
<1>4. F \in [1 .. n -> [T -> T]]
  BY <1>2
<1>5. \A k \in 1 .. n, t \in T : F[k][t] = Step(k, t)
  OBVIOUS
<1> HIDE DEF F
<1>6. PICK g \in [0 .. n -> T] : g[0] = e /\ \A k \in 1 .. n : g[k] = F[k][g[k - 1]]
  <2>1. n \in Nat /\ e \in T
    BY <1>1
  <2>2. BiRuns(n, T, e, F) # {}
    BY <2>1, <1>4, BiDefined, Zenon
  <2> QED BY <2>2 DEF BiRuns
<1>7. P(g)
  <2>1. \A k \in 1 .. n : k - 1 \in 0 .. n
    BY <1>1
  <2>2. \A k \in 1 .. n : g[k] = Step(k, g[k - 1])
    BY <2>1, <1>5, <1>6
  <2>3. \A k \in 0 .. n : k = 0 \/ (k \in 1 .. n /\ k # 0)
    BY <1>1
  <2>4. \A k \in 0 .. n : g[k] = IF k = 0 THEN [lo |-> 1, hi |-> Base - 1]
            ELSE Halved(b, s, g[k - 1])
    BY <2>2, <2>3, <1>6 DEF Step, e
  <2> QED BY <2>4, <1>6, Zenon
<1>8. P(H)
  <2> HIDE DEF P
  <2> QED BY <1>3, <1>7, Zenon
<1>9. H[0] = e /\ \A k \in 1 .. n : H[k] = Step(k, H[k - 1])
  <2>1. 0 \in 0 .. n /\ \A k \in 1 .. n : k \in 0 .. n /\ k # 0
    BY <1>1
  <2>2. \A k \in 0 .. n : H[k] = IF k = 0 THEN [lo |-> 1, hi |-> Base - 1]
            ELSE Halved(b, s, H[k - 1])
    BY <1>8, Zenon
  <2> QED BY <2>1, <2>2 DEF Step, e
<1> DEFINE S == {k \in 0 .. n : H[k] \in T}
<1>10. 0 \in S /\ \A k \in 1 .. n : k - 1 \in S => k \in S
  <2>1. 0 \in S
    BY <1>1, <1>9
  <2>2. ASSUME NEW k \in 1 .. n, k - 1 \in S PROVE k \in S
    <3>1. Step(k, H[k - 1]) \in T
      BY <2>2, <1>2
    <3> QED BY <3>1, <1>1, <1>9
  <2> QED BY <2>1, <2>2
<1> HIDE DEF S
<1>11. \A k \in 0 .. n : k \in S
  <2>1. n \in Nat
    BY <1>1
  <2> QED BY <2>1, <1>10, BiUp
<1>12. \A k \in 0 .. n : H[k] \in T
  BY <1>11 DEF S
<1>13. H \in [0 .. n -> T]
  <2>1. H = [k \in 0 .. n |-> H[k]]
    BY <1>8
  <2> HIDE DEF P
  <2> QED BY <2>1, <1>12
<1> QED BY <1>9, <1>13, Zenon DEF n, T, e, H, Step

\* The search ends at the quotient's limb.
LEMMA BiQuotientLimb ==
  ASSUME Assumptions, NEW b \in BiLimbs, NEW s \in BiLimbs, BiFull(b), BiFull(s),
         Magnitude(s) < Base * Magnitude(b)
  PROVE  /\ QuotientLimb(b, s) \in BiDigits
         /\ Magnitude(b) * QuotientLimb(b, s) <= Magnitude(s)
         /\ Magnitude(s) < Magnitude(b) * QuotientLimb(b, s) + Magnitude(b)
<1> DEFINE q == QuotientLimb(b, s)
           mb == Magnitude(b)
           ms == Magnitude(s)
<1>1. mb \in Nat /\ ms \in Nat
  BY BiTailIs
<1>2. CASE LessThan(s, b)
  <2>1. q = 0
    BY <1>2, Zenon DEF QuotientLimb
  <2>2. ms < mb
    BY <1>2, BiLess
  <2>3. mb * 0 = 0
    BY <1>1
  <2> HIDE DEF q, mb, ms
  <2>4. mb * q <= ms /\ ms < mb * q + mb
    BY <1>1, <2>1, <2>2, <2>3
  <2> QED BY <2>1, <2>4, BiBase, Zenon DEF q, mb, ms
<1>3. CASE ~ LessThan(s, b)
  <2> DEFINE H == Search(b, s)
             T == BiRange(b, s)
             S == {k \in 0 .. Base : H[k].lo >= H[k].hi \/ H[k].hi - H[k].lo <= Base - 2
                 - k}
  <2>1. /\ H \in [0 .. Base -> T] /\ H[0] = [lo |-> 1, hi |-> Base - 1]
        /\ \A k \in 1 .. Base : H[k] = Halved(b, s, H[k - 1])
    BY <1>3, BiSearchIs, Zenon
  <2> HIDE DEF H
  <2>2. \A k \in 0 .. Base : /\ H[k] \in T /\ H[k].lo \in 1 .. (Base - 1)
            /\ H[k].hi \in 1 .. (Base - 1)
                             /\ H[k].lo <= H[k].hi
                             /\ mb * H[k].lo <= ms /\ ms < mb * H[k].hi + mb
    <3>1. \A k \in 0 .. Base : H[k] \in T
      <4> HIDE DEF T
      <4> QED BY <2>1
    <3> QED BY <3>1 DEF BiRange
  <2> HIDE DEF T
  <2>3. 0 \in S
    <3>1. H[0].lo = 1 /\ H[0].hi = Base - 1
      BY <2>1
    <3> QED BY <3>1, BiBase
  <2>4. ASSUME NEW k \in 1 .. Base, k - 1 \in S PROVE k \in S
    <3> DEFINE r == H[k - 1]
               h == H[k]
    <3>1. k \in 0 .. Base /\ k - 1 \in 0 .. Base /\ k \in Nat
      BY BiBase
    <3>2. /\ r \in T /\ r.lo \in Nat /\ r.hi \in Nat /\ h.lo \in Nat /\ h.hi \in Nat
          /\ h = Halved(b, s, r)
      BY <2>1, <2>2, <3>1
    <3>3. r.lo >= r.hi \/ r.hi - r.lo <= Base - 2 - (k - 1)
      BY <2>4
    <3> HIDE DEF r, h
    <3>4. (r.lo < r.hi => h.hi - h.lo < r.hi - r.lo) /\ (r.lo >= r.hi => h = r)
      BY <3>2, BiHalved DEF T
    <3>5. h.lo >= h.hi \/ h.hi - h.lo <= Base - 2 - k
      <4>1. CASE r.lo >= r.hi
        BY <4>1, <3>4
      <4>2. CASE r.lo < r.hi
        BY <4>2, <3>1, <3>2, <3>3, <3>4, BiBase
      <4> QED BY <4>1, <4>2, <3>2
    <3> QED BY <3>1, <3>5 DEF h
  <2> HIDE DEF S
  <2>5. \A k \in 0 .. Base : k \in S
    BY <2>3, <2>4, BiBase, BiUp
  <2>6. Base \in S /\ Base \in 0 .. Base
    BY <2>5, BiBase
  <2> DEFINE h == H[Base]
  <2>7. /\ h.lo \in 1 .. (Base - 1) /\ h.hi \in 1 .. (Base - 1) /\ h.lo <= h.hi
        /\ mb * h.lo <= ms /\ ms < mb * h.hi + mb
    BY <2>2, <2>6
  <2>8. h.lo >= h.hi \/ h.hi - h.lo <= Base - 2 - Base
    BY <2>6 DEF S
  <2>9. q = h.lo
    BY <1>3, Zenon DEF QuotientLimb, H
  <2> HIDE DEF h, q
  <2>10. h.lo = h.hi
    BY <2>7, <2>8, BiBase
  <2>11. q \in BiDigits
    BY <2>7, <2>9, BiBase DEF BiDigits
  <2> QED BY <2>7, <2>9, <2>10, <2>11 DEF q
<1> QED BY <1>2, <1>3

-----------------------------------------------------------------------------
(* Long division.                                                          *)

\* A limb that comes in below.
LEMMA BiCons ==
  ASSUME Assumptions, NEW l \in BiDigits, NEW a \in BiLimbs
  PROVE  /\ <<l>> \o a \in BiLimbs
         /\ Magnitude(<<l>> \o a) = l + Base * Magnitude(a)
<1> DEFINE c == <<l>> \o a
           n == Len(a)
<1>1. /\ c \in BiLimbs /\ Len(c) = n + 1 /\ n \in Nat /\ c[1] = l
      /\ \A i \in 1 .. n : c[i + 1] = a[i]
  <2>1. <<l>> \in Seq(BiDigits) /\ a \in Seq(BiDigits) /\ Len(<<l>>) = 1 /\ n \in Nat
    BY BiLimb DEF BiLimbs
  <2>2. c \in Seq(BiDigits) /\ Len(c) = n + 1
    BY <2>1, ConcatProperties
  <2>3. \A i \in 1 .. (n + 1) : c[i] = IF i <= 1 THEN <<l>>[i] ELSE a[i - 1]
    BY <2>1, ConcatProperties
  <2>4. c[1] = l
    BY <2>1, <2>3
  <2>5. ASSUME NEW i \in 1 .. n PROVE c[i + 1] = a[i]
    <3>1. i + 1 \in 1 .. (n + 1) /\ ~ (i + 1 <= 1) /\ (i + 1) - 1 = i
      BY <2>1
    <3> QED BY <3>1, <2>3
  <2> QED BY <2>1, <2>2, <2>4, <2>5 DEF BiLimbs
<1> HIDE DEF c
<1> DEFINE S == {i \in 0 .. n : BiTail(c, i + 2) = BiTail(a, i + 1)}
<1>2. n \in S
  <2>1. n + 2 \notin 1 .. Len(c) /\ n + 1 \notin 1 .. Len(a)
    BY <1>1
  <2>2. BiTail(c, n + 2) = 0 /\ BiTail(a, n + 1) = 0
    BY <2>1, <1>1, BiTailIs
  <2> QED BY <2>2, <1>1
<1>3. ASSUME NEW i \in 1 .. n, i \in S PROVE i - 1 \in S
  <2>1. /\ i \in Nat \ {0} /\ i + 1 \in Nat \ {0} /\ (i + 1) + 1 = i + 2
        /\ (i - 1) + 2 = i + 1
        /\ (i - 1) + 1 = i /\ i + 1 \in 1 .. (n + 1) /\ i - 1 \in 0 .. n
    BY <1>1
  <2>2. Limb(c, i + 1) = c[i + 1] /\ Limb(a, i) = a[i]
    BY <2>1, <1>1, BiLimb
  <2>3. BiTail(c, i + 1) = Limb(c, i + 1) + Base * BiTail(c, i + 2)
    BY <2>1, <1>1, BiTailIs
  <2>4. BiTail(a, i) = Limb(a, i) + Base * BiTail(a, i + 1)
    BY <2>1, BiTailIs
  <2>5. BiTail(c, i + 2) = BiTail(a, i + 1)
    BY <1>3
  <2>6. BiTail(c, i + 1) = BiTail(a, i)
    BY <2>2, <2>3, <2>4, <2>5, <1>1
  <2> QED BY <2>1, <2>6
<1> HIDE DEF S
<1>4. \A i \in 0 .. n : i \in S
  BY <1>1, <1>2, <1>3, BiDown
<1>5. BiTail(c, 2) = BiTail(a, 1)
  <2>1. 0 \in S /\ 0 + 2 = 2 /\ 0 + 1 = 1
    BY <1>1, <1>4
  <2> QED BY <2>1 DEF S
<1>6. Magnitude(c) = l + Base * Magnitude(a)
  <2>1. 1 \in 1 .. Len(c) /\ 1 \in Nat \ {0} /\ 1 + 1 = 2
    BY <1>1
  <2>2. Limb(c, 1) = l
    BY <2>1, <1>1, BiLimb
  <2>3. Magnitude(c) = BiTail(c, 1) /\ BiTail(c, 1) = Limb(c, 1) + Base * BiTail(c, 2)
    BY <2>1, <1>1, BiTailIs
  <2>4. Magnitude(a) = BiTail(a, 1)
    BY BiTailIs
  <2> QED BY <2>2, <2>3, <2>4, <1>5
<1> QED BY <1>1, <1>6 DEF c

\* Quotient and remainder on the way: the remainder is less than the divisor.
BiDivided(b) ==
  {r \in [quotient : BiLimbs, remainder : BiLimbs] :
     BiFull(r.remainder) /\ Magnitude(r.remainder) < Magnitude(b)}

\* One more limb under quotient and remainder.
LEMMA BiOneMore ==
  ASSUME Assumptions, NEW Q \in Nat, NEW q \in Nat, NEW m \in Nat, NEW R \in Nat,
         NEW r \in Nat, NEW l \in Nat,
         m * q + r = l + Base * R
  PROVE  (q + Base * Q) * m + r = l + Base * (Q * m + R)
<1>1. (q + Base * Q) * m = m * q + Base * (Q * m)
  BY BiBase
<1>2. Base * (Q * m + R) = Base * (Q * m) + Base * R
  BY BiBase
<1>3. m * q \in Nat /\ Base * (Q * m) \in Nat /\ Base * R \in Nat
  BY BiBase
<1> DEFINE f == (q + Base * Q) * m
           g == Base * (Q * m + R)
           c == m * q
           d == Base * (Q * m)
           e == Base * R
<1>4. f = c + d /\ g = d + e /\ c \in Nat /\ d \in Nat /\ e \in Nat /\ c + r = l + e
  BY <1>1, <1>2, <1>3
<1> HIDE DEF f, g, c, d, e
<1>5. f + r = l + g
  BY <1>4
<1> QED BY <1>5 DEF f, g

\* What a step of the division has to do to quotient and remainder.
BiBroughtDown(b, qr, limb, res) ==
  /\ res \in BiDivided(b)
  /\ \E q \in BiDigits :
       /\ res.quotient = <<q>> \o qr.quotient
       /\ Magnitude(b) * q + Magnitude(res.remainder)
              = limb + Base * Magnitude(qr.remainder)

LEMMA BiBringDown ==
  ASSUME Assumptions, NEW b \in BiLimbs, BiFull(b), NEW qr \in BiDivided(b),
         NEW limb \in BiDigits
  PROVE  BiBroughtDown(b, qr, limb, BringDown(qr, b, limb))
<1> DEFINE R == qr.remainder
           s == Trimmed(<<limb>> \o R)
           q == QuotientLimb(b, s)
           mb == Magnitude(b)
           mr == Magnitude(R)
           ms == Magnitude(s)
           P == mul_small(b, q)
           new == IF q = 0 THEN s ELSE Trimmed(sub_unsigned(s, P))
           res == BringDown(qr, b, limb)
<1>1. /\ qr.quotient \in BiLimbs /\ R \in BiLimbs /\ mr < mb /\ mb \in Nat /\ mr \in Nat
      /\ limb \in Nat /\ limb < Base
  BY BiTailIs, BiBase DEF BiDivided, BiDigits
<1>2. s \in BiLimbs /\ BiFull(s) /\ ms = limb + Base * mr
  BY <1>1, BiCons, BiTrimmed
<1>3. ms \in Nat /\ ms < Base * mb
  <2>1. Base * mr + Base <= Base * mb /\ Base * mr \in Nat /\ Base * mb \in Nat
    BY <1>1, BiScale
  <2> DEFINE y == Base * mr
             z == Base * mb
  <2>2. y + Base <= z /\ y \in Nat /\ z \in Nat /\ ms = limb + y
    BY <2>1, <1>2
  <2> HIDE DEF y, z, ms
  <2>3. ms \in Nat /\ ms < z
    BY <2>2, <1>1, BiBase
  <2> QED BY <2>3 DEF z
<1> HIDE DEF s
<1>4. q \in BiDigits /\ mb * q <= ms /\ ms < mb * q + mb
  BY <1>2, <1>3, BiQuotientLimb
<1> HIDE DEF q
<1>5. P \in BiLimbs /\ Magnitude(P) = mb * q /\ (q # 0 => BiFull(P))
  BY <1>4, BiSmall
<1> HIDE DEF P
<1>6. new \in BiLimbs /\ BiFull(new) /\ mb * q + Magnitude(new) = ms /\ Magnitude(new) < mb
  <2>1. CASE q = 0
    <3>1. mb * q = 0
      BY <2>1, <1>1
    <3>2. new = s
      BY <2>1
    <3> HIDE DEF new
    <3> QED BY <3>1, <3>2, <1>2, <1>3, <1>4, <1>1
  <2>2. CASE q # 0
    <3> DEFINE d == sub_unsigned(s, P)
    <3>1. Len(P) <= Len(s)
      <4>1. ~ LessThan(s, P)
        <5>1. BiFull(P) /\ ~ (ms < mb * q)
          <6>1. mb * q \in Nat
            BY <1>1, <1>4, BiBase
          <6> DEFINE y == mb * q
          <6>2. y \in Nat /\ y <= ms
            BY <6>1, <1>4
          <6> HIDE DEF y
          <6>3. ~ (ms < y)
            BY <6>2, <1>3
          <6> QED BY <6>3, <2>2, <1>5 DEF y
        <5> QED BY <5>1, <1>2, <1>5, BiLess
      <4>2. ~ (Len(s) < Len(P))
        BY <4>1 DEF LessThan
      <4>3. Len(s) \in Nat /\ Len(P) \in Nat
        BY <1>2, <1>5, BiLimb
      <4> QED BY <4>2, <4>3
    <3>2. d \in BiLimbs /\ Magnitude(d) = ms - mb * q
      BY <3>1, <1>2, <1>4, <1>5, BiSubtract
    <3>3. new = Trimmed(d)
      BY <2>2
    <3> HIDE DEF d
    <3>4. new \in BiLimbs /\ BiFull(new) /\ Magnitude(new) = ms - mb * q
      BY <3>2, <3>3, BiTrimmed
    <3>5. mb * q \in Nat
      BY <1>1, <1>4, BiBase
    <3> HIDE DEF new
    <3> DEFINE y == mb * q
    <3>6. y \in Nat /\ Magnitude(new) = ms - y /\ y <= ms /\ ms < y + mb
      BY <3>4, <3>5, <1>4
    <3> HIDE DEF y
    <3>7. y + Magnitude(new) = ms /\ Magnitude(new) < mb
      BY <3>6, <1>1, <1>3
    <3> QED BY <3>4, <3>7 DEF y
  <2> QED BY <2>1, <2>2
<1>7. res = [quotient |-> <<q>> \o qr.quotient, remainder |-> new]
  BY Zenon DEF BringDown, s, q, P
<1> HIDE DEF new, res
<1>8. /\ res.quotient = <<q>> \o qr.quotient /\ res.remainder = new
      /\ res \in [quotient : BiLimbs, remainder : BiLimbs]
  <2>1. <<q>> \o qr.quotient \in BiLimbs
    BY <1>1, <1>4, BiCons
  <2> QED BY <2>1, <1>6, <1>7
<1>9. res \in BiDivided(b)
  BY <1>6, <1>8, Zenon DEF BiDivided
<1>10. mb * q + Magnitude(res.remainder) = limb + Base * mr
  BY <1>2, <1>6, <1>8
<1>11. BiBroughtDown(b, qr, limb, res)
  BY <1>4, <1>8, <1>9, <1>10, Zenon DEF BiBroughtDown
<1> QED BY <1>11 DEF res

LEMMA BiOneLimb ==
  ASSUME Assumptions, NEW d \in BiDigits
  PROVE  /\ <<d>> \in BiLimbs /\ Magnitude(<<d>>) = d /\ Len(<<d>>) = 1
         /\ (d # 0 => BiFull(<<d>>))
<1>1. <<d>> \in BiLimbs /\ Len(<<d>>) = 1 /\ <<d>>[1] = d
  BY DEF BiLimbs
<1>2. Magnitude(<<d>>) = d
  <2>1. 1 \in 1 .. Len(<<d>>) /\ 1 \in Nat \ {0} /\ 1 + 1 = 2 /\ 2 \notin 1 .. Len(<<d>>)
    BY <1>1
  <2>2. BiTail(<<d>>, 1) = Limb(<<d>>, 1) + Base * BiTail(<<d>>, 2) /\ BiTail(<<d>>, 2) = 0
    BY <2>1, <1>1, BiTailIs
  <2>3. Limb(<<d>>, 1) = d /\ d \in Nat
    BY <2>1, <1>1, BiLimb, BiBase
  <2>4. Base * 0 = 0
    BY BiBase
  <2>5. Magnitude(<<d>>) = BiTail(<<d>>, 1)
    BY <1>1, BiTailIs
  <2> QED BY <2>2, <2>3, <2>4, <2>5
<1> QED BY <1>1, <1>2 DEF BiFull

LEMMA BiBringDownSmall ==
  ASSUME Assumptions, NEW b \in BiLimbs, BiFull(b), Len(b) = 1,
         NEW qr \in BiDivided(b), NEW limb \in BiDigits
  PROVE  BiBroughtDown(b, qr, limb, BringDownSmall(qr, b[1], limb))
<1> DEFINE R == qr.remainder
           d == b[1]
           mb == Magnitude(b)
           mr == Magnitude(R)
           cur == Limb(R, 1) * Base + limb
           q == cur \div d
           r == cur % d
           new == IF r = 0 THEN <<>> ELSE <<r>>
           res == BringDownSmall(qr, d, limb)
<1>1. /\ qr.quotient \in BiLimbs /\ R \in BiLimbs /\ mr < mb /\ mb \in Nat /\ mr \in Nat
      /\ limb \in Nat /\ limb < Base
  BY BiTailIs, BiBase DEF BiDivided, BiDigits
<1>2. d \in BiDigits /\ d # 0 /\ d \in Nat /\ d < Base /\ mb = d
  <2>1. d \in BiDigits /\ d # 0 /\ Limb(b, 1) = d
    BY BiLimb DEF BiFull
  <2>2. d \in Nat /\ d < Base
    BY <2>1, BiBase DEF BiDigits
  <2>3. 1 \in Nat \ {0} /\ 1 + 1 = 2 /\ 2 \notin 1 .. Len(b)
    OBVIOUS
  <2>4. /\ Magnitude(b) = BiTail(b, 1) /\ BiTail(b, 1) = Limb(b, 1) + Base * BiTail(b, 2)
        /\ BiTail(b, 2) = 0
    BY <2>3, BiTailIs
  <2>5. Base * 0 = 0
    BY BiBase
  <2> QED BY <2>1, <2>2, <2>4, <2>5
<1>3. Limb(R, 1) = mr
  <2> DEFINE t == BiTail(R, 2)
             l == Limb(R, 1)
  <2>1. mr = l + Base * t /\ t \in Nat /\ l \in Nat
    <3>1. 1 \in Nat \ {0} /\ 1 + 1 = 2
      OBVIOUS
    <3>2. l \in Nat
      BY <1>1, BiLimb, BiBase
    <3> QED BY <3>1, <3>2, <1>1, BiTailIs
  <2> HIDE DEF t, l, mr
  <2>2. t = 0
    <3> SUFFICES ASSUME 0 < t PROVE FALSE
      BY <2>1
    <3>1. Base * 0 + Base <= Base * t /\ Base * t \in Nat /\ Base * 0 = 0
      BY <2>1, BiScale, BiBase
    <3> DEFINE y == Base * t
    <3>2. Base <= y /\ y \in Nat /\ mr = l + y
      BY <3>1, <2>1, BiBase
    <3> HIDE DEF y
    <3> QED BY <3>2, <2>1, <1>1, <1>2, BiBase
  <2>3. Base * t = 0
    BY <2>2, BiBase
  <2>4. mr = l
    BY <2>1, <2>3
  <2> QED BY <2>4, Zenon DEF l
<1>4. cur = Base * mr + limb /\ cur \in Nat /\ cur < Base * d
  <2>1. Base * mr + Base <= Base * mb /\ Base * mr \in Nat /\ Base * mb \in Nat
    BY <1>1, BiScale
  <2>2. cur = Base * mr + limb
    BY <1>1, <1>3, BiBase
  <2> DEFINE y == Base * mr
             z == Base * mb
  <2>3. y + Base <= z /\ y \in Nat /\ z \in Nat /\ cur = y + limb
    BY <2>1, <2>2
  <2> HIDE DEF y, z, cur
  <2>4. cur \in Nat /\ cur < z
    BY <2>3, <1>1, BiBase
  <2> QED BY <2>2, <2>4, <1>2 DEF z
<1> HIDE DEF cur, d, mb, mr
<1>5. r \in 0 .. (d - 1) /\ q \in Nat /\ cur = r + d * q
  <2>1. d \in Nat \ {0} /\ cur \in Int /\ cur >= 0
    BY <1>2, <1>4
  <2> QED BY <2>1, BiEuclid, Zenon
<1>6. q < Base
  <2>1. d * q <= cur /\ d * q \in Nat
    <3>1. d * q \in Nat
      BY <1>2, <1>5
    <3> DEFINE y == d * q
    <3>2. y \in Nat /\ cur = r + y /\ r \in Nat
      BY <3>1, <1>2, <1>5
    <3> HIDE DEF y, r
    <3>3. y <= cur
      BY <3>2
    <3> QED BY <3>1, <3>3 DEF y
  <2> SUFFICES ASSUME Base <= q PROVE FALSE
    BY <1>5, BiBase
  <2> HIDE DEF q
  <2>2. PICK j \in Nat : q = Base + j
    <3>1. q - Base \in Nat /\ q = Base + (q - Base)
      BY <1>5, BiBase
    <3> QED BY <3>1
  <2>3. d * q = Base * d + d * j /\ d * j \in Nat /\ Base * d \in Nat
    BY <2>2, <1>2, BiBase
  <2> DEFINE y == d * q
             z == Base * d
             w == d * j
  <2>4. y <= cur /\ cur < z /\ y = z + w /\ w \in Nat /\ z \in Nat
    BY <2>1, <2>3, <1>4
  <2> HIDE DEF y, z, w
  <2> QED BY <2>4, <1>4
<1>7. q \in BiDigits /\ r \in BiDigits /\ r < d /\ r \in Nat
  BY <1>2, <1>5, <1>6, BiBase DEF BiDigits
<1>8. res = [quotient |-> <<q>> \o qr.quotient, remainder |-> new]
  BY Zenon DEF BringDownSmall, cur, d
<1>9. cur = d * q + r
  <2> DEFINE y == d * q
  <2>1. y \in Nat /\ cur = r + y
    BY <1>2, <1>5
  <2> HIDE DEF y, r
  <2>2. cur = y + r
    BY <2>1, <1>7
  <2> QED BY <2>2 DEF y
<1> HIDE DEF q, r
<1>10. new \in BiLimbs /\ BiFull(new) /\ Magnitude(new) = r
  <2>1. CASE r = 0
    BY <2>1, BiEmpty
  <2>2. CASE r # 0
    BY <2>2, <1>7, BiOneLimb
  <2> QED BY <2>1, <2>2
<1> HIDE DEF new, res
<1>11. /\ res.quotient = <<q>> \o qr.quotient /\ res.remainder = new
       /\ res \in [quotient : BiLimbs, remainder : BiLimbs]
  <2>1. <<q>> \o qr.quotient \in BiLimbs
    BY <1>1, <1>7, BiCons
  <2> QED BY <2>1, <1>8, <1>10
<1>12. res \in BiDivided(b)
  <2>1. Magnitude(res.remainder) < Magnitude(b)
    BY <1>2, <1>7, <1>10, <1>11 DEF mb
  <2> QED BY <2>1, <1>10, <1>11, Zenon DEF BiDivided
<1>13. mb * q + Magnitude(res.remainder) = limb + Base * mr
  <2>1. mb * q + Magnitude(res.remainder) = d * q + r
    BY <1>2, <1>10, <1>11
  <2>2. Base * mr \in Nat
    BY <1>1, BiScale
  <2> DEFINE y == Base * mr
  <2>3. cur = y + limb /\ y \in Nat
    BY <2>2, <1>4
  <2> HIDE DEF y
  <2>4. cur = limb + y
    BY <2>3, <1>1
  <2> QED BY <2>1, <2>4, <1>9 DEF y
<1>14. BiBroughtDown(b, qr, limb, res)
  BY <1>7, <1>11, <1>12, <1>13, Zenon DEF BiBroughtDown, mb, mr
<1> QED BY <1>14, Zenon DEF res, d

LEMMA BiDivideLimb ==
  ASSUME Assumptions, NEW b \in BiLimbs, BiFull(b), NEW qr \in BiDivided(b),
         NEW limb \in BiDigits
  PROVE  /\ DivideLimb(qr, b, limb) \in BiDivided(b)
         /\ Magnitude(DivideLimb(qr, b, limb).quotient) * Magnitude(b)
                + Magnitude(DivideLimb(qr, b, limb).remainder)
              = limb + Base * (Magnitude(qr.quotient) * Magnitude(b)
                  + Magnitude(qr.remainder))
<1> DEFINE res == DivideLimb(qr, b, limb)
           mb == Magnitude(b)
           Q == Magnitude(qr.quotient)
           R == Magnitude(qr.remainder)
           r == Magnitude(res.remainder)
<1>1. /\ res \in BiDivided(b)
      /\ \E q \in BiDigits : /\ res.quotient = <<q>> \o qr.quotient
                             /\ mb * q + r = limb + Base * R
  <2>1. CASE Len(b) = 1
    <3>1. res = BringDownSmall(qr, b[1], limb)
      BY <2>1, Zenon DEF DivideLimb
    <3>2. BiBroughtDown(b, qr, limb, res)
      BY <2>1, <3>1, BiBringDownSmall
    <3> QED BY <3>2, Zenon DEF BiBroughtDown
  <2>2. CASE Len(b) # 1
    <3>1. res = BringDown(qr, b, limb)
      BY <2>2, Zenon DEF DivideLimb
    <3>2. BiBroughtDown(b, qr, limb, res)
      BY <3>1, BiBringDown
    <3> QED BY <3>2, Zenon DEF BiBroughtDown
  <2> QED BY <2>1, <2>2
<1>2. PICK q \in BiDigits : res.quotient = <<q>> \o qr.quotient
               /\ mb * q + r = limb + Base * R
  BY <1>1
<1>3. res.remainder \in BiLimbs /\ qr.quotient \in BiLimbs /\ qr.remainder \in BiLimbs
  BY <1>1 DEF BiDivided
<1>4. mb \in Nat /\ Q \in Nat /\ R \in Nat /\ r \in Nat /\ q \in Nat /\ limb \in Nat
  BY <1>3, BiTailIs, BiBase
<1>5. Magnitude(res.quotient) = q + Base * Q
  BY <1>2, <1>3, BiCons
<1> HIDE DEF res, mb, Q, R, r
<1>6. (q + Base * Q) * mb + r = limb + Base * (Q * mb + R)
  <2>1. mb * q + r = limb + Base * R
    BY <1>2
  <2> QED BY <2>1, <1>4, BiOneMore
<1> QED BY <1>1, <1>5, <1>6 DEF res, mb, Q, R, r

LEMMA BiLongDivision ==
  ASSUME Assumptions, NEW a \in BiLimbs, NEW b \in BiLimbs, BiFull(b), b # <<>>
  PROVE  /\ LongDivision(a, b) \in [0 .. Len(a) -> BiDivided(b)]
         /\ LongDivision(a, b)[0] = [quotient |-> <<>>, remainder |-> <<>>]
         /\ \A k \in 1 .. Len(a) :
              LongDivision(a, b)[k] = DivideLimb(LongDivision(a, b)[k - 1], b,
                  a[Len(a) - k + 1])
<1> DEFINE n == Len(a)
           T == BiDivided(b)
           e == [quotient |-> <<>>, remainder |-> <<>>]
           Step(k, t) == DivideLimb(t, b, a[Len(a) - k + 1])
           F == [k \in 1 .. n |-> [t \in T |-> Step(k, t)]]
           P(g) == g = [k \in 0 .. n |-> IF k = 0 THEN [quotient |-> <<>>,
               remainder |-> <<>>] ELSE DivideLimb(g[k - 1], b, a[Len(a) - k + 1])]
           H == LongDivision(a, b)
<1>1. n \in Nat /\ e \in T
  <2>1. Magnitude(b) > 0
    <3>1. 1 \in 1 .. Len(b)
      <4>1. Len(b) # 0 /\ Len(b) \in Nat
        BY BiLimb, EmptySeq, Zenon DEF BiLimbs
      <4> QED BY <4>1
    <3> QED BY <3>1, BiPositive, BiTailIs
  <2>2. <<>> \in BiLimbs /\ BiFull(<<>>) /\ Magnitude(<<>>) < Magnitude(b)
    BY <2>1, BiEmpty
  <2>3. e \in [quotient : BiLimbs, remainder : BiLimbs] /\ e.remainder = <<>>
    BY <2>2
  <2>4. e \in BiDivided(b)
    <3> HIDE DEF e
    <3> QED BY <2>2, <2>3 DEF BiDivided
  <2> QED BY <2>4, BiLimb
<1>2. \A k \in 1 .. n, t \in T : Step(k, t) \in T
  <2> SUFFICES ASSUME NEW k \in 1 .. n, NEW t \in T PROVE Step(k, t) \in T
    OBVIOUS
  <2>1. Len(a) - k + 1 \in 1 .. Len(a)
    BY BiLimb
  <2>2. a[Len(a) - k + 1] \in BiDigits
    BY <2>1, BiLimb
  <2> QED BY <2>2, BiDivideLimb
<1>3. H = CHOOSE h : P(h)
  BY Zenon DEF LongDivision, n
<1> HIDE DEF n, T, e, Step, H
<1>4. F \in [1 .. n -> [T -> T]]
  BY <1>2
<1>5. \A k \in 1 .. n, t \in T : F[k][t] = Step(k, t)
  OBVIOUS
<1> HIDE DEF F
<1>6. PICK g \in [0 .. n -> T] : g[0] = e /\ \A k \in 1 .. n : g[k] = F[k][g[k - 1]]
  <2>1. n \in Nat /\ e \in T
    BY <1>1
  <2>2. BiRuns(n, T, e, F) # {}
    BY <2>1, <1>4, BiDefined, Zenon
  <2> QED BY <2>2 DEF BiRuns
<1>7. P(g)
  <2>1. \A k \in 1 .. n : k - 1 \in 0 .. n
    BY <1>1
  <2>2. \A k \in 1 .. n : g[k] = Step(k, g[k - 1])
    BY <2>1, <1>5, <1>6
  <2>3. \A k \in 0 .. n : k = 0 \/ (k \in 1 .. n /\ k # 0)
    BY <1>1
  <2>4. \A k \in 0 .. n : g[k] = IF k = 0 THEN [quotient |-> <<>>, remainder |-> <<>>]
            ELSE DivideLimb(g[k - 1], b, a[Len(a) - k + 1])
    BY <2>2, <2>3, <1>6 DEF Step, e
  <2> QED BY <2>4, <1>6, Zenon
<1>8. P(H)
  <2> HIDE DEF P
  <2> QED BY <1>3, <1>7, Zenon
<1>9. H[0] = e /\ \A k \in 1 .. n : H[k] = Step(k, H[k - 1])
  <2>1. 0 \in 0 .. n /\ \A k \in 1 .. n : k \in 0 .. n /\ k # 0
    BY <1>1
  <2>2. \A k \in 0 .. n : H[k] = IF k = 0 THEN [quotient |-> <<>>, remainder |-> <<>>]
            ELSE DivideLimb(H[k - 1], b, a[Len(a) - k + 1])
    BY <1>8, Zenon
  <2> QED BY <2>1, <2>2 DEF Step, e
<1> DEFINE S == {k \in 0 .. n : H[k] \in T}
<1>10. 0 \in S /\ \A k \in 1 .. n : k - 1 \in S => k \in S
  <2>1. 0 \in S
    BY <1>1, <1>9
  <2>2. ASSUME NEW k \in 1 .. n, k - 1 \in S PROVE k \in S
    <3>1. Step(k, H[k - 1]) \in T
      BY <2>2, <1>2
    <3> QED BY <3>1, <1>1, <1>9
  <2> QED BY <2>1, <2>2
<1> HIDE DEF S
<1>11. \A k \in 0 .. n : k \in S
  <2>1. n \in Nat
    BY <1>1
  <2> QED BY <2>1, <1>10, BiUp
<1>12. \A k \in 0 .. n : H[k] \in T
  BY <1>11 DEF S
<1>13. H \in [0 .. n -> T]
  <2>1. H = [k \in 0 .. n |-> H[k]]
    BY <1>8
  <2> HIDE DEF P
  <2> QED BY <2>1, <1>12
<1> QED BY <1>9, <1>13, Zenon DEF n, T, e, H, Step

\* The quotient times the divisor, with the remainder, is the dividend.
LEMMA BiDivide ==
  ASSUME Assumptions, NEW a \in BiLimbs, NEW b \in BiLimbs, BiFull(a), BiFull(b), b # <<>>
  PROVE  /\ divmod_unsigned(a, b) \in BiDivided(b)
         /\ Magnitude(a) = Magnitude(divmod_unsigned(a, b).quotient) * Magnitude(b)
                             + Magnitude(divmod_unsigned(a, b).remainder)
<1> DEFINE d == divmod_unsigned(a, b)
           mb == Magnitude(b)
           n == Len(a)
           H == LongDivision(a, b)
           Dividend(r) == Magnitude(r.quotient) * mb + Magnitude(r.remainder)
<1>0. Magnitude(a) \in Nat /\ mb \in Nat /\ n \in Nat
  BY BiTailIs, BiLimb
<1>1. CASE Len(b) > 1 /\ LessThan(a, b)
  <2>1. d = [quotient |-> <<>>, remainder |-> a]
    BY <1>1, Zenon DEF divmod_unsigned
  <2>2. d.quotient = <<>> /\ d.remainder = a
    BY <2>1
  <2>3. d \in [quotient : BiLimbs, remainder : BiLimbs]
    BY <2>1, BiEmpty
  <2>4. Magnitude(a) < mb
    BY <1>1, BiLess
  <2> HIDE DEF d
  <2>5. d \in BiDivided(b)
    BY <2>2, <2>3, <2>4 DEF BiDivided
  <2>6. Magnitude(d.quotient) * mb = 0
    <3>1. Magnitude(d.quotient) = 0
      BY <2>2, BiEmpty
    <3> QED BY <3>1, <1>0
  <2>7. Magnitude(a) = Magnitude(d.quotient) * mb + Magnitude(d.remainder)
    BY <2>2, <2>6, <1>0
  <2> QED BY <2>5, <2>7 DEF d, mb
<1>2. CASE ~ (Len(b) > 1 /\ LessThan(a, b))
  <2>1. d = H[n]
    BY <1>2, Zenon DEF divmod_unsigned
  <2>2. /\ H \in [0 .. n -> BiDivided(b)] /\ H[0] = [quotient |-> <<>>, remainder |-> <<>>]
        /\ \A k \in 1 .. n : H[k] = DivideLimb(H[k - 1], b, a[n - k + 1])
    BY BiLongDivision, Zenon
  <2>3. /\ Highest(a)[0] = 0
        /\ \A k \in 1 .. n : Highest(a)[k] = a[n - k + 1] + Base * Highest(a)[k - 1]
    BY BiHighest
  <2> HIDE DEF H, d
  <2> DEFINE S == {k \in 0 .. n : Dividend(H[k]) = Highest(a)[k]}
  <2>4. 0 \in S
    <3>1. H[0].quotient = <<>> /\ H[0].remainder = <<>>
      BY <2>2
    <3>2. Magnitude(H[0].quotient) = 0 /\ Magnitude(H[0].remainder) = 0
      BY <3>1, BiEmpty
    <3>3. 0 * mb + 0 = 0
      BY <1>0
    <3>4. Dividend(H[0]) = 0
      BY <3>2, <3>3
    <3> HIDE DEF Dividend
    <3> QED BY <3>4, <2>3, <1>0
  <2>5. ASSUME NEW k \in 1 .. n, k - 1 \in S PROVE k \in S
    <3>1. n - k + 1 \in 1 .. n /\ k - 1 \in 0 .. n /\ k \in 0 .. n
      BY <1>0
    <3> DEFINE r == H[k - 1]
               l == a[n - k + 1]
    <3>2. r \in BiDivided(b) /\ l \in BiDigits /\ H[k] = DivideLimb(r, b, l)
      <4>1. r \in BiDivided(b)
        BY <3>1, <2>2
      <4>2. l \in BiDigits
        BY <3>1, BiLimb
      <4> QED BY <4>1, <4>2, <2>2
    <3>3. Dividend(H[k - 1]) = Highest(a)[k - 1]
      BY <2>5
    <3>4. Highest(a)[k] = l + Base * Highest(a)[k - 1]
      BY <2>3
    <3> HIDE DEF l
    <3>5. Dividend(DivideLimb(r, b, l)) = l + Base * Dividend(r)
      <4> HIDE DEF r
      <4> QED BY <3>2, BiDivideLimb
    <3> HIDE DEF Dividend
    <3>6. Dividend(H[k]) = Highest(a)[k]
      BY <3>2, <3>3, <3>4, <3>5
    <3> QED BY <3>1, <3>6
  <2> HIDE DEF S
  <2>6. \A k \in 0 .. n : k \in S
    BY <1>0, <2>4, <2>5, BiUp
  <2>7. n \in S /\ n \in 0 .. n
    BY <1>0, <2>6
  <2>8. Dividend(d) = Magnitude(a)
    <3>1. Dividend(H[n]) = Highest(a)[n]
      BY <2>7 DEF S
    <3> HIDE DEF Dividend
    <3> QED BY <3>1, <2>1, Zenon DEF Magnitude, n
  <2>9. d \in BiDivided(b)
    BY <2>1, <2>2, <2>7
  <2> QED BY <2>8, <2>9 DEF d, mb
<1> QED BY <1>1, <1>2

\* The quotient is the one that division gives.
LEMMA BiUnique ==
  ASSUME NEW m \in Nat, NEW q \in Nat, NEW r \in Nat, r < m
  PROVE  (q * m + r) \div m = q
<1> DEFINE s == q * m + r
           d == s \div m
           t == s % m
<1>1. m \in Nat \ {0} /\ s \in Nat
  <2>1. q * m \in Nat
    OBVIOUS
  <2> QED BY <2>1
<1>2. d \in Nat /\ t \in 0 .. (m - 1) /\ s = t + m * d
  <2> HIDE DEF s
  <2>1. s \in Int /\ s >= 0
    BY <1>1
  <2> QED BY <2>1, <1>1, BiEuclid, Zenon
<1> HIDE DEF d, t
<1>3. ASSUME NEW i \in Nat, NEW j \in Nat, i < j
      PROVE i * m + m <= j * m /\ i * m \in Nat /\ j * m \in Nat
  <2>1. PICK k \in Nat : j = i + 1 + k
    <3>1. j - i - 1 \in Nat /\ j = i + 1 + (j - i - 1)
      BY <1>3
    <3> QED BY <3>1
  <2>2. j * m = i * m + m + k * m /\ k * m \in Nat /\ i * m \in Nat
    BY <2>1
  <2> DEFINE x1 == i * m
             y1 == j * m
             z1 == k * m
  <2>3. y1 = x1 + m + z1 /\ z1 \in Nat /\ x1 \in Nat
    BY <2>2
  <2> HIDE DEF x1, y1, z1
  <2>4. x1 + m <= y1 /\ x1 \in Nat /\ y1 \in Nat
    BY <2>3
  <2> QED BY <2>4 DEF x1, y1
<1>4. m * d = d * m /\ d * m \in Nat /\ q * m \in Nat
  BY <1>2
<1> DEFINE A == q * m
           B == d * m
<1>5. s = A + r /\ s = t + B /\ A \in Nat /\ B \in Nat /\ t \in Nat /\ t < m
  BY <1>1, <1>2, <1>4
<1>6. q < d => A + m <= B
  BY <1>2, <1>3
<1>7. d < q => B + m <= A
  BY <1>2, <1>3
<1> HIDE DEF A, B, s
<1>8. ~ (q < d) /\ ~ (d < q)
  BY <1>5, <1>6, <1>7
<1>9. d = q
  BY <1>2, <1>8
<1> QED BY <1>9 DEF d, s

\* A number in the one form: no zeros above, and no negative zero.
BiNumber ==
  {n \in [limbs : BiLimbs, negative : BOOLEAN] :
     BiFull(n.limbs) /\ (n.negative => n.limbs # <<>>)}

-----------------------------------------------------------------------------
(* Numbers: limbs and sign.                                                *)

\* A number is less than zero exactly when it has the sign, which zero has not.
LEMMA BiNumberIs ==
  ASSUME Assumptions, NEW n \in BiNumber
  PROVE  /\ n.limbs \in BiLimbs /\ BiFull(n.limbs) /\ n.negative \in BOOLEAN
         /\ n = [limbs |-> n.limbs, negative |-> n.negative]
         /\ Magnitude(n.limbs) \in Nat
         /\ n.limbs # <<>> => Magnitude(n.limbs) > 0
         /\ n.limbs = <<>> => n = BigZero
         /\ n.negative => ValueOf(n) = -Magnitude(n.limbs) /\ ValueOf(n) < 0
         /\ ~ n.negative => ValueOf(n) = Magnitude(n.limbs) /\ ValueOf(n) >= 0
         /\ ValueOf(n) \in Int
<1> DEFINE a == n.limbs
           m == Magnitude(n.limbs)
<1>1. /\ a \in BiLimbs /\ BiFull(a) /\ n.negative \in BOOLEAN
      /\ n = [limbs |-> n.limbs, negative |-> n.negative] /\ (n.negative => a # <<>>)
  BY DEF BiNumber
<1>2. m \in Nat
  BY <1>1, BiTailIs
<1>3. a # <<>> => m > 0
  <2> SUFFICES ASSUME a # <<>> PROVE m > 0
    OBVIOUS
  <2>1. 1 \in 1 .. Len(a)
    <3>1. Len(a) # 0 /\ Len(a) \in Nat
      BY <1>1, BiLimb, EmptySeq, Zenon DEF BiLimbs
    <3> QED BY <3>1
  <2> HIDE DEF a
  <2>2. BiTail(a, 1) > 0
    BY <1>1, <2>1, BiPositive
  <2> QED BY <1>1, <2>2, BiTailIs DEF a
<1>4. a = <<>> => n = BigZero
  BY <1>1, Zenon DEF BigZero
<1>5. n.negative => ValueOf(n) = -m /\ ValueOf(n) < 0
  <2> SUFFICES ASSUME n.negative PROVE ValueOf(n) = -m /\ ValueOf(n) < 0
    OBVIOUS
  <2>1. ValueOf(n) = -m
    BY Zenon DEF ValueOf
  <2>2. m > 0
    BY <1>1, <1>3
  <2> HIDE DEF m
  <2> QED BY <1>2, <2>1, <2>2
<1>6. ~ n.negative => ValueOf(n) = m /\ ValueOf(n) >= 0
  <2> SUFFICES ASSUME ~ n.negative PROVE ValueOf(n) = m /\ ValueOf(n) >= 0
    OBVIOUS
  <2>1. ValueOf(n) = m
    BY Zenon DEF ValueOf
  <2> HIDE DEF m
  <2> QED BY <1>2, <2>1
<1>7. ValueOf(n) \in Int
  <2> HIDE DEF m
  <2> QED BY <1>2, <1>5, <1>6
<1> QED BY <1>1, <1>2, <1>3, <1>4, <1>5, <1>6, <1>7, Zenon

LEMMA BiMinusZero == \A i \in Int : i >= 0 /\ ~ (i > 0) => -i = i
OBVIOUS

\* Whatever the limbs and the sign, normalize makes a number of what they stand for.
LEMMA BiNormalized ==
  ASSUME Assumptions, NEW a \in BiLimbs, NEW g \in BOOLEAN
  PROVE  /\ normalize([limbs |-> a, negative |-> g]) \in BiNumber
         /\ g => ValueOf(normalize([limbs |-> a, negative |-> g])) = -Magnitude(a)
         /\ ~ g => ValueOf(normalize([limbs |-> a, negative |-> g])) = Magnitude(a)
         /\ BiFull(a) => normalize([limbs |-> a, negative |-> g]).limbs = a
<1> DEFINE t == Trimmed(a)
           r == normalize([limbs |-> a, negative |-> g])
           m == Magnitude(a)
<1>1. r = [limbs |-> t, negative |-> g /\ t # <<>>]
  <2>1. /\ [limbs |-> a, negative |-> g].limbs = a
        /\ [limbs |-> a, negative |-> g].negative = g
    OBVIOUS
  <2> QED BY <2>1, Zenon DEF normalize
<1>2. t \in BiLimbs /\ BiFull(t) /\ Magnitude(t) = m /\ (BiFull(a) => t = a) /\ m \in Nat
  BY BiTrimmed, BiTailIs
<1> HIDE DEF t, r, m
<1> DEFINE h == g /\ t # <<>>
<1>3. h \in BOOLEAN /\ (h => t # <<>>) /\ (h => g)
  OBVIOUS
<1>4. g /\ ~ h => m = 0
  BY <1>2, BiEmpty
<1> HIDE DEF h
<1>5. r.limbs = t /\ r.negative = h /\ r \in [limbs : BiLimbs, negative : BOOLEAN]
  <2>1. r = [limbs |-> t, negative |-> h]
    BY <1>1 DEF h
  <2> QED BY <2>1, <1>2, <1>3
<1>6. r \in BiNumber
  BY <1>2, <1>3, <1>5, Zenon DEF BiNumber
<1>7. ValueOf(r) = IF h THEN -m ELSE m
  BY <1>2, <1>5, Zenon DEF ValueOf
<1>8. ASSUME g PROVE ValueOf(r) = -m
  <2>1. CASE h
    BY <2>1, <1>7
  <2>2. CASE ~ h
    <3>1. m = 0
      BY <2>2, <1>4, <1>8
    <3>2. ValueOf(r) = m
      BY <2>2, <1>7
    <3>3. m \in Int /\ m >= 0 /\ ~ (m > 0)
      BY <3>1, <1>2
    <3>4. -m = m
      BY <3>3, BiMinusZero, Zenon
    <3> QED BY <3>2, <3>4
  <2> QED BY <2>1, <2>2
<1>9. ~ g => ValueOf(r) = m
  BY <1>3, <1>7
<1> QED BY <1>2, <1>5, <1>6, <1>8, <1>9 DEF r, m

LEMMA BiNormal ==
  ASSUME Assumptions, NEW n \in BiNumber
  PROVE  Normal(n)
<1>1. /\ n.limbs \in BiLimbs /\ BiFull(n.limbs) /\ n.negative \in BOOLEAN
      /\ n = [limbs |-> n.limbs, negative |-> n.negative] /\ (n.negative => n.limbs # <<>>)
  BY DEF BiNumber
<1>2. Trimmed(n.limbs) = n.limbs
  BY <1>1, BiTrimmed
<1>3. normalize(n) = [limbs |-> n.limbs, negative |-> n.negative /\ n.limbs # <<>>]
  BY <1>2, Zenon DEF normalize
<1>4. (n.negative /\ n.limbs # <<>>) = n.negative
  BY <1>1
<1> QED BY <1>1, <1>3, <1>4, Zenon DEF Normal

LEMMA BiZero == ASSUME Assumptions PROVE BigZero \in BiNumber /\ ValueOf(BigZero) = 0
<1>1. /\ BigZero.limbs = <<>> /\ BigZero.negative = FALSE
      /\ BigZero \in [limbs : BiLimbs, negative : BOOLEAN]
  BY BiEmpty DEF BigZero
<1>2. BigZero \in BiNumber
  BY <1>1, BiEmpty, Zenon DEF BiNumber
<1>3. ValueOf(BigZero) = Magnitude(<<>>)
  BY <1>1, Zenon DEF ValueOf
<1> QED BY <1>2, <1>3, BiEmpty

LEMMA BiNegate ==
  ASSUME Assumptions, NEW n \in BiNumber
  PROVE  negate(n) \in BiNumber /\ ValueOf(negate(n)) = -ValueOf(n)
<1>1. /\ n.limbs \in BiLimbs /\ BiFull(n.limbs) /\ n.negative \in BOOLEAN
      /\ n = [limbs |-> n.limbs, negative |-> n.negative]
  BY DEF BiNumber
<1>2. CASE n.limbs = <<>>
  <2>1. negate(n) = BigZero /\ n = BigZero
    BY <1>2, BiNumberIs, Zenon DEF negate
  <2>2. negate(n) \in BiNumber /\ ValueOf(n) = 0 /\ ValueOf(negate(n)) = 0
    BY <2>1, BiZero
  <2> DEFINE w == ValueOf(n)
  <2>3. w = 0
    BY <2>2
  <2> HIDE DEF w
  <2>4. w \in Int /\ w >= 0 /\ ~ (w > 0)
    BY <2>3
  <2>5. -w = w
    BY <2>4, BiMinusZero, Zenon
  <2> QED BY <2>2, <2>3, <2>5 DEF w
<1>3. CASE n.limbs # <<>>
  <2> DEFINE r == negate(n)
             m == Magnitude(n.limbs)
  <2>1. r = [n EXCEPT !.negative = ~ @]
    BY <1>3, Zenon DEF negate
  <2>2. /\ r.limbs = n.limbs /\ r.negative = ~ n.negative
        /\ r \in [limbs : BiLimbs, negative : BOOLEAN]
    BY <2>1, <1>1
  <2> HIDE DEF r
  <2>3. r \in BiNumber
    BY <2>2, <1>1, <1>3, Zenon DEF BiNumber
  <2>4. /\ r.negative => ValueOf(r) = -m
        /\ ~ r.negative => ValueOf(r) = m
    BY <2>2, Zenon DEF ValueOf
  <2>5. /\ n.negative => ValueOf(n) = -m
        /\ ~ n.negative => ValueOf(n) = m
        /\ m \in Nat
    BY BiNumberIs
  <2> HIDE DEF m
  <2>6. ValueOf(r) = -ValueOf(n)
    <3>1. CASE n.negative
      BY <3>1, <2>2, <2>4, <2>5
    <3>2. CASE ~ n.negative
      BY <3>2, <2>2, <2>4, <2>5
    <3> QED BY <3>1, <3>2
  <2> QED BY <2>3, <2>6 DEF r
<1> QED BY <1>2, <1>3

\* Subtracting the lesser magnitude.
LEMMA BiDifference ==
  ASSUME Assumptions, NEW a \in BiLimbs,
         NEW b \in BiLimbs, BiFull(a), BiFull(b), LessThan(b, a)
  PROVE  /\ sub_unsigned(a, b) \in BiLimbs
         /\ Magnitude(sub_unsigned(a, b)) = Magnitude(a) - Magnitude(b)
<1>1. Magnitude(b) <= Magnitude(a)
  <2>1. Magnitude(b) < Magnitude(a) /\ Magnitude(b) \in Nat /\ Magnitude(a) \in Nat
    BY BiLess, BiTailIs
  <2> QED BY <2>1
<1>2. Len(b) <= Len(a)
  <2>1. Len(b) < Len(a) \/ Len(b) = Len(a)
    BY Zenon DEF LessThan
  <2>2. Len(b) \in Nat /\ Len(a) \in Nat
    BY BiLimb
  <2> QED BY <2>1, <2>2
<1> QED BY <1>1, <1>2, BiSubtract

LEMMA BiSum ==
  ASSUME Assumptions, NEW m \in BiNumber, NEW n \in BiNumber
  PROVE  Sum(m, n) \in BiNumber /\ ValueOf(Sum(m, n)) = ValueOf(m) + ValueOf(n)
<1> DEFINE a == m.limbs
           b == n.limbs
           p == Magnitude(m.limbs)
           q == Magnitude(n.limbs)
           vm == ValueOf(m)
           vn == ValueOf(n)
<1>1. /\ a \in BiLimbs /\ BiFull(a) /\ m.negative \in BOOLEAN /\ p \in Nat
      /\ m.negative => vm = -p
      /\ ~ m.negative => vm = p
  BY BiNumberIs
<1>2. /\ b \in BiLimbs /\ BiFull(b) /\ n.negative \in BOOLEAN /\ q \in Nat
      /\ n.negative => vn = -q
      /\ ~ n.negative => vn = q
  BY BiNumberIs
<1> HIDE DEF vm, vn
<1>3. CASE m.negative = n.negative
  <2> DEFINE s == add_unsigned(a, b)
  <2>1. Sum(m, n) = normalize([limbs |-> s, negative |-> m.negative])
    BY <1>3, Zenon DEF Sum
  <2>2. s \in BiLimbs /\ Magnitude(s) = p + q
    BY <1>1, <1>2, BiAdd
  <2> HIDE DEF s, p, q
  <2>3. /\ Sum(m, n) \in BiNumber
        /\ m.negative => ValueOf(Sum(m, n)) = -(p + q)
        /\ ~ m.negative => ValueOf(Sum(m, n)) = p + q
    BY <2>1, <2>2, <1>1, BiNormalized
  <2>4. ValueOf(Sum(m, n)) = vm + vn
    <3>1. CASE m.negative
      BY <3>1, <2>3, <1>1, <1>2, <1>3
    <3>2. CASE ~ m.negative
      BY <3>2, <2>3, <1>1, <1>2, <1>3
    <3> QED BY <3>1, <3>2
  <2> QED BY <2>3, <2>4 DEF vm, vn
<1>4. CASE m.negative # n.negative
  <2>0. (m.negative /\ ~ n.negative) \/ (~ m.negative /\ n.negative)
    BY <1>1, <1>2, <1>4
  <2>1. CASE a = b
    <3>1. Sum(m, n) = BigZero
      BY <1>4, <2>1, Zenon DEF Sum
    <3>2. p = q
      BY <2>1
    <3> HIDE DEF p, q
    <3>3. vm + vn = 0
      BY <3>2, <2>0, <1>1, <1>2
    <3> QED BY <3>1, <3>3, BiZero DEF vm, vn
  <2>2. CASE a # b /\ LessThan(b, a)
    <3> DEFINE s == sub_unsigned(a, b)
    <3>1. Sum(m, n) = normalize([limbs |-> s, negative |-> m.negative])
      BY <1>4, <2>2, Zenon DEF Sum
    <3>2. s \in BiLimbs /\ Magnitude(s) = p - q
      BY <1>1, <1>2, <2>2, BiDifference
    <3> HIDE DEF s, p, q
    <3>3. /\ Sum(m, n) \in BiNumber
          /\ m.negative => ValueOf(Sum(m, n)) = -(p - q)
          /\ ~ m.negative => ValueOf(Sum(m, n)) = p - q
      BY <3>1, <3>2, <1>1, BiNormalized
    <3>4. ValueOf(Sum(m, n)) = vm + vn
      BY <3>3, <2>0, <1>1, <1>2
    <3> QED BY <3>3, <3>4 DEF vm, vn
  <2>3. CASE a # b /\ ~ LessThan(b, a)
    <3> DEFINE s == sub_unsigned(b, a)
    <3>1. Sum(m, n) = normalize([limbs |-> s, negative |-> n.negative])
      BY <1>4, <2>3, Zenon DEF Sum
    <3>2. LessThan(a, b)
      BY <1>1, <1>2, <2>3, BiTrichotomy
    <3>3. s \in BiLimbs /\ Magnitude(s) = q - p
      BY <1>1, <1>2, <3>2, BiDifference
    <3> HIDE DEF s, p, q
    <3>4. /\ Sum(m, n) \in BiNumber
          /\ n.negative => ValueOf(Sum(m, n)) = -(q - p)
          /\ ~ n.negative => ValueOf(Sum(m, n)) = q - p
      BY <3>1, <3>3, <1>2, BiNormalized
    <3>5. ValueOf(Sum(m, n)) = vm + vn
      BY <3>4, <2>0, <1>1, <1>2
    <3> QED BY <3>4, <3>5 DEF vm, vn
  <2> QED BY <2>1, <2>2, <2>3
<1> QED BY <1>3, <1>4

LEMMA BiProductIs ==
  ASSUME Assumptions, NEW m \in BiNumber, NEW n \in BiNumber
  PROVE  Product(m, n) \in BiNumber /\ ValueOf(Product(m, n)) = ValueOf(m) * ValueOf(n)
<1> DEFINE a == m.limbs
           b == n.limbs
           p == Magnitude(m.limbs)
           q == Magnitude(n.limbs)
           vm == ValueOf(m)
           vn == ValueOf(n)
<1>1. /\ a \in BiLimbs /\ BiFull(a) /\ m.negative \in BOOLEAN /\ p \in Nat
      /\ m.negative => vm = -p
      /\ ~ m.negative => vm = p
      /\ a = <<>> => m = BigZero
  BY BiNumberIs
<1>2. /\ b \in BiLimbs /\ BiFull(b) /\ n.negative \in BOOLEAN /\ q \in Nat
      /\ n.negative => vn = -q
      /\ ~ n.negative => vn = q
      /\ b = <<>> => n = BigZero
  BY BiNumberIs
<1>3. CASE a = <<>> \/ b = <<>>
  <2>1. Product(m, n) = BigZero
    BY <1>3, Zenon DEF Product
  <2>2. vm = 0 \/ vn = 0
    BY <1>1, <1>2, <1>3, BiZero
  <2>3. vm \in Int /\ vn \in Int
    BY BiNumberIs
  <2> HIDE DEF vm, vn
  <2>4. vm * vn = 0
    <3>1. CASE vm = 0
      BY <3>1, <2>3
    <3>2. CASE vn = 0
      BY <3>2, <2>3
    <3> QED BY <3>1, <3>2, <2>2
  <2> QED BY <2>1, <2>4, BiZero DEF vm, vn
<1>4. CASE ~ (a = <<>> \/ b = <<>>)
  <2> DEFINE s == Rows(a, b)[Len(a)]
             g == m.negative # n.negative
  <2>1. Product(m, n) = normalize([limbs |-> s, negative |-> g])
    BY <1>4, Zenon DEF Product
  <2>2. s \in BiLimbs /\ Magnitude(s) = p * q
    BY <1>1, <1>2, BiProduct
  <2>3. g \in BOOLEAN
    OBVIOUS
  <2> HIDE DEF s, p, q, vm, vn, g
  <2>4. /\ Product(m, n) \in BiNumber
        /\ g => ValueOf(Product(m, n)) = -(p * q)
        /\ ~ g => ValueOf(Product(m, n)) = p * q
    BY <2>1, <2>2, <2>3, BiNormalized
  <2>5. ValueOf(Product(m, n)) = vm * vn
    <3>1. CASE m.negative /\ n.negative
      <4>1. ~ g /\ vm = -p /\ vn = -q
        BY <3>1, <1>1, <1>2 DEF g
      <4>2. (-p) * (-q) = p * q
        BY <1>1, <1>2
      <4> QED BY <4>1, <4>2, <2>4
    <3>2. CASE m.negative /\ ~ n.negative
      <4>1. g /\ vm = -p /\ vn = q
        BY <3>2, <1>1, <1>2 DEF g
      <4>2. (-p) * q = -(p * q)
        BY <1>1, <1>2
      <4> QED BY <4>1, <4>2, <2>4
    <3>3. CASE ~ m.negative /\ n.negative
      <4>1. g /\ vm = p /\ vn = -q
        BY <3>3, <1>1, <1>2 DEF g
      <4>2. p * (-q) = -(p * q)
        BY <1>1, <1>2
      <4> QED BY <4>1, <4>2, <2>4
    <3>4. CASE ~ m.negative /\ ~ n.negative
      <4>1. ~ g /\ vm = p /\ vn = q
        BY <3>4, <1>1, <1>2 DEF g
      <4> QED BY <4>1, <2>4
    <3> QED BY <3>1, <3>2, <3>3, <3>4
  <2> QED BY <2>4, <2>5 DEF vm, vn
<1> QED BY <1>3, <1>4

LEMMA BiQuotient ==
  ASSUME Assumptions, NEW m \in BiNumber, NEW n \in BiNumber, n # BigZero
  PROVE  /\ Quotient(m, n) \in BiNumber /\ Remainder(m, n) \in BiNumber
         /\ ValueOf(Quotient(m, n)) = DivTrunc(ValueOf(m), ValueOf(n))
         /\ ValueOf(Remainder(m, n))
              = ValueOf(m) - ValueOf(n) * DivTrunc(ValueOf(m), ValueOf(n))
<1> DEFINE a == m.limbs
           b == n.limbs
           p == Magnitude(m.limbs)
           q == Magnitude(n.limbs)
           vm == ValueOf(m)
           vn == ValueOf(n)
           d == divmod_unsigned(a, b)
           k == Magnitude(d.quotient)
           r == Magnitude(d.remainder)
           g == m.negative # n.negative
           vq == ValueOf(Quotient(m, n))
           vr == ValueOf(Remainder(m, n))
           t == DivTrunc(vm, vn)
<1>1. /\ a \in BiLimbs /\ BiFull(a) /\ m.negative \in BOOLEAN /\ p \in Nat
      /\ m.negative => vm = -p /\ vm < 0
      /\ ~ m.negative => vm = p /\ vm >= 0
  BY BiNumberIs
<1>2. /\ b \in BiLimbs /\ BiFull(b) /\ n.negative \in BOOLEAN /\ q \in Nat
      /\ n.negative => vn = -q /\ vn < 0
      /\ ~ n.negative => vn = q /\ vn >= 0
      /\ b # <<>> /\ q > 0
  BY BiNumberIs
<1>3. d \in BiDivided(b) /\ p = k * q + r
  BY <1>1, <1>2, BiDivide
<1>4. d.quotient \in BiLimbs /\ d.remainder \in BiLimbs /\ r < q
  BY <1>3 DEF BiDivided
<1>5. k \in Nat /\ r \in Nat
  BY <1>4, BiTailIs
<1>6. g \in BOOLEAN
  OBVIOUS
<1>7. /\ Quotient(m, n) \in BiNumber
      /\ g => vq = -k
      /\ ~ g => vq = k
  <2>1. Quotient(m, n) = normalize([limbs |-> d.quotient, negative |-> g])
    BY Zenon DEF Quotient
  <2> HIDE DEF d, g
  <2> QED BY <2>1, <1>4, <1>6, BiNormalized
<1>8. /\ Remainder(m, n) \in BiNumber
      /\ m.negative => vr = -r
      /\ ~ m.negative => vr = r
  <2>1. Remainder(m, n) = normalize([limbs |-> d.remainder, negative |-> m.negative])
    BY Zenon DEF Remainder
  <2> HIDE DEF d
  <2> QED BY <2>1, <1>1, <1>4, BiNormalized
<1> HIDE DEF p, q, vm, vn, d, k, r, vq, vr
<1>9. Abs(vm) = p
  <2>1. CASE m.negative
    BY <2>1, <1>1 DEF Abs
  <2>2. CASE ~ m.negative
    BY <2>2, <1>1 DEF Abs
  <2> QED BY <2>1, <2>2
<1>10. Abs(vn) = q
  <2>1. CASE n.negative
    BY <2>1, <1>2 DEF Abs
  <2>2. CASE ~ n.negative
    BY <2>2, <1>2 DEF Abs
  <2> QED BY <2>1, <2>2
<1>11. Abs(vm) \div Abs(vn) = k
  <2>1. (k * q + r) \div q = k
    BY <1>2, <1>4, <1>5, BiUnique DEF r, q
  <2> QED BY <2>1, <1>3, <1>9, <1>10
<1>12. /\ (vm < 0) = (vn < 0) => t = k
       /\ (vm < 0) # (vn < 0) => t = -k
  BY <1>11, Zenon DEF DivTrunc
<1>13. k * q \in Nat /\ q * k = k * q
  BY <1>2, <1>5
<1> DEFINE z == k * q
<1>14. p = z + r /\ z \in Nat
  BY <1>3, <1>13
<1>15. CASE m.negative /\ n.negative
  <2>1. t = k /\ ~ g
    BY <1>15, <1>1, <1>2, <1>12 DEF g
  <2>2. vn * t = -z
    <3>1. vn = -q
      BY <1>15, <1>2
    <3>2. (-q) * k = -(k * q)
      BY <1>2, <1>5
    <3> QED BY <3>1, <3>2, <2>1
  <2> HIDE DEF t, z, g
  <2>3. vr = vm - vn * t /\ vq = t
    BY <1>15, <2>1, <2>2, <1>1, <1>5, <1>7, <1>8, <1>14
  <2> QED BY <2>3, <1>7, <1>8 DEF vr, vm, vn, t, vq
<1>16. CASE m.negative /\ ~ n.negative
  <2>0. vm < 0 /\ ~ (vn < 0) /\ g
    <3>1. g
      BY <1>16, <1>1, <1>2, Zenon DEF g
    <3>2. vn = q /\ ~ (vn < 0)
      BY <1>16, <1>2
    <3> QED BY <3>1, <3>2, <1>16, <1>1
  <2>1. t = -k /\ g
    <3>1. (vm < 0) # (vn < 0)
      BY <2>0
    <3> QED BY <3>1, <2>0, <1>12
  <2>2. vn * t = -z
    <3>1. vn = q
      BY <1>16, <1>2
    <3>2. q * (-k) = -(k * q)
      BY <1>2, <1>5
    <3> QED BY <3>1, <3>2, <2>1
  <2> HIDE DEF t, z, g
  <2>3. vr = vm - vn * t /\ vq = t
    BY <1>16, <2>1, <2>2, <1>1, <1>5, <1>7, <1>8, <1>14
  <2> QED BY <2>3, <1>7, <1>8 DEF vr, vm, vn, t, vq
<1>17. CASE ~ m.negative /\ n.negative
  <2>0. ~ (vm < 0) /\ vn < 0 /\ g
    <3>1. g
      BY <1>17, <1>1, <1>2, Zenon DEF g
    <3>2. vm = p /\ ~ (vm < 0)
      BY <1>17, <1>1
    <3> QED BY <3>1, <3>2, <1>17, <1>2
  <2>1. t = -k /\ g
    <3>1. (vm < 0) # (vn < 0)
      BY <2>0
    <3> QED BY <3>1, <2>0, <1>12
  <2>2. vn * t = z
    <3>1. vn = -q
      BY <1>17, <1>2
    <3>2. (-q) * (-k) = k * q
      BY <1>2, <1>5
    <3> QED BY <3>1, <3>2, <2>1
  <2> HIDE DEF t, z, g
  <2>3. vr = vm - vn * t /\ vq = t
    BY <1>17, <2>1, <2>2, <1>1, <1>5, <1>7, <1>8, <1>14
  <2> QED BY <2>3, <1>7, <1>8 DEF vr, vm, vn, t, vq
<1>18. CASE ~ m.negative /\ ~ n.negative
  <2>1. t = k /\ ~ g
    BY <1>18, <1>1, <1>2, <1>12 DEF g
  <2>2. vn * t = z
    <3>1. vn = q
      BY <1>18, <1>2
    <3> QED BY <3>1, <2>1, <1>13
  <2> HIDE DEF t, z, g
  <2>3. vr = vm - vn * t /\ vq = t
    BY <1>18, <2>1, <2>2, <1>1, <1>5, <1>7, <1>8, <1>14
  <2> QED BY <2>3, <1>7, <1>8 DEF vr, vm, vn, t, vq
<1> QED BY <1>1, <1>2, <1>15, <1>16, <1>17, <1>18

LEMMA BiOperands ==
  ASSUME Assumptions, NEW n \in Operands
  PROVE  n \in BiNumber
<1>1. /\ n.negative \in BOOLEAN /\ n = [limbs |-> n.limbs, negative |-> n.negative]
      /\ Normal(n)
      /\ \E k \in 0 .. MaxLimbs : n.limbs \in [1 .. k -> 0 .. (Base - 1)]
  BY DEF Operands
<1>2. n.limbs \in BiLimbs
  <2>1. PICK k \in 0 .. MaxLimbs : n.limbs \in [1 .. k -> BiDigits]
    BY <1>1 DEF BiDigits
  <2>2. k \in Nat
    BY DEF Assumptions
  <2> QED BY <2>1, <2>2, SeqDef DEF BiLimbs
<1>3. n = normalize(n)
  BY <1>1, Zenon DEF Normal
<1>4. normalize([limbs |-> n.limbs, negative |-> n.negative]) \in BiNumber
  BY <1>1, <1>2, BiNormalized
<1> QED BY <1>1, <1>3, <1>4

\* What fits a machine integer comes out as it is, and nothing else comes out.
LEMMA BiMachine ==
  ASSUME Assumptions, NEW n \in BiNumber
  PROVE  to_i64(n) = IF ValueOf(n) \in (-Half) .. (Half - 1) THEN {ValueOf(n)} ELSE {}
<1> DEFINE a == n.limbs
           m == Magnitude(n.limbs)
           v0 == ValueOf(n)
           l == Limb(n.limbs, 1)
           h == Limb(n.limbs, 2)
           t == BiTail(n.limbs, 3)
           mag == l + Base * h
           sq == Base * Base
<1>1. /\ a \in BiLimbs /\ BiFull(a) /\ n.negative \in BOOLEAN /\ m \in Nat
      /\ n.negative => v0 = -m
      /\ ~ n.negative => v0 = m
  BY BiNumberIs
<1>2. m = l + Base * (h + Base * t) /\ l \in Nat /\ h \in Nat /\ t \in Nat
  <2>1. 1 \in Nat \ {0} /\ 1 + 1 = 2 /\ 2 \in Nat \ {0} /\ 2 + 1 = 3
    OBVIOUS
  <2>2. /\ m = BiTail(a, 1) /\ BiTail(a, 1) = l + Base * BiTail(a, 2)
        /\ BiTail(a, 2) = h + Base * t
        /\ t \in Nat
    BY <2>1, <1>1, BiTailIs
  <2>3. l \in Nat /\ h \in Nat
    BY <1>1, BiLimb, BiBase
  <2> QED BY <2>2, <2>3
<1>3. Len(a) \in Nat /\ (Len(a) > 2 => t > 0) /\ (~ (Len(a) > 2) => t = 0)
  <2>1. Len(a) \in Nat
    BY <1>1, BiLimb
  <2>2. ASSUME Len(a) > 2 PROVE t > 0
    <3>1. 3 \in 1 .. Len(a)
      BY <2>1, <2>2
    <3> QED BY <3>1, <1>1, BiPositive
  <2>3. ASSUME ~ (Len(a) > 2) PROVE t = 0
    <3>1. 3 \notin 1 .. Len(a)
      BY <2>1, <2>3
    <3> QED BY <3>1, <1>1, BiTailIs
  <2> QED BY <2>1, <2>2, <2>3
<1>4. sq \in Nat /\ sq >= 2 /\ Half \in Nat /\ Half < sq /\ Half >= 1
  <2>1. sq \in Nat /\ sq >= 2
    <3>1. Base * 1 + Base <= Base * Base /\ Base * Base \in Nat /\ Base * 1 = Base
      BY BiScale, BiBase
    <3> QED BY <3>1, BiBase
  <2>2. Half = sq \div 2
    BY Zenon DEF Half
  <2> HIDE DEF sq
  <2> QED BY <2>1, <2>2
<1> DEFINE big == Len(a) > 2
<1>5. to_i64(n) = IF big \/ mag > Half \/ (~ n.negative /\ mag = Half) THEN {}
                  ELSE {IF n.negative THEN -mag ELSE mag}
  BY Zenon DEF to_i64
<1>6. CASE big
  <2>1. m >= sq
    <3>1. m = l + Base * h + sq * t /\ Base * h \in Nat
      <4>1. Base * (h + Base * t) = Base * h + sq * t
        BY <1>2, BiBase
      <4>2. Base * h \in Nat /\ sq * t \in Nat
        BY <1>2, <1>4, BiBase
      <4> DEFINE y == Base * (h + Base * t)
                 w == Base * h
                 z == sq * t
      <4>3. m = l + y /\ y = w + z /\ w \in Nat /\ z \in Nat
        BY <4>1, <4>2, <1>2
      <4> HIDE DEF y, w, z
      <4>4. m = l + w + z
        BY <4>3, <1>2
      <4> QED BY <4>2, <4>4 DEF w, z
    <3>2. sq * t >= sq
      <4>1. PICK i \in Nat : t = 1 + i
        <5>1. t - 1 \in Nat /\ t = 1 + (t - 1)
          BY <1>2, <1>3, <1>6
        <5> QED BY <5>1
      <4> HIDE DEF sq, t
      <4>2. sq * t = sq + sq * i /\ sq * i \in Nat
        BY <4>1, <1>4
      <4> DEFINE z == sq * i
                 y == sq * t
      <4>3. y = sq + z /\ z \in Nat
        BY <4>2
      <4> HIDE DEF y, z
      <4>4. y >= sq
        BY <4>3, <1>4
      <4> QED BY <4>4 DEF y
    <3> DEFINE w == Base * h
               z == sq * t
    <3>3. m = l + w + z /\ w \in Nat /\ z >= sq /\ z \in Nat
      <4>1. z \in Nat
        BY <1>2, <1>4
      <4> QED BY <3>1, <3>2, <4>1
    <3> HIDE DEF w, z, sq, m
    <3> QED BY <3>3, <1>2, <1>4
  <2>2. to_i64(n) = {}
    BY <1>5, <1>6
  <2> HIDE DEF m, sq, v0
  <2>3. v0 \notin (-Half) .. (Half - 1)
    <3>1. CASE n.negative
      BY <3>1, <2>1, <1>1, <1>4
    <3>2. CASE ~ n.negative
      BY <3>2, <2>1, <1>1, <1>4
    <3> QED BY <3>1, <3>2
  <2> QED BY <2>2, <2>3, Zenon DEF v0
<1>7. CASE ~ big
  <2>1. mag = m
    <3>1. t = 0 /\ Base * 0 = 0
      BY <1>3, <1>7, BiBase
    <3> QED BY <3>1, <1>2
  <2> HIDE DEF mag, m, v0, big
  <2>2. CASE n.negative
    <3>1. to_i64(n) = IF m > Half THEN {} ELSE {-m}
      BY <2>1, <2>2, <1>5, <1>7
    <3>2. v0 = -m
      BY <2>2, <1>1
    <3>3. (v0 \in (-Half) .. (Half - 1)) <=> ~ (m > Half)
      <4> DEFINE H == Half
      <4>1. H \in Nat /\ H >= 1
        BY <1>4
      <4> HIDE DEF H
      <4>2. (-m \in (-H) .. (H - 1)) <=> ~ (m > H)
        BY <4>1, <1>1
      <4> QED BY <4>2, <3>2 DEF H
    <3> QED BY <3>1, <3>2, <3>3, Zenon DEF v0
  <2>3. CASE ~ n.negative
    <3>1. to_i64(n) = IF m > Half \/ m = Half THEN {} ELSE {m}
      BY <2>1, <2>3, <1>5, <1>7
    <3>2. v0 = m
      BY <2>3, <1>1
    <3>3. (v0 \in (-Half) .. (Half - 1)) <=> ~ (m > Half \/ m = Half)
      BY <3>2, <1>1, <1>4
    <3> QED BY <3>1, <3>2, <3>3, Zenon DEF v0
  <2> QED BY <2>2, <2>3
<1> QED BY <1>6, <1>7

BiIInv == x \in BiNumber /\ ValueOf(x) = v /\ v \in (-Bound) .. Bound

-----------------------------------------------------------------------------
(* The register.                                                           *)

LEMMA BiInit == ASSUME Assumptions PROVE Init => BiIInv
<1> SUFFICES ASSUME Init PROVE BiIInv
  OBVIOUS
<1>1. x = BigZero /\ v = 0
  BY DEF Init
<1>2. 0 \in (-Bound) .. Bound
  BY DEF Assumptions
<1> QED BY <1>1, <1>2, BiZero DEF BiIInv

LEMMA BiBecomes ==
  ASSUME Assumptions, NEW r \in BiNumber, NEW w, ValueOf(r) = w, Becomes(r, w)
  PROVE  BiIInv'
<1>1. Abs(w) <= Bound /\ x' = r /\ v' = w /\ w \in Int
  BY BiNumberIs DEF Becomes
<1>2. w \in (-Bound) .. Bound
  BY <1>1 DEF Assumptions, Abs
<1> QED BY <1>1, <1>2 DEF BiIInv

LEMMA BiStep == ASSUME Assumptions PROVE BiIInv /\ [Next]_vars => BiIInv'
<1> SUFFICES ASSUME BiIInv, [Next]_vars PROVE BiIInv'
  OBVIOUS
<1>1. x \in BiNumber /\ ValueOf(x) = v /\ v \in Int
  BY DEF Assumptions, BiIInv
<1>2. CASE Next
  <2>1. PICK y \in Operands :
          \/ Becomes(Sum(x, y), v + ValueOf(y))
          \/ Becomes(Sum(x, negate(y)), v - ValueOf(y))
          \/ Becomes(Product(x, y), v * ValueOf(y))
          \/ y # BigZero /\ Becomes(Quotient(x, y), DivTrunc(v, ValueOf(y)))
          \/ y # BigZero /\ Becomes(Remainder(x, y), v - ValueOf(y) * DivTrunc(v,
                 ValueOf(y)))
    BY <1>2, Zenon DEF Next
  <2>2. y \in BiNumber
    BY BiOperands
  <2>3. CASE Becomes(Sum(x, y), v + ValueOf(y))
    <3>1. Sum(x, y) \in BiNumber /\ ValueOf(Sum(x, y)) = v + ValueOf(y)
      BY <1>1, <2>2, BiSum
    <3> QED BY <2>3, <3>1, BiBecomes
  <2>4. CASE Becomes(Sum(x, negate(y)), v - ValueOf(y))
    <3>1. negate(y) \in BiNumber /\ ValueOf(negate(y)) = -ValueOf(y)
      BY <2>2, BiNegate
    <3>2. /\ Sum(x, negate(y)) \in BiNumber
          /\ ValueOf(Sum(x, negate(y))) = v + ValueOf(negate(y))
      BY <1>1, <3>1, BiSum
    <3>3. ValueOf(y) \in Int
      BY <2>2, BiNumberIs
    <3>4. ValueOf(Sum(x, negate(y))) = v - ValueOf(y)
      BY <1>1, <3>1, <3>2, <3>3
    <3> QED BY <2>4, <3>2, <3>4, BiBecomes
  <2>5. CASE Becomes(Product(x, y), v * ValueOf(y))
    <3>1. Product(x, y) \in BiNumber /\ ValueOf(Product(x, y)) = v * ValueOf(y)
      BY <1>1, <2>2, BiProductIs
    <3> QED BY <2>5, <3>1, BiBecomes
  <2>6. CASE y # BigZero /\ Becomes(Quotient(x, y), DivTrunc(v, ValueOf(y)))
    <3>1. Quotient(x, y) \in BiNumber /\ ValueOf(Quotient(x, y)) = DivTrunc(v, ValueOf(y))
      BY <1>1, <2>2, <2>6, BiQuotient
    <3> QED BY <2>6, <3>1, BiBecomes
  <2>7. CASE y # BigZero /\ Becomes(Remainder(x, y), v - ValueOf(y) * DivTrunc(v,
                 ValueOf(y)))
    <3>1. /\ Remainder(x, y) \in BiNumber
          /\ ValueOf(Remainder(x, y)) = v - ValueOf(y) * DivTrunc(v, ValueOf(y))
      BY <1>1, <2>2, <2>7, BiQuotient
    <3> QED BY <2>7, <3>1, BiBecomes
  <2> QED BY <2>1, <2>3, <2>4, <2>5, <2>6, <2>7
<1>3. CASE UNCHANGED vars
  BY <1>3 DEF BiIInv, vars
<1> QED BY <1>2, <1>3

LEMMA BiExact == ASSUME Assumptions PROVE BiIInv => Exact
<1> SUFFICES ASSUME BiIInv PROVE Exact
  OBVIOUS
<1>1. x \in BiNumber /\ ValueOf(x) = v
  BY DEF BiIInv
<1>2. Normal(x)
  BY <1>1, BiNormal
<1>3. to_i64(x) = IF ValueOf(x) \in (-Half) .. (Half - 1) THEN {ValueOf(x)} ELSE {}
  BY <1>1, BiMachine
<1> QED BY <1>1, <1>2, <1>3, Zenon DEF Exact

LEMMA BiTypes == ASSUME Assumptions PROVE BiIInv => TypeOK
<1> SUFFICES ASSUME BiIInv PROVE TypeOK
  OBVIOUS
<1> QED BY DEF BiIInv, BiNumber, BiLimbs, BiDigits, TypeOK

LEMMA BiInvariance == ASSUME Assumptions PROVE Spec => []BiIInv
<1>1. Init => BiIInv
  BY BiInit
<1>2. BiIInv /\ [Next]_vars => BiIInv'
  BY BiStep
<1> QED BY <1>1, <1>2, PTL DEF Spec

\* Sums, differences, products, quotients and remainders in any order stand for the
\* integers they have to be, in the one normal form, and to_i64 gives the value exactly
\* when it fits (bigint.rs: carries and borrows between limbs, the signs' cases, the
\* quotient's binary search, the zeros left above).
THEOREM AlwaysExact == ASSUME Assumptions PROVE Spec => []Exact
BY BiInvariance, BiExact, PTL

\* The register keeps to its type.
THEOREM TypeCorrect == ASSUME Assumptions PROVE Spec => []TypeOK
BY BiInvariance, BiTypes, PTL
=============================================================================
