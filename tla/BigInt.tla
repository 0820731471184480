------------------------------- MODULE BigInt -------------------------------
(***************************************************************************)
(* The big integers of sflang/src/bigint.rs: limbs, least significant      *)
(* first, and a sign.  The module is the arithmetic on limbs, and a        *)
(* register that goes through sums, products and quotients beside the      *)
(* integer it stands for.  Base is 2^32 in the code.                       *)
(***************************************************************************)
EXTENDS Integers, Sequences

CONSTANTS
  Base,
  MaxLimbs,  \* bound on the operands
  Bound      \* bound on the register's magnitude

VARIABLES
  x,  \* the register: [limbs, negative]
  v   \* history: the integer it has to be

vars == <<x, v>>

Limb(a, i) == IF i \in DOMAIN a THEN a[i] ELSE 0
LongerOf(a, b) == IF Len(a) > Len(b) THEN Len(a) ELSE Len(b)

\* The limbs without the zeros at the end.
Trimmed(a) ==
  SubSeq(a, 1, CHOOSE n \in 0..Len(a) : /\ n # 0 => a[n] # 0
                                        /\ \A i \in (n + 1)..Len(a) : a[i] = 0)

\* normalize: no zero limbs at the end, and zero has no sign.
normalize(n) ==
  LET a == Trimmed(n.limbs) IN [limbs |-> a, negative |-> n.negative /\ a # <<>>]

BigZero == [limbs |-> <<>>, negative |-> FALSE]
negate(n) == IF n.limbs = <<>> THEN BigZero ELSE [n EXCEPT !.negative = ~@]

\* cmp_unsigned, as "a < b": by length, then by the highest limb that differs.
LessThan(a, b) ==
  \/ Len(a) < Len(b)
  \/ /\ Len(a) = Len(b)
     /\ \E i \in DOMAIN a : a[i] < b[i] /\ \A j \in (i + 1)..Len(a) : a[j] = b[j]

\* add_unsigned: the carries out of the first i limbs, and the sum with the last carry.
Carries(a, b) ==
  LET carry[i \in 0..LongerOf(a, b)] ==
        IF i = 0 THEN 0 ELSE (Limb(a, i) + Limb(b, i) + carry[i - 1]) \div Base
  IN carry

add_unsigned(a, b) ==
  LET n == LongerOf(a, b)
      carry == Carries(a, b)
      sum == [i \in 1..n |-> (Limb(a, i) + Limb(b, i) + carry[i - 1]) % Base]
  IN IF carry[n] > 0 THEN Append(sum, carry[n]) ELSE sum

\* A bug for the checks: a borrow is taken only where the limb itself is too small.
BugBorrows(av, bv, borrow) == IF av < bv THEN 1 ELSE 0

\* A limb borrows from the next when what it lost to the one below counts as well.
Borrows(av, bv, borrow) == IF av - bv - borrow < 0 THEN 1 ELSE 0

\* sub_unsigned, for a not less than b: what the first i limbs borrow.
Borrowed(a, b) ==
  LET borrow[i \in 0..Len(a)] ==
        IF i = 0 THEN 0 ELSE Borrows(Limb(a, i), Limb(b, i), borrow[i - 1])
  IN borrow

sub_unsigned(a, b) ==
  LET borrow == Borrowed(a, b) IN
  [i \in 1..Len(a) |-> (a[i] - Limb(b, i) - borrow[i - 1]) % Base]

Sum(m, n) ==
  IF m.negative = n.negative
  THEN normalize([limbs |-> add_unsigned(m.limbs, n.limbs), negative |-> m.negative])
  ELSE IF m.limbs = n.limbs THEN BigZero
  ELSE IF LessThan(n.limbs, m.limbs)
  THEN normalize([limbs |-> sub_unsigned(m.limbs, n.limbs), negative |-> m.negative])
  ELSE normalize([limbs |-> sub_unsigned(n.limbs, m.limbs), negative |-> n.negative])

\* One row of mul: av times b, added into result from limb i on.
RowCarries(result, b, av, i) ==
  LET carry[k \in 0..Len(result)] ==
        IF k < i THEN 0 ELSE (av * Limb(b, k - i + 1) + result[k] + carry[k - 1]) \div Base
  IN carry

AddRow(result, b, av, i) ==
  LET carry == RowCarries(result, b, av, i) IN
  [k \in 1..Len(result) |->
     IF k < i THEN result[k] ELSE (av * Limb(b, k - i + 1) + result[k] + carry[k - 1]) % Base]

\* The result after the first i rows.
Rows(a, b) ==
  LET rows[i \in 0..Len(a)] ==
        IF i = 0 THEN [k \in 1..(Len(a) + Len(b)) |-> 0] ELSE AddRow(rows[i - 1], b, a[i], i)
  IN rows

Product(m, n) ==
  IF m.limbs = <<>> \/ n.limbs = <<>> THEN BigZero
  ELSE normalize([limbs |-> Rows(m.limbs, n.limbs)[Len(m.limbs)],
                  negative |-> m.negative # n.negative])

\* mul_small, for a k that is not zero.
SmallCarries(a, k) ==
  LET carry[i \in 0..Len(a)] == IF i = 0 THEN 0 ELSE (a[i] * k + carry[i - 1]) \div Base
  IN carry

mul_small(a, k) ==
  LET carry == SmallCarries(a, k)
      product == [i \in 1..Len(a) |-> (a[i] * k + carry[i - 1]) % Base]
  IN IF carry[Len(a)] > 0 THEN Append(product, carry[Len(a)]) ELSE product

\* The binary search of divmod_unsigned for the last q with q * b <= remainder: a round
\* halves the range, the middle rounded up, and Base rounds are enough.
Halved(b, remainder, range) ==
  LET mid == (range.lo + range.hi + 1) \div 2 IN
  IF range.lo >= range.hi THEN range
  ELSE IF LessThan(remainder, mul_small(b, mid)) THEN [lo |-> range.lo, hi |-> mid - 1]
  ELSE [lo |-> mid, hi |-> range.hi]

Search(b, remainder) ==
  LET range[k \in 0..Base] ==
        IF k = 0 THEN [lo |-> 1, hi |-> Base - 1] ELSE Halved(b, remainder, range[k - 1])
  IN range

\* A limb comes down: the limb of the quotient, and what remains.
QuotientLimb(b, shifted) == IF LessThan(shifted, b) THEN 0 ELSE Search(b, shifted)[Base].lo

BringDown(qr, b, limb) ==
  LET shifted == Trimmed(<<limb>> \o qr.remainder)
      q == QuotientLimb(b, shifted)
  IN [quotient  |-> <<q>> \o qr.quotient,
      remainder |-> IF q = 0 THEN shifted ELSE Trimmed(sub_unsigned(shifted, mul_small(b, q)))]

\* The same by machine division, for a divisor of one limb.
BringDownSmall(qr, d, limb) ==
  LET cur == Limb(qr.remainder, 1) * Base + limb IN
  [quotient  |-> <<cur \div d>> \o qr.quotient,
   remainder |-> IF cur % d = 0 THEN <<>> ELSE <<cur % d>>]

\* divmod_single, and the long division of divmod_unsigned, from the highest limb.
DivideLimb(qr, b, limb) ==
  IF Len(b) = 1 THEN BringDownSmall(qr, b[1], limb) ELSE BringDown(qr, b, limb)

LongDivision(a, b) ==
  LET qr[k \in 0..Len(a)] ==
        IF k = 0 THEN [quotient |-> <<>>, remainder |-> <<>>]
        ELSE DivideLimb(qr[k - 1], b, a[Len(a) - k + 1])
  IN qr

divmod_unsigned(a, b) ==
  IF Len(b) > 1 /\ LessThan(a, b) THEN [quotient |-> <<>>, remainder |-> a]
  ELSE LongDivision(a, b)[Len(a)]

\* divmod, for a divisor that is not zero: the quotient goes towards zero, the remainder
\* has the sign of the dividend.
Quotient(m, n) ==
  normalize([limbs |-> divmod_unsigned(m.limbs, n.limbs).quotient,
             negative |-> m.negative # n.negative])
Remainder(m, n) ==
  normalize([limbs |-> divmod_unsigned(m.limbs, n.limbs).remainder, negative |-> m.negative])

\* to_i64, for a machine integer of two limbs: the value where it fits.
Half == (Base * Base) \div 2
to_i64(n) ==
  LET mag == Limb(n.limbs, 1) + Base * Limb(n.limbs, 2) IN
  IF Len(n.limbs) > 2 \/ mag > Half \/ (~n.negative /\ mag = Half) THEN {}
  ELSE {IF n.negative THEN -mag ELSE mag}

-----------------------------------------------------------------------------
\* The integer the limbs stand for, by way of what the k highest ones do.
Highest(a) ==
  LET value[k \in 0..Len(a)] ==
        IF k = 0 THEN 0 ELSE a[Len(a) - k + 1] + Base * value[k - 1]
  IN value
Magnitude(a) == Highest(a)[Len(a)]
ValueOf(n) == IF n.negative THEN -Magnitude(n.limbs) ELSE Magnitude(n.limbs)

\* Division towards zero on integers.
Abs(i) == IF i < 0 THEN -i ELSE i
DivTrunc(i, j) == LET q == Abs(i) \div Abs(j) IN IF (i < 0) = (j < 0) THEN q ELSE -q

Normal(n) == n = normalize(n)
Operands == {n \in [limbs : UNION {[1..k -> 0..(Base - 1)] : k \in 0..MaxLimbs},
                    negative : BOOLEAN] : Normal(n)}

Init == x = BigZero /\ v = 0

Becomes(result, value) == Abs(value) <= Bound /\ x' = result /\ v' = value

\* bigInt's add, sub, mul, div and mod on the register.
Next ==
  \E y \in Operands :
    \/ Becomes(Sum(x, y), v + ValueOf(y))
    \/ Becomes(Sum(x, negate(y)), v - ValueOf(y))
    \/ Becomes(Product(x, y), v * ValueOf(y))
    \/ y # BigZero /\ Becomes(Quotient(x, y), DivTrunc(v, ValueOf(y)))
    \/ y # BigZero /\ Becomes(Remainder(x, y), v - ValueOf(y) * DivTrunc(v, ValueOf(y)))

Spec == Init /\ [][Next]_vars

TypeOK ==
  /\ x.limbs \in Seq(0..(Base - 1)) /\ x.negative \in BOOLEAN
  /\ v \in (-Bound)..Bound

\* Whatever is computed, the limbs stand for the integer, in the one normal form that
\* equality and comparison rely on, and a machine integer comes out exactly when it fits.
Exact ==
  /\ ValueOf(x) = v /\ Normal(x)
  /\ to_i64(x) = IF v \in (-Half)..(Half - 1) THEN {v} ELSE {}
=============================================================================
