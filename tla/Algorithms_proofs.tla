----------------------------- MODULE Algorithms_proofs ----------------------
(***************************************************************************)
(* The safety of what computes: the compiler's scopes, the parser, the     *)
(* calendar and big integers, as Library_proofs does it for the parts that *)
(* keep books or carry bytes; and with these, the types of all parts.      *)
(***************************************************************************)
EXTENDS Library_proofs, SequenceTheorems, NaturalsInduction, WellFoundedInduction, TLAPS

SP == INSTANCE Scopes_proofs WITH
  compilers <- sc_compilers, sources <- sc_sources, parent <- sc_parent, env <- sc_env,
  home <- sc_home, looked_up <- sc_looked_up, blocks <- sc_blocks,
  repeated <- sc_repeated
BP == INSTANCE BigInt_proofs WITH
  Base <- LimbBase, Bound <- MaxMagnitude, x <- bi_x, v <- bi_v

-----------------------------------------------------------------------------
(* The calendar.                                                           *)

\* How many days come before a month of a year that is not a leap year.
CaBefore(m) ==
  IF m = 1 THEN 0 ELSE IF m = 2 THEN 31 ELSE IF m = 3 THEN 59 ELSE IF m = 4 THEN 90
  ELSE IF m = 5 THEN 120 ELSE IF m = 6 THEN 151 ELSE IF m = 7 THEN 181 ELSE IF m = 8 THEN 212
  ELSE IF m = 9 THEN 243 ELSE IF m = 10 THEN 273 ELSE IF m = 11 THEN 304 ELSE 334

LEMMA CaBeforeIs ==
  ASSUME NEW m \in 1 .. 12
  PROVE  <<0, 31, 59, 90, 120, 151, 181, 212, 243, 273, 304, 334>>[m] = CaBefore(m)
BY DEF CaBefore

CaLeap(y) == IF y % 4 = 0 /\ (y % 100 = 0 => y % 400 = 0) THEN 1 ELSE 0

LEMMA CaLengthIs ==
  ASSUME NEW y \in Int, NEW m \in 1 .. 12
  PROVE  /\ CaLeap(y) \in 0 .. 1 /\ Ca!Length(y, 2) = 28 + CaLeap(y)
         /\ Ca!Length(y, m) = IF m = 2 THEN 28 + CaLeap(y) ELSE IF m \in {4, 6, 9, 11} THEN 30 ELSE 31
         /\ Ca!Length(y, m) \in 28 .. 31
BY DEF CaLeap, Ca!Length

LEMMA CaLeapDays ==
  ASSUME NEW y \in Int
  PROVE  Ca!LeapDays(y) \in Int /\ Ca!LeapDays(y) = Ca!LeapDays(y - 1) + CaLeap(y)
<1>1. y \div 4 = (y - 1) \div 4 + IF y % 4 = 0 THEN 1 ELSE 0
  OBVIOUS
<1>2. y \div 100 = (y - 1) \div 100 + IF y % 100 = 0 THEN 1 ELSE 0
  OBVIOUS
<1>3. y \div 400 = (y - 1) \div 400 + IF y % 400 = 0 THEN 1 ELSE 0
  OBVIOUS
<1>4. (y % 100 = 0 => y % 4 = 0) /\ (y % 400 = 0 => y % 100 = 0)
  OBVIOUS
<1> QED BY <1>1, <1>2, <1>3, <1>4 DEF CaLeap, Ca!LeapDays

CaCount(y, m) ==
  365 * (y - 1970) + (Ca!LeapDays(y - 1) - 477) + CaBefore(m) + IF m > 2 THEN CaLeap(y) ELSE 0

LEMMA CaFirstOf ==
  ASSUME NEW y \in Int, NEW m \in 1 .. 12
  PROVE  /\ Ca!FirstOf(y, m) = CaCount(y, m) /\ Ca!FirstOf(y, m) \in Int
         /\ CaBefore(m) \in Int /\ Ca!LeapDays(y - 1) \in Int
<1>1. Ca!LeapDays(y - 1) \in Int /\ Ca!LeapDays(1969) = 477
  BY DEF Ca!LeapDays
<1>2. CaBefore(m) \in Int
  BY DEF CaBefore
<1> QED BY <1>1, <1>2, CaBeforeIs, CaLengthIs DEF Ca!FirstOf, CaCount

LEMMA CaFirstOfInt == ASSUME NEW y \in Int, NEW m \in 1 .. 12 PROVE Ca!FirstOf(y, m) \in Int
BY CaFirstOf

LEMMA CaDaysInMonth ==
  ASSUME NEW y \in Int, NEW m \in 1 .. 12 PROVE Ca!days_in_month(y, m) = Ca!Length(y, m)
<1>1. (y % 400 = 0 => y % 4 = 0) /\ (y % 400 = 0 => y % 100 = 0)
  BY SMT
<1> QED BY <1>1, SMT DEF Ca!days_in_month, Ca!is_leap_year, Ca!Length

\* The first day of the next month comes after the last of this one.
LEMMA CaNext ==
  ASSUME NEW y \in Int, NEW m \in 1 .. 12
  PROVE  Ca!FirstOf(IF m = 12 THEN y + 1 ELSE y, (m % 12) + 1) = Ca!FirstOf(y, m) + Ca!Length(y, m)
<1>1. CASE m = 12
  <2> DEFINE z == y + 1
  <2>0. z \in Int /\ z - 1 = y /\ 1 \in 1 .. 12 /\ 12 \in 1 .. 12
    OBVIOUS
  <2> HIDE DEF z
  <2>1. Ca!FirstOf(z, 1) = 365 * (z - 1970) + (Ca!LeapDays(z - 1) - 477) + 0
    <3>1. Ca!FirstOf(z, 1) = CaCount(z, 1) /\ Ca!LeapDays(z - 1) \in Int
      BY <2>0, CaFirstOf
    <3> QED BY <2>0, <3>1 DEF CaCount, CaBefore
  <2>2. Ca!FirstOf(y, 12) = 365 * (y - 1970) + (Ca!LeapDays(y - 1) - 477) + 334 + CaLeap(y)
    <3>1. Ca!FirstOf(y, 12) = CaCount(y, 12) /\ Ca!LeapDays(y - 1) \in Int /\ CaLeap(y) \in 0 .. 1
      BY <2>0, CaFirstOf, CaLengthIs
    <3> QED BY <3>1 DEF CaCount, CaBefore
  <2>3. Ca!LeapDays(y) = Ca!LeapDays(y - 1) + CaLeap(y) /\ Ca!LeapDays(y - 1) \in Int
    BY CaLeapDays
  <2>4. Ca!Length(y, 12) = 31 /\ CaLeap(y) \in 0 .. 1
    BY CaLengthIs
  <2>5. Ca!FirstOf(z, 1) = Ca!FirstOf(y, 12) + Ca!Length(y, 12)
    BY <2>0, <2>1, <2>2, <2>3, <2>4 DEF z
  <2>6. (12 % 12) + 1 = 1
    OBVIOUS
  <2> QED BY <1>1, <2>5, <2>6, Zenon DEF z
<1>2. CASE m # 12
  <2>1. m + 1 \in 1 .. 12 /\ (m % 12) + 1 = m + 1
    BY <1>2
  <2>2. CaBefore(m + 1) = CaBefore(m) + IF m = 2 THEN 28 ELSE IF m \in {4, 6, 9, 11} THEN 30 ELSE 31
    BY <1>2 DEF CaBefore
  <2>3. Ca!LeapDays(y - 1) \in Int /\ CaBefore(m) \in Int
    BY CaFirstOf
  <2> DEFINE l == Ca!LeapDays(y - 1)
             n == m + 1
  <2>4. Ca!FirstOf(y, m) = CaCount(y, m) /\ Ca!FirstOf(y, n) = CaCount(y, n)
    BY <2>1, CaFirstOf
  <2>5. /\ Ca!FirstOf(y, m) = 365 * (y - 1970) + (l - 477) + CaBefore(m) + IF m > 2 THEN CaLeap(y) ELSE 0
        /\ Ca!FirstOf(y, n) = 365 * (y - 1970) + (l - 477) + CaBefore(n) + IF n > 2 THEN CaLeap(y) ELSE 0
    BY <2>4, SMT DEF CaCount
  <2>6. /\ CaLeap(y) \in 0 .. 1
        /\ Ca!Length(y, m) = IF m = 2 THEN 28 + CaLeap(y) ELSE IF m \in {4, 6, 9, 11} THEN 30 ELSE 31
    BY CaLengthIs
  <2>7. l \in Int /\ n = m + 1 /\ n \in 1 .. 12
    BY <2>1, <2>3
  <2>8. CaBefore(n) = CaBefore(m) + IF m = 2 THEN 28 ELSE IF m \in {4, 6, 9, 11} THEN 30 ELSE 31
    BY <2>2
  <2> HIDE DEF l, n
  <2>9. Ca!FirstOf(y, n) = Ca!FirstOf(y, m) + Ca!Length(y, m)
    BY <2>3, <2>4, <2>5, <2>6, <2>7, <2>8
  <2>10. (m % 12) + 1 = n
    BY <2>1 DEF n
  <2> QED BY <1>2, <2>9, <2>10, Zenon
<1> QED BY <1>1, <1>2

-----------------------------------------------------------------------------
(* Days and dates.                                                         *)

CaEraOfYear(i) == Ca!DivTrunc(IF i >= 0 THEN i ELSE i - 399, 400)
CaEraOfDay(i)  == Ca!DivTrunc(IF i >= 0 THEN i ELSE i - 146096, 146097)

LEMMA CaEra ==
  ASSUME NEW i \in Int
  PROVE  CaEraOfYear(i) = i \div 400 /\ CaEraOfDay(i) = i \div 146097
<1>1. CASE i >= 0
  BY <1>1, SMT DEF Ca!DivTrunc, CaEraOfYear, CaEraOfDay
<1>2. CASE i < 0
  <2>1. (- (i - 399)) \div 400 = - (i \div 400)
    BY <1>2, SMT
  <2>2. (- (i - 146096)) \div 146097 = - (i \div 146097)
    BY <1>2, SMT
  <2>3. i \div 400 \in Int /\ i \div 146097 \in Int /\ ~ (i - 399 >= 0) /\ ~ (i - 146096 >= 0)
    BY <1>2, SMT
  <2> QED BY <1>2, <2>1, <2>2, <2>3, SMT DEF Ca!DivTrunc, CaEraOfYear, CaEraOfDay
<1> QED BY <1>1, <1>2, SMT

\* The year of an era, by its century c, the four years q of it, and r, found from the
\* day of the era.
CaDays(yoe) == yoe * 365 + yoe \div 4 - yoe \div 100

CaParts(c, q, r, doy, yoe, doe) ==
  /\ 0 <= c /\ c <= 3 /\ 0 <= q /\ q <= 24 /\ 0 <= r /\ r <= 3 /\ yoe = 100 * c + 4 * q + r
  /\ 0 <= doy /\ doy <= 365 /\ (doy = 365 => r = 3 /\ (q # 24 \/ c = 3))
  /\ doe = CaDays(yoe) + doy
CaFound(doe, yoe) ==
  /\ 0 <= yoe /\ yoe <= 399 /\ 0 <= doe /\ doe <= 146096
  /\ (doe - doe \div 1460 + doe \div 36524 - doe \div 146096) \div 365 = yoe

LEMMA CaYear ==
  ASSUME NEW c \in Int, NEW q \in Int, NEW r \in Int, NEW doy \in Int, NEW yoe \in Int, NEW doe \in Int,
         CaParts(c, q, r, doy, yoe, doe)
  PROVE  CaFound(doe, yoe)
<1>1. /\ 0 <= c /\ c <= 3 /\ 0 <= q /\ q <= 24 /\ 0 <= r /\ r <= 3 /\ yoe = 100 * c + 4 * q + r
      /\ 0 <= doy /\ doy <= 365 /\ (doy = 365 => r = 3 /\ (q # 24 \/ c = 3))
      /\ doe = CaDays(yoe) + doy
  BY SMT DEF CaParts
<1>2. yoe \div 4 = 25 * c + q
  BY <1>1, SMT
<1>3. yoe \div 100 = c
  BY <1>1, SMT
<1>4. 0 <= yoe /\ yoe <= 399 /\ doe = 36524 * c + 1461 * q + 365 * r + doy
  BY <1>1, <1>2, <1>3, SMT DEF CaDays
<1>5. 0 <= doe /\ doe <= 146096 /\ (doe = 146096 <=> c = 3 /\ q = 24 /\ r = 3 /\ doy = 365)
  BY <1>1, <1>4, SMT
<1> DEFINE t == 24 * c + q + 365 * r + doy
           b == IF t >= 1460 THEN 1 ELSE 0
<1>6. t = 24 * c + q + 365 * r + doy /\ t \in Int /\ 0 <= t /\ t < 2920
  BY <1>1, SMT
<1> HIDE DEF t
<1>7. b \in Int /\ 0 <= t - 1460 * b /\ t - 1460 * b < 1460 /\ 0 <= doy - b /\ doy - b <= 364
  <2>1. CASE t >= 1460
    BY <2>1, <1>1, <1>6, SMT
  <2>2. CASE ~ (t >= 1460)
    BY <2>2, <1>1, <1>6, SMT
  <2> QED BY <2>1, <2>2, SMT
<1> HIDE DEF b
<1>8. doe \div 1460 = 25 * c + q + b
  <2> DEFINE Q == 25 * c + q + b
             R == t - 1460 * b
  <2>1. Q \in Int /\ R \in Int /\ 0 <= R /\ R < 1460 /\ doe = 1460 * Q + R
    BY <1>1, <1>4, <1>6, <1>7, SMT
  <2> HIDE DEF Q, R
  <2>2. doe \div 1460 = Q
    BY <2>1, SMT
  <2> QED BY <2>2, SMT DEF Q
<1>9. doe \div 36524 - doe \div 146096 = c
  <2>1. CASE doe = 146096
    <3>1. 146096 \div 36524 = 4 /\ 146096 \div 146096 = 1
      BY SMT
    <3> QED BY <2>1, <3>1, <1>5, SMT
  <2>2. CASE doe # 146096
    <3> DEFINE R == 1461 * q + 365 * r + doy
    <3>1. R \in Int /\ 0 <= R /\ R < 36524 /\ doe = 36524 * c + R
      BY <2>2, <1>1, <1>4, <1>5, SMT
    <3> HIDE DEF R
    <3>2. doe \div 36524 = c
      BY <3>1, <1>1, SMT
    <3>3. doe \div 146096 = 0
      BY <2>2, <1>5, SMT
    <3> QED BY <3>2, <3>3, <1>1, SMT
  <2> QED BY <2>1, <2>2, SMT
<1> DEFINE n == doe - doe \div 1460 + doe \div 36524 - doe \div 146096
           u == doe \div 36524
           v == doe \div 146096
<1>10. u \in Int /\ v \in Int /\ u - v = c
  BY <1>9, SMT
<1>11. n = (doe - (25 * c + q + b)) + u - v
  BY <1>8, SMT
<1> HIDE DEF u, v
<1>12. n \in Int /\ n = 365 * yoe + (doy - b)
  BY <1>1, <1>4, <1>7, <1>10, <1>11, SMT
<1> HIDE DEF n
<1>13. n \div 365 = yoe
  <2> DEFINE R == doy - b
  <2>1. R \in Int /\ 0 <= R /\ R < 365 /\ n = 365 * yoe + R
    BY <1>1, <1>7, <1>12, SMT
  <2> HIDE DEF R
  <2> QED BY <2>1, <1>12, SMT
<1> QED BY <1>4, <1>5, <1>13, SMT DEF n, CaFound

\* Years that begin in March, and the days before a month of such a year.
CaMarchYear(y, m) == IF m <= 2 THEN y - 1 ELSE y
CaMp(m)           == IF m > 2 THEN m - 3 ELSE m + 9
CaMonthDays(m)    == (153 * CaMp(m) + 2) \div 5

LEMMA CaMonthDaysIs ==
  ASSUME NEW m \in 1 .. 12
  PROVE  /\ CaMonthDays(m) = IF m > 2 THEN CaBefore(m) - 59 ELSE CaBefore(m) + 306
         /\ CaMp(m) \in Int /\ 0 <= CaMp(m) /\ CaMp(m) <= 11 /\ CaMonthDays(m) \in Int
<1>1. CASE m > 2
  BY <1>1, SMT DEF CaMonthDays, CaMp, CaBefore
<1>2. CASE m = 1
  BY <1>2, SMT DEF CaMonthDays, CaMp, CaBefore
<1>3. CASE m = 2
  BY <1>3, SMT DEF CaMonthDays, CaMp, CaBefore
<1> QED BY <1>1, <1>2, <1>3, SMT

LEMMA CaMonth ==
  ASSUME NEW y \in Int, NEW m \in 1 .. 12, NEW d \in Int, 1 <= d, d <= Ca!Length(y, m),
         NEW doy \in Int, doy = CaMonthDays(m) + d - 1
  PROVE  /\ 0 <= doy /\ doy <= 365 /\ (doy = 365 => m = 2 /\ CaLeap(y) = 1)
         /\ (5 * doy + 2) \div 153 = CaMp(m)
<1>1. /\ CaLeap(y) \in Int /\ 0 <= CaLeap(y) /\ CaLeap(y) <= 1
      /\ Ca!Length(y, m) = IF m = 2 THEN 28 + CaLeap(y) ELSE IF m \in {4, 6, 9, 11} THEN 30 ELSE 31
  <2>1. /\ CaLeap(y) \in 0 .. 1
        /\ Ca!Length(y, m) = IF m = 2 THEN 28 + CaLeap(y) ELSE IF m \in {4, 6, 9, 11} THEN 30 ELSE 31
    BY CaLengthIs
  <2> QED BY <2>1
<1>2. CaMonthDays(m) = IF m > 2 THEN CaBefore(m) - 59 ELSE CaBefore(m) + 306
  BY CaMonthDaysIs
<1>3. CASE m = 1
  BY <1>1, <1>2, <1>3, SMT DEF CaMp, CaBefore
<1>4. CASE m = 2
  BY <1>1, <1>2, <1>4, SMT DEF CaMp, CaBefore
<1>5. CASE m = 3
  BY <1>1, <1>2, <1>5, SMT DEF CaMp, CaBefore
<1>6. CASE m = 4
  BY <1>1, <1>2, <1>6, SMT DEF CaMp, CaBefore
<1>7. CASE m = 5
  BY <1>1, <1>2, <1>7, SMT DEF CaMp, CaBefore
<1>8. CASE m = 6
  BY <1>1, <1>2, <1>8, SMT DEF CaMp, CaBefore
<1>9. CASE m = 7
  BY <1>1, <1>2, <1>9, SMT DEF CaMp, CaBefore
<1>10. CASE m = 8
  BY <1>1, <1>2, <1>10, SMT DEF CaMp, CaBefore
<1>11. CASE m = 9
  BY <1>1, <1>2, <1>11, SMT DEF CaMp, CaBefore
<1>12. CASE m = 10
  BY <1>1, <1>2, <1>12, SMT DEF CaMp, CaBefore
<1>13. CASE m = 11
  BY <1>1, <1>2, <1>13, SMT DEF CaMp, CaBefore
<1>14. CASE m = 12
  BY <1>1, <1>2, <1>14, SMT DEF CaMp, CaBefore
<1> QED BY <1>3, <1>4, <1>5, <1>6, <1>7, <1>8, <1>9, <1>10, <1>11, <1>12, <1>13, <1>14, SMT

LEMMA CaQuarters ==
  ASSUME NEW era \in Int, NEW yoe \in Int, NEW Y \in Int, Y = 400 * era + yoe
  PROVE  Y \div 4 = 100 * era + yoe \div 4 /\ Y \div 100 = 4 * era + yoe \div 100
<1>1. PICK a \in Int, b \in Int : yoe = 4 * a + b /\ 0 <= b /\ b < 4 /\ yoe \div 4 = a
  <2>1. yoe \div 4 \in Int /\ yoe % 4 \in Int /\ yoe = 4 * (yoe \div 4) + (yoe % 4) /\ 0 <= yoe % 4 /\ yoe % 4 < 4
    BY SMT
  <2> QED BY <2>1, SMT
<1>2. PICK a2 \in Int, b2 \in Int : yoe = 100 * a2 + b2 /\ 0 <= b2 /\ b2 < 100 /\ yoe \div 100 = a2
  <2>1. /\ yoe \div 100 \in Int /\ yoe % 100 \in Int /\ yoe = 100 * (yoe \div 100) + (yoe % 100)
        /\ 0 <= yoe % 100 /\ yoe % 100 < 100
    BY SMT
  <2> QED BY <2>1, SMT
<1>3. PICK q \in Int : q = 100 * era + a
  BY SMT
<1>4. PICK q2 \in Int : q2 = 4 * era + a2
  BY SMT
<1>5. Y = 4 * q + b /\ Y = 100 * q2 + b2
  BY <1>1, <1>2, <1>3, <1>4, SMT
<1>6. Y \div 4 = q
  BY <1>1, <1>5, SMT
<1>7. Y \div 100 = q2
  BY <1>2, <1>5, SMT
<1> QED BY <1>1, <1>2, <1>3, <1>4, <1>6, <1>7, SMT

\* The day number of a date, by the year of March, its era, and the day of the era.
CaIsYear(Y, era, yoe) == 0 <= yoe /\ yoe <= 399 /\ Y = 400 * era + yoe
CaNumbered(y, m, era, yoe) == Ca!FirstOf(y, m) = era * 146097 + CaDays(yoe) + CaMonthDays(m) - 719468

LEMMA CaDayNumber ==
  ASSUME NEW y \in Int, NEW m \in 1 .. 12, NEW Y \in Int, Y = CaMarchYear(y, m),
         NEW era \in Int, NEW yoe \in Int, CaIsYear(Y, era, yoe)
  PROVE  CaNumbered(y, m, era, yoe)
<1>1. 0 <= yoe /\ yoe <= 399 /\ Y = 400 * era + yoe
  BY SMT DEF CaIsYear
<1>2. Y \div 4 = 100 * era + yoe \div 4 /\ Y \div 100 = 4 * era + yoe \div 100
  BY <1>1, CaQuarters, SMT
<1>3. Y \div 400 = era
  BY <1>1, SMT
<1>4. Ca!LeapDays(Y) = 97 * era + yoe \div 4 - yoe \div 100
  BY <1>2, <1>3, SMT DEF Ca!LeapDays
<1>5. CaDays(yoe) \in Int /\ 365 * Y + Ca!LeapDays(Y) = era * 146097 + CaDays(yoe)
  <2>1. PICK a \in Int : a = yoe \div 4
    BY SMT
  <2>2. PICK b \in Int : b = yoe \div 100
    BY SMT
  <2>3. Ca!LeapDays(Y) = 97 * era + a - b /\ CaDays(yoe) = yoe * 365 + a - b
    BY <1>4, <2>1, <2>2, SMT DEF CaDays
  <2> QED BY <1>1, <2>3, SMT
<1>6. /\ Ca!FirstOf(y, m) = CaCount(y, m) /\ Ca!FirstOf(y, m) \in Int
      /\ CaBefore(m) \in Int /\ Ca!LeapDays(y - 1) \in Int
  BY CaFirstOf
<1>7. Ca!LeapDays(y) \in Int /\ Ca!LeapDays(y) = Ca!LeapDays(y - 1) + CaLeap(y)
  BY CaLeapDays
<1>8. /\ CaMonthDays(m) = IF m > 2 THEN CaBefore(m) - 59 ELSE CaBefore(m) + 306
      /\ CaMonthDays(m) \in Int
  BY CaMonthDaysIs
<1>9. CaLeap(y) \in Int
  BY CaLengthIs
<1>10. Ca!FirstOf(y, m) = 365 * Y + Ca!LeapDays(Y) + CaMonthDays(m) - 719468
  <2>1. CASE m > 2
    BY <2>1, <1>6, <1>7, <1>8, <1>9, SMT DEF CaCount, CaMarchYear
  <2>2. CASE ~ (m > 2)
    BY <2>2, <1>6, <1>7, <1>8, <1>9, SMT DEF CaCount, CaMarchYear
  <2> QED BY <2>1, <2>2, SMT
<1> QED BY <1>5, <1>6, <1>8, <1>10, SMT DEF CaNumbered

LEMMA CaEraOf ==
  ASSUME NEW Y \in Int
  PROVE  \E era \in Int, yoe \in Int :
           CaIsYear(Y, era, yoe) /\ CaEraOfYear(Y) = era
<1>1. CaEraOfYear(Y) = Y \div 400
  BY CaEra, SMT
<1>2. Y \div 400 \in Int /\ Y % 400 \in Int /\ Y = 400 * (Y \div 400) + (Y % 400) /\ 0 <= Y % 400 /\ Y % 400 < 400
  BY SMT
<1> QED BY <1>1, <1>2, SMT DEF CaIsYear

LEMMA CaFromCivil ==
  ASSUME NEW y \in Int, NEW m \in 1 .. 12, NEW d \in Int
  PROVE  Ca!days_from_civil(y, m, d) = Ca!FirstOf(y, m) + d - 1
<1>1. PICK Y \in Int : Y = CaMarchYear(y, m)
  BY SMT DEF CaMarchYear
<1>2. PICK era \in Int, yoe \in Int : CaIsYear(Y, era, yoe) /\ CaEraOfYear(Y) = era
  BY CaEraOf
<1>3. Ca!FirstOf(y, m) = era * 146097 + CaDays(yoe) + CaMonthDays(m) - 719468
  <2>1. CaNumbered(y, m, era, yoe)
    BY <1>1, <1>2, CaDayNumber
  <2> QED BY <2>1, SMT DEF CaNumbered
<1> DEFINE Y2   == IF m <= 2 THEN y - 1 ELSE y
           era2 == Ca!DivTrunc(IF Y2 >= 0 THEN Y2 ELSE Y2 - 399, 400)
           yoe2 == Y2 - era2 * 400
           doy2 == (153 * (IF m > 2 THEN m - 3 ELSE m + 9) + 2) \div 5 + d - 1
           doe2 == yoe2 * 365 + yoe2 \div 4 - yoe2 \div 100 + doy2
<1>4. Ca!days_from_civil(y, m, d) = era2 * 146097 + doe2 - 719468
  BY SMT DEF Ca!days_from_civil
<1>5. Y2 = Y
  BY <1>1, SMT DEF CaMarchYear
<1> HIDE DEF Y2
<1>6. era2 = era
  <2>1. era2 = CaEraOfYear(Y2)
    BY SMT DEF CaEraOfYear
  <2> QED BY <2>1, <1>2, <1>5, SMT
<1> HIDE DEF era2
<1>7. yoe2 = yoe
  BY <1>2, <1>5, <1>6, SMT DEF CaIsYear
<1> HIDE DEF yoe2
<1>8. doy2 = CaMonthDays(m) + d - 1 /\ CaMonthDays(m) \in Int
  BY CaMonthDaysIs, SMT DEF CaMonthDays, CaMp
<1> HIDE DEF doy2
<1>9. doe2 = CaDays(yoe) + doy2 /\ CaDays(yoe) \in Int
  BY <1>7, <1>8, SMT DEF CaDays
<1> HIDE DEF doe2
<1>10. PICK a \in Int, b \in Int : a = CaDays(yoe) /\ b = CaMonthDays(m)
  BY <1>8, <1>9
<1>11. doe2 = a + b + d - 1
  BY <1>8, <1>9, <1>10, SMT
<1>12. Ca!days_from_civil(y, m, d) = era * 146097 + (a + b + d - 1) - 719468
  BY <1>4, <1>6, <1>11, SMT
<1>13. Ca!FirstOf(y, m) = era * 146097 + a + b - 719468
  BY <1>3, <1>10, SMT
<1> QED BY <1>12, <1>13, SMT

\* Only a leap year's 29th of February is day 365 of its year of March.
CaAfter(y, era, c, q, r) ==
  /\ 0 <= c /\ c <= 3 /\ 0 <= q /\ q <= 24 /\ 0 <= r /\ r <= 3
  /\ y = 400 * era + 100 * c + 4 * q + r + 1

CaLastYear(c, q, r) == r = 3 /\ (q # 24 \/ c = 3)

LEMMA CaLastDay ==
  ASSUME NEW y \in Int, CaLeap(y) = 1,
         NEW era \in Int, NEW c \in Int, NEW q \in Int, NEW r \in Int,
         CaAfter(y, era, c, q, r)
  PROVE  CaLastYear(c, q, r)
<1>0. /\ 0 <= c /\ c <= 3 /\ 0 <= q /\ q <= 24 /\ 0 <= r /\ r <= 3
      /\ y = 400 * era + 100 * c + 4 * q + r + 1
  BY SMT DEF CaAfter
<1>1. y % 4 = 0 /\ (y % 100 = 0 => y % 400 = 0)
  BY SMT DEF CaLeap
<1>2. r = 3
  BY <1>0, <1>1, SMT
<1>3. ASSUME q = 24 PROVE c = 3
  <2>1. y = 100 * (4 * era + c + 1)
    BY <1>0, <1>2, <1>3, SMT
  <2>2. y % 100 = 0
    BY <2>1, SMT
  <2>3. y % 400 = 0 /\ y = 400 * era + 100 * (c + 1)
    BY <1>0, <1>1, <1>2, <1>3, <2>2, SMT
  <2> QED BY <1>0, <2>3, SMT
<1> QED BY <1>2, <1>3, SMT DEF CaLastYear

LEMMA CaToDate ==
  ASSUME NEW y \in Int, NEW m \in 1 .. 12, NEW d \in Int, 1 <= d, d <= Ca!Length(y, m)
  PROVE  Ca!civil_from_days(Ca!FirstOf(y, m) + d - 1) = <<y, m, d>>
<1>1. PICK Y \in Int : Y = CaMarchYear(y, m)
  BY SMT DEF CaMarchYear
<1>2. PICK era \in Int, yoe \in Int : CaIsYear(Y, era, yoe)
  BY CaEraOf
<1>3. Ca!FirstOf(y, m) = era * 146097 + CaDays(yoe) + CaMonthDays(m) - 719468
  <2>1. CaNumbered(y, m, era, yoe)
    BY <1>1, <1>2, CaDayNumber
  <2> QED BY <2>1, SMT DEF CaNumbered
<1>4. PICK doy \in Int : doy = CaMonthDays(m) + d - 1
  BY CaMonthDaysIs, SMT
<1>5. /\ 0 <= doy /\ doy <= 365 /\ (doy = 365 => m = 2 /\ CaLeap(y) = 1)
      /\ (5 * doy + 2) \div 153 = CaMp(m)
  BY <1>4, CaMonth
<1>6. PICK c \in Int, q \in Int, r \in Int :
        /\ 0 <= c /\ c <= 3 /\ 0 <= q /\ q <= 24 /\ 0 <= r /\ r <= 3 /\ yoe = 100 * c + 4 * q + r
  <2>1. PICK c \in Int, h \in Int : yoe = 100 * c + h /\ 0 <= h /\ h < 100
    <3>1. yoe \div 100 \in Int /\ yoe % 100 \in Int /\ yoe = 100 * (yoe \div 100) + (yoe % 100) /\ 0 <= yoe % 100 /\ yoe % 100 < 100
      BY SMT
    <3> QED BY <3>1, SMT
  <2>2. PICK q \in Int, r \in Int : h = 4 * q + r /\ 0 <= r /\ r < 4
    <3>1. h \div 4 \in Int /\ h % 4 \in Int /\ h = 4 * (h \div 4) + (h % 4) /\ 0 <= h % 4 /\ h % 4 < 4
      BY SMT
    <3> QED BY <3>1, SMT
  <2>3. 0 <= c /\ c <= 3 /\ 0 <= q /\ q <= 24 /\ 0 <= r /\ r <= 3 /\ yoe = 100 * c + 4 * q + r
    BY <1>2, <2>1, <2>2, SMT DEF CaIsYear
  <2> QED BY <2>3, SMT
<1>7. doy = 365 => r = 3 /\ (q # 24 \/ c = 3)
  <2> SUFFICES ASSUME doy = 365 PROVE r = 3 /\ (q # 24 \/ c = 3)
    BY SMT
  <2>1. m = 2 /\ CaLeap(y) = 1
    BY <1>5, SMT
  <2>2. CaAfter(y, era, c, q, r)
    BY <2>1, <1>1, <1>2, <1>6, SMT DEF CaMarchYear, CaIsYear, CaAfter
  <2>3. CaLastYear(c, q, r)
    BY <2>1, <2>2, CaLastDay
  <2> QED BY <2>3, SMT DEF CaLastYear
<1>8. PICK doe \in Int : doe = CaDays(yoe) + doy
  <2>1. CaDays(yoe) \in Int
    BY SMT DEF CaDays
  <2> QED BY <2>1, SMT
<1>9. /\ 0 <= doe /\ doe <= 146096
      /\ (doe - doe \div 1460 + doe \div 36524 - doe \div 146096) \div 365 = yoe
  <2>1. CaParts(c, q, r, doy, yoe, doe)
    BY <1>5, <1>6, <1>7, <1>8, SMT DEF CaParts
  <2>2. CaFound(doe, yoe)
    BY <2>1, CaYear
  <2> QED BY <2>2, SMT DEF CaFound
<1>10. PICK w \in Int : w = Ca!FirstOf(y, m) + d - 1
  <2>1. Ca!FirstOf(y, m) \in Int
    BY CaFirstOf
  <2> QED BY <2>1, SMT
<1> DEFINE z    == w + 719468
           era2 == Ca!DivTrunc(IF z >= 0 THEN z ELSE z - 146096, 146097)
           doe2 == z - era2 * 146097
           yoe2 == (doe2 - doe2 \div 1460 + doe2 \div 36524 - doe2 \div 146096) \div 365
           doy2 == doe2 - (365 * yoe2 + yoe2 \div 4 - yoe2 \div 100)
           mp2  == (5 * doy2 + 2) \div 153
           d2   == doy2 - (153 * mp2 + 2) \div 5 + 1
           m2   == IF mp2 < 10 THEN mp2 + 3 ELSE mp2 - 9
           y2   == yoe2 + era2 * 400
<1>11. Ca!civil_from_days(w) = <<IF m2 <= 2 THEN y2 + 1 ELSE y2, m2, d2>>
  BY SMTT(30) DEF Ca!civil_from_days
<1>12. z \in Int /\ z = 146097 * era + doe
  <2>1. CaDays(yoe) \in Int /\ CaMonthDays(m) \in Int
    BY CaMonthDaysIs, SMT DEF CaDays
  <2> QED BY <2>1, <1>3, <1>4, <1>8, <1>10, SMT
<1> HIDE DEF z
<1>13. era2 = era
  <2>1. era2 = z \div 146097
    <3>1. era2 = CaEraOfDay(z)
      BY SMT DEF CaEraOfDay
    <3>2. CaEraOfDay(z) = z \div 146097
      <4>1. PICK i \in Int : i = z
        BY <1>12
      <4>2. CaEraOfDay(i) = i \div 146097
        BY CaEra, SMT
      <4> QED BY <4>1, <4>2, SMT
    <3> QED BY <3>1, <3>2, SMT
  <2>2. z \div 146097 = era
    BY <1>9, <1>12, SMT
  <2> QED BY <2>1, <2>2, SMT
<1> HIDE DEF era2
<1>14. doe2 = doe
  BY <1>12, <1>13, SMT
<1> HIDE DEF doe2
<1>15. yoe2 = yoe
  BY <1>9, <1>14, SMT
<1> HIDE DEF yoe2
<1>16. doy2 = doy
  BY <1>8, <1>14, <1>15, SMT DEF CaDays
<1> HIDE DEF doy2
<1>17. mp2 = CaMp(m)
  BY <1>5, <1>16, SMT
<1> HIDE DEF mp2
<1>18. d2 = d
  BY <1>4, <1>16, <1>17, CaMonthDaysIs, SMT DEF CaMonthDays
<1> HIDE DEF d2
<1>19. m2 = m
  BY <1>17, SMT DEF CaMp
<1> HIDE DEF m2
<1>20. y2 = Y
  BY <1>2, <1>13, <1>15, SMT DEF CaIsYear
<1> HIDE DEF y2
<1>21. (IF m2 <= 2 THEN y2 + 1 ELSE y2) = y
  BY <1>1, <1>19, <1>20, SMT DEF CaMarchYear
<1> QED BY <1>10, <1>11, <1>18, <1>19, <1>21, SMT

-----------------------------------------------------------------------------
(* The walk, and add_date.                                                 *)

CaIInv ==
  /\ ca_year \in Int /\ ca_month \in 1 .. 12 /\ ca_origin \in Epochs
  /\ ca_first = Ca!FirstOf(ca_year, ca_month) /\ ca_weekday = (4 + ca_first) % 7

LEMMA CaInit == Ca!Init => CaIInv
BY CalendarIsAnchored DEF Ca!Init, CaIInv

LEMMA CaStep == CaIInv /\ [Ca!Next]_(Ca!vars) => CaIInv'
<1> SUFFICES ASSUME CaIInv, [Ca!Next]_(Ca!vars) PROVE CaIInv'
  OBVIOUS
<1>1. CASE Ca!NextMonth /\ UNCHANGED ca_origin
  <2>1. ca_year' \in Int /\ ca_month' \in 1 .. 12
    BY <1>1, SMT DEF Ca!NextMonth, CaIInv
  <2>2. Ca!FirstOf(ca_year', ca_month') = Ca!FirstOf(ca_year, ca_month) + Ca!Length(ca_year, ca_month)
    <3>1. ca_year' = (IF ca_month = 12 THEN ca_year + 1 ELSE ca_year) /\ ca_month' = (ca_month % 12) + 1
      BY <1>1 DEF Ca!NextMonth
    <3>2. ca_year \in Int /\ ca_month \in 1 .. 12
      BY DEF CaIInv
    <3> QED BY <3>1, <3>2, CaNext
  <2>3. PICK l \in Int : l = Ca!Length(ca_year, ca_month)
    BY CaLengthIs, SMT DEF CaIInv
  <2>4. PICK f \in Int : f = ca_first
    BY CaFirstOfInt DEF CaIInv
  <2>5. ca_first' = f + l /\ ca_weekday' = (ca_weekday + l) % 7 /\ ca_weekday = (4 + f) % 7
    BY <1>1, <2>3, <2>4 DEF Ca!NextMonth, CaIInv
  <2>6. (((4 + f) % 7) + l) % 7 = (4 + (f + l)) % 7
    BY SMT
  <2> QED BY <1>1, <2>1, <2>2, <2>3, <2>4, <2>5, <2>6 DEF CaIInv
<1>2. CASE Ca!LastMonth /\ UNCHANGED ca_origin
  <2>1. ca_year' \in Int /\ ca_month' \in 1 .. 12
    BY <1>2, SMT DEF Ca!LastMonth, CaIInv
  <2>2. Ca!FirstOf(ca_year, ca_month) = Ca!FirstOf(ca_year', ca_month') + Ca!Length(ca_year', ca_month')
    <3>1. ca_year = (IF ca_month' = 12 THEN ca_year' + 1 ELSE ca_year') /\ ca_month = (ca_month' % 12) + 1
      BY <1>2, SMT DEF Ca!LastMonth, CaIInv
    <3>2. PICK y \in Int, m \in 1 .. 12 : y = ca_year' /\ m = ca_month'
      BY <2>1
    <3>3. Ca!FirstOf(IF m = 12 THEN y + 1 ELSE y, (m % 12) + 1) = Ca!FirstOf(y, m) + Ca!Length(y, m)
      BY CaNext
    <3> QED BY <3>1, <3>2, <3>3
  <2>3. PICK l \in Int : l = Ca!Length(ca_year', ca_month')
    BY <2>1, CaLengthIs, SMT
  <2>4. PICK f \in Int : f = ca_first
    BY CaFirstOfInt DEF CaIInv
  <2>5. ca_first' = f - l /\ ca_weekday' = (ca_weekday - l) % 7 /\ ca_weekday = (4 + f) % 7
    BY <1>2, <2>3, <2>4 DEF Ca!LastMonth, CaIInv
  <2>6. (((4 + f) % 7) - l) % 7 = (4 + (f - l)) % 7
    BY SMT
  <2>7. PICK g \in Int : g = Ca!FirstOf(ca_year', ca_month')
    BY <2>1, CaFirstOfInt
  <2>8. g = f - l
    BY <2>2, <2>3, <2>4, <2>7, SMT DEF CaIInv
  <2> QED BY <1>2, <2>1, <2>5, <2>6, <2>7, <2>8 DEF CaIInv
<1>3. CASE UNCHANGED Ca!vars
  BY <1>3 DEF Ca!vars, CaIInv
<1> QED BY <1>1, <1>2, <1>3 DEF Ca!Next

LEMMA CaWeekday ==
  ASSUME NEW z \in Int, NEW d \in Int, NEW f \in Int, z = f + d - 1
  PROVE  Ca!weekday_of(z) = (((4 + f) % 7) + d - 1) % 7
BY SMT DEF Ca!weekday_of

LEMMA CaDatesAreRight == CaIInv => Ca!DatesAreRight
<1> SUFFICES ASSUME CaIInv, NEW d \in 1 .. Ca!Length(ca_year, ca_month)
             PROVE  LET z == ca_first + d - 1
                    IN  /\ Ca!civil_from_days(z) = <<ca_year, ca_month, d>>
                        /\ Ca!days_from_civil(ca_year, ca_month, d) = z
                        /\ Ca!weekday_of(z) = (ca_weekday + d - 1) % 7
  BY DEF Ca!DatesAreRight
<1>1. PICK y \in Int, m \in 1 .. 12 : y = ca_year /\ m = ca_month
  BY DEF CaIInv
<1>2. PICK f \in Int : f = ca_first /\ f = Ca!FirstOf(y, m)
  BY <1>1, CaFirstOf DEF CaIInv
<1>3. d \in Int /\ 1 <= d /\ d <= Ca!Length(y, m)
  <2>1. Ca!Length(y, m) \in 28 .. 31
    BY CaLengthIs
  <2> QED BY <1>1, <2>1
<1>4. Ca!civil_from_days(f + d - 1) = <<y, m, d>>
  BY <1>2, <1>3, CaToDate
<1>5. Ca!days_from_civil(y, m, d) = f + d - 1
  BY <1>2, <1>3, CaFromCivil
<1>6. PICK z \in Int : z = f + d - 1
  BY <1>3
<1>7. Ca!weekday_of(z) = (((4 + f) % 7) + d - 1) % 7
  BY <1>3, <1>6, CaWeekday
<1> QED BY <1>1, <1>2, <1>4, <1>5, <1>6, <1>7 DEF CaIInv

\* add_date, of a date whose month of arrival lies in the years that have a date.
CaArrives(y, m, s, Y, M) == y * 12 + (m - 1) + s = Y * 12 + (M - 1) /\ 1 <= Y /\ Y <= 9999
CaCut(d, l)        == IF d < l THEN d ELSE l
CaAdded(y, m, d, s, Y, M) ==
  Ca!add_date(Ca!FirstOf(y, m) + d - 1, s) = Ca!FirstOf(Y, M) + CaCut(d, Ca!Length(Y, M)) - 1

LEMMA CaAddDate ==
  ASSUME NEW y \in Int, NEW m \in 1 .. 12, NEW d \in Int, 1 <= d, d <= Ca!Length(y, m), NEW s \in Int,
         NEW Y \in Int, NEW M \in 1 .. 12, CaArrives(y, m, s, Y, M)
  PROVE  CaAdded(y, m, d, s, Y, M)
<1>1. PICK w \in Int : w = Ca!FirstOf(y, m) + d - 1
  <2>1. Ca!FirstOf(y, m) \in Int
    BY CaFirstOfInt
  <2> QED BY <2>1
<1>2. Ca!civil_from_days(w) = <<y, m, d>>
  BY <1>1, CaToDate
<1> DEFINE date  == Ca!civil_from_days(w)
           total == date[1] * 12 + (date[2] - 1) + s
           y2    == total \div 12
           m2    == (total % 12) + 1
           last  == Ca!days_in_month(y2, m2)
           d2    == IF date[3] < last THEN date[3] ELSE last
<1>3. Ca!add_date(w, s) = IF y2 \in 1 .. 9999 THEN Ca!days_from_civil(y2, m2, d2) ELSE w
  BY DEF Ca!add_date
<1>4. date[1] = y /\ date[2] = m /\ date[3] = d
  BY <1>2
<1> HIDE DEF date
<1>5. total = Y * 12 + (M - 1)
  BY <1>4 DEF CaArrives
<1> HIDE DEF total
<1>6. y2 = Y /\ m2 = M
  BY <1>5, SMT
<1> HIDE DEF y2, m2
<1>7. Ca!days_in_month(Y, M) = Ca!Length(Y, M)
  BY CaDaysInMonth
<1>8. d2 = CaCut(d, Ca!Length(Y, M))
  BY <1>4, <1>6, <1>7 DEF CaCut
<1> HIDE DEF d2
<1>9. CaCut(d, Ca!Length(Y, M)) \in Int /\ Y \in Int
  BY CaLengthIs DEF CaCut
<1>10. Ca!days_from_civil(Y, M, CaCut(d, Ca!Length(Y, M))) = Ca!FirstOf(Y, M) + CaCut(d, Ca!Length(Y, M)) - 1
  BY <1>9, CaFromCivil
<1>11. 1 <= Y /\ Y <= 9999
  BY SMT DEF CaArrives
<1>12. Ca!add_date(w, s) = Ca!days_from_civil(Y, M, CaCut(d, Ca!Length(Y, M)))
  <2>1. Y \in 1 .. 9999
    BY <1>9, <1>11
  <2> QED BY <2>1, <1>3, <1>6, <1>8
<1> QED BY <1>1, <1>10, <1>12, Zenon DEF CaAdded

CaInYears(y, s) == Ca!WellInside(y + (s \div 12)) /\ Ca!WellInside(y)
CaBothArrive(y, m, s, Y, M) ==
  /\ CaArrives(y, m, s, Y, M) /\ CaArrives(Y, M, - s, y, m)
  /\ CaArrives(IF m = 12 THEN y + 1 ELSE y, (m % 12) + 1, s, IF M = 12 THEN Y + 1 ELSE Y, (M % 12) + 1)

LEMMA CaTargets ==
  ASSUME NEW y \in Int, NEW m \in 1 .. 12, NEW s \in Int, CaInYears(y, s)
  PROVE  \E Y \in Int, M \in 1 .. 12 : CaBothArrive(y, m, s, Y, M)
<1>0. y + (s \div 12) >= 2 /\ y + (s \div 12) <= 9997 /\ y >= 2 /\ y <= 9997
  BY SMT DEF CaInYears, Ca!WellInside
<1>1. PICK k \in Int, j \in Int : s = 12 * k + j /\ 0 <= j /\ j <= 11 /\ s \div 12 = k
  <2>1. s \div 12 \in Int /\ s % 12 \in Int /\ s = 12 * (s \div 12) + (s % 12) /\ 0 <= s % 12 /\ s % 12 <= 11
    BY SMT
  <2> QED BY <2>1, SMT
<1>2. m \in Int /\ 1 <= m /\ m <= 12
  BY SMT
<1>3. PICK Y \in Int, M \in Int :
        (m + j <= 12 => Y = y + k /\ M = m + j) /\ (~ (m + j <= 12) => Y = y + k + 1 /\ M = m + j - 12)
  <2>1. y + k \in Int /\ m + j \in Int /\ y + k + 1 \in Int /\ m + j - 12 \in Int
    BY <1>1, <1>2, SMT
  <2> QED BY <2>1, Zenon
<1>4. 1 <= M /\ M <= 12 /\ 12 * y + m + s = 12 * Y + M /\ 2 <= Y /\ Y <= 9998
  <2>1. CASE m + j <= 12
    BY <2>1, <1>0, <1>1, <1>2, <1>3, SMT
  <2>2. CASE ~ (m + j <= 12)
    BY <2>2, <1>0, <1>1, <1>2, <1>3, SMT
  <2> QED BY <2>1, <2>2, SMT
<1>5. CaArrives(y, m, s, Y, M)
  BY <1>0, <1>2, <1>4, SMT DEF CaArrives
<1>6. CaArrives(Y, M, - s, y, m)
  BY <1>0, <1>2, <1>4, SMT DEF CaArrives
<1>7. PICK y3 \in Int, m3 \in Int : y3 = (IF m = 12 THEN y + 1 ELSE y) /\ m3 = (m % 12) + 1
  BY SMT
<1>8. PICK Y3 \in Int, M3 \in Int : Y3 = (IF M = 12 THEN Y + 1 ELSE Y) /\ M3 = (M % 12) + 1
  BY SMT
<1>9. 12 * y3 + m3 = 12 * y + m + 1
  <2>1. CASE m = 12
    BY <2>1, <1>7, SMT
  <2>2. CASE m # 12
    <3>1. m % 12 = m
      BY <2>2, <1>2, SMT
    <3> QED BY <2>2, <3>1, <1>7, SMT
  <2> QED BY <2>1, <2>2, SMT
<1>10. 12 * Y3 + M3 = 12 * Y + M + 1 /\ 1 <= Y3 /\ Y3 <= 9999
  <2>1. CASE M = 12
    BY <2>1, <1>4, <1>8, SMT
  <2>2. CASE M # 12
    <3>1. M % 12 = M
      BY <2>2, <1>4, SMT
    <3> QED BY <2>2, <3>1, <1>4, <1>8, SMT
  <2> QED BY <2>1, <2>2, SMT
<1>11. CaArrives(y3, m3, s, Y3, M3)
  BY <1>4, <1>9, <1>10, SMT DEF CaArrives
<1>12. M \in 1 .. 12
  BY <1>4, SMT
<1>13. CaBothArrive(y, m, s, Y, M)
  BY <1>5, <1>6, <1>7, <1>8, <1>11, Zenon DEF CaBothArrive
<1> QED BY <1>12, <1>13

\* What ShiftsAreOrdered says of a day.
CaOrdered(z, d, s) ==
  LET to == Ca!civil_from_days(Ca!add_date(z, s))
  IN  /\ Ca!add_date(z, s) <= Ca!add_date(z + 1, s)
      /\ to[3] = d => Ca!add_date(Ca!add_date(z, s), -s) = z
      /\ to[3] # d => d > Ca!Length(to[1], to[2]) /\ to[3] = Ca!Length(to[1], to[2])

LEMMA CaShift ==
  ASSUME NEW y \in Int, NEW m \in 1 .. 12, NEW s \in Int, NEW Y \in Int, NEW M \in 1 .. 12,
         CaBothArrive(y, m, s, Y, M),
         NEW d \in Int, 1 <= d, d <= Ca!Length(y, m), NEW z \in Int, z = Ca!FirstOf(y, m) + d - 1
  PROVE  CaOrdered(z, d, s)
<1>1. PICK f \in Int, F \in Int, l \in Int, L \in Int :
        /\ f = Ca!FirstOf(y, m) /\ F = Ca!FirstOf(Y, M) /\ l = Ca!Length(y, m) /\ L = Ca!Length(Y, M)
        /\ 28 <= l /\ 28 <= L
  <2>1. /\ Ca!FirstOf(y, m) \in Int /\ Ca!FirstOf(Y, M) \in Int
        /\ Ca!Length(y, m) \in 28 .. 31 /\ Ca!Length(Y, M) \in 28 .. 31
    BY CaFirstOfInt, CaLengthIs
  <2> QED BY <2>1
<1>2. PICK e \in Int : e = CaCut(d, L) /\ 1 <= e /\ e <= L /\ (e = d \/ (e = L /\ d > L))
  BY <1>1 DEF CaCut
<1>3. Ca!add_date(z, s) = F + e - 1
  <2>1. CaArrives(y, m, s, Y, M)
    BY DEF CaBothArrive
  <2>2. CaAdded(y, m, d, s, Y, M)
    BY <2>1, CaAddDate
  <2> QED BY <1>1, <1>2, <2>2 DEF CaAdded
<1>4. Ca!civil_from_days(F + e - 1) = <<Y, M, e>>
  <2>1. e \in Int /\ 1 <= e /\ e <= Ca!Length(Y, M)
    BY <1>1, <1>2
  <2>2. Ca!civil_from_days(Ca!FirstOf(Y, M) + e - 1) = <<Y, M, e>>
    BY <2>1, CaToDate
  <2> QED BY <2>2, <1>1
<1>5. Ca!add_date(z, s) <= Ca!add_date(z + 1, s)
  <2>1. CASE d < l
    <3>1. PICK d2 \in Int : d2 = d + 1 /\ 1 <= d2 /\ d2 <= Ca!Length(y, m)
      BY <2>1, <1>1
    <3>2. Ca!add_date(Ca!FirstOf(y, m) + d2 - 1, s) = Ca!FirstOf(Y, M) + CaCut(d2, Ca!Length(Y, M)) - 1
      <4>1. CaArrives(y, m, s, Y, M)
        BY DEF CaBothArrive
      <4>2. CaAdded(y, m, d2, s, Y, M)
        BY <4>1, <3>1, CaAddDate
      <4> QED BY <4>2 DEF CaAdded
    <3>3. PICK e2 \in Int : e2 = CaCut(d2, L) /\ e <= e2
      BY <3>1, <1>1, <1>2 DEF CaCut
    <3>4. z + 1 = f + d2 - 1
      BY <3>1, <1>1
    <3>5. Ca!add_date(z + 1, s) = F + e2 - 1
      BY <3>2, <3>3, <3>4, <1>1
    <3> QED BY <3>3, <3>5, <1>3
  <2>2. CASE d = l
    <3>1. PICK y3 \in Int, m3 \in 1 .. 12 : y3 = (IF m = 12 THEN y + 1 ELSE y) /\ m3 = (m % 12) + 1
      BY SMT
    <3>2. PICK Y3 \in Int, M3 \in 1 .. 12 : Y3 = (IF M = 12 THEN Y + 1 ELSE Y) /\ M3 = (M % 12) + 1
      BY SMT
    <3>3. CaArrives(y3, m3, s, Y3, M3)
      BY <3>1, <3>2, Zenon DEF CaBothArrive
    <3>4. Ca!FirstOf(y3, m3) = Ca!FirstOf(y, m) + Ca!Length(y, m) /\ Ca!FirstOf(Y3, M3) = Ca!FirstOf(Y, M) + Ca!Length(Y, M)
      <4>1. Ca!FirstOf(IF m = 12 THEN y + 1 ELSE y, (m % 12) + 1) = Ca!FirstOf(y, m) + Ca!Length(y, m)
        BY CaNext
      <4>2. Ca!FirstOf(IF M = 12 THEN Y + 1 ELSE Y, (M % 12) + 1) = Ca!FirstOf(Y, M) + Ca!Length(Y, M)
        BY CaNext
      <4> QED BY <4>1, <4>2, <3>1, <3>2
    <3>5. PICK l3 \in Int, L3 \in Int : l3 = Ca!Length(y3, m3) /\ L3 = Ca!Length(Y3, M3) /\ 28 <= l3 /\ 28 <= L3
      <4>1. Ca!Length(y3, m3) \in 28 .. 31 /\ Ca!Length(Y3, M3) \in 28 .. 31
        BY CaLengthIs
      <4> QED BY <4>1
    <3>6. PICK d3 \in Int : d3 = 1 /\ 1 <= d3 /\ d3 <= Ca!Length(y3, m3)
      BY <3>5
    <3>7. Ca!add_date(Ca!FirstOf(y3, m3) + d3 - 1, s) = Ca!FirstOf(Y3, M3) + CaCut(d3, Ca!Length(Y3, M3)) - 1
      <4>1. CaAdded(y3, m3, d3, s, Y3, M3)
        BY <3>3, <3>6, CaAddDate
      <4> QED BY <4>1 DEF CaAdded
    <3>8. CaCut(d3, L3) = 1
      BY <3>5, <3>6 DEF CaCut
    <3>9. z + 1 = Ca!FirstOf(y3, m3) + d3 - 1
      BY <3>4, <3>6, <2>2, <1>1
    <3>10. Ca!add_date(z + 1, s) = F + L + 1 - 1
      BY <3>4, <3>5, <3>7, <3>8, <3>9, <1>1
    <3> QED BY <3>10, <1>2, <1>3
  <2> QED BY <2>1, <2>2, <1>1
<1>6. ASSUME e = d PROVE Ca!add_date(F + e - 1, - s) = z
  <2>1. PICK t \in Int : t = - s
    BY SMT
  <2>2. 1 <= e /\ e <= Ca!Length(Y, M) /\ CaArrives(Y, M, t, y, m)
    BY <1>1, <1>2, <2>1 DEF CaBothArrive
  <2>3. Ca!add_date(Ca!FirstOf(Y, M) + e - 1, t) = Ca!FirstOf(y, m) + CaCut(e, Ca!Length(y, m)) - 1
    <3>1. CaAdded(Y, M, e, t, y, m)
      BY <2>2, CaAddDate
    <3> QED BY <3>1 DEF CaAdded
  <2>4. CaCut(e, l) = d
    BY <1>1, <1>6 DEF CaCut
  <2> QED BY <2>1, <2>3, <2>4, <1>1
<1>7. PICK to : to = Ca!civil_from_days(Ca!add_date(z, s))
  OBVIOUS
<1>8. to[1] = Y /\ to[2] = M /\ to[3] = e
  BY <1>3, <1>4, <1>7
<1> QED BY <1>1, <1>2, <1>3, <1>5, <1>6, <1>7, <1>8 DEF CaOrdered

LEMMA CaShiftsAreOrdered == CaIInv => Ca!ShiftsAreOrdered
<1> SUFFICES ASSUME CaIInv PROVE Ca!ShiftsAreOrdered
  OBVIOUS
<1>1. ASSUME NEW s \in Shifts, CaInYears(ca_year, s), NEW d \in 1 .. Ca!Length(ca_year, ca_month)
      PROVE  CaOrdered(ca_first + d - 1, d, s)
  <2>1. PICK y \in Int, m \in 1 .. 12 : y = ca_year /\ m = ca_month
    BY DEF CaIInv
  <2>2. PICK f \in Int : f = ca_first /\ f = Ca!FirstOf(y, m)
    BY <2>1, CaFirstOfInt DEF CaIInv
  <2>3. d \in Int /\ 1 <= d /\ d <= Ca!Length(y, m)
    <3>1. Ca!Length(y, m) \in 28 .. 31
      BY CaLengthIs
    <3> QED BY <2>1, <3>1
  <2>4. s \in Int
    BY CalendarIsAnchored
  <2>5. PICK Y \in Int, M \in 1 .. 12 : CaBothArrive(y, m, s, Y, M)
    BY <1>1, <2>1, <2>4, CaTargets
  <2>6. PICK z \in Int : z = f + d - 1
    BY <2>3
  <2>7. CaOrdered(z, d, s)
    BY <2>2, <2>3, <2>4, <2>5, <2>6, CaShift
  <2> QED BY <2>2, <2>6, <2>7
<1>2. ASSUME NEW s \in Shifts, Ca!WellInside(ca_year + (s \div 12)) /\ Ca!WellInside(ca_year)
      PROVE  \A d \in 1 .. Ca!Length(ca_year, ca_month) : CaOrdered(ca_first + d - 1, d, s)
  <2>1. CaInYears(ca_year, s)
    BY <1>2 DEF CaInYears
  <2> QED BY <2>1, <1>1
<1>3. ASSUME NEW s \in Shifts, NEW d \in 1 .. Ca!Length(ca_year, ca_month), CaOrdered(ca_first + d - 1, d, s)
      PROVE  LET z == ca_first + d - 1
                 to == Ca!civil_from_days(Ca!add_date(z, s)) IN
             /\ Ca!add_date(z, s) <= Ca!add_date(z + 1, s)
             /\ to[3] = d => Ca!add_date(Ca!add_date(z, s), -s) = z
             /\ to[3] # d => d > Ca!Length(to[1], to[2]) /\ to[3] = Ca!Length(to[1], to[2])
  BY <1>3, Zenon DEF CaOrdered
<1> QED BY <1>2, <1>3, Zenon DEF Ca!ShiftsAreOrdered

LEMMA CaTypeOK == CaIInv => Ca!TypeOK
<1> SUFFICES ASSUME CaIInv PROVE Ca!TypeOK
  OBVIOUS
<1>1. PICK f \in Int : f = ca_first
  BY CaFirstOfInt DEF CaIInv
<1>2. (4 + f) % 7 \in 0 .. 6
  BY SMT
<1> QED BY <1>1, <1>2 DEF CaIInv, Ca!TypeOK

\* In the library, the part's invariant holds whatever the behaviour is about: the
\* part begins in one of its initial states, and a step is one of its own or none.
LEMMA CaHolds == Spec => []CaIInv
<1>1. Init => CaIInv
  BY CaInit DEF Init
<1>2. CaIInv /\ [Next]_vars => CaIInv'
  <2>1. [Next]_vars => [Ca!Next]_(Ca!vars)
    BY Zenon DEF Next, vars, ca, Ca!vars
  <2> QED BY <2>1, CaStep
<1> QED BY <1>1, <1>2, PTL DEF Spec

-----------------------------------------------------------------------------
(* The parser.                                                             *)

LEMMA PsLimits == {MaxTokens} \subseteq Nat \ {0}
BY BoundsAreCounts

\* The activations that wait for an operand, and the nodes they make.
PsFors ==
  Ps!Binary \cup {"prefix", "++", "else", "=", "then", "paren", "array", "call", "index", "slice"}
PsKinds ==
  Ps!Binary \cup {"prefix", "++", "else", "=", "array", "call", "index", "slice", "x++"}

\* The row of the table that a kind of node is in.
PsRank(kind) ==
  IF kind = "=" THEN 1 ELSE IF kind = "else" THEN 2
  ELSE IF kind \in Ps!Binary THEN Ps!Level(kind) + 2
  ELSE IF kind \in {"prefix", "++"} THEN 14 ELSE 15

PsFrames ==
  [for : PsFors \cup {"statement"}, from : Nat, at : Nat, target : BOOLEAN]
PsNodes == [kind : PsKinds, from : Nat, at : Nat, to : Nat]
PsSpans == [from : Nat, to : Nat, target : BOOLEAN]

\* What f's operator may have been taken under: an activation for g waits for the
\* expression that f continues or begins.
PsAbove(g, f) ==
  /\ f \in Ps!Binary => g \notin {"prefix", "++"} /\ (g \in Ps!Binary => PsRank(f) > PsRank(g))
  /\ f \in {"then", "else"} => g \notin Ps!Binary \cup {"prefix", "++"}
  /\ f = "=" => g \notin Ps!Binary \cup {"prefix", "++", "else"}

\* A node m may end left of the operator of f, and where the operand of g ends.
PsLeft(f, m) ==
  /\ f.for \in Ps!Binary => PsRank(m.kind) >= PsRank(f.for)
  /\ f.for \in {"then", "else"} => PsRank(m.kind) > 2
  /\ f.for = "=" /\ f.target =>
       PsRank(m.kind) = 15 /\ (m.to = f.at - 1 => m.kind = "index")
  /\ f.for \in {"call", "index", "slice"} => PsRank(m.kind) = 15
PsRight(g, m) ==
  /\ g \in Ps!Binary => PsRank(m.kind) > PsRank(g)
  /\ g \in {"prefix", "++"} => PsRank(m.kind) >= 14
  /\ g = "else" => PsRank(m.kind) >= 2

\* An activation f that was called by one for g, when h tokens have been read.
PsFrame(f, g, h) ==
  /\ f.for \in PsFors /\ f.from <= f.at /\ f.at < h
  /\ f.for \in {"prefix", "++", "paren", "array"} => f.from = f.at
  /\ PsAbove(g, f.for)

\* A node m is left or right of f's operator, and in f's expression or before it.
PsApart(f, m) ==
  /\ m.to < f.at \/ m.from > f.at
  /\ m.from < f.from => m.to < f.from
  /\ m.from = f.from /\ m.to < f.at => PsLeft(f, m)

\* Two nodes have two operators, do not cross, and are grouped by the table.
PsGrouped(n, m) ==
  /\ m.from = n.from /\ m.to < n.at =>
       /\ n.kind \in Ps!Binary => PsRank(m.kind) >= PsRank(n.kind)
       /\ n.kind = "else" => PsRank(m.kind) > 2
       /\ n.kind = "=" => PsRank(m.kind) = 15 /\ (m.to = n.at - 1 => m.kind = "index")
       /\ n.kind \in {"call", "index", "slice", "x++"} => PsRank(m.kind) = 15
  /\ m.from > n.at /\ m.to = n.to =>
       /\ n.kind \in Ps!Binary => PsRank(m.kind) > PsRank(n.kind)
       /\ n.kind \notin Ps!Binary => PsRank(m.kind) >= PsRank(n.kind)
PsPair(n, m) ==
  /\ m.at = n.at => m = n
  /\ m.from < n.from /\ n.from <= m.to => n.to <= m.to
  /\ PsGrouped(n, m)

PsNode(n, h) ==
  /\ 1 <= n.from /\ n.from <= n.at /\ n.at <= n.to /\ n.to < h
  /\ n.kind \in {"prefix", "++", "array"} => n.from = n.at

\* The expression that is complete, when h tokens have been read and g waits for it.
PsSpan(g) ==
  /\ g.at < ps_span.from /\ ps_span.from <= ps_span.to /\ ps_span.to = Ps!here - 1
  /\ \A m \in ps_nodes :
       /\ m.from < ps_span.from => m.to < ps_span.from
       /\ m.to = ps_span.to => PsRight(g.for, m)
       /\ m.from = ps_span.from =>
            /\ ps_mode = "postfix" => PsRank(m.kind) = 15
            /\ Ps!look \in Ps!Binary /\ ps_mode # "postfix" => PsRank(m.kind) >= PsRank(Ps!look)
            /\ Ps!look = "?" /\ ps_mode # "postfix" => PsRank(m.kind) > 2
            /\ ps_span.target => PsRank(m.kind) = 15 /\ (m.to = ps_span.to => m.kind = "index")

PsOperators == Ps!Binary \cup Ps!Prefixes \cup {"?", "=", ":="}

PsTypes ==
  /\ ps_toks \in Seq(TokenKinds \cup {"eof"}) /\ ps_stack \in Seq(PsFrames) /\ ps_nodes \subseteq PsNodes
  /\ ps_span \in PsSpans /\ ps_mode \in {"operand", "postfix", "operator", "done", "error"}
  /\ Ps!here >= 1 /\ (Ps!here <= MaxTokens \/ (Ps!here = MaxTokens + 1 /\ Ps!look = "eof"))
PsStack ==
  /\ Len(ps_stack) >= 1 /\ ps_stack[1] = Ps!Statement
  /\ \A i \in 2 .. Len(ps_stack) : PsFrame(ps_stack[i], ps_stack[i - 1].for, Ps!here)
  /\ \A i, j \in 1 .. Len(ps_stack) : i < j => ps_stack[i].at < ps_stack[j].from
  /\ Len(ps_stack) >= 2 => ps_stack[2].from = 1
PsTree ==
  /\ \A n \in ps_nodes : PsNode(n, Ps!here)
  /\ \A n, m \in ps_nodes : PsPair(n, m)
  /\ \A i \in 1 .. Len(ps_stack), m \in ps_nodes : PsApart(ps_stack[i], m)
PsTaken ==
  /\ \A i \in 1 .. Len(ps_stack) :
       ps_stack[i].for = "paren" => ps_stack[i].at \in 1 .. (Ps!here - 1) /\ ps_toks[ps_stack[i].at] = "("
  /\ \A p \in 1 .. (Ps!here - 1) : ps_toks[p] \in PsOperators =>
       \/ \E n \in ps_nodes : n.at = p
       \/ \E i \in 1 .. Len(ps_stack) : ps_stack[i].at = p
PsExpression ==
  /\ ps_mode = "operand" /\ Len(ps_stack) = 1 => Ps!here = 1
  /\ ps_mode \in {"postfix", "operator", "done"} =>
       PsSpan(Ps!top) /\ (Len(ps_stack) = 1 => ps_span.from = 1)
  /\ ps_mode \in {"operator", "done"} => Ps!look \notin {"(", "[", "++"}
  /\ ps_mode = "done" => Len(ps_stack) = 1 /\ Ps!look \notin Ps!Binary \cup {"?", "="}

PsIInv == PsTypes /\ PsStack /\ PsTree /\ PsTaken /\ PsExpression

LEMMA PsRankIs ==
  ASSUME NEW k
  PROVE  /\ PsRank(k) \in 1 .. 15 /\ Ps!Level(k) \in 0 .. 11
         /\ k \in Ps!Binary => PsRank(k) = Ps!Level(k) + 2 /\ PsRank(k) \in 3 .. 13
         /\ k \in {"prefix", "++"} => PsRank(k) = 14
         /\ k = "else" => PsRank(k) = 2
         /\ k \in {"array", "call", "index", "slice", "x++"} => PsRank(k) = 15
<1>1. Ps!Level(k) \in 0 .. 11 /\ (k \in Ps!Binary => Ps!Level(k) \in 1 .. 11)
  BY DEF Ps!Level, Ps!Binary
<1>2. k \in Ps!Binary => k \notin {"=", "else", "prefix", "++", "array", "call", "index", "slice", "x++"}
  BY DEF Ps!Binary
<1> QED BY <1>1, <1>2 DEF PsRank

LEMMA PsRow ==
  ASSUME NEW m, m.kind \in PsKinds
  PROVE  Ps!Row(m) = PsRank(m.kind)
<1>1. \A r \in 1 .. 15 : m.kind \in Ps!Table[r] <=> r = PsRank(m.kind)
  <2>1. CASE m.kind \in Ps!Binary
    <3> USE <2>1 DEF Ps!Binary
    <3>1. PsRank(m.kind) = Ps!Level(m.kind) + 2 /\ PsRank(m.kind) \in 3 .. 13
      BY PsRankIs
    <3>2. \A r \in 1 .. 15 : m.kind \in Ps!Table[r] <=> r = Ps!Level(m.kind) + 2
      BY DEF Ps!Table, Ps!Level
    <3> QED BY <3>1, <3>2
  <2>2. CASE m.kind \notin Ps!Binary
    BY <2>2 DEF Ps!Table, PsRank, PsKinds, Ps!Binary
  <2> QED BY <2>1, <2>2
<1>2. PsRank(m.kind) \in 1 .. 15
  BY PsRankIs
<1> QED BY <1>1, <1>2 DEF Ps!Row

-----------------------------------------------------------------------------
\* What a step does to the tokens and to the stack.

LEMMA PsAdvances ==
  ASSUME PsIInv, Ps!Advance, Ps!look # "eof"
  PROVE  /\ ps_toks' \in Seq(TokenKinds \cup {"eof"}) /\ Len(ps_toks') = Len(ps_toks) + 1
         /\ \A p \in 1 .. Len(ps_toks) : ps_toks'[p] = ps_toks[p]
         /\ Ps!here' >= 1 /\ (Ps!here' <= MaxTokens \/ (Ps!here' = MaxTokens + 1 /\ Ps!look' = "eof"))
<1>1. ps_toks \in Seq(TokenKinds \cup {"eof"}) /\ Len(ps_toks) <= MaxTokens
  BY DEF PsIInv, PsTypes, Ps!here
<1>2. PICK kind \in TokenKinds \cup {"eof"} :
        (kind # "eof" => Len(ps_toks) < MaxTokens) /\ ps_toks' = Append(ps_toks, kind)
  BY Zenon DEF Ps!Advance, Ps!here
<1>3. Len(ps_toks) \in Nat /\ Len(ps_toks') = Len(ps_toks) + 1 /\ ps_toks'[Len(ps_toks) + 1] = kind
  BY <1>1, <1>2
<1>4. ps_toks' \in Seq(TokenKinds \cup {"eof"}) /\ \A p \in 1 .. Len(ps_toks) : ps_toks'[p] = ps_toks[p]
  BY <1>1, <1>2
<1> QED BY <1>1, <1>2, <1>3, <1>4, PsLimits DEF Ps!here, Ps!look

LEMMA PsOuter ==
  ASSUME PsIInv, Len(ps_stack) >= 2
  PROVE  /\ Len(ps_stack) \in Nat /\ Ps!outer \in Seq(PsFrames) /\ Len(Ps!outer) = Len(ps_stack) - 1
         /\ \A i \in 1 .. (Len(ps_stack) - 1) : Ps!outer[i] = ps_stack[i]
<1>1. ps_stack \in Seq(PsFrames) /\ Len(ps_stack) \in Nat
  BY DEF PsIInv, PsTypes
<1> QED BY <1>1 DEF Ps!outer

LEMMA PsTop ==
  ASSUME PsIInv
  PROVE  /\ Len(ps_stack) \in Nat /\ Len(ps_stack) >= 1 /\ Ps!top \in PsFrames
         /\ Len(ps_stack) = 1 \/ Len(ps_stack) >= 2
         /\ Len(ps_toks) \in Nat /\ Ps!here >= 1
         /\ \A i \in 1 .. Len(ps_stack) : ps_stack[i] \in PsFrames /\ ps_stack[i].at < Ps!here
         /\ Len(ps_stack) = 1 => Ps!top = Ps!Statement
         /\ Len(ps_stack) >= 2 =>
              /\ PsFrame(Ps!top, ps_stack[Len(ps_stack) - 1].for, Ps!here)
              /\ \A i \in 1 .. (Len(ps_stack) - 1) : ps_stack[i].at < Ps!top.from
         /\ Ps!top.for # "statement" <=> Len(ps_stack) >= 2
         /\ \A m \in ps_nodes : PsApart(Ps!top, m) /\ m \in PsNodes /\ PsNode(m, Ps!here)
         /\ \A i \in 1 .. Len(ps_stack) : ps_stack[i].at <= Ps!top.at
<1>1. ps_stack \in Seq(PsFrames) /\ Len(ps_stack) \in Nat /\ Len(ps_stack) >= 1 /\ ps_stack[1] = Ps!Statement
  BY DEF PsIInv, PsTypes, PsStack
<1>2. \A i \in 1 .. Len(ps_stack) : ps_stack[i] \in PsFrames
  BY <1>1
<1>3. \A i \in 2 .. Len(ps_stack) : PsFrame(ps_stack[i], ps_stack[i - 1].for, Ps!here)
  BY DEF PsIInv, PsStack
<1>4. \A i, j \in 1 .. Len(ps_stack) : i < j => ps_stack[i].at < ps_stack[j].from
  BY DEF PsIInv, PsStack
<1>5. Len(ps_toks) \in Nat /\ Ps!here >= 1
  BY DEF PsIInv, PsTypes, Ps!here
<1>6. \A i \in 1 .. Len(ps_stack) : ps_stack[i].at < Ps!here
  <2>1. ps_stack[1].at = 0
    BY <1>1 DEF Ps!Statement, Ps!Waiting
  <2>2. \A i \in 2 .. Len(ps_stack) : ps_stack[i].at < Ps!here
    BY <1>3 DEF PsFrame
  <2> QED BY <2>1, <2>2, <1>1, <1>5 DEF Ps!here
<1>7. Len(ps_stack) >= 2 => Ps!top.for \in PsFors /\ Ps!top.from <= Ps!top.at
  BY <1>1, <1>3 DEF PsFrame, Ps!top
<1>8. "statement" \notin PsFors
  BY DEF PsFors, Ps!Binary
<1>9. \A m \in ps_nodes : PsApart(Ps!top, m) /\ m \in PsNodes /\ PsNode(m, Ps!here)
  BY <1>1 DEF PsIInv, PsTypes, PsTree, Ps!top
<1>10. \A i \in 1 .. (Len(ps_stack) - 1) : ps_stack[i].at < Ps!top.from
  BY <1>1, <1>4 DEF Ps!top
<1>a. Ps!top = ps_stack[Len(ps_stack)] /\ Len(ps_stack) \in 1 .. Len(ps_stack)
  BY <1>1 DEF Ps!top
<1>b. \A i \in 1 .. Len(ps_stack) : ps_stack[i].at \in Nat
  BY <1>2 DEF PsFrames
<1>c. Ps!top.at \in Nat /\ Ps!top.from \in Nat
  BY <1>2, <1>a DEF PsFrames
<1>11. \A i \in 1 .. Len(ps_stack) : ps_stack[i].at <= Ps!top.at
  <2> SUFFICES ASSUME NEW i \in 1 .. Len(ps_stack) PROVE ps_stack[i].at <= Ps!top.at
    OBVIOUS
  <2>1. CASE i = Len(ps_stack)
    BY <2>1, <1>a, <1>c
  <2>2. CASE i # Len(ps_stack)
    <3>1. ps_stack[i].at < Ps!top.from /\ Len(ps_stack) >= 2
      BY <2>2, <1>1, <1>10
    <3> QED BY <3>1, <1>1, <1>b, <1>c, <1>7
  <2> QED BY <2>1, <2>2
<1>12. Len(ps_stack) = 1 => Ps!top = Ps!Statement /\ Ps!top.for = "statement"
  BY <1>1 DEF Ps!top, Ps!Statement, Ps!Waiting
<1>16. Len(ps_stack) = 1 \/ Len(ps_stack) >= 2
  <2>1. \A l \in Nat : l >= 1 => l = 1 \/ l >= 2
    OBVIOUS
  <2> QED BY <2>1, <1>1, Zenon
<1>13. Ps!top.for # "statement" <=> Len(ps_stack) >= 2
  <2>1. Len(ps_stack) = 1 \/ Len(ps_stack) >= 2
    BY <1>16
  <2>2. ~ (Len(ps_stack) = 1 /\ Len(ps_stack) >= 2)
    OBVIOUS
  <2> QED BY <2>1, <2>2, <1>7, <1>8, <1>12
<1>14. Len(ps_stack) >= 2 => PsFrame(Ps!top, ps_stack[Len(ps_stack) - 1].for, Ps!here)
  BY <1>1, <1>3 DEF Ps!top
<1>15. Ps!top \in PsFrames
  BY <1>1, <1>2 DEF Ps!top
<1> QED BY <1>1, <1>2, <1>5, <1>6, <1>9, <1>10, <1>11, <1>12, <1>13, <1>14, <1>15, <1>16

-----------------------------------------------------------------------------
\* An activation takes the token at hand and waits for its operand.
LEMMA PsPush ==
  ASSUME PsIInv, NEW f \in PsFrames,
         Ps!Await(ps_stack, f), Ps!look # "eof",
         f.at = Ps!here, f.for = "paren" => Ps!look = "(", PsFrame(f, Ps!top.for, Ps!here + 1),
         Ps!top.at < f.from, Len(ps_stack) = 1 => f.from = 1,
         \A m \in ps_nodes : PsApart(f, m)
  PROVE  PsIInv'
<1> USE DEF PsIInv
<1>0. /\ Ps!Advance /\ ps_stack' = Append(ps_stack, f) /\ ps_mode' = "operand"
      /\ ps_span' = ps_span /\ ps_nodes' = ps_nodes
  BY DEF Ps!Await
<1>1. /\ ps_toks' \in Seq(TokenKinds \cup {"eof"}) /\ Len(ps_toks') = Len(ps_toks) + 1
      /\ \A p \in 1 .. Len(ps_toks) : ps_toks'[p] = ps_toks[p]
      /\ Ps!here' >= 1 /\ (Ps!here' <= MaxTokens \/ (Ps!here' = MaxTokens + 1 /\ Ps!look' = "eof"))
  BY <1>0, PsAdvances
<1>2. /\ Len(ps_stack) \in Nat /\ Len(ps_stack) >= 1 /\ Ps!top \in PsFrames
      /\ Len(ps_toks) \in Nat /\ Ps!here >= 1
      /\ \A i \in 1 .. Len(ps_stack) : ps_stack[i] \in PsFrames /\ ps_stack[i].at < Ps!here
      /\ \A m \in ps_nodes : m \in PsNodes /\ PsNode(m, Ps!here)
      /\ \A i \in 1 .. Len(ps_stack) : ps_stack[i].at <= Ps!top.at
  BY PsTop
<1>3. ps_stack \in Seq(PsFrames)
  BY DEF PsTypes
<1>4. /\ ps_stack' \in Seq(PsFrames) /\ Len(ps_stack') = Len(ps_stack) + 1
      /\ ps_stack'[Len(ps_stack) + 1] = f
      /\ \A i \in 1 .. Len(ps_stack) : ps_stack'[i] = ps_stack[i]
  BY <1>0, <1>3
<1>5. Ps!here' = Ps!here + 1 /\ Ps!here = Len(ps_toks)
  BY <1>1 DEF Ps!here
<1>6. f.from \in Nat /\ f.at \in Nat /\ Ps!top.at \in Nat /\ Ps!top = ps_stack[Len(ps_stack)]
  BY <1>2 DEF PsFrames, Ps!top
<1>7. PsTypes'
  BY <1>0, <1>1, <1>4 DEF PsTypes
<1>8. PsStack'
  <2>1. Len(ps_stack') >= 1 /\ ps_stack'[1] = Ps!Statement
    BY <1>2, <1>4 DEF PsStack
  <2>2. \A i \in 2 .. Len(ps_stack') : PsFrame(ps_stack'[i], ps_stack'[i - 1].for, Ps!here')
    <3> SUFFICES ASSUME NEW i \in 2 .. Len(ps_stack')
                 PROVE  PsFrame(ps_stack'[i], ps_stack'[i - 1].for, Ps!here')
      OBVIOUS
    <3>1. CASE i = Len(ps_stack) + 1
      <4>1. i - 1 = Len(ps_stack) /\ i - 1 \in 1 .. Len(ps_stack)
        BY <3>1, <1>2
      <4>2. ps_stack'[i] = f /\ ps_stack'[i - 1] = Ps!top
        BY <3>1, <4>1, <1>4, <1>6
      <4> QED BY <4>2, <1>5
    <3>2. CASE i # Len(ps_stack) + 1
      <4>1. i \in 2 .. Len(ps_stack) /\ i - 1 \in 1 .. Len(ps_stack) /\ i \in 1 .. Len(ps_stack)
        BY <3>2, <1>2, <1>4
      <4>2. ps_stack'[i] = ps_stack[i] /\ ps_stack'[i - 1] = ps_stack[i - 1]
        BY <4>1, <1>4
      <4>3. PsFrame(ps_stack[i], ps_stack[i - 1].for, Ps!here)
        BY <4>1 DEF PsStack
      <4>4. ps_stack[i].at \in Nat /\ ps_stack[i].at < Ps!here + 1
        BY <4>1, <1>2, <1>5 DEF PsFrames
      <4> QED BY <4>2, <4>3, <4>4, <1>5 DEF PsFrame
    <3> QED BY <3>1, <3>2
  <2>3. \A i, j \in 1 .. Len(ps_stack') : i < j => ps_stack'[i].at < ps_stack'[j].from
    <3> SUFFICES ASSUME NEW i \in 1 .. Len(ps_stack'), NEW j \in 1 .. Len(ps_stack'), i < j
                 PROVE  ps_stack'[i].at < ps_stack'[j].from
      OBVIOUS
    <3>0. i \in 1 .. Len(ps_stack)
      BY <1>2, <1>4
    <3>1. i \in 1 .. Len(ps_stack) /\ ps_stack'[i] = ps_stack[i] /\ ps_stack[i].at \in Nat
      BY <3>0, <1>2, <1>4 DEF PsFrames
    <3>2. CASE j = Len(ps_stack) + 1
      BY <3>1, <3>2, <1>2, <1>4, <1>6
    <3>3. CASE j # Len(ps_stack) + 1
      <4>1. j \in 1 .. Len(ps_stack) /\ ps_stack'[j] = ps_stack[j]
        BY <3>3, <1>2, <1>4
      <4>2. ps_stack[i].at < ps_stack[j].from
        BY <4>1, <3>1 DEF PsStack
      <4> QED BY <4>1, <4>2, <3>1
    <3> QED BY <3>2, <3>3
  <2>4. Len(ps_stack') >= 2 => ps_stack'[2].from = 1
    <3>1. CASE Len(ps_stack) = 1
      BY <3>1, <1>4
    <3>2. CASE Len(ps_stack) >= 2
      BY <3>2, <1>2, <1>4 DEF PsStack
    <3>3. Len(ps_stack) = 1 \/ Len(ps_stack) >= 2
      BY PsTop
    <3> QED BY <3>1, <3>2, <3>3, Zenon
  <2> QED BY <2>1, <2>2, <2>3, <2>4, Zenon DEF PsStack
<1>9. PsTree'
  <2>1. \A n \in ps_nodes' : PsNode(n, Ps!here')
    BY <1>0, <1>2, <1>5 DEF PsNode, PsNodes
  <2>2. \A n, m \in ps_nodes' : PsPair(n, m)
    BY <1>0, Zenon DEF PsTree
  <2>3. \A i \in 1 .. Len(ps_stack'), m \in ps_nodes' : PsApart(ps_stack'[i], m)
    <3> SUFFICES ASSUME NEW i \in 1 .. Len(ps_stack'), NEW m \in ps_nodes
                 PROVE  PsApart(ps_stack'[i], m)
      BY <1>0
    <3>1. i = Len(ps_stack) + 1 \/ i \in 1 .. Len(ps_stack)
      BY <1>2, <1>4
    <3>2. PsApart(f, m) /\ (i \in 1 .. Len(ps_stack) => PsApart(ps_stack[i], m))
      BY Zenon DEF PsTree
    <3> QED BY <3>1, <3>2, <1>4
  <2> QED BY <2>1, <2>2, <2>3 DEF PsTree
<1>10. PsTaken'
  <2>1. ASSUME NEW p \in 1 .. (Ps!here' - 1), ps_toks'[p] \in PsOperators
        PROVE  \/ \E n \in ps_nodes : n.at = p
               \/ \E i \in 1 .. Len(ps_stack') : ps_stack'[i].at = p
    <3>1. CASE p = Ps!here
      <4>1. Len(ps_stack) + 1 \in 1 .. Len(ps_stack') /\ ps_stack'[Len(ps_stack) + 1].at = p
        BY <3>1, <1>2, <1>4
      <4> QED BY <4>1
    <3>2. CASE p # Ps!here
      <4>1. p \in 1 .. (Ps!here - 1) /\ ps_toks'[p] = ps_toks[p]
        BY <3>2, <1>1, <1>2, <1>5
      <4>2. (\E n \in ps_nodes : n.at = p) \/ \E i \in 1 .. Len(ps_stack) : ps_stack[i].at = p
        BY <4>1, <2>1 DEF PsTaken
      <4>3. 1 .. Len(ps_stack) \subseteq 1 .. Len(ps_stack')
        BY <1>2, <1>4
      <4> QED BY <4>2, <4>3, <1>4
    <3> QED BY <3>1, <3>2
  <2>2. ASSUME NEW i \in 1 .. Len(ps_stack'), ps_stack'[i].for = "paren"
        PROVE  ps_stack'[i].at \in 1 .. (Ps!here' - 1) /\ ps_toks'[ps_stack'[i].at] = "("
    <3>1. CASE i = Len(ps_stack) + 1
      <4>1. f.for = "paren" /\ f.at = Ps!here /\ Ps!here \in 1 .. Len(ps_toks)
        BY <3>1, <2>2, <1>2, <1>4, <1>5
      <4> QED BY <4>1, <3>1, <1>1, <1>2, <1>4, <1>5 DEF Ps!look
    <3>2. CASE i \in 1 .. Len(ps_stack)
      <4>1. ps_stack[i].at \in 1 .. (Ps!here - 1) /\ ps_toks[ps_stack[i].at] = "(" /\ ps_stack'[i] = ps_stack[i]
        BY <3>2, <2>2, <1>4 DEF PsTaken
      <4>2. ps_stack[i].at \in 1 .. Len(ps_toks) /\ ps_stack[i].at \in 1 .. (Ps!here' - 1)
        BY <4>1, <1>2, <1>5
      <4> QED BY <4>1, <4>2, <1>1
    <3> QED BY <3>1, <3>2, <1>2, <1>4
  <2> QED BY <2>1, <2>2, <1>0 DEF PsTaken
<1>11. PsExpression'
  BY <1>0, <1>2, <1>4 DEF PsExpression
<1> QED BY <1>7, <1>8, <1>9, <1>10, <1>11

\* The activation on top takes the token at hand, which is no operator, and waits for
\* its next operand.
LEMMA PsChange ==
  ASSUME PsIInv, NEW f \in PsFrames, Len(ps_stack) >= 2,
         Ps!Await(Ps!outer, f), Ps!look # "eof", Ps!look \notin PsOperators,
         f.from = Ps!top.from, f.at = Ps!top.at, f.for # "paren",
         PsFrame(f, ps_stack[Len(ps_stack) - 1].for, Ps!here),
         \A m \in ps_nodes : PsApart(f, m)
  PROVE  PsIInv'
<1> USE DEF PsIInv
<1>0. /\ Ps!Advance /\ ps_stack' = Append(Ps!outer, f) /\ ps_mode' = "operand"
      /\ ps_span' = ps_span /\ ps_nodes' = ps_nodes
  BY DEF Ps!Await
<1>1. /\ ps_toks' \in Seq(TokenKinds \cup {"eof"}) /\ Len(ps_toks') = Len(ps_toks) + 1
      /\ \A p \in 1 .. Len(ps_toks) : ps_toks'[p] = ps_toks[p]
      /\ Ps!here' >= 1 /\ (Ps!here' <= MaxTokens \/ (Ps!here' = MaxTokens + 1 /\ Ps!look' = "eof"))
  BY <1>0, PsAdvances
<1>2. /\ Len(ps_stack) \in Nat /\ Len(ps_stack) >= 1 /\ Ps!top \in PsFrames
      /\ Len(ps_toks) \in Nat /\ Ps!here >= 1
      /\ \A i \in 1 .. Len(ps_stack) : ps_stack[i] \in PsFrames /\ ps_stack[i].at < Ps!here
      /\ \A m \in ps_nodes : m \in PsNodes /\ PsNode(m, Ps!here)
  BY PsTop
<1>3. /\ Ps!outer \in Seq(PsFrames) /\ Len(Ps!outer) = Len(ps_stack) - 1
      /\ \A i \in 1 .. (Len(ps_stack) - 1) : Ps!outer[i] = ps_stack[i]
  BY PsOuter
<1>4. /\ ps_stack' \in Seq(PsFrames) /\ Len(ps_stack') = Len(ps_stack)
      /\ ps_stack'[Len(ps_stack)] = f
      /\ \A i \in 1 .. (Len(ps_stack) - 1) : ps_stack'[i] = ps_stack[i]
  BY <1>0, <1>2, <1>3
<1>5. Ps!here' = Ps!here + 1 /\ Ps!here = Len(ps_toks)
  BY <1>1 DEF Ps!here
<1>6. Ps!top = ps_stack[Len(ps_stack)] /\ Len(ps_stack) \in 1 .. Len(ps_stack)
  BY <1>2 DEF Ps!top
<1>a. \A i \in 1 .. Len(ps_stack) :
        /\ ps_stack'[i].from = ps_stack[i].from /\ ps_stack'[i].at = ps_stack[i].at
        /\ ps_stack[i].at \in Nat /\ ps_stack[i].from \in Nat
  <2> SUFFICES ASSUME NEW i \in 1 .. Len(ps_stack)
               PROVE  /\ ps_stack'[i].from = ps_stack[i].from /\ ps_stack'[i].at = ps_stack[i].at
                      /\ ps_stack[i].at \in Nat /\ ps_stack[i].from \in Nat
    OBVIOUS
  <2>1. i = Len(ps_stack) \/ i \in 1 .. (Len(ps_stack) - 1)
    BY <1>2
  <2> QED BY <2>1, <1>2, <1>4, <1>6 DEF PsFrames
<1>7. PsTypes'
  BY <1>0, <1>1, <1>4 DEF PsTypes
<1>8. PsStack'
  <2>1. Len(ps_stack') >= 1 /\ ps_stack'[1] = Ps!Statement
    <3>1. 1 \in 1 .. (Len(ps_stack) - 1)
      BY <1>2
    <3> QED BY <3>1, <1>2, <1>4 DEF PsStack
  <2>2. \A i \in 2 .. Len(ps_stack') : PsFrame(ps_stack'[i], ps_stack'[i - 1].for, Ps!here')
    <3> SUFFICES ASSUME NEW i \in 2 .. Len(ps_stack)
                 PROVE  PsFrame(ps_stack'[i], ps_stack'[i - 1].for, Ps!here')
      BY <1>4
    <3>1. /\ i - 1 \in 1 .. (Len(ps_stack) - 1) /\ i \in 1 .. Len(ps_stack)
          /\ i = Len(ps_stack) \/ i \in 1 .. (Len(ps_stack) - 1)
      BY <1>2
    <3>2. ps_stack'[i - 1] = ps_stack[i - 1]
      BY <3>1, <1>4
    <3>3. PsFrame(ps_stack'[i], ps_stack'[i - 1].for, Ps!here)
      <4>1. CASE i = Len(ps_stack)
        BY <4>1, <3>2, <1>4
      <4>2. CASE i \in 1 .. (Len(ps_stack) - 1)
        BY <4>2, <3>2, <1>4 DEF PsStack
      <4> QED BY <4>1, <4>2, <3>1
    <3>4. ps_stack'[i].at < Ps!here + 1
      BY <3>1, <1>a, <1>2, <1>5
    <3> QED BY <3>3, <3>4, <1>5 DEF PsFrame
  <2>3. \A i, j \in 1 .. Len(ps_stack') : i < j => ps_stack'[i].at < ps_stack'[j].from
    BY <1>a, <1>4 DEF PsStack
  <2>4. Len(ps_stack') >= 2 => ps_stack'[2].from = 1
    <3>1. 2 \in 1 .. Len(ps_stack)
      BY <1>2
    <3> QED BY <3>1, <1>a DEF PsStack
  <2> QED BY <2>1, <2>2, <2>3, <2>4, Zenon DEF PsStack
<1>9. PsTree'
  <2>1. \A n \in ps_nodes' : PsNode(n, Ps!here')
    BY <1>0, <1>2, <1>5 DEF PsNode, PsNodes
  <2>2. \A n, m \in ps_nodes' : PsPair(n, m)
    BY <1>0, Zenon DEF PsTree
  <2>3. \A i \in 1 .. Len(ps_stack'), m \in ps_nodes' : PsApart(ps_stack'[i], m)
    <3> SUFFICES ASSUME NEW i \in 1 .. Len(ps_stack), NEW m \in ps_nodes
                 PROVE  PsApart(ps_stack'[i], m)
      BY <1>0, <1>4
    <3>1. i = Len(ps_stack) \/ i \in 1 .. (Len(ps_stack) - 1)
      BY <1>2
    <3>2. PsApart(f, m) /\ PsApart(ps_stack[i], m)
      BY Zenon DEF PsTree
    <3> QED BY <3>1, <3>2, <1>4
  <2> QED BY <2>1, <2>2, <2>3 DEF PsTree
<1>10. PsTaken'
  <2>1. ASSUME NEW p \in 1 .. (Ps!here' - 1), ps_toks'[p] \in PsOperators
        PROVE  \/ \E n \in ps_nodes : n.at = p
               \/ \E i \in 1 .. Len(ps_stack') : ps_stack'[i].at = p
    <3>1. p \in 1 .. Len(ps_toks) /\ ps_toks'[p] = ps_toks[p]
      BY <1>1, <1>2, <1>5
    <3>2. p # Ps!here
      BY <3>1, <2>1, <1>5 DEF Ps!look
    <3>3. p \in 1 .. (Ps!here - 1)
      BY <3>1, <3>2, <1>5, <1>2
    <3>4. (\E n \in ps_nodes : n.at = p) \/ \E i \in 1 .. Len(ps_stack) : ps_stack[i].at = p
      BY <3>1, <3>3, <2>1 DEF PsTaken
    <3> QED BY <3>4, <1>4, <1>a
  <2>2. ASSUME NEW i \in 1 .. Len(ps_stack'), ps_stack'[i].for = "paren"
        PROVE  ps_stack'[i].at \in 1 .. (Ps!here' - 1) /\ ps_toks'[ps_stack'[i].at] = "("
    <3>1. i \in 1 .. (Len(ps_stack) - 1) /\ i \in 1 .. Len(ps_stack)
      BY <2>2, <1>2, <1>4
    <3>2. ps_stack[i].at \in 1 .. (Ps!here - 1) /\ ps_toks[ps_stack[i].at] = "(" /\ ps_stack'[i] = ps_stack[i]
      BY <3>1, <2>2, <1>4 DEF PsTaken
    <3>3. ps_stack[i].at \in 1 .. Len(ps_toks) /\ ps_stack[i].at \in 1 .. (Ps!here' - 1)
      BY <3>2, <1>2, <1>5
    <3> QED BY <3>2, <3>3, <1>1
  <2> QED BY <2>1, <2>2, <1>0 DEF PsTaken
<1>11. PsExpression'
  BY <1>0, <1>2, <1>4 DEF PsExpression
<1> QED BY <1>7, <1>8, <1>9, <1>10, <1>11

-----------------------------------------------------------------------------
\* The activation on top has its last operand, which ends at e: its node n.
LEMMA PsBuild ==
  ASSUME PsIInv, Len(ps_stack) >= 2, NEW n \in PsNodes,
         n.kind = Ps!top.for, n.from = Ps!top.from, n.at = Ps!top.at, n.at <= n.to,
         n.kind = "=" => Ps!top.target,
         \A m \in ps_nodes : m.to <= n.to,
         \A m \in ps_nodes : m.to = n.to /\ m.from > n.at =>
           IF n.kind \in Ps!Binary THEN PsRank(m.kind) > PsRank(n.kind)
           ELSE PsRank(m.kind) >= PsRank(n.kind),
         ps_stack' = Ps!outer, ps_nodes' = ps_nodes \cup {n}, Ps!here' = n.to + 1
  PROVE  PsTree'
<1> USE DEF PsIInv
<1>2. /\ Len(ps_stack) \in Nat /\ Len(ps_stack) >= 1 /\ Ps!top \in PsFrames
      /\ Len(ps_toks) \in Nat /\ Ps!here >= 1
      /\ \A i \in 1 .. Len(ps_stack) : ps_stack[i] \in PsFrames /\ ps_stack[i].at < Ps!here
      /\ PsFrame(Ps!top, ps_stack[Len(ps_stack) - 1].for, Ps!here)
      /\ \A i \in 1 .. (Len(ps_stack) - 1) : ps_stack[i].at < Ps!top.from
      /\ \A m \in ps_nodes : PsApart(Ps!top, m) /\ m \in PsNodes /\ PsNode(m, Ps!here)
  BY PsTop
<1>3. /\ Len(ps_stack') = Len(ps_stack) - 1
      /\ \A i \in 1 .. (Len(ps_stack) - 1) : ps_stack'[i] = ps_stack[i]
  BY PsOuter
<1>4. /\ n.kind \in PsKinds /\ n.from \in Nat /\ n.at \in Nat /\ n.to \in Nat
      /\ n.from <= n.at
  BY <1>2 DEF PsNodes, PsFrame
<1>5. \A m \in ps_nodes : m.kind \in PsKinds /\ m.from \in Nat /\ m.at \in Nat /\ m.to \in Nat
  BY <1>2 DEF PsNodes
<1>6. \A i \in 1 .. (Len(ps_stack) - 1) : ps_stack[i].at < n.from /\ ps_stack[i].at \in Nat /\ ps_stack[i].from \in Nat
  BY <1>2 DEF PsFrames
<1>7. \A i \in 1 .. (Len(ps_stack) - 1) : ps_stack[i].from <= ps_stack[i].at \/ ps_stack[i].from = 1
  <2> SUFFICES ASSUME NEW i \in 1 .. (Len(ps_stack) - 1), i # 1 PROVE ps_stack[i].from <= ps_stack[i].at
    BY DEF PsStack, Ps!Statement, Ps!Waiting
  <2>1. i \in 2 .. Len(ps_stack)
    BY <1>2
  <2> QED BY <2>1 DEF PsStack, PsFrame
<1>a. Ps!top.from \in Nat /\ Ps!top.at \in Nat /\ 1 <= n.from
  <2>1. 1 \in 1 .. (Len(ps_stack) - 1)
    BY <1>2
  <2> QED BY <2>1, <1>2, <1>4, <1>6 DEF PsFrames
<1>8. \A m \in ps_nodes' : PsNode(m, Ps!here')
  <2>1. PsNode(n, Ps!here')
    <3>1. n.kind \in {"prefix", "++", "array"} => n.from = n.at
      BY <1>2 DEF PsFrame
    <3> QED BY <3>1, <1>4, <1>a DEF PsNode
  <2>2. ASSUME NEW m \in ps_nodes PROVE PsNode(m, Ps!here')
    <3>1. m.to < Ps!here'
      BY <1>4, <1>5
    <3> QED BY <3>1, <1>2 DEF PsNode
  <2> QED BY <2>1, <2>2
<1>9. \A l, m \in ps_nodes' : PsPair(l, m)
  <2>1. PsPair(n, n)
    BY <1>4 DEF PsPair, PsGrouped
  <2>2. ASSUME NEW m \in ps_nodes PROVE PsPair(n, m) /\ PsPair(m, n)
    <3>1. /\ m.to < n.at \/ m.from > n.at
          /\ m.from < n.from => m.to < n.from
          /\ m.from = n.from /\ m.to < n.at => PsLeft(Ps!top, m)
      BY <1>2 DEF PsApart
    <3>2. m.from <= m.at /\ m.at <= m.to /\ m.to <= n.to
      BY <1>2 DEF PsNode
    <3>3. m.at # n.at
      BY <3>1, <3>2, <1>4, <1>5
    <3>4. m.from < n.from /\ n.from <= m.to => n.to <= m.to
      BY <3>1, <1>4, <1>5
    <3>5. ~ (n.from = m.from /\ n.to < m.at)
      BY <3>2, <1>4, <1>5
    <3>6. ~ (n.from > m.at /\ n.to = m.to)
      BY <3>1, <3>2, <1>4, <1>5
    <3>7. m.from = n.from /\ m.to < n.at =>
            /\ n.kind \in Ps!Binary => PsRank(m.kind) >= PsRank(n.kind)
            /\ n.kind = "else" => PsRank(m.kind) > 2
            /\ n.kind = "=" => PsRank(m.kind) = 15 /\ (m.to = n.at - 1 => m.kind = "index")
            /\ n.kind \in {"call", "index", "slice", "x++"} => PsRank(m.kind) = 15
      <4>1. n.kind # "x++"
        BY <1>2 DEF PsFrame, PsFors, Ps!Binary
      <4> QED BY <4>1, <3>1 DEF PsLeft
    <3>8. PsGrouped(n, m)
      BY <3>7 DEF PsGrouped
    <3>9. PsGrouped(m, n)
      BY <3>5, <3>6 DEF PsGrouped
    <3> QED BY <3>2, <3>3, <3>4, <3>8, <3>9 DEF PsPair
  <2>3. \A l, m \in ps_nodes : PsPair(l, m)
    BY Zenon DEF PsTree
  <2> QED BY <2>1, <2>2, <2>3
<1>10. \A i \in 1 .. Len(ps_stack'), m \in ps_nodes' : PsApart(ps_stack'[i], m)
  <2> SUFFICES ASSUME NEW i \in 1 .. (Len(ps_stack) - 1), NEW m \in ps_nodes'
               PROVE  PsApart(ps_stack[i], m)
    BY <1>3
  <2>1. CASE m \in ps_nodes
    <3>1. i \in 1 .. Len(ps_stack)
      BY <1>2
    <3> QED BY <2>1, <3>1, Zenon DEF PsTree
  <2>2. CASE m = n
    <3>1. n.from > ps_stack[i].at /\ ~ (n.to < ps_stack[i].at)
      <4>1. ps_stack[i].at < n.from /\ ps_stack[i].at \in Nat
        BY <1>6
      <4>2. n.from <= n.to
        BY <1>4
      <4> QED BY <4>1, <4>2, <1>4
    <3>2. ~ (n.from < ps_stack[i].from)
      <4>1. ps_stack[i].at < n.from /\ ps_stack[i].at \in Nat /\ ps_stack[i].from \in Nat
        BY <1>6
      <4>2. ps_stack[i].from <= ps_stack[i].at \/ ps_stack[i].from = 1
        BY <1>7
      <4> HIDE DEF PsIInv
      <4> QED BY <4>1, <4>2, <1>4, <1>a
    <3> QED BY <2>2, <3>1, <3>2 DEF PsApart
  <2> QED BY <2>1, <2>2
<1> QED BY <1>8, <1>9, <1>10 DEF PsTree

\* The activation on top returns.
LEMMA PsPops ==
  ASSUME PsIInv, Len(ps_stack) >= 2, ps_stack' = Ps!outer, Ps!here' \in {Ps!here, Ps!here + 1}
  PROVE  /\ PsStack' /\ ps_stack' \in Seq(PsFrames)
         /\ Len(ps_stack') = Len(ps_stack) - 1 /\ Len(ps_stack') \in Nat /\ Len(ps_stack') >= 1
         /\ \A i \in 1 .. Len(ps_stack') : ps_stack'[i] = ps_stack[i]
         /\ Ps!top' = ps_stack[Len(ps_stack) - 1] /\ Ps!top' \in PsFrames
         /\ Len(ps_stack') = 1 => Ps!top.from = 1
<1> USE DEF PsIInv
<1>1. /\ Len(ps_stack) \in Nat /\ Len(ps_stack) >= 1 /\ Ps!here \in Nat
      /\ \A i \in 1 .. Len(ps_stack) : ps_stack[i] \in PsFrames
  BY PsTop DEF Ps!here
<1>2. /\ ps_stack' \in Seq(PsFrames) /\ Len(ps_stack') = Len(ps_stack) - 1
      /\ \A i \in 1 .. (Len(ps_stack) - 1) : ps_stack'[i] = ps_stack[i]
  BY PsOuter
<1>3. 1 .. Len(ps_stack') \subseteq 1 .. Len(ps_stack) /\ 2 .. Len(ps_stack') \subseteq 2 .. Len(ps_stack)
  BY <1>1, <1>2
<1>4. \A i \in 2 .. Len(ps_stack') : PsFrame(ps_stack'[i], ps_stack'[i - 1].for, Ps!here')
  <2> SUFFICES ASSUME NEW i \in 2 .. Len(ps_stack')
               PROVE  PsFrame(ps_stack'[i], ps_stack'[i - 1].for, Ps!here')
    OBVIOUS
  <2>1. i \in 2 .. Len(ps_stack) /\ i \in 1 .. (Len(ps_stack) - 1) /\ i - 1 \in 1 .. (Len(ps_stack) - 1)
    BY <1>1, <1>2
  <2>a. i \in 1 .. Len(ps_stack)
    BY <2>1, <1>1
  <2>2. PsFrame(ps_stack[i], ps_stack[i - 1].for, Ps!here) /\ ps_stack[i].at \in Nat
    BY <2>1, <2>a, <1>1 DEF PsStack, PsFrames
  <2>3. ps_stack[i].at < Ps!here'
    BY <2>2, <1>1 DEF PsFrame
  <2> QED BY <2>1, <2>2, <2>3, <1>2 DEF PsFrame
<1>5. Len(ps_stack') >= 1 /\ ps_stack'[1] = Ps!Statement
  BY <1>1, <1>2 DEF PsStack
<1>6. \A i, j \in 1 .. Len(ps_stack') : i < j => ps_stack'[i].at < ps_stack'[j].from
  BY <1>2, <1>3 DEF PsStack
<1>7. Len(ps_stack') >= 2 => ps_stack'[2].from = 1
  <2> SUFFICES ASSUME Len(ps_stack') >= 2 PROVE ps_stack'[2].from = 1
    OBVIOUS
  <2>1. 2 \in 1 .. (Len(ps_stack) - 1)
    BY <1>1, <1>2
  <2> QED BY <2>1, <1>2 DEF PsStack
<1>8. PsStack'
  BY <1>4, <1>5, <1>6, <1>7, Zenon DEF PsStack
<1>9. Ps!top' = ps_stack[Len(ps_stack) - 1] /\ Ps!top' \in PsFrames
  <2>1. Len(ps_stack) - 1 \in 1 .. (Len(ps_stack) - 1) /\ Len(ps_stack) - 1 \in 1 .. Len(ps_stack)
    BY <1>1
  <2> QED BY <2>1, <1>1, <1>2 DEF Ps!top
<1>10. Len(ps_stack') = 1 => Ps!top.from = 1
  <2> SUFFICES ASSUME Len(ps_stack') = 1 PROVE Ps!top.from = 1
    OBVIOUS
  <2>1. Len(ps_stack) = 2
    <3>1. Len(ps_stack) \in Nat /\ Len(ps_stack) - 1 = 1
      BY <1>2, PsTop
    <3>2. \A l \in Nat : l - 1 = 1 => l = 2
      OBVIOUS
    <3> QED BY <3>1, <3>2, Zenon
  <2> QED BY <2>1 DEF PsStack, Ps!top
<1> QED BY <1>1, <1>2, <1>5, <1>8, <1>9, <1>10

\* Every operator stays where it is: at an activation, or at the node that comes of it.
LEMMA PsMoves ==
  ASSUME PsIInv, Len(ps_stack) >= 2, ps_stack' = Ps!outer,
         Ps!here' = Ps!here \/ (Ps!here' = Ps!here + 1 /\ Ps!look \notin PsOperators),
         \A p \in 1 .. Ps!here : ps_toks'[p] = ps_toks[p],
         ps_nodes \subseteq ps_nodes', Ps!top.for = "paren" \/ \E n \in ps_nodes' : n.at = Ps!top.at
  PROVE  PsTaken'
<1> USE DEF PsIInv
<1>1. /\ Len(ps_stack) \in Nat /\ Len(ps_stack) >= 1 /\ Len(ps_toks) \in Nat /\ Ps!here >= 1
  BY PsTop
<1>2. /\ Len(ps_stack') = Len(ps_stack) - 1
      /\ \A i \in 1 .. Len(ps_stack') : ps_stack'[i] = ps_stack[i]
  BY PsPops
<1>3. ASSUME NEW p \in 1 .. (Ps!here' - 1), ps_toks'[p] \in PsOperators
      PROVE  \/ \E n \in ps_nodes' : n.at = p
             \/ \E i \in 1 .. Len(ps_stack') : ps_stack'[i].at = p
  <2>1. p \in 1 .. Ps!here /\ ps_toks'[p] = ps_toks[p]
    BY <1>1 DEF Ps!here
  <2>2. p \in 1 .. (Ps!here - 1)
    BY <1>1, <1>3, <2>1 DEF Ps!here, Ps!look
  <2>3. (\E n \in ps_nodes : n.at = p) \/ \E i \in 1 .. Len(ps_stack) : ps_stack[i].at = p
    BY <2>1, <2>2, <1>3 DEF PsTaken
  <2>4. CASE \E n \in ps_nodes : n.at = p
    BY <2>4
  <2>5. ASSUME NEW i \in 1 .. Len(ps_stack), ps_stack[i].at = p
        PROVE  \/ \E n \in ps_nodes' : n.at = p
               \/ \E j \in 1 .. Len(ps_stack') : ps_stack'[j].at = p
    <3>1. CASE i = Len(ps_stack)
      <4>1. ps_stack[i] = Ps!top
        BY <3>1 DEF Ps!top
      <4>2. Ps!top.for # "paren"
        <5>1. Len(ps_stack) \in 1 .. Len(ps_stack)
          BY <1>1
        <5>2. Ps!top.for = "paren" => ps_toks[Ps!top.at] = "("
          BY <5>1, <4>1, <3>1 DEF PsTaken
        <5>3. "(" \notin PsOperators
          BY DEF PsOperators, Ps!Binary, Ps!Prefixes
        <5> QED BY <5>2, <5>3, <4>1, <2>5, <2>1, <1>3
      <4> QED BY <4>1, <4>2, <2>5
    <3>2. CASE i # Len(ps_stack)
      <4>1. i \in 1 .. Len(ps_stack')
        BY <3>2, <1>1, <1>2
      <4> QED BY <4>1, <2>5, <1>2
    <3> QED BY <3>1, <3>2
  <2> QED BY <2>3, <2>4, <2>5
<1>4. ASSUME NEW i \in 1 .. Len(ps_stack'), ps_stack'[i].for = "paren"
      PROVE  ps_stack'[i].at \in 1 .. (Ps!here' - 1) /\ ps_toks'[ps_stack'[i].at] = "("
  <2>1. i \in 1 .. Len(ps_stack) /\ ps_stack'[i] = ps_stack[i]
    BY <1>1, <1>2
  <2>2. ps_stack[i].at \in 1 .. (Ps!here - 1) /\ ps_toks[ps_stack[i].at] = "("
    BY <2>1, <1>4 DEF PsTaken
  <2>3. ps_stack[i].at \in 1 .. (Ps!here' - 1) /\ ps_stack[i].at \in 1 .. Ps!here
    BY <2>2, <1>1 DEF Ps!here
  <2> QED BY <2>1, <2>2, <2>3
<1> QED BY <1>3, <1>4 DEF PsTaken

\* An activation in brackets returns what they hold, or the node that they make.
LEMMA PsCloses ==
  ASSUME PsIInv, Len(ps_stack) >= 2, Ps!Advance, Ps!look # "eof", Ps!look \notin PsOperators,
         Ps!top.for \in {"paren", "array", "call", "index", "slice"},
         NEW target \in BOOLEAN, target => Ps!top.for \in {"paren", "index"},
         ps_stack' = Ps!outer, ps_mode' = "postfix", ps_span' = Ps!Span(Ps!top.from, Ps!here, target),
         ps_nodes' = IF Ps!top.for = "paren" THEN ps_nodes
                  ELSE ps_nodes \cup {Ps!Node(Ps!top.for, Ps!top.from, Ps!top.at, Ps!here)}
  PROVE  PsIInv'
<1> DEFINE n == Ps!Node(Ps!top.for, Ps!top.from, Ps!top.at, Ps!here)
<1>1. /\ ps_toks' \in Seq(TokenKinds \cup {"eof"}) /\ Ps!here' = Ps!here + 1 /\ Ps!here = Len(ps_toks)
      /\ \A p \in 1 .. Ps!here : ps_toks'[p] = ps_toks[p]
      /\ Ps!here' >= 1 /\ (Ps!here' <= MaxTokens \/ (Ps!here' = MaxTokens + 1 /\ Ps!look' = "eof"))
  BY PsAdvances DEF Ps!here
<1>2. /\ PsStack' /\ ps_stack' \in Seq(PsFrames)
      /\ Len(ps_stack') = Len(ps_stack) - 1 /\ Len(ps_stack') \in Nat /\ Len(ps_stack') >= 1
      /\ \A i \in 1 .. Len(ps_stack') : ps_stack'[i] = ps_stack[i]
      /\ Ps!top' = ps_stack[Len(ps_stack) - 1] /\ Ps!top' \in PsFrames
      /\ Len(ps_stack') = 1 => Ps!top.from = 1
  BY <1>1, PsPops
<1>3. /\ Len(ps_stack) \in Nat /\ Ps!top \in PsFrames /\ Ps!here \in Nat /\ Ps!here >= 1
      /\ PsFrame(Ps!top, ps_stack[Len(ps_stack) - 1].for, Ps!here)
      /\ \A i \in 1 .. (Len(ps_stack) - 1) : ps_stack[i].at < Ps!top.from
      /\ \A m \in ps_nodes : PsApart(Ps!top, m) /\ m \in PsNodes /\ PsNode(m, Ps!here)
  BY PsTop DEF Ps!here
<1>4. /\ Ps!top.for \in PsFors /\ Ps!top.from \in Nat /\ Ps!top.at \in Nat /\ Ps!top.from <= Ps!top.at
      /\ Ps!top.at < Ps!here /\ Ps!top.for \notin Ps!Binary
  BY <1>3 DEF PsFrames, PsFrame, Ps!Binary
<1>5. Ps!top.for # "paren" =>
        /\ n \in PsNodes /\ n.kind = Ps!top.for /\ n.from = Ps!top.from /\ n.at = Ps!top.at /\ n.to = Ps!here
        /\ PsRank(n.kind) = 15
  BY <1>3, <1>4, PsRankIs DEF Ps!Node, PsNodes, PsKinds
<1> HIDE DEF n
<1>6. PsTypes'
  <2>1. ps_nodes' \subseteq PsNodes /\ ps_span' \in PsSpans
    BY <1>3, <1>4, <1>5 DEF Ps!Span, PsSpans, n
  <2> QED BY <2>1, <1>1, <1>2 DEF PsTypes
<1>7. PsTree'
  <2>1. CASE Ps!top.for = "paren"
    <3>1. ps_nodes' = ps_nodes
      BY <2>1
    <3>2. \A m \in ps_nodes' : PsNode(m, Ps!here')
      BY <3>1, <1>1, <1>3 DEF PsNode, PsNodes
    <3>3. \A l, m \in ps_nodes' : PsPair(l, m)
      BY <3>1, Zenon DEF PsIInv, PsTree
    <3>4. \A i \in 1 .. Len(ps_stack'), m \in ps_nodes' : PsApart(ps_stack'[i], m)
      <4>1. 1 .. Len(ps_stack') \subseteq 1 .. Len(ps_stack)
        BY <1>2, <1>3
      <4> QED BY <4>1, <3>1, <1>2 DEF PsIInv, PsTree
    <3> QED BY <3>2, <3>3, <3>4, Zenon DEF PsTree
  <2>2. CASE Ps!top.for # "paren"
    <3>1. ps_nodes' = ps_nodes \cup {n} /\ n \in PsNodes
      BY <2>2, <1>5 DEF n
    <3>2. \A m \in ps_nodes : m.to < n.to /\ m.to <= n.to
      BY <2>2, <1>3, <1>5 DEF PsNode, PsNodes
    <3>3. \A m \in ps_nodes : ~ (m.to = n.to)
      BY <3>2, <1>3 DEF PsNodes
    <3>4. n.kind # "=" /\ n.at <= n.to
      BY <2>2, <1>3, <1>4, <1>5
    <3> QED BY <2>2, <3>1, <3>2, <3>3, <3>4, <1>1, <1>5, PsBuild
  <2> QED BY <2>1, <2>2
<1>8. PsTaken'
  <2>1. ps_nodes \subseteq ps_nodes' /\ (Ps!top.for = "paren" \/ \E m \in ps_nodes' : m.at = Ps!top.at)
    BY <1>5 DEF n
  <2> QED BY <2>1, <1>1, PsMoves
<1>9. PsExpression'
  <2>0. ps_span'.from = Ps!top.from /\ ps_span'.to = Ps!here /\ ps_span'.target = target
    BY DEF Ps!Span
  <2>1. Ps!top'.at < ps_span'.from /\ ps_span'.from <= ps_span'.to /\ ps_span'.to = Ps!here' - 1
    <3>1. Len(ps_stack) - 1 \in 1 .. (Len(ps_stack) - 1)
      BY <1>3
    <3> QED BY <3>1, <2>0, <1>1, <1>2, <1>3, <1>4
  <2>2. ASSUME NEW m \in ps_nodes'
        PROVE  /\ m.from < ps_span'.from => m.to < ps_span'.from
               /\ m.to = ps_span'.to => PsRight(Ps!top'.for, m)
               /\ m.from = ps_span'.from => PsRank(m.kind) = 15
               /\ m.from = ps_span'.from /\ target /\ m.to = ps_span'.to => m.kind = "index"
    <3>1. CASE m \in ps_nodes
      <4>1. /\ m.from \in Nat /\ m.to \in Nat /\ m.from <= m.to /\ m.to < Ps!here
        BY <3>1, <1>3 DEF PsNodes, PsNode
      <4>2. /\ m.to < Ps!top.at \/ m.from > Ps!top.at
            /\ m.from < Ps!top.from => m.to < Ps!top.from
            /\ m.from = Ps!top.from /\ m.to < Ps!top.at => PsLeft(Ps!top, m)
        BY <3>1, <1>3 DEF PsApart
      <4>3. Ps!top.for \in {"paren", "array"} => ~ (m.from = Ps!top.from)
        <5>1. Ps!top.for \in {"paren", "array"} => Ps!top.from = Ps!top.at
          BY <1>3 DEF PsFrame
        <5> QED BY <5>1, <4>1, <4>2, <1>4
      <4>4. Ps!top.for \in {"call", "index", "slice"} /\ m.from = Ps!top.from => PsRank(m.kind) = 15
        BY <4>1, <4>2, <1>4 DEF PsLeft
      <4> QED BY <4>1, <4>2, <4>3, <4>4, <2>0, <1>3
    <3>2. CASE m = n /\ Ps!top.for # "paren"
      <4>1. PsRight(Ps!top'.for, n)
        BY <3>2, <1>5, PsRankIs DEF PsRight
      <4> QED BY <4>1, <3>2, <2>0, <1>3, <1>4, <1>5
    <3>3. m \in ps_nodes \/ (m = n /\ Ps!top.for # "paren")
      BY <2>2 DEF n
    <3> QED BY <3>1, <3>2, <3>3
  <2>3. PsSpan(Ps!top)'
    BY <2>0, <2>1, <2>2 DEF PsSpan
  <2> QED BY <2>0, <2>3, <1>2 DEF PsExpression
<1> QED BY <1>2, <1>6, <1>7, <1>8, <1>9 DEF PsIInv

\* An activation returns its last operand with its operator before it.
LEMMA PsReduces ==
  ASSUME PsIInv, ps_mode = "operator", ~ Ps!TakesLook, Ps!Reduces,
         Ps!top.for = "=" => Ps!top.target,
         ps_nodes' = ps_nodes \cup {Ps!Node(Ps!top.for, Ps!top.from, Ps!top.at, ps_span.to)},
         ps_span' = Ps!Span(Ps!top.from, ps_span.to, FALSE), ps_mode' = "operator",
         ps_stack' = Ps!outer, ps_toks' = ps_toks
  PROVE  PsIInv'
<1> DEFINE n == Ps!Node(Ps!top.for, Ps!top.from, Ps!top.at, ps_span.to)
<1>1. /\ ps_toks' \in Seq(TokenKinds \cup {"eof"}) /\ Ps!here' = Ps!here /\ Ps!look' = Ps!look
      /\ \A p \in 1 .. Ps!here : ps_toks'[p] = ps_toks[p]
      /\ Ps!here' >= 1 /\ (Ps!here' <= MaxTokens \/ (Ps!here' = MaxTokens + 1 /\ Ps!look' = "eof"))
  BY DEF PsIInv, PsTypes, Ps!here, Ps!look
<1>0. Len(ps_stack) >= 2 /\ Ps!top.for \in PsKinds /\ Ps!top.for # "paren"
  <2>1. Ps!top.for # "statement" /\ Ps!top.for \in PsKinds /\ Ps!top.for # "paren"
    BY DEF Ps!Reduces, Ps!Binary, PsKinds
  <2> QED BY <2>1, PsTop
<1>2. /\ PsStack' /\ ps_stack' \in Seq(PsFrames)
      /\ Len(ps_stack') = Len(ps_stack) - 1 /\ Len(ps_stack') \in Nat /\ Len(ps_stack') >= 1
      /\ \A i \in 1 .. Len(ps_stack') : ps_stack'[i] = ps_stack[i]
      /\ Ps!top' = ps_stack[Len(ps_stack) - 1] /\ Ps!top' \in PsFrames
      /\ Len(ps_stack') = 1 => Ps!top.from = 1
  BY <1>0, <1>1, PsPops
<1>3. /\ Len(ps_stack) \in Nat /\ Ps!top \in PsFrames /\ Ps!here \in Nat /\ Ps!here >= 1
      /\ PsFrame(Ps!top, Ps!top'.for, Ps!here)
      /\ \A i \in 1 .. (Len(ps_stack) - 1) : ps_stack[i].at < Ps!top.from
      /\ \A m \in ps_nodes : PsApart(Ps!top, m) /\ m \in PsNodes /\ PsNode(m, Ps!here)
  BY <1>0, <1>2, PsTop DEF Ps!here
<1>4. /\ Ps!top.for \in PsFors /\ Ps!top.from \in Nat /\ Ps!top.at \in Nat /\ Ps!top.from <= Ps!top.at
      /\ Ps!top.at < Ps!here /\ ps_span \in PsSpans
  BY <1>3 DEF PsFrames, PsFrame, PsIInv, PsTypes
<1>5. PsSpan(Ps!top) /\ Ps!look \notin {"(", "[", "++"}
  BY DEF PsIInv, PsExpression
<1>6. /\ Ps!top.at < ps_span.from /\ ps_span.from <= ps_span.to /\ ps_span.to = Ps!here - 1
      /\ ps_span.from \in Nat /\ ps_span.to \in Nat
  BY <1>4, <1>5 DEF PsSpan, PsSpans
<1>7. /\ n \in PsNodes /\ n.kind = Ps!top.for /\ n.from = Ps!top.from /\ n.at = Ps!top.at
      /\ n.to = ps_span.to
  BY <1>0, <1>3, <1>4, <1>6 DEF Ps!Node, PsNodes
<1> HIDE DEF n
<1>8. PsTypes'
  <2>1. ps_nodes' \subseteq PsNodes /\ ps_span' \in PsSpans
    BY <1>3, <1>4, <1>6, <1>7 DEF Ps!Span, PsSpans, n
  <2> QED BY <2>1, <1>1, <1>2 DEF PsTypes
<1>9. \A m \in ps_nodes :
        /\ m.from \in Nat /\ m.at \in Nat /\ m.to \in Nat /\ m.from <= m.at /\ m.at <= m.to
        /\ m.to <= ps_span.to
        /\ m.to < Ps!top.at \/ m.from > Ps!top.at
        /\ m.from < Ps!top.from => m.to < Ps!top.from
        /\ m.from = Ps!top.from /\ m.to < Ps!top.at => PsLeft(Ps!top, m)
        /\ m.to = ps_span.to => PsRight(Ps!top.for, m)
  BY <1>3, <1>5, <1>6 DEF PsNodes, PsNode, PsApart, PsSpan
<1>10. PsTree'
  <2>1. ps_nodes' = ps_nodes \cup {n} /\ n.at <= n.to
    BY <1>4, <1>6, <1>7 DEF n
  <2>2. ASSUME NEW m \in ps_nodes, m.to = n.to, m.from > n.at
        PROVE  IF n.kind \in Ps!Binary THEN PsRank(m.kind) > PsRank(n.kind)
               ELSE PsRank(m.kind) >= PsRank(n.kind)
    <3>1. PsRight(n.kind, m)
      BY <2>2, <1>7, <1>9
    <3>2. n.kind \in Ps!Binary \cup {"prefix", "++", "else", "="}
      BY <1>7 DEF Ps!Reduces
    <3>3. PsRank("=") = 1 /\ PsRank(m.kind) >= 1
      BY PsRankIs DEF PsRank
    <3> QED BY <3>1, <3>2, <3>3, PsRankIs DEF PsRight
  <2>3. n.kind = "=" => Ps!top.target
    BY <1>7
  <2>4. Ps!here' = n.to + 1
    BY <1>1, <1>3, <1>6, <1>7
  <2>5. \A m \in ps_nodes : m.to <= n.to
    BY <1>7, <1>9
  <2> QED BY <2>1, <2>2, <2>3, <2>4, <2>5, <1>0, <1>7, PsBuild
<1>11. PsTaken'
  <2>1. ps_nodes \subseteq ps_nodes' /\ \E m \in ps_nodes' : m.at = Ps!top.at
    BY <1>7 DEF n
  <2> QED BY <2>1, <1>0, <1>1, PsMoves
<1>12. PsExpression'
  <2>0. ps_span'.from = Ps!top.from /\ ps_span'.to = ps_span.to /\ ps_span'.target = FALSE
    BY DEF Ps!Span
  <2>1. Ps!top'.at < ps_span'.from /\ ps_span'.from <= ps_span'.to /\ ps_span'.to = Ps!here' - 1
    <3>1. Len(ps_stack) - 1 \in 1 .. (Len(ps_stack) - 1)
      BY <1>0, <1>3
    <3>2. Ps!top'.at < Ps!top.from
      BY <3>1, <1>2, <1>3
    <3>3. Ps!top.from <= ps_span.to
      BY <1>4, <1>6
    <3> QED BY <3>2, <3>3, <2>0, <1>1, <1>6
  <2>2. Ps!top.for \in Ps!Binary \/ Ps!top.for \in {"prefix", "++"} \/ Ps!top.for = "else" \/ Ps!top.for = "="
    BY DEF Ps!Reduces
  <2>3. Ps!look \in Ps!Binary => Ps!top.for \notin {"else", "="} /\ (Ps!top.for \in Ps!Binary => PsRank(Ps!look) <= PsRank(Ps!top.for))
    <3> SUFFICES ASSUME Ps!look \in Ps!Binary
                 PROVE  Ps!top.for \notin {"else", "="} /\ (Ps!top.for \in Ps!Binary => PsRank(Ps!look) <= PsRank(Ps!top.for))
      OBVIOUS
    <3>1. Ps!Level(Ps!look) <= Ps!Bound
      BY PsRankIs DEF Ps!TakesLook, Ps!Bound
    <3>2. PsRank(Ps!look) = Ps!Level(Ps!look) + 2 /\ PsRank(Ps!look) \in 3 .. 13
      BY PsRankIs
    <3>3. Ps!top.for \in {"else", "="} => Ps!Bound = 0
      BY DEF Ps!Bound, Ps!Level
    <3>4. Ps!top.for \in Ps!Binary => Ps!Bound = Ps!Level(Ps!top.for) /\ PsRank(Ps!top.for) = Ps!Level(Ps!top.for) + 2
      BY PsRankIs DEF Ps!Bound, Ps!Binary
    <3> QED BY <3>1, <3>2, <3>3, <3>4, PsRankIs
  <2>4. Ps!look = "?" => Ps!top.for \in Ps!Binary \cup {"prefix", "++"}
    BY DEF Ps!TakesLook, Ps!TakesAssign
  <2>5. PsAbove(Ps!top'.for, Ps!top.for)
    BY <1>3 DEF PsFrame
  <2>6. ASSUME NEW m \in ps_nodes'
        PROVE  /\ m.from < ps_span'.from => m.to < ps_span'.from
               /\ m.to = ps_span'.to => PsRight(Ps!top'.for, m)
               /\ m.from = ps_span'.from =>
                    /\ Ps!look \in Ps!Binary => PsRank(m.kind) >= PsRank(Ps!look)
                    /\ Ps!look = "?" => PsRank(m.kind) > 2
    <3>1. CASE m \in ps_nodes
      <4>1. m.from < ps_span'.from => m.to < ps_span'.from
        BY <3>1, <2>0, <1>9
      <4>2. m.to = ps_span'.to => PsRight(Ps!top'.for, m)
        <5> SUFFICES ASSUME m.to = ps_span.to PROVE PsRight(Ps!top'.for, m)
          BY <2>0
        <5>1. PsRight(Ps!top.for, m)
          BY <3>1, <1>9
        <5> QED BY <5>1, <2>2, <2>5, PsRankIs DEF PsRight, PsAbove
      <4>3. m.from = ps_span'.from => PsLeft(Ps!top, m) /\ ~ (Ps!top.from = Ps!top.at)
        <5> SUFFICES ASSUME m.from = Ps!top.from PROVE PsLeft(Ps!top, m) /\ ~ (Ps!top.from = Ps!top.at)
          BY <2>0
        <5> QED BY <3>1, <1>4, <1>9
      <4>4. Ps!top.for \in {"prefix", "++"} => Ps!top.from = Ps!top.at
        BY <1>3 DEF PsFrame
      <4>5. ASSUME m.from = ps_span'.from, Ps!look \in Ps!Binary
            PROVE  PsRank(m.kind) >= PsRank(Ps!look)
        <5>1. Ps!top.for \in Ps!Binary
          BY <4>3, <4>4, <4>5, <2>2, <2>3
        <5>2. PsRank(m.kind) >= PsRank(Ps!top.for) /\ PsRank(Ps!look) <= PsRank(Ps!top.for)
          BY <5>1, <4>3, <4>5, <2>3 DEF PsLeft
        <5> QED BY <5>2, PsRankIs
      <4>6. ASSUME m.from = ps_span'.from, Ps!look = "?"
            PROVE  PsRank(m.kind) > 2
        <5>1. Ps!top.for \in Ps!Binary
          BY <4>3, <4>4, <4>6, <2>4
        <5>2. PsRank(m.kind) >= PsRank(Ps!top.for)
          BY <5>1, <4>3, <4>6 DEF PsLeft
        <5> QED BY <5>1, <5>2, PsRankIs
      <4> QED BY <4>1, <4>2, <4>5, <4>6
    <3>2. CASE m = n
      <4>1. PsRight(Ps!top'.for, n)
        BY <2>2, <2>5, <1>7, PsRankIs DEF PsRight, PsAbove
      <4>2. Ps!look \in Ps!Binary => PsRank(n.kind) >= PsRank(Ps!look)
        BY <2>2, <2>3, <1>7, PsRankIs
      <4>3. Ps!look = "?" => PsRank(n.kind) > 2
        BY <2>4, <1>7, PsRankIs
      <4>4. ~ (n.from < ps_span'.from)
        <5>1. Ps!top.from \in Nat /\ \A k \in Nat : ~ (k < k)
          BY <1>4
        <5>2. n.from = Ps!top.from /\ ps_span'.from = Ps!top.from
          BY <2>0, <1>7, Zenon
        <5> QED BY <5>1, <5>2, Zenon
      <4> QED BY <3>2, <4>1, <4>2, <4>3, <4>4
    <3> QED BY <2>6, <3>1, <3>2 DEF n
  <2>7. PsSpan(Ps!top)'
    BY <2>0, <2>1, <2>6, <1>1 DEF PsSpan
  <2> QED BY <2>0, <2>7, <1>1, <1>2, <1>5 DEF PsExpression
<1> QED BY <1>2, <1>8, <1>10, <1>11, <1>12 DEF PsIInv

-----------------------------------------------------------------------------
\* Initially the parser is at the first token of a statement.
LEMMA PsInit == Ps!Init => PsIInv
<1> SUFFICES ASSUME Ps!Init PROVE PsIInv
  OBVIOUS
<1>1. PICK k \in TokenKinds : ps_toks = [i \in 1 .. 1 |-> k]
  <2>1. ps_toks \in [1 .. 1 -> TokenKinds] /\ 1 \in 1 .. 1
    BY DEF Ps!Init
  <2>2. ps_toks[1] \in TokenKinds /\ ps_toks = [i \in 1 .. 1 |-> ps_toks[1]]
    BY <2>1
  <2> QED BY <2>2
<1>2. ps_toks \in Seq(TokenKinds \cup {"eof"}) /\ Len(ps_toks) = 1
  <2>1. [i \in 1 .. 1 |-> k] = <<k>>
    OBVIOUS
  <2> QED BY <1>1, <2>1
<1>3. ps_stack = <<Ps!Statement>> /\ Ps!Statement \in PsFrames /\ Len(ps_stack) = 1 /\ ps_stack[1] = Ps!Statement
  BY DEF Ps!Init, Ps!Statement, Ps!Waiting, PsFrames
<1>4. MaxTokens \in Nat /\ MaxTokens >= 1
  BY PsLimits
<1>5. PsTypes
  <2>1. ps_stack \in Seq(PsFrames)
    BY <1>3
  <2> QED BY <2>1, <1>2, <1>4 DEF Ps!Init, PsTypes, Ps!here, Ps!Span, PsSpans
<1>6. PsStack
  BY <1>3 DEF PsStack
<1>7. PsTree
  BY DEF Ps!Init, PsTree
<1>8. PsTaken
  <2>1. Ps!Statement.for = "statement"
    BY DEF Ps!Statement, Ps!Waiting
  <2> QED BY <2>1, <1>2, <1>3 DEF PsTaken, Ps!here
<1>9. PsExpression
  BY <1>2 DEF Ps!Init, PsExpression, Ps!here
<1> QED BY <1>5, <1>6, <1>7, <1>8, <1>9 DEF PsIInv

LEMMA PsName == ASSUME PsIInv, Ps!Name PROVE PsIInv'
<1>0. /\ ps_mode = "operand" /\ Ps!look \in {"name", "literal"} /\ Ps!Advance
      /\ ps_span' = Ps!Span(Ps!here, Ps!here, Ps!look = "name") /\ ps_mode' = "postfix"
      /\ ps_stack' = ps_stack /\ ps_nodes' = ps_nodes
  BY DEF Ps!Name, Ps!Complete
<1>1. /\ ps_toks' \in Seq(TokenKinds \cup {"eof"}) /\ Ps!here' = Ps!here + 1 /\ Ps!here = Len(ps_toks)
      /\ \A p \in 1 .. Ps!here : ps_toks'[p] = ps_toks[p]
      /\ Ps!here' >= 1 /\ (Ps!here' <= MaxTokens \/ (Ps!here' = MaxTokens + 1 /\ Ps!look' = "eof"))
  BY <1>0, PsAdvances DEF Ps!here
<1>2. /\ Len(ps_stack) \in Nat /\ Len(ps_stack) >= 1 /\ Ps!top \in PsFrames
      /\ Ps!here \in Nat /\ Ps!here >= 1
      /\ \A i \in 1 .. Len(ps_stack) : ps_stack[i] \in PsFrames /\ ps_stack[i].at < Ps!here
      /\ \A m \in ps_nodes : m \in PsNodes /\ PsNode(m, Ps!here)
  BY PsTop DEF Ps!here
<1>3. PsTypes'
  BY <1>0, <1>1, <1>2 DEF PsIInv, PsTypes, Ps!Span, PsSpans
<1>4. PsStack'
  <2>1. \A i \in 2 .. Len(ps_stack) : PsFrame(ps_stack[i], ps_stack[i - 1].for, Ps!here')
    <3> SUFFICES ASSUME NEW i \in 2 .. Len(ps_stack)
                 PROVE  PsFrame(ps_stack[i], ps_stack[i - 1].for, Ps!here')
      OBVIOUS
    <3>1. PsFrame(ps_stack[i], ps_stack[i - 1].for, Ps!here) /\ i \in 1 .. Len(ps_stack)
      BY <1>2 DEF PsIInv, PsStack
    <3>2. ps_stack[i].at < Ps!here + 1
      BY <3>1, <1>2 DEF PsFrames
    <3> QED BY <3>1, <3>2, <1>1 DEF PsFrame
  <2> QED BY <2>1, <1>0 DEF PsIInv, PsStack
<1>5. PsTree'
  <2>1. \A n \in ps_nodes : PsNode(n, Ps!here')
    BY <1>1, <1>2 DEF PsNode, PsNodes
  <2> QED BY <2>1, <1>0 DEF PsIInv, PsTree
<1>6. PsTaken'
  <2>1. ASSUME NEW p \in 1 .. (Ps!here' - 1), ps_toks'[p] \in PsOperators
        PROVE  \/ \E n \in ps_nodes : n.at = p
               \/ \E i \in 1 .. Len(ps_stack) : ps_stack[i].at = p
    <3>1. p \in 1 .. Ps!here /\ ps_toks'[p] = ps_toks[p]
      BY <1>1, <1>2
    <3>2. p # Ps!here
      BY <3>1, <2>1, <1>0 DEF Ps!look, PsOperators, Ps!Binary, Ps!Prefixes
    <3>3. p \in 1 .. (Ps!here - 1)
      BY <3>1, <3>2, <1>2
    <3> QED BY <3>1, <3>3, <2>1 DEF PsIInv, PsTaken
  <2>2. ASSUME NEW i \in 1 .. Len(ps_stack), ps_stack[i].for = "paren"
        PROVE  ps_stack[i].at \in 1 .. (Ps!here' - 1) /\ ps_toks'[ps_stack[i].at] = "("
    <3>1. ps_stack[i].at \in 1 .. (Ps!here - 1) /\ ps_toks[ps_stack[i].at] = "("
      BY <2>2 DEF PsIInv, PsTaken
    <3>2. ps_stack[i].at \in 1 .. Ps!here /\ ps_stack[i].at \in 1 .. (Ps!here' - 1)
      BY <3>1, <1>1, <1>2
    <3> QED BY <3>1, <3>2, <1>1
  <2> QED BY <2>1, <2>2, <1>0 DEF PsTaken
<1>7. PsExpression'
  <2>1. ps_span'.from = Ps!here /\ ps_span'.to = Ps!here /\ Ps!top' = Ps!top
    BY <1>0 DEF Ps!Span, Ps!top
  <2>2. Len(ps_stack) = 1 => Ps!here = 1
    BY <1>0 DEF PsIInv, PsExpression
  <2>3. Ps!top.at < Ps!here
    BY <1>2 DEF Ps!top
  <2>4. \A m \in ps_nodes : m.to < Ps!here /\ ~ (m.to = Ps!here) /\ ~ (m.from = Ps!here)
    BY <1>2 DEF PsNode, PsNodes
  <2>5. PsSpan(Ps!top)'
    BY <2>1, <2>3, <2>4, <1>0, <1>1, <1>2 DEF PsSpan
  <2> QED BY <2>1, <2>2, <2>5, <1>0 DEF PsExpression
<1> QED BY <1>3, <1>4, <1>5, <1>6, <1>7 DEF PsIInv

LEMMA PsPrefix == ASSUME PsIInv, Ps!Prefix \/ Ps!Open PROVE PsIInv'
<1>1. PICK for \in {"++", "prefix", "paren", "array"} :
        /\ Ps!Await(ps_stack, Ps!Waiting(for, Ps!here, Ps!here, FALSE))
        /\ for = "paren" => Ps!look = "("
  BY DEF Ps!Prefix, Ps!Open
<1> DEFINE f == Ps!Waiting(for, Ps!here, Ps!here, FALSE)
<1>2. ps_mode = "operand" /\ Ps!look # "eof"
  BY DEF Ps!Prefix, Ps!Open, Ps!Prefixes
<1>3. /\ Len(ps_stack) \in Nat /\ Len(ps_stack) >= 1 /\ Ps!here \in Nat /\ Ps!here >= 1
      /\ \A i \in 1 .. Len(ps_stack) : ps_stack[i].at < Ps!here
      /\ \A m \in ps_nodes : m \in PsNodes /\ PsNode(m, Ps!here)
  BY PsTop DEF Ps!here
<1>4. f.for = for /\ f.from = Ps!here /\ f.at = Ps!here /\ f \in PsFrames /\ f.for \in PsFors
  BY <1>3 DEF Ps!Waiting, PsFrames, PsFors
<1>5. f.for \notin Ps!Binary \cup {"then", "else", "="}
  BY <1>4 DEF Ps!Binary
<1> HIDE DEF f
<1>6. PsFrame(f, Ps!top.for, Ps!here + 1)
  BY <1>3, <1>4, <1>5 DEF PsFrame, PsAbove
<1>7. \A m \in ps_nodes : PsApart(f, m)
  BY <1>3, <1>4 DEF PsApart, PsNode, PsNodes
<1>8. Ps!top.at < f.from
  BY <1>3, <1>4 DEF Ps!top
<1>9. Len(ps_stack) = 1 => f.from = 1
  BY <1>2, <1>4 DEF PsIInv, PsExpression
<1>10. Ps!Await(ps_stack, f) /\ (f.for = "paren" => Ps!look = "(")
  BY <1>1, <1>4 DEF f
<1> QED BY <1>2, <1>4, <1>6, <1>7, <1>8, <1>9, <1>10, PsPush

\* What takes the expression that is complete as its first operand.
LEMMA PsContinues ==
  ASSUME PsIInv, ps_mode \in {"postfix", "operator"}, NEW f \in PsFrames,
         Ps!Await(ps_stack, f), Ps!look # "eof", f.from = ps_span.from, f.at = Ps!here,
         f.for \in PsFors, f.for \notin {"prefix", "++", "paren", "array"},
         PsAbove(Ps!top.for, f.for),
         \A m \in ps_nodes : m.from = ps_span.from => PsLeft(f, m)
  PROVE  PsIInv'
<1>1. /\ Ps!here \in Nat /\ Ps!here >= 1 /\ Len(ps_stack) \in Nat
      /\ \A m \in ps_nodes : m \in PsNodes /\ PsNode(m, Ps!here)
  BY PsTop DEF Ps!here
<1>2. PsSpan(Ps!top) /\ (Len(ps_stack) = 1 => ps_span.from = 1)
  BY DEF PsIInv, PsExpression
<1>3. /\ Ps!top.at < ps_span.from /\ ps_span.from <= ps_span.to /\ ps_span.to = Ps!here - 1
      /\ ps_span.from \in Nat /\ ps_span.to \in Nat
  BY <1>2 DEF PsSpan, PsIInv, PsTypes, PsSpans
<1>4. PsFrame(f, Ps!top.for, Ps!here + 1)
  BY <1>1, <1>3 DEF PsFrame
<1>5. \A m \in ps_nodes : PsApart(f, m)
  <2> SUFFICES ASSUME NEW m \in ps_nodes PROVE PsApart(f, m)
    OBVIOUS
  <2>1. m.to < Ps!here /\ (m.from < ps_span.from => m.to < ps_span.from)
    BY <1>1, <1>2 DEF PsNode, PsSpan
  <2> QED BY <2>1 DEF PsApart
<1> QED BY <1>2, <1>3, <1>4, <1>5, PsPush

LEMMA PsPostfixOpen == ASSUME PsIInv, Ps!PostfixOpen PROVE PsIInv'
<1> DEFINE f == Ps!Waiting(IF Ps!look = "(" THEN "call" ELSE "index", ps_span.from, Ps!here, FALSE)
<1>1. ps_mode = "postfix" /\ Ps!look # "eof" /\ Ps!Await(ps_stack, f)
  BY DEF Ps!PostfixOpen
<1>2. Ps!here \in Nat /\ ps_span.from \in Nat
  BY PsTop DEF Ps!here, PsIInv, PsTypes, PsSpans
<1>3. /\ f \in PsFrames /\ f.from = ps_span.from /\ f.at = Ps!here /\ f.for \in {"call", "index"}
      /\ f.for \in PsFors
  BY <1>2 DEF Ps!Waiting, PsFrames, PsFors
<1> HIDE DEF f
<1>4. f.for \notin Ps!Binary \cup {"then", "else", "="}
  BY <1>3 DEF Ps!Binary
<1>5. PsAbove(Ps!top.for, f.for)
  BY <1>4 DEF PsAbove
<1>6. \A m \in ps_nodes : m.from = ps_span.from => PsLeft(f, m)
  <2>1. \A m \in ps_nodes : m.from = ps_span.from => PsRank(m.kind) = 15
    BY <1>1 DEF PsIInv, PsExpression, PsSpan
  <2> QED BY <2>1, <1>4 DEF PsLeft
<1> QED BY <1>1, <1>3, <1>5, <1>6, PsContinues

LEMMA PsOperator == ASSUME PsIInv, Ps!Operator PROVE PsIInv'
<1> DEFINE f == Ps!Waiting(CASE Ps!look = "?" -> "then" [] Ps!look = ":=" -> "=" [] OTHER -> Ps!look,
                        ps_span.from, Ps!here, ps_span.target)
<1>1. ps_mode = "operator" /\ Ps!Await(ps_stack, f)
  BY DEF Ps!Operator
<1>2. /\ Ps!look \in Ps!Binary \cup {"?", "=", ":="}
      /\ Ps!look \in Ps!Binary => Ps!Level(Ps!look) > Ps!Bound
      /\ Ps!look = "?" => Ps!TakesAssign(Ps!top.for) \/ Ps!top.for = "else"
      /\ Ps!look \in {"=", ":="} => Ps!TakesAssign(Ps!top.for)
  BY DEF Ps!Operator, Ps!TakesLook, Ps!Binary
<1>3. Ps!look # "eof"
  BY <1>2 DEF Ps!Binary
<1>4. Ps!here \in Nat /\ ps_span.from \in Nat /\ ps_span.target \in BOOLEAN
  BY PsTop DEF Ps!here, PsIInv, PsTypes, PsSpans
<1>5. f.for = IF Ps!look = "?" THEN "then" ELSE IF Ps!look = ":=" THEN "=" ELSE Ps!look
  BY DEF Ps!Waiting
<1>6. f.for \in Ps!Binary \cup {"then", "="}
  BY <1>2, <1>5
<1>7. f.for \in PsFors /\ f.for \notin {"prefix", "++", "paren", "array", "call", "index", "slice", "else"}
  BY <1>6 DEF PsFors, Ps!Binary
<1>8. f \in PsFrames /\ f.from = ps_span.from /\ f.at = Ps!here /\ f.target = ps_span.target
  BY <1>4, <1>7 DEF Ps!Waiting, PsFrames
<1>9. f.for \in Ps!Binary => Ps!look = f.for
  BY <1>2, <1>5 DEF Ps!Binary
<1>10. (f.for = "then" <=> Ps!look = "?") /\ (f.for = "=" => Ps!look \in {"=", ":="})
  BY <1>2, <1>5 DEF Ps!Binary
<1> HIDE DEF f
<1>11. PsAbove(Ps!top.for, f.for)
  <2>1. f.for \in Ps!Binary => Ps!top.for \notin {"prefix", "++"} /\ (Ps!top.for \in Ps!Binary => PsRank(f.for) > PsRank(Ps!top.for))
    <3> SUFFICES ASSUME f.for \in Ps!Binary
                 PROVE  Ps!top.for \notin {"prefix", "++"} /\ (Ps!top.for \in Ps!Binary => PsRank(f.for) > PsRank(Ps!top.for))
      OBVIOUS
    <3>1. Ps!Level(f.for) > Ps!Bound /\ Ps!Level(f.for) \in 0 .. 11 /\ Ps!Level(Ps!top.for) \in 0 .. 11
      BY <1>2, <1>9, PsRankIs
    <3>2. PsRank(f.for) = Ps!Level(f.for) + 2 /\ (Ps!top.for \in Ps!Binary => PsRank(Ps!top.for) = Ps!Level(Ps!top.for) + 2)
      BY PsRankIs
    <3>3. (Ps!top.for \in {"prefix", "++"} => Ps!Bound = 12) /\ (Ps!top.for \in Ps!Binary => Ps!Bound = Ps!Level(Ps!top.for))
      BY DEF Ps!Bound, Ps!Binary
    <3> QED BY <3>1, <3>2, <3>3
  <2>2. f.for \in {"then", "else"} => Ps!top.for \notin Ps!Binary \cup {"prefix", "++"}
    BY <1>2, <1>7, <1>10 DEF Ps!TakesAssign, Ps!Binary
  <2>3. f.for = "=" => Ps!top.for \notin Ps!Binary \cup {"prefix", "++", "else"}
    BY <1>2, <1>10 DEF Ps!TakesAssign
  <2> QED BY <2>1, <2>2, <2>3 DEF PsAbove
<1>12. ASSUME NEW m \in ps_nodes, m.from = ps_span.from PROVE PsLeft(f, m)
  <2>1. PsSpan(Ps!top)
    BY <1>1 DEF PsIInv, PsExpression
  <2>2. /\ Ps!look \in Ps!Binary => PsRank(m.kind) >= PsRank(Ps!look)
        /\ Ps!look = "?" => PsRank(m.kind) > 2
        /\ ps_span.target => PsRank(m.kind) = 15 /\ (m.to = ps_span.to => m.kind = "index")
        /\ ps_span.to = Ps!here - 1
    BY <2>1, <1>1, <1>12 DEF PsSpan
  <2> QED BY <2>2, <1>7, <1>8, <1>9, <1>10 DEF PsLeft
<1> QED BY <1>1, <1>3, <1>7, <1>8, <1>11, <1>12, PsContinues

LEMMA PsBetween == ASSUME PsIInv, Ps!SliceFromStart \/ Ps!Between PROVE PsIInv'
<1>1. PICK for \in {"slice", "else", "array", "call"} :
        /\ Ps!Await(Ps!outer, [Ps!top EXCEPT !.for = for])
        /\ \/ for = "slice" /\ Ps!top.for = "index"
           \/ for = "else" /\ Ps!top.for = "then"
           \/ for = Ps!top.for /\ for \in {"array", "call"}
        /\ Ps!look \in {":", ","}
  <2>1. Ps!top = [Ps!top EXCEPT !.for = Ps!top.for]
    BY PsTop DEF PsFrames
  <2> QED BY <2>1 DEF Ps!SliceFromStart, Ps!Between, Ps!NoLowBound
<1> DEFINE f == [Ps!top EXCEPT !.for = for]
<1>2. Ps!top.for # "statement" /\ Ps!top.for \notin Ps!Binary \cup {"prefix", "++", "=", "paren"}
  BY <1>1 DEF Ps!Binary
<1>3. Len(ps_stack) >= 2
  BY <1>2, PsTop
<1>4. Ps!look # "eof" /\ Ps!look \notin PsOperators
  BY <1>1 DEF PsOperators, Ps!Binary, Ps!Prefixes
<1>5. Ps!top \in PsFrames /\ PsFrame(Ps!top, ps_stack[Len(ps_stack) - 1].for, Ps!here) /\ \A m \in ps_nodes : PsApart(Ps!top, m)
  BY <1>3, PsTop
<1>6. /\ f \in PsFrames /\ f.for = for /\ f.from = Ps!top.from /\ f.at = Ps!top.at
      /\ f.for \in PsFors /\ f.for # "paren"
  BY <1>1, <1>5 DEF PsFrames, PsFors
<1> HIDE DEF f
<1>7. f.for \notin Ps!Binary \cup {"="}
  BY <1>1, <1>6 DEF Ps!Binary
<1>8. PsFrame(f, ps_stack[Len(ps_stack) - 1].for, Ps!here)
  <2>1. PsAbove(ps_stack[Len(ps_stack) - 1].for, f.for)
    <3>1. f.for = "else" => Ps!top.for = "then"
      BY <1>1, <1>6
    <3>2. f.for # "then"
      BY <1>1, <1>6
    <3> QED BY <3>1, <3>2, <1>5, <1>7 DEF PsFrame, PsAbove
  <2>2. f.for = "array" => Ps!top.for = "array"
    BY <1>1, <1>6
  <2>3. f.for \notin {"prefix", "++"}
    BY <1>1, <1>6
  <2> QED BY <2>1, <2>2, <2>3, <1>5, <1>6 DEF PsFrame
<1>9. ASSUME NEW m \in ps_nodes PROVE PsApart(f, m)
  <2>1. PsLeft(Ps!top, m) => PsLeft(f, m)
    <3>1. f.for \in {"call", "index", "slice"} => Ps!top.for \in {"call", "index", "slice"}
      BY <1>1, <1>6
    <3>2. f.for \in {"then", "else"} => Ps!top.for \in {"then", "else"}
      BY <1>1, <1>6
    <3> QED BY <3>1, <3>2, <1>7 DEF PsLeft
  <2> QED BY <2>1, <1>5, <1>6 DEF PsApart
<1> QED BY <1>1, <1>3, <1>4, <1>6, <1>8, <1>9, PsChange DEF f

LEMMA PsIncrement == ASSUME PsIInv, Ps!PostfixIncrement, ps_span.target PROVE PsIInv'
<1> DEFINE n == Ps!Node("x++", ps_span.from, Ps!here, Ps!here)
<1>0. /\ ps_mode = "postfix" /\ Ps!look = "++" /\ Ps!Advance /\ ps_span' = Ps!Span(ps_span.from, Ps!here, FALSE)
      /\ ps_mode' = "postfix" /\ ps_stack' = ps_stack /\ ps_nodes' = ps_nodes \cup {n}
  BY DEF Ps!PostfixIncrement, Ps!Complete
<1>1. /\ ps_toks' \in Seq(TokenKinds \cup {"eof"}) /\ Ps!here' = Ps!here + 1 /\ Ps!here = Len(ps_toks)
      /\ \A p \in 1 .. Ps!here : ps_toks'[p] = ps_toks[p]
      /\ Ps!here' >= 1 /\ (Ps!here' <= MaxTokens \/ (Ps!here' = MaxTokens + 1 /\ Ps!look' = "eof"))
  BY <1>0, PsAdvances DEF Ps!here
<1>2. /\ Len(ps_stack) \in Nat /\ Len(ps_stack) >= 1 /\ Ps!top \in PsFrames
      /\ Ps!here \in Nat /\ Ps!here >= 1
      /\ \A i \in 1 .. Len(ps_stack) :
           ps_stack[i] \in PsFrames /\ ps_stack[i].at < Ps!here /\ ps_stack[i].at <= Ps!top.at
      /\ Len(ps_stack) >= 2 => PsFrame(Ps!top, ps_stack[Len(ps_stack) - 1].for, Ps!here)
      /\ \A m \in ps_nodes : m \in PsNodes /\ PsNode(m, Ps!here)
  BY PsTop DEF Ps!here
<1>3. PsSpan(Ps!top) /\ (Len(ps_stack) = 1 => ps_span.from = 1)
  BY <1>0 DEF PsIInv, PsExpression
<1>4. /\ Ps!top.at < ps_span.from /\ ps_span.from <= ps_span.to /\ ps_span.to = Ps!here - 1
      /\ ps_span.from \in Nat /\ ps_span.to \in Nat /\ Ps!top.at \in Nat
  BY <1>2, <1>3 DEF PsSpan, PsIInv, PsTypes, PsSpans, PsFrames
<1>5. /\ n \in PsNodes /\ n.kind = "x++" /\ n.from = ps_span.from /\ n.at = Ps!here /\ n.to = Ps!here
      /\ PsRank(n.kind) = 15 /\ n.kind \notin Ps!Binary \cup {"else", "="}
  BY <1>2, <1>4, PsRankIs DEF Ps!Node, PsNodes, PsKinds, Ps!Binary
<1> HIDE DEF n
<1>a. \A m \in ps_nodes :
        /\ m.from \in Nat /\ m.at \in Nat /\ m.to \in Nat /\ m.from <= m.at
        /\ m.at <= m.to /\ m.to < Ps!here
        /\ m.from < ps_span.from => m.to < ps_span.from
        /\ m.from = ps_span.from => PsRank(m.kind) = 15
  BY <1>0, <1>2, <1>3 DEF PsNodes, PsNode, PsSpan
<1>6. PsTypes'
  BY <1>0, <1>1, <1>4, <1>5 DEF PsIInv, PsTypes, Ps!Span, PsSpans
<1>7. PsStack'
  <2>1. \A i \in 2 .. Len(ps_stack) : PsFrame(ps_stack[i], ps_stack[i - 1].for, Ps!here')
    <3> SUFFICES ASSUME NEW i \in 2 .. Len(ps_stack)
                 PROVE  PsFrame(ps_stack[i], ps_stack[i - 1].for, Ps!here')
      OBVIOUS
    <3>1. PsFrame(ps_stack[i], ps_stack[i - 1].for, Ps!here) /\ i \in 1 .. Len(ps_stack)
      BY <1>2 DEF PsIInv, PsStack
    <3>2. ps_stack[i].at < Ps!here + 1
      BY <3>1, <1>2 DEF PsFrames
    <3> QED BY <3>1, <3>2, <1>1 DEF PsFrame
  <2> QED BY <2>1, <1>0 DEF PsIInv, PsStack
<1>8. PsTree'
  <2>1. \A m \in ps_nodes' : PsNode(m, Ps!here')
    <3>1. PsNode(n, Ps!here')
      <4>1. n.kind \notin {"prefix", "++", "array"}
        BY <1>5
      <4> QED BY <4>1, <1>1, <1>2, <1>4, <1>5 DEF PsNode
    <3>2. \A m \in ps_nodes : PsNode(m, Ps!here')
      BY <1>1, <1>2 DEF PsNode, PsNodes
    <3> QED BY <3>1, <3>2, <1>0
  <2>2. \A l, m \in ps_nodes' : PsPair(l, m)
    <3>1. PsPair(n, n)
      BY <1>2, <1>5 DEF PsPair, PsGrouped
    <3>2. ASSUME NEW m \in ps_nodes PROVE PsPair(n, m) /\ PsPair(m, n)
      <4>1. m.at # n.at /\ ~ (m.to = n.to) /\ ~ (n.to < m.at)
        BY <1>2, <1>5, <1>a
      <4>2. m.from < n.from /\ n.from <= m.to => n.to <= m.to
        BY <1>4, <1>5, <1>a
      <4>3. m.to <= n.to
        BY <1>2, <1>5, <1>a
      <4>4. m.from = n.from => PsRank(m.kind) = 15
        BY <1>5, <1>a
      <4>5. PsGrouped(n, m)
        BY <4>1, <4>4, <1>5 DEF PsGrouped
      <4>6. PsGrouped(m, n)
        BY <4>1 DEF PsGrouped
      <4> QED BY <4>1, <4>2, <4>3, <4>5, <4>6 DEF PsPair
    <3> QED BY <3>1, <3>2, <1>0, Zenon DEF PsIInv, PsTree
  <2>3. \A i \in 1 .. Len(ps_stack'), m \in ps_nodes' : PsApart(ps_stack'[i], m)
    <3> SUFFICES ASSUME NEW i \in 1 .. Len(ps_stack) PROVE PsApart(ps_stack[i], n)
      BY <1>0, Zenon DEF PsIInv, PsTree
    <3>1. ps_stack[i].at < n.from /\ ps_stack[i].at \in Nat /\ ps_stack[i].from \in Nat
      BY <1>2, <1>4, <1>5 DEF PsFrames
    <3>2. ps_stack[i].from <= n.from
      <4>1. CASE i = 1
        BY <4>1, <1>4, <1>5 DEF PsIInv, PsStack, Ps!Statement, Ps!Waiting
      <4>2. CASE i # 1
        <5>1. ps_stack[i].from <= ps_stack[i].at
          BY <4>2, <1>2 DEF PsIInv, PsStack, PsFrame
        <5> QED BY <5>1, <3>1, <1>4, <1>5
      <4> QED BY <4>1, <4>2
    <3>3. ~ (n.from < ps_stack[i].from) /\ ~ (n.to < ps_stack[i].at) /\ n.from > ps_stack[i].at
      BY <3>1, <3>2, <1>2, <1>4, <1>5
    <3> QED BY <3>3 DEF PsApart
  <2> QED BY <2>1, <2>2, <2>3 DEF PsTree
<1>9. PsTaken'
  <2>1. ASSUME NEW p \in 1 .. (Ps!here' - 1), ps_toks'[p] \in PsOperators
        PROVE  \/ \E m \in ps_nodes' : m.at = p
               \/ \E i \in 1 .. Len(ps_stack) : ps_stack[i].at = p
    <3>1. p \in 1 .. Ps!here /\ ps_toks'[p] = ps_toks[p]
      BY <1>1, <1>2
    <3>2. CASE p = Ps!here
      BY <3>2, <1>0, <1>5
    <3>3. CASE p # Ps!here
      <4>1. p \in 1 .. (Ps!here - 1)
        BY <3>1, <3>3, <1>2
      <4> QED BY <3>1, <4>1, <2>1, <1>0 DEF PsIInv, PsTaken
    <3> QED BY <3>2, <3>3
  <2>2. ASSUME NEW i \in 1 .. Len(ps_stack), ps_stack[i].for = "paren"
        PROVE  ps_stack[i].at \in 1 .. (Ps!here' - 1) /\ ps_toks'[ps_stack[i].at] = "("
    <3>1. ps_stack[i].at \in 1 .. (Ps!here - 1) /\ ps_toks[ps_stack[i].at] = "("
      BY <2>2 DEF PsIInv, PsTaken
    <3>2. ps_stack[i].at \in 1 .. Ps!here /\ ps_stack[i].at \in 1 .. (Ps!here' - 1)
      BY <3>1, <1>1, <1>2
    <3> QED BY <3>1, <3>2, <1>1
  <2> QED BY <2>1, <2>2, <1>0 DEF PsTaken
<1>10. PsExpression'
  <2>1. ps_span'.from = ps_span.from /\ ps_span'.to = Ps!here /\ ps_span'.target = FALSE /\ Ps!top' = Ps!top
    BY <1>0 DEF Ps!Span, Ps!top
  <2>2. ASSUME NEW m \in ps_nodes'
        PROVE  /\ m.from < ps_span'.from => m.to < ps_span'.from
               /\ m.to = ps_span'.to => PsRight(Ps!top'.for, m)
               /\ m.from = ps_span'.from => PsRank(m.kind) = 15
    <3>1. CASE m \in ps_nodes
      <4>1. ~ (m.to = ps_span'.to)
        BY <3>1, <2>1, <1>2, <1>a
      <4> QED BY <3>1, <4>1, <2>1, <1>a
    <3>2. CASE m = n
      <4>1. PsRight(Ps!top.for, n)
        BY <1>5, PsRankIs DEF PsRight
      <4>2. ~ (n.from < ps_span.from)
        BY <1>4, <1>5
      <4> QED BY <3>2, <4>1, <4>2, <2>1, <1>5
    <3> QED BY <2>2, <3>1, <3>2, <1>0
  <2>3. Ps!top.at < ps_span.from /\ ps_span.from <= Ps!here /\ Ps!here = Ps!here' - 1
    BY <1>1, <1>2, <1>4
  <2>4. PsSpan(Ps!top)'
    BY <2>1, <2>2, <2>3, <1>0 DEF PsSpan
  <2> QED BY <2>1, <2>4, <1>0, <1>3 DEF PsExpression
<1> QED BY <1>6, <1>7, <1>8, <1>9, <1>10 DEF PsIInv

\* What leaves the tree and the stack as they are.
LEMMA PsStays ==
  ASSUME PsIInv, ps_toks' = ps_toks, ps_stack' = ps_stack, ps_span' = ps_span, ps_nodes' = ps_nodes,
         \/ ps_mode' = "error"
         \/ ps_mode' = "operator" /\ ps_mode = "postfix" /\ Ps!look \notin {"(", "[", "++"}
         \/ ps_mode' = "done" /\ ps_mode = "operator" /\ ~ Ps!TakesLook /\ Ps!top.for = "statement"
  PROVE  PsIInv'
<1>1. Ps!here' = Ps!here /\ Ps!look' = Ps!look /\ Ps!top' = Ps!top
  BY DEF Ps!here, Ps!look, Ps!top
<1>2. PsTypes' /\ PsStack' /\ PsTree' /\ PsTaken'
  BY <1>1 DEF PsIInv, PsTypes, PsStack, PsTree, PsTaken
<1>3. CASE ps_mode' = "error"
  BY <1>2, <1>3 DEF PsIInv, PsExpression
<1>4. CASE ps_mode' = "operator" /\ ps_mode = "postfix" /\ Ps!look \notin {"(", "[", "++"}
  <2>1. PsSpan(Ps!top) /\ (Len(ps_stack) = 1 => ps_span.from = 1)
    BY <1>4 DEF PsIInv, PsExpression
  <2>2. PsSpan(Ps!top)'
    <3>1. Ps!look \in Ps!Binary => PsRank(Ps!look) <= 15
      BY PsRankIs
    <3>2. \A m \in ps_nodes : m.from = ps_span.from => PsRank(m.kind) = 15
      BY <2>1, <1>4 DEF PsSpan
    <3>3. Ps!look \in Ps!Binary => PsRank(Ps!look) \in 1 .. 15
      BY PsRankIs
    <3> QED BY <2>1, <3>2, <3>3, <1>1, <1>4 DEF PsSpan
  <2> QED BY <2>1, <2>2, <1>1, <1>2, <1>4 DEF PsIInv, PsExpression
<1>5. CASE ps_mode' = "done" /\ ps_mode = "operator" /\ ~ Ps!TakesLook /\ Ps!top.for = "statement"
  <2>1. PsSpan(Ps!top) /\ (Len(ps_stack) = 1 => ps_span.from = 1) /\ Ps!look \notin {"(", "[", "++"}
    BY <1>5 DEF PsIInv, PsExpression
  <2>2. PsSpan(Ps!top)'
    BY <2>1, <1>1, <1>5 DEF PsSpan
  <2>3. Len(ps_stack) = 1
    BY <1>5, PsTop
  <2>4. Ps!look \notin Ps!Binary \cup {"?", "="}
    <3>1. Ps!TakesAssign(Ps!top.for) /\ Ps!Bound = 0
      BY <1>5 DEF Ps!TakesAssign, Ps!Bound, Ps!Level, Ps!Binary
    <3>2. Ps!look \in Ps!Binary => Ps!Level(Ps!look) > 0
      BY PsRankIs
    <3> QED BY <3>1, <3>2, <1>5 DEF Ps!TakesLook
  <2> QED BY <2>1, <2>2, <2>3, <2>4, <1>1, <1>2, <1>5 DEF PsIInv, PsExpression
<1> QED BY <1>3, <1>4, <1>5

LEMMA PsStep == ASSUME PsIInv, [Ps!Next]_(Ps!vars) PROVE PsIInv'
<1>1. CASE Ps!Name
  BY <1>1, PsName
<1>2. CASE Ps!Prefix \/ Ps!Open
  BY <1>2, PsPrefix
<1>3. CASE Ps!CloseEmpty
  <2>1. Ps!top.for \in {"array", "call", "slice"} /\ Ps!look \in {"]", ")"}
    BY <1>3 DEF Ps!CloseEmpty, Ps!Empty
  <2>2. Ps!look # "eof" /\ Ps!look \notin PsOperators
    BY <2>1 DEF PsOperators, Ps!Binary, Ps!Prefixes
  <2>3. Len(ps_stack) >= 2
    BY <2>1, PsTop
  <2>4. /\ Ps!Advance /\ ps_stack' = Ps!outer /\ ps_mode' = "postfix"
        /\ ps_span' = Ps!Span(Ps!top.from, Ps!here, FALSE)
        /\ ps_nodes' = ps_nodes \cup {Ps!Node(Ps!top.for, Ps!top.from, Ps!top.at, Ps!here)}
    BY <1>3 DEF Ps!CloseEmpty, Ps!Complete
  <2> QED BY <2>1, <2>2, <2>3, <2>4, PsCloses
<1>4. CASE Ps!SliceFromStart \/ Ps!Between
  BY <1>4, PsBetween
<1>5. CASE Ps!PostfixOpen
  BY <1>5, PsPostfixOpen
<1>6. CASE Ps!PostfixIncrement
  <2>1. CASE ps_span.target
    BY <2>1, <1>6, PsIncrement
  <2>2. CASE ~ ps_span.target
    BY <2>2, <1>6, PsStays DEF Ps!PostfixIncrement, Ps!Fail
  <2> QED BY <2>1, <2>2
<1>7. CASE Ps!EndPostfix \/ Ps!NoOperand \/ Ps!Unclosed \/ Ps!End
  BY <1>7, PsStays DEF Ps!EndPostfix, Ps!NoOperand, Ps!Unclosed, Ps!End, Ps!Fail
<1>8. CASE Ps!Operator
  BY <1>8, PsOperator
<1>9. CASE Ps!Reduce
  <2>1. CASE (Ps!top.for = "++" /\ ~ ps_span.target) \/ (Ps!top.for = "=" /\ ~ Ps!top.target)
    BY <2>1, <1>9, PsStays DEF Ps!Reduce, Ps!Fail
  <2>2. CASE ~ ((Ps!top.for = "++" /\ ~ ps_span.target) \/ (Ps!top.for = "=" /\ ~ Ps!top.target))
    BY <2>2, <1>9, PsReduces DEF Ps!Reduce, Ps!Complete
  <2> QED BY <2>1, <2>2
<1>10. CASE Ps!Close
  <2>1. Ps!top.for \in {"paren", "array", "call", "index", "slice"} /\ Ps!look \in {"]", ")"}
    BY <1>10 DEF Ps!Close, Ps!Closers
  <2>2. Ps!look # "eof" /\ Ps!look \notin PsOperators
    BY <2>1 DEF PsOperators, Ps!Binary, Ps!Prefixes
  <2>3. Len(ps_stack) >= 2
    BY <2>1, PsTop
  <2> DEFINE t == IF Ps!top.for = "paren" THEN ps_span.target ELSE Ps!top.for = "index"
  <2>4. t \in BOOLEAN /\ (t => Ps!top.for \in {"paren", "index"})
    BY DEF PsIInv, PsTypes, PsSpans
  <2>5. /\ Ps!Advance /\ ps_stack' = Ps!outer /\ ps_mode' = "postfix"
        /\ ps_span' = Ps!Span(Ps!top.from, Ps!here, t)
        /\ ps_nodes' = IF Ps!top.for = "paren" THEN ps_nodes
                    ELSE ps_nodes \cup {Ps!Node(Ps!top.for, Ps!top.from, Ps!top.at, Ps!here)}
    BY <1>10 DEF Ps!Close, Ps!Complete
  <2> HIDE DEF t
  <2> QED BY <2>1, <2>2, <2>3, <2>4, <2>5, PsCloses
<1>11. CASE UNCHANGED Ps!vars
  BY <1>11 DEF Ps!vars, PsIInv, PsTypes, PsStack, PsTree, PsTaken, PsExpression, PsSpan,
     Ps!here, Ps!look, Ps!top
<1> QED BY <1>1, <1>2, <1>3, <1>4, <1>5, <1>6, <1>7, <1>8, <1>9, <1>10, <1>11 DEF Ps!Next

-----------------------------------------------------------------------------
\* A parsed expression is grouped by the table.
LEMMA PsGroups == PsIInv => Ps!GroupedByTable
<1> SUFFICES ASSUME PsIInv, NEW n \in ps_nodes, NEW m \in ps_nodes
    PROVE /\ m \in Ps!AtLeft(n) =>
               IF n.kind = "else" THEN Ps!Row(m) > Ps!Row(n)
               ELSE IF n.kind = "=" THEN Ps!Row(m) = 15 /\ (m.to = n.at - 1 => m.kind = "index")
               ELSE Ps!Row(m) >= Ps!Row(n)
          /\ m \in Ps!AtRight(n) =>
               IF n.kind \in Ps!Binary THEN Ps!Row(m) > Ps!Row(n) ELSE Ps!Row(m) >= Ps!Row(n)
  BY DEF Ps!GroupedByTable, Ps!AtLeft, Ps!AtRight
<1>1. n.kind \in PsKinds /\ m.kind \in PsKinds /\ PsPair(n, m)
  BY DEF PsIInv, PsTypes, PsTree, PsNodes
<1>2. Ps!Row(n) = PsRank(n.kind) /\ Ps!Row(m) = PsRank(m.kind)
  BY <1>1, PsRow
<1>3. PsGrouped(n, m)
  BY <1>1 DEF PsPair
<1>4. m \in Ps!AtLeft(n) =>
        /\ n.kind \notin {"prefix", "++", "array"}
        /\ m.from = n.from /\ m.to < n.at
  <2> SUFFICES ASSUME m.from = n.from, m.to < n.at, n.kind \in {"prefix", "++", "array"} PROVE FALSE
    BY DEF Ps!AtLeft
  <2>1. PsNode(n, Ps!here) /\ PsNode(m, Ps!here) /\ m \in PsNodes /\ n \in PsNodes
    BY DEF PsIInv, PsTypes, PsTree
  <2>2. n.from = n.at /\ m.from <= m.to /\ m.from \in Nat /\ m.to \in Nat /\ m.at \in Nat /\ n.at \in Nat
    BY <2>1 DEF PsNode, PsNodes
  <2> QED BY <2>2
<1>5. m \in Ps!AtLeft(n) =>
        IF n.kind = "else" THEN Ps!Row(m) > Ps!Row(n)
        ELSE IF n.kind = "=" THEN Ps!Row(m) = 15 /\ (m.to = n.at - 1 => m.kind = "index")
        ELSE Ps!Row(m) >= Ps!Row(n)
  <2> SUFFICES ASSUME m \in Ps!AtLeft(n)
               PROVE  IF n.kind = "else" THEN Ps!Row(m) > Ps!Row(n)
                      ELSE IF n.kind = "=" THEN Ps!Row(m) = 15 /\ (m.to = n.at - 1 => m.kind = "index")
                      ELSE Ps!Row(m) >= Ps!Row(n)
    OBVIOUS
  <2>1. /\ n.kind \in Ps!Binary => PsRank(m.kind) >= PsRank(n.kind)
        /\ n.kind = "else" => PsRank(m.kind) > 2
        /\ n.kind = "=" => PsRank(m.kind) = 15 /\ (m.to = n.at - 1 => m.kind = "index")
        /\ n.kind \in {"call", "index", "slice", "x++"} => PsRank(m.kind) = 15
    BY <1>3, <1>4 DEF PsGrouped
  <2>2. n.kind \in Ps!Binary \/ n.kind = "else" \/ n.kind = "=" \/ n.kind \in {"call", "index", "slice", "x++"}
    BY <1>1, <1>4 DEF PsKinds
  <2>3. "else" \notin Ps!Binary /\ "=" \notin Ps!Binary
    BY DEF Ps!Binary
  <2> QED BY <2>1, <2>2, <2>3, <1>2, PsRankIs
<1>6. m \in Ps!AtRight(n) => IF n.kind \in Ps!Binary THEN Ps!Row(m) > Ps!Row(n) ELSE Ps!Row(m) >= Ps!Row(n)
  BY <1>2, <1>3 DEF PsGrouped, Ps!AtRight
<1> QED BY <1>5, <1>6

\* A parsed expression has every operator, and ends where its statement cannot go on.
LEMMA PsComplete == PsIInv => Ps!NothingLeftOut
<1> SUFFICES ASSUME PsIInv, ps_mode = "done" PROVE Ps!NothingLeftOut
  BY DEF Ps!NothingLeftOut
<1>1. /\ PsSpan(Ps!top) /\ Len(ps_stack) = 1 /\ ps_span.from = 1
      /\ Ps!look \notin Ps!Binary \cup {"?", "=", "(", "[", "++"}
  BY DEF PsIInv, PsExpression
<1>2. ps_span.from = 1 /\ ps_span.to = Ps!here - 1
  BY <1>1 DEF PsSpan
<1>3. ASSUME NEW p \in 1 .. ps_span.to, ps_toks[p] \in PsOperators
      PROVE  \E n \in ps_nodes : n.at = p /\ \A m \in ps_nodes : m.at = p => m = n
  <2>1. p \in 1 .. (Ps!here - 1)
    BY <1>2
  <2>2. ~ \E i \in 1 .. Len(ps_stack) : ps_stack[i].at = p
    <3>1. \A i \in 1 .. Len(ps_stack) : i = 1
      BY <1>1
    <3>2. ps_stack[1].at = 0 /\ p # 0
      BY <2>1 DEF PsIInv, PsStack, Ps!Statement, Ps!Waiting
    <3> QED BY <3>1, <3>2
  <2>3. PICK n \in ps_nodes : n.at = p
    BY <2>1, <2>2, <1>3 DEF PsIInv, PsTaken
  <2>4. \A m \in ps_nodes : m.at = n.at => m = n
    BY DEF PsIInv, PsTree, PsPair
  <2> QED BY <2>3, <2>4
<1>4. \A m, n \in ps_nodes : m.from < n.from /\ n.from <= m.to => n.to <= m.to
  BY DEF PsIInv, PsTree, PsPair
<1> QED BY <1>1, <1>2, <1>3, <1>4 DEF Ps!NothingLeftOut, PsOperators

LEMMA PsTypeOK == PsIInv => Ps!TypeOK
<1> SUFFICES ASSUME PsIInv PROVE Ps!TypeOK
  OBVIOUS
<1>1. MaxTokens \in Nat
  BY PsLimits
<1>2. /\ Ps!here \in Nat /\ Ps!here >= 1 /\ Len(ps_stack) \in Nat
      /\ \A i \in 1 .. Len(ps_stack) : ps_stack[i] \in PsFrames /\ ps_stack[i].at < Ps!here
      /\ \A m \in ps_nodes : m \in PsNodes /\ PsNode(m, Ps!here)
  BY PsTop DEF Ps!here
<1>3. Ps!here \in 1 .. (MaxTokens + 1) /\ ps_toks \in Seq(TokenKinds \cup {"eof"})
  BY <1>1, <1>2 DEF PsIInv, PsTypes
<1>4. ASSUME NEW i \in 1 .. Len(ps_stack) PROVE ps_stack[i].from \in 1 .. Ps!here /\ ps_stack[i].at \in 0 .. Ps!here
  <2>1. ps_stack[i].from \in Nat /\ ps_stack[i].at \in Nat /\ ps_stack[i].at < Ps!here
    BY <1>2 DEF PsFrames
  <2>2. CASE i = 1
    BY <2>1, <2>2, <1>2 DEF PsIInv, PsStack, Ps!Statement, Ps!Waiting
  <2>3. CASE i # 1
    <3>1. ps_stack[i].from <= ps_stack[i].at
      BY <2>3, <1>2 DEF PsIInv, PsStack, PsFrame
    <3>2. ps_stack[1].at < ps_stack[i].from /\ ps_stack[1].at = 0
      BY <2>3, <1>2 DEF PsIInv, PsStack, Ps!Statement, Ps!Waiting
    <3> QED BY <3>1, <3>2, <2>1, <1>2
  <2> QED BY <2>2, <2>3
<1>5. \A n \in ps_nodes : n.from <= n.at /\ n.at <= n.to /\ n.to <= Ps!here
  BY <1>2 DEF PsNode, PsNodes
<1> QED BY <1>3, <1>4, <1>5 DEF Ps!TypeOK, PsIInv, PsTypes

LEMMA PsHolds == Spec => []PsIInv
<1>1. Init => PsIInv
  BY PsInit DEF Init
<1>2. PsIInv /\ [Next]_vars => PsIInv'
  <2>1. [Next]_vars => [Ps!Next]_(Ps!vars)
    BY Zenon DEF Next, vars, ps, Ps!vars
  <2> QED BY <2>1, PsStep
<1> QED BY <1>1, <1>2, PTL DEF Spec

-----------------------------------------------------------------------------
(* The compiler's scopes: a behaviour of the library is one of Scopes, so what   *)
(* Scopes_proofs proves holds here.                                              *)

LEMMA ScopesSpec == Spec => SP!Spec
<1>1. Init => SP!Init
  BY Zenon DEF Init, Sc!Init, SP!Init, Sc!Compiler, SP!Compiler
<1>2. \A x : Sc!Declare(x) => SP!Declare(x)
  BY Zenon DEF Sc!Declare, SP!Declare, Sc!Ended, SP!Ended, Sc!scopes, SP!scopes, Sc!Now,
     SP!Now, Sc!Last, SP!Last, Sc!Front, SP!Front, Sc!WithLast, SP!WithLast, Sc!Become,
     SP!Become, Sc!declare_local, SP!declare_local, Sc!Put, SP!Put
<1>3. \A x : Sc!LookUp(x) => SP!LookUp(x)
  BY Zenon DEF Sc!LookUp, SP!LookUp, Sc!Ended, SP!Ended, Sc!scopes, SP!scopes, Sc!Now,
     SP!Now, Sc!Last, SP!Last, Sc!Front, SP!Front, Sc!WithLast, SP!WithLast, Sc!Become,
     SP!Become, Sc!FunctionScopes, SP!FunctionScopes, Sc!cur_func_idx, SP!cur_func_idx,
     Sc!Declaring, SP!Declaring, Sc!SlotIn, SP!SlotIn, Sc!resolve_local,
     SP!resolve_local, Sc!Captures, SP!Captures, Sc!CaptureOf, SP!CaptureOf, Sc!decl_idx,
     SP!decl_idx, Sc!Between, SP!Between, Sc!FreeVarEntry, SP!FreeVarEntry, Sc!Capturing,
     SP!Capturing, Sc!Reference, SP!Reference, Sc!LookedUp, SP!LookedUp, Sc!ResolveLocal,
     SP!ResolveLocal, Sc!ResolveCaptured, SP!ResolveCaptured, Sc!ResolveFree,
     SP!ResolveFree, Sc!ResolveGlobal, SP!ResolveGlobal, Sc!Cardinality, SP!Cardinality,
     Sc!Max, SP!Max, Sc!Min, SP!Min
<1>4. Sc!OpenBlock => SP!OpenBlock
  BY Zenon DEF Sc!OpenBlock, SP!OpenBlock, Sc!Ended, SP!Ended, Sc!scopes, SP!scopes,
     Sc!Now, SP!Now, Sc!Last, SP!Last, Sc!Front, SP!Front, Sc!WithLast, SP!WithLast,
     Sc!Become, SP!Become, Sc!Scope, SP!Scope, Sc!Nothing, SP!Nothing
<1>5. Sc!CloseBlock => SP!CloseBlock
  BY Zenon DEF Sc!CloseBlock, SP!CloseBlock, Sc!scopes, SP!scopes, Sc!Now, SP!Now,
     Sc!Last, SP!Last, Sc!Front, SP!Front, Sc!WithLast, SP!WithLast, Sc!Become,
     SP!Become, Sc!pop_scope, SP!pop_scope
<1>6. Sc!OpenFunction => SP!OpenFunction
  BY Zenon DEF Sc!OpenFunction, SP!OpenFunction, Sc!Ended, SP!Ended, Sc!scopes,
     SP!scopes, Sc!Now, SP!Now, Sc!Last, SP!Last, Sc!Compiler, SP!Compiler, Sc!Scope,
     SP!Scope, Sc!Nothing, SP!Nothing
<1>7. Sc!CloseFunction => SP!CloseFunction
  BY Zenon DEF Sc!CloseFunction, SP!CloseFunction, Sc!scopes, SP!scopes, Sc!Now, SP!Now,
     Sc!Last, SP!Last, Sc!Front, SP!Front, Sc!WithLast, SP!WithLast, Sc!CarriedBack,
     SP!CarriedBack, Sc!Merged, SP!Merged
<1>8. [Next]_vars => Sc!Next \/ UNCHANGED sc
  BY Zenon DEF Next, vars
<1>9. Sc!Next => SP!Next
  BY <1>2, <1>3, <1>4, <1>5, <1>6, <1>7, Zenon DEF Sc!Next, SP!Next
<1>10. UNCHANGED sc => UNCHANGED SP!vars
  BY DEF sc, SP!vars
<1>11. [Next]_vars => [SP!Next]_(SP!vars)
  BY <1>8, <1>9, <1>10, Zenon
<1> QED BY <1>1, <1>11, PTL DEF Spec, SP!Spec

-----------------------------------------------------------------------------
(* Big integers: the same for BigInt_proofs.  What a recursive function is, is  *)
(* the same on both sides because what it chooses among is.                     *)

LEMMA BiSmallSame == \A a, k : Bi!mul_small(a, k) = BP!mul_small(a, k)
BY Zenon DEF Bi!mul_small, BP!mul_small, Bi!SmallCarries, BP!SmallCarries

LEMMA BiLessSame == \A a, b : Bi!LessThan(a, b) <=> BP!LessThan(a, b)
BY Zenon DEF Bi!LessThan, BP!LessThan

LEMMA BiTrimSame == \A a : Bi!Trimmed(a) = BP!Trimmed(a)
BY Zenon DEF Bi!Trimmed, BP!Trimmed

LEMMA BiSubSame == \A a, b : Bi!sub_unsigned(a, b) = BP!sub_unsigned(a, b)
BY Zenon DEF Bi!sub_unsigned, BP!sub_unsigned, Bi!Borrowed, BP!Borrowed, Bi!Borrows,
   BP!Borrows, Bi!Limb, BP!Limb

LEMMA BiHalvedSame == \A b, s, r : Bi!Halved(b, s, r) = BP!Halved(b, s, r)
BY BiSmallSame, BiLessSame DEF Bi!Halved, BP!Halved

LEMMA BiSearchSame == \A b, s : Bi!Search(b, s) = BP!Search(b, s)
<1> SUFFICES ASSUME NEW b, NEW s PROVE Bi!Search(b, s) = BP!Search(b, s)
  OBVIOUS
<1> DEFINE P(g) == g = [k \in 0 .. LimbBase |->
             IF k = 0 THEN [lo |-> 1, hi |-> LimbBase - 1] ELSE Bi!Halved(b, s, g[k - 1])]
           Q(g) == g = [k \in 0 .. LimbBase |->
             IF k = 0 THEN [lo |-> 1, hi |-> LimbBase - 1] ELSE BP!Halved(b, s, g[k - 1])]
<1>1. \A g : P(g) <=> Q(g)
  <2> SUFFICES ASSUME NEW g PROVE P(g) <=> Q(g)
    OBVIOUS
  <2>1. \A k : Bi!Halved(b, s, g[k - 1]) = BP!Halved(b, s, g[k - 1])
    BY BiHalvedSame, Zenon
  <2> QED BY <2>1
<1>2. Bi!Search(b, s) = CHOOSE g : P(g)
  BY Zenon DEF Bi!Search
<1>3. BP!Search(b, s) = CHOOSE g : Q(g)
  BY Zenon DEF BP!Search
<1> HIDE DEF P, Q
<1> QED BY <1>1, <1>2, <1>3, Zenon

LEMMA BiDivideSame == \A qr, b, limb : Bi!DivideLimb(qr, b, limb) = BP!DivideLimb(qr, b, limb)
<1>1. \A b, s : Bi!QuotientLimb(b, s) = BP!QuotientLimb(b, s)
  BY BiSearchSame, BiLessSame DEF Bi!QuotientLimb, BP!QuotientLimb
<1>2. \A qr, b, limb : Bi!BringDown(qr, b, limb) = BP!BringDown(qr, b, limb)
  BY <1>1, BiTrimSame, BiSubSame, BiSmallSame DEF Bi!BringDown, BP!BringDown
<1>3. \A qr, d, limb : Bi!BringDownSmall(qr, d, limb) = BP!BringDownSmall(qr, d, limb)
  BY Zenon DEF Bi!BringDownSmall, BP!BringDownSmall, Bi!Limb, BP!Limb
<1> QED BY <1>2, <1>3, Zenon DEF Bi!DivideLimb, BP!DivideLimb

LEMMA BiLongSame == \A a, b : Bi!LongDivision(a, b) = BP!LongDivision(a, b)
<1> SUFFICES ASSUME NEW a, NEW b PROVE Bi!LongDivision(a, b) = BP!LongDivision(a, b)
  OBVIOUS
<1> DEFINE P(g) == g = [k \in 0 .. Len(a) |->
             IF k = 0 THEN [quotient |-> <<>>, remainder |-> <<>>]
             ELSE Bi!DivideLimb(g[k - 1], b, a[Len(a) - k + 1])]
           Q(g) == g = [k \in 0 .. Len(a) |->
             IF k = 0 THEN [quotient |-> <<>>, remainder |-> <<>>]
             ELSE BP!DivideLimb(g[k - 1], b, a[Len(a) - k + 1])]
<1>1. \A g : P(g) <=> Q(g)
  <2> SUFFICES ASSUME NEW g PROVE P(g) <=> Q(g)
    OBVIOUS
  <2>1. \A k : Bi!DivideLimb(g[k - 1], b, a[Len(a) - k + 1])
               = BP!DivideLimb(g[k - 1], b, a[Len(a) - k + 1])
    BY BiDivideSame, Zenon
  <2> QED BY <2>1
<1>2. Bi!LongDivision(a, b) = CHOOSE g : P(g)
  BY Zenon DEF Bi!LongDivision
<1>3. BP!LongDivision(a, b) = CHOOSE g : Q(g)
  BY Zenon DEF BP!LongDivision
<1> HIDE DEF P, Q
<1> QED BY <1>1, <1>2, <1>3, Zenon

\* What is computed, and the integers it stands for.
LEMMA BiSame ==
  /\ \A n : Bi!normalize(n) = BP!normalize(n) /\ Bi!negate(n) = BP!negate(n)
  /\ \A m, n : /\ Bi!Sum(m, n) = BP!Sum(m, n) /\ Bi!Product(m, n) = BP!Product(m, n)
               /\ Bi!Quotient(m, n) = BP!Quotient(m, n)
               /\ Bi!Remainder(m, n) = BP!Remainder(m, n)
  /\ \A n : Bi!ValueOf(n) = BP!ValueOf(n) /\ Bi!to_i64(n) = BP!to_i64(n)
  /\ \A i, j : Bi!DivTrunc(i, j) = BP!DivTrunc(i, j)
  /\ Bi!Operands = BP!Operands /\ Bi!BigZero = BP!BigZero
<1>1. \A n : Bi!normalize(n) = BP!normalize(n)
  BY Zenon DEF Bi!normalize, BP!normalize, Bi!Trimmed, BP!Trimmed
<1>2. Bi!BigZero = BP!BigZero
  BY Zenon DEF Bi!BigZero, BP!BigZero
<1>3. \A n : Bi!negate(n) = BP!negate(n)
  BY Zenon DEF Bi!negate, BP!negate, Bi!BigZero, BP!BigZero
<1>4. \A a, b : Bi!add_unsigned(a, b) = BP!add_unsigned(a, b)
  BY Zenon DEF Bi!add_unsigned, BP!add_unsigned, Bi!Carries, BP!Carries, Bi!LongerOf,
     BP!LongerOf, Bi!Limb, BP!Limb
<1>5. \A m, n : Bi!Sum(m, n) = BP!Sum(m, n)
  BY <1>1, <1>2, <1>4, BiLessSame, BiSubSame DEF Bi!Sum, BP!Sum
<1>6. \A a, b : Bi!Rows(a, b) = BP!Rows(a, b)
  BY Zenon DEF Bi!Rows, BP!Rows, Bi!AddRow, BP!AddRow, Bi!RowCarries, BP!RowCarries,
     Bi!Limb, BP!Limb
<1>7. \A m, n : Bi!Product(m, n) = BP!Product(m, n)
  BY <1>1, <1>2, <1>6 DEF Bi!Product, BP!Product
<1>8. \A a, b : Bi!divmod_unsigned(a, b) = BP!divmod_unsigned(a, b)
  BY BiLongSame, BiLessSame DEF Bi!divmod_unsigned, BP!divmod_unsigned
<1>9. \A m, n : /\ Bi!Quotient(m, n) = BP!Quotient(m, n)
                /\ Bi!Remainder(m, n) = BP!Remainder(m, n)
  BY <1>1, <1>8 DEF Bi!Quotient, BP!Quotient, Bi!Remainder, BP!Remainder
<1>10. \A n : Bi!ValueOf(n) = BP!ValueOf(n)
  BY Zenon DEF Bi!ValueOf, BP!ValueOf, Bi!Magnitude, BP!Magnitude, Bi!Highest, BP!Highest
<1>11. \A n : Bi!to_i64(n) = BP!to_i64(n)
  BY Zenon DEF Bi!to_i64, BP!to_i64, Bi!Limb, BP!Limb, Bi!Half, BP!Half
<1>12. \A i, j : Bi!DivTrunc(i, j) = BP!DivTrunc(i, j)
  BY Zenon DEF Bi!DivTrunc, BP!DivTrunc, Bi!Abs, BP!Abs
<1>13. Bi!Operands = BP!Operands
  BY Zenon DEF Bi!Operands, BP!Operands, Bi!Normal, BP!Normal, Bi!normalize, BP!normalize,
     Bi!Trimmed, BP!Trimmed
<1> QED BY <1>1, <1>2, <1>3, <1>5, <1>7, <1>9, <1>10, <1>11, <1>12, <1>13, Zenon

LEMMA BiAssumptions == BP!Assumptions
BY BoundsAreCounts, BaseHasTwoDigits DEF BP!Assumptions

LEMMA BigIntSpec == Spec => BP!Spec
<1>1. Init => BP!Init
  BY Zenon DEF Init, Bi!Init, BP!Init, Bi!BigZero, BP!BigZero
<1>2. \A n, i : Bi!Becomes(n, i) <=> BP!Becomes(n, i)
  BY Zenon DEF Bi!Becomes, BP!Becomes, Bi!Abs, BP!Abs
<1>3. Bi!Next => BP!Next
  <2> SUFFICES ASSUME Bi!Next PROVE BP!Next
    OBVIOUS
  <2>1. PICK y \in Bi!Operands :
          \/ Bi!Becomes(Bi!Sum(bi_x, y), bi_v + Bi!ValueOf(y))
          \/ Bi!Becomes(Bi!Sum(bi_x, Bi!negate(y)), bi_v - Bi!ValueOf(y))
          \/ Bi!Becomes(Bi!Product(bi_x, y), bi_v * Bi!ValueOf(y))
          \/ y # Bi!BigZero /\ Bi!Becomes(Bi!Quotient(bi_x, y), Bi!DivTrunc(bi_v, Bi!ValueOf(y)))
          \/ y # Bi!BigZero /\ Bi!Becomes(Bi!Remainder(bi_x, y),
               bi_v - Bi!ValueOf(y) * Bi!DivTrunc(bi_v, Bi!ValueOf(y)))
    BY Zenon DEF Bi!Next
  <2>2. y \in BP!Operands
    BY BiSame, Zenon
  <2>3. /\ Bi!ValueOf(y) = BP!ValueOf(y) /\ Bi!negate(y) = BP!negate(y)
        /\ Bi!Sum(bi_x, y) = BP!Sum(bi_x, y)
        /\ Bi!Sum(bi_x, Bi!negate(y)) = BP!Sum(bi_x, BP!negate(y))
        /\ Bi!Product(bi_x, y) = BP!Product(bi_x, y)
        /\ Bi!Quotient(bi_x, y) = BP!Quotient(bi_x, y)
        /\ Bi!Remainder(bi_x, y) = BP!Remainder(bi_x, y)
        /\ Bi!DivTrunc(bi_v, Bi!ValueOf(y)) = BP!DivTrunc(bi_v, BP!ValueOf(y))
        /\ Bi!BigZero = BP!BigZero
    BY BiSame, Zenon
  <2>4. \/ BP!Becomes(BP!Sum(bi_x, y), bi_v + BP!ValueOf(y))
        \/ BP!Becomes(BP!Sum(bi_x, BP!negate(y)), bi_v - BP!ValueOf(y))
        \/ BP!Becomes(BP!Product(bi_x, y), bi_v * BP!ValueOf(y))
        \/ y # BP!BigZero /\ BP!Becomes(BP!Quotient(bi_x, y), BP!DivTrunc(bi_v, BP!ValueOf(y)))
        \/ y # BP!BigZero /\ BP!Becomes(BP!Remainder(bi_x, y),
             bi_v - BP!ValueOf(y) * BP!DivTrunc(bi_v, BP!ValueOf(y)))
    BY <1>2, <2>1, <2>3, Zenon
  <2> QED BY <2>2, <2>4, Zenon DEF BP!Next
<1>4. [Next]_vars => Bi!Next \/ UNCHANGED bi
  BY Zenon DEF Next, vars
<1>5. UNCHANGED bi => UNCHANGED BP!vars
  BY DEF bi, BP!vars
<1>6. [Next]_vars => [BP!Next]_(BP!vars)
  BY <1>3, <1>4, <1>5, Zenon
<1> QED BY <1>1, <1>6, PTL DEF Spec, BP!Spec

-----------------------------------------------------------------------------
(* What is computed is right.                                                     *)

\* A name reads and writes the variable it stands for by the language's rules, through
\* any nesting of functions and blocks, unless a function had captured it before one
\* inside it did; variables do not share a slot.
THEOREM NamesAreAlwaysFound == Spec => []NamesAreFound
<1>1. SP!RightUnlessRepeated => Sc!RightUnlessRepeated
  BY Zenon DEF Sc!RightUnlessRepeated, SP!RightUnlessRepeated, Sc!NamesAreRight,
     SP!NamesAreRight, Sc!Ended, SP!Ended, Sc!scopes, SP!scopes, Sc!Now, SP!Now, Sc!Last,
     SP!Last, Sc!Found, SP!Found, Sc!Captured, SP!Captured, Sc!Missing, SP!Missing
<1>2. SP!SlotsAreOwn => Sc!SlotsAreOwn
  BY Zenon DEF SP!SlotsAreOwn, Sc!SlotsAreOwn
<1>3. SP!Assumptions
  BY BoundsAreCounts DEF SP!Assumptions
<1>4. SP!Spec => [](SP!RightUnlessRepeated /\ SP!SlotsAreOwn)
  BY <1>3, SP!NamesAreFound
<1> QED BY <1>1, <1>2, <1>4, ScopesSpec, PTL DEF NamesAreFound

\* Dates follow the calendar's rules in both directions, month by month from any epoch,
\* and a shift by months is ordered, and undone where the day was not cut short.
THEOREM DatesFollowTheCalendar == Spec => [](Ca!DatesAreRight /\ Ca!ShiftsAreOrdered)
<1>1. CaIInv => Ca!DatesAreRight /\ Ca!ShiftsAreOrdered
  BY CaDatesAreRight, CaShiftsAreOrdered, Zenon
<1> QED BY <1>1, CaHolds, PTL

\* An expression that parses is grouped by the language's table of operators, and every
\* operator of it made one node; it ends only where its statement cannot go on.
THEOREM ExpressionsAreGroupedByTable == Spec => [](Ps!GroupedByTable /\ Ps!NothingLeftOut)
<1>1. PsIInv => Ps!GroupedByTable /\ Ps!NothingLeftOut
  BY PsGroups, PsComplete, Zenon
<1> QED BY <1>1, PsHolds, PTL

\* Big integers stand for the integers they have to be, in their one normal form; dates
\* follow the calendar's rules in both directions, month by month from any epoch, and a
\* shift by months is ordered, and undone where the day was not cut short; an expression
\* that parses is grouped by the language's table of operators, every operator of it made
\* one node, and it ends only where its statement cannot go on.
THEOREM WhatIsComputedIsRight == Spec => []AlgorithmsAgree
<1>1. BP!Exact => Bi!Exact
  <2>1. Bi!ValueOf(bi_x) = BP!ValueOf(bi_x) /\ Bi!to_i64(bi_x) = BP!to_i64(bi_x)
    BY BiSame, Zenon
  <2>2. BP!Normal(bi_x) => Bi!Normal(bi_x)
    BY Zenon DEF Bi!Normal, BP!Normal, Bi!normalize, BP!normalize, Bi!Trimmed, BP!Trimmed
  <2> QED BY <2>1, <2>2, Zenon DEF Bi!Exact, BP!Exact, Bi!Half, BP!Half
<1>2. BP!Spec => []BP!Exact
  BY BiAssumptions, BP!AlwaysExact
<1>3. /\ BP!Exact
      /\ Ca!DatesAreRight /\ Ca!ShiftsAreOrdered
      /\ Ps!GroupedByTable /\ Ps!NothingLeftOut
      => AlgorithmsAgree
  BY <1>1, Zenon DEF AlgorithmsAgree
<1> QED BY <1>2, <1>3, BigIntSpec, DatesFollowTheCalendar, ExpressionsAreGroupedByTable, PTL

\* Every part's state keeps to its type.
THEOREM TypeCorrect == Spec => []TypeOK
<1>1. CaIInv => Ca!TypeOK
  <2>1. CaIInv => ca_first \in Int
    BY CaFirstOfInt DEF CaIInv
  <2>2. CaIInv => ca_weekday \in 0 .. 6
    BY <2>1 DEF CaIInv
  <2> QED BY <2>1, <2>2 DEF CaIInv, Ca!TypeOK
<1>2. BP!TypeOK => Bi!TypeOK
  BY Zenon DEF Bi!TypeOK, BP!TypeOK
<1>3. SP!TypeOK => Sc!TypeOK
  BY Zenon DEF Sc!TypeOK, SP!TypeOK, Sc!scopes, SP!scopes, Sc!Now, SP!Now, Sc!Last, SP!Last
<1>4. BP!Spec => []BP!TypeOK
  BY BiAssumptions, BP!TypeCorrect
<1>5. SP!Spec => []SP!TypeOK
  <2>1. SP!Assumptions
    BY BoundsAreCounts DEF SP!Assumptions
  <2> QED BY <2>1, SP!TypeCorrect
<1>6. Spec => [](part \in Parts)
  <2>1. Init => part \in Parts
    BY AboutParts, Zenon DEF Init
  <2>2. part \in Parts /\ [Next]_vars => (part \in Parts)'
    BY Zenon DEF Next, vars
  <2> QED BY <2>1, <2>2, PTL DEF Spec
<1>7. /\ AsIInv => As!TypeOK
      /\ HsIInv => Hs!TypeOK
      /\ PrIInv => Pr!TypeOK
      /\ CjIInv => Cj!TypeOK
      /\ HrIInv => Hr!TypeOK
      /\ CfIInv => Cf!TypeOK
      /\ SuIInv => Su!TypeOK
      /\ PiIInv => Pi!TypeOK
      /\ EcIInv => Ec!TypeOK
  BY Zenon DEF AsIInv, HsIInv, PrIInv, CjIInv, HrIInv, CfIInv, SuIInv, PiIInv, EcIInv
<1>8. /\ part \in Parts /\ AsIInv /\ HsIInv /\ PrIInv /\ CjIInv /\ HrIInv /\ CfIInv /\ SuIInv
      /\ TsIInv /\ PiIInv /\ TcIInv /\ EcIInv /\ CoIInv
      /\ CaIInv /\ PsIInv /\ BP!TypeOK /\ SP!TypeOK
      => TypeOK
  BY <1>1, <1>2, <1>3, <1>7, TsTypeOK, TcTypeOK, CoTypeOK, PsTypeOK, Zenon DEF TypeOK
<1> QED BY <1>4, <1>5, <1>6, <1>8, ScopesSpec, BigIntSpec, AsHolds, HsHolds, PrHolds, CjHolds,
          HrHolds, CfHolds, SuHolds, TsHolds, PiHolds, TcHolds, EcHolds, CoHolds, CaHolds,
          PsHolds, PTL

=============================================================================
