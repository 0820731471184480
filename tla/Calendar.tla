------------------------------ MODULE Calendar ------------------------------
(***************************************************************************)
(* The calendar of sflang/src/datetime.rs: between a day number (days since*)
(* 1970-01-01) and a date, and add_date.  The state is a month of a walk   *)
(* through the calendar, month by month in both directions, with the date  *)
(* and the weekday counted along by the calendar's rules.                  *)
(***************************************************************************)
EXTENDS Integers

CONSTANTS
  Epochs,  \* where walks begin: first days of months, [year, month, day number, weekday]
  Span,    \* years walked from there, each way
  Shifts   \* months added by add_date

VARIABLES
  year, month, first, weekday,  \* the month, its first day's number and weekday
  origin                        \* the epoch the walk began at

vars == <<year, month, first, weekday, origin>>

\* Rust's division goes towards zero.
DivTrunc(i, j) == IF i >= 0 THEN i \div j ELSE -((-i) \div j)

\* A bug for the checks: centuries are all leap years, or none is.
BugLeap(y) == y % 4 = 0 /\ y % 100 # 0

is_leap_year(y) == (y % 4 = 0 /\ y % 100 # 0) \/ y % 400 = 0

days_in_month(y, m) ==
  IF m = 2 THEN (IF is_leap_year(y) THEN 29 ELSE 28) ELSE IF m \in {4, 6, 9, 11} THEN 30 ELSE 31

\* days_from_civil and civil_from_days: years begin in March, in eras of 400.
days_from_civil(y0, m, d) ==
  LET y   == IF m <= 2 THEN y0 - 1 ELSE y0
      era == DivTrunc(IF y >= 0 THEN y ELSE y - 399, 400)
      yoe == y - era * 400
      doy == (153 * (IF m > 2 THEN m - 3 ELSE m + 9) + 2) \div 5 + d - 1
      doe == yoe * 365 + yoe \div 4 - yoe \div 100 + doy
  IN era * 146097 + doe - 719468

civil_from_days(z0) ==
  LET z   == z0 + 719468
      era == DivTrunc(IF z >= 0 THEN z ELSE z - 146096, 146097)
      doe == z - era * 146097
      yoe == (doe - doe \div 1460 + doe \div 36524 - doe \div 146096) \div 365
      doy == doe - (365 * yoe + yoe \div 4 - yoe \div 100)
      mp  == (5 * doy + 2) \div 153
      d   == doy - (153 * mp + 2) \div 5 + 1
      m   == IF mp < 10 THEN mp + 3 ELSE mp - 9
      y   == yoe + era * 400
  IN <<IF m <= 2 THEN y + 1 ELSE y, m, d>>

weekday_of(z) == (4 + (z % 7)) % 7

\* add_date by years and months, on a day number: the day is cut to the target month's
\* length; a target year outside 1..9999 leaves the day as it was, without an error.
add_date(z, months) ==
  LET date  == civil_from_days(z)
      total == date[1] * 12 + (date[2] - 1) + months
      y     == total \div 12
      m     == (total % 12) + 1
      last  == days_in_month(y, m)
      d     == IF date[3] < last THEN date[3] ELSE last
  IN IF y \in 1..9999 THEN days_from_civil(y, m, d) ELSE z

-----------------------------------------------------------------------------
Init ==
  \E e \in Epochs :
    /\ year = e.year /\ month = e.month /\ first = e.day /\ weekday = e.weekday
    /\ origin = e

\* February has a 29th in every fourth year, but of the centuries only in every fourth.
Length(y, m) ==
  IF m = 2 THEN IF y % 4 = 0 /\ (y % 100 = 0 => y % 400 = 0) THEN 29 ELSE 28
  ELSE IF m \in {4, 6, 9, 11} THEN 30 ELSE 31

\* The number of a month's first day, by the same rules: day 0 is the 1st of January 1970.
LeapDays(y) == y \div 4 - y \div 100 + y \div 400
FirstOf(y, m) ==
  365 * (y - 1970) + (LeapDays(y - 1) - LeapDays(1969))
    + <<0, 31, 59, 90, 120, 151, 181, 212, 243, 273, 304, 334>>[m]
    + IF m > 2 THEN Length(y, 2) - 28 ELSE 0

NextMonth ==
  /\ year' = IF month = 12 THEN year + 1 ELSE year
  /\ month' = (month % 12) + 1
  /\ first' = first + Length(year, month)
  /\ weekday' = (weekday + Length(year, month)) % 7

LastMonth ==
  /\ year' = IF month = 1 THEN year - 1 ELSE year
  /\ month' = ((month - 2) % 12) + 1
  /\ first' = first - Length(year', month')
  /\ weekday' = (weekday - Length(year', month')) % 7

Next ==
  /\ NextMonth \/ LastMonth
  /\ year' - origin.year \in (-Span)..Span
  /\ UNCHANGED origin

Spec == Init /\ [][Next]_vars

TypeOK ==
  /\ year \in Int /\ month \in 1..12 /\ first \in Int /\ weekday \in 0..6
  /\ origin \in Epochs

\* Every day of every month has its date and its date that day, and its weekday.
DatesAreRight ==
  \A d \in 1..Length(year, month) :
    LET z == first + d - 1 IN
    /\ civil_from_days(z) = <<year, month, d>>
    /\ days_from_civil(year, month, d) = z
    /\ weekday_of(z) = (weekday + d - 1) % 7

WellInside(y) == 2 <= y /\ y <= 9997

\* Adding months keeps the order of days, and taking them away again gives the day back
\* where it was not cut to a shorter month, as long as the years stay in 1..9999.
ShiftsAreOrdered ==
  \A s \in Shifts :
    WellInside(year + (s \div 12)) /\ WellInside(year) =>
      \A d \in 1..Length(year, month) :
        LET z == first + d - 1
            to == civil_from_days(add_date(z, s)) IN
        /\ add_date(z, s) <= add_date(z + 1, s)
        /\ to[3] = d => add_date(add_date(z, s), -s) = z
        /\ to[3] # d => d > Length(to[1], to[2]) /\ to[3] = Length(to[1], to[2])
=============================================================================
