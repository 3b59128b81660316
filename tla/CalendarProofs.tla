---------------------------- MODULE CalendarProofs ----------------------------
(***************************************************************************)
(* Theorems about the calendar arithmetic, for every date and for every    *)
(* number of days that is added.                                           *)
(*                                                                         *)
(* The proofs count as the formulas do, in years that begin with March: an *)
(* era of 400 years consists of four centuries, a century of 25 cycles, a  *)
(* cycle of four years.  Year 100 c + 4 q + r of era e begins YearStart    *)
(* days after the first era, and the leap day is the last of its year.     *)
(***************************************************************************)
EXTENDS CalendarDates, TLAPS

Centuries == 0..3
Cycles == 0..24
YearsOfCycle == 0..3

MarchYear(e, c, q, r) == 400 * e + 100 * c + 4 * q + r

DaysInto(c, q, r) == 36524 * c + 1461 * q + 365 * r

YearStart(e, c, q, r) == 146097 * e + DaysInto(c, q, r)

\* The last day of that year, where the first is day 0.
YearEnd(c, q, r) == IF r = 3 /\ (q # 24 \/ c = 3) THEN 365 ELSE 364

\* Day n of year 100 c + 4 q + r of an era.
InEra(c, q, r, n) ==
    /\ c \in Centuries /\ q \in Cycles /\ r \in YearsOfCycle
    /\ n \in 0..YearEnd(c, q, r)

\* The days of an era.
IsEraDay(m) == m \in Int /\ 0 <= m /\ m <= 146096

(***************************************************************************)
(* Months.                                                                 *)
(***************************************************************************)

\* Days of a March year before its month p, and the lengths of its months.
MonthStart(p) == (153 * p + 2) \div 5

\* The month of the calendar that is month p of a March year.
MonthAt(p) == p + (IF p < 10 THEN 3 ELSE -9)

LEMMA MonthStarts ==
    /\ MonthStart(0) = 0 /\ MonthStart(1) = 31 /\ MonthStart(2) = 61
    /\ MonthStart(3) = 92 /\ MonthStart(4) = 122 /\ MonthStart(5) = 153
    /\ MonthStart(6) = 184 /\ MonthStart(7) = 214 /\ MonthStart(8) = 245
    /\ MonthStart(9) = 275 /\ MonthStart(10) = 306 /\ MonthStart(11) = 337
  BY DEF MonthStart

LEMMA TwelveMonths ==
    \A p \in 0..11 : \/ p = 0 \/ p = 1 \/ p = 2 \/ p = 3 \/ p = 4 \/ p = 5
                     \/ p = 6 \/ p = 7 \/ p = 8 \/ p = 9 \/ p = 10 \/ p = 11
  OBVIOUS

\* Where a month of year y begins and ends in its March year.
LEMMA MonthSpans ==
    ASSUME NEW y \in Int, NEW p \in 0..11
    PROVE  /\ MonthStart(p) \in 0..337
           /\ MonthAt(p) \in Months
           /\ DaysInMonth(y, MonthAt(p)) \in 28..31
           /\ p < 11 => MonthStart(p) + DaysInMonth(y, MonthAt(p)) = MonthStart(p + 1)
           /\ p = 11 => MonthStart(p) + DaysInMonth(y, MonthAt(p))
                            = IF IsLeapYear(y) THEN 366 ELSE 365
  BY MonthStarts, TwelveMonths DEF MonthAt, DaysInMonth, Months

\* Day d of month p of a March year that may be a leap year.
InMonth(p, d) ==
    IF p < 11 THEN MonthStart(p) + d <= MonthStart(p + 1) ELSE d <= 29

\* A day of a month is found by the division that civil_from_days makes.
LEMMA MonthIsFound ==
    ASSUME NEW p \in 0..11, NEW d \in 1..31, InMonth(p, d)
    PROVE  (5 * (MonthStart(p) + d - 1) + 2) \div 153 = p
<1>1. PICK m \in Int : m = MonthStart(p)
  BY DEF MonthStart
<1>2. 5 * (m + d - 1) + 2 >= 153 * p
  BY <1>1 DEF MonthStart
<1>3. 5 * (m + d - 1) + 2 < 153 * p + 153
  <2>1. CASE p < 11
    BY <1>1, <2>1 DEF MonthStart, InMonth
  <2>2. CASE p = 11
    BY <1>1, <2>2, MonthStarts DEF InMonth
  <2> QED
    BY <2>1, <2>2
<1>4. (5 * (m + d - 1) + 2) \div 153 = p
  BY <1>2, <1>3
<1> QED
  BY <1>1, <1>4

\* And every day of a March year is one of some month.
LEMMA MonthOfDay ==
    ASSUME NEW n \in 0..365
    PROVE  \E p \in 0..11, d \in 1..31 :
              n = MonthStart(p) + d - 1 /\ InMonth(p, d)
<1>1. \E p \in 0..11 : MonthStart(p) <= n /\ (p < 11 => n < MonthStart(p + 1))
  <2>1. CASE n < 184
    <3>1. CASE n < 31  BY <3>1, MonthStarts
    <3>2. CASE n >= 31 /\ n < 61  BY <3>2, MonthStarts
    <3>3. CASE n >= 61 /\ n < 92  BY <3>3, MonthStarts
    <3>4. CASE n >= 92 /\ n < 122  BY <3>4, MonthStarts
    <3>5. CASE n >= 122 /\ n < 153  BY <3>5, MonthStarts
    <3>6. CASE n >= 153  BY <2>1, <3>6, MonthStarts
    <3> QED  BY <3>1, <3>2, <3>3, <3>4, <3>5, <3>6
  <2>2. CASE n >= 184
    <3>1. CASE n < 214  BY <2>2, <3>1, MonthStarts
    <3>2. CASE n >= 214 /\ n < 245  BY <3>2, MonthStarts
    <3>3. CASE n >= 245 /\ n < 275  BY <3>3, MonthStarts
    <3>4. CASE n >= 275 /\ n < 306  BY <3>4, MonthStarts
    <3>5. CASE n >= 306 /\ n < 337  BY <3>5, MonthStarts
    <3>6. CASE n >= 337  BY <3>6, MonthStarts
    <3> QED  BY <3>1, <3>2, <3>3, <3>4, <3>5, <3>6
  <2> QED
    BY <2>1, <2>2
<1>2. PICK p \in 0..11 : MonthStart(p) <= n /\ (p < 11 => n < MonthStart(p + 1))
  BY <1>1
<1>3. MonthStart(p) \in Int /\ (p < 11 => MonthStart(p + 1) \in Int)
  BY DEF MonthStart
<1>4. n - MonthStart(p) + 1 \in 1..31
  BY <1>2, <1>3, MonthStarts, TwelveMonths
<1>5. n = MonthStart(p) + (n - MonthStart(p) + 1) - 1
  BY <1>3
<1>6. InMonth(p, n - MonthStart(p) + 1)
  BY <1>2, <1>3, MonthStarts DEF InMonth
<1> QED
  BY <1>4, <1>5, <1>6

(***************************************************************************)
(* Years.                                                                  *)
(***************************************************************************)
LEMMA LeapDays ==
    ASSUME NEW y \in Int
    PROVE  /\ LeapDay(y) \in 0..1
           /\ IsLeapYear(y) <=> LeapDay(y) = 1
           /\ LeapDay(y) = y \div 4 - (y - 1) \div 4
                               - (y \div 100 - (y - 1) \div 100)
                               + (y \div 400 - (y - 1) \div 400)
<1>1. LeapDay(y) \in 0..1 /\ (IsLeapYear(y) <=> LeapDay(y) = 1)
  BY DEF LeapDay, IsLeapYear
<1>2. y \div 4 - (y - 1) \div 4 = IF y % 4 = 0 THEN 1 ELSE 0
  OBVIOUS
<1>3. y \div 100 - (y - 1) \div 100 = IF y % 100 = 0 THEN 1 ELSE 0
  OBVIOUS
<1>4. y \div 400 - (y - 1) \div 400 = IF y % 400 = 0 THEN 1 ELSE 0
  OBVIOUS
<1>5. (y % 400 = 0 => y % 100 = 0) /\ (y % 100 = 0 => y % 4 = 0)
  OBVIOUS
<1> QED
  BY <1>1, <1>2, <1>3, <1>4, <1>5 DEF LeapDay

\* The ranges of a year's place in its era, as inequalities.
LEMMA Places ==
    ASSUME NEW c \in Centuries, NEW q \in Cycles, NEW r \in YearsOfCycle
    PROVE  /\ c \in Int /\ q \in Int /\ r \in Int
           /\ 0 <= c /\ c <= 3 /\ 0 <= q /\ q <= 24 /\ 0 <= r /\ r <= 3
  BY DEF Centuries, Cycles, YearsOfCycle

\* The division of an era's days gives the year that the day is in.
LEMMA YearIsFound ==
    ASSUME NEW c, NEW q, NEW r, NEW n, InEra(c, q, r, n)
    PROVE  /\ IsEraDay(DaysInto(c, q, r) + n)
           /\ YearOfEra(DaysInto(c, q, r) + n) = 100 * c + 4 * q + r
<1> c \in Centuries /\ q \in Cycles /\ r \in YearsOfCycle
  BY DEF InEra
<1>1. /\ n \in Int /\ 0 <= n /\ n <= 365
      /\ n = 365 => r = 3 /\ (q # 24 \/ c = 3)
  BY SMT DEF InEra, YearEnd
<1>2. PICK m \in Int : m = 36524 * c + 1461 * q + 365 * r + n
  BY <1>1, Places, SMT
<1>3. /\ 0 <= m /\ m <= 146096
      /\ m = 146096 <=> (c = 3 /\ q = 24 /\ r = 3 /\ n = 365)
  BY <1>1, <1>2, Places, SMT
<1>4. PICK k \in Int : k = IF m = 146096 THEN 1 ELSE 0
  BY SMT
<1>5. m \div 146096 = k
  BY <1>3, <1>4, SMT
<1>6. m \div 36524 = c + k
  <2>1. 36524 * (c + k) <= m /\ m < 36524 * (c + k) + 36524
    BY <1>1, <1>2, <1>3, <1>4, Places, SMT
  <2>2. c + k \in Int
    BY Places, SMT
  <2> QED
    BY <2>1, <2>2, SMT
<1>7. PICK x \in Int : x = IF 24 * c + q + 365 * r + n >= 1460 THEN 1 ELSE 0
  BY SMT
<1>8. m \div 1460 = 25 * c + q + x
  <2>1. PICK z \in Int : z = 25 * c + q + x
    BY Places, SMT
  <2>2. 1460 * z <= m /\ m < 1460 * z + 1460
    BY <1>1, <1>2, <1>7, <2>1, Places, SMT
  <2>3. m \div 1460 = z
    BY <2>2, SMT
  <2> QED
    BY <2>1, <2>3, SMT
<1>9. (x = 0 \/ x = 1) /\ (n = 365 => x = 1) /\ (n = 0 => x = 0)
  BY <1>1, <1>7, Places, SMT
<1>10. PICK y \in Int : y = 100 * c + 4 * q + r
  BY Places, SMT
<1>11. PICK a \in Int : a = m - m \div 1460 + m \div 36524 - m \div 146096
  BY SMT
<1>12. a = 365 * y + n - x
  BY <1>1, <1>2, <1>5, <1>6, <1>8, <1>10, <1>11, Places, SMT
<1>13. a \div 365 = y
  BY <1>1, <1>9, <1>12, SMT
<1>14. YearOfEra(m) = y
  BY <1>11, <1>13, SMT DEF YearOfEra
<1>15. DaysInto(c, q, r) + n = m
  BY <1>1, <1>2, Places, SMT DEF DaysInto
<1> QED
  BY <1>3, <1>10, <1>14, <1>15, SMT DEF IsEraDay

\* Every day of an era is in some year.
LEMMA YearOfDay ==
    ASSUME NEW m, IsEraDay(m)
    PROVE  \E c, q, r, n : InEra(c, q, r, n) /\ m = DaysInto(c, q, r) + n
<1>0. m \in Int /\ 0 <= m /\ m <= 146096
  BY SMT DEF IsEraDay
<1>1. PICK c \in Int : c = IF m >= 3 * 36524 THEN 3 ELSE m \div 36524
  BY <1>0, SMT
<1>2. PICK a \in Int : a = m - 36524 * c
  BY <1>0, SMT
<1>3. /\ 0 <= c /\ c <= 3 /\ 0 <= a /\ a <= 36524
      /\ a = 36524 => c = 3
  BY <1>0, <1>1, <1>2, SMT
<1>4. PICK q \in Int : q = a \div 1461
  BY SMT
<1>5. PICK b \in Int : b = a - 1461 * q
  BY SMT
<1>6. 0 <= q /\ q <= 24 /\ 0 <= b /\ b <= 1460
  BY <1>3, <1>4, <1>5, SMT
<1>7. PICK r \in Int : r = IF b >= 3 * 365 THEN 3 ELSE b \div 365
  BY SMT
<1>8. PICK n \in Int : n = b - 365 * r
  BY SMT
<1>9. /\ 0 <= r /\ r <= 3 /\ 0 <= n /\ n <= 365
      /\ n = 365 => r = 3
  BY <1>6, <1>7, <1>8, SMT
<1>10. n = 365 => (q # 24 \/ c = 3)
  BY <1>3, <1>5, <1>8, <1>9, SMT
<1>11. c \in Centuries /\ q \in Cycles /\ r \in YearsOfCycle
  BY <1>3, <1>6, <1>9 DEF Centuries, Cycles, YearsOfCycle
<1>12. n \in 0..YearEnd(c, q, r)
  BY <1>9, <1>10 DEF YearEnd
<1>13. m = DaysInto(c, q, r) + n
  BY <1>0, <1>2, <1>5, <1>8, SMT DEF DaysInto
<1>14. InEra(c, q, r, n)
  BY <1>11, <1>12 DEF InEra
<1> QED
  BY <1>13, <1>14

\* The year after a March year has a leap day if the March year ends with one.
LEMMA MarchYearEnds ==
    ASSUME NEW e \in Int, NEW c \in Centuries, NEW q \in Cycles,
           NEW r \in YearsOfCycle
    PROVE  /\ MarchYear(e, c, q, r) \in Int
           /\ YearEnd(c, q, r) = 364 + LeapDay(MarchYear(e, c, q, r) + 1)
<1>1. PICK y \in Int : y = 400 * e + 100 * c + 4 * q + r + 1
  BY Places
<1>2. y % 4 = 0 <=> r = 3
  BY <1>1, Places, SMT
<1>3. y % 100 = 0 <=> (r = 3 /\ q = 24)
  BY <1>1, Places, SMT
<1>4. y % 400 = 0 <=> (r = 3 /\ q = 24 /\ c = 3)
  BY <1>1, Places, SMT
<1>5. LeapDay(y) = IF r = 3 /\ (q # 24 \/ c = 3) THEN 1 ELSE 0
  BY <1>2, <1>3, <1>4 DEF LeapDay
<1>6. MarchYear(e, c, q, r) + 1 = y /\ MarchYear(e, c, q, r) \in Int
  BY <1>1, Places DEF MarchYear
<1> QED
  BY <1>5, <1>6 DEF YearEnd

(***************************************************************************)
(* The number of a day, counted from the first of January of its year.     *)
(***************************************************************************)

\* The days before year y.
NewYear(y) ==
    365 * (y - 1) + (y - 1) \div 4 - (y - 1) \div 100 + (y - 1) \div 400 - 719162

\* The days of year y before month m.
DaysTo(y, m) ==
    IF m <= 2 THEN 31 * (m - 1) ELSE 59 + LeapDay(y) + MonthStart(m - 3)

Number(y, m, d) == NewYear(y) + DaysTo(y, m) + d - 1

LEMMA NumberIsInteger ==
    ASSUME NEW y \in Int, NEW m \in Months, NEW d \in Int
    PROVE  NewYear(y) \in Int /\ DaysTo(y, m) \in Int /\ Number(y, m, d) \in Int
<1>1. NewYear(y) \in Int
  BY SMT DEF NewYear
<1>2. DaysTo(y, m) \in Int
  BY LeapDays, SMT DEF DaysTo, MonthStart, Months
<1> QED
  BY <1>1, <1>2 DEF Number

LEMMA NextNewYear ==
    ASSUME NEW y \in Int
    PROVE  NewYear(y + 1) = NewYear(y) + 365 + LeapDay(y)
<1>1. NewYear(y + 1) = 365 * y + y \div 4 - y \div 100 + y \div 400 - 719162
  <2>1. (y + 1) - 1 = y
    OBVIOUS
  <2> QED
    BY <2>1, SMT DEF NewYear
<1>2. /\ LeapDay(y) \in 0..1
      /\ LeapDay(y) = y \div 4 - (y - 1) \div 4
                          - (y \div 100 - (y - 1) \div 100)
                          + (y \div 400 - (y - 1) \div 400)
  BY LeapDays
<1> QED
  BY <1>1, <1>2, SMT DEF NewYear

\* A later year begins later.
LEMMA NewYearsGrow ==
    ASSUME NEW y \in Int, NEW z \in Int, y <= z
    PROVE  NewYear(y) <= NewYear(z)
<1>1. PICK a \in Int, b \in Int : a = y - 1 /\ b = z - 1
  OBVIOUS
<1>2. NewYear(y) = 365 * a + a \div 4 - a \div 100 + a \div 400 - 719162
  BY <1>1, SMT DEF NewYear
<1>3. NewYear(z) = 365 * b + b \div 4 - b \div 100 + b \div 400 - 719162
  BY <1>1, SMT DEF NewYear
<1>4. CASE a = b
  BY <1>2, <1>3, <1>4
<1>5. CASE a < b
  BY <1>2, <1>3, <1>5, SMT
<1> QED
  BY <1>1, <1>4, <1>5

\* Months follow each other, and years do.
LEMMA DaysToGrow ==
    ASSUME NEW y \in Int, NEW m \in Months
    PROVE  /\ DaysTo(y, 1) = 0
           /\ m < 12 => DaysTo(y, m) + DaysInMonth(y, m) = DaysTo(y, m + 1)
           /\ m = 12 => DaysTo(y, m) + DaysInMonth(y, m) = 365 + LeapDay(y)
<1>1. \/ m = 1 \/ m = 2 \/ m = 3 \/ m = 4 \/ m = 5 \/ m = 6 \/ m = 7 \/ m = 8
      \/ m = 9 \/ m = 10 \/ m = 11 \/ m = 12
  BY DEF Months
<1>2. LeapDay(y) \in 0..1 /\ (IsLeapYear(y) <=> LeapDay(y) = 1)
  BY LeapDays
<1> QED
  BY <1>1, <1>2, MonthStarts, SMT DEF DaysTo, DaysInMonth

\* days_from_civil counts.
LEMMA DaysAreCounted ==
    ASSUME NEW y \in Int, NEW m \in Months, NEW d \in Int
    PROVE  DaysFromCivil(Date(y, m, d)) = Number(y, m, d)
<1>1. PICK date : date = Date(y, m, d)
  OBVIOUS
<1>2. date.year = y /\ date.month = m /\ date.day = d
  BY <1>1 DEF Date
<1>3. m \in Int /\ 1 <= m /\ m <= 12
  BY DEF Months
<1>4. PICK a \in Int : a = y - (IF m <= 2 THEN 1 ELSE 0)
  OBVIOUS
<1>5. PICK e \in Int, o \in Int : e = a \div 400 /\ o = a - e * 400
  OBVIOUS
<1>6. /\ o \div 4 = a \div 4 - 100 * e
      /\ o \div 100 = a \div 100 - 4 * e
  BY <1>5, SMT
<1>7. PICK p \in Int : p = m + (IF m > 2 THEN -3 ELSE 9)
  BY <1>3
<1>8. DaysFromCivil(date)
          = e * 146097 + (o * 365 + o \div 4 - o \div 100
                              + ((153 * p + 2) \div 5 + d - 1)) - 719468
  BY <1>2, <1>4, <1>5, <1>7 DEF DaysFromCivil
<1>9. DaysFromCivil(date) = 365 * a + a \div 4 - a \div 100 + a \div 400
                                + MonthStart(p) + d - 1 - 719468
  <2>1. PICK u \in Int, v \in Int, w \in Int :
           u = o \div 4 /\ v = o \div 100 /\ w = MonthStart(p)
    BY <1>5, <1>7 DEF MonthStart
  <2>2. DaysFromCivil(date) = e * 146097 + (o * 365 + u - v + (w + d - 1)) - 719468
    BY <1>7, <1>8, <2>1 DEF MonthStart
  <2> QED
    BY <1>5, <1>6, <2>1, <2>2, SMT
<1>10. CASE m <= 2
  <2>1. a = y - 1
    BY <1>4, <1>10
  <2>2. MonthStart(p) = 306 + 31 * (m - 1)
    BY <1>3, <1>7, <1>10, MonthStarts
  <2> QED
    BY <1>1, <1>3, <1>9, <1>10, <2>1, <2>2, SMT DEF Number, NewYear, DaysTo
<1>11. CASE m > 2
  <2>1. a = y /\ p = m - 3
    BY <1>3, <1>4, <1>7, <1>11
  <2>2. MonthStart(p) \in Int
    BY <1>7 DEF MonthStart
  <2>3. Number(y, m, d) = NewYear(y) + (59 + LeapDay(y) + MonthStart(m - 3)) + d - 1
    BY <1>3, <1>11 DEF Number, DaysTo
  <2>4. /\ LeapDay(y) \in 0..1
        /\ LeapDay(y) = y \div 4 - (y - 1) \div 4
                            - (y \div 100 - (y - 1) \div 100)
                            + (y \div 400 - (y - 1) \div 400)
    BY LeapDays
  <2>5. NewYear(y) + LeapDay(y) + 59
            = 365 * y + y \div 4 - y \div 100 + y \div 400 - 719468
    BY <2>4, SMT DEF NewYear
  <2>6. NewYear(y) \in Int
    BY SMT DEF NewYear
  <2> QED
    BY <1>1, <1>9, <2>1, <2>2, <2>3, <2>4, <2>5, <2>6, SMT
<1> QED
  BY <1>3, <1>10, <1>11

(***************************************************************************)
(* The way back.                                                           *)
(***************************************************************************)

\* Day d of month p of a March year, which may be in the next year already.
MarchDate(y, p, d) == Date(y + (IF p < 10 THEN 0 ELSE 1), MonthAt(p), d)

\* Day n of a March year is day d of its month p.
IsDayOf(n, p, d) ==
    /\ p \in 0..11 /\ d \in 1..31 /\ InMonth(p, d)
    /\ n = MonthStart(p) + d - 1

\* civil_from_days finds era, year, month and day.
LEMMA DayIsFound ==
    ASSUME NEW e \in Int, NEW c, NEW q, NEW r, NEW n, NEW p, NEW d,
           InEra(c, q, r, n), IsDayOf(n, p, d)
    PROVE  CivilFromDays(YearStart(e, c, q, r) + n - 719468)
               = MarchDate(MarchYear(e, c, q, r), p, d)
<1>1. /\ c \in Centuries /\ q \in Cycles /\ r \in YearsOfCycle
      /\ p \in 0..11 /\ d \in 1..31 /\ InMonth(p, d)
  BY DEF InEra, IsDayOf
<1>2. n \in Int
  BY DEF InEra
<1>3. PICK k \in Int, o \in Int : /\ k = DaysInto(c, q, r) + n
                                  /\ o = 100 * c + 4 * q + r
  BY <1>1, <1>2, Places, SMT DEF DaysInto
<1>4. 0 <= k /\ k <= 146096 /\ YearOfEra(k) = o
  BY <1>3, YearIsFound, SMT DEF IsEraDay
<1>5. PICK days \in Int : days = YearStart(e, c, q, r) + n - 719468
  BY <1>1, <1>2, Places, SMT DEF YearStart, DaysInto
<1>6. PICK s \in Int : s = days + 719468 /\ s = 146097 * e + k
  BY <1>1, <1>2, <1>3, <1>5, Places, SMT DEF YearStart, DaysInto
<1>7. s \div 146097 = e
  BY <1>4, <1>6, SMT
<1>8. s - e * 146097 = k
  BY <1>6, SMT
<1>9. k - (365 * o + o \div 4 - o \div 100) = n
  <2>1. o \div 4 = 25 * c + q /\ o \div 100 = c
    BY <1>1, <1>3, Places, SMT
  <2> QED
    BY <1>1, <1>2, <1>3, <2>1, Places, SMT DEF DaysInto
<1>10. (5 * n + 2) \div 153 = p
  BY <1>1, MonthIsFound DEF IsDayOf
<1>11. n - (153 * p + 2) \div 5 + 1 = d
  BY <1>1, SMT DEF IsDayOf, MonthStart
<1>12. CivilFromDays(days)
           = Date(o + e * 400 + (IF MonthAt(p) <= 2 THEN 1 ELSE 0), MonthAt(p), d)
  <2> DEFINE shifted == days + 719468
             era == shifted \div 146097
             dayOfEra == shifted - era * 146097
             yearOfEra == YearOfEra(dayOfEra)
             dayOfYear == dayOfEra - (365 * yearOfEra + yearOfEra \div 4
                                          - yearOfEra \div 100)
             monthPrime == (5 * dayOfYear + 2) \div 153
             day == dayOfYear - (153 * monthPrime + 2) \div 5 + 1
             month == monthPrime + (IF monthPrime < 10 THEN 3 ELSE -9)
  <2>1. era = e /\ dayOfEra = k
    BY <1>6, <1>7, <1>8, SMT
  <2>2. yearOfEra = o
    BY <1>4, <2>1, SMT
  <2> HIDE DEF dayOfEra, yearOfEra, era
  <2>3. dayOfYear = n
    BY <1>9, <2>1, <2>2, SMT
  <2> HIDE DEF dayOfYear
  <2>4. monthPrime = p
    BY <1>10, <2>3, SMT
  <2> HIDE DEF monthPrime
  <2>5. day = d /\ month = MonthAt(p)
    BY <1>11, <2>3, <2>4, SMT DEF MonthAt
  <2> HIDE DEF day, month
  <2>6. CivilFromDays(days)
            = Date(yearOfEra + era * 400 + (IF month <= 2 THEN 1 ELSE 0), month, day)
    BY SMT DEF CivilFromDays, day, month, monthPrime, dayOfYear, yearOfEra, dayOfEra, era
  <2> QED
    BY <2>1, <2>2, <2>5, <2>6, SMT
<1>13. o + e * 400 = MarchYear(e, c, q, r)
  BY <1>1, <1>3, Places, SMT DEF MarchYear
<1>14. (IF MonthAt(p) <= 2 THEN 1 ELSE 0) = IF p < 10 THEN 0 ELSE 1
  BY <1>1 DEF MonthAt
<1> QED
  BY <1>5, <1>12, <1>13, <1>14, SMT DEF MarchDate

\* Counting from January and counting from March agree.
LEMMA MarchNumber ==
    ASSUME NEW e \in Int, NEW c, NEW q, NEW r, NEW n, NEW p, NEW d,
           InEra(c, q, r, n), IsDayOf(n, p, d),
           NEW y, NEW m, MarchDate(MarchYear(e, c, q, r), p, d) = Date(y, m, d)
    PROVE  Number(y, m, d) = YearStart(e, c, q, r) + n - 719468
<1>1. /\ c \in Centuries /\ q \in Cycles /\ r \in YearsOfCycle
      /\ p \in 0..11 /\ d \in Int
  BY DEF InEra, IsDayOf
<1>2. PICK a \in Int : a = MarchYear(e, c, q, r)
  BY <1>1, MarchYearEnds
<1>3. a = 400 * e + 100 * c + 4 * q + r
  BY <1>2 DEF MarchYear
<1>4. y = a + (IF p < 10 THEN 0 ELSE 1) /\ m = MonthAt(p)
  BY <1>2 DEF MarchDate, Date
<1>5. a \div 4 = 100 * e + 25 * c + q /\ a \div 100 = 4 * e + c /\ a \div 400 = e
  BY <1>1, <1>3, Places, SMT
<1>6. 365 * a + a \div 4 - a \div 100 + a \div 400 = YearStart(e, c, q, r)
  BY <1>1, <1>3, <1>5, Places, SMT DEF YearStart, DaysInto
<1>7. MonthStart(p) \in Int /\ n = MonthStart(p) + d - 1
  BY <1>1 DEF IsDayOf, MonthStart
<1>8. CASE p < 10
  <2>1. y = a /\ m = p + 3
    BY <1>1, <1>4, <1>8 DEF MonthAt
  <2>2. DaysTo(y, m) = 59 + LeapDay(y) + MonthStart(p)
    <3>1. ~(m <= 2) /\ m - 3 = p
      BY <1>1, <2>1
    <3> QED
      BY <3>1 DEF DaysTo
  <2>3. /\ LeapDay(a) \in 0..1
        /\ LeapDay(a) = a \div 4 - (a - 1) \div 4
                            - (a \div 100 - (a - 1) \div 100)
                            + (a \div 400 - (a - 1) \div 400)
    BY LeapDays
  <2>4. NewYear(a) + LeapDay(a) + 59
            = 365 * a + a \div 4 - a \div 100 + a \div 400 - 719468
    BY <2>3, SMT DEF NewYear
  <2>5. NewYear(a) \in Int
    BY SMT DEF NewYear
  <2> QED
    BY <1>1, <1>6, <1>7, <2>1, <2>2, <2>3, <2>4, <2>5, SMT DEF Number
<1>9. CASE p >= 10
  <2>1. y = a + 1 /\ m = p - 9 /\ (p = 10 \/ p = 11)
    BY <1>1, <1>4, <1>9 DEF MonthAt
  <2>2. MonthStart(p) = 306 + DaysTo(y, m)
    BY <2>1, MonthStarts DEF DaysTo
  <2>3. NewYear(y) = 365 * a + a \div 4 - a \div 100 + a \div 400 - 719162
    <3>1. y - 1 = a
      BY <2>1
    <3> QED
      BY <3>1, SMT DEF NewYear
  <2>4. NewYear(y) \in Int /\ DaysTo(y, m) \in Int
    BY <2>1, SMT DEF NewYear, DaysTo
  <2> QED
    BY <1>1, <1>6, <1>7, <2>1, <2>2, <2>3, <2>4, SMT DEF Number
<1> QED
  BY <1>1, <1>8, <1>9

(***************************************************************************)
(* Every date of the calendar, whatever its year, has its place in an era, *)
(* and every day number is that of a date.                                 *)
(***************************************************************************)
IsReal(y, m, d) == y \in Int /\ m \in Months /\ d \in 1..DaysInMonth(y, m)

LEMMA RealDays ==
    ASSUME NEW y, NEW m, NEW d, IsReal(y, m, d)
    PROVE  /\ y \in Int /\ m \in Int /\ 1 <= m /\ m <= 12
           /\ d \in Int /\ 1 <= d /\ d <= DaysInMonth(y, m) /\ d <= 31
           /\ DaysInMonth(y, m) \in Int
<1>1. y \in Int /\ m \in Months /\ d \in 1..DaysInMonth(y, m)
  BY DEF IsReal
<1>2. DaysInMonth(y, m) \in Int /\ DaysInMonth(y, m) <= 31
  BY <1>1 DEF DaysInMonth
<1> QED
  BY <1>1, <1>2 DEF Months

LEMMA EveryDate ==
    ASSUME NEW y, NEW m, NEW d, IsReal(y, m, d)
    PROVE  \E e \in Int : \E c, q, r, n, p :
              /\ InEra(c, q, r, n) /\ IsDayOf(n, p, d)
              /\ MarchDate(MarchYear(e, c, q, r), p, d) = Date(y, m, d)
<1>1. /\ y \in Int /\ m \in Int /\ 1 <= m /\ m <= 12
      /\ d \in Int /\ 1 <= d /\ d <= DaysInMonth(y, m) /\ d <= 31
  BY RealDays
<1>2. PICK a \in Int : a = y - (IF m <= 2 THEN 1 ELSE 0)
  BY <1>1
<1>3. PICK e \in Int, o \in Int : e = a \div 400 /\ o = a - 400 * e
  BY <1>2
<1>4. PICK c \in Int, u \in Int : c = o \div 100 /\ u = o - 100 * c
  BY <1>3
<1>5. PICK q \in Int, r \in Int : q = u \div 4 /\ r = u - 4 * q
  BY <1>4
<1>6. 0 <= o /\ o <= 399
  BY <1>2, <1>3, SMT
<1>7. 0 <= c /\ c <= 3 /\ 0 <= u /\ u <= 99
  BY <1>4, <1>6, SMT
<1>8. 0 <= q /\ q <= 24 /\ 0 <= r /\ r <= 3
  BY <1>5, <1>7, SMT
<1>9. c \in Centuries /\ q \in Cycles /\ r \in YearsOfCycle
  BY <1>4, <1>5, <1>7, <1>8 DEF Centuries, Cycles, YearsOfCycle
<1>10. MarchYear(e, c, q, r) = a
  BY <1>2, <1>3, <1>4, <1>5, SMT DEF MarchYear
<1>11. PICK p \in 0..11 : p = m + (IF m > 2 THEN -3 ELSE 9)
  BY <1>1
<1>12. MonthAt(p) = m /\ a + (IF p < 10 THEN 0 ELSE 1) = y
  BY <1>1, <1>2, <1>11 DEF MonthAt
<1>13. PICK n \in Int, s \in Int : s = MonthStart(p) /\ n = s + d - 1
  BY <1>1, <1>11 DEF MonthStart
<1>14. /\ s \in 0..337
       /\ p < 11 => s + DaysInMonth(y, m) = MonthStart(p + 1)
       /\ p = 11 => s + DaysInMonth(y, m) = IF IsLeapYear(y) THEN 366 ELSE 365
       /\ DaysInMonth(y, m) \in 28..31
  BY <1>1, <1>11, <1>12, <1>13, MonthSpans
<1>15. InMonth(p, d)
  <2>1. CASE p < 11
    BY <1>1, <1>13, <1>14, <2>1, SMT DEF InMonth
  <2>2. CASE p = 11
    <3>1. m = 2
      BY <1>12, <2>2 DEF MonthAt
    <3>2. DaysInMonth(y, m) <= 29
      BY <3>1 DEF DaysInMonth
    <3> QED
      BY <1>1, <1>14, <2>2, <3>2, SMT DEF InMonth
  <2> QED
    BY <2>1, <2>2
<1>16. IsDayOf(n, p, d)
  BY <1>1, <1>13, <1>15 DEF IsDayOf
<1>17. n \in 0..YearEnd(c, q, r)
  <2>1. YearEnd(c, q, r) = 364 + LeapDay(a + 1) /\ LeapDay(a + 1) \in 0..1
    <3>1. YearEnd(c, q, r) = 364 + LeapDay(MarchYear(e, c, q, r) + 1)
      BY <1>3, <1>9, MarchYearEnds
    <3>2. a + 1 \in Int
      BY <1>2
    <3>3. LeapDay(a + 1) \in 0..1
      BY <3>2, LeapDays
    <3> QED
      BY <1>10, <3>1, <3>3, SMT
  <2>2. CASE p < 11
    <3>1. MonthStart(p + 1) \in 0..337
      BY <2>2, MonthStarts, TwelveMonths
    <3> QED
      BY <1>1, <1>13, <1>14, <2>1, <2>2, <3>1, SMT
  <2>3. CASE p = 11
    <3>1. y = a + 1
      BY <1>2, <1>12, <2>3
    <3>2. IsLeapYear(y) <=> LeapDay(y) = 1
      BY <1>1, LeapDays
    <3> QED
      BY <1>1, <1>13, <1>14, <2>1, <2>3, <3>1, <3>2, SMT
  <2> QED
    BY <2>2, <2>3
<1>18. InEra(c, q, r, n)
  BY <1>9, <1>17 DEF InEra
<1>19. MarchDate(MarchYear(e, c, q, r), p, d) = Date(y, m, d)
  BY <1>10, <1>12 DEF MarchDate
<1> QED
  BY <1>16, <1>18, <1>19

LEMMA EveryDay ==
    ASSUME NEW n \in Int
    PROVE  \E e \in Int : \E c, q, r, i, p, d, y, m :
              /\ InEra(c, q, r, i) /\ IsDayOf(i, p, d)
              /\ n = YearStart(e, c, q, r) + i - 719468
              /\ MarchDate(MarchYear(e, c, q, r), p, d) = Date(y, m, d)
              /\ IsReal(y, m, d)
<1>1. PICK e \in Int, k \in Int :
         e = (n + 719468) \div 146097 /\ k = n + 719468 - 146097 * e
  BY SMT
<1>2. IsEraDay(k)
  BY <1>1, SMT DEF IsEraDay
<1>3. PICK c, q, r, i : InEra(c, q, r, i) /\ k = DaysInto(c, q, r) + i
  BY <1>2, YearOfDay
<1>4. /\ c \in Centuries /\ q \in Cycles /\ r \in YearsOfCycle
      /\ i \in Int /\ 0 <= i /\ i <= YearEnd(c, q, r)
  BY <1>3 DEF InEra, YearEnd
<1>5. n = YearStart(e, c, q, r) + i - 719468
  BY <1>1, <1>3, <1>4, Places, SMT DEF YearStart, DaysInto
<1>6. i \in 0..365
  BY <1>4 DEF YearEnd
<1>7. PICK p \in 0..11, d \in 1..31 : i = MonthStart(p) + d - 1 /\ InMonth(p, d)
  BY <1>6, MonthOfDay
<1>8. IsDayOf(i, p, d)
  BY <1>7 DEF IsDayOf
<1>9. PICK a \in Int : a = MarchYear(e, c, q, r)
  BY <1>4, MarchYearEnds
<1>10. PICK y \in Int, m \in Months :
          y = a + (IF p < 10 THEN 0 ELSE 1) /\ m = MonthAt(p)
  BY MonthSpans
<1>11. MarchDate(MarchYear(e, c, q, r), p, d) = Date(y, m, d)
  BY <1>9, <1>10 DEF MarchDate
<1>12. PICK s \in Int : s = MonthStart(p)
  BY DEF MonthStart
<1>13. /\ p < 11 => s + DaysInMonth(y, m) = MonthStart(p + 1)
       /\ p = 11 => s + DaysInMonth(y, m) = IF IsLeapYear(y) THEN 366 ELSE 365
       /\ DaysInMonth(y, m) \in 28..31
  BY <1>10, <1>12, MonthSpans
<1>14. d <= DaysInMonth(y, m)
  <2>1. CASE p < 11
    BY <1>7, <1>12, <1>13, <2>1, SMT DEF InMonth
  <2>2. CASE p = 11
    <3>1. y = a + 1
      BY <1>10, <2>2
    <3>2. IsLeapYear(y) <=> LeapDay(y) = 1
      BY LeapDays
    <3>3. YearEnd(c, q, r) = 364 + LeapDay(a + 1) /\ LeapDay(a + 1) \in 0..1
      BY <1>4, <1>9, MarchYearEnds, LeapDays
    <3> QED
      BY <1>4, <1>7, <1>12, <1>13, <2>2, <3>1, <3>2, <3>3, SMT
  <2> QED
    BY <2>1, <2>2
<1>15. IsReal(y, m, d)
  BY <1>13, <1>14 DEF IsReal
<1> QED
  BY <1>3, <1>5, <1>8, <1>11, <1>15

LEMMA WayBack ==
    ASSUME NEW y, NEW m, NEW d, IsReal(y, m, d)
    PROVE  CivilFromDays(Number(y, m, d)) = Date(y, m, d)
<1>1. PICK e \in Int : \E c, q, r, n, p :
         /\ InEra(c, q, r, n) /\ IsDayOf(n, p, d)
         /\ MarchDate(MarchYear(e, c, q, r), p, d) = Date(y, m, d)
  BY EveryDate
<1>2. PICK c, q, r, n, p :
         /\ InEra(c, q, r, n) /\ IsDayOf(n, p, d)
         /\ MarchDate(MarchYear(e, c, q, r), p, d) = Date(y, m, d)
  BY <1>1
<1>3. Number(y, m, d) = YearStart(e, c, q, r) + n - 719468
  BY <1>2, MarchNumber, SMT
<1>4. CivilFromDays(YearStart(e, c, q, r) + n - 719468) = Date(y, m, d)
  BY <1>2, DayIsFound, SMT
<1> QED
  BY <1>3, <1>4, SMT

LEMMA WayThere ==
    ASSUME NEW n \in Int
    PROVE  \E y, m, d : /\ IsReal(y, m, d)
                        /\ CivilFromDays(n) = Date(y, m, d)
                        /\ Number(y, m, d) = n
<1>1. PICK e \in Int : \E c, q, r, i, p, d, y, m :
         /\ InEra(c, q, r, i) /\ IsDayOf(i, p, d)
         /\ n = YearStart(e, c, q, r) + i - 719468
         /\ MarchDate(MarchYear(e, c, q, r), p, d) = Date(y, m, d)
         /\ IsReal(y, m, d)
  BY EveryDay, SMT
<1>2. PICK c, q, r, i, p, d, y, m :
         /\ InEra(c, q, r, i) /\ IsDayOf(i, p, d)
         /\ n = YearStart(e, c, q, r) + i - 719468
         /\ MarchDate(MarchYear(e, c, q, r), p, d) = Date(y, m, d)
         /\ IsReal(y, m, d)
  BY <1>1, SMT
<1>3. Number(y, m, d) = n
  BY <1>2, MarchNumber, SMT
<1>4. CivilFromDays(n) = Date(y, m, d)
  BY <1>2, DayIsFound, SMT
<1> QED
  BY <1>2, <1>3, <1>4, SMT

(***************************************************************************)
(* The order of dates.                                                     *)
(***************************************************************************)

\* The derived order of Date: by year, then month, then day.
Earlier(y, m, d, z, l, x) ==
    \/ y < z
    \/ y = z /\ m < l
    \/ y = z /\ m = l /\ d < x

LEMMA LaterMonth ==
    ASSUME NEW y \in Int, NEW m \in Months, NEW l \in Months, m < l
    PROVE  DaysTo(y, m) + DaysInMonth(y, m) <= DaysTo(y, l)
<1>1. \/ m = 1 \/ m = 2 \/ m = 3 \/ m = 4 \/ m = 5 \/ m = 6 \/ m = 7 \/ m = 8
      \/ m = 9 \/ m = 10 \/ m = 11
  BY DEF Months
<1>2. \/ l = 2 \/ l = 3 \/ l = 4 \/ l = 5 \/ l = 6 \/ l = 7 \/ l = 8
      \/ l = 9 \/ l = 10 \/ l = 11 \/ l = 12
  BY DEF Months
<1>3. LeapDay(y) \in 0..1 /\ (IsLeapYear(y) <=> LeapDay(y) = 1)
  BY LeapDays
<1> QED
  BY <1>1, <1>2, <1>3, MonthStarts, SMT DEF DaysTo, DaysInMonth

LEMMA WithinYear ==
    ASSUME NEW y, NEW m, NEW d, IsReal(y, m, d)
    PROVE  /\ Number(y, m, d) \in Int
           /\ NewYear(y) <= Number(y, m, d) /\ Number(y, m, d) < NewYear(y + 1)
<1>1. /\ y \in Int /\ m \in Int /\ 1 <= m /\ m <= 12
      /\ d \in Int /\ 1 <= d /\ d <= DaysInMonth(y, m)
      /\ DaysInMonth(y, m) \in Int
  BY RealDays
<1>2. m \in Months
  BY DEF IsReal
<1>3. NewYear(y) \in Int /\ DaysTo(y, m) \in Int /\ Number(y, m, d) \in Int
  BY <1>1, <1>2, NumberIsInteger
<1>4. LeapDay(y) \in 0..1 /\ NewYear(y + 1) = NewYear(y) + 365 + LeapDay(y)
  BY <1>1, LeapDays, NextNewYear
<1>5. 0 <= DaysTo(y, m) /\ DaysTo(y, m) + DaysInMonth(y, m) <= 365 + LeapDay(y)
  <2>1. \/ m = 1 \/ m = 2 \/ m = 3 \/ m = 4 \/ m = 5 \/ m = 6 \/ m = 7 \/ m = 8
        \/ m = 9 \/ m = 10 \/ m = 11 \/ m = 12
    BY <1>1
  <2>2. IsLeapYear(y) <=> LeapDay(y) = 1
    BY <1>1, LeapDays
  <2> QED
    BY <1>4, <2>1, <2>2, MonthStarts, SMT DEF DaysTo, DaysInMonth
<1> QED
  BY <1>1, <1>3, <1>4, <1>5, SMT DEF Number

LEMMA EarlierIsLess ==
    ASSUME NEW y, NEW m, NEW d, IsReal(y, m, d),
           NEW z, NEW l, NEW x, IsReal(z, l, x),
           Earlier(y, m, d, z, l, x)
    PROVE  Number(y, m, d) < Number(z, l, x)
<1>1. /\ y \in Int /\ m \in Months /\ z \in Int /\ l \in Months
      /\ d \in Int /\ d <= DaysInMonth(y, m) /\ DaysInMonth(y, m) \in Int
      /\ x \in Int /\ 1 <= x
  BY RealDays DEF IsReal
<1>2. /\ Number(y, m, d) \in Int /\ Number(z, l, x) \in Int
      /\ NewYear(y) \in Int /\ NewYear(z) \in Int /\ NewYear(y + 1) \in Int
      /\ DaysTo(y, m) \in Int /\ DaysTo(z, l) \in Int
  <2>1. y + 1 \in Int
    BY <1>1
  <2>2. NewYear(y + 1) \in Int
    BY <1>1, <2>1, NumberIsInteger
  <2> QED
    BY <1>1, <2>2, NumberIsInteger
<1>3. CASE y < z
  <2>1. NewYear(y + 1) <= NewYear(z)
    BY <1>1, <1>3, NewYearsGrow, SMT
  <2>2. Number(y, m, d) < NewYear(y + 1) /\ NewYear(z) <= Number(z, l, x)
    BY WithinYear
  <2> QED
    BY <1>2, <2>1, <2>2, SMT
<1>4. CASE y = z /\ m < l
  <2>1. DaysTo(y, m) + DaysInMonth(y, m) <= DaysTo(y, l)
    BY <1>1, <1>4, LaterMonth
  <2> QED
    BY <1>1, <1>2, <1>4, <2>1, SMT DEF Number
<1>5. CASE y = z /\ m = l /\ d < x
  BY <1>1, <1>2, <1>5, SMT DEF Number
<1> QED
  BY <1>3, <1>4, <1>5 DEF Earlier

LEMMA LessIsEarlier ==
    ASSUME NEW y, NEW m, NEW d, IsReal(y, m, d),
           NEW z, NEW l, NEW x, IsReal(z, l, x),
           Number(y, m, d) < Number(z, l, x)
    PROVE  Earlier(y, m, d, z, l, x)
<1>1. /\ y \in Int /\ m \in Int /\ d \in Int
      /\ z \in Int /\ l \in Int /\ x \in Int
      /\ Number(y, m, d) \in Int /\ Number(z, l, x) \in Int
  BY RealDays, WithinYear
<1>2. \/ Earlier(y, m, d, z, l, x)
      \/ Earlier(z, l, x, y, m, d)
      \/ y = z /\ m = l /\ d = x
  BY <1>1, SMT DEF Earlier
<1>3. ~Earlier(z, l, x, y, m, d)
  <2>1. SUFFICES ASSUME Earlier(z, l, x, y, m, d) PROVE FALSE
    OBVIOUS
  <2>2. Number(z, l, x) < Number(y, m, d)
    BY <2>1, EarlierIsLess
  <2> QED
    BY <1>1, <2>2, SMT
<1>4. ~(y = z /\ m = l /\ d = x)
  BY <1>1, SMT
<1> QED
  BY <1>2, <1>3, <1>4

(***************************************************************************)
(* What deadlines are computed with, for all dates.                        *)
(***************************************************************************)
IsDateAt(y, m, d) ==
    y \in FirstYear..LastYear /\ m \in Months /\ d \in 1..DaysInMonth(y, m)

LEMMA DatesAreReal ==
    ASSUME NEW y, NEW m, NEW d
    PROVE  /\ IsDate(Date(y, m, d)) <=> IsDateAt(y, m, d)
           /\ IsDateAt(y, m, d) =>
                 IsReal(y, m, d) /\ DaysFromCivil(Date(y, m, d)) = Number(y, m, d)
<1>1. IsDate(Date(y, m, d)) <=> IsDateAt(y, m, d)
  BY DEF IsDate, IsDateAt, Date
<1>2. ASSUME IsDateAt(y, m, d)
      PROVE  IsReal(y, m, d) /\ DaysFromCivil(Date(y, m, d)) = Number(y, m, d)
  <2>1. IsReal(y, m, d)
    BY <1>2 DEF IsDateAt, IsReal, FirstYear
  <2>2. y \in Int /\ m \in Months /\ d \in Int
    BY <2>1, RealDays DEF IsReal
  <2> QED
    BY <2>1, <2>2, DaysAreCounted
<1> QED
  BY <1>1, <1>2

\* The conversions of days_from_civil and civil_from_days undo each other: on
\* every valid date, however far from today, the way there and back is the date.
THEOREM DatesReturn ==
    \A y, m, d : IsDate(Date(y, m, d)) =>
        CivilFromDays(DaysFromCivil(Date(y, m, d))) = Date(y, m, d)
<1> SUFFICES ASSUME NEW y, NEW m, NEW d, IsDate(Date(y, m, d))
             PROVE  CivilFromDays(DaysFromCivil(Date(y, m, d))) = Date(y, m, d)
  OBVIOUS
<1>1. IsReal(y, m, d) /\ DaysFromCivil(Date(y, m, d)) = Number(y, m, d)
  BY DatesAreReal
<1> QED
  BY <1>1, WayBack

\* Deadlines may be compared as dates (the derived order of Date: year, month,
\* day) or as the numbers of days_from_civil: an earlier valid date has the
\* smaller number, and only an earlier one.
THEOREM DaysOrderDates ==
    \A y, m, d, z, l, x :
        IsDate(Date(y, m, d)) /\ IsDate(Date(z, l, x)) =>
            (DaysFromCivil(Date(y, m, d)) < DaysFromCivil(Date(z, l, x))
                <=> Earlier(y, m, d, z, l, x))
<1> SUFFICES ASSUME NEW y, NEW m, NEW d, NEW z, NEW l, NEW x,
                    IsDate(Date(y, m, d)), IsDate(Date(z, l, x))
             PROVE  DaysFromCivil(Date(y, m, d)) < DaysFromCivil(Date(z, l, x))
                        <=> Earlier(y, m, d, z, l, x)
  OBVIOUS
<1>1. /\ IsReal(y, m, d) /\ DaysFromCivil(Date(y, m, d)) = Number(y, m, d)
      /\ IsReal(z, l, x) /\ DaysFromCivil(Date(z, l, x)) = Number(z, l, x)
  BY DatesAreReal
<1>2. Earlier(y, m, d, z, l, x) => Number(y, m, d) < Number(z, l, x)
  BY <1>1, EarlierIsLess
<1>3. Number(y, m, d) < Number(z, l, x) => Earlier(y, m, d, z, l, x)
  BY <1>1, LessIsEarlier
<1> QED
  BY <1>1, <1>2, <1>3

\* The first and the last day of the calendar.
FirstDay == DaysFromCivil(Date(FirstYear, 1, 1))
LastDay == DaysFromCivil(Date(LastYear, 12, 31))

LEMMA Ends ==
    /\ FirstDay = Number(1, 1, 1) /\ LastDay = Number(9999, 12, 31)
    /\ IsReal(1, 1, 1) /\ IsReal(9999, 12, 31)
    /\ FirstDay \in Int /\ LastDay \in Int
<1>1. IsDateAt(1, 1, 1) /\ IsDateAt(9999, 12, 31)
  BY SMT DEF IsDateAt, DaysInMonth, FirstYear, LastYear, Months
<1>2. FirstDay = Number(1, 1, 1) /\ LastDay = Number(9999, 12, 31)
  BY <1>1, DatesAreReal, SMT DEF FirstDay, LastDay, FirstYear, LastYear
<1>3. IsReal(1, 1, 1) /\ IsReal(9999, 12, 31)
  BY <1>1, DatesAreReal, SMT
<1>4. Number(1, 1, 1) \in Int /\ Number(9999, 12, 31) \in Int
  BY <1>3, WithinYear, SMT
<1> QED
  BY <1>2, <1>3, <1>4, SMT

\* The years of the calendar are those between its ends.
LEMMA InsideCalendar ==
    ASSUME NEW y, NEW m, NEW d, IsReal(y, m, d)
    PROVE  IsDateAt(y, m, d)
               <=> FirstDay <= Number(y, m, d) /\ Number(y, m, d) <= LastDay
<1>1. /\ y \in Int /\ m \in Int /\ 1 <= m /\ m <= 12
      /\ d \in Int /\ 1 <= d /\ d <= DaysInMonth(y, m) /\ d <= 31
      /\ m \in Months /\ d \in 1..DaysInMonth(y, m)
  BY RealDays DEF IsReal
<1>2. Number(y, m, d) \in Int
  BY WithinYear
<1>3. IsDateAt(y, m, d) <=> 1 <= y /\ y <= 9999
  BY <1>1, SMT DEF IsDateAt, FirstYear, LastYear
<1>4. ASSUME 1 <= y, y <= 9999
      PROVE  FirstDay <= Number(y, m, d) /\ Number(y, m, d) <= LastDay
  <2>1. ~Earlier(y, m, d, 1, 1, 1) /\ ~Earlier(9999, 12, 31, y, m, d)
    BY <1>1, <1>4, SMT DEF Earlier
  <2>2. ~(Number(y, m, d) < Number(1, 1, 1))
    BY <2>1, Ends, LessIsEarlier, SMT
  <2>3. ~(Number(9999, 12, 31) < Number(y, m, d))
    BY <2>1, Ends, LessIsEarlier, SMT
  <2> QED
    BY <1>2, <2>2, <2>3, Ends, SMT
<1>5. ASSUME y < 1
      PROVE  Number(y, m, d) < FirstDay
  <2>1. Earlier(y, m, d, 1, 1, 1)
    BY <1>5 DEF Earlier
  <2> QED
    BY <2>1, Ends, EarlierIsLess, SMT
<1>6. ASSUME 9999 < y
      PROVE  LastDay < Number(y, m, d)
  <2>1. Earlier(9999, 12, 31, y, m, d)
    BY <1>6, SMT DEF Earlier
  <2> QED
    BY <2>1, Ends, EarlierIsLess, SMT
<1> QED
  BY <1>1, <1>2, <1>3, <1>4, <1>5, <1>6, Ends, SMT

\* checked_add_days, for every valid date and every number of days: the result
\* is a valid date, and the one whose number is the sum, as long as the sum is
\* a day of the calendar; beyond either end there is no result, never a wrapped
\* or a clamped date.
THEOREM EveryAdditionIsExact ==
    \A y, m, d : \A k \in Int : IsDate(Date(y, m, d)) =>
        LET sum == DaysFromCivil(Date(y, m, d)) + k
        IN  /\ \A s \in AddDays(Date(y, m, d), k) :
                  IsDate(s) /\ DaysFromCivil(s) = sum
            /\ AddDays(Date(y, m, d), k) # {} <=> FirstDay <= sum /\ sum <= LastDay
<1> SUFFICES ASSUME NEW y, NEW m, NEW d, NEW k \in Int, IsDate(Date(y, m, d))
             PROVE  LET sum == DaysFromCivil(Date(y, m, d)) + k
                    IN  /\ \A s \in AddDays(Date(y, m, d), k) :
                              IsDate(s) /\ DaysFromCivil(s) = sum
                        /\ AddDays(Date(y, m, d), k) # {}
                              <=> FirstDay <= sum /\ sum <= LastDay
  OBVIOUS
<1>1. DaysFromCivil(Date(y, m, d)) \in Int
  BY DatesAreReal, WithinYear
<1>2. PICK sum \in Int : sum = DaysFromCivil(Date(y, m, d)) + k
  BY <1>1
<1>3. PICK z, l, x : /\ IsReal(z, l, x) /\ CivilFromDays(sum) = Date(z, l, x)
                     /\ Number(z, l, x) = sum
  BY <1>2, WayThere
<1>4. AddDays(Date(y, m, d), k) = {s \in {Date(z, l, x)} : IsDate(s)}
  BY <1>2, <1>3 DEF AddDays
<1>5. IsDate(Date(z, l, x)) <=> FirstDay <= sum /\ sum <= LastDay
  BY <1>3, DatesAreReal, InsideCalendar
<1>6. IsDate(Date(z, l, x)) => DaysFromCivil(Date(z, l, x)) = sum
  BY <1>3, DatesAreReal
<1> QED
  BY <1>2, <1>4, <1>5, <1>6

\* A year is at least 365 days, and at most 366.
LEMMA NewYearBounds ==
    ASSUME NEW y \in Int
    PROVE  /\ NewYear(y) \in Int
           /\ y >= 1 => /\ 365 * (y - 1) - 719162 <= NewYear(y)
                        /\ NewYear(y) <= 366 * (y - 1) - 719162
           /\ y < 1 => NewYear(y) <= 365 * (y - 1) - 719161
<1>1. PICK a \in Int : a = y - 1
  OBVIOUS
<1>2. NewYear(y) = 365 * a + a \div 4 - a \div 100 + a \div 400 - 719162
  BY <1>1, SMT DEF NewYear
<1>3. a >= 0 => /\ 0 <= a \div 4 - a \div 100 + a \div 400
                /\ a \div 4 - a \div 100 + a \div 400 <= a
  BY SMT
<1>4. a < 0 => a \div 4 - a \div 100 + a \div 400 <= 1
  BY SMT
<1> QED
  BY <1>1, <1>2, <1>3, <1>4, SMT

IsInt32(n) == n \in Int /\ -2147483648 <= n /\ n <= 2147483647

\* The fallbacks of civil_from_days (unwrap_or) are never taken: whatever i32
\* is added to a valid date, the year found is an i32 and month and day are
\* those of a month, so Date::new judges the date that was computed.
THEOREM FallbacksAreNeverTaken ==
    \A y, m, d : \A k \in Int : IsDate(Date(y, m, d)) /\ IsInt32(k) =>
        \E z, l, x :
            /\ CivilFromDays(DaysFromCivil(Date(y, m, d)) + k) = Date(z, l, x)
            /\ IsInt32(z) /\ l \in Months /\ x \in 1..31
<1> SUFFICES ASSUME NEW y, NEW m, NEW d, NEW k \in Int,
                    IsDate(Date(y, m, d)), IsInt32(k)
             PROVE  \E z, l, x :
                       /\ CivilFromDays(DaysFromCivil(Date(y, m, d)) + k)
                              = Date(z, l, x)
                       /\ IsInt32(z) /\ l \in Months /\ x \in 1..31
  OBVIOUS
<1>1. IsReal(y, m, d) /\ IsDateAt(y, m, d)
      /\ DaysFromCivil(Date(y, m, d)) = Number(y, m, d)
  BY DatesAreReal
<1>2. y \in Int /\ 1 <= y /\ y <= 9999
  BY <1>1, SMT DEF IsDateAt, FirstYear, LastYear
<1>3. PICK n \in Int : n = Number(y, m, d)
  BY <1>1, WithinYear
<1>4. -719162 <= n /\ n < 366 * 9999 - 719162
  <2>1. NewYear(y) <= n /\ n < NewYear(y + 1)
    BY <1>1, <1>3, WithinYear, SMT
  <2>2. NewYear(y) \in Int /\ 365 * (y - 1) - 719162 <= NewYear(y)
    BY <1>2, NewYearBounds, SMT
  <2>3. PICK w \in Int : w = y + 1
    BY <1>2
  <2>4. NewYear(w) \in Int /\ NewYear(w) <= 366 * (w - 1) - 719162
    BY <1>2, <2>3, NewYearBounds, SMT
  <2> QED
    BY <1>2, <2>1, <2>2, <2>3, <2>4, SMT
<1>5. PICK sum \in Int : sum = n + k
  OBVIOUS
<1>6. PICK z, l, x : /\ IsReal(z, l, x) /\ CivilFromDays(sum) = Date(z, l, x)
                     /\ Number(z, l, x) = sum
  BY WayThere
<1>7. z \in Int /\ l \in Months /\ x \in 1..31
  BY <1>6, RealDays DEF IsReal
<1>8. NewYear(z) <= sum /\ sum < NewYear(z + 1)
  BY <1>6, WithinYear, SMT
<1>9. -2147483648 <= k /\ k <= 2147483647
  BY SMT DEF IsInt32
<1>10. z <= 2147483647
  <2>1. z >= 1 => NewYear(z) \in Int /\ 365 * (z - 1) - 719162 <= NewYear(z)
    BY <1>7, NewYearBounds, SMT
  <2> QED
    BY <1>4, <1>5, <1>7, <1>8, <1>9, <2>1, SMT
<1>11. -2147483648 <= z
  <2>1. PICK w \in Int : w = z + 1
    BY <1>7
  <2>2. w < 1 => NewYear(w) \in Int /\ NewYear(w) <= 365 * (w - 1) - 719161
    BY <2>1, NewYearBounds, SMT
  <2>3. sum < NewYear(w)
    BY <1>8, <2>1, SMT
  <2> QED
    BY <1>4, <1>5, <1>7, <1>9, <2>1, <2>2, <2>3, SMT
<1>12. IsInt32(z)
  BY <1>7, <1>10, <1>11, SMT DEF IsInt32
<1> QED
  BY <1>1, <1>3, <1>5, <1>6, <1>7, <1>12, Zenon

(***************************************************************************)
(* The calendar that counts agrees.                                        *)
(***************************************************************************)
LEMMA LengthsOfMonths ==
    ASSUME NEW y \in Int, NEW m \in Months
    PROVE  MonthLengths(y)[m] = DaysInMonth(y, m)
<1>1. \/ m = 1 \/ m = 2 \/ m = 3 \/ m = 4 \/ m = 5 \/ m = 6 \/ m = 7 \/ m = 8
      \/ m = 9 \/ m = 10 \/ m = 11 \/ m = 12
  BY DEF Months
<1>2. LeapDay(y) \in 0..1 /\ (IsLeapYear(y) <=> LeapDay(y) = 1)
  BY LeapDays
<1> QED
  BY <1>1, <1>2 DEF MonthLengths, DaysInMonth

\* DaysBefore is the recursive function it is defined to be.
LEMMA DaysBeforeUnrolls ==
    ASSUME NEW y,
           NEW g, g = [m \in Months |->
                         IF m = 1 THEN 0 ELSE g[m - 1] + MonthLengths(y)[m - 1]]
    PROVE  DaysBefore(y) =
               [m \in Months |->
                  IF m = 1 THEN 0
                           ELSE DaysBefore(y)[m - 1] + MonthLengths(y)[m - 1]]
  BY DEF DaysBefore

\* One after the other, the months begin where DaysTo says.
LEMMA MonthsAdd ==
    ASSUME NEW y \in Int
    PROVE  \A m \in Months : DaysBefore(y)[m] = DaysTo(y, m)
<1> DEFINE g == [m \in Months |-> DaysTo(y, m)]
<1>1. \A m \in Months : m # 1 =>
         /\ m - 1 \in Months
         /\ DaysTo(y, m) = DaysTo(y, m - 1) + MonthLengths(y)[m - 1]
  <2> SUFFICES ASSUME NEW m \in Months, m # 1
               PROVE  /\ m - 1 \in Months
                      /\ DaysTo(y, m) = DaysTo(y, m - 1) + MonthLengths(y)[m - 1]
    OBVIOUS
  <2>1. m - 1 \in Months /\ m - 1 < 12 /\ (m - 1) + 1 = m
    BY DEF Months
  <2>2. DaysTo(y, m - 1) + DaysInMonth(y, m - 1) = DaysTo(y, (m - 1) + 1)
    BY <2>1, DaysToGrow
  <2>3. MonthLengths(y)[m - 1] = DaysInMonth(y, m - 1)
    BY <2>1, LengthsOfMonths
  <2> QED
    BY <2>1, <2>2, <2>3
<1>2. DaysTo(y, 1) = 0
  BY DaysToGrow DEF Months
<1>3. g = [m \in Months |-> IF m = 1 THEN 0 ELSE g[m - 1] + MonthLengths(y)[m - 1]]
  BY <1>1, <1>2
<1>4. PICK b : b = DaysBefore(y)
  OBVIOUS
<1>5. b = [m \in Months |-> IF m = 1 THEN 0 ELSE b[m - 1] + MonthLengths(y)[m - 1]]
  <2> HIDE DEF g
  <2> QED
    BY <1>3, <1>4, DaysBeforeUnrolls
<1>6. b[1] = 0 /\ \A m \in Months : m # 1 => b[m] = b[m - 1] + MonthLengths(y)[m - 1]
  BY <1>5 DEF Months
<1>7. b[1] = DaysTo(y, 1)
  BY <1>2, <1>6
<1>8. ASSUME NEW m \in Months, m # 1, b[m - 1] = DaysTo(y, m - 1)
      PROVE  b[m] = DaysTo(y, m)
  BY <1>1, <1>6, <1>8
<1> HIDE DEF g
<1>9. 2 \in Months /\ b[2] = DaysTo(y, 2)
  BY <1>7, <1>8 DEF Months
<1>10. 3 \in Months /\ b[3] = DaysTo(y, 3)
  BY <1>8, <1>9 DEF Months
<1>11. 4 \in Months /\ b[4] = DaysTo(y, 4)
  BY <1>8, <1>10 DEF Months
<1>12. 5 \in Months /\ b[5] = DaysTo(y, 5)
  BY <1>8, <1>11 DEF Months
<1>13. 6 \in Months /\ b[6] = DaysTo(y, 6)
  BY <1>8, <1>12 DEF Months
<1>14. 7 \in Months /\ b[7] = DaysTo(y, 7)
  BY <1>8, <1>13 DEF Months
<1>15. 8 \in Months /\ b[8] = DaysTo(y, 8)
  BY <1>8, <1>14 DEF Months
<1>16. 9 \in Months /\ b[9] = DaysTo(y, 9)
  BY <1>8, <1>15 DEF Months
<1>17. 10 \in Months /\ b[10] = DaysTo(y, 10)
  BY <1>8, <1>16 DEF Months
<1>18. 11 \in Months /\ b[11] = DaysTo(y, 11)
  BY <1>8, <1>17 DEF Months
<1>19. 12 \in Months /\ b[12] = DaysTo(y, 12)
  BY <1>8, <1>18 DEF Months
<1>20. \A m \in Months : \/ m = 1 \/ m = 2 \/ m = 3 \/ m = 4 \/ m = 5 \/ m = 6
                         \/ m = 7 \/ m = 8 \/ m = 9 \/ m = 10 \/ m = 11 \/ m = 12
  BY DEF Months
<1> QED
  BY <1>4, <1>7, <1>9, <1>10, <1>11, <1>12, <1>13, <1>14, <1>15, <1>16, <1>17,
     <1>18, <1>19, <1>20

\* Counting from year to year arrives where the closed formula says.
Counted == year \in 0..LastYear /\ newYear = NewYear(year)

LEMMA CountingStarts == CalendarInit => Counted
<1>1. NewYear(0) = -719528
  <2>1. LeapDay(0) = 1
    BY SMT DEF LeapDay
  <2>2. NewYear(1) = NewYear(0) + 365 + LeapDay(0)
    BY NextNewYear, SMT
  <2>3. PICK a \in Int : a = 1 - 1
    OBVIOUS
  <2>4. NewYear(1) = 365 * a + a \div 4 - a \div 100 + a \div 400 - 719162
    BY <2>3, SMT DEF NewYear
  <2>5. NewYear(0) \in Int
    BY SMT DEF NewYear
  <2> QED
    BY <2>1, <2>2, <2>3, <2>4, <2>5, SMT
<1> QED
  BY <1>1, SMT DEF CalendarInit, Counted, LastYear

LEMMA CountingGoesOn == Counted /\ [NextYear]_calendar => Counted'
<1> SUFFICES ASSUME Counted, [NextYear]_calendar PROVE Counted'
  OBVIOUS
<1>1. CASE NextYear
  <2>1. year \in Int /\ 0 <= year /\ year < LastYear /\ newYear = NewYear(year)
    BY <1>1, SMT DEF Counted, NextYear, LastYear
  <2>2. year' \in 0..LastYear
    BY <1>1, <2>1, SMT DEF NextYear, LastYear
  <2>3. newYear' = NewYear(year + 1)
    BY <1>1, <2>1, NextNewYear, SMT DEF NextYear
  <2> QED
    BY <1>1, <2>2, <2>3, SMT DEF NextYear, Counted
<1>2. CASE UNCHANGED calendar
  BY <1>2, SMT DEF Counted, calendar
<1> QED
  BY <1>1, <1>2

LEMMA CountedConverts == Counted => ConversionsCount
<1> SUFFICES ASSUME Counted, year >= FirstYear,
                    NEW m \in Months, NEW d \in 0..32
             PROVE  /\ IsDate(Date(year, m, d)) <=> d \in 1..MonthLengths(year)[m]
                    /\ IsDate(Date(year, m, d)) =>
                          LET number == newYear + DaysBefore(year)[m] + d - 1
                          IN  /\ DaysFromCivil(Date(year, m, d)) = number
                              /\ CivilFromDays(number) = Date(year, m, d)
  BY Zenon DEF ConversionsCount
<1>1. year \in Int /\ year \in FirstYear..LastYear /\ newYear = NewYear(year)
  BY SMT DEF Counted, FirstYear, LastYear
<1>2. IsDate(Date(year, m, d)) <=> d \in 1..MonthLengths(year)[m]
  <2>1. MonthLengths(year)[m] = DaysInMonth(year, m)
    BY <1>1, LengthsOfMonths
  <2> QED
    BY <1>1, <2>1, DatesAreReal DEF IsDateAt
<1>3. newYear + DaysBefore(year)[m] + d - 1 = Number(year, m, d)
  BY <1>1, MonthsAdd DEF Number
<1>4. ASSUME IsDate(Date(year, m, d))
      PROVE  /\ DaysFromCivil(Date(year, m, d)) = Number(year, m, d)
             /\ CivilFromDays(Number(year, m, d)) = Date(year, m, d)
  BY <1>4, DatesAreReal, WayBack
<1> QED
  BY <1>2, <1>3, <1>4

LEMMA CountedAdds == Counted => AdditionIsExact
<1> SUFFICES ASSUME Counted, year >= FirstYear, NEW k \in Offsets,
                    NEW date \in {Date(year, 1, 1), Date(year, 2, 28),
                                  Date(year, 12, 31)}
             PROVE  LET sum == DaysFromCivil(date) + k
                    IN  IF sum \in FirstDay..LastDay
                        THEN \E s \in AddDays(date, k) : DaysFromCivil(s) = sum
                        ELSE AddDays(date, k) = {}
  BY Zenon DEF AdditionIsExact, FirstDay, LastDay
<1>1. year \in FirstYear..LastYear
  BY SMT DEF Counted, FirstYear, LastYear
<1>2. PICK m, d : date = Date(year, m, d)
                  /\ ((m = 1 /\ d = 1) \/ (m = 2 /\ d = 28) \/ (m = 12 /\ d = 31))
  OBVIOUS
<1>3. IsDateAt(year, m, d)
  BY <1>1, <1>2 DEF IsDateAt, DaysInMonth, Months
<1>4. IsDate(date) /\ DaysFromCivil(date) \in Int
  BY <1>2, <1>3, DatesAreReal, WithinYear
<1>5. k \in Int
  BY CalendarAssumption
<1>6. PICK sum \in Int : sum = DaysFromCivil(date) + k
  BY <1>4, <1>5
<1>7. /\ \A s \in AddDays(date, k) : DaysFromCivil(s) = sum
      /\ AddDays(date, k) # {} <=> FirstDay <= sum /\ sum <= LastDay
  BY <1>2, <1>4, <1>5, <1>6, EveryAdditionIsExact
<1>8. sum \in FirstDay..LastDay <=> FirstDay <= sum /\ sum <= LastDay
  BY <1>6, Ends
<1> QED
  BY <1>6, <1>7, <1>8

\* Validity in Date::new, both conversions and the addition agree with a
\* calendar that counts days from year to year and from month to month, in all
\* its years and for whatever numbers of days are added.
THEOREM DatesAlwaysExact == CalendarSpec => []DatesAreExact
<1>1. Counted => DatesAreExact
  BY CountedConverts, CountedAdds DEF DatesAreExact
<1> QED
  BY <1>1, CountingStarts, CountingGoesOn, PTL DEF CalendarSpec
=============================================================================
