---------------------------- MODULE CalendarDates ----------------------------
(***************************************************************************)
(* The calendar arithmetic behind deadlines: a date is turned into a day   *)
(* number (days since 1970-01-01), days are added, and the number is       *)
(* turned back.  The two conversions are closed formulas; the calendar     *)
(* they must agree with is the one that counts, from year to year, and     *)
(* inside a year from month to month.                                      *)
(***************************************************************************)
EXTENDS Integers

CONSTANT Offsets  \* numbers of days that are added to dates

ASSUME CalendarAssumption == Offsets \subseteq Int

FirstYear == 1
LastYear == 9999
Months == 1..12

VARIABLES
    year,     \* a year of the calendar
    newYear   \* days from 1970-01-01 to the first of January of that year

calendar == <<year, newYear>>

Date(y, m, d) == [year |-> y, month |-> m, day |-> d]

(***************************************************************************)
(* temporal.rs                                                             *)
(***************************************************************************)
IsLeapYear(y) == y % 4 = 0 /\ (y % 100 # 0 \/ y % 400 = 0)

DaysInMonth(y, m) ==
    CASE m \in {4, 6, 9, 11} -> 30
      [] m = 2               -> IF IsLeapYear(y) THEN 29 ELSE 28
      [] OTHER               -> 31

\* Date::new
IsDate(date) ==
    /\ date.year \in FirstYear..LastYear /\ date.month \in Months
    /\ date.day \in 1..DaysInMonth(date.year, date.month)

\* days_from_civil; \div is div_euclid.  Years begin with March, so that the
\* leap day is the last.
DaysFromCivil(date) ==
    LET adjusted == date.year - (IF date.month <= 2 THEN 1 ELSE 0)
        era == adjusted \div 400
        yearOfEra == adjusted - era * 400
        month == date.month + (IF date.month > 2 THEN -3 ELSE 9)
        dayOfYear == (153 * month + 2) \div 5 + date.day - 1
        dayOfEra == yearOfEra * 365 + yearOfEra \div 4
                        - yearOfEra \div 100 + dayOfYear
    IN  era * 146097 + dayOfEra - 719468

\* Mutant: the last day of an era counts as the first of the next year.
YearOfEra_NoLastDay(n) == (n - n \div 1460 + n \div 36524) \div 365

YearOfEra(n) == (n - n \div 1460 + n \div 36524 - n \div 146096) \div 365

\* civil_from_days
CivilFromDays(days) ==
    LET shifted == days + 719468
        era == shifted \div 146097
        dayOfEra == shifted - era * 146097
        yearOfEra == YearOfEra(dayOfEra)
        dayOfYear == dayOfEra - (365 * yearOfEra + yearOfEra \div 4
                                     - yearOfEra \div 100)
        monthPrime == (5 * dayOfYear + 2) \div 153
        day == dayOfYear - (153 * monthPrime + 2) \div 5 + 1
        month == monthPrime + (IF monthPrime < 10 THEN 3 ELSE -9)
    IN  Date(yearOfEra + era * 400 + (IF month <= 2 THEN 1 ELSE 0), month, day)

\* checked_add_days: the sum, or no date at all.
AddDays(date, days) ==
    {s \in {CivilFromDays(DaysFromCivil(date) + days)} : IsDate(s)}

(***************************************************************************)
(* The calendar that counts                                                *)
(***************************************************************************)
LeapDay(y) ==
    IF (y % 4 = 0 /\ y % 100 # 0) \/ y % 400 = 0 THEN 1 ELSE 0

MonthLengths(y) == <<31, 28 + LeapDay(y), 31, 30, 31, 30, 31, 31, 30, 31, 30, 31>>

DaysBefore(y) ==
    LET before[m \in Months] ==
            IF m = 1 THEN 0 ELSE before[m - 1] + MonthLengths(y)[m - 1]
    IN  before

\* The counting begins with year zero, which is no year of the calendar.
CalendarInit == year = 0 /\ newYear = -719528

NextYear ==
    /\ year < LastYear
    /\ year' = year + 1
    /\ newYear' = newYear + 365 + LeapDay(year)

CalendarSpec == CalendarInit /\ [][NextYear]_calendar

(***************************************************************************)
(* Properties                                                              *)
(***************************************************************************)

\* A date is valid for Date::new exactly if the calendar has it, and the two
\* conversions agree with counting on every one of them: 1970-01-01 is day
\* zero, each next date the next day, and the way back returns the date.
ConversionsCount ==
    LET before == DaysBefore(year) IN
    year >= FirstYear => \A m \in Months : \A d \in 0..32 :
        /\ IsDate(Date(year, m, d)) <=> d \in 1..MonthLengths(year)[m]
        /\ IsDate(Date(year, m, d)) =>
              LET number == newYear + before[m] + d - 1
              IN  /\ DaysFromCivil(Date(year, m, d)) = number
                  /\ CivilFromDays(number) = Date(year, m, d)

\* Adding days to the first or the last date of a year moves the day number by
\* exactly that many days or leaves the calendar, never anything in between:
\* a deadline is not clamped or wrapped at its ends.
AdditionIsExact ==
    year >= FirstYear => \A k \in Offsets :
        \A date \in {Date(year, 1, 1), Date(year, 2, 28), Date(year, 12, 31)} :
            LET sum == DaysFromCivil(date) + k
            IN  IF sum \in DaysFromCivil(Date(FirstYear, 1, 1))
                              ..DaysFromCivil(Date(LastYear, 12, 31))
                THEN \E s \in AddDays(date, k) : DaysFromCivil(s) = sum
                ELSE AddDays(date, k) = {}

\* Both: what a deadline is computed with.
DatesAreExact == ConversionsCount /\ AdditionIsExact
=============================================================================
