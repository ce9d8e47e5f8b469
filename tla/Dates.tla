------------------------------- MODULE Dates -------------------------------
\* Calendar dates as crates/libitofin/src/time/date.rs has them: a serial number,
\* 1 for January 1st 1900 by Excel's count (which has a February 29th 1900), 0 for
\* the null date. The code accepts 1901 to 2199 and panics beyond; the models stay
\* within. Its tables of years and months are given here by what they tabulate.

EXTENDS Integers, Sequences

NullDate == 0

Date == Nat

Units == {"Days", "Weeks", "Months", "Years"}

Period == [length : Int, units : Units]

\* Weekday ordinals.
Sunday == 1
Wednesday == 4
Saturday == 7

\* YEAR_IS_LEAP: within 1901..2199 only 2100 breaks the rule of four.
IsLeap(y) == y % 4 = 0 /\ y # 2100

MonthLength(m, y) ==
    CASE m = 2 -> IF IsLeap(y) THEN 29 ELSE 28
      [] m \in {4, 6, 9, 11} -> 30
      [] OTHER -> 31

\* Days before the month; a 13th one closes the year.
MonthOffset(m, y) ==
    <<0, 31, 59, 90, 120, 151, 181, 212, 243, 273, 304, 334, 365>>[m]
        + (IF m > 2 /\ IsLeap(y) THEN 1 ELSE 0)

\* The serial number of December 31st of the preceding year (YEAR_OFFSET).
YearOffset(y) ==
    365 * (y - 1900) + ((y - 1897) \div 4) - (IF y > 2100 THEN 1 ELSE 0)

DateOf(d, m, y) == d + MonthOffset(m, y) + YearOffset(y)

Weekday(s) == IF s % 7 = 0 THEN 7 ELSE s % 7

Year[s \in Int] ==
    LET y == (s \div 365) + 1900 IN IF s <= YearOffset(y) THEN y - 1 ELSE y

DayOfYear[s \in Int] == s - YearOffset(Year[s])

\* Date::month starts from a guess and walks to the month that brackets the day.
Month[s \in Int] ==
    CHOOSE m \in 1..12 :
        /\ MonthOffset(m, Year[s]) < DayOfYear[s]
        /\ DayOfYear[s] <= MonthOffset(m + 1, Year[s])

DayOfMonth[s \in Int] == DayOfYear[s] - MonthOffset(Month[s], Year[s])

LastOfMonth[s \in Int] == DateOf(MonthLength(Month[s], Year[s]), Month[s], Year[s])

IsLastOfMonth(s) == DayOfMonth[s] = MonthLength(Month[s], Year[s])

\* nth_weekday: the n-th weekday w of the month.
NthWeekday(n, w, m, y) ==
    LET first == Weekday(DateOf(1, m, y))
        skip == n - (IF w >= first THEN 1 ELSE 0)
    IN  DateOf(1 + w + 7 * skip - first, m, y)

Smaller(a, b) == IF a < b THEN a ELSE b

\* Date::advance in months: the day is cut to the length of the month it lands in.
AddMonths[n \in Int] == [s \in Int |->
    LET months == 12 * Year[s] + Month[s] - 1 + n
        m == (months % 12) + 1
        y == months \div 12
    IN  DateOf(Smaller(DayOfMonth[s], MonthLength(m, y)), m, y)]

\* Date + Period.
Advance(s, p) ==
    CASE p.units = "Days" -> s + p.length
      [] p.units = "Weeks" -> s + 7 * p.length
      [] p.units = "Months" -> AddMonths[p.length][s]
      [] p.units = "Years" -> AddMonths[12 * p.length][s]

Times(n, p) == [p EXCEPT !.length = n * @]

============================================================================
