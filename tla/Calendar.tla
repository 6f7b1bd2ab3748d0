------------------------------- MODULE Calendar -------------------------------
(***************************************************************************)
(* Dates, and the rules that name a day of every year, computed twice: by  *)
(* the Go code and by the functions of the database.                       *)
(*                                                                         *)
(* A date is the number of days since Monday, 1 January of the year 1, in  *)
(* the calendar of today.  Adding days to a date is adding numbers, and a  *)
(* day beyond the end of its month is a day of the next one: so does       *)
(* time.Date.  make_date refuses such a day; a function of the database    *)
(* that finds no date gives NoDate.                                        *)
(***************************************************************************)
EXTENDS Integers

NoDate == -1

Leap(y) == y % 4 = 0 /\ (y % 100 # 0 \/ y % 400 = 0)
Length(y, m) ==
    CASE m = 2 -> IF Leap(y) THEN 29 ELSE 28
      [] m \in {4, 6, 9, 11} -> 30
      [] OTHER -> 31

NewYear(y) == LET n == y - 1 IN 365 * n + n \div 4 - n \div 100 + n \div 400
DaysBefore(y, m) ==
    <<0, 31, 59, 90, 120, 151, 181, 212, 243, 273, 304, 334>>[m] +
        (IF Leap(y) /\ m > 2 THEN 1 ELSE 0)

\* time.Date: the month may be one too many.
GoDate(y, m, d) ==
    IF m = 13 THEN NewYear(y + 1) + d - 1 ELSE NewYear(y) + DaysBefore(y, m) + d - 1
\* make_date
SqlDate(y, m, d) == IF d \in 1 .. Length(y, m) THEN GoDate(y, m, d) ELSE NoDate

IsoWeekday(date) == (date % 7) + 1        \* 1 is Monday
GoWeekday(date) == (date + 1) % 7       \* 0 is Sunday

InYear(date, y) == NewYear(y) <= date /\ date < NewYear(y + 1)

\* Mutant: a day too early.
computeSaturday(y) ==
    LET a == y % 19
        b == y \div 100
        c == y % 100
        f == (b + 8) \div 25
        g == (b - f + 1) \div 3
        h == (19 * a + b - b \div 4 - g + 15) % 30
        l == (32 + 2 * (b % 4) + 2 * (c \div 4) - h - (c % 4)) % 7
        n == h + l - 7 * ((a + 11 * h + 22 * l) \div 451) + 114
    IN  GoDate(y, n \div 31, n % 31)

\* Its comment says: the Anonymous Gregorian algorithm.
computeEaster(y) ==
    LET a == y % 19
        b == y \div 100
        c == y % 100
        f == (b + 8) \div 25
        g == (b - f + 1) \div 3
        h == (19 * a + b - b \div 4 - g + 15) % 30
        l == (32 + 2 * (b % 4) + 2 * (c \div 4) - h - (c % 4)) % 7
        m == (a + 11 * h + 22 * l) \div 451
        n == h + l - 7 * m + 114
    IN  GoDate(y, n \div 31, (n % 31) + 1)

\* Mutant: one day later.
nextDay(date) == IF GoWeekday(date) \in {0, 6} THEN date + 1 ELSE date

\* Saturday and Sunday are observed on Monday.
substituteDate(date) ==
    CASE GoWeekday(date) = 6 -> date + 2
      [] GoWeekday(date) = 0 -> date + 1
      [] OTHER -> date

Wrapped(offset) == IF offset < 0 THEN offset + 7 ELSE offset

nthWeekdayOfMonth(y, m, weekday, nth) ==
    LET goWeekday == weekday % 7
        first == GoDate(y, m, 1)
        lastDay == GoDate(y, m + 1, 0)
    IN  IF nth > 0
        THEN first + Wrapped(goWeekday - GoWeekday(first)) + (nth - 1) * 7
        ELSE lastDay - Wrapped(GoWeekday(lastDay) - goWeekday)

fn_nth_weekday(y, m, weekday, nth) ==
    LET first == SqlDate(y, m, 1)
        lastDay == first + Length(y, m) - 1
        date == first + ((weekday - IsoWeekday(first) + 7) % 7) + (nth - 1) * 7
    IN  IF nth = -1 THEN lastDay - ((IsoWeekday(lastDay) - weekday + 7) % 7)
        ELSE IF date > lastDay THEN NoDate ELSE date

-----------------------------------------------------------------------------
\* The rule of the Church: the Sunday after the full moon that the epact of
\* the year puts on or after 21 March.
FullMoon(y) ==
    LET golden == (y % 19) + 1
        century == y \div 100 + 1
        solar == (3 * century) \div 4 - 12
        lunar == (8 * century + 5) \div 25 - 5
        e == (11 * golden + 20 + lunar - solar) % 30
        epact == IF e = 24 \/ (e = 25 /\ golden > 11) THEN e + 1 ELSE e
    IN  GoDate(y, 3, 44 - epact + (IF 44 - epact < 21 THEN 30 ELSE 0))

\* Easter is the first Sunday after that full moon.
EasterIsRight(y) ==
    LET easter == computeEaster(y)
    IN  IsoWeekday(easter) = 7 /\ easter - FullMoon(y) \in 1 .. 7

\* The two ways to find the nth weekday agree, unless the month has no nth.
WeekdaysAgree(y) ==
    \A m \in 1 .. 12, weekday \in 1 .. 7, nth \in {-1} \cup 1 .. 5 :
        LET sql == fn_nth_weekday(y, m, weekday, nth)
            go == nthWeekdayOfMonth(y, m, weekday, nth)
            lastDay == GoDate(y, m, Length(y, m))
        IN  IF sql = NoDate
            THEN nth = 5 /\ go > lastDay
            ELSE go = sql /\ IsoWeekday(go) = weekday
=============================================================================
