---------------------------- MODULE HolidaysProofs ----------------------------
(***************************************************************************)
(* Proofs about the calendar and the holidays, for any year, any rules and *)
(* any requests that generate together.                                    *)
(*                                                                         *)
(* The calendar comes first: the Go code and the functions of the database *)
(* find the same weekday of a month, in every year.  The observances rest  *)
(* on that, and on the loop of the trigger, which is a recursive function  *)
(* here: that it exists, and what it keeps, is shown by looking at the     *)
(* first step that would go wrong.                                         *)
(***************************************************************************)
EXTENDS Holidays, FiniteSetTheorems, WellFoundedInduction, TLAPS

-----------------------------------------------------------------------------
(* The calendar                                                            *)

\* A year has 365 days, or 366.
LEMMA YearLength ==
    ASSUME NEW y \in Nat \ {0}
    PROVE  /\ NewYear(y) \in Nat
           /\ NewYear(y + 1) = NewYear(y) + 365 + (IF Leap(y) THEN 1 ELSE 0)
<1> DEFINE n == y - 1
<1>1. n \in Nat /\ y = n + 1
  OBVIOUS
<1> HIDE DEF n
<1>2. /\ (n + 1) \div 4 = n \div 4 + (IF (n + 1) % 4 = 0 THEN 1 ELSE 0)
      /\ n \div 4 \in Nat
  BY <1>1
<1>3. /\ (n + 1) \div 100 = n \div 100 + (IF (n + 1) % 100 = 0 THEN 1 ELSE 0)
      /\ n \div 100 \in Nat /\ n \div 100 <= n \div 4
  BY <1>1
<1>4. /\ (n + 1) \div 400 = n \div 400 + (IF (n + 1) % 400 = 0 THEN 1 ELSE 0)
      /\ n \div 400 \in Nat
  BY <1>1
<1>5. /\ (n + 1) % 100 = 0 => (n + 1) % 4 = 0
      /\ (n + 1) % 400 = 0 => (n + 1) % 100 = 0
  BY <1>1
<1>6. NewYear(y) = 365 * n + n \div 4 - n \div 100 + n \div 400
  BY <1>1 DEF NewYear, n
<1>7. NewYear(y + 1) = 365 * (n + 1) + (n + 1) \div 4 - (n + 1) \div 100 + (n + 1) \div 400
  BY <1>1 DEF NewYear
<1>8. Leap(y) <=> (n + 1) % 4 = 0 /\ ((n + 1) % 100 # 0 \/ (n + 1) % 400 = 0)
  BY <1>1 DEF Leap
<1> QED
  BY <1>1, <1>2, <1>3, <1>4, <1>5, <1>6, <1>7, <1>8

\* The months follow each other, and the last one ends with the year.
LEMMA MonthLength ==
    ASSUME NEW y \in Nat \ {0}, NEW m \in 1 .. 12
    PROVE  /\ GoDate(y, m, 1) \in Nat
           /\ Length(y, m) \in 28 .. 31
           /\ \A d \in Int : GoDate(y, m, d) = GoDate(y, m, 1) + d - 1
           /\ GoDate(y, m + 1, 0) = GoDate(y, m, 1) + Length(y, m) - 1
<1>1. /\ NewYear(y) \in Nat
      /\ NewYear(y + 1) = NewYear(y) + 365 + (IF Leap(y) THEN 1 ELSE 0)
  BY YearLength
<1>2. DaysBefore(y, m) \in Nat /\ Length(y, m) \in 28 .. 31
  BY DEF DaysBefore, Length
<1>3. m < 12 => DaysBefore(y, m + 1) = DaysBefore(y, m) + Length(y, m)
  BY DEF DaysBefore, Length
<1>4. m = 12 => DaysBefore(y, m) + Length(y, m) = 365 + (IF Leap(y) THEN 1 ELSE 0)
  BY DEF DaysBefore, Length
<1>5. \A d \in Int : GoDate(y, m, d) = NewYear(y) + DaysBefore(y, m) + d - 1
  BY DEF GoDate
<1>6. GoDate(y, m, 1) = NewYear(y) + DaysBefore(y, m)
  BY <1>1, <1>2, <1>5
<1>7. GoDate(y, m + 1, 0) = GoDate(y, m, 1) + Length(y, m) - 1
  <2>1. CASE m = 12
    <3>1. GoDate(y, m + 1, 0) = NewYear(y + 1) - 1
      BY <1>1, <2>1 DEF GoDate
    <3> QED
      BY <1>1, <1>2, <1>4, <1>6, <2>1, <3>1
  <2>2. CASE m < 12
    <3>1. GoDate(y, m + 1, 0) = NewYear(y) + DaysBefore(y, m + 1) - 1
      BY <1>1, <1>2, <1>3, <2>2 DEF GoDate
    <3> QED
      BY <1>1, <1>2, <1>3, <1>6, <2>2, <3>1
  <2> QED
    BY <2>1, <2>2
<1> QED
  BY <1>1, <1>2, <1>5, <1>6, <1>7

\* The two ways to count the days to a weekday, from a day whose weekday is
\* counted from Monday or from Sunday.
LEMMA SameWeekdays ==
    ASSUME NEW date \in Nat, NEW weekday \in 1 .. 7
    PROVE  /\ Wrapped((weekday % 7) - GoWeekday(date)) = (weekday - IsoWeekday(date) + 7) % 7
           /\ Wrapped(GoWeekday(date) - (weekday % 7)) = (IsoWeekday(date) - weekday + 7) % 7
           /\ (weekday - IsoWeekday(date) + 7) % 7 \in 0 .. 6
           /\ (IsoWeekday(date) - weekday + 7) % 7 \in 0 .. 6
           /\ \A k \in Nat : IsoWeekday(date + ((weekday - IsoWeekday(date) + 7) % 7) + k * 7) = weekday
           /\ date >= 6 => IsoWeekday(date - ((IsoWeekday(date) - weekday + 7) % 7)) = weekday
<1> DEFINE r == date % 7
           q == date \div 7
<1>1. date = 7 * q + r /\ q \in Nat /\ r \in 0 .. 6
  OBVIOUS
<1>2. IsoWeekday(date) = r + 1
  BY DEF IsoWeekday
<1>3. GoWeekday(date) = IF r = 6 THEN 0 ELSE r + 1
  BY <1>1 DEF GoWeekday
<1> HIDE DEF r, q
<1>4. weekday % 7 = IF weekday = 7 THEN 0 ELSE weekday
  OBVIOUS
<1> DEFINE ahead == (weekday - IsoWeekday(date) + 7) % 7
           back == (IsoWeekday(date) - weekday + 7) % 7
<1>5. ahead = IF weekday >= r + 1 THEN weekday - r - 1 ELSE weekday - r - 1 + 7
  BY <1>1, <1>2
<1>6. back = IF r + 1 >= weekday THEN r + 1 - weekday ELSE r + 1 - weekday + 7
  BY <1>1, <1>2
<1> HIDE DEF ahead, back
<1>7. Wrapped((weekday % 7) - GoWeekday(date)) = ahead
  BY <1>1, <1>3, <1>4, <1>5 DEF Wrapped
<1>8. Wrapped(GoWeekday(date) - (weekday % 7)) = back
  BY <1>1, <1>3, <1>4, <1>6 DEF Wrapped
<1>9. ahead \in 0 .. 6 /\ back \in 0 .. 6
  BY <1>1, <1>5, <1>6
<1>10. ASSUME NEW k \in Nat PROVE IsoWeekday(date + ahead + k * 7) = weekday
  <2>1. (date + ahead + k * 7) % 7 = (r + ahead) % 7
    BY <1>1, <1>9
  <2>2. (r + ahead) % 7 = weekday - 1
    BY <1>1, <1>5
  <2> QED
    BY <2>1, <2>2 DEF IsoWeekday
<1>11. ASSUME date >= 6 PROVE IsoWeekday(date - back) = weekday
  <2>1. date - back = 7 * q + (r - back)
    BY <1>1, <1>9
  <2>2. (date - back) % 7 = weekday - 1
    BY <1>1, <1>6, <2>1
  <2> QED
    BY <2>2 DEF IsoWeekday
<1> QED
  BY <1>7, <1>8, <1>9, <1>10, <1>11 DEF ahead, back

\* The Go code and the database find the same weekday of a month, unless the
\* month has no fifth one: then the database finds none.
THEOREM WeekdaysAlwaysAgree == \A y \in Nat \ {0} : WeekdaysAgree(y)
<1> SUFFICES ASSUME NEW y \in Nat \ {0}, NEW m \in 1 .. 12, NEW weekday \in 1 .. 7,
                    NEW nth \in {-1} \cup 1 .. 5
             PROVE  LET sql == fn_nth_weekday(y, m, weekday, nth)
                        go == nthWeekdayOfMonth(y, m, weekday, nth)
                        lastDay == GoDate(y, m, Length(y, m))
                    IN  IF sql = NoDate
                        THEN nth = 5 /\ go > lastDay
                        ELSE go = sql /\ IsoWeekday(go) = weekday
  BY DEF WeekdaysAgree
<1> DEFINE first == GoDate(y, m, 1)
           len == Length(y, m)
           last == first + len - 1
           ahead == (weekday - IsoWeekday(first) + 7) % 7
           back == (IsoWeekday(last) - weekday + 7) % 7
           sql == fn_nth_weekday(y, m, weekday, nth)
           go == nthWeekdayOfMonth(y, m, weekday, nth)
<1>1. /\ first \in Nat /\ len \in 28 .. 31
      /\ GoDate(y, m, len) = last
      /\ GoDate(y, m + 1, 0) = last
      /\ SqlDate(y, m, 1) = first
  <2>1. /\ first \in Nat /\ len \in 28 .. 31
        /\ \A d \in Int : GoDate(y, m, d) = first + d - 1
        /\ GoDate(y, m + 1, 0) = first + len - 1
    BY MonthLength
  <2>2. GoDate(y, m, len) = last
    <3> HIDE DEF first, len
    <3> QED
      BY <2>1
  <2>3. 1 \in 1 .. len
    BY <2>1
  <2>4. SqlDate(y, m, 1) = first
    BY <2>3 DEF SqlDate
  <2> QED
    BY <2>1, <2>2, <2>4
<1>2. last \in Nat /\ last >= 27
  BY <1>1
<1>3. go = IF nth > 0 THEN first + Wrapped((weekday % 7) - GoWeekday(first)) + (nth - 1) * 7
           ELSE last - Wrapped(GoWeekday(last) - (weekday % 7))
  BY <1>1 DEF nthWeekdayOfMonth
<1>4. sql = IF nth = -1 THEN last - back
            ELSE IF first + ahead + (nth - 1) * 7 > last THEN NoDate
            ELSE first + ahead + (nth - 1) * 7
  BY <1>1 DEF fn_nth_weekday
<1> HIDE DEF first, len, sql, go
<1>5. /\ Wrapped((weekday % 7) - GoWeekday(first)) = ahead
      /\ ahead \in 0 .. 6
      /\ \A k \in Nat : IsoWeekday(first + ahead + k * 7) = weekday
  BY <1>1, SameWeekdays
<1> HIDE DEF last, ahead
<1>6. /\ Wrapped(GoWeekday(last) - (weekday % 7)) = back
      /\ back \in 0 .. 6
      /\ IsoWeekday(last - back) = weekday
  <2>1. last >= 6
    BY <1>2
  <2> QED
    BY <1>2, <2>1, SameWeekdays
<1> HIDE DEF back
<1>7. CASE nth = -1
  <2>1. go = last - back /\ sql = last - back
    BY <1>3, <1>4, <1>6, <1>7
  <2>2. sql # NoDate
    BY <1>2, <1>6, <2>1 DEF NoDate
  <2> QED
    BY <1>1, <1>6, <2>1, <2>2 DEF sql, go
<1>8. CASE nth \in 1 .. 5
  <2> DEFINE k == nth - 1
  <2>1. k \in 0 .. 4 /\ nth > 0 /\ nth # -1
    BY <1>8
  <2>2. go = first + ahead + k * 7
    BY <1>3, <1>5, <2>1
  <2>3. sql = IF first + ahead + k * 7 > last THEN NoDate ELSE first + ahead + k * 7
    BY <1>4, <2>1
  <2>4. IsoWeekday(go) = weekday
    <3>1. k \in Nat
      BY <2>1
    <3> HIDE DEF k
    <3>2. IsoWeekday(first + ahead + k * 7) = weekday
      BY <1>5, <3>1
    <3> QED
      BY <2>2, <3>2
  <2>5. go \in Nat
    BY <1>1, <1>5, <2>1, <2>2
  <2>6. go > last => nth = 5
    BY <1>1, <1>5, <2>1, <2>2 DEF last
  <2>7. IF sql = NoDate THEN nth = 5 /\ go > last ELSE go = sql /\ IsoWeekday(go) = weekday
    BY <2>2, <2>3, <2>4, <2>5, <2>6 DEF NoDate
  <2> QED
    BY <1>1, <2>7 DEF sql, go, len
<1> QED
  BY <1>7, <1>8
-----------------------------------------------------------------------------
(* Easter                                                                  *)

\* Two ways to count the corrections of the moon in the centuries.
LEMMA MoonCorrection ==
    ASSUME NEW b \in Nat
    PROVE  (b - ((b + 8) \div 25) + 1) \div 3 = (8 * b + 13) \div 25
<1> DEFINE q == b \div 25
           r == b % 25
<1>1. b = 25 * q + r /\ q \in Nat /\ r \in 0 .. 24
  OBVIOUS
<1> HIDE DEF q, r
<1>2. (b + 8) \div 25 = q + (IF r >= 17 THEN 1 ELSE 0)
  BY <1>1
<1>3. (b - ((b + 8) \div 25) + 1) \div 3 = 8 * q + ((r + 1 - (IF r >= 17 THEN 1 ELSE 0)) \div 3)
  BY <1>1, <1>2
<1>4. (8 * b + 13) \div 25 = 8 * q + ((8 * r + 13) \div 25)
  BY <1>1
<1>5. (r + 1 - (IF r >= 17 THEN 1 ELSE 0)) \div 3 = (8 * r + 13) \div 25
  BY <1>1
<1> QED
  BY <1>3, <1>4, <1>5

\* Two ways to count the leap days that the centuries leave out.
LEMMA SunCorrection ==
    ASSUME NEW b \in Nat
    PROVE  (3 * (b + 1)) \div 4 = b - b \div 4
  OBVIOUS

\* The age of the moon from its epact, and back.
LEMMA EpactOfMoon ==
    ASSUME NEW a \in 0 .. 18, NEW t \in Int
    PROVE  LET h == (19 * a + t + 15) % 30
               e == (11 * a + 38 - t) % 30
           IN  h \in 0 .. 29 /\ e = IF h <= 23 THEN 23 - h ELSE 53 - h
<1> DEFINE u == 19 * a + t + 15
           h == u % 30
           q == u \div 30
           e == (11 * a + 38 - t) % 30
<1>1. u \in Int /\ u = 30 * q + h /\ q \in Int /\ h \in 0 .. 29
  OBVIOUS
<1>2. 11 * a + 38 - t = 30 * (a - q) + (53 - h)
  BY <1>1
<1> HIDE DEF q, h
<1>3. e = (53 - h) % 30
  BY <1>1, <1>2
<1>4. (53 - h) % 30 = IF h <= 23 THEN 23 - h ELSE 53 - h
  BY <1>1
<1> QED
  BY <1>1, <1>3, <1>4 DEF h

\* The weekday of a day of March, from the century and the year in it.
LEMMA WeekdayInMarch ==
    ASSUME NEW y \in Nat \ {0}, NEW d \in Nat
    PROVE  LET b == y \div 100
               c == y % 100
           IN  (GoDate(y, 3, d) + 1) % 7 = (5 * (b % 4) + 5 * (c \div 4) + (c % 4) + d + 2) % 7
<1> DEFINE b == y \div 100
           c == y % 100
           n == y - 1
           leap == IF Leap(y) THEN 1 ELSE 0
<1>1. y = 100 * b + c /\ b \in Nat /\ c \in 0 .. 99
  OBVIOUS
<1>2. GoDate(y, 3, d) = 365 * n + n \div 4 - n \div 100 + n \div 400 + 59 + leap + d - 1
  BY DEF GoDate, NewYear, DaysBefore
<1>3. n \div 4 - n \div 100 + n \div 400 + leap = y \div 4 - y \div 100 + y \div 400
  <2>1. n \in Nat /\ y = n + 1
    OBVIOUS
  <2>2. (n + 1) \div 4 = n \div 4 + (IF (n + 1) % 4 = 0 THEN 1 ELSE 0)
    BY <2>1
  <2>3. (n + 1) \div 100 = n \div 100 + (IF (n + 1) % 100 = 0 THEN 1 ELSE 0)
    BY <2>1
  <2>4. (n + 1) \div 400 = n \div 400 + (IF (n + 1) % 400 = 0 THEN 1 ELSE 0)
    BY <2>1
  <2>5. /\ (n + 1) % 100 = 0 => (n + 1) % 4 = 0
        /\ (n + 1) % 400 = 0 => (n + 1) % 100 = 0
    BY <2>1
  <2>6. Leap(y) <=> (n + 1) % 4 = 0 /\ ((n + 1) % 100 # 0 \/ (n + 1) % 400 = 0)
    BY <2>1 DEF Leap
  <2> QED
    BY <2>1, <2>2, <2>3, <2>4, <2>5, <2>6
<1> HIDE DEF leap
<1>4. y \div 4 = 25 * b + c \div 4 /\ y \div 100 = b /\ y \div 400 = b \div 4
  <2> DEFINE i == c \div 4
             k == c % 4
  <2>1. c = 4 * i + k /\ i \in 0 .. 24 /\ k \in 0 .. 3
    <3> HIDE DEF c
    <3> QED
      BY <1>1
  <2> HIDE DEF b, c, i, k
  <2>2. b = 4 * (b \div 4) + (b % 4) /\ b % 4 \in 0 .. 3 /\ b \div 4 \in Nat
    BY <1>1
  <2>3. y \div 4 = 25 * b + i
    BY <1>1, <2>1
  <2>4. y \div 100 = b
    BY DEF b
  <2>5. y \div 400 = b \div 4
    BY <1>1, <2>2
  <2> QED
    BY <2>3, <2>4, <2>5 DEF i
<1> DEFINE i == c \div 4
           k == c % 4
           j == b % 4
           B == b \div 4
<1>5. c = 4 * i + k /\ b = 4 * B + j /\ i \in Nat /\ k \in Nat /\ j \in Nat /\ B \in Nat
  <2> HIDE DEF b, c
  <2> QED
    BY <1>1
<1>6. GoDate(y, 3, d) + 1 = 365 * (y - 1) + 24 * b + i + B + 59 + d
  <2> HIDE DEF b, c
  <2>1. y \div 4 - y \div 100 + y \div 400 = 24 * b + i + B
    BY <1>1, <1>4
  <2> DEFINE z == n \div 4 - n \div 100 + n \div 400 + leap
  <2>2. leap \in Int
    BY DEF leap
  <2>3. GoDate(y, 3, d) + 1 = 365 * n + z + 59 + d /\ z \in Int
    BY <1>2, <2>2
  <2>4. z = 24 * b + i + B
    BY <1>3, <2>1
  <2> HIDE DEF z
  <2>5. 24 * b + i + B \in Int
    BY <2>3, <2>4
  <2> HIDE DEF i, B
  <2>6. 24 * b \in Int /\ i \in Int /\ B \in Int
    BY <1>1, <1>5
  <2> QED
    BY <2>3, <2>4, <2>6
<1> HIDE DEF b, c
<1>7. y = 100 * b + c
  BY <1>1
<1> HIDE DEF i, k, j, B
<1>8. 365 * (y - 1) + 24 * b + i + B + 59 + d
         = 7 * (20871 * B + 5217 * j + 208 * i + 52 * k - 44) + (5 * j + 5 * i + k + d + 2)
  BY <1>5, <1>7
<1>9. (GoDate(y, 3, d) + 1) % 7 = (5 * j + 5 * i + k + d + 2) % 7
  BY <1>5, <1>6, <1>8
<1> QED
  BY <1>9 DEF i, k, j, b, c

\* What computeEaster moves back by a week.
LEMMA LateEaster ==
    ASSUME NEW a \in 0 .. 18, NEW h \in 0 .. 29, NEW l \in 0 .. 6
    PROVE  LET m == (a + 11 * h + 22 * l) \div 451
               n == h + l - 7 * m + 114
           IN  /\ m = IF l = 6 /\ (h = 29 \/ (h = 28 /\ a > 10)) THEN 1 ELSE 0
               /\ n \in 114 .. 148
               /\ n \div 31 = (IF n < 124 THEN 3 ELSE 4)
               /\ n % 31 = (IF n < 124 THEN n - 93 ELSE n - 124)
<1> DEFINE w == a + 11 * h + 22 * l
           m == w \div 451
           n == h + l - 7 * m + 114
<1>1. m = IF w >= 451 THEN 1 ELSE 0
  OBVIOUS
<1>2. w >= 451 <=> l = 6 /\ (h = 29 \/ (h = 28 /\ a > 10))
  OBVIOUS
<1> HIDE DEF w, m
<1>3. n \in 114 .. 148
  BY <1>1, <1>2
<1>4. m = IF l = 6 /\ (h = 29 \/ (h = 28 /\ a > 10)) THEN 1 ELSE 0
  BY <1>1, <1>2
<1> HIDE DEF n
<1>5. /\ n \div 31 = (IF n < 124 THEN 3 ELSE 4)
      /\ n % 31 = (IF n < 124 THEN n - 93 ELSE n - 124)
  BY <1>3
<1> QED
  BY <1>3, <1>4, <1>5 DEF w, m, n

\* April continues March.
LEMMA AprilFollows ==
    ASSUME NEW y \in Nat \ {0}, NEW d \in Int
    PROVE  GoDate(y, 4, d) = GoDate(y, 3, d + 31)
<1>1. NewYear(y) \in Nat
  BY YearLength
<1>2. DaysBefore(y, 3) \in Nat /\ DaysBefore(y, 4) = DaysBefore(y, 3) + 31
  BY DEF DaysBefore
<1> QED
  BY <1>1, <1>2 DEF GoDate

\* The Go code finds the Sunday of the Church, in every year.
LEMMA EasterAlways ==
    ASSUME NEW y \in Nat \ {0}
    PROVE  EasterIsRight(y) /\ computeEaster(y) \in Nat
<1> DEFINE a == y % 19
           b == y \div 100
           c == y % 100
           g == (b - ((b + 8) \div 25) + 1) \div 3
           t == b - b \div 4 - g
           h == (19 * a + b - b \div 4 - g + 15) % 30
           l == (32 + 2 * (b % 4) + 2 * (c \div 4) - h - (c % 4)) % 7
           m == (a + 11 * h + 22 * l) \div 451
           n == h + l - 7 * m + 114
           e == (11 * (a + 1) + 20 + ((8 * (b + 1) + 5) \div 25 - 5) - ((3 * (b + 1)) \div 4 - 12)) % 30
           x == IF h = 29 \/ (h = 28 /\ a > 10) THEN 1 ELSE 0
           epact == IF e = 24 \/ (e = 25 /\ a + 1 > 11) THEN e + 1 ELSE e
<1>1. a \in 0 .. 18 /\ b \in Nat /\ c \in 0 .. 99
  OBVIOUS
<1>2. computeEaster(y) = GoDate(y, n \div 31, (n % 31) + 1)
  BY DEF computeEaster
<1>3. FullMoon(y) = GoDate(y, 3, 44 - epact + (IF 44 - epact < 21 THEN 30 ELSE 0))
  BY DEF FullMoon
<1>4. g = (8 * b + 13) \div 25
  <2> HIDE DEF b
  <2> QED
    BY <1>1, MoonCorrection
<1>5. (3 * (b + 1)) \div 4 = b - b \div 4
  <2> HIDE DEF b
  <2> QED
    BY <1>1, SunCorrection
<1> HIDE DEF a, b, c
<1>6. g \in Int /\ t \in Int /\ b \div 4 \in Int
  BY <1>1, <1>4
<1> HIDE DEF g
<1>7. h = (19 * a + t + 15) % 30
  <2>1. 19 * a + b - b \div 4 - g + 15 = 19 * a + t + 15
    BY <1>1, <1>6
  <2> QED
    BY <2>1
<1>8. e = (11 * a + 38 - t) % 30
  <2>1. 8 * (b + 1) + 5 = 8 * b + 13
    BY <1>1
  <2>2. 11 * (a + 1) + 20 + ((8 * (b + 1) + 5) \div 25 - 5) - ((3 * (b + 1)) \div 4 - 12)
            = 11 * (a + 1) + 20 + (g - 5) - ((b - b \div 4) - 12)
    BY <1>4, <1>5, <2>1
  <2>3. 11 * (a + 1) + 20 + (g - 5) - ((b - b \div 4) - 12) = 11 * a + 38 - t
    BY <1>1, <1>6
  <2> QED
    BY <2>2, <2>3
<1> HIDE DEF t, h, e
<1>9. h \in 0 .. 29 /\ e = IF h <= 23 THEN 23 - h ELSE 53 - h
  BY <1>1, <1>6, <1>7, <1>8, EpactOfMoon
<1>10. FullMoon(y) = GoDate(y, 3, 21 + h - x)
  <2>1. 44 - epact + (IF 44 - epact < 21 THEN 30 ELSE 0) = 21 + h - x
    BY <1>1, <1>9
  <2> QED
    BY <1>3, <2>1
<1> DEFINE i == c \div 4
           k == c % 4
           j == b % 4
<1>11. l \in 0 .. 6 /\ i \in Nat /\ k \in Nat /\ j \in Nat
  <2>1. i \in Nat /\ k \in Nat /\ j \in Nat
    BY <1>1
  <2> HIDE DEF i, j, k
  <2>2. l = (32 + 2 * j + 2 * i - h - k) % 7
    BY DEF i, j, k
  <2> QED
    BY <1>9, <2>1, <2>2
<1>12. PICK z \in Int : 32 + 2 * j + 2 * i - h - k = 7 * z + l
  <2> HIDE DEF i, j, k
  <2>1. l = (32 + 2 * j + 2 * i - h - k) % 7
    BY DEF i, j, k
  <2> HIDE DEF l
  <2>2. 32 + 2 * j + 2 * i - h - k \in Int
    BY <1>9, <1>11
  <2> DEFINE w == 32 + 2 * j + 2 * i - h - k
  <2> HIDE DEF w
  <2>3. w \in Int /\ l = w % 7
    BY <2>1, <2>2 DEF w
  <2>4. w \div 7 \in Int /\ w = 7 * (w \div 7) + l
    BY <2>3
  <2> QED
    BY <2>4 DEF w
<1> HIDE DEF i, j, k, l
<1>13. /\ m = IF l = 6 /\ (h = 29 \/ (h = 28 /\ a > 10)) THEN 1 ELSE 0
       /\ n \in 114 .. 148
       /\ n \div 31 = (IF n < 124 THEN 3 ELSE 4)
       /\ n % 31 = (IF n < 124 THEN n - 93 ELSE n - 124)
  BY <1>1, <1>9, <1>11, LateEaster
<1> DEFINE d == n - 92
<1>14. computeEaster(y) = GoDate(y, 3, d)
  <2> HIDE DEF n
  <2>1. CASE n < 124
    BY <1>2, <1>13, <2>1
  <2>2. CASE n >= 124
    <3>1. computeEaster(y) = GoDate(y, 4, n - 123)
      BY <1>2, <1>13, <2>2
    <3>2. GoDate(y, 4, n - 123) = GoDate(y, 3, n - 123 + 31)
      BY <1>13, AprilFollows
    <3> QED
      BY <1>13, <3>1, <3>2
  <2> QED
    BY <1>13, <2>1, <2>2
<1>15. /\ GoDate(y, 3, 1) \in Nat
       /\ \A v \in Int : GoDate(y, 3, v) = GoDate(y, 3, 1) + v - 1
  BY MonthLength
<1>16. d \in Nat /\ d >= 22 /\ d = 22 + h + l - 7 * m /\ m \in Nat
  <2> HIDE DEF m
  <2> QED
    BY <1>9, <1>11, <1>13
<1> HIDE DEF n
<1>17. computeEaster(y) \in Nat /\ computeEaster(y) = GoDate(y, 3, 1) + d - 1
  <2> HIDE DEF d
  <2> QED
    BY <1>14, <1>15, <1>16
<1>18. computeEaster(y) - FullMoon(y) \in 1 .. 7
  <2>1. 21 + h - x \in Int /\ x \in {0, 1}
    BY <1>9
  <2>2. FullMoon(y) = GoDate(y, 3, 1) + (21 + h - x) - 1
    BY <1>10, <1>15, <2>1
  <2>3. computeEaster(y) - FullMoon(y) = 1 + l - 7 * m + x
    <3> HIDE DEF d, x, m
    <3> QED
      BY <1>9, <1>11, <1>15, <1>16, <1>17, <2>1, <2>2
  <2>4. 1 + l - 7 * m + x \in 1 .. 7
    <3> HIDE DEF m
    <3> QED
      BY <1>11, <1>13
  <2> QED
    BY <2>3, <2>4
<1>19. IsoWeekday(computeEaster(y)) = 7
  <2>1. (GoDate(y, 3, d) + 1) % 7 = (5 * j + 5 * i + k + d + 2) % 7
    <3> HIDE DEF d
    <3>1. d \in Nat
      BY <1>16
    <3>2. (GoDate(y, 3, d) + 1) % 7
             = (5 * ((y \div 100) % 4) + 5 * ((y % 100) \div 4) + ((y % 100) % 4) + d + 2) % 7
      BY <3>1, WeekdayInMarch, ZenonT(30)
    <3> QED
      BY <3>2 DEF i, j, k, b, c
  <2>2. 5 * j + 5 * i + k + d + 2 = 7 * (j + i + 8 - z - m)
    <3> HIDE DEF d, m
    <3> QED
      BY <1>9, <1>11, <1>12, <1>16
  <2>3. (computeEaster(y) + 1) % 7 = 0
    <3> HIDE DEF d, m
    <3>1. j + i + 8 - z - m \in Int
      BY <1>11, <1>12, <1>16
    <3>2. (7 * (j + i + 8 - z - m)) % 7 = 0
      <4> DEFINE q == j + i + 8 - z - m
      <4> HIDE DEF q
      <4>1. q \in Int
        BY <3>1 DEF q
      <4> QED
        BY <4>1 DEF q
    <3> QED
      BY <1>14, <2>1, <2>2, <3>2
  <2> QED
    BY <1>17, <2>3 DEF IsoWeekday
<1> QED
  BY <1>17, <1>18, <1>19 DEF EasterIsRight

\* Easter is a Sunday, in the week after the full moon of spring.
THEOREM EasterAlwaysRight == \A y \in Nat \ {0} : EasterIsRight(y)
  BY EasterAlways

\* CalendarIsRight: whatever year the page shows.
THEOREM CalendarAlwaysRight == HolidaysSpec => []CalendarIsRight
<1>1. RightYears = YearsShown
  BY HolidaysAssumption, WeekdaysAlwaysAgree, EasterAlwaysRight DEF RightYears
<1>2. HolidaysInit /\ year \in YearsShown => year \in YearsShown
  OBVIOUS
<1>3. year \in YearsShown /\ [HolidaysNext]_holidaysVars => (year \in YearsShown)'
  BY DEF HolidaysNext, holidaysVars, AdminExceptionRuleCreate, AdminExceptionRuleUpdate,
         AdminExceptionRuleDelete, AdminExceptionObservanceCreate, AdminExceptionObservanceUpdate,
         AdminExceptionObservanceDelete, PeriodCreated, AdminExceptionGenerate, Generate,
         GenerateDone, GenerateFails
<1>4. year \in YearsShown => CalendarIsRight
  BY <1>1 DEF CalendarIsRight
<1> QED
  BY <1>2, <1>3, <1>4, PTL DEF HolidaysSpec
-----------------------------------------------------------------------------
(* The observances                                                         *)

Columned(S) == \A o \in S : DOMAIN o = ObservanceColumns

RulesOK ==
    /\ year \in YearsShown
    /\ lastRule \in Nat
    /\ DOMAIN rules \subseteq 1 .. lastRule
    /\ \A i \in DOMAIN rules : rules[i] \in RuleForms /\ Shaped(rules[i])

ObservancesOK == Columned(observances)

RequestsKept ==
    /\ generating = [g \in Generators |-> generating[g]]
    /\ \A g \in Generators :
          /\ generating[g] = [busy |-> generating[g].busy, todo |-> generating[g].todo,
                              disturbed |-> generating[g].disturbed]
          /\ Columned(generating[g].todo)

\* What the rules ask of the year is there, or is still to be inserted by
\* whoever generates undisturbed.
Promised(i, g) ==
    \A o \in GoRows(i, rules[i], year) :
        o \in generating[g].todo \/ \E p \in observances : SameDay(o, p)

NothingForgotten ==
    \A g \in Generators :
        generating[g].busy /\ ~ generating[g].disturbed => \A i \in DOMAIN rules : Promised(i, g)

HolidaysInv ==
    RulesOK /\ ObservancesOK /\ RequestsKept /\ DeletedRuleLeavesNothing /\ NothingForgotten

-----------------------------------------------------------------------------
(* The loop of the trigger                                                 *)

\* A set of numbers that is not empty has a smallest one.
LEMMA FirstOfMany ==
    ASSUME NEW S, S \subseteq Nat, \E n : n \in S
    PROVE  \E i \in S : \A j \in S : i <= j
<1> DEFINE R == {w \in Nat \X Nat : w[1] < w[2]}
<1>1. IsWellFoundedOn(R, Nat)
  BY NatLessThanWellFounded DEF OpToRel
<1> HIDE DEF R
<1>2. PICK i \in S : \A j \in S : ~ (<<j, i>> \in R)
  BY <1>1, WFMin
<1>3. ASSUME NEW j \in S PROVE i <= j
  <2>1. i \in Nat /\ j \in Nat /\ ~ (<<j, i>> \in R)
    BY <1>2
  <2>2. ~ (j < i)
    BY <2>1 DEF R
  <2> QED
    BY <2>1, <2>2
<1> QED
  BY <1>3

\* Every row that the Go code adds for a rule has the rule's number.
LEMMA RowsOfRule ==
    ASSUME NEW i, NEW r, NEW o \in GoRows(i, r, year)
    PROVE  DOMAIN o = ObservanceColumns /\ o.rule = i
<1> DEFINE date == GoRuleDate(r, year)
           first == Observance(date, r.name, "", r.state, i, FALSE)
           second == Observance(substituteDate(date), r.name, "Substitute", r.state, i, TRUE)
<1>1. /\ DOMAIN first = ObservanceColumns /\ first.rule = i
      /\ DOMAIN second = ObservanceColumns /\ second.rule = i
  BY DEF Observance, ObservanceColumns
<1> HIDE DEF first, second
<1>2. o \in {first, second}
  BY DEF GoRows, first, second
<1> QED
  BY <1>1, <1>2

\* What is there stays there.
LEMMA AddedKeeps ==
    ASSUME NEW S, NEW o
    PROVE  /\ S \subseteq Added(S, o)
           /\ Added(S, o) \subseteq S \cup {o}
           /\ \E p \in Added(S, o) : SameDay(o, p)
  BY DEF Added, SameDay

\* The loop of the trigger, one rule of it: the rows it adds are the rule's.
LEMMA MaterialiseAdds ==
    ASSUME NEW S, NEW i
    PROVE  /\ S \subseteq Materialise(S, i)
           /\ \A o \in Materialise(S, i) : o \in S \/ (DOMAIN o = ObservanceColumns /\ o.rule = i)
<1> DEFINE r == rules[i]
           date == SqlRuleDate(r, year)
           first == Observance(date, r.name, "", r.state, i, FALSE)
           plain == Added(S, first)
           second == Observance(FirstFree(plain, substituteDate(date), r.state), r.name, "observed", r.state, i, TRUE)
           M == Materialise(S, i)
<1>1. M \in {S, Added(plain, second), plain}
  BY DEF Materialise
<1>2. /\ DOMAIN first = ObservanceColumns /\ first.rule = i
      /\ DOMAIN second = ObservanceColumns /\ second.rule = i
  BY DEF Observance, ObservanceColumns
<1> HIDE DEF first, second, M
<1>3. S \subseteq plain /\ plain \subseteq S \cup {first}
  BY AddedKeeps
<1> HIDE DEF plain
<1>4. plain \subseteq Added(plain, second) /\ Added(plain, second) \subseteq plain \cup {second}
  BY AddedKeeps
<1>5. S \subseteq M /\ M \subseteq S \cup {first, second}
  BY <1>1, <1>3, <1>4
<1> QED
  BY <1>2, <1>5 DEF M

\* The whole loop.  After is defined by recursion: a function that does so for
\* the first n rules exists for every n, and no n is the first at which a row
\* is lost or a row appears that is not a rule's.
LEMMA LoopAdds ==
    ASSUME RulesOK, NEW order \in Orders
    PROVE  LET After[n \in 0 .. Cardinality(DOMAIN rules)] ==
                  IF n = 0 THEN observances ELSE Materialise(After[n - 1], order[n])
               end == After[Cardinality(DOMAIN rules)]
           IN  /\ observances \subseteq end
               /\ \A o \in end :
                     o \in observances \/ (DOMAIN o = ObservanceColumns /\ o.rule \in DOMAIN rules)
<1> DEFINE N == Cardinality(DOMAIN rules)
           After[n \in 0 .. N] == IF n = 0 THEN observances ELSE Materialise(After[n - 1], order[n])
           Is(g, m) == g = [n \in 0 .. m |->
                               IF n = 0 THEN observances ELSE Materialise(g[n - 1], order[n])]
           Stuck == {m \in 0 .. N : ~ \E g : Is(g, m)}
<1>1. N \in Nat
  <2>1. IsFiniteSet(1 .. lastRule)
    BY FS_Interval DEF RulesOK
  <2>2. IsFiniteSet(DOMAIN rules)
    BY <2>1, FS_Subset DEF RulesOK
  <2> QED
    BY <2>2, FS_CardinalityType
<1>2. \A n \in 1 .. N : order[n] \in DOMAIN rules
  BY DEF Orders
<1> HIDE DEF N
<1>3. ASSUME NEW b \in Stuck PROVE FALSE
  <2>1. PICK m \in Stuck : \A j \in Stuck : m <= j
    <3>1. Stuck \subseteq Nat /\ \E n : n \in Stuck
      BY <1>3
    <3> HIDE DEF Stuck
    <3> QED
      BY <3>1, FirstOfMany
  <2>2. m \in 0 .. N /\ ~ \E g : Is(g, m)
    OBVIOUS
  <2>3. m # 0
    <3> SUFFICES ASSUME m = 0 PROVE FALSE
      OBVIOUS
    <3> DEFINE g == [n \in 0 .. 0 |-> observances]
    <3>1. Is(g, 0)
      OBVIOUS
    <3> QED
      BY <3>1, <2>2
  <2>4. PICK g : Is(g, m - 1)
    <3>1. m - 1 \in 0 .. N
      BY <1>1, <2>2, <2>3
    <3>2. m - 1 \notin Stuck
      <4> HIDE DEF Stuck
      <4> QED
        BY <1>1, <2>1, <2>2
    <3> QED
      BY <3>1, <3>2
  <2> DEFINE h == [n \in 0 .. m |-> IF n = m THEN Materialise(g[m - 1], order[m]) ELSE g[n]]
  <2>5. Is(h, m)
    <3>1. \A n \in 0 .. m : h[n] = IF n = 0 THEN observances ELSE Materialise(h[n - 1], order[n])
      BY <2>2, <2>3, <2>4
    <3> QED
      BY <3>1
  <2> HIDE DEF h, Is
  <2> QED
    BY <2>2, <2>5
<1>4. \E g : Is(g, N)
  <2>1. N \in 0 .. N
    BY <1>1
  <2>2. N \notin Stuck
    <3> HIDE DEF Stuck
    <3> QED
      BY <1>3
  <2> HIDE DEF Is
  <2> QED
    BY <2>1, <2>2
<1>5. After = CHOOSE g : Is(g, N)
  OBVIOUS
<1>6. Is(After, N)
  <2> HIDE DEF After, Is
  <2> QED
    BY <1>4, <1>5
<1> HIDE DEF After
<1>7. /\ After[0] = observances
      /\ \A n \in 1 .. N : After[n] = Materialise(After[n - 1], order[n])
  BY <1>1, <1>6
<1> DEFINE Fine(S) ==
              /\ observances \subseteq S
              /\ \A o \in S :
                    o \in observances \/ (DOMAIN o = ObservanceColumns /\ o.rule \in DOMAIN rules)
           Wrong == {m \in 0 .. N : ~ Fine(After[m])}
<1>8. ASSUME NEW b \in Wrong PROVE FALSE
  <2>1. PICK m \in Wrong : \A j \in Wrong : m <= j
    <3>1. Wrong \subseteq Nat /\ \E n : n \in Wrong
      BY <1>8
    <3> HIDE DEF Wrong
    <3> QED
      BY <3>1, FirstOfMany
  <2>2. m \in 0 .. N /\ ~ Fine(After[m])
    OBVIOUS
  <2>3. m # 0
    BY <1>7, <2>2
  <2>4. m - 1 \in 0 .. N /\ m - 1 \notin Wrong /\ m \in 1 .. N
    BY <1>1, <2>1, <2>2, <2>3
  <2>5. Fine(After[m - 1])
    BY <2>4
  <2> HIDE DEF Wrong
  <2>6. After[m] = Materialise(After[m - 1], order[m]) /\ order[m] \in DOMAIN rules
    BY <1>2, <1>7, <2>4
  <2>7. /\ After[m - 1] \subseteq After[m]
        /\ \A o \in After[m] :
              o \in After[m - 1] \/ (DOMAIN o = ObservanceColumns /\ o.rule = order[m])
    BY <2>6, MaterialiseAdds
  <2>8. Fine(After[m])
    BY <2>5, <2>6, <2>7
  <2> QED
    BY <2>2, <2>8
<1>9. Fine(After[N])
  <2>1. N \in 0 .. N /\ N \notin Wrong
    BY <1>1, <1>8
  <2> QED
    BY <2>1
<1> QED
  BY <1>9 DEF After, N
\* The trigger only adds, and only rows of rules.
LEMMA PeriodAdds ==
    ASSUME RulesOK, PeriodCreated
    PROVE  /\ observances \subseteq observances'
           /\ \A o \in observances' :
                 o \in observances \/ (DOMAIN o = ObservanceColumns /\ o.rule \in DOMAIN rules)
<1>1. PICK order \in Orders :
         LET After[n \in 0 .. Cardinality(DOMAIN rules)] ==
                IF n = 0 THEN observances ELSE Materialise(After[n - 1], order[n])
         IN  observances' = After[Cardinality(DOMAIN rules)]
  BY DEF PeriodCreated
<1> DEFINE After[n \in 0 .. Cardinality(DOMAIN rules)] ==
              IF n = 0 THEN observances ELSE Materialise(After[n - 1], order[n])
           end == After[Cardinality(DOMAIN rules)]
<1>2. observances' = end
  BY <1>1
<1>3. /\ observances \subseteq end
      /\ \A o \in end :
            o \in observances \/ (DOMAIN o = ObservanceColumns /\ o.rule \in DOMAIN rules)
  BY LoopAdds
<1> HIDE DEF end
<1> QED
  BY <1>2, <1>3

\* Rows that are there to stay fulfil what was promised.
LEMMA StillPromised ==
    ASSUME NothingForgotten, observances \subseteq observances',
           UNCHANGED <<year, rules, generating>>
    PROVE  NothingForgotten'
<1> SUFFICES ASSUME NEW g \in Generators, generating'[g].busy /\ ~ generating'[g].disturbed,
                    NEW i \in DOMAIN rules', NEW o \in GoRows(i, rules'[i], year')
             PROVE  o \in generating'[g].todo \/ \E p \in observances' : SameDay(o, p)
  BY DEF NothingForgotten, Promised
<1>1. o \in GoRows(i, rules[i], year) /\ i \in DOMAIN rules
  OBVIOUS
<1>2. o \in generating[g].todo \/ \E p \in observances : SameDay(o, p)
  BY <1>1 DEF NothingForgotten, Promised
<1> QED
  BY <1>2

\* Nobody is undisturbed after a disturbance.
LEMMA Disturbing ==
    ASSUME RequestsKept, Disturb
    PROVE  RequestsKept' /\ NothingForgotten'
<1>1. ASSUME NEW g \in Generators
      PROVE  /\ generating'[g] = [busy |-> generating'[g].busy, todo |-> generating'[g].todo,
                                  disturbed |-> generating'[g].disturbed]
             /\ generating'[g].todo = generating[g].todo
             /\ ~ (generating'[g].busy /\ ~ generating'[g].disturbed)
  <2>1. generating[g] = [busy |-> generating[g].busy, todo |-> generating[g].todo,
                         disturbed |-> generating[g].disturbed]
    BY DEF RequestsKept
  <2>2. generating'[g] = IF generating[g].busy THEN [generating[g] EXCEPT !.disturbed = TRUE]
                         ELSE generating[g]
    BY DEF Disturb
  <2>3. CASE generating[g].busy
    <3>1. generating'[g] = [busy |-> generating[g].busy, todo |-> generating[g].todo,
                            disturbed |-> TRUE]
      BY <2>1, <2>2, <2>3
    <3> QED
      BY <3>1
  <2>4. CASE ~ generating[g].busy
    BY <2>1, <2>2, <2>4
  <2> QED
    BY <2>3, <2>4
<1>2. generating' = [g \in Generators |-> generating'[g]]
  BY DEF Disturb
<1>3. \A g \in Generators : Columned(generating[g].todo)
  BY DEF RequestsKept
<1>4. RequestsKept'
  BY <1>1, <1>2, <1>3 DEF RequestsKept, Columned
<1>5. NothingForgotten'
  BY <1>1 DEF NothingForgotten
<1> QED
  BY <1>4, <1>5

\* The invariant holds before anything is entered.
LEMMA HolidaysStart == HolidaysInit /\ year \in YearsShown => HolidaysInv
<1> SUFFICES ASSUME HolidaysInit, year \in YearsShown
             PROVE  HolidaysInv
  OBVIOUS
<1>1. DOMAIN rules = {} /\ lastRule = 0 /\ observances = {}
  BY DEF HolidaysInit
<1>2. RulesOK /\ ObservancesOK /\ DeletedRuleLeavesNothing
  BY <1>1 DEF RulesOK, ObservancesOK, Columned, DeletedRuleLeavesNothing
<1>3. \A g \in Generators : generating[g] = [busy |-> FALSE, todo |-> {}, disturbed |-> FALSE]
  BY DEF HolidaysInit, Free
<1>4. generating = [g \in Generators |-> generating[g]]
  BY DEF HolidaysInit
<1>5. RequestsKept /\ NothingForgotten
  BY <1>3, <1>4 DEF RequestsKept, NothingForgotten, Columned
<1> QED
  BY <1>2, <1>5 DEF HolidaysInv

\* The screens of the rules.
LEMMA RuleScreensKeep ==
    ASSUME HolidaysInv,
           AdminExceptionRuleCreate \/ AdminExceptionRuleUpdate \/ AdminExceptionRuleDelete
    PROVE  HolidaysInv'
<1> USE DEF HolidaysInv
<1>1. RequestsKept' /\ NothingForgotten'
  BY Disturbing DEF AdminExceptionRuleCreate, AdminExceptionRuleUpdate, AdminExceptionRuleDelete
<1>2. year' = year
  BY DEF AdminExceptionRuleCreate, AdminExceptionRuleUpdate, AdminExceptionRuleDelete
<1>3. CASE AdminExceptionRuleCreate
  <2>1. PICK r \in RuleForms : CreateHolidayRule(r)
    BY <1>3 DEF AdminExceptionRuleCreate
  <2>2. /\ Shaped(r) /\ lastRule' = lastRule + 1 /\ observances' = observances
        /\ rules' = [i \in DOMAIN rules \cup {lastRule + 1} |->
                        IF i = lastRule + 1 THEN r ELSE rules[i]]
    BY <2>1 DEF CreateHolidayRule
  <2>3. DOMAIN rules' = DOMAIN rules \cup {lastRule + 1}
    BY <2>2
  <2>4. \A i \in DOMAIN rules' : rules'[i] \in RuleForms /\ Shaped(rules'[i])
    <3> SUFFICES ASSUME NEW i \in DOMAIN rules'
                 PROVE  rules'[i] \in RuleForms /\ Shaped(rules'[i])
      OBVIOUS
    <3>1. rules'[i] = IF i = lastRule + 1 THEN r ELSE rules[i]
      BY <2>2, <2>3
    <3>2. i = lastRule + 1 \/ i \in DOMAIN rules
      BY <2>3
    <3> QED
      BY <2>2, <3>1, <3>2 DEF RulesOK
  <2>5. RulesOK'
    BY <1>2, <2>2, <2>3, <2>4 DEF RulesOK
  <2>6. ObservancesOK' /\ DeletedRuleLeavesNothing'
    BY <2>2, <2>3 DEF ObservancesOK, Columned, DeletedRuleLeavesNothing
  <2> QED
    BY <1>1, <2>5, <2>6
<1>4. CASE AdminExceptionRuleUpdate
  <2>1. PICK i \in DOMAIN rules, r \in RuleForms : UpdateHolidayRule(i, r)
    BY <1>4 DEF AdminExceptionRuleUpdate
  <2>2. /\ Shaped(r) /\ lastRule' = lastRule /\ observances' = observances
        /\ rules' = [rules EXCEPT ![i] = r]
    BY <2>1 DEF UpdateHolidayRule
  <2>3. DOMAIN rules' = DOMAIN rules
    BY <2>2
  <2>4. \A j \in DOMAIN rules' : rules'[j] \in RuleForms /\ Shaped(rules'[j])
    <3> SUFFICES ASSUME NEW j \in DOMAIN rules'
                 PROVE  rules'[j] \in RuleForms /\ Shaped(rules'[j])
      OBVIOUS
    <3>1. rules'[j] = IF j = i THEN r ELSE rules[j]
      BY <2>2, <2>3
    <3> QED
      BY <2>2, <2>3, <3>1 DEF RulesOK
  <2>5. RulesOK'
    BY <1>2, <2>2, <2>3, <2>4 DEF RulesOK
  <2>6. ObservancesOK' /\ DeletedRuleLeavesNothing'
    BY <2>2, <2>3 DEF ObservancesOK, Columned, DeletedRuleLeavesNothing
  <2> QED
    BY <1>1, <2>5, <2>6
<1>5. CASE AdminExceptionRuleDelete
  <2>1. PICK i \in DOMAIN rules : DeleteHolidayRule(i)
    BY <1>5 DEF AdminExceptionRuleDelete
  <2>2. /\ lastRule' = lastRule
        /\ observances' = {o \in observances : o.rule # i}
        /\ rules' = [j \in DOMAIN rules \ {i} |-> rules[j]]
    BY <2>1 DEF DeleteHolidayRule
  <2>3. DOMAIN rules' = DOMAIN rules \ {i} /\ \A j \in DOMAIN rules' : rules'[j] = rules[j]
    BY <2>2
  <2>4. RulesOK'
    BY <1>2, <2>2, <2>3 DEF RulesOK
  <2>5. ObservancesOK' /\ DeletedRuleLeavesNothing'
    BY <2>2, <2>3 DEF ObservancesOK, Columned, DeletedRuleLeavesNothing
  <2> QED
    BY <1>1, <2>4, <2>5
<1> QED
  BY <1>3, <1>4, <1>5

\* The screens of the observances.
LEMMA ObservanceScreensKeep ==
    ASSUME HolidaysInv,
           \/ AdminExceptionObservanceCreate
           \/ AdminExceptionObservanceUpdate
           \/ AdminExceptionObservanceDelete
    PROVE  HolidaysInv'
<1> USE DEF HolidaysInv
<1>1. UNCHANGED <<year, rules, lastRule>>
  BY DEF AdminExceptionObservanceCreate, AdminExceptionObservanceUpdate,
         AdminExceptionObservanceDelete
<1>2. RulesOK'
  BY <1>1 DEF RulesOK
<1>3. CASE AdminExceptionObservanceCreate
  <2>1. PICK f \in HandForms : CreateHolidayObservance(f)
    BY <1>3 DEF AdminExceptionObservanceCreate
  <2>2. /\ f.rule = 0 \/ f.rule \in DOMAIN rules
        /\ DOMAIN f = ObservanceColumns
        /\ observances \subseteq observances' /\ observances' \subseteq observances \cup {f}
    BY <2>1, AddedKeeps, HolidaysAssumption DEF CreateHolidayObservance, RuleThere
  <2>3. generating' = generating
    BY <1>3 DEF AdminExceptionObservanceCreate
  <2>4. ObservancesOK' /\ DeletedRuleLeavesNothing'
    BY <1>1, <2>2 DEF ObservancesOK, Columned, DeletedRuleLeavesNothing
  <2>5. NothingForgotten'
    BY <1>1, <2>2, <2>3, StillPromised
  <2>6. RequestsKept'
    BY <2>3 DEF RequestsKept, Columned
  <2> QED
    BY <1>2, <2>4, <2>5, <2>6
<1>4. CASE AdminExceptionObservanceUpdate
  <2>1. RequestsKept' /\ NothingForgotten'
    BY <1>4, Disturbing DEF AdminExceptionObservanceUpdate
  <2>2. PICK o \in observances, f \in HandForms : UpdateHolidayObservance(o, f)
    BY <1>4 DEF AdminExceptionObservanceUpdate
  <2> DEFINE p == [o EXCEPT !.date = f.date, !.name = f.name, !.state = f.state,
                            !.substitute = f.substitute]
  <2>3. DOMAIN o = ObservanceColumns /\ (o.rule = 0 \/ o.rule \in DOMAIN rules)
    BY DEF ObservancesOK, Columned, DeletedRuleLeavesNothing
  <2>4. DOMAIN p = ObservanceColumns /\ p.rule = o.rule
    BY <2>3 DEF ObservanceColumns
  <2>5. observances' = (observances \ {o}) \cup {p}
    BY <2>2 DEF UpdateHolidayObservance
  <2> HIDE DEF p
  <2>6. ObservancesOK' /\ DeletedRuleLeavesNothing'
    BY <1>1, <2>3, <2>4, <2>5 DEF ObservancesOK, Columned, DeletedRuleLeavesNothing
  <2> QED
    BY <1>2, <2>1, <2>6
<1>5. CASE AdminExceptionObservanceDelete
  <2>1. RequestsKept' /\ NothingForgotten'
    BY <1>5, Disturbing DEF AdminExceptionObservanceDelete
  <2>2. observances' \subseteq observances
    BY <1>5 DEF AdminExceptionObservanceDelete, DeleteHolidayObservance
  <2>3. ObservancesOK' /\ DeletedRuleLeavesNothing'
    BY <1>1, <2>2 DEF ObservancesOK, Columned, DeletedRuleLeavesNothing
  <2> QED
    BY <1>2, <2>1, <2>3
<1> QED
  BY <1>3, <1>4, <1>5
\* The trigger, whatever order it takes the rules in.
LEMMA PeriodKeeps ==
    ASSUME HolidaysInv, PeriodCreated
    PROVE  HolidaysInv'
<1> USE DEF HolidaysInv
<1>1. UNCHANGED <<year, rules, lastRule, generating>>
  BY DEF PeriodCreated
<1>2. /\ observances \subseteq observances'
      /\ \A o \in observances' :
            o \in observances \/ (DOMAIN o = ObservanceColumns /\ o.rule \in DOMAIN rules)
  BY PeriodAdds
<1>3. RulesOK' /\ RequestsKept'
  BY <1>1 DEF RulesOK, RequestsKept, Columned
<1>4. ObservancesOK' /\ DeletedRuleLeavesNothing'
  BY <1>1, <1>2 DEF ObservancesOK, Columned, DeletedRuleLeavesNothing
<1>5. NothingForgotten'
  BY <1>1, <1>2, StillPromised
<1> QED
  BY <1>3, <1>4, <1>5

\* The requests that generate, one statement each.
LEMMA GeneratingKeeps ==
    ASSUME HolidaysInv, NEW g \in Generators,
           AdminExceptionGenerate(g) \/ Generate(g) \/ GenerateDone(g) \/ GenerateFails(g)
    PROVE  HolidaysInv'
<1> USE DEF HolidaysInv
<1>1. UNCHANGED <<year, rules, lastRule>>
  BY DEF AdminExceptionGenerate, Generate, GenerateDone, GenerateFails
<1>2. RulesOK'
  BY <1>1 DEF RulesOK
<1>3. /\ generating = [h \in Generators |-> generating[h]]
      /\ \A h \in Generators :
            /\ generating[h] = [busy |-> generating[h].busy, todo |-> generating[h].todo,
                                disturbed |-> generating[h].disturbed]
            /\ Columned(generating[h].todo)
  BY DEF RequestsKept
<1>4. CASE AdminExceptionGenerate(g)
  <2> DEFINE all == UNION {GoRows(i, rules[i], year) : i \in DOMAIN rules}
  <2>1. /\ generating' = [generating EXCEPT ![g] = [busy |-> TRUE, disturbed |-> FALSE, todo |-> all]]
        /\ observances' = observances
    BY <1>4 DEF AdminExceptionGenerate
  <2>2. Columned(all)
    BY RowsOfRule DEF Columned
  <2>3. \A i \in DOMAIN rules : GoRows(i, rules[i], year) \subseteq all
    OBVIOUS
  <2> HIDE DEF all
  <2>4. /\ generating' = [h \in Generators |-> generating'[h]]
        /\ generating'[g] = [busy |-> TRUE, disturbed |-> FALSE, todo |-> all]
        /\ \A h \in Generators \ {g} : generating'[h] = generating[h]
    BY <1>3, <2>1
  <2>5. RequestsKept'
    BY <1>3, <2>2, <2>4 DEF RequestsKept
  <2>6. ObservancesOK' /\ DeletedRuleLeavesNothing'
    BY <1>1, <2>1 DEF ObservancesOK, Columned, DeletedRuleLeavesNothing
  <2>7. NothingForgotten'
    <3> SUFFICES ASSUME NEW h \in Generators, generating'[h].busy /\ ~ generating'[h].disturbed,
                        NEW i \in DOMAIN rules', NEW o \in GoRows(i, rules'[i], year')
                 PROVE  o \in generating'[h].todo \/ \E p \in observances' : SameDay(o, p)
      BY DEF NothingForgotten, Promised
    <3>1. o \in GoRows(i, rules[i], year) /\ i \in DOMAIN rules
      BY <1>1
    <3>2. CASE h = g
      BY <2>3, <2>4, <3>1, <3>2
    <3>3. CASE h # g
      <4>1. generating'[h] = generating[h]
        BY <2>4, <3>3
      <4>2. o \in generating[h].todo \/ \E p \in observances : SameDay(o, p)
        BY <3>1, <4>1 DEF NothingForgotten, Promised
      <4> QED
        BY <2>1, <4>1, <4>2
    <3> QED
      BY <3>2, <3>3
  <2> QED
    BY <1>2, <2>5, <2>6, <2>7
<1>5. CASE Generate(g)
  <2>1. PICK o \in NextRows(generating[g].todo) :
           /\ CreateHolidayObservance(o)
           /\ generating' = [generating EXCEPT ![g].todo = @ \ {o}]
    BY <1>5 DEF Generate
  <2>2. o \in generating[g].todo
    BY <2>1 DEF NextRows
  <2>3. DOMAIN o = ObservanceColumns /\ (o.rule = 0 \/ o.rule \in DOMAIN rules)
    BY <1>3, <2>1, <2>2 DEF Columned, CreateHolidayObservance, RuleThere
  <2>4. /\ observances \subseteq observances' /\ observances' \subseteq observances \cup {o}
        /\ \E p \in observances' : SameDay(o, p)
    BY <2>1, AddedKeeps DEF CreateHolidayObservance
  <2>5. /\ generating' = [h \in Generators |-> generating'[h]]
        /\ generating'[g] = [busy |-> generating[g].busy, todo |-> generating[g].todo \ {o},
                             disturbed |-> generating[g].disturbed]
        /\ \A h \in Generators \ {g} : generating'[h] = generating[h]
    <3> DEFINE left == generating[g].todo \ {o}
    <3>1. generating' = [generating EXCEPT ![g].todo = left]
      BY <2>1
    <3> HIDE DEF left
    <3>2. generating'[g] = [generating[g] EXCEPT !.todo = left]
      BY <1>3, <3>1
    <3>3. generating'[g] = [busy |-> generating[g].busy, todo |-> left,
                            disturbed |-> generating[g].disturbed]
      BY <1>3, <3>2
    <3>4. /\ generating' = [h \in Generators |-> generating'[h]]
          /\ \A h \in Generators \ {g} : generating'[h] = generating[h]
      BY <1>3, <3>1
    <3> QED
      BY <3>3, <3>4 DEF left
  <2>6. \A h \in Generators : generating'[h].todo \subseteq generating[h].todo
    BY <2>5
  <2>7. RequestsKept'
    BY <1>3, <2>5, <2>6 DEF RequestsKept, Columned
  <2>8. ObservancesOK' /\ DeletedRuleLeavesNothing'
    BY <1>1, <2>3, <2>4 DEF ObservancesOK, Columned, DeletedRuleLeavesNothing
  <2>9. NothingForgotten'
    <3> SUFFICES ASSUME NEW h \in Generators, generating'[h].busy /\ ~ generating'[h].disturbed,
                        NEW i \in DOMAIN rules', NEW q \in GoRows(i, rules'[i], year')
                 PROVE  q \in generating'[h].todo \/ \E p \in observances' : SameDay(q, p)
      BY DEF NothingForgotten, Promised
    <3>1. q \in GoRows(i, rules[i], year) /\ i \in DOMAIN rules
      BY <1>1
    <3>2. /\ generating[h].busy /\ ~ generating[h].disturbed
          /\ generating'[h].todo = generating[h].todo \/ generating'[h].todo = generating[h].todo \ {o}
      BY <2>5
    <3>3. q \in generating[h].todo \/ \E p \in observances : SameDay(q, p)
      BY <3>1, <3>2 DEF NothingForgotten, Promised
    <3> QED
      BY <2>4, <3>2, <3>3
  <2> QED
    BY <1>2, <2>7, <2>8, <2>9
<1>6. CASE GenerateDone(g) \/ GenerateFails(g)
  <2>1. generating' = [generating EXCEPT ![g] = Free] /\ observances' = observances
    BY <1>6 DEF GenerateDone, GenerateFails
  <2>2. /\ generating' = [h \in Generators |-> generating'[h]]
        /\ generating'[g] = [busy |-> FALSE, todo |-> {}, disturbed |-> FALSE]
        /\ \A h \in Generators \ {g} : generating'[h] = generating[h]
    BY <1>3, <2>1 DEF Free
  <2>3. RequestsKept'
    BY <1>3, <2>2 DEF RequestsKept, Columned
  <2>4. ObservancesOK' /\ DeletedRuleLeavesNothing'
    BY <1>1, <2>1 DEF ObservancesOK, Columned, DeletedRuleLeavesNothing
  <2>5. NothingForgotten'
    <3> SUFFICES ASSUME NEW h \in Generators, generating'[h].busy /\ ~ generating'[h].disturbed,
                        NEW i \in DOMAIN rules', NEW o \in GoRows(i, rules'[i], year')
                 PROVE  o \in generating'[h].todo \/ \E p \in observances' : SameDay(o, p)
      BY DEF NothingForgotten, Promised
    <3>1. o \in GoRows(i, rules[i], year) /\ i \in DOMAIN rules
      BY <1>1
    <3>2. generating'[h] = generating[h]
      BY <2>2
    <3>3. o \in generating[h].todo \/ \E p \in observances : SameDay(o, p)
      BY <3>1, <3>2 DEF NothingForgotten, Promised
    <3> QED
      BY <2>1, <3>2, <3>3
  <2> QED
    BY <1>2, <2>3, <2>4, <2>5
<1> QED
  BY <1>4, <1>5, <1>6

\* The invariant is inductive.
LEMMA HolidaysStep == HolidaysInv /\ [HolidaysNext]_holidaysVars => HolidaysInv'
<1> SUFFICES ASSUME HolidaysInv, [HolidaysNext]_holidaysVars
             PROVE  HolidaysInv'
  OBVIOUS
<1>1. CASE UNCHANGED holidaysVars
  BY <1>1 DEF holidaysVars, HolidaysInv, RulesOK, ObservancesOK, RequestsKept, Columned,
              DeletedRuleLeavesNothing, NothingForgotten, Promised
<1>2. CASE AdminExceptionRuleCreate \/ AdminExceptionRuleUpdate \/ AdminExceptionRuleDelete
  BY <1>2, RuleScreensKeep
<1>3. CASE \/ AdminExceptionObservanceCreate
           \/ AdminExceptionObservanceUpdate
           \/ AdminExceptionObservanceDelete
  BY <1>3, ObservanceScreensKeep
<1>4. CASE PeriodCreated
  BY <1>4, PeriodKeeps
<1>5. CASE \E g \in Generators :
              AdminExceptionGenerate(g) \/ Generate(g) \/ GenerateDone(g) \/ GenerateFails(g)
  BY <1>5, GeneratingKeeps
<1> QED
  BY <1>1, <1>2, <1>3, <1>4, <1>5 DEF HolidaysNext

\* The invariant holds whatever is edited and generated together: no screen, no
\* "generate" request and no trigger leaves an observance without its rule.
THEOREM HolidaysInvariant == HolidaysSpec => []HolidaysInv
  BY HolidaysStart, HolidaysStep, PTL DEF HolidaysSpec

\* DeletedRuleLeavesNothing: no observance names a rule that is gone, whatever
\* the requests had read before it was deleted.
THEOREM DeletedRulesLeaveNothing == HolidaysSpec => []DeletedRuleLeavesNothing
<1>1. HolidaysInv => DeletedRuleLeavesNothing
  BY DEF HolidaysInv
<1> QED
  BY <1>1, HolidaysInvariant, PTL
-----------------------------------------------------------------------------
(* A year that was generated                                               *)

\* Where the database finds a day for a rule, the Go code finds the same day.
LEMMA SameDayOfRule ==
    ASSUME NEW y \in Nat \ {0}, NEW r \in RuleForms, Shaped(r), SqlRuleDate(r, y) # NoDate
    PROVE  GoRuleDate(r, y) = SqlRuleDate(r, y) /\ SqlRuleDate(r, y) \in Int
<1>1. r.fixed \in Int /\ r.offset \in Int
  BY HolidaysAssumption
<1>2. CASE r.recurrence = "ONCE"
  <2>1. SqlRuleDate(r, y) = IF InYear(r.fixed, y) THEN r.fixed ELSE NoDate
    BY <1>2 DEF SqlRuleDate
  <2>2. GoRuleDate(r, y) = IF r.fixed # NoDate /\ InYear(r.fixed, y) THEN r.fixed ELSE NoDate
    BY <1>2 DEF GoRuleDate
  <2> QED
    BY <1>1, <2>1, <2>2
<1>3. CASE r.recurrence = "ANNUAL_FIXED"
  <2>1. r.month \in 1 .. 12 /\ r.day \in 1 .. 31
    BY <1>3 DEF Shaped
  <2>2. SqlRuleDate(r, y) = SqlDate(y, r.month, r.day)
    BY <1>3 DEF SqlRuleDate
  <2>3. GoRuleDate(r, y) = GoDate(y, r.month, r.day)
    BY <1>3 DEF GoRuleDate
  <2>4. SqlDate(y, r.month, r.day) = GoDate(y, r.month, r.day)
    BY <2>2 DEF SqlDate
  <2>5. /\ GoDate(y, r.month, 1) \in Nat
        /\ \A d \in Int : GoDate(y, r.month, d) = GoDate(y, r.month, 1) + d - 1
    BY <2>1, MonthLength
  <2>6. GoDate(y, r.month, r.day) \in Int
    BY <2>1, <2>5
  <2> QED
    BY <2>2, <2>3, <2>4, <2>6
<1>4. CASE r.recurrence = "ANNUAL_NTH_DOW"
  <2>1. r.month \in 1 .. 12 /\ r.weekday \in 1 .. 7 /\ r.nth \in {-1} \cup 1 .. 5
    BY <1>4 DEF Shaped
  <2>2. SqlRuleDate(r, y) = fn_nth_weekday(y, r.month, r.weekday, r.nth)
    BY <1>4 DEF SqlRuleDate
  <2>3. GoRuleDate(r, y) = nthWeekdayOfMonth(y, r.month, r.weekday, r.nth)
    BY <1>4 DEF GoRuleDate
  <2>4. WeekdaysAgree(y)
    BY WeekdaysAlwaysAgree
  <2>5. nthWeekdayOfMonth(y, r.month, r.weekday, r.nth) = fn_nth_weekday(y, r.month, r.weekday, r.nth)
    BY <2>1, <2>2, <2>4 DEF WeekdaysAgree
  <2>6. /\ GoDate(y, r.month, 1) \in Nat
        /\ GoDate(y, r.month + 1, 0) = GoDate(y, r.month, 1) + Length(y, r.month) - 1
        /\ Length(y, r.month) \in 28 .. 31
    BY <2>1, MonthLength
  <2>7. nthWeekdayOfMonth(y, r.month, r.weekday, r.nth) \in Int
    <3> DEFINE first == GoDate(y, r.month, 1)
               last == GoDate(y, r.month + 1, 0)
               ahead == Wrapped((r.weekday % 7) - GoWeekday(first))
               back == Wrapped(GoWeekday(last) - (r.weekday % 7))
    <3>1. first \in Int /\ last \in Int
      BY <2>6
    <3> HIDE DEF first, last
    <3>2. ahead \in Int /\ back \in Int
      BY <2>1, <3>1 DEF Wrapped, GoWeekday
    <3> HIDE DEF ahead, back
    <3>3. nthWeekdayOfMonth(y, r.month, r.weekday, r.nth)
             = IF r.nth > 0 THEN first + ahead + (r.nth - 1) * 7 ELSE last - back
      BY DEF nthWeekdayOfMonth, first, last, ahead, back
    <3> QED
      BY <2>1, <3>1, <3>2, <3>3
  <2> QED
    BY <2>2, <2>3, <2>5, <2>7
<1>5. CASE r.recurrence = "ANNUAL_EASTER_OFFSET"
  <2>1. SqlRuleDate(r, y) = computeEaster(y) + r.offset /\ GoRuleDate(r, y) = computeEaster(y) + r.offset
    BY <1>5 DEF SqlRuleDate, GoRuleDate
  <2>2. computeEaster(y) \in Nat
    BY EasterAlways
  <2> QED
    BY <1>1, <2>1, <2>2
<1>6. r.recurrence \in {"ONCE", "ANNUAL_FIXED", "ANNUAL_NTH_DOW", "ANNUAL_EASTER_OFFSET"}
  BY DEF Shaped
<1> QED
  BY <1>2, <1>3, <1>4, <1>5, <1>6

\* What is observed for a day of a weekend is the Monday that follows it.
LEMMA MondayFollows ==
    ASSUME NEW date \in Int, IsoWeekday(date) >= 6
    PROVE  /\ substituteDate(date) \in date + 1 .. date + 2
           /\ IsoWeekday(substituteDate(date)) = 1
<1> DEFINE r == date % 7
           q == date \div 7
<1>1. date = 7 * q + r /\ q \in Int /\ r \in {5, 6}
  BY DEF IsoWeekday
<1> HIDE DEF r, q
<1>2. GoWeekday(date) = IF r = 6 THEN 0 ELSE 6
  BY <1>1 DEF GoWeekday
<1>3. substituteDate(date) = IF r = 6 THEN date + 1 ELSE date + 2
  BY <1>1, <1>2 DEF substituteDate
<1>4. substituteDate(date) = 7 * (q + 1)
  BY <1>1, <1>3
<1>5. substituteDate(date) % 7 = 0
  BY <1>1, <1>4
<1> QED
  BY <1>1, <1>3, <1>5 DEF IsoWeekday

\* GeneratedYearIsComplete: when a request that nothing disturbed is done,
\* what it promised is there, on the days that the database computes.
THEOREM GeneratedYears == HolidaysSpec => GeneratedYearIsComplete
<1> DEFINE Kept(d, r) == \E o \in observances : o.date = d /\ o.name[1] = r.name /\ o.state = r.state
           Complete(i) ==
               LET r == rules[i]
                   date == SqlRuleDate(r, year)
               IN  Active(r, year) /\ date # NoDate =>
                     /\ Kept(date, r)
                     /\ r.substitute /\ IsoWeekday(date) >= 6 =>
                           \E d \in date + 1 .. date + 2 : IsoWeekday(d) = 1 /\ Kept(d, r)
           DoneIsComplete ==
               \A g \in Generators :
                  GenerateDone(g) /\ ~ generating[g].disturbed => \A i \in DOMAIN rules : Complete(i)
<1>1. HolidaysInv => DoneIsComplete
  <2> SUFFICES ASSUME HolidaysInv, NEW g \in Generators,
                      GenerateDone(g), ~ generating[g].disturbed, NEW i \in DOMAIN rules,
                      Active(rules[i], year), SqlRuleDate(rules[i], year) # NoDate
               PROVE  LET r == rules[i]
                          date == SqlRuleDate(r, year)
                      IN  /\ Kept(date, r)
                          /\ r.substitute /\ IsoWeekday(date) >= 6 =>
                                \E d \in date + 1 .. date + 2 : IsoWeekday(d) = 1 /\ Kept(d, r)
    OBVIOUS
  <2> DEFINE r == rules[i]
             date == SqlRuleDate(r, year)
             sub == substituteDate(date)
             plain == Observance(date, r.name, "", r.state, i, FALSE)
             extra == Observance(sub, r.name, "Substitute", r.state, i, TRUE)
  <2>1. r \in RuleForms /\ Shaped(r) /\ year \in Nat \ {0}
    BY HolidaysAssumption DEF HolidaysInv, RulesOK
  <2>2. GoRuleDate(r, year) = date /\ date \in Int
    BY <2>1, SameDayOfRule
  <2>3. \A o \in GoRows(i, r, year) : \E p \in observances : SameDay(o, p)
    <3>1. generating[g].busy /\ generating[g].todo = {}
      BY DEF GenerateDone
    <3> QED
      BY <3>1 DEF HolidaysInv, NothingForgotten, Promised
  <2>4. plain \in GoRows(i, r, year)
    BY <2>2 DEF GoRows
  <2>5. Kept(date, r)
    <3>1. PICK p \in observances : SameDay(plain, p)
      BY <2>3, <2>4
    <3>2. plain.date = date /\ plain.name = <<r.name, "">> /\ plain.state = r.state
      BY DEF Observance
    <3> HIDE DEF plain
    <3>3. p.date = date /\ p.name = <<r.name, "">> /\ p.state = r.state
      BY <3>1, <3>2 DEF SameDay
    <3> HIDE DEF date, r
    <3>4. p.name[1] = r.name
      <4> DEFINE none == ""
      <4>1. p.name = <<r.name, none>>
        BY <3>3
      <4> HIDE DEF none
      <4> QED
        BY <4>1
    <3> QED
      BY <3>3, <3>4
  <2>6. ASSUME r.substitute, IsoWeekday(date) >= 6
        PROVE  \E d \in date + 1 .. date + 2 : IsoWeekday(d) = 1 /\ Kept(d, r)
    <3>1. sub \in date + 1 .. date + 2 /\ IsoWeekday(sub) = 1
      BY <2>2, <2>6, MondayFollows
    <3>2. sub # date
      <4> HIDE DEF sub, date
      <4> QED
        BY <2>2, <3>1
    <3>3. extra \in GoRows(i, r, year)
      BY <2>2, <2>6, <3>2 DEF GoRows
    <3>4. PICK p \in observances : SameDay(extra, p)
      BY <2>3, <3>3
    <3>5. extra.date = sub /\ extra.name = <<r.name, "Substitute">> /\ extra.state = r.state
      BY DEF Observance
    <3> HIDE DEF extra
    <3>6. p.date = sub /\ p.name = <<r.name, "Substitute">> /\ p.state = r.state
      BY <3>4, <3>5 DEF SameDay
    <3> HIDE DEF sub, date, r
    <3>7. p.name[1] = r.name
      BY <3>6
    <3>8. Kept(sub, r)
      BY <3>6, <3>7
    <3> QED
      BY <3>1, <3>8
  <2> QED
    BY <2>5, <2>6
<1>2. HolidaysInv => [DoneIsComplete]_holidaysVars
  BY <1>1
<1>3. HolidaysSpec => [][DoneIsComplete]_holidaysVars
  BY <1>2, HolidaysInvariant, PTL
<1> QED
  BY <1>3 DEF GeneratedYearIsComplete
=============================================================================
