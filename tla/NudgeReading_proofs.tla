--------------------------- MODULE NudgeReading_proofs ---------------------------
(***************************************************************************)
(* Proofs about NudgeReset: what is read off a pane is what the lowest     *)
(* banner was printed to say, for every zone, clock, locale, pattern, date *)
(* and bound.                                                              *)
(*                                                                         *)
(* The way there: a clock says its minute; the words of a day, read a      *)
(* while later, name that day; so each wording is read as the minute it    *)
(* was printed for while that is ahead; and of all the lines on a pane     *)
(* the lowest banner is the one that is read.                              *)
(***************************************************************************)
EXTENDS NudgeReset_proofs, FiniteSetTheorems, WellFoundedInduction

-----------------------------------------------------------------------------
(***************************************************************************)
(* A clock names a minute of a day.                                        *)
(***************************************************************************)
Second(t) == (t % Day) - (t % Minute)

LEMMA MinuteOfDay ==
  ASSUME NEW t \in Int
  PROVE  /\ (t % Day) \div Hour \in 0 .. 23 /\ (t % Hour) \div Minute \in 0 .. 59
         /\ ((t % Day) \div Hour) * Hour + ((t % Hour) \div Minute) * Minute = Second(t)
         /\ Second(t) \in Int /\ 0 <= Second(t) /\ Second(t) < 86400 /\ t \div Day \in Int
         /\ (t \div Day) * 86400 + Second(t) = ToMinute(t)
         /\ ToMinute(t) \in Int /\ ToMinute(t) <= t /\ t < ToMinute(t) + 60
<1> DEFINE n == t \div 86400
           d == t % 86400
           h == d \div 3600
           e == d % 3600
           m == e \div 60
           r == e % 60
<1>1. n \in Int /\ d \in Int /\ 0 <= d /\ d < 86400 /\ t = n * 86400 + d
  BY SMT
<1>2. h \in Int /\ e \in Int /\ 0 <= e /\ e < 3600 /\ d = h * 3600 + e
  BY <1>1, SMT
<1>3. m \in Int /\ r \in 0 .. 59 /\ e = m * 60 + r
  BY <1>2, SMT
<1> HIDE DEF n, d, h, e, m, r
<1>4. h \in 0 .. 23 /\ m \in 0 .. 59
  BY <1>1, <1>2, <1>3, SMT
<1>5. t % 3600 = e
  <2>1. t = (n * 24 + h) * 3600 + e /\ n * 24 + h \in Int
    BY <1>1, <1>2, SMT
  <2> DEFINE q == n * 24 + h
  <2> HIDE DEF q
  <2> QED
    BY <1>2, <2>1, SMT DEF q
<1>6. t % 60 = r
  <2>1. t = (n * 1440 + h * 60 + m) * 60 + r /\ n * 1440 + h * 60 + m \in Int
    BY <1>1, <1>2, <1>3, SMT
  <2> DEFINE q == n * 1440 + h * 60 + m
  <2> HIDE DEF q
  <2> QED
    BY <1>3, <2>1, SMT DEF q
<1>7. t = n * 86400 + h * 3600 + m * 60 + r /\ d = h * 3600 + m * 60 + r
  BY <1>1, <1>2, <1>3, <1>4, SMT
<1>8. t \div Day = n /\ t % Day = d /\ t % Hour = e /\ t % Minute = r
  BY <1>5, <1>6, SMT DEF n, d, Day, Hour, Minute
<1>9. d \div Hour = h /\ e \div Minute = m
  BY SMT DEF h, m, Hour, Minute
<1>10. Second(t) = d - r /\ ToMinute(t) = t - r
  BY <1>8 DEF Second, ToMinute
<1> QED
  BY <1>1, <1>3, <1>4, <1>7, <1>8, <1>9, <1>10, SMT DEF Hour, Minute

LEMMA ClockSays ==
  ASSUME NEW t \in Int
  PROVE  clock_hm(Clock12(t)) = {Second(t)} /\ clock_hm(Clock24(t)) = {Second(t)}
<1> DEFINE h == (t % Day) \div Hour
           m == (t % Hour) \div Minute
           c == Clock24(t)
<1>1. h \in 0 .. 23 /\ m \in 0 .. 59 /\ h * Hour + m * Minute = Second(t)
  BY MinuteOfDay
<1>2. m # None
  BY <1>1, NoneIsNoNumber
<1>3. Clock12(t) = [h |-> IF h % 12 = 0 THEN 12 ELSE h % 12, m |-> m,
                    mer |-> IF h < 12 THEN "AM" ELSE "PM"]
  BY DEF Clock12
<1>4. c.h = h /\ c.m = m /\ c.mer \notin {"AM", "PM"} /\ c.mer = "none"
  BY DEF Clock24
<1> HIDE DEF h, m, c
<1>5. clock_hm(c) = {h * Hour + m * Minute}
  BY <1>1, <1>2, <1>4 DEF clock_hm
<1>6. clock_hm(Clock12(t)) = {h * Hour + m * Minute}
  BY <1>1, <1>2, <1>3 DEF clock_hm
<1> QED
  BY <1>1, <1>5, <1>6 DEF c

\* The coming minute so called is the one meant, for a day.
LEMMA ClockExact ==
  ASSUME NEW here \in Int, NEW t \in Int, here < ToMinute(t), ToMinute(t) <= here + Day
  PROVE  at_clock(here, Second(t)) = ToMinute(t)
<1> DEFINE n == t \div Day
           s == Second(t)
           k == here \div Day
<1>1. s \in Int /\ 0 <= s /\ s < 86400 /\ n * 86400 + s = ToMinute(t) /\ n \in Int
  BY MinuteOfDay
<1>2. k \in Int /\ k * 86400 <= here /\ here < k * 86400 + 86400
  BY SMT DEF Day
<1> HIDE DEF n, s
<1>3. at_clock(here, s) = IF k * 86400 + s <= here THEN k * 86400 + s + 86400 ELSE k * 86400 + s
  BY SMT DEF at_clock, Day
<1> HIDE DEF k
<1>4. here < n * 86400 + s /\ n * 86400 + s <= here + 86400
  BY <1>1, SMT DEF Day
<1>5. n = k \/ n = k + 1
  BY <1>1, <1>2, <1>4, SMT
<1>6. at_clock(here, s) = n * 86400 + s
  BY <1>1, <1>2, <1>3, <1>4, <1>5, SMT
<1> QED
  BY <1>1, <1>6, SMT DEF s

\* And its weekday for a week.
LEMMA WeekdayExact ==
  ASSUME NEW here \in Int, NEW t \in Int, here < ToMinute(t), ToMinute(t) <= here + 7 * Day
  PROVE  weekday_at(here, Weekday(t \div Day), Second(t)) = ToMinute(t)
<1> DEFINE n == t \div Day
           s == Second(t)
           k == here \div Day
           w == (Weekday(n) - Weekday(k)) % 7
<1>1. s \in Int /\ 0 <= s /\ s < 86400 /\ n * 86400 + s = ToMinute(t) /\ n \in Int
  BY MinuteOfDay
<1>2. k \in Int /\ k * 86400 <= here /\ here < k * 86400 + 86400
  BY SMT DEF Day
<1>3. weekday_at(here, Weekday(n), s) =
        IF (k + w) * 86400 + s > here THEN (k + w) * 86400 + s ELSE (k + w) * 86400 + s + 604800
  BY SMT DEF weekday_at, Day
<1> HIDE DEF n, s, k
<1>4. here < n * 86400 + s /\ n * 86400 + s <= here + 604800
  BY <1>1, SMT DEF Day
<1>5. n - k \in 0 .. 7
  BY <1>1, <1>2, <1>4, SMT
<1>6. w = (n - k) % 7
  BY <1>1, <1>2, SMT DEF Weekday
<1>7. IF n - k = 7 THEN w = 0 ELSE w = n - k
  BY <1>5, <1>6, SMT
<1> HIDE DEF w
<1>8. weekday_at(here, Weekday(n), s) = n * 86400 + s
  <2>1. CASE n - k = 7
    BY <1>1, <1>2, <1>3, <1>4, <1>7, <2>1, SMT
  <2>2. CASE n - k # 7
    <3>1. k + w = n
      BY <1>1, <1>2, <1>7, <2>2, SMT
    <3> QED
      BY <1>1, <1>3, <1>4, <3>1, SMT
  <2> QED
    BY <2>1, <2>2, SMT
<1> QED
  BY <1>1, <1>8, SMT DEF n, s

-----------------------------------------------------------------------------
(***************************************************************************)
(* Every day has a date, and it is one.                                    *)
(***************************************************************************)
LEMMA YearLength ==
  ASSUME NEW y \in Int
  PROVE  /\ YearStart(y) \in Int
         /\ YearStart(y + 1) = YearStart(y) + (IF Leap(y) THEN 366 ELSE 365)
<1>1. /\ y \div 4 = (y - 1) \div 4 + (IF y % 4 = 0 THEN 1 ELSE 0)
      /\ y \div 100 = (y - 1) \div 100 + (IF y % 100 = 0 THEN 1 ELSE 0)
      /\ y \div 400 = (y - 1) \div 400 + (IF y % 400 = 0 THEN 1 ELSE 0)
  OBVIOUS
<1>2. (y % 400 = 0 => y % 100 = 0) /\ (y % 100 = 0 => y % 4 = 0)
  OBVIOUS
<1> QED
  BY <1>1, <1>2 DEF YearStart, Leap

LEMMA YearBegins2000 == YearStart(2000) = 0
BY DEF YearStart

Below == {p \in Nat \X Nat : p[1] < p[2]}

LEMMA BelowWellFounded == IsWellFoundedOn(Below, Nat)
BY NatLessThanWellFounded, Zenon DEF OpToRel, Below

LEMMA DayHasYear ==
  ASSUME NEW n \in Nat
  PROVE  YearsOf(n) # {} /\ YearsOf(n) \subseteq Int
<1> DEFINE Past(k) == n < YearStart(2000 + k)
           Later == {k \in Nat : Past(k)}
<1>1. Later # {}
  <2>1. YearStart(2000 + (n + 1)) - YearStart(2000) >= 365 * (n + 1)
    BY YearsGrow
  <2>2. n < YearStart(2000 + (n + 1))
    <3>1. YearStart(2000 + (n + 1)) \in Int
      BY YearLength
    <3> HIDE DEF Later
    <3> QED
      BY <2>1, <3>1, YearBegins2000
  <2>3. n + 1 \in Nat /\ Past(n + 1)
    BY <2>2
  <2> HIDE DEF Past
  <2> QED
    BY <2>3
<1>2. PICK k \in Later : \A j \in Later : ~(j < k)
  <2>1. Later \in SUBSET Nat
    OBVIOUS
  <2> HIDE DEF Later
  <2>2. PICK x \in Later : \A y \in Later : ~(<<y, x>> \in Below)
    BY <1>1, <2>1, BelowWellFounded, WFMin
  <2> QED
    BY <2>1, <2>2 DEF Below
<1>3. k # 0
  BY <1>2, YearBegins2000
<1>4. k - 1 \in Nat /\ k - 1 \notin Later
  BY <1>2, <1>3
<1> DEFINE y == 2000 + (k - 1)
<1>5. y \in Int /\ YearStart(y) <= n /\ n < YearStart(y + 1)
  <2>1. YearStart(y) \in Int
    BY <1>4, YearLength
  <2>2. y + 1 = 2000 + k
    BY <1>4
  <2> QED
    BY <1>2, <1>4, <2>1, <2>2
<1> HIDE DEF y
<1>6. y \in 2000 + (n \div 366) .. 2001 + (n \div 365)
  <2>0. y >= 2000
    BY <1>4 DEF y
  <2>1. YearStart(y) - YearStart(2000) >= 365 * (y - 2000)
    BY <1>5, <2>0, YearsGrow
  <2>2. 365 * (y - 2000) <= n
    BY <1>5, <2>1, YearBegins2000, YearLength
  <2>3. y - 2000 <= n \div 365
    BY <1>5, <2>2
  <2>4. YearStart(y + 1) <= 366 * (y + 1 - 2000)
    BY <1>5, <2>0 DEF YearStart
  <2>5. n < 366 * (y + 1 - 2000)
    BY <1>5, <2>4, YearLength
  <2>6. n \div 366 <= y - 2000
    BY <1>5, <2>5
  <2> QED
    BY <1>5, <2>3, <2>6
<1> QED
  BY <1>5, <1>6 DEF YearsOf

LEMMA YearOfDay ==
  ASSUME NEW n \in Nat
  PROVE  /\ YearOf(n) \in Int /\ YearOf(n) >= 2000
         /\ YearStart(YearOf(n)) <= n /\ n < YearStart(YearOf(n) + 1)
<1>1. YearOf(n) \in YearsOf(n)
  BY DayHasYear DEF YearOf
<1>2. n \div 366 >= 0
  OBVIOUS
<1> QED
  BY <1>1, <1>2 DEF YearsOf

\* There is a month for every day of a year.
LEMMA MonthOfDay ==
  ASSUME NEW n \in Nat
  PROVE  /\ MonthOf(n) \in 1 .. 12
         /\ n - DayOf(YearOf(n), MonthOf(n), 1) \in 0 .. MonthLength(YearOf(n), MonthOf(n)) - 1
<1> DEFINE y == YearOf(n)
           k == n - YearStart(y)
<1>1. y \in Int /\ YearStart(y) \in Int /\ k \in Int /\ 0 <= k /\ (IF Leap(y) THEN k < 366 ELSE k < 365)
  BY YearOfDay, YearLength
<1> HIDE DEF y, k
<1>2. \E m \in 1 .. 12 : k - MonthStart(y, m) \in 0 .. MonthLength(y, m) - 1
  <2>1. CASE Leap(y)
    <3>1. PICK m \in 1 .. 12 :
            LET b == <<0, 31, 60, 91, 121, 152, 182, 213, 244, 274, 305, 335>>[m]
                l == <<31, 29, 31, 30, 31, 30, 31, 31, 30, 31, 30, 31>>[m]
            IN b <= k /\ k <= b + l - 1
      BY <1>1, <2>1, SMTT(30)
    <3> QED
      BY <1>1, <2>1, <3>1 DEF MonthStart, MonthLength
  <2>2. CASE ~Leap(y)
    <3>1. PICK m \in 1 .. 12 :
            LET b == <<0, 31, 59, 90, 120, 151, 181, 212, 243, 273, 304, 334>>[m]
                l == <<31, 28, 31, 30, 31, 30, 31, 31, 30, 31, 30, 31>>[m]
            IN b <= k /\ k <= b + l - 1
      BY <1>1, <2>2
    <3> QED
      BY <1>1, <2>2, <3>1 DEF MonthStart, MonthLength
  <2> QED
    BY <2>1, <2>2
<1>3. \E m \in 1 .. 12 : n - DayOf(y, m, 1) \in 0 .. MonthLength(y, m) - 1
  <2>1. PICK m \in 1 .. 12 : k - MonthStart(y, m) \in 0 .. MonthLength(y, m) - 1
    BY <1>2
  <2>2. MonthStart(y, m) \in Int
    BY <1>1, MonthsBegin
  <2>3. n - DayOf(y, m, 1) = k - MonthStart(y, m)
    BY <1>1, <2>2 DEF DayOf, k
  <2> QED
    BY <2>1, <2>3
<1> DEFINE Is(m) == n - DayOf(y, m, 1) \in 0 .. MonthLength(y, m) - 1
<1>4. MonthOf(n) = CHOOSE m \in 1 .. 12 : Is(m)
  BY DEF MonthOf, y
<1>5. \E m \in 1 .. 12 : Is(m)
  BY <1>3
<1> HIDE DEF Is
<1>6. MonthOf(n) \in 1 .. 12 /\ Is(MonthOf(n))
  BY <1>4, <1>5
<1> QED
  BY <1>6 DEF Is, y

LEMMA DateOfDay ==
  ASSUME NEW n \in Nat
  PROVE  /\ DayOfMonth(n) \in 1 .. MonthLength(YearOf(n), MonthOf(n))
         /\ DayOf(YearOf(n), MonthOf(n), DayOfMonth(n)) = n
         /\ MonthLength(YearOf(n), MonthOf(n)) \in 28 .. 31
<1> DEFINE y == YearOf(n)
           m == MonthOf(n)
<1>1. /\ y \in Int /\ m \in 1 .. 12 /\ YearStart(y) \in Int
      /\ n - DayOf(y, m, 1) \in 0 .. MonthLength(y, m) - 1
  BY YearOfDay, MonthOfDay, YearLength
<1>2. DayOfMonth(n) = n - DayOf(y, m, 1) + 1
  BY DEF DayOfMonth
<1> HIDE DEF y, m
<1>3. MonthStart(y, m) \in Int /\ MonthLength(y, m) \in 28 .. 31
  <2>1. MonthStart(y, m) \in Int
    BY <1>1, MonthsBegin
  <2>2. MonthLength(y, m) \in 28 .. 31
    BY DEF MonthLength
  <2> QED
    BY <2>1, <2>2
<1>4. DayOf(y, m, 1) = YearStart(y) + MonthStart(y, m) + 1 - 1
  BY DEF DayOf
<1>5. DayOf(y, m, DayOfMonth(n)) = YearStart(y) + MonthStart(y, m) + DayOfMonth(n) - 1
  BY DEF DayOf
<1> DEFINE e == DayOfMonth(n)
<1> HIDE DEF e
<1>6. e \in 1 .. MonthLength(y, m) /\ DayOf(y, m, e) = n
  BY <1>1, <1>2, <1>3, <1>4, <1>5 DEF e
<1> QED
  BY <1>3, <1>6 DEF y, m, e

-----------------------------------------------------------------------------
(***************************************************************************)
(* A date names the day it is of, while that is ahead.                     *)
(***************************************************************************)
\* A moment within the calendar and the code's range of years.
InYears(here) == here \in Int /\ 0 <= here /\ here <= YearStart(9999) * Day

LEMMA DatesGrow ==
  ASSUME NEW m \in 1 .. 12, NEW d \in Int, NEW x \in Int, NEW y \in Int, x < y
  PROVE  DayOf(y, m, d) - DayOf(x, m, d) >= 364
<1>1. YearStart(x) \in Int /\ YearStart(y) \in Int
  BY YearLength
<1>2. MonthStart(x, m) \in Int /\ MonthStart(y, m) \in Int
  BY MonthsBegin
<1>3. YearStart(y) - YearStart(x) >= 365 * (y - x)
  BY YearsGrow
<1>4. YearStart(y) - YearStart(x) >= 365
  BY <1>1, <1>3
<1>5. MonthStart(y, m) >= MonthStart(x, m) - 1
  BY DEF MonthStart
<1> QED
  BY <1>1, <1>2, <1>4, <1>5 DEF DayOf

\* Days at most a month apart are in one year or in two that follow each other.
LEMMA YearsNear ==
  ASSUME NEW k \in Nat, NEW n \in Nat, k <= n, n <= k + 31, NEW x \in YearsOf(k)
  PROVE  x \in Int /\ (YearOf(n) = x \/ YearOf(n) = x + 1)
<1> DEFINE y == YearOf(n)
<1>1. y \in Int /\ YearStart(y) <= n /\ n < YearStart(y + 1)
  BY YearOfDay
<1>2. x \in Int /\ YearStart(x) <= k /\ k < YearStart(x + 1)
  BY DayHasYear DEF YearsOf
<1> HIDE DEF y
<1>3. /\ YearStart(x) \in Int /\ YearStart(y) \in Int
      /\ YearStart(x + 1) \in Int /\ YearStart(y + 1) \in Int
  BY <1>1, <1>2, YearLength
<1>4. ~(y < x)
  <2> SUFFICES ASSUME y < x PROVE FALSE
    OBVIOUS
  <2>1. y + 1 \in Int /\ y + 1 <= x /\ x - (y + 1) >= 0
    BY <1>1, <1>2
  <2>2. YearStart(x) - YearStart(y + 1) >= 365 * (x - (y + 1))
    BY <1>2, <2>1, YearsGrow
  <2> QED
    BY <1>1, <1>2, <1>3, <2>1, <2>2
<1>5. ~(y > x + 1)
  <2> SUFFICES ASSUME y > x + 1 PROVE FALSE
    OBVIOUS
  <2>1. x + 1 \in Int /\ x + 1 <= y /\ y - (x + 1) >= 1
    BY <1>1, <1>2
  <2>2. YearStart(y) - YearStart(x + 1) >= 365 * (y - (x + 1))
    BY <1>1, <2>1, YearsGrow
  <2> QED
    BY <1>1, <1>2, <1>3, <2>1, <2>2
<1>6. y = x \/ y = x + 1
  BY <1>1, <1>2, <1>4, <1>5
<1> QED
  BY <1>2, <1>6 DEF y

LEMMA IsADate ==
  ASSUME NEW n \in Nat, n <= YearStart(9999) + 31
  PROVE  IsDate(YearOf(n), MonthOf(n), DayOfMonth(n))
<1> DEFINE y == YearOf(n)
<1>1. y \in Int /\ y >= 2000 /\ YearStart(y) <= n
  BY YearOfDay
<1> HIDE DEF y
<1>2. y <= 9999
  <2> SUFFICES ASSUME y > 9999 PROVE FALSE
    BY <1>1
  <2>1. YearStart(y) - YearStart(9999) >= 365 * (y - 9999)
    BY <1>1, YearsGrow, SMT
  <2>2. YearStart(y) \in Int /\ YearStart(9999) \in Int
    BY <1>1, YearLength, SMT
  <2> QED
    BY <1>1, <2>1, <2>2, SMT
<1>3. MonthOf(n) \in 1 .. 12 /\ DayOfMonth(n) \in 1 .. MonthLength(YearOf(n), MonthOf(n))
  BY MonthOfDay, DateOfDay
<1>4. y \in -9999 .. 9999
  <2> DEFINE low == -9999
  <2>1. low \in Int /\ low <= y
    BY <1>1, SMT
  <2> HIDE DEF low
  <2>2. y \in low .. 9999
    BY <1>1, <1>2, <2>1, SMT
  <2> QED
    BY <2>2, SMT DEF low
<1>5. YearOf(n) \in -9999 .. 9999
  BY <1>4, SMT DEF y
<1> QED
  BY <1>3, <1>5, SMT DEF IsDate

\* A date with its year names no other day.
LEMMA StatedDate ==
  ASSUME NEW here \in Int, NEW n \in Nat, NEW s \in Int,
         NEW z \in month_day_at(here, MonthOf(n), DayOfMonth(n), YearOf(n), s)
  PROVE  z = n * Day + s /\ here < z /\ z <= here + 31 * Day
<1> DEFINE y == YearOf(n)
           m == MonthOf(n)
           d == DayOfMonth(n)
<1>1. y # None
  BY YearOfDay, NoneIsNoNumber
<1>2. DayOf(y, m, d) = n
  BY DateOfDay
<1> HIDE DEF y, m, d
<1>3. month_day_at(here, m, d, y, s) \subseteq
        {q \in {o * Day + s : o \in {DayOf(y, m, d)}} : q > here /\ q <= here + 31 * Day}
  BY <1>1 DEF month_day_at, MONTH_DAY_HORIZON_DAYS
<1> QED
  BY <1>2, <1>3 DEF y, m, d, Day

LEMMA DateExact ==
  ASSUME NEW here, InYears(here), NEW t \in Int, here < ToMinute(t), ToMinute(t) <= here + 31 * Day,
         NEW year \in {None, YearOf(t \div Day)}
  PROVE  /\ t \div Day \in Nat
         /\ month_day_at(here, MonthOf(t \div Day), DayOfMonth(t \div Day), year, Second(t))
              = {ToMinute(t)}
<1> DEFINE n == t \div Day
           s == Second(t)
           k == here \div Day
           u == ToMinute(t)
           y == YearOf(n)
           m == MonthOf(n)
           d == DayOfMonth(n)
           last == YearStart(9999)
<1>1. s \in Int /\ 0 <= s /\ s < 86400 /\ n * 86400 + s = u /\ n \in Int /\ u \in Int
  BY MinuteOfDay
<1>2. last \in Int
  BY YearLength, SMT
<1>a. here \in Int /\ 0 <= here /\ here <= last * 86400
  BY DEF InYears, Day
<1> HIDE DEF last
<1>3. k \in Int /\ k * 86400 <= here /\ here < k * 86400 + 86400
  BY <1>a, SMT DEF Day
<1> HIDE DEF n, s, k, u
<1>4. here < n * 86400 + s /\ n * 86400 + s <= here + 2678400
  BY <1>1, SMT DEF u, Day
<1>5. n \in Nat /\ k \in Nat /\ k <= n /\ n <= k + 31 /\ n <= last + 31
  BY <1>1, <1>2, <1>a, <1>3, <1>4, SMT
<1>6. DayOf(y, m, d) = n /\ IsDate(y, m, d) /\ y \in Int /\ m \in 1 .. 12 /\ d \in Int
  <2>1. IsDate(y, m, d)
    BY <1>5, IsADate DEF last
  <2>2. y \in Int /\ m \in 1 .. 12
    BY <1>5, YearOfDay, MonthOfDay
  <2>3. DayOf(y, m, d) = n /\ d \in 1 .. MonthLength(y, m) /\ MonthLength(y, m) \in 28 .. 31
    BY <1>5, DateOfDay
  <2> QED
    BY <2>1, <2>2, <2>3
<1>7. year = None \/ year = y
  BY DEF n
<1> HIDE DEF y, m, d
<1> DEFINE this  == YearsOf(k)
           years == IF year = None THEN this \cup {x + 1 : x \in this} ELSE {year}
           dates == {DayOf(x, m, d) : x \in {v \in years : IsDate(v, m, d)}}
           ahead == {z \in {q * Day + s : q \in dates} : z > here}
<1>8. years \subseteq Int /\ y \in years
  <2>1. \A x \in this : x \in Int /\ (y = x \/ y = x + 1)
    BY <1>5, YearsNear DEF y
  <2>2. this # {}
    BY <1>5, DayHasYear
  <2> HIDE DEF this
  <2> QED
    BY <1>6, <1>7, <2>1, <2>2
<1> HIDE DEF years
<1>9. u \in ahead
  <2>1. n \in dates
    BY <1>6, <1>8
  <2>2. u = n * Day + s
    BY <1>1, SMT DEF Day
  <2> HIDE DEF dates
  <2> QED
    BY <1>1, <1>4, <2>1, <2>2
<1>10. ASSUME NEW o \in ahead
       PROVE  o \in Int /\ (o = u \/ o > u + 2678400)
  <2>1. PICK x \in years : o = DayOf(x, m, d) * Day + s
    OBVIOUS
  <2>2. o > here /\ x \in Int
    BY <1>8
  <2>3. DayOf(x, m, d) \in Int
    <3>1. YearStart(x) \in Int /\ MonthStart(x, m) \in Int
      BY <1>6, <2>2, YearLength, MonthsBegin
    <3> QED
      BY <1>6, <3>1 DEF DayOf
  <2> DEFINE q == DayOf(x, m, d)
  <2> HIDE DEF ahead
  <2>a. q \in Int /\ o = q * 86400 + s
    BY <2>1, <2>3, SMT DEF Day
  <2>4. CASE x = y
    <3>1. q = n
      BY <1>6, <2>4
    <3> HIDE DEF q
    <3> QED
      BY <1>1, <2>a, <3>1, SMT
  <2>5. CASE x < y
    <3>1. n - q >= 364
      BY <1>6, <2>2, <2>5, DatesGrow
    <3> HIDE DEF q
    <3> QED
      BY <1>1, <1>a, <1>4, <2>2, <2>a, <3>1, SMT
  <2>6. CASE x > y
    <3>1. q - n >= 364
      BY <1>6, <2>2, <2>6, DatesGrow
    <3> HIDE DEF q
    <3> QED
      BY <1>1, <2>a, <3>1, SMT
  <2> QED
    BY <1>6, <2>2, <2>4, <2>5, <2>6, SMT
<1>11. month_day_at(here, m, d, year, s)
         = {z \in ahead : z <= here + 31 * Day /\ \A o \in ahead : z <= o}
  BY DEF month_day_at, MONTH_DAY_HORIZON_DAYS, years, k
<1> HIDE DEF ahead
<1> DEFINE r == here + 31 * Day
<1>12. r \in Int /\ u <= r /\ r < u + 2678400 /\ u < u + 2678400
  BY <1>1, <1>a, <1>4, SMT DEF Day
<1> HIDE DEF r
<1>13. u <= r /\ \A o \in ahead : u <= o /\ (o <= r => o = u)
  BY <1>1, <1>10, <1>12, SMT
<1>14. {z \in ahead : z <= r /\ \A o \in ahead : z <= o} = {u}
  BY <1>9, <1>13, Zenon
<1>15. month_day_at(here, m, d, year, s) = {u}
  BY <1>11, <1>14 DEF r
<1> QED
  BY <1>5, <1>15 DEF n, s, u, m, d

\* Its two numbers the other way round name the same day, or none within the week.
LEMMA OtherReading ==
  ASSUME NEW here, InYears(here), NEW t \in Int, here < ToMinute(t), ToMinute(t) <= here + 7 * Day,
         t \div Day \in Nat, NEW year,
         NEW z \in month_day_at(here, DayOfMonth(t \div Day), MonthOf(t \div Day), year, Second(t))
  PROVE  z \in Int /\ (z = ToMinute(t) \/ z > here + WEEKLY_WINDOW_DAYS * Day)
<1> DEFINE n == t \div Day
           s == Second(t)
           u == ToMinute(t)
           y == YearOf(n)
           m == MonthOf(n)
           d == DayOfMonth(n)
<1>1. s \in Int /\ n * 86400 + s = u /\ n \in Nat /\ u \in Int /\ here \in Int
  BY MinuteOfDay DEF InYears
<1>2. here < u /\ u <= here + 604800
  BY SMT DEF Day
<1>3. y \in Int /\ m \in 1 .. 12 /\ DayOf(y, m, d) = n
  BY YearOfDay, MonthOfDay, DateOfDay
<1>4. PICK x : IsDate(x, d, m) /\ z = DayOf(x, d, m) * Day + s /\ z > here
  BY DEF month_day_at
<1> HIDE DEF n, s, u, y, m, d
<1>5. x \in Int /\ d \in 1 .. 12
  BY <1>4, SMT DEF IsDate
<1> DEFINE q == DayOf(x, d, m)
<1>6. q \in Int
  <2>1. YearStart(x) \in Int /\ MonthStart(x, d) \in Int
    BY <1>5, YearLength, MonthsBegin
  <2> QED
    BY <1>3, <2>1 DEF DayOf
<1>7. q = n \/ q - n >= 27 \/ q - n <= -27
  <2>1. CASE d < m
    BY <1>3, <1>5, <2>1, ReadingsApart
  <2>2. CASE m < d
    <3>1. LET gap == n - q IN gap \in Int /\ (gap <= -27 \/ gap >= 27)
      BY <1>3, <1>5, <2>2, ReadingsApart
    <3> HIDE DEF q
    <3> QED
      BY <1>1, <1>6, <3>1
  <2>3. CASE m = d
    <3>1. CASE x < y
      <4>1. n - q >= 27
        BY <1>3, <1>5, <2>3, <3>1, SameDayApart
      <4> HIDE DEF q
      <4> QED
        BY <1>1, <1>6, <4>1
    <3>2. CASE y < x
      BY <1>3, <1>5, <2>3, <3>2, SameDayApart
    <3>3. CASE x = y
      BY <1>3, <2>3, <3>3
    <3> QED
      BY <1>3, <1>5, <3>1, <3>2, <3>3
  <2> QED
    BY <1>3, <1>5, <2>1, <2>2, <2>3
<1>8. z = q * 86400 + s /\ z > here
  BY <1>4, SMT DEF Day
<1> HIDE DEF q
<1>9. z \in Int /\ (z = u \/ z > here + 691200)
  BY <1>1, <1>2, <1>6, <1>7, <1>8, SMT
<1> QED
  BY <1>9, SMT DEF u, Day, WEEKLY_WINDOW_DAYS

LEMMA NumberExact ==
  ASSUME NEW here, InYears(here), NEW t \in Int, here < ToMinute(t), ToMinute(t) <= here + 7 * Day,
         NEW year \in {None, YearOf(t \div Day)}, NEW order
  PROVE  LET m == MonthOf(t \div Day)
             d == DayOfMonth(t \div Day)
         IN /\ numeric_at(here, m, d, year, Second(t), order) = {ToMinute(t)}
            /\ numeric_at(here, d, m, year, Second(t), order) = {ToMinute(t)}
<1> DEFINE n == t \div Day
           s == Second(t)
           u == ToMinute(t)
           m == MonthOf(n)
           d == DayOfMonth(n)
           A == month_day_at(here, m, d, year, s)
           B == month_day_at(here, d, m, year, s)
           window == here + WEEKLY_WINDOW_DAYS * Day
<1>1. here \in Int /\ u \in Int
  BY MinuteOfDay DEF InYears
<1>2. u <= here + 31 * Day /\ u <= window
  BY <1>1, SMT DEF Day, WEEKLY_WINDOW_DAYS
<1>3. n \in Nat /\ A = {u}
  BY <1>2, DateExact
<1>4. \A z \in B : z \in Int /\ (z = u \/ z > window)
  BY <1>3, OtherReading
<1>5. /\ numeric_at(here, m, d, year, s, order) =
           IF A = {} \/ B = {} THEN A \cup B
           ELSE UNION {pick_reading(a, b, window, order) : a \in A, b \in B}
      /\ numeric_at(here, d, m, year, s, order) =
           IF B = {} \/ A = {} THEN B \cup A
           ELSE UNION {pick_reading(b, a, window, order) : b \in B, a \in A}
  BY DEF numeric_at
<1> HIDE DEF A, B, n, s, u, m, d, window
<1>6. ASSUME NEW z \in B
      PROVE  pick_reading(u, z, window, order) = {u} /\ pick_reading(z, u, window, order) = {u}
  <2>1. u <= window /\ (z = u \/ z > window)
    BY <1>2, <1>4
  <2>2. window \in Int
    BY <1>1, SMT DEF window, WEEKLY_WINDOW_DAYS, Day
  <2>3. z \in Int
    BY <1>4
  <2> QED
    BY <2>1, <2>2, <2>3 DEF pick_reading
<1>7. /\ numeric_at(here, m, d, year, s, order) = {u}
      /\ numeric_at(here, d, m, year, s, order) = {u}
  <2>1. CASE B = {}
    BY <1>3, <1>5, <2>1
  <2>2. CASE B # {}
    <3>1. UNION {pick_reading(a, b, window, order) : a \in A, b \in B} = {u}
      BY <1>3, <1>6, <2>2
    <3>2. UNION {pick_reading(b, a, window, order) : b \in B, a \in A} = {u}
      BY <1>3, <1>6, <2>2
    <3> QED
      BY <1>3, <1>5, <2>2, <3>1, <3>2
  <2> QED
    BY <2>1, <2>2
<1> QED
  BY <1>7 DEF n, s, u, m, d

-----------------------------------------------------------------------------
(***************************************************************************)
(* The words of a day, by what they say and not where.                     *)
(***************************************************************************)
\* What the words W put in field f.
Names(W, f) == {w.is : w \in {v \in W : v.field = f}}

\* The words W, each in its place, no field twice.
Spelt(words, W) ==
  /\ \A k \in DOMAIN words : words[k] \in W
  /\ \A w \in W : \E k \in DOMAIN words : words[k] = w
  /\ \A j, k \in DOMAIN words : words[j].field = words[k].field => j = k

Sentence(words, W) == words \in Seq(W) /\ Spelt(words, W)

WithYears(dates, years) == UNION {with_year(d, years) : d \in dates}

MonthDays(months, days, years) ==
  {MonthDay(m, d, IF years = {} THEN None ELSE CHOOSE y \in years : TRUE) : m \in months, d \in days}

\* What scan_day_words makes of the words W.
Reads(W, refuse) ==
  IF refuse /\ Names(W, "other") # {} THEN {}
  ELSE CASE Names(W, "date") # {} /\ Names(W, "month") = {} /\ Names(W, "day") = {} ->
              WithYears(Names(W, "date"), Names(W, "year"))
         [] Names(W, "date") = {} /\ Names(W, "month") # {} /\ Names(W, "day") # {} ->
              MonthDays(Names(W, "month"), Names(W, "day"), Names(W, "year"))
         [] /\ Names(W, "date") = {} /\ Names(W, "month") = {} /\ Names(W, "day") = {}
            /\ Names(W, "year") = {} ->
              IF Names(W, "named") = {} THEN {Unnamed} ELSE Names(W, "named")
         [] OTHER -> {}

LEMMA AtMostOne ==
  ASSUME NEW S, \A x, y \in S : x = y
  PROVE  ~(Cardinality(S) > 1)
<1>1. CASE S = {}
  BY <1>1, FS_EmptySet
<1>2. CASE S # {}
  <2>1. PICK x \in S : TRUE
    BY <1>2
  <2>2. S = {x}
    BY <2>1
  <2> QED
    BY <2>2, FS_Singleton
<1> QED
  BY <1>1, <1>2

LEMMA ScanSpelt ==
  ASSUME NEW words, NEW W, Spelt(words, W), NEW refuse \in BOOLEAN
  PROVE  scan_day_words(words, refuse) = Reads(W, refuse)
<1> DEFINE at(f) == {k \in DOMAIN words : words[k].field = f}
           of(f) == {words[k].is : k \in at(f)}
<1>1. \A f : ~(Cardinality(at(f)) > 1)
  <2> TAKE f
  <2>1. \A x, y \in at(f) : x = y
    BY DEF Spelt
  <2> HIDE DEF at
  <2> QED
    BY <2>1, AtMostOne
<1>2. \A f : of(f) = Names(W, f) /\ (at(f) # {} <=> Names(W, f) # {})
  <2> TAKE f
  <2>1. \A x \in of(f) : x \in Names(W, f)
    BY DEF Spelt, Names
  <2>2. \A x \in Names(W, f) : \E k \in at(f) : x = words[k].is
    BY DEF Spelt, Names
  <2>3. \A k \in at(f) : words[k].is \in of(f)
    OBVIOUS
  <2> HIDE DEF at
  <2> QED
    BY <2>1, <2>2, <2>3
<1>3. scan_day_words(words, refuse) =
        IF \/ \E f \in {"date", "month", "year", "day", "named"} : Cardinality(at(f)) > 1
           \/ refuse /\ at("other") # {}
        THEN {}
        ELSE CASE \A f \in {"date", "month", "day"} : f \in {"date"} <=> of(f) # {} ->
                    WithYears(of("date"), of("year"))
               [] \A f \in {"date", "month", "day"} : f \in {"month", "day"} <=> of(f) # {} ->
                    MonthDays(of("month"), of("day"), of("year"))
               [] (\A f \in {"date", "month", "day"} : f \in {} <=> of(f) # {}) /\ of("year") = {} ->
                    IF of("named") = {} THEN {Unnamed} ELSE of("named")
               [] OTHER -> {}
  BY DEF scan_day_words, WithYears, MonthDays
<1> HIDE DEF at, of
<1>4. /\ of("date") = Names(W, "date") /\ of("month") = Names(W, "month")
      /\ of("day") = Names(W, "day") /\ of("year") = Names(W, "year")
      /\ of("named") = Names(W, "named") /\ (at("other") # {} <=> Names(W, "other") # {})
  BY <1>2
<1>5. \A fields : (\A f \in {"date", "month", "day"} : f \in fields <=> of(f) # {})
        <=> /\ "date" \in fields <=> Names(W, "date") # {}
            /\ "month" \in fields <=> Names(W, "month") # {}
            /\ "day" \in fields <=> Names(W, "day") # {}
  BY <1>4
<1>6. /\ "date" \in {"date"} /\ "month" \notin {"date"} /\ "day" \notin {"date"}
      /\ "date" \notin {"month", "day"} /\ "month" \in {"month", "day"} /\ "day" \in {"month", "day"}
  OBVIOUS
<1> QED
  BY <1>1, <1>3, <1>4, <1>5, <1>6 DEF Reads

LEMMA SpeltJoined ==
  ASSUME NEW a, NEW V, Sentence(a, V), NEW b, NEW W, Sentence(b, W),
         \A v \in V, w \in W : v.field # w.field
  PROVE  Sentence(a \o b, V \cup W)
<1> DEFINE c == a \o b
<1>1. a \in Seq(V \cup W) /\ b \in Seq(V \cup W)
  BY DEF Sentence
<1>2. c \in Seq(V \cup W)
  BY <1>1
<1>3. Len(c) = Len(a) + Len(b) /\ Len(a) \in Nat /\ Len(b) \in Nat
  BY <1>1
<1>4. /\ \A k \in DOMAIN a : k \in DOMAIN c /\ c[k] = a[k] /\ c[k] \in V
      /\ \A k \in DOMAIN b : Len(a) + k \in DOMAIN c /\ c[Len(a) + k] = b[k] /\ c[Len(a) + k] \in W
  <2>1. DOMAIN a = 1 .. Len(a) /\ DOMAIN b = 1 .. Len(b) /\ DOMAIN c = 1 .. Len(a) + Len(b)
    BY <1>1, <1>2, <1>3
  <2>2. \A k \in 1 .. Len(a) + Len(b) : c[k] = IF k <= Len(a) THEN a[k] ELSE b[k - Len(a)]
    BY <1>1, <1>3
  <2>3. (\A k \in DOMAIN a : a[k] \in V) /\ \A k \in DOMAIN b : b[k] \in W
    BY DEF Sentence, Spelt
  <2> HIDE DEF c
  <2>4. \A k \in DOMAIN a : k \in DOMAIN c /\ c[k] = a[k]
    BY <1>3, <2>1, <2>2
  <2>5. \A k \in DOMAIN b : Len(a) + k \in DOMAIN c /\ c[Len(a) + k] = b[k]
    BY <1>3, <2>1, <2>2
  <2> QED
    BY <2>3, <2>4, <2>5
<1>5. \A k \in DOMAIN c : k \in DOMAIN a \/ \E i \in DOMAIN b : k = Len(a) + i
  <2> TAKE k \in DOMAIN c
  <2>1. k \in 1 .. Len(a) + Len(b)
    BY <1>2, <1>3
  <2>2. k \in DOMAIN a \/ (k - Len(a) \in DOMAIN b /\ k = Len(a) + (k - Len(a)))
    BY <1>1, <1>3, <2>1
  <2> QED
    BY <2>2
<1> HIDE DEF c
<1>6. \A w \in V \cup W : \E k \in DOMAIN c : c[k] = w
  BY <1>4 DEF Sentence, Spelt
<1>7. ASSUME NEW j \in DOMAIN c, NEW k \in DOMAIN c, c[j].field = c[k].field
      PROVE  j = k
  <2>1. CASE j \in DOMAIN a /\ k \in DOMAIN a
    BY <1>4, <1>7, <2>1 DEF Sentence, Spelt
  <2>2. CASE j \in DOMAIN a /\ \E i \in DOMAIN b : k = Len(a) + i
    BY <1>4, <1>7, <2>2
  <2>3. CASE k \in DOMAIN a /\ \E i \in DOMAIN b : j = Len(a) + i
    BY <1>4, <1>7, <2>3
  <2>4. CASE (\E i \in DOMAIN b : j = Len(a) + i) /\ \E i \in DOMAIN b : k = Len(a) + i
    <3>1. PICK i \in DOMAIN b, q \in DOMAIN b : j = Len(a) + i /\ k = Len(a) + q
      BY <2>4
    <3>2. b[i].field = b[q].field
      BY <1>4, <1>7, <3>1
    <3>3. i = q
      BY <3>2 DEF Sentence, Spelt
    <3> QED
      BY <3>1, <3>3
  <2> QED
    BY <1>5, <2>1, <2>2, <2>3, <2>4
<1>8. \A k \in DOMAIN c : c[k] \in V \cup W
  BY <1>4, <1>5
<1>9. Spelt(c, V \cup W)
  BY <1>6, <1>7, <1>8 DEF Spelt
<1> QED
  BY <1>2, <1>9 DEF Sentence, c

LEMMA OneWord ==
  ASSUME NEW w
  PROVE  Sentence(<<w>>, {w})
BY DEF Sentence, Spelt

LEMMA NoWord == Sentence(<<>>, {})
BY DEF Sentence, Spelt

LEMMA NamesOne ==
  ASSUME NEW f, NEW g, NEW x
  PROVE  Names({Word(g, x)}, f) = IF f = g THEN {x} ELSE {}
<1> DEFINE w == Word(g, x)
<1>1. w.field = g /\ w.is = x
  BY DEF Word
<1> HIDE DEF w
<1>2. CASE f = g
  <2>1. {v \in {w} : v.field = f} = {w}
    BY <1>1, <1>2
  <2>2. Names({w}, f) = {v.is : v \in {w}}
    BY <2>1 DEF Names
  <2> QED
    BY <1>1, <1>2, <2>2 DEF w
<1>3. CASE f # g
  <2>1. {v \in {w} : v.field = f} = {}
    BY <1>1, <1>3
  <2>2. Names({w}, f) = {v.is : v \in {}}
    BY <2>1 DEF Names
  <2> QED
    BY <1>1, <1>3, <2>2 DEF w
<1> QED
  BY <1>2, <1>3

LEMMA NamesNone ==
  ASSUME NEW f
  PROVE  Names({}, f) = {}
BY DEF Names

\* What scan_day_words makes of the words that stand for a day.
LEMMA ReadsDate ==
  ASSUME NEW m, NEW d, NEW refuse
  PROVE  Reads({Word("month", m), Word("day", d)}, refuse) = {MonthDay(m, d, None)}
<1> DEFINE M == {Word("month", m)}
           D == {Word("day", d)}
           W == M \cup D
<1>0. /\ \A f : Names(M, f) = IF f = "month" THEN {m} ELSE {}
      /\ \A f : Names(D, f) = IF f = "day" THEN {d} ELSE {}
  BY NamesOne
<1>2. {Word("month", m), Word("day", d)} = W
  OBVIOUS
<1> HIDE DEF M, D
<1>1. \A f : Names(W, f) = (IF f = "month" THEN {m} ELSE {}) \cup (IF f = "day" THEN {d} ELSE {})
  <2>1. \A f : Names(W, f) = Names(M, f) \cup Names(D, f)
    BY DEF Names
  <2> QED
    BY <1>0, <2>1
<1> HIDE DEF W
<1>3. /\ Names(W, "month") = {m} /\ Names(W, "day") = {d}
      /\ Names(W, "date") = {} /\ Names(W, "year") = {} /\ Names(W, "other") = {}
  BY <1>1
<1>4. Reads(W, refuse) = MonthDays({m}, {d}, {})
  BY <1>3 DEF Reads
<1>5. MonthDays({m}, {d}, {}) = {MonthDay(m, d, None)}
  BY DEF MonthDays
<1> QED
  BY <1>2, <1>4, <1>5

LEMMA ReadsYear ==
  ASSUME NEW W, NEW m, NEW d, NEW y, NEW refuse,
         Names(W, "month") = {m}, Names(W, "day") = {d}, Names(W, "year") = {y},
         Names(W, "date") = {}, Names(W, "other") = {}
  PROVE  Reads(W, refuse) = {MonthDay(m, d, y)}
<1>1. (CHOOSE x \in {y} : TRUE) = y
  OBVIOUS
<1>2. Reads(W, refuse) = MonthDays({m}, {d}, {y})
  BY DEF Reads
<1>3. MonthDays({m}, {d}, {y}) = {MonthDay(m, d, y)}
  BY <1>1 DEF MonthDays
<1> QED
  BY <1>2, <1>3

YearWords(m, d, y) == {Word("month", m), Word("day", d), Word("year", y)}

FullWords(x, m, d, y) == {Word("named", x), Word("month", m), Word("day", d), Word("year", y)}

LEMMA ReadsFullDate ==
  ASSUME NEW m, NEW d, NEW y, NEW refuse
  PROVE  /\ Reads(YearWords(m, d, y), refuse) = {MonthDay(m, d, y)}
         /\ \A x : Reads(FullWords(x, m, d, y), refuse) = {MonthDay(m, d, y)}
<1> SUFFICES ASSUME NEW x
             PROVE  /\ Reads(YearWords(m, d, y), refuse) = {MonthDay(m, d, y)}
                    /\ Reads(FullWords(x, m, d, y), refuse) = {MonthDay(m, d, y)}
  OBVIOUS
<1> DEFINE M == {Word("month", m)}
           D == {Word("day", d)}
           Y == {Word("year", y)}
           N == {Word("named", x)}
           V == {Word("month", m), Word("day", d), Word("year", y)}
           W == {Word("named", x), Word("month", m), Word("day", d), Word("year", y)}
<1>1. /\ \A f : Names(M, f) = IF f = "month" THEN {m} ELSE {}
      /\ \A f : Names(D, f) = IF f = "day" THEN {d} ELSE {}
      /\ \A f : Names(Y, f) = IF f = "year" THEN {y} ELSE {}
      /\ \A f : Names(N, f) = IF f = "named" THEN {x} ELSE {}
  BY NamesOne
<1>2. V = M \cup (D \cup Y) /\ W = N \cup V
  OBVIOUS
<1> HIDE DEF M, D, Y, N, V, W
<1>3. /\ \A f : Names(V, f) = Names(M, f) \cup (Names(D, f) \cup Names(Y, f))
      /\ \A f : Names(W, f) = Names(N, f) \cup Names(V, f)
  BY <1>2 DEF Names
<1>4. \A U \in {V, W} : /\ Names(U, "month") = {m} /\ Names(U, "day") = {d} /\ Names(U, "year") = {y}
                       /\ Names(U, "date") = {} /\ Names(U, "other") = {}
  BY <1>1, <1>3
<1>5. Reads(V, refuse) = {MonthDay(m, d, y)} /\ Reads(W, refuse) = {MonthDay(m, d, y)}
  BY <1>4, ReadsYear
<1> QED
  BY <1>5 DEF V, W, YearWords, FullWords

LEMMA ReadsNamed ==
  ASSUME NEW x, NEW refuse
  PROVE  Reads({Word("named", x)}, refuse) = {x}
<1> DEFINE W == {Word("named", x)}
<1>1. /\ Names(W, "named") = {x} /\ Names(W, "month") = {} /\ Names(W, "day") = {}
      /\ Names(W, "date") = {} /\ Names(W, "year") = {} /\ Names(W, "other") = {}
  BY NamesOne
<1> HIDE DEF W
<1>2. Reads(W, refuse) = {x}
  BY <1>1 DEF Reads
<1> QED
  BY <1>2 DEF W

LEMMA ReadsNumber ==
  ASSUME NEW x, NEW refuse
  PROVE  Reads({Word("date", x)}, refuse) = {x}
<1> DEFINE W == {Word("date", x)}
<1>1. /\ Names(W, "date") = {x} /\ Names(W, "month") = {} /\ Names(W, "day") = {}
      /\ Names(W, "year") = {} /\ Names(W, "other") = {}
  BY NamesOne
<1> HIDE DEF W
<1>2. Reads(W, refuse) = WithYears({x}, {})
  BY <1>1 DEF Reads
<1>3. WithYears({x}, {}) = {x}
  BY DEF WithYears, with_year
<1> QED
  BY <1>2, <1>3 DEF W

LEMMA ReadsOther ==
  ASSUME NEW x
  PROVE  Reads({Word("other", x)}, TRUE) = {}
<1>1. Names({Word("other", x)}, "other") = {x}
  BY NamesOne
<1> QED
  BY <1>1 DEF Reads

LEMMA ReadsNothing ==
  ASSUME NEW refuse
  PROVE  Reads({}, refuse) = {Unnamed}
<1>1. \A f : Names({}, f) = {}
  BY DEF Names
<1> QED
  BY <1>1 DEF Reads

\* Connectives say nothing, on either side.
LEMMA Beside ==
  ASSUME NEW words, NEW W, Sentence(words, W), \A w \in W : w.field # "filler"
  PROVE  /\ parse_day_words(words \o Filler) = Reads(W, TRUE)
         /\ find_day_words(Filler \o words) = Reads(W, FALSE) \ {Unnamed}
<1> DEFINE V == {Word("filler", "at")}
<1>0. \A f : f # "filler" => Names(V, f) = {}
  BY NamesOne
<1>2. Sentence(Filler, V) /\ \A v \in V : v.field = "filler"
  BY OneWord DEF Filler, Word
<1> HIDE DEF V
<1>1. \A f : f # "filler" => Names(W \cup V, f) = Names(W, f)
  <2>1. \A f : Names(W \cup V, f) = Names(W, f) \cup Names(V, f)
    BY DEF Names
  <2> QED
    BY <1>0, <2>1
<1>3. V \cup W = W \cup V
  OBVIOUS
<1>4. Spelt(words \o Filler, W \cup V) /\ Spelt(Filler \o words, W \cup V)
  BY <1>2, <1>3, SpeltJoined DEF Sentence
<1>5. \A refuse : Reads(W \cup V, refuse) = Reads(W, refuse)
  <2> DEFINE U == W \cup V
  <2>1. /\ Names(U, "date") = Names(W, "date") /\ Names(U, "month") = Names(W, "month")
        /\ Names(U, "day") = Names(W, "day") /\ Names(U, "year") = Names(W, "year")
        /\ Names(U, "named") = Names(W, "named") /\ Names(U, "other") = Names(W, "other")
    BY <1>1
  <2> HIDE DEF U
  <2>2. \A refuse : Reads(U, refuse) = Reads(W, refuse)
    BY <2>1 DEF Reads
  <2> QED
    BY <2>2 DEF U
<1> QED
  BY <1>4, <1>5, ScanSpelt DEF parse_day_words, find_day_words

\* The day that each wording stands for.
Meaning(wording, n, today) ==
  LET m == MonthOf(n)  d == DayOfMonth(n)
  IN CASE wording = "bare" -> {Unnamed}
       [] wording \in {"dated", "trailing"} -> {MonthDay(m, d, None)}
       [] wording \in {"full", "ISO"} -> {MonthDay(m, d, YearOf(n))}
       [] wording = "weekday"   -> {OnWeekday(Weekday(n))}
       [] wording = "relative"  -> {IF n = today THEN Today ELSE Tomorrow}
       [] wording = "month/day" -> {Numeric(m, d, None)}
       [] wording = "day/month" -> {Numeric(d, m, None)}
       [] wording = "with-year" -> {Numeric(m, d, YearOf(n))}
       [] wording = "two-digit-year" -> {}

LEMMA WordingRead ==
  ASSUME NEW wording \in Wordings \ {"undated", "two-digit-year-after"}, NEW n, NEW today
  PROVE  LET words == DayWords(wording, n, today)
         IN /\ parse_day_words(words \o Filler) = Meaning(wording, n, today)
            /\ wording = "trailing" => find_day_words(Filler \o words) = Meaning(wording, n, today)
<1> DEFINE words == DayWords(wording, n, today)
           m == MonthOf(n)
           d == DayOfMonth(n)
           y == YearOf(n)
           M == Word("month", m)
           D == Word("day", d)
           Y == Word("year", y)
<1> DEFINE X == Meaning(wording, n, today)
           Goal == /\ parse_day_words(words \o Filler) = X
                   /\ wording = "trailing" => find_day_words(Filler \o words) = X
<1>1. CASE wording = "bare"
  <2>1. words = <<>> /\ X = {Unnamed}
    BY <1>1 DEF DayWords, Meaning
  <2> HIDE DEF words, X
  <2>2. Sentence(words, {}) /\ Reads({}, TRUE) = X
    BY <2>1, NoWord, ReadsNothing
  <2>3. parse_day_words(words \o Filler) = Reads({}, TRUE)
    BY <2>2, Beside
  <2> QED
    BY <1>1, <2>2, <2>3 DEF words, X
<1>2. CASE wording \in {"dated", "trailing"}
  <2> DEFINE W == {M, D}
  <2>1. words = <<M, D>> /\ X = {MonthDay(m, d, None)}
    BY <1>2 DEF DayWords, Meaning, Date
  <2>2. Sentence(<<M, D>>, W) /\ \A w \in W : w.field # "filler"
    BY DEF Sentence, Spelt, Word
  <2>3. Unnamed # MonthDay(m, d, None)
    BY DEF Unnamed, MonthDay
  <2>4. Reads(W, TRUE) = X /\ Reads(W, FALSE) = X
    BY <2>1, ReadsDate
  <2> HIDE DEF words, W, X
  <2>5. parse_day_words(words \o Filler) = Reads(W, TRUE)
    BY <2>1, <2>2, Beside
  <2>6. find_day_words(Filler \o words) = Reads(W, FALSE) \ {Unnamed}
    BY <2>1, <2>2, Beside
  <2>7. X \ {Unnamed} = X
    BY <2>1, <2>3
  <2> QED
    BY <2>4, <2>5, <2>6, <2>7 DEF words, X
<1>3. CASE wording = "full"
  <2> DEFINE N == Word("named", OnWeekday(Weekday(n)))
             W == {N, M, D, Y}
  <2>1. words = (<<N>> \o <<M, D>>) \o <<Y>> /\ X = {MonthDay(m, d, y)}
    BY <1>3 DEF DayWords, Meaning, Date, Week, Year
  <2>2. N.field = "named" /\ M.field = "month" /\ D.field = "day" /\ Y.field = "year"
    BY DEF Word
  <2>3. Reads(W, TRUE) = X
    <3>1. X = {MonthDay(m, d, y)}
      BY <2>1
    <3>2. W = FullWords(OnWeekday(Weekday(n)), m, d, y)
      BY DEF FullWords
    <3> HIDE DEF W, X, m, d, y
    <3>3. \A refuse, x : Reads(FullWords(x, m, d, y), refuse) = {MonthDay(m, d, y)}
      BY ReadsFullDate
    <3> QED
      BY <3>1, <3>2, <3>3
  <2> HIDE DEF words, X, N, M, D, Y
  <2>4. Sentence(<<N>>, {N}) /\ Sentence(<<M, D>>, {M, D}) /\ Sentence(<<Y>>, {Y})
    <3>1. Sentence(<<M, D>>, {M, D})
      BY <2>2 DEF Sentence, Spelt
    <3> QED
      BY <3>1, OneWord
  <2>5. Sentence(<<N>> \o <<M, D>>, {N} \cup {M, D})
    BY <2>2, <2>4, SpeltJoined
  <2>6. Sentence((<<N>> \o <<M, D>>) \o <<Y>>, ({N} \cup {M, D}) \cup {Y})
    BY <2>2, <2>4, <2>5, SpeltJoined
  <2>7. ({N} \cup {M, D}) \cup {Y} = W
    OBVIOUS
  <2>8. \A w \in W : w.field # "filler"
    BY <2>2
  <2> HIDE DEF W
  <2>9. Sentence(words, W)
    BY <2>1, <2>6, <2>7
  <2>10. parse_day_words(words \o Filler) = Reads(W, TRUE)
    BY <2>8, <2>9, Beside
  <2> QED
    BY <1>3, <2>3, <2>10 DEF words, X
<1>a. ASSUME NEW f \in {"named", "date", "other"}, NEW x, words = <<Word(f, x)>>, wording # "trailing",
             Reads({Word(f, x)}, TRUE) = X
      PROVE  Goal
  <2> DEFINE N == Word(f, x)
  <2>1. N.field # "filler"
    BY DEF Word
  <2> HIDE DEF words, X, N
  <2>2. Sentence(<<N>>, {N}) /\ \A w \in {N} : w.field # "filler"
    BY <2>1, OneWord
  <2>3. parse_day_words(words \o Filler) = Reads({N}, TRUE)
    BY <1>a, <2>2, Beside DEF N
  <2> QED
    BY <1>a, <2>3 DEF N
<1>4. CASE wording \in {"weekday", "relative"}
  <2> DEFINE x == IF wording = "weekday" THEN OnWeekday(Weekday(n))
                  ELSE IF n = today THEN Today ELSE Tomorrow
  <2>1. words = <<Word("named", x)>> /\ X = {x}
    BY <1>4 DEF DayWords, Meaning, Week, Relative
  <2> HIDE DEF words, x, X
  <2>2. Reads({Word("named", x)}, TRUE) = X
    BY <2>1, ReadsNamed
  <2> QED
    BY <1>4, <1>a, <2>1, <2>2 DEF words, X
<1>5. CASE wording \in {"month/day", "day/month", "with-year", "ISO"}
  <2> DEFINE x == CASE wording = "month/day" -> Numeric(m, d, None)
                    [] wording = "day/month" -> Numeric(d, m, None)
                    [] wording = "with-year" -> Numeric(m, d, y)
                    [] wording = "ISO" -> MonthDay(m, d, y)
  <2>1. words = <<Word("date", x)>> /\ X = {x}
    BY <1>5 DEF DayWords, Meaning, Fields
  <2> HIDE DEF words, x, X
  <2>2. Reads({Word("date", x)}, TRUE) = X
    BY <2>1, ReadsNumber
  <2> QED
    BY <1>5, <1>a, <2>1, <2>2 DEF words, X
<1>6. CASE wording = "two-digit-year"
  <2>1. words = <<Word("other", "m/d/yy")>> /\ X = {}
    BY <1>6 DEF DayWords, Meaning
  <2> HIDE DEF words, X
  <2>2. Reads({Word("other", "m/d/yy")}, TRUE) = X
    BY <2>1, ReadsOther
  <2> QED
    BY <1>6, <1>a, <2>1, <2>2 DEF words, X
<1> QED
  BY <1>1, <1>2, <1>3, <1>4, <1>5, <1>6, PrintingConstants

\* A banner's own words are those of its paragraph up to the time on its line.
LEMMA GapRead ==
  ASSUME NEW lines, NEW i \in Int, NEW W, Sentence(lines[i].gap, W)
  PROVE  parse_day_words(GapTo(lines, i, i)) = Reads(W, TRUE)
<1> DEFINE Places(part, last) == UNION {{j} \X {part} \X DOMAIN lines[j][part] : j \in i .. last}
           gap == lines[i]["gap"]
           words == GapTo(lines, i, i)
<1>1. Places("gap", i) = {i} \X {"gap"} \X DOMAIN gap
  <2>1. i .. i = {i}
    OBVIOUS
  <2> QED
    BY <2>1
<1>2. Places("trail", i - 1) = {}
  <2>1. i .. i - 1 = {}
    OBVIOUS
  <2> QED
    BY <2>1
<1>3. words = [p \in ({i} \X {"gap"} \X DOMAIN gap) |-> lines[p[1]][p[2]][p[3]]]
  BY <1>1, <1>2 DEF GapTo
<1>4. gap = lines[i].gap
  OBVIOUS
<1> DEFINE Place(n) == <<i, "gap", n>>
<1>5. /\ \A n \in DOMAIN gap : Place(n) \in DOMAIN words /\ words[Place(n)] = gap[n]
      /\ \A p \in DOMAIN words : \E n \in DOMAIN gap : p = Place(n)
  BY <1>3
<1>6. Spelt(gap, W)
  BY <1>4 DEF Sentence
<1> HIDE DEF gap, words, Place
<1>7. Spelt(words, W)
  <2>1. \A p \in DOMAIN words : words[p] \in W
    BY <1>5, <1>6 DEF Spelt
  <2>2. \A w \in W : \E p \in DOMAIN words : words[p] = w
    BY <1>5, <1>6 DEF Spelt
  <2>3. ASSUME NEW p \in DOMAIN words, NEW q \in DOMAIN words, words[p].field = words[q].field
        PROVE  p = q
    <3>1. PICK a \in DOMAIN gap, b \in DOMAIN gap : p = Place(a) /\ q = Place(b)
      BY <1>5
    <3>2. gap[a].field = gap[b].field
      BY <1>5, <2>3, <3>1
    <3>3. a = b
      BY <1>6, <3>2 DEF Spelt
    <3> QED
      BY <3>1, <3>3
  <2> QED
    BY <2>1, <2>2, <2>3 DEF Spelt
<1> QED
  BY <1>7, ScanSpelt DEF parse_day_words, words

\* A Codex banner's date, and the absence of one.
LEMMA CodexDate ==
  ASSUME NEW n
  PROVE  /\ Sentence(Date(n) \o Year(n), YearWords(MonthOf(n), DayOfMonth(n), YearOf(n)))
         /\ Date(n) \o Year(n) # <<>>
<1> DEFINE m == MonthOf(n)
           d == DayOfMonth(n)
           y == YearOf(n)
           M == Word("month", m)
           D == Word("day", d)
           Y == Word("year", y)
           W == YearWords(m, d, y)
<1>1. M.field = "month" /\ D.field = "day" /\ Y.field = "year"
  BY DEF Word
<1>2. Date(n) = <<M, D>> /\ Year(n) = <<Y>>
  BY DEF Date, Year
<1>3. {M, D} \cup {Y} = W
  BY DEF YearWords
<1> HIDE DEF M, D, Y, W
<1>4. Sentence(<<M, D>>, {M, D}) /\ Sentence(<<Y>>, {Y})
  <2>1. Sentence(<<M, D>>, {M, D})
    BY <1>1 DEF Sentence, Spelt
  <2> QED
    BY <2>1, OneWord
<1>5. Sentence(<<M, D>> \o <<Y>>, {M, D} \cup {Y})
  BY <1>1, <1>4, SpeltJoined
<1>6. Sentence(Date(n) \o Year(n), W)
  BY <1>2, <1>3, <1>5
<1>7. W # {}
  BY <1>3
<1>8. ~Sentence(<<>>, W)
  BY <1>7 DEF Sentence, Spelt
<1> QED
  BY <1>6, <1>8 DEF W

-----------------------------------------------------------------------------
(***************************************************************************)
(* What a line was printed for, and what is to be made of it.              *)
(***************************************************************************)
ZoneWord(zone) == IF zone = Local THEN None ELSE zone

AsSession(l) ==
  /\ l.kind = "Clock" /\ l.wording = "none" /\ l.reset <= l.printed + Day
  /\ \E zone \in Zones : l.zone = ZoneWord(zone) /\ l.token = Clock12(l.reset + Offset[zone])

\* A weekly banner's words, in a zone, for the day of its reset.
WeeklyIn(l, zone) ==
  LET t     == l.reset + Offset[zone]
      today == (l.printed + Offset[zone]) \div Day
      words == DayWords(l.wording, t \div Day, today)
  IN /\ l.zone = ZoneWord(zone) /\ l.token = Clock12(t)
     /\ l.gap   = IF l.wording \in After THEN <<>> ELSE words \o Filler
     /\ l.trail = IF l.wording \in After THEN Filler \o words ELSE <<>>
     /\ l.wording = "bare" => l.reset - l.printed <= Day
     /\ l.wording = "relative" => (t \div Day) - today \in {0, 1}

AsWeekly(l) ==
  /\ l.kind = "Weekly" /\ l.reset <= l.printed + 7 * Day
  /\ l.wording \in Wordings \ {"undated", "two-digit-year-after"}
  /\ \E zone \in Zones : WeeklyIn(l, zone)

AsCodex(l) ==
  LET n == (l.reset + Offset[Local]) \div Day
  IN /\ l.kind = "Codex" /\ l.wording = "none" /\ l.zone = None
     /\ 0 <= l.printed + Offset[Local]
     /\ l.token = Clock12(l.reset + Offset[Local])
     /\ l.gap = IF n = (l.printed + Offset[Local]) \div Day THEN <<>> ELSE Date(n) \o Year(n)

AsQuota(l) ==
  /\ l.kind = "Duration" /\ l.wording = "none" /\ l.span = SpanOf(l.reset - l.printed)
  /\ l.reset - l.printed \in Ahead["Duration"]

AsBanner(l) ==
  /\ l.reset \in Int /\ l.printed \in Int /\ l.printed <= l.reset /\ l.printed <= now
  /\ (AsSession(l) \/ AsWeekly(l) \/ AsCodex(l) \/ AsQuota(l))

\* A line is no banner, one that was cut off before its time, or one as printed.
AsPrinted(l) ==
  \/ l.kind = "noise" /\ l.shapes = {}
  \/ /\ l.kind \in {"Clock", "Weekly", "Codex", "Duration"}
     /\ l.shapes \in {{l.kind}, {l.kind, "Clock"}}
     /\ (l.token = None /\ l.span = None) \/ AsBanner(l)

\* The minute it names, on the clock of its zone.
MinuteSaid(l) == ToMinute(l.reset + Offset[in_zone(l.zone)])

SameDay(t, v) == (t + Offset[Local]) \div Day = (v + Offset[Local]) \div Day

\* What is to be made of a banner as printed.
FitsSpan(l, r) ==
  l.reset - l.printed >= Minute => r.kind = "Reset" /\ r.at = now + ToMinute(l.reset - l.printed) + Padding

FitsClock(l, r) ==
  LET zone == in_zone(l.zone)
      u    == MinuteSaid(l)
  IN u > Here(zone) =>
       IF l.wording = "two-digit-year" \/ u > Here(zone) + 31 * Day THEN r = Unreadable
       ELSE /\ r.kind = "Reset" /\ r.at >= u - Offset[zone] + Padding
            /\ Dated(l) => r.at = u - Offset[zone] + Padding

FitsCodex(l, r) ==
  MinuteSaid(l) <= Here(Local) /\ (l.gap # <<>> \/ SameDay(now, l.reset)) => r = Elapsed

Fits(l, r) ==
  /\ l.kind = "Duration" => FitsSpan(l, r)
  /\ l.kind # "Duration" => FitsClock(l, r)
  /\ l.kind = "Codex" => FitsCodex(l, r)

-----------------------------------------------------------------------------
(***************************************************************************)
(* Each kind of banner is read so.                                         *)
(***************************************************************************)
LEMMA ZoneRead ==
  ASSUME NEW zone \in Zones
  PROVE  in_zone(ZoneWord(zone)) = zone
BY NoneIsNothingPrinted DEF in_zone, ZoneWord

LEMMA ResetSays ==
  ASSUME NEW zone, NEW z
  PROVE  Reset(zone, z).kind = "Reset" /\ Reset(zone, z).at = z - Offset[zone] + Padding
BY DEF Reset, Padding

LEMMA ClockIsThere ==
  ASSUME NEW t \in Int
  PROVE  Clock12(t) # None
<1>1. (t % Day) \div Hour \in 0 .. 23 /\ (t % Hour) \div Minute \in 0 .. 59
  BY MinuteOfDay
<1> DEFINE h == (t % Day) \div Hour
           m == (t % Hour) \div Minute
<1>2. Clock12(t) = [h |-> IF h % 12 = 0 THEN 12 ELSE h % 12, m |-> m, mer |-> IF h < 12 THEN "AM" ELSE "PM"]
  BY DEF Clock12
<1> HIDE DEF h, m
<1>3. (IF h % 12 = 0 THEN 12 ELSE h % 12) \in Nat /\ m \in 0 .. 59
  BY <1>1 DEF h, m
<1>4. Clock12(t) \in [h : Nat, m : 0 .. 59, mer : {"AM", "PM", "none"}]
  BY <1>2, <1>3
<1> QED
  BY <1>4, NoneIsNothingPrinted

LEMMA SpanIsThere ==
  ASSUME NEW d \in Nat
  PROVE  /\ SpanOf(d) # None /\ SpanOf(d).h \in Nat /\ SpanOf(d).m \in 0 .. 59
         /\ SpanOf(d).h * Hour + SpanOf(d).m * Minute = ToMinute(d)
<1> DEFINE h == d \div 3600
           e == d % 3600
           m == e \div 60
           r == e % 60
<1>1. h \in Nat /\ e \in Int /\ 0 <= e /\ e < 3600 /\ d = h * 3600 + e
  BY SMT
<1>2. m \in Int /\ r \in 0 .. 59 /\ e = m * 60 + r
  BY <1>1, SMT
<1> HIDE DEF h, e, m, r
<1>3. m \in 0 .. 59
  BY <1>1, <1>2, SMT
<1>4. d % 60 = r
  <2>1. d = (h * 60 + m) * 60 + r /\ h * 60 + m \in Int
    BY <1>1, <1>2, SMT
  <2> DEFINE q == h * 60 + m
  <2> HIDE DEF q
  <2> QED
    BY <1>2, <2>1, SMT DEF q
<1>5. SpanOf(d) = [h |-> h, m |-> m]
  BY SMT DEF SpanOf, h, e, m, Hour, Minute
<1>6. SpanOf(d) \in [h : Nat, m : 0 .. 59]
  BY <1>1, <1>3, <1>5
<1>7. ToMinute(d) = d - r
  BY <1>4, SMT DEF ToMinute, Minute
<1>8. h * 3600 + m * 60 = d - r
  BY <1>1, <1>2, SMT
<1>9. SpanOf(d).h * Hour + SpanOf(d).m * Minute = ToMinute(d)
  BY <1>5, <1>7, <1>8, SMT DEF Hour, Minute
<1> QED
  BY <1>5, <1>6, <1>9, NoneIsNothingPrinted

\* The first is the banner's own, when it has one.
LEMMA OwnTokens ==
  ASSUME NEW lines, LinesOK(lines), NEW i \in DOMAIN lines
  PROVE  /\ lines[i].token # None => find_clock_token(lines, i) = {lines[i].token}
         /\ lines[i].span # None => find_duration_token(lines, i) = {lines[i].span}
         /\ lines[i].token # None =>
              First(lines, {j \in Paragraph(lines, i) : lines[j].token # None}) = {i}
         /\ i \in Int
<1>1. i \in i .. Len(lines) /\ i \in Int /\ \A j \in i .. Len(lines) : j \in Int /\ i <= j
  BY LinesFrom
<1>2. ASSUME NEW S, i \in S, S \subseteq i .. Len(lines)
      PROVE  First(lines, S) = {i}
  <2>1. \A k \in S : i <= k /\ (k <= i => k = i)
    BY <1>1, <1>2
  <2> QED
    BY <1>2, <2>1 DEF First
<1>3. i \in Paragraph(lines, i) /\ Paragraph(lines, i) \subseteq i .. Len(lines)
  BY <1>1 DEF Paragraph
<1>4. lines[i].token # None => First(lines, {j \in i .. Len(lines) : lines[j].token # None}) = {i}
  BY <1>1, <1>2
<1>5. lines[i].span # None => First(lines, {j \in i .. Len(lines) : lines[j].span # None}) = {i}
  BY <1>1, <1>2
<1>6. lines[i].token # None => First(lines, {j \in Paragraph(lines, i) : lines[j].token # None}) = {i}
  BY <1>2, <1>3
<1> QED
  BY <1>1, <1>4, <1>5, <1>6 DEF find_clock_token, find_duration_token

\* What the reading of a clock's line needs to know of it.
LEMMA TokenSays ==
  ASSUME NEW t \in Int
  PROVE  /\ Clock12(t) # None /\ clock_hm(Clock12(t)) = {Second(t)}
         /\ ToMinute(t) \in Int /\ ToMinute(t) <= t /\ t < ToMinute(t) + 60
BY ClockIsThere, ClockSays, MinuteOfDay

LEMMA SessionRead ==
  ASSUME Clock, NEW lines, LinesOK(lines), NEW i \in DOMAIN lines,
         AsBanner(lines[i]), AsSession(lines[i]),
         NEW r \in read_clock(lines, i)
  PROVE  Fits(lines[i], r)
<1> DEFINE l == lines[i]
<1>1. PICK zone \in Zones : l.zone = ZoneWord(zone) /\ l.token = Clock12(l.reset + Offset[zone])
  BY DEF AsSession
<1> DEFINE t == l.reset + Offset[zone]
           u == ToMinute(t)
           here == Here(zone)
<1>2. in_zone(l.zone) = zone /\ find_zone_token(l) = l.zone
  BY <1>1, ZoneRead DEF find_zone_token
<1>3. l.reset \in Int /\ l.printed \in Int /\ l.printed <= now
  BY DEF AsBanner
<1>a. l.reset <= l.printed + 86400
  BY SMT DEF AsSession, Day
<1>b. here = now + Offset[zone] /\ now \in Int /\ Offset[zone] \in Int
  BY HereIsInt
<1>4. /\ t \in Int /\ l.token # None /\ clock_hm(l.token) = {Second(t)}
      /\ u \in Int /\ u <= t /\ t < u + 60
  <2>1. t \in Int
    BY <1>3, <1>b
  <2>2. l.token = Clock12(t)
    BY <1>1
  <2> HIDE DEF t
  <2> QED
    BY <2>1, <2>2, TokenSays
<1>5. r = Reset(zone, at_clock(here, Second(t)))
  <2>1. find_clock_token(lines, i) = {l.token}
    BY <1>4, OwnTokens
  <2>2. read_clock(lines, i) = {Reset(zone, z) : z \in UNION {parse_clock(here, x) : x \in {l.token}}}
    BY <1>2, <2>1 DEF read_clock
  <2>3. parse_clock(here, l.token) = {at_clock(here, Second(t))}
    BY <1>4 DEF parse_clock
  <2> HIDE DEF l, here, t
  <2>4. r \in {Reset(zone, z) : z \in UNION {parse_clock(here, x) : x \in {l.token}}}
    BY <2>2
  <2>5. UNION {parse_clock(here, x) : x \in {l.token}} = parse_clock(here, l.token)
    OBVIOUS
  <2> QED
    BY <2>3, <2>4, <2>5
<1>6. l.kind = "Clock" /\ l.wording = "none"
  BY DEF AsSession
<1>7. t = l.reset + Offset[zone]
  OBVIOUS
<1> HIDE DEF t
<1>8. MinuteSaid(l) = u
  BY <1>2, <1>7 DEF MinuteSaid
<1>9. here \in Int /\ u <= here + 86400
  <2> HIDE DEF u, here
  <2> QED
    BY <1>3, <1>a, <1>b, <1>4, <1>7, SMT
<1>10. ASSUME u > here
       PROVE  r = Reset(zone, u)
  <2>1. at_clock(here, Second(t)) = u
    BY <1>4, <1>9, <1>10, ClockExact, SMT DEF Day
  <2> QED
    BY <1>5, <2>1
<1>11. ~(u > here + 31 * Day)
  <2> HIDE DEF u, here
  <2> QED
    BY <1>4, <1>9, SMT DEF Day
<1> HIDE DEF l, u, here
<1>12. u - Offset[zone] + Padding >= u - Offset[zone] + Padding
  BY <1>4, <1>b, SMT DEF Padding, PADDING_MINUTES, Minute
<1>13. FitsClock(l, r)
  BY <1>2, <1>6, <1>8, <1>10, <1>11, <1>12, ResetSays DEF FitsClock, here
<1> QED
  BY <1>6, <1>13 DEF Fits, l

LEMMA QuotaRead ==
  ASSUME Clock, NEW lines, LinesOK(lines), NEW i \in DOMAIN lines,
         AsBanner(lines[i]), AsQuota(lines[i]),
         NEW r \in read_duration(lines, i)
  PROVE  Fits(lines[i], r)
<1> DEFINE l == lines[i]
           d == l.reset - l.printed
           here == Here(Local)
<1>1. l.kind = "Duration" /\ l.span = SpanOf(d) /\ d \in Nat
  BY DEF AsBanner, AsQuota
<1> HIDE DEF d
<1>2. l.span # None /\ l.span.h \in Nat /\ l.span.m \in 0 .. 59 /\ l.span.h * Hour + l.span.m * Minute = ToMinute(d)
  BY <1>1, SpanIsThere
<1>3. here \in Int /\ Offset[Local] \in Int /\ now \in Int /\ here = now + Offset[Local]
  BY HereIsInt, LocalIsZone
<1>4. r \in {Reset(Local, z) : z \in parse_relative(here, l.span)}
  <2>1. find_duration_token(lines, i) = {l.span}
    BY <1>2, OwnTokens
  <2>2. r \in {Reset(Local, z) : z \in UNION {parse_relative(here, x) : x \in {l.span}}}
    BY <2>1 DEF read_duration
  <2> HIDE DEF l, here
  <2>3. UNION {parse_relative(here, x) : x \in {l.span}} = parse_relative(here, l.span)
    OBVIOUS
  <2> QED
    BY <2>2, <2>3
<1> HIDE DEF l, here
<1>5. r = Reset(Local, here + l.span.h * Hour + l.span.m * Minute)
  BY <1>4 DEF parse_relative
<1>6. ToMinute(d) \in Int
  BY <1>1, MinuteOfDay
<1>7. here + l.span.h * Hour + l.span.m * Minute = here + ToMinute(d)
  BY <1>2, <1>3, SMT DEF Hour, Minute
<1>8. r.kind = "Reset" /\ r.at = (here + ToMinute(d)) - Offset[Local] + Padding
  BY <1>5, <1>7, ResetSays
<1>9. (here + ToMinute(d)) - Offset[Local] + Padding = now + ToMinute(d) + Padding
  BY <1>3, <1>6, SMT DEF Padding, PADDING_MINUTES, Minute
<1> QED
  BY <1>1, <1>8, <1>9 DEF Fits, FitsSpan, d, l

\* A bare Codex banner on its own day.
LEMMA BareExact ==
  ASSUME NEW here \in Int, NEW t \in Int, t \div Day <= here \div Day,
         NEW r \in codex_bare(Second(t), here)
  PROVE  /\ ToMinute(t) > here => r = Reset(Local, ToMinute(t)) /\ ToMinute(t) <= here + Day
         /\ ToMinute(t) <= here /\ here \div Day = t \div Day => r = Elapsed
<1> DEFINE n == t \div Day
           s == Second(t)
           k == here \div Day
           u == ToMinute(t)
           z == at_clock(here, s)
<1>1. s \in Int /\ 0 <= s /\ s < 86400 /\ n * 86400 + s = u /\ n \in Int
  BY MinuteOfDay
<1>2. k \in Int /\ k * 86400 <= here /\ here < k * 86400 + 86400
  BY SMT DEF Day
<1>3. z = IF k * 86400 + s <= here THEN k * 86400 + s + 86400 ELSE k * 86400 + s
  BY SMT DEF at_clock, Day
<1>4. r = IF z \div 86400 = k THEN Reset(Local, z) ELSE Elapsed
  BY SMT DEF codex_bare, Day
<1>5. n <= k
  OBVIOUS
<1> HIDE DEF n, s, k, u, z
<1>6. ASSUME u > here
      PROVE  r = Reset(Local, u) /\ u <= here + 86400
  <2>1. n = k
    BY <1>1, <1>2, <1>5, <1>6, SMT
  <2>2. z = k * 86400 + s /\ u = k * 86400 + s
    BY <1>1, <1>3, <1>6, <2>1, SMT
  <2>3. (k * 86400 + s) \div 86400 = k
    BY <1>1, <1>2, SMT
  <2>4. u <= here + 86400
    BY <1>1, <1>2, <2>2, SMT
  <2> QED
    BY <1>4, <2>2, <2>3, <2>4, SMT
<1>7. ASSUME u <= here, k = n
      PROVE  r = Elapsed
  <2>1. z = k * 86400 + s + 86400
    BY <1>1, <1>3, <1>7, SMT
  <2>2. (k * 86400 + s + 86400) \div 86400 = k + 1
    BY <1>1, <1>2, SMT
  <2>3. k + 1 # k
    BY <1>2
  <2> QED
    BY <1>4, <2>1, <2>2, <2>3, SMT
<1>8. here + Day = here + 86400
  BY SMT DEF Day
<1> QED
  BY <1>6, <1>7, <1>8, SMT DEF n, s, k, u

\* A dated one, on any day: it is that minute, beyond the horizon, or past.
LEMMA DatedExact ==
  ASSUME NEW here, InYears(here), NEW t \in Int, 0 <= t,
         NEW r \in codex_dated(MonthDay(MonthOf(t \div Day), DayOfMonth(t \div Day), YearOf(t \div Day)),
                              Second(t), here)
  PROVE  /\ ToMinute(t) > here /\ ToMinute(t) <= here + 31 * Day => r = Reset(Local, ToMinute(t))
         /\ ToMinute(t) > here + 31 * Day => r = Unreadable
         /\ ToMinute(t) <= here => r = Elapsed
<1> DEFINE n == t \div Day
           s == Second(t)
           u == ToMinute(t)
           m == MonthOf(n)
           d == DayOfMonth(n)
           y == YearOf(n)
           D == MonthDay(m, d, y)
           at == resolve_day_clock(here, D, s, Order)
           passed == day_clock_has_passed(here, D, s)
<1>1. s \in Int /\ 0 <= s /\ s < 86400 /\ n * 86400 + s = u /\ n \in Int /\ u \in Int
  BY MinuteOfDay
<1>2. here \in Int /\ 0 <= here
  BY DEF InYears
<1>3. n \in Nat
  <2>1. n >= 0
    BY SMT DEF Day
  <2> QED
    BY <1>1, <2>1
<1>4. at = month_day_at(here, m, d, y, s)
  BY DEF resolve_day_clock, MonthDay
<1>5. r \in (IF at # {} THEN {Reset(Local, z) : z \in at} ELSE IF passed THEN {Elapsed} ELSE {Unreadable})
  BY DEF codex_dated
<1>6. passed <=> IsDate(y, m, d) /\ u <= here
  <2>1. y # None /\ DayOf(y, m, d) = n
    BY <1>3, YearOfDay, DateOfDay, NoneIsNoNumber
  <2>2. D.day = "MonthDay" /\ D.year = y /\ D.month = m /\ D.dom = d
    BY DEF MonthDay
  <2> HIDE DEF y, m, d, D
  <2>3. passed <=> IsDate(y, m, d) /\ n * Day + s <= here
    BY <2>1, <2>2 DEF day_clock_has_passed
  <2>4. n * Day + s = u
    BY <1>1, SMT DEF Day
  <2> QED
    BY <2>3, <2>4
<1>7. \A z \in at : z = u /\ here < z /\ z <= here + 31 * Day
  <2>1. n * Day + s = u
    BY <1>1, SMT DEF Day
  <2> QED
    BY <1>1, <1>2, <1>3, <1>4, <2>1, StatedDate
<1>8. ASSUME u > here, u <= here + 31 * Day
      PROVE  r = Reset(Local, u)
  <2>1. month_day_at(here, m, d, y, s) = {u}
    BY <1>8, DateExact
  <2> HIDE DEF at, u
  <2> QED
    BY <1>4, <1>5, <2>1
<1>a. here + 31 * Day \in Int /\ here <= here + 31 * Day
  BY <1>2, SMT DEF Day
<1>9. ASSUME u > here + 31 * Day
      PROVE  r = Unreadable
  <2> DEFINE last == here + 31 * Day
  <2> HIDE DEF at, u, passed, last
  <2>1. \A z \in at : z = u /\ z <= last
    BY <1>7 DEF last
  <2>2. u > last /\ last \in Int /\ here <= last
    BY <1>9, <1>a DEF last
  <2>3. at = {} /\ ~(u <= here)
    BY <1>1, <1>2, <2>1, <2>2
  <2> QED
    BY <1>5, <1>6, <2>3
<1>10. ASSUME u <= here
       PROVE  r = Elapsed
  <2>1. IsDate(y, m, d)
    <3> DEFINE last == YearStart(9999)
    <3>1. here <= last * 86400
      BY SMT DEF InYears, Day
    <3>2. last \in Int
      BY YearLength, SMT
    <3> HIDE DEF last, n, s, u
    <3>3. n <= last + 31
      BY <1>1, <1>2, <1>10, <3>1, <3>2, SMT
    <3> QED
      BY <1>3, <3>3, IsADate, SMT DEF last
  <2> HIDE DEF at, u, passed
  <2>2. at = {}
    BY <1>1, <1>2, <1>7, <1>10
  <2> QED
    BY <1>5, <1>6, <1>10, <2>1, <2>2
<1> QED
  BY <1>8, <1>9, <1>10 DEF n, s, u

LEMMA DaysInOrder ==
  ASSUME NEW a \in Int, NEW b \in Int, a <= b
  PROVE  a \div Day \in Int /\ b \div Day \in Int /\ a \div Day <= b \div Day
BY SMT DEF Day

LEMMA CodexRead ==
  ASSUME Clock, InYears(Here(Local)), NEW lines, LinesOK(lines), NEW i \in DOMAIN lines,
         AsBanner(lines[i]), AsCodex(lines[i]),
         NEW r \in read_codex(lines, i)
  PROVE  Fits(lines[i], r)
<1> DEFINE l == lines[i]
           t == l.reset + Offset[Local]
           n == t \div Day
           s == Second(t)
           u == ToMinute(t)
           here == Here(Local)
           words == GapTo(lines, i, i)
           D == MonthDay(MonthOf(n), DayOfMonth(n), YearOf(n))
<1>1. l.kind = "Codex" /\ l.wording = "none" /\ l.zone = None /\ l.token = Clock12(t)
  BY DEF AsCodex
<1>2. in_zone(l.zone) = Local
  BY <1>1, NoneIsNothingPrinted DEF in_zone
<1>3. here = now + Offset[Local] /\ now \in Int /\ Offset[Local] \in Int /\ here \in Int
  BY HereIsInt, LocalIsZone
<1>4. /\ l.reset \in Int /\ l.printed \in Int /\ l.printed <= l.reset /\ l.printed <= now
      /\ 0 <= l.printed + Offset[Local]
  BY DEF AsBanner, AsCodex
<1>5. t \in Int /\ 0 <= t
  BY <1>3, <1>4
<1>6. MinuteSaid(l) = u /\ (SameDay(now, l.reset) <=> here \div Day = n)
  BY <1>2, <1>3 DEF MinuteSaid, SameDay
<1>7. clock_hm(l.token) = {s} /\ l.token # None /\ u \in Int
  <2> HIDE DEF t
  <2> QED
    BY <1>1, <1>5, TokenSays
<1> DEFINE days == parse_day_words(words)
           One == IF days = {} THEN {Unreadable}
                  ELSE IF days = {Unnamed} THEN codex_bare(s, here)
                  ELSE UNION {codex_dated(x, s, here) : x \in days}
<1>8. r \in One
  <2>1. First(lines, {j \in Paragraph(lines, i) : lines[j].token # None}) = {i}
    BY <1>7, OwnTokens
  <2>2. PICK k \in First(lines, {j \in Paragraph(lines, i) : lines[j].token # None}) :
          LET ds == parse_day_words(GapTo(lines, i, k))
              secs == clock_hm(lines[k].token)
          IN r \in (IF ds = {} \/ secs = {} THEN {Unreadable}
                    ELSE IF ds = {Unnamed} THEN UNION {codex_bare(v, here) : v \in secs}
                    ELSE UNION {codex_dated(x, v, here) : x \in ds, v \in secs})
    BY DEF read_codex
  <2>a. k = i
    BY <2>1
  <2> HIDE DEF here, s
  <2>3. r \in LET secs == clock_hm(l.token)
             IN IF days = {} \/ secs = {} THEN {Unreadable}
                ELSE IF days = {Unnamed} THEN UNION {codex_bare(v, here) : v \in secs}
                ELSE UNION {codex_dated(x, v, here) : x \in days, v \in secs}
    BY <2>2, <2>a
  <2>4. /\ UNION {codex_bare(v, here) : v \in {s}} = codex_bare(s, here)
        /\ UNION {codex_dated(x, v, here) : x \in days, v \in {s}} = UNION {codex_dated(x, s, here) : x \in days}
    OBVIOUS
  <2> HIDE DEF days, l
  <2> QED
    BY <1>7, <2>3, <2>4
<1> HIDE DEF days
<1>9. CASE l.gap = <<>>
  <2>1. days = {Unnamed}
    <3>1. Sentence(l.gap, {})
      BY <1>9, NoWord
    <3>2. i \in Int
      BY OwnTokens
    <3> QED
      BY <3>1, <3>2, GapRead, ReadsNothing DEF days
  <2>2. n = (l.printed + Offset[Local]) \div Day
    <3>1. l.gap = IF n = (l.printed + Offset[Local]) \div Day THEN <<>> ELSE Date(n) \o Year(n)
      BY DEF AsCodex
    <3> QED
      BY <1>9, <3>1, CodexDate
  <2>3. n <= here \div Day
    <3> DEFINE p == l.printed + Offset[Local]
    <3>1. p \in Int /\ p <= here
      BY <1>3, <1>4
    <3> HIDE DEF p, here
    <3> QED
      BY <1>3, <2>2, <3>1, DaysInOrder DEF p
  <2>4. r \in codex_bare(s, here)
    BY <1>8, <2>1
  <2>5. /\ u > here => r = Reset(Local, u) /\ u <= here + Day
        /\ u <= here /\ here \div Day = n => r = Elapsed
    BY <1>3, <1>5, <2>3, <2>4, BareExact
  <2> HIDE DEF u, here, n, l
  <2>6. FitsCodex(l, r)
    BY <1>6, <1>9, <2>5 DEF FitsCodex, here
  <2>7. u > here => ~(u > here + 31 * Day)
    BY <1>3, <1>7, <2>5, SMT DEF Day
  <2>8. u - Offset[Local] + Padding >= u - Offset[Local] + Padding
    BY <1>3, <1>7, SMT DEF Padding, PADDING_MINUTES, Minute
  <2>9. FitsClock(l, r)
    BY <1>1, <1>2, <1>6, <2>5, <2>7, <2>8, ResetSays DEF FitsClock, here
  <2> QED
    BY <1>1, <2>6, <2>9 DEF Fits, l
<1>10. CASE l.gap # <<>>
  <2>1. days = {D}
    <3>1. l.gap = Date(n) \o Year(n)
      BY <1>10 DEF AsCodex
    <3>2. Sentence(l.gap, YearWords(MonthOf(n), DayOfMonth(n), YearOf(n)))
      BY <3>1, CodexDate
    <3>3. i \in Int
      BY OwnTokens
    <3>4. days = Reads(YearWords(MonthOf(n), DayOfMonth(n), YearOf(n)), TRUE)
      BY <3>2, <3>3, GapRead DEF days
    <3>5. \A refuse : Reads(YearWords(MonthOf(n), DayOfMonth(n), YearOf(n)), refuse) = {D}
      BY ReadsFullDate
    <3> QED
      BY <3>4, <3>5
  <2>2. D # Unnamed
    BY DEF MonthDay, Unnamed
  <2> HIDE DEF D
  <2>3. r \in codex_dated(D, s, here)
    BY <1>8, <2>1, <2>2
  <2>4. /\ u > here /\ u <= here + 31 * Day => r = Reset(Local, u)
        /\ u > here + 31 * Day => r = Unreadable
        /\ u <= here => r = Elapsed
    BY <1>5, <2>3, DatedExact DEF D
  <2> HIDE DEF u, here, n, l
  <2>5. FitsCodex(l, r)
    BY <1>6, <2>4 DEF FitsCodex, here
  <2>6. u > here + 31 * Day \/ u <= here + 31 * Day
    BY <1>3, <1>7, SMT DEF Day
  <2>7. u - Offset[Local] + Padding >= u - Offset[Local] + Padding
    BY <1>3, <1>7, SMT DEF Padding, PADDING_MINUTES, Minute
  <2>8. FitsClock(l, r)
    BY <1>1, <1>2, <1>6, <2>4, <2>6, <2>7, ResetSays DEF FitsClock, here
  <2> QED
    BY <1>1, <2>5, <2>8 DEF Fits, l
<1> QED
  BY <1>9, <1>10

\* The moments of these days at these seconds.
OnDays(here, days, secs) == UNION {resolve_day_clock(here, d, v, Order) : d \in days, v \in secs}

LEMMA OnOneDay ==
  ASSUME NEW here, NEW D, NEW s
  PROVE  OnDays(here, {D}, {s}) = resolve_day_clock(here, D, s, Order)
BY DEF OnDays

LEMMA OnNoDay ==
  ASSUME NEW here, NEW s
  PROVE  OnDays(here, {}, {s}) = {}
BY DEF OnDays

\* Only a bare banner leaves its day out.
LEMMA NamesItsDay ==
  ASSUME NEW wording \in Wordings \ {"undated", "two-digit-year-after", "bare"}, NEW n, NEW today
  PROVE  /\ Meaning(wording, n, today) # {Unnamed}
         /\ wording # "two-digit-year" => \E D : Meaning(wording, n, today) = {D}
         /\ wording = "two-digit-year" => Meaning(wording, n, today) = {}
<1> DEFINE X == Meaning(wording, n, today)
           m == MonthOf(n)
           d == DayOfMonth(n)
           y == YearOf(n)
<1>1. wording \in {"dated", "trailing", "full", "weekday", "relative", "month/day", "day/month",
                  "with-year", "ISO", "two-digit-year"}
  BY PrintingConstants
<1>2. /\ Unnamed # MonthDay(m, d, None) /\ Unnamed # MonthDay(m, d, y)
      /\ Unnamed # Numeric(m, d, None) /\ Unnamed # Numeric(d, m, None) /\ Unnamed # Numeric(m, d, y)
      /\ Unnamed # OnWeekday(Weekday(n)) /\ Unnamed # Today /\ Unnamed # Tomorrow
  BY DEF Unnamed, MonthDay, Numeric, OnWeekday, Today, Tomorrow
<1>3. CASE wording \in {"dated", "trailing"}
  <2>1. X = {MonthDay(m, d, None)}
    BY <1>3 DEF Meaning
  <2> QED
    BY <1>2, <1>3, <2>1
<1>4. CASE wording \in {"full", "ISO"}
  <2>1. X = {MonthDay(m, d, y)}
    BY <1>4 DEF Meaning
  <2> QED
    BY <1>2, <1>4, <2>1
<1>5. CASE wording = "weekday"
  <2>1. X = {OnWeekday(Weekday(n))}
    BY <1>5 DEF Meaning
  <2> QED
    BY <1>2, <1>5, <2>1
<1>6. CASE wording = "relative"
  <2>1. X = {IF n = today THEN Today ELSE Tomorrow}
    BY <1>6 DEF Meaning
  <2> QED
    BY <1>2, <1>6, <2>1
<1>7. CASE wording \in {"month/day", "day/month", "with-year"}
  <2>1. X = {Numeric(m, d, None)} \/ X = {Numeric(d, m, None)} \/ X = {Numeric(m, d, y)}
    BY <1>7 DEF Meaning
  <2> QED
    BY <1>2, <1>7, <2>1
<1>8. CASE wording = "two-digit-year"
  BY <1>8 DEF Meaning
<1> QED
  BY <1>1, <1>3, <1>4, <1>5, <1>6, <1>7, <1>8

LEMMA WeeklyDays ==
  ASSUME NEW l, NEW zone \in Zones, NEW t \in Int, t = l.reset + Offset[zone], WeeklyIn(l, zone),
         l.wording \in Wordings \ {"undated", "two-digit-year-after"}, NEW here
  PROVE  weekly_day(l, here) =
           IF l.wording = "bare" THEN {at_clock(here, Second(t))}
           ELSE OnDays(here, Meaning(l.wording, t \div Day, (l.printed + Offset[zone]) \div Day), {Second(t)})
<1> DEFINE n == t \div Day
           today == (l.printed + Offset[zone]) \div Day
           words == DayWords(l.wording, n, today)
           X == Meaning(l.wording, n, today)
           secs == clock_hm(l.token)
           before == parse_day_words(l.gap)
           after == find_day_words(l.trail)
<1>1. /\ l.token = Clock12(t)
      /\ l.gap   = IF l.wording = "trailing" THEN <<>> ELSE words \o Filler
      /\ l.trail = IF l.wording = "trailing" THEN Filler \o words ELSE <<>>
  BY DEF WeeklyIn, After
<1>2. secs = {Second(t)}
  <2> HIDE DEF n, words
  <2> QED
    BY <1>1, TokenSays
<1>3. parse_day_words(<<>>) = {Unnamed} /\ find_day_words(<<>>) = {}
  <2>1. Spelt(<<>>, {})
    BY NoWord DEF Sentence
  <2> QED
    BY <2>1, ScanSpelt, ReadsNothing DEF parse_day_words, find_day_words
<1>4. /\ parse_day_words(words \o Filler) = X
      /\ l.wording = "trailing" => find_day_words(Filler \o words) = X
  BY WordingRead
<1>5. weekly_day(l, here) =
        IF before # {Unnamed} THEN OnDays(here, before, secs)
        ELSE IF after # {} THEN OnDays(here, after, secs)
        ELSE parse_clock(here, l.token)
  BY DEF weekly_day, OnDays
<1> HIDE DEF words, X, n, today
<1>6. CASE l.wording = "trailing"
  <2>1. before = {Unnamed} /\ after = X
    BY <1>1, <1>3, <1>4, <1>6
  <2>2. X # {}
    BY <1>6, NamesItsDay DEF X
  <2> HIDE DEF before, after, secs
  <2> QED
    BY <1>2, <1>5, <1>6, <2>1, <2>2 DEF X, n, today
<1>7. CASE l.wording = "bare"
  <2>1. before = X /\ after = {}
    BY <1>1, <1>3, <1>4, <1>7
  <2>2. X = {Unnamed}
    BY <1>7 DEF X, Meaning
  <2>3. parse_clock(here, l.token) = {at_clock(here, Second(t))}
    BY <1>2 DEF parse_clock
  <2> HIDE DEF before, after, secs
  <2> QED
    BY <1>5, <1>7, <2>1, <2>2, <2>3
<1>8. CASE l.wording \notin {"trailing", "bare"}
  <2>1. before = X
    BY <1>1, <1>4, <1>8
  <2>2. X # {Unnamed}
    BY <1>8, NamesItsDay DEF X
  <2> HIDE DEF before, after, secs
  <2> QED
    BY <1>2, <1>5, <1>8, <2>1, <2>2 DEF X, n, today
<1> QED
  BY <1>6, <1>7, <1>8

\* One moment, minute u or later, and that minute while it is still the day
\* the banner was printed on.
AtOrAfter(here, today, u, at) ==
  \E z \in Int : at = {z} /\ z >= u /\ (here \div Day = today => z = u)

\* What a weekly banner's day and hour come to, if its minute u is ahead.
WeeklySays(here, today, wording, u, at) ==
  /\ wording = "two-digit-year" => at = {}
  /\ wording \notin {"two-digit-year", "relative"} => at = {u}
  /\ wording = "relative" => AtOrAfter(here, today, u, at)

\* Today and tomorrow, read on that day or the next.
LEMMA RelativeExact ==
  ASSUME NEW here \in Int, NEW t \in Int, here < ToMinute(t), NEW today \in Int,
         today <= here \div Day, (t \div Day) - today \in {0, 1}
  PROVE  AtOrAfter(here, today, ToMinute(t),
                   resolve_day_clock(here, IF t \div Day = today THEN Today ELSE Tomorrow, Second(t), Order))
<1> DEFINE n == t \div Day
           s == Second(t)
           k == here \div Day
           u == ToMinute(t)
           D == IF n = today THEN Today ELSE Tomorrow
<1>1. s \in Int /\ 0 <= s /\ s < 86400 /\ n * 86400 + s = u /\ n \in Int
  BY MinuteOfDay
<1>2. k \in Int /\ k * 86400 <= here /\ here < k * 86400 + 86400
  BY SMT DEF Day
<1>3. D.day = IF n = today THEN "Today" ELSE "Tomorrow"
  BY DEF Today, Tomorrow
<1>4. resolve_day_clock(here, D, s, Order) =
        IF n = today THEN (IF k * Day + s > here THEN {k * Day + s} ELSE {}) ELSE {k * Day + s + Day}
  <2> HIDE DEF D, n, s
  <2> QED
    BY <1>3 DEF resolve_day_clock
<1>5. k * Day = k * 86400 /\ Day = 86400
  BY <1>2, SMT DEF Day
<1>6. (n = today \/ n = today + 1) /\ today <= k
  <2> HIDE DEF k
  <2>1. n - today = 0 \/ n - today = 1
    OBVIOUS
  <2>2. today <= k
    BY DEF k
  <2> HIDE DEF n
  <2> QED
    BY <1>1, <2>1, <2>2
<1>7. u > here
  OBVIOUS
<1> DEFINE at == resolve_day_clock(here, D, s, Order)
<1>8. CASE n = today
  <2>1. at = IF k * Day + s > here THEN {k * Day + s} ELSE {}
    BY <1>4, <1>8
  <2> HIDE DEF k, n, s, u, at
  <2>2. k = n
    BY <1>1, <1>2, <1>6, <1>7, <1>8, SMT
  <2>3. k * Day + s = u /\ u \in Int
    BY <1>1, <1>5, <2>2, SMT
  <2>4. at = {u} /\ u >= u
    BY <1>7, <2>1, <2>3
  <2>5. AtOrAfter(here, today, u, at)
    BY <2>3, <2>4 DEF AtOrAfter
  <2> QED
    BY <2>5 DEF u, at, n, s
<1>9. CASE n # today
  <2> DEFINE z == k * Day + s + Day
  <2>1. at = {z}
    BY <1>4, <1>9
  <2> HIDE DEF k, n, s, u, at
  <2>2. z = k * 86400 + s + 86400 /\ n = today + 1
    BY <1>1, <1>2, <1>5, <1>6, <1>9, <2>1, SMT
  <2> HIDE DEF z
  <2>3. z \in Int /\ z >= u /\ (k = today => z = u)
    BY <1>1, <1>2, <1>6, <2>2, SMT
  <2>4. AtOrAfter(here, today, u, at)
    BY <2>1, <2>3 DEF AtOrAfter, k
  <2> QED
    BY <2>4 DEF u, at, n, s
<1> QED
  BY <1>8, <1>9

\* What a weekly banner whose minute is ahead is read as.
LEMMA WeeklyExact ==
  ASSUME NEW here, InYears(here), NEW t \in Int, here < ToMinute(t), ToMinute(t) <= here + 7 * Day,
         NEW today \in Int, today <= here \div Day,
         NEW wording \in Wordings \ {"undated", "two-digit-year-after"},
         wording = "bare" => ToMinute(t) <= here + Day,
         wording = "relative" => (t \div Day) - today \in {0, 1},
         NEW at, at = IF wording = "bare" THEN {at_clock(here, Second(t))}
                      ELSE OnDays(here, Meaning(wording, t \div Day, today), {Second(t)})
  PROVE  WeeklySays(here, today, wording, ToMinute(t), at)
<1> DEFINE n == t \div Day
           s == Second(t)
           u == ToMinute(t)
           m == MonthOf(n)
           d == DayOfMonth(n)
           y == YearOf(n)
           X == Meaning(wording, n, today)
<1>1. here \in Int /\ u <= here + 31 * Day
  <2>1. here \in Int /\ u \in Int
    BY MinuteOfDay DEF InYears
  <2> HIDE DEF u
  <2>2. u <= here + 7 * Day
    BY DEF u
  <2> QED
    BY <2>1, <2>2, SMT DEF Day
<1>2. wording \in {"bare", "dated", "trailing", "full", "weekday", "relative", "month/day", "day/month",
                  "with-year", "ISO", "two-digit-year"}
  BY PrintingConstants
<1>3. ASSUME NEW D, X = {D}, wording # "bare"
      PROVE  at = resolve_day_clock(here, D, s, Order)
  <2> HIDE DEF X, s
  <2> QED
    BY <1>3, OnOneDay DEF X, s
<1>4. CASE wording = "bare"
  BY <1>1, <1>4, ClockExact DEF WeeklySays
<1>5. CASE wording \in {"dated", "trailing", "full", "ISO"}
  <2> DEFINE year == IF wording \in {"dated", "trailing"} THEN None ELSE y
             D == MonthDay(m, d, year)
  <2>1. X = {D}
    BY <1>5 DEF Meaning
  <2>2. at = resolve_day_clock(here, D, s, Order)
    BY <1>3, <1>5, <2>1
  <2>3. resolve_day_clock(here, D, s, Order) = month_day_at(here, m, d, year, s)
    BY DEF resolve_day_clock, MonthDay
  <2>4. year \in {None, y}
    OBVIOUS
  <2> HIDE DEF year
  <2>5. month_day_at(here, m, d, year, s) = {u}
    BY <1>1, <2>4, DateExact
  <2> QED
    BY <1>5, <2>2, <2>3, <2>5 DEF WeeklySays
<1>6. CASE wording \in {"month/day", "day/month", "with-year"}
  <2> DEFINE year == IF wording = "with-year" THEN y ELSE None
             D == IF wording = "day/month" THEN Numeric(d, m, year) ELSE Numeric(m, d, year)
  <2>1. X = {D}
    BY <1>6 DEF Meaning
  <2>2. at = resolve_day_clock(here, D, s, Order)
    BY <1>3, <1>6, <2>1
  <2>3. \/ resolve_day_clock(here, D, s, Order) = numeric_at(here, m, d, year, s, Order)
        \/ resolve_day_clock(here, D, s, Order) = numeric_at(here, d, m, year, s, Order)
    <3>1. \A a, b : resolve_day_clock(here, Numeric(a, b, year), s, Order) = numeric_at(here, a, b, year, s, Order)
      BY DEF resolve_day_clock, Numeric
    <3> QED
      BY <3>1
  <2>4. year \in {None, y}
    OBVIOUS
  <2> HIDE DEF year
  <2>5. /\ numeric_at(here, m, d, year, s, Order) = {u}
        /\ numeric_at(here, d, m, year, s, Order) = {u}
    BY <2>4, NumberExact
  <2> QED
    BY <1>6, <2>2, <2>3, <2>5 DEF WeeklySays
<1>7. CASE wording = "weekday"
  <2>1. X = {OnWeekday(Weekday(n))}
    BY <1>7 DEF Meaning
  <2>2. at = resolve_day_clock(here, OnWeekday(Weekday(n)), s, Order)
    BY <1>3, <1>7, <2>1
  <2>3. resolve_day_clock(here, OnWeekday(Weekday(n)), s, Order) = {weekday_at(here, Weekday(n), s)}
    BY DEF resolve_day_clock, OnWeekday
  <2>4. weekday_at(here, Weekday(n), s) = u
    BY <1>1, WeekdayExact
  <2> QED
    BY <1>7, <2>2, <2>3, <2>4 DEF WeeklySays
<1>8. CASE wording = "relative"
  <2>1. X = {IF n = today THEN Today ELSE Tomorrow}
    BY <1>8 DEF Meaning
  <2>2. at = resolve_day_clock(here, IF n = today THEN Today ELSE Tomorrow, s, Order)
    BY <1>3, <1>8, <2>1
  <2>3. n - today \in {0, 1}
    BY <1>8
  <2>4. AtOrAfter(here, today, u, resolve_day_clock(here, IF n = today THEN Today ELSE Tomorrow, s, Order))
    BY <1>1, <2>3, RelativeExact
  <2> HIDE DEF n, s, u
  <2>5. AtOrAfter(here, today, u, at)
    BY <2>2, <2>4
  <2> QED
    BY <1>8, <2>5 DEF WeeklySays, u
<1>9. CASE wording = "two-digit-year"
  <2>1. X = {}
    BY <1>9 DEF Meaning
  <2>2. at = OnDays(here, X, {s})
    BY <1>9
  <2> HIDE DEF X, s
  <2> QED
    BY <1>9, <2>1, <2>2, OnNoDay DEF WeeklySays
<1> QED
  BY <1>2, <1>4, <1>5, <1>6, <1>7, <1>8, <1>9

LEMMA WeeklyRead ==
  ASSUME Clock, \A zone \in Zones : InYears(Here(zone)), NEW l,
         AsBanner(l), AsWeekly(l), NEW r \in read_weekly(l)
  PROVE  Fits(l, r)
<1>1. PICK zone \in Zones : WeeklyIn(l, zone)
  BY DEF AsWeekly
<1> DEFINE t == l.reset + Offset[zone]
           p == l.printed + Offset[zone]
           u == ToMinute(t)
           here == Here(zone)
           today == p \div Day
           at == weekly_day(l, here)
<1>2. in_zone(l.zone) = zone /\ find_zone_token(l) = l.zone /\ l.token = Clock12(t)
  BY <1>1, ZoneRead DEF find_zone_token, WeeklyIn
<1>3. l.reset \in Int /\ l.printed \in Int /\ l.printed <= l.reset /\ l.printed <= now
  BY DEF AsBanner
<1>4. here = now + Offset[zone] /\ now \in Int /\ Offset[zone] \in Int /\ here \in Int
  BY HereIsInt
<1>5. t \in Int /\ p \in Int /\ p <= here
  BY <1>3, <1>4
<1>6. l.token # None /\ u \in Int /\ u <= t
  <2> HIDE DEF t
  <2> QED
    BY <1>2, <1>5, TokenSays
<1>7. l.kind = "Weekly" /\ l.wording \in Wordings \ {"undated", "two-digit-year-after"}
  BY DEF AsWeekly
<1>8. today \in Int /\ today <= here \div Day
  <2> HIDE DEF p, here
  <2> QED
    BY <1>4, <1>5, DaysInOrder
<1>9. u <= here + 7 * Day /\ (l.wording = "bare" => u <= here + Day)
  <2>1. t - p = l.reset - l.printed /\ l.reset - l.printed \in Int
    BY <1>3, <1>4
  <2>2. l.reset <= l.printed + 7 * Day /\ (l.wording = "bare" => l.reset - l.printed <= Day)
    BY <1>1 DEF AsWeekly, WeeklyIn
  <2> HIDE DEF t, p, u, here
  <2> QED
    BY <1>3, <1>4, <1>5, <1>6, <2>1, <2>2, SMT DEF Day
<1>10. l.wording = "relative" => (t \div Day) - today \in {0, 1}
  BY <1>1 DEF WeeklyIn
<1>11. at = IF l.wording = "bare" THEN {at_clock(here, Second(t))}
            ELSE OnDays(here, Meaning(l.wording, t \div Day, today), {Second(t)})
  BY <1>1, <1>5, <1>7, WeeklyDays
<1>12. r \in IF at = {} THEN {Unreadable} ELSE {Reset(zone, z) : z \in at}
  BY <1>2, <1>6 DEF read_weekly
<1>13. MinuteSaid(l) = u
  BY <1>2 DEF MinuteSaid
<1>14. Dated(l) => l.wording # "relative" \/ here \div Day = today
  <2>1. here = now + Offset[in_zone(l.zone)] /\ p = l.printed + Offset[in_zone(l.zone)]
    BY <1>2, <1>4
  <2> HIDE DEF here, p
  <2> QED
    BY <2>1 DEF Dated
<1>15. InYears(here)
  OBVIOUS
<1>16. ~(u > here + 31 * Day)
  <2> HIDE DEF u, here
  <2> QED
    BY <1>4, <1>6, <1>9, SMT DEF Day
<1> HIDE DEF here, at, today, p, t
<1>17. ASSUME u > here
       PROVE  WeeklySays(here, today, l.wording, u, at)
  BY <1>4, <1>5, <1>6, <1>7, <1>8, <1>9, <1>10, <1>11, <1>15, <1>17, WeeklyExact
<1> HIDE DEF u, t
<1>18. ASSUME u > here, l.wording # "two-digit-year"
       PROVE  \E z \in Int : /\ r = Reset(zone, z) /\ z >= u
                             /\ Dated(l) => z = u
  <2>1. PICK z \in Int : at = {z} /\ z >= u /\ (Dated(l) => z = u)
    BY <1>6, <1>14, <1>17, <1>18 DEF WeeklySays, AtOrAfter
  <2> QED
    BY <1>12, <2>1
<1>19. ASSUME u > here, l.wording = "two-digit-year"
       PROVE  r = Unreadable
  BY <1>12, <1>17, <1>19 DEF WeeklySays
<1>20. \A z \in Int : z >= u => z - Offset[zone] + Padding >= u - Offset[zone] + Padding
  BY <1>4, <1>6, SMT DEF Padding, PADDING_MINUTES, Minute
<1>21. ASSUME u > here, l.wording # "two-digit-year"
       PROVE  /\ r.kind = "Reset" /\ r.at >= u - Offset[zone] + Padding
              /\ Dated(l) => r.at = u - Offset[zone] + Padding
  <2>1. PICK z \in Int : /\ r = Reset(zone, z) /\ z >= u
                         /\ Dated(l) => z = u
    BY <1>18, <1>21
  <2>2. r.kind = "Reset" /\ r.at = z - Offset[zone] + Padding
    BY <2>1, ResetSays
  <2> QED
    BY <1>20, <2>1, <2>2
<1>22. FitsClock(l, r)
  BY <1>2, <1>13, <1>16, <1>19, <1>21 DEF FitsClock, here
<1> QED
  BY <1>7, <1>22 DEF Fits

-----------------------------------------------------------------------------
(***************************************************************************)
(* The lowest banner is the one that is read.                              *)
(***************************************************************************)
\* What is read at a token on line k of a Codex banner.
CodexAt(lines, i, k) ==
  LET here == Here(Local)
      days == parse_day_words(GapTo(lines, i, k))
      secs == clock_hm(lines[k].token)
  IN IF days = {} \/ secs = {} THEN {Unreadable}
     ELSE IF days = {Unnamed} THEN UNION {codex_bare(s, here) : s \in secs}
     ELSE UNION {codex_dated(d, s, here) : d \in days, s \in secs}

\* A Codex banner always says something.
LEMMA CodexSays ==
  ASSUME NEW lines, LinesOK(lines), NEW i \in DOMAIN lines, lines[i].token # None
  PROVE  read_codex(lines, i) # {}
<1>1. First(lines, {j \in Paragraph(lines, i) : lines[j].token # None}) = {i}
  BY OwnTokens
<1>2. read_codex(lines, i)
        = UNION {CodexAt(lines, i, k) : k \in First(lines, {j \in Paragraph(lines, i) : lines[j].token # None})}
  BY DEF read_codex, CodexAt
<1>3. CodexAt(lines, i, i) # {}
  <2> DEFINE here == Here(Local)
             days == parse_day_words(GapTo(lines, i, i))
             secs == clock_hm(lines[i].token)
  <2>1. \A d, s : codex_bare(s, here) # {} /\ codex_dated(d, s, here) # {}
    BY DEF codex_bare, codex_dated
  <2>2. CASE days = {} \/ secs = {}
    BY <2>2 DEF CodexAt
  <2>3. CASE days = {Unnamed} /\ secs # {}
    <3>1. CodexAt(lines, i, i) = UNION {codex_bare(s, here) : s \in secs}
      BY <2>3 DEF CodexAt
    <3> HIDE DEF secs, here
    <3> QED
      BY <2>1, <2>3, <3>1
  <2>4. CASE days # {Unnamed} /\ days # {} /\ secs # {}
    <3>1. CodexAt(lines, i, i) = UNION {codex_dated(d, s, here) : d \in days, s \in secs}
      BY <2>4 DEF CodexAt
    <3> HIDE DEF days, secs, here
    <3> QED
      BY <2>1, <2>4, <3>1
  <2> QED
    BY <2>2, <2>3, <2>4
<1> QED
  BY <1>1, <1>2, <1>3

\* And so does every other that holds its time, a span of a minute at least.
LEMMA BannerSays ==
  ASSUME Clock, NEW lines, LinesOK(lines), NEW i \in DOMAIN lines, AsBanner(lines[i]),
         lines[i].kind = "Duration" => lines[i].reset - lines[i].printed >= Minute
  PROVE  read_banner(lines, i, lines[i].kind) # {}
<1> DEFINE l == lines[i]
<1>0. l.reset \in Int /\ l.printed \in Int /\ l.printed <= l.reset
  BY DEF AsBanner
<1>t. ASSUME NEW zone \in Zones, l.token = Clock12(l.reset + Offset[zone])
      PROVE  l.token # None /\ \E s : clock_hm(l.token) = {s}
  <2> DEFINE t == l.reset + Offset[zone]
  <2>1. t \in Int
    BY <1>0, HereIsInt
  <2> HIDE DEF t
  <2>2. Clock12(t) # None /\ clock_hm(Clock12(t)) = {Second(t)}
    BY <2>1, TokenSays
  <2> QED
    BY <1>t, <2>2 DEF t
<1>1. CASE AsSession(l)
  <2>1. PICK zone \in Zones : l.token = Clock12(l.reset + Offset[zone])
    BY <1>1 DEF AsSession
  <2>2. l.token # None /\ \E s : clock_hm(l.token) = {s}
    BY <1>t, <2>1
  <2>3. find_clock_token(lines, i) = {l.token}
    BY <2>2, OwnTokens
  <2>4. PICK s : clock_hm(l.token) = {s}
    BY <2>2
  <2> DEFINE here == Here(in_zone(find_zone_token(l)))
  <2>5. at_clock(here, s) \in parse_clock(here, l.token)
    BY <2>4 DEF parse_clock
  <2>6. read_clock(lines, i) # {}
    BY <2>3, <2>5 DEF read_clock
  <2> QED
    BY <1>1, <2>6 DEF AsSession, read_banner
<1>2. CASE AsWeekly(l)
  <2>1. PICK zone \in Zones : l.token = Clock12(l.reset + Offset[zone])
    BY <1>2 DEF AsWeekly, WeeklyIn
  <2>2. l.token # None
    BY <1>t, <2>1
  <2>3. read_weekly(l) # {}
    BY <2>2 DEF read_weekly
  <2> QED
    BY <1>2, <2>3 DEF AsWeekly, read_banner
<1>3. CASE AsCodex(l)
  <2>1. l.token # None
    BY <1>3, <1>t, LocalIsZone DEF AsCodex
  <2>2. read_codex(lines, i) # {}
    BY <2>1, CodexSays
  <2> QED
    BY <1>3, <2>2 DEF AsCodex, read_banner
<1>4. CASE AsQuota(l)
  <2> DEFINE d == l.reset - l.printed
             here == Here(Local)
  <2>1. l.kind = "Duration" /\ l.span = SpanOf(d) /\ d \in Nat
    BY <1>0, <1>4 DEF AsQuota
  <2>2. d >= 60
    BY <2>1 DEF Minute
  <2> HIDE DEF d
  <2>3. l.span # None /\ l.span.h * Hour + l.span.m * Minute = ToMinute(d)
    BY <2>1, SpanIsThere
  <2>4. ToMinute(d) \in Int /\ d < ToMinute(d) + 60
    BY <2>1, MinuteOfDay
  <2>5. ~(l.span.h = 0 /\ l.span.m = 0)
    BY <2>1, <2>2, <2>3, <2>4, SMT DEF Hour, Minute
  <2>6. find_duration_token(lines, i) = {l.span}
    BY <2>3, OwnTokens
  <2>7. parse_relative(here, l.span) # {}
    BY <2>5 DEF parse_relative
  <2>8. read_duration(lines, i) # {}
    BY <2>6, <2>7 DEF read_duration
  <2> QED
    BY <2>1, <2>8 DEF read_banner
<1> QED
  BY <1>1, <1>2, <1>3, <1>4 DEF AsBanner

\* What is read off a banner as printed is what it says.
LEMMA BannerRead ==
  ASSUME Clock, \A zone \in Zones : InYears(Here(zone)),
         NEW lines, LinesOK(lines), NEW i \in DOMAIN lines, AsBanner(lines[i]),
         NEW r \in read_banner(lines, i, lines[i].kind)
  PROVE  Fits(lines[i], r)
<1>1. CASE AsSession(lines[i])
  <2>1. r \in read_clock(lines, i)
    BY <1>1 DEF AsSession, read_banner
  <2> QED
    BY <1>1, <2>1, SessionRead
<1>2. CASE AsWeekly(lines[i])
  <2>1. r \in read_weekly(lines[i])
    BY <1>2 DEF AsWeekly, read_banner
  <2> QED
    BY <1>2, <2>1, WeeklyRead
<1>3. CASE AsCodex(lines[i])
  <2>1. r \in read_codex(lines, i)
    BY <1>3 DEF AsCodex, read_banner
  <2>2. InYears(Here(Local))
    BY LocalIsZone
  <2> QED
    BY <1>3, <2>1, <2>2, CodexRead
<1>4. CASE AsQuota(lines[i])
  <2>1. r \in read_duration(lines, i)
    BY <1>4 DEF AsQuota, read_banner
  <2> QED
    BY <1>4, <2>1, QuotaRead
<1> QED
  BY <1>1, <1>2, <1>3, <1>4 DEF AsBanner

\* Nothing below a banner and no other shape on its line comes before it.
LEMMA LowestFirst ==
  ASSUME NEW lines, LinesOK(lines), \A j \in DOMAIN lines : AsPrinted(lines[j]),
         NEW i \in DOMAIN lines, lines[i].kind # "noise",
         \A j \in DOMAIN lines : lines[j].kind # "noise" => j <= i,
         read_banner(lines, i, lines[i].kind) # {},
         NEW r \in detect_reset(lines)
  PROVE  r \in read_banner(lines, i, lines[i].kind)
<1> DEFINE banners == {b \in (DOMAIN lines) \X (1 .. 4) :
                         /\ Rank[b[2]] \in lines[b[1]].shapes
                         /\ read_banner(lines, b[1], Rank[b[2]]) # {}}
           kind == lines[i].kind
<1>1. /\ kind \in {"Clock", "Weekly", "Codex", "Duration"}
      /\ lines[i].shapes \in {{kind}, {kind, "Clock"}}
  BY DEF AsPrinted
<1>2. PICK n \in 1 .. 4 : Rank[n] = kind
  BY <1>1 DEF Rank
<1>3. \A n1, n2 \in 1 .. 4 : (Rank[n1] = Rank[n2] => n1 = n2) /\ (Rank[n1] = "Clock" => n1 = 4)
  BY DEF Rank
<1>4. <<i, n>> \in banners
  BY <1>1, <1>2
<1>5. PICK b \in banners : /\ \A c \in banners \ {b} : TriedBefore(b, c)
                          /\ r \in read_banner(lines, b[1], Rank[b[2]])
  BY <1>4 DEF detect_reset
<1>6. b = <<i, n>>
  <2> SUFFICES ASSUME b # <<i, n>> PROVE FALSE
    OBVIOUS
  <2>1. TriedBefore(b, <<i, n>>)
    BY <1>4, <1>5
  <2>2. /\ b = <<b[1], b[2]>> /\ b[1] \in DOMAIN lines /\ b[2] \in 1 .. 4
        /\ Rank[b[2]] \in lines[b[1]].shapes
    OBVIOUS
  <2>3. b[1] <= i
    <3>1. lines[b[1]].shapes # {}
      BY <2>2
    <3>2. lines[b[1]].kind # "noise"
      BY <2>2, <3>1 DEF AsPrinted
    <3> QED
      BY <2>2, <3>2
  <2>4. b[1] \in Int /\ i \in Int
    BY <2>2, LinesFrom
  <2>5. b[1] = i /\ b[2] < n
    BY <2>1, <2>3, <2>4 DEF TriedBefore
  <2>6. Rank[b[2]] = kind \/ Rank[b[2]] = "Clock"
    BY <1>1, <2>2, <2>5
  <2>7. b[2] = n \/ b[2] = 4
    BY <1>2, <1>3, <2>2, <2>6
  <2> QED
    BY <2>5, <2>7
<1> QED
  BY <1>2, <1>5, <1>6

\* The lowest banner on the pane, if the capture holds its time, is what is
\* read, and it is read as it was meant.
LEMMA LowestRead ==
  ASSUME Clock, \A zone \in Zones : InYears(Here(zone)),
         NEW lines, LinesOK(lines), \A j \in DOMAIN lines : AsPrinted(lines[j]),
         NEW i \in DOMAIN lines, lines[i].kind # "noise", Complete(lines[i]),
         \A j \in DOMAIN lines : lines[j].kind # "noise" => j <= i,
         NEW r \in detect_reset(lines)
  PROVE  Fits(lines[i], r)
<1>1. AsBanner(lines[i])
  <2>1. AsPrinted(lines[i])
    OBVIOUS
  <2> QED
    BY <2>1 DEF AsPrinted, Complete
<1>2. CASE lines[i].kind = "Duration" /\ ~(lines[i].reset - lines[i].printed >= Minute)
  BY <1>2 DEF Fits, FitsSpan
<1>3. CASE lines[i].kind = "Duration" => lines[i].reset - lines[i].printed >= Minute
  <2>1. read_banner(lines, i, lines[i].kind) # {}
    BY <1>1, <1>3, BannerSays
  <2>2. r \in read_banner(lines, i, lines[i].kind)
    BY <2>1, LowestFirst
  <2> QED
    BY <1>1, <2>2, BannerRead
<1> QED
  BY <1>2, <1>3

-----------------------------------------------------------------------------
(***************************************************************************)
(* Every line on the pane is as printed.                                   *)
(***************************************************************************)
\* A session's reset is within the day, a week's within the week.
InTime ==
  /\ \A d \in Ahead["Clock"] : d <= Day
  /\ \A d \in Ahead["Weekly"] : d <= 7 * Day

\* A weekly banner names its day before the time, or after it so that it can
\* be read; the others are UnreadDayRefused's.
DayIsSaid == Wordings \cap {"undated", "two-digit-year-after"} = {}

LEMMA BannerLine ==
  ASSUME NEW kind, NEW reset
  PROVE  LET l == Banner(kind, reset)
         IN /\ l.kind = kind /\ l.reset = reset /\ l.printed = now /\ l.wording = "none"
            /\ l.token = None /\ l.span = None /\ l.zone = None /\ l.gap = <<>> /\ l.trail = <<>>
            /\ l.shapes \in {{kind}, {kind, "Clock"}}
            /\ {"gap", "trail", "span", "wording", "token", "zone"} \subseteq DOMAIN l
BY DEF Banner, Blank, Matched

LEMMA PrintedSession ==
  ASSUME Clock, NEW zone \in Zones, NEW d \in Nat, d <= Day
  PROVE  AsPrinted(Session(zone, now + d))
<1> DEFINE reset  == now + d
           banner == Banner("Clock", reset)
           l      == Session(zone, reset)
<1>1. reset \in Int /\ now \in Int /\ now <= reset /\ reset <= now + Day
  BY SMT DEF Clock, Day
<1> HIDE DEF reset
<1>2. /\ banner.kind = "Clock" /\ banner.reset = reset /\ banner.printed = now
      /\ banner.wording = "none" /\ banner.shapes \in {{"Clock"}, {"Clock", "Clock"}}
      /\ {"token", "zone"} \subseteq DOMAIN banner
  BY BannerLine
<1>3. l = [banner EXCEPT !.token = Clock12(reset + Offset[zone]),
                         !.zone  = IF zone = Local THEN None ELSE zone]
  BY DEF Session
<1> HIDE DEF banner, l
<1>4. /\ l.kind = "Clock" /\ l.reset = reset /\ l.printed = now /\ l.wording = "none"
      /\ l.shapes \in {{"Clock"}, {"Clock", "Clock"}}
      /\ l.token = Clock12(reset + Offset[zone]) /\ l.zone = ZoneWord(zone)
  BY <1>2, <1>3 DEF ZoneWord
<1>5. AsSession(l)
  BY <1>1, <1>4 DEF AsSession
<1>6. AsBanner(l)
  BY <1>1, <1>4, <1>5 DEF AsBanner
<1> QED
  BY <1>4, <1>6 DEF AsPrinted, l, reset

LEMMA PrintedWeekly ==
  ASSUME Clock, DayIsSaid, NEW zone \in Zones, NEW wording \in Wordings, NEW d \in Nat, d <= 7 * Day,
         Sayable(wording, now + d, (now + d + Offset[zone]) \div Day, Here(zone) \div Day)
  PROVE  AsPrinted(Weekly(wording, zone, now + d))
<1> DEFINE reset  == now + d
           banner == Banner("Weekly", reset)
           l      == Weekly(wording, zone, reset)
           n      == (reset + Offset[zone]) \div Day
           words  == DayWords(wording, n, Here(zone) \div Day)
<1>1. reset \in Int /\ now \in Int /\ now <= reset /\ reset <= now + 7 * Day
  BY SMT DEF Clock, Day
<1>2. Sayable(wording, reset, n, Here(zone) \div Day)
  OBVIOUS
<1> HIDE DEF reset
<1>3. /\ banner.kind = "Weekly" /\ banner.reset = reset /\ banner.printed = now
      /\ banner.shapes \in {{"Weekly"}, {"Weekly", "Clock"}}
      /\ {"wording", "gap", "trail", "token", "zone"} \subseteq DOMAIN banner
  BY BannerLine
<1>4. l = [banner EXCEPT
             !.wording = wording,
             !.gap   = IF wording \in After THEN <<>> ELSE words \o Filler,
             !.trail = IF wording \in After THEN Filler \o words ELSE <<>>,
             !.token = Clock12(reset + Offset[zone]),
             !.zone  = IF zone = Local THEN None ELSE zone]
  BY DEF Weekly
<1>5. Here(zone) = now + Offset[zone]
  BY DEF Here
<1> HIDE DEF banner, l, words
<1>6. /\ l.kind = "Weekly" /\ l.reset = reset /\ l.printed = now /\ l.wording = wording
      /\ l.shapes \in {{"Weekly"}, {"Weekly", "Clock"}}
      /\ l.token = Clock12(reset + Offset[zone]) /\ l.zone = ZoneWord(zone)
      /\ l.gap = IF wording \in After THEN <<>> ELSE words \o Filler
      /\ l.trail = IF wording \in After THEN Filler \o words ELSE <<>>
  BY <1>3, <1>4 DEF ZoneWord
<1>7. words = DayWords(l.wording, (l.reset + Offset[zone]) \div Day, (l.printed + Offset[zone]) \div Day)
  BY <1>5, <1>6 DEF words
<1>8. /\ l.wording = "bare" => l.reset - l.printed <= Day
      /\ l.wording = "relative" =>
           ((l.reset + Offset[zone]) \div Day) - ((l.printed + Offset[zone]) \div Day) \in {0, 1}
  BY <1>2, <1>5, <1>6 DEF Sayable
<1>9. WeeklyIn(l, zone)
  BY <1>6, <1>7, <1>8 DEF WeeklyIn
<1>10. AsWeekly(l)
  BY <1>1, <1>6, <1>9 DEF AsWeekly, DayIsSaid
<1>11. AsBanner(l)
  BY <1>1, <1>6, <1>10 DEF AsBanner
<1> QED
  BY <1>6, <1>11 DEF AsPrinted, l, reset

LEMMA PrintedCodex ==
  ASSUME Clock, InYears(Here(Local)), NEW d \in Nat
  PROVE  AsPrinted(Codex(now + d))
<1> DEFINE reset  == now + d
           banner == Banner("Codex", reset)
           l      == Codex(reset)
           n      == (reset + Offset[Local]) \div Day
<1>1. reset \in Int /\ now \in Int /\ now <= reset
  BY DEF Clock
<1>2. 0 <= now + Offset[Local] /\ Here(Local) = now + Offset[Local]
  BY DEF InYears, Here
<1> HIDE DEF reset
<1>3. /\ banner.kind = "Codex" /\ banner.reset = reset /\ banner.printed = now
      /\ banner.wording = "none" /\ banner.zone = None
      /\ banner.shapes \in {{"Codex"}, {"Codex", "Clock"}}
      /\ {"gap", "token"} \subseteq DOMAIN banner
  BY BannerLine
<1>4. l = [banner EXCEPT
             !.gap   = IF n = Here(Local) \div Day THEN <<>> ELSE Date(n) \o Year(n),
             !.token = Clock12(reset + Offset[Local])]
  BY DEF Codex
<1> HIDE DEF banner, l
<1>5. /\ l.kind = "Codex" /\ l.reset = reset /\ l.printed = now /\ l.wording = "none" /\ l.zone = None
      /\ l.shapes \in {{"Codex"}, {"Codex", "Clock"}}
      /\ l.token = Clock12(reset + Offset[Local])
      /\ l.gap = IF n = Here(Local) \div Day THEN <<>> ELSE Date(n) \o Year(n)
  <2> HIDE DEF n
  <2> QED
    BY <1>3, <1>4
<1>6. AsCodex(l)
  BY <1>2, <1>5 DEF AsCodex
<1>7. AsBanner(l)
  BY <1>1, <1>5, <1>6 DEF AsBanner
<1> QED
  BY <1>5, <1>7 DEF AsPrinted, l, reset

LEMMA PrintedQuota ==
  ASSUME Clock, NEW d \in Ahead["Duration"]
  PROVE  AsPrinted(Quota(now + d))
<1> DEFINE reset  == now + d
           banner == Banner("Duration", reset)
           l      == Quota(reset)
<1>1. reset \in Int /\ now \in Int /\ now <= reset /\ reset - now = d
  BY AheadIsNat DEF Clock
<1> HIDE DEF reset
<1>2. /\ banner.kind = "Duration" /\ banner.reset = reset /\ banner.printed = now
      /\ banner.wording = "none"
      /\ banner.shapes \in {{"Duration"}, {"Duration", "Clock"}}
      /\ "span" \in DOMAIN banner
  BY BannerLine
<1>3. l = [banner EXCEPT !.span = SpanOf(reset - now)]
  BY DEF Quota
<1> HIDE DEF banner, l
<1>4. /\ l.kind = "Duration" /\ l.reset = reset /\ l.printed = now /\ l.wording = "none"
      /\ l.shapes \in {{"Duration"}, {"Duration", "Clock"}} /\ l.span = SpanOf(reset - now)
  BY <1>2, <1>3
<1>5. AsQuota(l)
  BY <1>1, <1>4 DEF AsQuota
<1>6. AsBanner(l)
  BY <1>1, <1>4, <1>5 DEF AsBanner
<1> QED
  BY <1>4, <1>6 DEF AsPrinted, l, reset

LEMMA PrintedCut ==
  ASSUME NEW kind \in {"Clock", "Weekly", "Codex", "Duration"}, NEW reset
  PROVE  AsPrinted(Banner(kind, reset))
<1> DEFINE l == Banner(kind, reset)
<1>1. l.kind = kind /\ l.token = None /\ l.span = None /\ l.shapes \in {{kind}, {kind, "Clock"}}
  BY BannerLine
<1> HIDE DEF l
<1>2. AsPrinted(l)
  BY <1>1 DEF AsPrinted
<1> QED
  BY <1>2 DEF l

LEMMA PrintedReport ==
  ASSUME NEW joined
  PROVE  AsPrinted([Report EXCEPT !.joined = joined])
<1>1. Report.kind = "noise" /\ Report.shapes = {}
  BY DEF Report, Blank
<1>2. [Report EXCEPT !.joined = joined].kind = "noise" /\ [Report EXCEPT !.joined = joined].shapes = {}
  BY <1>1
<1> QED
  BY <1>2 DEF AsPrinted

\* It stays so as time passes.
LEMMA StaysPrinted ==
  ASSUME now \in Int, now' \in Int, now <= now'
  PROVE  \A l : AsPrinted(l) => AsPrinted(l)'
<1> SUFFICES ASSUME NEW l, AsPrinted(l)
             PROVE  AsPrinted(l)'
  OBVIOUS
<1>1. /\ AsSession(l)' = AsSession(l) /\ AsWeekly(l)' = AsWeekly(l)
      /\ AsCodex(l)' = AsCodex(l) /\ AsQuota(l)' = AsQuota(l)
  BY DEF AsSession, AsWeekly, WeeklyIn, AsCodex, AsQuota
<1>2. AsBanner(l) => AsBanner(l)'
  BY <1>1 DEF AsBanner
<1> QED
  BY <1>2 DEF AsPrinted

-----------------------------------------------------------------------------
(***************************************************************************)
(* A typed time is the coming one so called.                               *)
(***************************************************************************)
LEMMA Remainder ==
  ASSUME NEW q \in Int, NEW w \in Int, 0 <= w, w < 86400
  PROVE  (q * 86400 + w) % 86400 = w
OBVIOUS

\* Moment x is second s of its day.
AtSecond(x, s) ==
  x \in Int /\ s \in Int /\ 0 <= s /\ s < 86400 /\ \E n \in Int : x = n * 86400 + s

LEMMA ComingExact ==
  ASSUME Clock, NEW x, NEW s, AtSecond(x, s)
  PROVE  at_clock(Here(Local), s) - Offset[Local] = Coming(x)
<1>0. x \in Int /\ s \in Int /\ 0 <= s /\ s < 86400
  BY DEF AtSecond
<1>n. PICK n \in Int : x = n * 86400 + s
  BY DEF AtSecond
<1> DEFINE here == Here(Local)
           k == here \div Day
           w == IF k * 86400 + s <= here THEN k * 86400 + s + 86400 - here - 1 ELSE k * 86400 + s - here - 1
           q == IF k * 86400 + s <= here THEN n - k - 1 ELSE n - k
           D == x - here - 1
<1>1. here \in Int /\ Offset[Local] \in Int /\ now \in Int /\ here = now + Offset[Local]
  BY HereIsInt, LocalIsZone
<1> HIDE DEF here
<1>2. k \in Int /\ k * 86400 <= here /\ here < k * 86400 + 86400
  BY <1>1, SMT DEF Day
<1>3. at_clock(here, s) = IF k * 86400 + s <= here THEN k * 86400 + s + 86400 ELSE k * 86400 + s
  BY SMT DEF at_clock, Day
<1> HIDE DEF k
<1>4. w \in Int /\ 0 <= w /\ w < 86400 /\ q \in Int
  BY <1>0, <1>1, <1>2, SMT
<1>5. D = q * 86400 + w
  BY <1>0, <1>n, <1>1, <1>2, SMT
<1>6. at_clock(here, s) = here + 1 + w
  BY <1>0, <1>1, <1>2, <1>3, SMT
<1> HIDE DEF w, q
<1>7. D % 86400 = w
  <2>1. (q * 86400 + w) % 86400 = w
    BY <1>4, Remainder
  <2> HIDE DEF D
  <2> QED
    BY <1>5, <2>1, SMT
<1>8. Coming(x) = now + 1 + (D % 86400)
  BY SMT DEF Coming, Day, here
<1> HIDE DEF D
<1> QED
  BY <1>1, <1>4, <1>6, <1>7, <1>8, SMT DEF here

\* Whatever the style, what is read is the moment meant.
LEMMA TypedExact ==
  ASSUME Clock, NEW style, NEW d \in Nat,
         NEW z \in parse_timespec(Here(Local), Written(style, now + d))
  PROVE  z - Offset[Local] = Meant(style, now + d)
<1> DEFINE here == Here(Local)
           t == now + d
           x == t + Offset[Local]
           spec == Written(style, t)
<1>1. here \in Int /\ Offset[Local] \in Int /\ now \in Int /\ here = now + Offset[Local]
  BY HereIsInt, LocalIsZone
<1>2. t \in Int /\ x \in Int /\ t - now = d
  BY <1>1
<1> HIDE DEF t
<1>3. CASE style \in {"12-hour", "24-hour"}
  <2>1. spec.kind = "clock" /\ spec.is \in {Clock12(x), Clock24(x)}
    BY <1>3 DEF Written
  <2> DEFINE token == spec.is
  <2>2. z \in parse_clock(here, token)
    BY <2>1 DEF parse_timespec, t
  <2> HIDE DEF x, spec, here
  <2>3. clock_hm(token) = {Second(x)}
    <3>1. clock_hm(Clock12(x)) = {Second(x)} /\ clock_hm(Clock24(x)) = {Second(x)}
      BY <1>2, ClockSays
    <3> QED
      BY <2>1, <3>1
  <2>4. z = at_clock(here, Second(x))
    BY <2>2, <2>3 DEF parse_clock
  <2> DEFINE n == x \div Day
             s == Second(x)
             u == ToMinute(x)
  <2>5. /\ n \in Int /\ s \in Int /\ 0 <= s /\ s < 86400 /\ n * 86400 + s = u /\ u \in Int
    BY <1>2, MinuteOfDay
  <2> HIDE DEF n, s, u
  <2>a. AtSecond(u, s)
    BY <2>5 DEF AtSecond
  <2>6. at_clock(Here(Local), s) - Offset[Local] = Coming(u)
    BY <2>a, ComingExact
  <2>b. u = t + Offset[Local] - ((t + Offset[Local]) % Minute)
    BY <1>1, <1>2, SMT DEF u, x, ToMinute, Minute
  <2>7. Meant(style, t) = Coming(u)
    BY <1>3, <2>b DEF Meant
  <2> QED
    BY <2>4, <2>6, <2>7 DEF here, s, t
<1>4. CASE style = "span"
  <2>1. spec = [kind |-> "span", is |-> SpanOf(d)]
    BY <1>2, <1>4 DEF Written
  <2>2. z \in parse_relative(here, SpanOf(d))
    BY <2>1 DEF parse_timespec, t
  <2> HIDE DEF here
  <2>3. SpanOf(d).h \in Nat /\ SpanOf(d).m \in 0 .. 59 /\ SpanOf(d).h * Hour + SpanOf(d).m * Minute = ToMinute(d)
    BY SpanIsThere
  <2>4. z = here + SpanOf(d).h * Hour + SpanOf(d).m * Minute
    BY <2>2 DEF parse_relative
  <2>5. ToMinute(d) \in Int
    BY MinuteOfDay
  <2>6. z = here + ToMinute(d)
    BY <1>1, <2>3, <2>4, <2>5, SMT DEF Hour, Minute
  <2>7. Meant(style, t) = now + (d - (d % Minute))
    BY <1>2, <1>4 DEF Meant
  <2>8. Meant(style, t) = now + ToMinute(d)
    BY <2>7 DEF ToMinute
  <2> QED
    BY <1>1, <2>5, <2>6, <2>8 DEF t
<1>5. CASE style \notin {"12-hour", "24-hour", "span"}
  <2>1. spec = [kind |-> "named", is |-> style]
    BY <1>5 DEF Written
  <2>2. z \in parse_named(here, style)
    BY <2>1 DEF parse_timespec, t
  <2> HIDE DEF here
  <2>3. CASE style = "noon"
    <3>1. z = at_clock(here, 12 * Hour) /\ Meant(style, t) = Coming(12 * Hour)
      BY <2>2, <2>3 DEF parse_named, Meant
    <3> DEFINE s == 12 * Hour
    <3>2. AtSecond(s, s)
      BY SMT DEF Hour, AtSecond
    <3> HIDE DEF s
    <3>3. at_clock(Here(Local), s) - Offset[Local] = Coming(s)
      BY <3>2, ComingExact
    <3> QED
      BY <3>1, <3>3 DEF s, here, t
  <2>4. CASE style = "midnight"
    <3>1. z = at_clock(here, 0) /\ Meant(style, t) = Coming(0)
      BY <2>2, <2>4 DEF parse_named, Meant
    <3> DEFINE s == 0
    <3>2. AtSecond(s, s)
      BY SMT DEF AtSecond
    <3> HIDE DEF s
    <3>3. at_clock(Here(Local), s) - Offset[Local] = Coming(s)
      BY <3>2, ComingExact
    <3> QED
      BY <3>1, <3>3 DEF s, here, t
  <2> QED
    BY <2>2, <2>3, <2>4 DEF parse_named
<1> QED
  BY <1>3, <1>4, <1>5

-----------------------------------------------------------------------------
(***************************************************************************)
(* What has been read is what the lowest banner says, or the time typed.   *)
(***************************************************************************)
\* Every clock is in a year the calendar has.
InCalendar == \A zone \in Zones : InYears(Here(zone))

AllPrinted == \A i \in DOMAIN screen : AsPrinted(screen[i])

Answered ==
  result # None =>
    \/ /\ result.meant = None /\ ToCome(result.r)
       /\ \A b \in Live : Fits(b, result.r)
    \/ screen = <<>> /\ result.r.kind = "Reset" /\ result.r.at = result.meant

RInv == IInv /\ AllPrinted /\ Answered

LEMMA PrintAdds ==
  ASSUME RInv, NEW line, AsPrinted(line), PrintLine(line)
  PROVE  AllPrinted' /\ Answered'
<1>1. PICK S : screen \in Seq(S)
  BY DEF RInv, IInv, LinesOK
<1>2. screen \in Seq(S \cup {line})
  BY <1>1
<1>3. screen' = Append(screen, line)
  BY DEF PrintLine
<1>4. \A i \in DOMAIN screen' : AsPrinted(screen'[i])
  BY <1>2, <1>3 DEF RInv, AllPrinted
<1>5. now' = now /\ now \in Int /\ now <= now
  BY DEF PrintLine, RInv, IInv, Clock
<1>6. \A l : AsPrinted(l) => AsPrinted(l)'
  BY <1>5, StaysPrinted
<1>7. AllPrinted'
  BY <1>4, <1>6 DEF AllPrinted
<1>8. result' = None
  BY DEF PrintLine
<1> QED
  BY <1>7, <1>8 DEF Answered

\* What a banner says does not change while the clock stands.
LEMMA FitsKept ==
  ASSUME now' = now
  PROVE  \A l, r : Fits(l, r)' = Fits(l, r) /\ ToCome(r)' = ToCome(r)
<1>1. \A l, r : FitsSpan(l, r)' = FitsSpan(l, r) /\ ToCome(r)' = ToCome(r)
  BY DEF FitsSpan, ToCome, Padding
<1>2. \A l, r : FitsClock(l, r)' = FitsClock(l, r)
  BY DEF FitsClock, MinuteSaid, Here, in_zone, Dated, Padding
<1>3. \A l, r : FitsCodex(l, r)' = FitsCodex(l, r)
  BY DEF FitsCodex, MinuteSaid, SameDay, Here, in_zone
<1> QED
  BY <1>1, <1>2, <1>3 DEF Fits

LEMMA ReadAnswers ==
  ASSUME RInv, InCalendar, ReadPane
  PROVE  Answered'
<1>1. PICK r \in detect_reset(screen) : result' = [r |-> r, meant |-> None]
  BY DEF ReadPane
<1>2. ToCome(r)
  BY <1>1, DetectedAhead DEF RInv, IInv
<1>3. \A b \in Live : Fits(b, r)
  <2> SUFFICES ASSUME NEW b \in Live
               PROVE  Fits(b, r)
    OBVIOUS
  <2>1. PICK i \in Banners : Complete(screen[i]) /\ (\A j \in Banners : j <= i) /\ b = screen[i]
    BY DEF Live
  <2>2. /\ i \in DOMAIN screen /\ screen[i].kind # "noise"
        /\ \A j \in DOMAIN screen : screen[j].kind # "noise" => j <= i
    BY <2>1 DEF Banners
  <2>3. Clock /\ LinesOK(screen) /\ \A j \in DOMAIN screen : AsPrinted(screen[j])
    BY DEF RInv, IInv, AllPrinted
  <2>4. \A zone \in Zones : InYears(Here(zone))
    BY DEF InCalendar
  <2> QED
    BY <1>1, <2>1, <2>2, <2>3, <2>4, LowestRead
<1>4. now' = now /\ screen' = screen
  BY DEF ReadPane
<1>5. Live' = Live
  BY <1>4 DEF Live, Banners, Complete
<1>6. \A b \in Live' : Fits(b, r)'
  BY <1>3, <1>4, <1>5, FitsKept
<1>7. ToCome(r)'
  BY <1>2, <1>4, FitsKept
<1>8. result'.meant = None /\ result'.r = r
  BY <1>1
<1> QED
  BY <1>6, <1>7, <1>8 DEF Answered

LEMMA TypedAnswers ==
  ASSUME RInv, ReadTyped
  PROVE  Answered'
<1>1. PICK style \in Styles, d \in Ahead["Typed"] :
        \E z \in parse_timespec(Here(Local), Written(style, now + d)) :
          result' = [r |-> [kind |-> "Reset", at |-> z - Offset[Local]],
                     meant |-> Meant(style, now + d)]
  BY DEF ReadTyped
<1>2. PICK z \in parse_timespec(Here(Local), Written(style, now + d)) :
        result' = [r |-> [kind |-> "Reset", at |-> z - Offset[Local]],
                   meant |-> Meant(style, now + d)]
  BY <1>1
<1>3. Clock /\ d \in Nat
  BY AheadIsNat DEF RInv, IInv
<1>4. z - Offset[Local] = Meant(style, now + d)
  BY <1>3, TypedExact
<1>5. screen' = <<>>
  BY DEF ReadTyped
<1> QED
  BY <1>2, <1>4, <1>5 DEF Answered

LEMMA StepKeepsReading ==
  ASSUME InTime, DayIsSaid, RInv, InCalendar, [Next]_vars
  PROVE  RInv'
<1>0. IInv' /\ Clock /\ Clock'
  BY StepKeepsInv DEF RInv, IInv
<1>1. CASE PrintSession
  <2>1. PICK zone \in Zones, d \in Ahead["Clock"] : PrintLine(Session(zone, now + d))
    BY <1>1 DEF PrintSession
  <2>2. AsPrinted(Session(zone, now + d))
    BY <1>0, AheadIsNat, PrintedSession DEF InTime
  <2> QED
    BY <1>0, <2>1, <2>2, PrintAdds DEF RInv
<1>2. CASE PrintWeekly
  <2>1. PICK zone \in Zones, wording \in Wordings : \E d \in Ahead["Weekly"] :
          /\ Sayable(wording, now + d, (now + d + Offset[zone]) \div Day, Here(zone) \div Day)
          /\ PrintLine(Weekly(wording, zone, now + d))
    BY <1>2 DEF PrintWeekly
  <2>2. PICK d \in Ahead["Weekly"] :
          /\ Sayable(wording, now + d, (now + d + Offset[zone]) \div Day, Here(zone) \div Day)
          /\ PrintLine(Weekly(wording, zone, now + d))
    BY <2>1
  <2>3. d \in Nat /\ d <= 7 * Day
    BY AheadIsNat DEF InTime
  <2>4. AsPrinted(Weekly(wording, zone, now + d))
    BY <1>0, <2>2, <2>3, PrintedWeekly
  <2> QED
    BY <1>0, <2>2, <2>4, PrintAdds DEF RInv
<1>3. CASE PrintCodex
  <2>1. PICK d \in Ahead["Codex"] : PrintLine(Codex(now + d))
    BY <1>3 DEF PrintCodex
  <2>2. AsPrinted(Codex(now + d))
    BY <1>0, AheadIsNat, LocalIsZone, PrintedCodex DEF InCalendar
  <2> QED
    BY <1>0, <2>1, <2>2, PrintAdds DEF RInv
<1>4. CASE PrintQuota
  <2>1. PICK d \in Ahead["Duration"] : PrintLine(Quota(now + d))
    BY <1>4 DEF PrintQuota
  <2>2. AsPrinted(Quota(now + d))
    BY <1>0, PrintedQuota
  <2> QED
    BY <1>0, <2>1, <2>2, PrintAdds DEF RInv
<1>5. CASE PrintCut
  <2>1. PICK kind \in {"Clock", "Weekly", "Codex", "Duration"} : PrintLine(Banner(kind, now + Hour))
    BY <1>5 DEF PrintCut
  <2> QED
    BY <1>0, <2>1, PrintedCut, PrintAdds DEF RInv
<1>6. CASE PrintReport
  <2>1. PICK joined \in BOOLEAN : PrintLine([Report EXCEPT !.joined = joined])
    BY <1>6 DEF PrintReport
  <2> QED
    BY <1>0, <2>1, PrintedReport, PrintAdds DEF RInv
<1>7. CASE Pass
  <2>1. screen' = screen /\ result' = None
    BY <1>7 DEF Pass
  <2>2. now \in Int /\ now' \in Int /\ now <= now'
    BY <1>0, <1>7, ReadingConstants DEF Pass, Clock
  <2>3. \A l : AsPrinted(l) => AsPrinted(l)'
    BY <2>2, StaysPrinted
  <2>4. AllPrinted'
    BY <2>1, <2>3 DEF RInv, AllPrinted
  <2> QED
    BY <1>0, <2>1, <2>4 DEF RInv, Answered
<1>8. ASSUME now' = now, screen' = screen
      PROVE  AllPrinted'
  <2>1. now \in Int /\ now <= now
    BY <1>0 DEF Clock
  <2>2. \A l : AsPrinted(l) => AsPrinted(l)'
    BY <1>8, <2>1, StaysPrinted
  <2> QED
    BY <1>8, <2>2 DEF RInv, AllPrinted
<1>9. CASE ReadPane
  BY <1>0, <1>8, <1>9, ReadAnswers DEF ReadPane, RInv
<1>10. CASE ReadTyped
  BY <1>0, <1>8, <1>10, TypedAnswers DEF ReadTyped, RInv
<1>11. CASE UNCHANGED vars
  <2>1. now' = now /\ screen' = screen /\ result' = result
    BY <1>11 DEF vars
  <2>2. Live' = Live
    BY <2>1 DEF Live, Banners, Complete
  <2>3. \A r : ToCome(r)' = ToCome(r)
    BY <2>1, FitsKept
  <2>4. \A l, r : Fits(l, r)' = Fits(l, r)
    BY <2>1, FitsKept
  <2>5. Answered'
    BY <2>1, <2>2, <2>3, <2>4 DEF RInv, Answered
  <2> QED
    BY <1>0, <1>8, <2>1, <2>5 DEF RInv
<1> QED
  BY <1>1, <1>2, <1>3, <1>4, <1>5, <1>6, <1>7, <1>9, <1>10, <1>11 DEF Next

-----------------------------------------------------------------------------
(***************************************************************************)
(* The theorems.                                                           *)
(***************************************************************************)
LEMMA LiveSays ==
  ASSUME RInv, result # None, NEW b \in Live
  PROVE  /\ AsBanner(b) /\ result.meant = None
         /\ ToCome(result.r) /\ Fits(b, result.r)
<1>1. PICK i \in Banners : Complete(screen[i]) /\ b = screen[i]
  BY DEF Live
<1>2. i \in DOMAIN screen /\ b.kind # "noise" /\ AsPrinted(b)
  BY <1>1 DEF Banners, RInv, AllPrinted
<1>3. AsBanner(b)
  BY <1>1, <1>2 DEF AsPrinted, Complete
<1>4. screen # <<>>
  BY <1>2
<1> QED
  BY <1>3, <1>4 DEF RInv, Answered

\* Whichever it is, a banner is read no earlier than its reset.
LEMMA NoEarlier ==
  ASSUME Clock, NEW b, AsBanner(b), NEW r, r.kind = "Reset", ToCome(r), Fits(b, r)
  PROVE  r.at >= b.reset
<1> DEFINE zone == in_zone(b.zone)
           x    == b.reset + Offset[zone]
           u    == ToMinute(x)
           here == Here(zone)
           d    == b.reset - b.printed
           at   == r.at
           reset == b.reset
           printed == b.printed
<1>1. now \in Int /\ reset \in Int /\ printed \in Int /\ printed <= reset /\ printed <= now
  BY DEF Clock, AsBanner
<1>2. here = now + Offset[zone] /\ Offset[zone] \in Int /\ here \in Int
  BY HereIsInt, LocalIsZone
<1>3. x \in Int /\ d \in Int /\ d = reset - printed
  BY <1>1, <1>2
<1>x. x = reset + Offset[zone]
  OBVIOUS
<1>4. Padding = 120 /\ Minute = 60
  BY DEF Padding, PADDING_MINUTES, Minute
<1>5. at \in Int /\ at > now + 120
  BY <1>4 DEF ToCome
<1> HIDE DEF reset, printed, at
<1>6. CASE reset <= now + 120
  BY <1>1, <1>5, <1>6 DEF at, reset
<1>7. CASE reset > now + 120 /\ b.kind = "Duration"
  <2>1. d >= 60
    BY <1>1, <1>3, <1>7
  <2>2. at = now + ToMinute(d) + Padding
    BY <1>4, <1>7, <2>1 DEF Fits, FitsSpan, at
  <2>3. ToMinute(d) \in Int /\ d < ToMinute(d) + 60
    <3> HIDE DEF d
    <3> QED
      BY <1>3, MinuteOfDay
  <2> HIDE DEF d
  <2>4. at >= reset
    BY <1>1, <1>3, <1>4, <2>2, <2>3
  <2> QED
    BY <2>4 DEF at, reset
<1>8. CASE reset > now + 120 /\ b.kind # "Duration"
  <2>1. u \in Int /\ x < u + 60
    <3> HIDE DEF x
    <3> QED
      BY <1>3, MinuteOfDay
  <2>2. MinuteSaid(b) = u
    BY DEF MinuteSaid, reset
  <2> HIDE DEF x, u, here
  <2>3. u > here
    BY <1>1, <1>2, <1>x, <1>8, <2>1
  <2>4. r # Unreadable
    BY DEF Unreadable
  <2>5. at >= u - Offset[zone] + Padding
    BY <1>8, <2>2, <2>3, <2>4 DEF Fits, FitsClock, here, at
  <2>6. at >= reset
    BY <1>1, <1>2, <1>x, <1>4, <1>5, <2>1, <2>5
  <2> QED
    BY <2>6 DEF at, reset
<1> QED
  BY <1>1, <1>6, <1>7, <1>8

LEMMA ReadingStarts == Init => RInv
<1> SUFFICES ASSUME Init PROVE RInv
  OBVIOUS
<1>1. IInv
  BY ReadingConstants DEF Init, IInv, Clock, LinesOK, InFuture, Read
<1>2. AllPrinted /\ Answered
  BY DEF Init, AllPrinted, Answered
<1> QED
  BY <1>1, <1>2 DEF RInv

\* A reset read off a pane, in whichever wording, zone and place, is never
\* before the one the lowest banner is about (detect_reset and all it calls):
\* for any clocks, lines above it and time gone by.  The banner's reset is
\* within the day or the week its kind promises, and its day is said.
THEOREM NotBeforeTheReset ==
  ASSUME InTime, DayIsSaid
  PROVE  Spec /\ []InCalendar => []NeverEarly
<1>1. RInv /\ InCalendar /\ [Next]_vars => RInv'
  BY StepKeepsReading
<1>2. RInv => NeverEarly
  <2> SUFFICES ASSUME RInv, Read("Reset"), NEW b \in Live
               PROVE  result.r.at >= b.reset
    BY DEF NeverEarly
  <2>1. result # None /\ result.r.kind = "Reset"
    BY DEF Read
  <2>2. AsBanner(b) /\ ToCome(result.r) /\ Fits(b, result.r)
    BY <2>1, LiveSays
  <2> QED
    BY <2>1, <2>2, NoEarlier DEF RInv, IInv
<1> QED
  BY <1>1, <1>2, ReadingStarts, PTL DEF Spec

-----------------------------------------------------------------------------
\* Every zone is whole minutes from any other.
WholeMinutes == \A zone \in Zones : Offset[zone] % Minute = 0

\* A span is a minute at the least.
SpanIsSaid == \A d \in Ahead["Duration"] : d >= Minute

LEMMA SameMinute ==
  ASSUME NEW t \in Int, NEW o \in Int, o % Minute = 0
  PROVE  ToMinute(t + o) = ToMinute(t) + o
<1>1. PICK q \in Int : o = q * 60
  <2> DEFINE k == o \div 60
  <2>1. k \in Int /\ o = k * 60 + (o % 60)
    BY SMT
  <2> HIDE DEF k
  <2>2. o = k * 60
    BY <2>1, SMT DEF Minute
  <2> QED
    BY <2>1, <2>2
<1>2. (t + q * 60) % 60 = t % 60
  <2> DEFINE k == t \div 60
             r == t % 60
  <2>1. k \in Int /\ r \in 0 .. 59 /\ t = k * 60 + r
    BY SMT
  <2> HIDE DEF k, r
  <2>2. t + q * 60 = (k + q) * 60 + r /\ k + q \in Int
    BY <2>1
  <2> DEFINE p == k + q
  <2> HIDE DEF p
  <2>3. (p * 60 + r) % 60 = r
    BY <2>1, <2>2 DEF p
  <2> QED
    BY <2>1, <2>2, <2>3 DEF p, r
<1> QED
  BY <1>1, <1>2 DEF ToMinute, Minute

\* The minute a banner says is that of its reset.
LEMMA MinuteIsSaid ==
  ASSUME Clock, WholeMinutes, NEW b, AsBanner(b)
  PROVE  LET zone == in_zone(b.zone)
         IN /\ MinuteSaid(b) = ToMinute(b.reset) + Offset[zone]
            /\ MinuteSaid(b) > Here(zone) <=> ToMinute(b.reset) > now
            /\ MinuteSaid(b) <= Here(zone) <=> ToMinute(b.reset) <= now
            /\ MinuteSaid(b) > Here(zone) + 31 * Day
                 <=> ToMinute(b.reset) - now > MONTH_DAY_HORIZON_DAYS * Day
            /\ MinuteSaid(b) - Offset[zone] + Padding = ToMinute(b.reset) + Padding
<1> DEFINE zone == in_zone(b.zone)
           v == ToMinute(b.reset)
           o == Offset[zone]
<1>1. now \in Int /\ b.reset \in Int
  BY DEF Clock, AsBanner
<1>2. Here(zone) = now + o /\ o \in Int
  BY HereIsInt, LocalIsZone
<1>3. v \in Int
  BY <1>1, MinuteOfDay
<1>4. MinuteSaid(b) = v + o
  <2>1. o % Minute = 0
    BY LocalIsZone DEF WholeMinutes
  <2> QED
    BY <1>1, <1>2, <2>1, SameMinute DEF MinuteSaid
<1> HIDE DEF v, o, zone
<1>5. /\ v + o > now + o <=> v > now
      /\ v + o <= now + o <=> v <= now
      /\ v + o > now + o + 31 * Day <=> v - now > MONTH_DAY_HORIZON_DAYS * Day
      /\ ((v + o) - o) + Padding = v + Padding
  BY <1>1, <1>2, <1>3, SMT DEF Day, MONTH_DAY_HORIZON_DAYS, Padding, PADDING_MINUTES, Minute
<1> QED
  BY <1>2, <1>4, <1>5 DEF v, o, zone

LEMMA SpanPunctual ==
  ASSUME Clock, SpanIsSaid, NEW b, AsBanner(b), b.kind = "Duration", NEW r, Fits(b, r)
  PROVE  ~Refusable(b) /\ r.kind = "Reset" /\ r.at <= b.reset + Padding + (now - b.printed)
<1> DEFINE d == b.reset - b.printed
           reset == b.reset
           printed == b.printed
<1>1. now \in Int /\ reset \in Int /\ printed \in Int
  BY DEF Clock, AsBanner
<1>2. b.wording = "none" /\ d \in Ahead["Duration"]
  BY DEF AsBanner, AsSession, AsWeekly, AsCodex, AsQuota
<1>3. d \in Nat /\ d >= Minute /\ d = reset - printed
  BY <1>2, AheadIsNat DEF SpanIsSaid
<1>4. r.kind = "Reset" /\ r.at = now + ToMinute(d) + Padding
  BY <1>3 DEF Fits, FitsSpan
<1>5. ~Refusable(b)
  BY <1>2 DEF Refusable
<1> HIDE DEF d, reset, printed
<1>6. ToMinute(d) \in Int /\ ToMinute(d) <= d
  BY <1>3, MinuteOfDay
<1>7. now + ToMinute(d) + Padding <= reset + Padding + (now - printed)
  BY <1>1, <1>3, <1>6, SMT DEF Padding, PADDING_MINUTES, Minute
<1> QED
  BY <1>4, <1>5, <1>7 DEF reset, printed

LEMMA ClockPunctual ==
  ASSUME Clock, WholeMinutes, NEW b, AsBanner(b), b.kind # "Duration", ToMinute(b.reset) > now,
         NEW r, Fits(b, r)
  PROVE  IF Refusable(b) THEN r.kind = "Unreadable"
         ELSE r.kind = "Reset" /\ (Dated(b) => r.at = ToMinute(b.reset) + Padding)
<1> DEFINE zone == in_zone(b.zone)
           u == MinuteSaid(b)
           here == Here(zone)
<1>1. /\ u > here
      /\ u > here + 31 * Day <=> ToMinute(b.reset) - now > MONTH_DAY_HORIZON_DAYS * Day
      /\ u - Offset[zone] + Padding = ToMinute(b.reset) + Padding
  BY MinuteIsSaid
<1>2. IF b.wording = "two-digit-year" \/ u > here + 31 * Day THEN r = Unreadable
      ELSE /\ r.kind = "Reset" /\ r.at >= u - Offset[zone] + Padding
           /\ Dated(b) => r.at = u - Offset[zone] + Padding
  BY <1>1 DEF Fits, FitsClock
<1>3. Refusable(b) <=> b.wording = "two-digit-year" \/ u > here + 31 * Day
  BY <1>1 DEF Refusable
<1> HIDE DEF u, here
<1>4. CASE Refusable(b)
  BY <1>2, <1>3, <1>4 DEF Unreadable
<1>5. CASE ~Refusable(b)
  BY <1>1, <1>2, <1>3, <1>5
<1> QED
  BY <1>4, <1>5

\* A banner read while its minute is ahead is read as that minute, padded, in
\* every wording the README lists and whatever the date, or refused when the
\* code says it is; a typed time is the coming one so called (at_clock,
\* weekday_at, month_day_at, numeric_at, parse_relative, parse_timespec).
THEOREM ReadOnTime ==
  ASSUME InTime, DayIsSaid, WholeMinutes, SpanIsSaid
  PROVE  Spec /\ []InCalendar => []Punctual
<1>1. RInv /\ InCalendar /\ [Next]_vars => RInv'
  BY StepKeepsReading
<1>2. RInv => Punctual
  <2> SUFFICES ASSUME RInv, result # None
               PROVE  /\ result.meant # None => result.r.at = result.meant
                      /\ \A b \in {l \in Live : ToMinute(l.reset) > now} :
                           IF Refusable(b) THEN Read("Unreadable")
                           ELSE /\ Read("Reset")
                                /\ IF b.kind = "Duration"
                                   THEN result.r.at <= b.reset + Padding + (now - b.printed)
                                   ELSE Dated(b) => result.r.at = ToMinute(b.reset) + Padding
    BY DEF Punctual
  <2>1. result.meant # None => result.r.at = result.meant
    BY DEF RInv, Answered
  <2>2. ASSUME NEW b \in Live, ToMinute(b.reset) > now
        PROVE  IF Refusable(b) THEN Read("Unreadable")
               ELSE /\ Read("Reset")
                    /\ IF b.kind = "Duration"
                       THEN result.r.at <= b.reset + Padding + (now - b.printed)
                       ELSE Dated(b) => result.r.at = ToMinute(b.reset) + Padding
    <3>1. AsBanner(b) /\ Fits(b, result.r) /\ Clock
      BY LiveSays DEF RInv, IInv
    <3>2. Read("Reset") = (result.r.kind = "Reset") /\ Read("Unreadable") = (result.r.kind = "Unreadable")
      BY DEF Read
    <3>3. CASE b.kind = "Duration"
      BY <3>1, <3>2, <3>3, SpanPunctual
    <3>4. CASE b.kind # "Duration"
      <4>1. IF Refusable(b) THEN result.r.kind = "Unreadable"
            ELSE result.r.kind = "Reset" /\ (Dated(b) => result.r.at = ToMinute(b.reset) + Padding)
        BY <2>2, <3>1, <3>4, ClockPunctual
      <4> QED
        BY <3>2, <3>4, <4>1
    <3> QED
      BY <3>3, <3>4
  <2> QED
    BY <2>1, <2>2
<1> QED
  BY <1>1, <1>2, ReadingStarts, PTL DEF Spec

\* A Codex banner is said to have elapsed exactly when the minute it was printed
\* for has come, except that a bare one on a later day may be read as that day's
\* (codex_bare, codex_dated, day_clock_has_passed).
THEOREM ElapsedWhenItHas ==
  ASSUME InTime, DayIsSaid, WholeMinutes
  PROVE  Spec /\ []InCalendar => []ElapsedExactly
<1>1. RInv /\ InCalendar /\ [Next]_vars => RInv'
  BY StepKeepsReading
<1>2. RInv => ElapsedExactly
  <2> SUFFICES ASSUME RInv, result # None, NEW b \in Live, b.kind = "Codex"
               PROVE  LET day(t) == (t + Offset[Local]) \div Day
                          past   == ToMinute(b.reset) <= now
                      IN IF b.gap = <<>> /\ day(now) # day(b.reset) THEN Read("Elapsed") => past
                         ELSE Read("Elapsed") <=> past
    BY DEF ElapsedExactly
  <2> DEFINE r == result.r
             u == MinuteSaid(b)
             here == Here(Local)
             past == ToMinute(b.reset) <= now
  <2>1. AsBanner(b) /\ Fits(b, r) /\ Clock
    BY LiveSays DEF RInv, IInv
  <2>2. in_zone(b.zone) = Local
    <3>1. b.zone = None
      BY <2>1 DEF AsBanner, AsSession, AsWeekly, AsCodex, AsQuota
    <3> QED
      BY <3>1, NoneIsNothingPrinted DEF in_zone
  <2>3. (u <= here <=> past) /\ (u > here <=> ToMinute(b.reset) > now)
    BY <2>1, <2>2, MinuteIsSaid
  <2>4. past \/ ToMinute(b.reset) > now
    <3> DEFINE v == ToMinute(b.reset)
    <3>1. v \in Int /\ now \in Int
      BY <2>1, MinuteOfDay DEF AsBanner, Clock
    <3> HIDE DEF v
    <3>2. v <= now \/ v > now
      BY <3>1
    <3> QED
      BY <3>2 DEF v
  <2>5. Read("Elapsed") = (r.kind = "Elapsed")
    BY DEF Read
  <2>6. u <= here /\ (b.gap # <<>> \/ SameDay(now, b.reset)) => r = Elapsed
    BY <2>1 DEF Fits, FitsCodex
  <2>7. u > here => r = Unreadable \/ r.kind = "Reset"
    BY <2>1, <2>2 DEF Fits, FitsClock
  <2> HIDE DEF u, here, past, r
  <2>8. ~past => r.kind # "Elapsed"
    BY <2>3, <2>4, <2>7 DEF Unreadable
  <2>9. past /\ (b.gap # <<>> \/ SameDay(now, b.reset)) => r.kind = "Elapsed"
    BY <2>3, <2>6 DEF Elapsed
  <2> QED
    BY <2>5, <2>8, <2>9 DEF SameDay, past
<1> QED
  BY <1>1, <1>2, ReadingStarts, PTL DEF Spec
=============================================================================
