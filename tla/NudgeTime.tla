------------------------------- MODULE NudgeTime -------------------------------
(***************************************************************************)
(* How nudge reads a time (timespec.rs): a clock, a span or a named hour   *)
(* the user typed, and the day a banner puts beside a clock.               *)
(*                                                                         *)
(* A moment is a number of seconds since the start of 2000 on the clock of *)
(* one zone, so that a day is `moment \div Day`.  What the code returns as *)
(* an Option is the set of the values there are: none, or one.  The words  *)
(* of a banner come taken apart: each says which field of a date it fills  *)
(* and with what.  Daylight saving is left out: a zone's clock never jumps. *)
(***************************************************************************)
EXTENDS Integers, Sequences, FiniteSets

CONSTANT None   \* Option::None

ASSUME NoneIsNoNumber == None \notin Int

Minute == 60
Hour   == 3600
Day    == 86400

-----------------------------------------------------------------------------
(***************************************************************************)
(* The calendar (jiff::civil).  Days are counted from 1 January 2000, a    *)
(* Saturday; weekdays from Monday, 0.                                      *)
(***************************************************************************)
Leap(y) == y % 4 = 0 /\ (y % 100 # 0 \/ y % 400 = 0)

YearStart(y) ==
  365 * (y - 2000) + ((y - 1) \div 4) - ((y - 1) \div 100) + ((y - 1) \div 400) - 484

MonthStart(y, m) ==
  <<0, 31, 59, 90, 120, 151, 181, 212, 243, 273, 304, 334>>[m]
    + (IF m > 2 /\ Leap(y) THEN 1 ELSE 0)

MonthLength(y, m) ==
  IF m = 2 THEN (IF Leap(y) THEN 29 ELSE 28) ELSE IF m \in {4, 6, 9, 11} THEN 30 ELSE 31

IsDate(y, m, d) == y \in -9999 .. 9999 /\ m \in 1 .. 12 /\ d \in 1 .. MonthLength(y, m)

DayOf(y, m, d) == YearStart(y) + MonthStart(y, m) + d - 1

YearsOf(n) == {y \in 2000 + (n \div 366) .. 2001 + (n \div 365) :
                 YearStart(y) <= n /\ n < YearStart(y + 1)}

YearOf(n) == CHOOSE y \in YearsOf(n) : TRUE

MonthOf(n) == LET y == YearOf(n)
              IN CHOOSE m \in 1 .. 12 :
                   n - DayOf(y, m, 1) \in 0 .. MonthLength(y, m) - 1

DayOfMonth(n) == n - DayOf(YearOf(n), MonthOf(n), 1) + 1

Weekday(n) == (n + 5) % 7

-----------------------------------------------------------------------------
(***************************************************************************)
(* A time on its own.                                                      *)
(***************************************************************************)
\* The second of the day a clock token names: hour h, minute m if it has one,
\* and AM, PM or neither.
clock_hm(token) ==
  LET h == CASE token.mer = "PM" /\ token.h < 12 -> token.h + 12
             [] token.mer = "AM" /\ token.h = 12 -> 0
             [] OTHER -> token.h
      m == IF token.m = None THEN 0 ELSE token.m
      readable == IF token.mer = "none" THEN token.m # None ELSE token.h \in 1 .. 12
  IN IF readable /\ h \in 0 .. 23 /\ m \in 0 .. 59 THEN {h * Hour + m * Minute} ELSE {}

\* A plausible slip: an hour that is now is taken for one to come.
BugAtClock(now, s) ==
  LET today == (now \div Day) * Day + s
  IN IF today < now THEN today + Day ELSE today

\* Second s of the day `now` is in, or of the next if it is past.
at_clock(now, s) ==
  LET today == (now \div Day) * Day + s
  IN IF today <= now THEN today + Day ELSE today

\* A span of no length is none.
parse_relative(now, token) ==
  IF token.h = 0 /\ token.m = 0 THEN {} ELSE {now + token.h * Hour + token.m * Minute}

parse_clock(now, token) == {at_clock(now, s) : s \in clock_hm(token)}

parse_named(now, name) ==
  CASE name = "noon" -> {at_clock(now, 12 * Hour)}
    [] name = "midnight" -> {at_clock(now, 0)}
    [] OTHER -> {}

\* What --time and the dashboard's When field take.
parse_timespec(now, spec) ==
  CASE spec.kind = "span"  -> parse_relative(now, spec.is)
    [] spec.kind = "named" -> parse_named(now, spec.is)
    [] spec.kind = "clock" -> parse_clock(now, spec.is)

-----------------------------------------------------------------------------
(***************************************************************************)
(* The day a banner's words name.                                          *)
(***************************************************************************)
Today    == [day |-> "Today"]
Tomorrow == [day |-> "Tomorrow"]
Unnamed  == [day |-> "Unnamed"]      \* connectives alone

OnWeekday(w)        == [day |-> "Weekday", is |-> w]
MonthDay(m, d, y)   == [day |-> "MonthDay", month |-> m, dom |-> d, year |-> y]
Numeric(a, b, y)    == [day |-> "Numeric", first |-> a, second |-> b, year |-> y]

\* A year stated beside a date that is one word: only the two-field form has
\* room for it.
with_year(date, years) ==
  IF years = {} THEN {date}
  ELSE IF date.day = "Numeric" /\ date.year = None
       THEN {[date EXCEPT !.year = y] : y \in years}
       ELSE {}

\* A field stated twice is no date, and part of a date is none.  A word that
\* is neither a field nor a connective is refused or ignored.
scan_day_words(words, refuse) ==
  LET at(f) == {k \in DOMAIN words : words[k].field = f}
      of(f) == {words[k].is : k \in at(f)}
      Says(fields) == \A f \in {"date", "month", "day"} : f \in fields <=> of(f) # {}
      years == of("year")
  IN IF \/ \E f \in {"date", "month", "year", "day", "named"} : Cardinality(at(f)) > 1
        \/ refuse /\ at("other") # {}
     THEN {}
     ELSE CASE Says({"date"}) -> UNION {with_year(d, years) : d \in of("date")}
            [] Says({"month", "day"}) ->
                 {MonthDay(m, d, IF years = {} THEN None ELSE CHOOSE y \in years : TRUE) :
                    m \in of("month"), d \in of("day")}
            [] Says({}) /\ years = {} -> IF of("named") = {} THEN {Unnamed} ELSE of("named")
            [] OTHER -> {}

parse_day_words(words) == scan_day_words(words, TRUE)

\* After the time, where a day may stand or prose may: no day is no matter.
find_day_words(words) == scan_day_words(words, FALSE) \ {Unnamed}

-----------------------------------------------------------------------------
(***************************************************************************)
(* The field order of an all-numeric date, as the locale has it.  `env` is  *)
(* the regions LC_ALL, LC_TIME and LANG name, None for one that is unset or *)
(* names no region.                                                        *)
(***************************************************************************)
order_for_locale(region) == IF region = "US" THEN "MonthFirst" ELSE "DayFirst"

locale_date_order(env) ==
  LET said == {i \in DOMAIN env : env[i] # None}
  IN IF said = {} THEN "Unknown"
     ELSE order_for_locale(env[CHOOSE i \in said : \A k \in said : i <= k])

-----------------------------------------------------------------------------
(***************************************************************************)
(* The moment of a day and a second s of it, seen from `now`.              *)
(***************************************************************************)
MONTH_DAY_HORIZON_DAYS == 31

\* A plausible slip: the window of a month instead of a week.
BugWindow == MONTH_DAY_HORIZON_DAYS

WEEKLY_WINDOW_DAYS == 8

\* The first date so named that is still ahead, this year's or the next's
\* unless the year is stated; none if it is past the horizon.
month_day_at(now, month, dom, year, s) ==
  LET this  == YearsOf(now \div Day)
      years == IF year = None THEN this \cup {y + 1 : y \in this} ELSE {year}
      dates == {DayOf(y, month, dom) : y \in {x \in years : IsDate(x, month, dom)}}
      ahead == {z \in {n * Day + s : n \in dates} : z > now}
  IN {z \in ahead : z <= now + MONTH_DAY_HORIZON_DAYS * Day /\ \A o \in ahead : z <= o}

\* Between two readings of a numeric date, the one within the week; failing
\* that, the locale's.
pick_reading(m, d, window, order) ==
  IF m = d THEN {m}
  ELSE IF m <= window /\ d > window THEN {m}
  ELSE IF d <= window /\ m > window THEN {d}
  ELSE CASE order = "MonthFirst" -> {m}
         [] order = "DayFirst" -> {d}
         [] OTHER -> {}

numeric_at(now, a, b, year, s, order) ==
  LET month_first == month_day_at(now, a, b, year, s)
      day_first   == month_day_at(now, b, a, year, s)
      window      == now + WEEKLY_WINDOW_DAYS * Day
  IN IF month_first = {} \/ day_first = {} THEN month_first \cup day_first
     ELSE UNION {pick_reading(m, d, window, order) : m \in month_first, d \in day_first}

\* The coming such weekday; today only while its hour is ahead.
weekday_at(now, w, s) ==
  LET today == now \div Day
      days  == (w - Weekday(today)) % 7
      at    == (today + days) * Day + s
  IN IF at > now THEN at ELSE at + 7 * Day

resolve_day_clock(now, d, s, order) ==
  LET today == (now \div Day) * Day + s
  IN CASE d.day = "Today"    -> IF today > now THEN {today} ELSE {}
       [] d.day = "Tomorrow" -> {today + Day}
       [] d.day = "Weekday"  -> {weekday_at(now, d.is, s)}
       [] d.day = "MonthDay" -> month_day_at(now, d.month, d.dom, d.year, s)
       [] d.day = "Numeric"  -> numeric_at(now, d.first, d.second, d.year, s, order)

\* Only a date with its year can say that it is past.
day_clock_has_passed(now, d, s) ==
  /\ d.day = "MonthDay"
  /\ d.year # None
  /\ IsDate(d.year, d.month, d.dom)
  /\ DayOf(d.year, d.month, d.dom) * Day + s <= now
=============================================================================
