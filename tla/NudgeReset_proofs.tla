---------------------------- MODULE NudgeReset_proofs ----------------------------
(***************************************************************************)
(* Proofs about NudgeReset, for every zone, clock, locale, pattern, date   *)
(* and bound: what is read is still to come, and a numeric date is never   *)
(* left to the locale.                                                     *)
(*                                                                         *)
(* The second is about the calendar: the two readings of a date, day b of  *)
(* month a and day a of month b, are 27 days apart at the least, so that   *)
(* of two within the horizon of 31 days exactly one is within a week.      *)
(***************************************************************************)
EXTENDS NudgeReset, TLAPS

-----------------------------------------------------------------------------
(***************************************************************************)
(* The calendar.                                                           *)
(***************************************************************************)
\* The leap days before year y are no fewer than those before an earlier one.
LEMMA YearsGrow ==
  ASSUME NEW y \in Int, NEW x \in Int, x <= y
  PROVE  YearStart(y) - YearStart(x) >= 365 * (y - x)
<1> DEFINE leaps(z) == (z \div 4) - (z \div 100) + (z \div 400)
<1>1. leaps(x - 1) <= leaps(y - 1)
  OBVIOUS
<1> QED
  BY <1>1 DEF YearStart

\* Day b of month a, against day a of month b, in one year: the later month's
\* is the later by 27 days at the least, and by less than a year at the most.
LEMMA ReadingsInAYear ==
  ASSUME NEW a \in 1 .. 12, NEW b \in 1 .. 12, a < b, NEW y \in Int
  PROVE  LET gap == (MonthStart(y, b) + a) - (MonthStart(y, a) + b) IN gap >= 27 /\ gap <= 324
BY DEF MonthStart

LEMMA MonthsBegin ==
  ASSUME NEW a \in 1 .. 12, NEW y \in Int
  PROVE  MonthStart(y, a) \in Int
BY DEF MonthStart

\* The same, whichever years the two are in.
LEMMA ReadingsApart ==
  ASSUME NEW a \in 1 .. 12, NEW b \in 1 .. 12, a < b, NEW x \in Int, NEW y \in Int
  PROVE  LET gap == DayOf(x, a, b) - DayOf(y, b, a) IN gap \in Int /\ (gap <= -27 \/ gap >= 27)
<1>1. YearStart(x) \in Int /\ YearStart(y) \in Int
  BY DEF YearStart
<1>2. /\ MonthStart(x, a) \in Int /\ MonthStart(x, b) \in Int
      /\ MonthStart(y, a) \in Int /\ MonthStart(y, b) \in Int
  BY MonthsBegin
<1>3. CASE x = y
  <2>1. (MonthStart(y, b) + a) - (MonthStart(y, a) + b) >= 27
    BY <1>2, ReadingsInAYear
  <2> QED
    BY <1>1, <1>2, <1>3, <2>1 DEF DayOf
<1>4. CASE x < y
  <2>1. YearStart(y) - YearStart(x) >= 365 * (y - x)
    BY <1>4, YearsGrow
  <2>2. YearStart(y) - YearStart(x) >= 365
    BY <1>1, <1>4, <2>1
  <2>3. (MonthStart(x, b) + a) - (MonthStart(x, a) + b) >= 27
    BY <1>2, ReadingsInAYear
  <2>4. MonthStart(y, b) >= MonthStart(x, b) - 1
    BY DEF MonthStart
  <2> QED
    BY <1>1, <1>2, <2>2, <2>3, <2>4 DEF DayOf
<1>5. CASE y < x
  <2>1. YearStart(x) - YearStart(y) >= 365 * (x - y)
    BY <1>5, YearsGrow
  <2>2. YearStart(x) - YearStart(y) >= 365
    BY <1>1, <1>5, <2>1
  <2>3. (MonthStart(x, b) + a) - (MonthStart(x, a) + b) <= 324
    BY <1>2, ReadingsInAYear
  <2>4. MonthStart(y, b) <= MonthStart(x, b) + 1
    BY DEF MonthStart
  <2> QED
    BY <1>1, <1>2, <2>2, <2>3, <2>4 DEF DayOf
<1> QED
  BY <1>3, <1>4, <1>5

\* One day of two years.
LEMMA SameDayApart ==
  ASSUME NEW a \in 1 .. 12, NEW x \in Int, NEW y \in Int, x < y
  PROVE  DayOf(y, a, a) - DayOf(x, a, a) >= 27
<1>1. YearStart(x) \in Int /\ YearStart(y) \in Int
  BY DEF YearStart
<1>2. MonthStart(x, a) \in Int /\ MonthStart(y, a) \in Int
  BY MonthsBegin
<1>3. YearStart(y) - YearStart(x) >= 365 * (y - x)
  BY YearsGrow
<1>4. YearStart(y) - YearStart(x) >= 365
  BY <1>1, <1>3
<1>5. MonthStart(y, a) >= MonthStart(x, a) - 1
  BY DEF MonthStart
<1> QED
  BY <1>1, <1>2, <1>4, <1>5 DEF DayOf

\* A reading is ahead, within the horizon, and on a day so named.
LEMMA ReadingIsAhead ==
  ASSUME NEW here \in Int, NEW m \in 1 .. 12, NEW d \in 1 .. 12, NEW s \in Int,
         NEW z \in month_day_at(here, m, d, None, s)
  PROVE  /\ z \in Int /\ here < z /\ z <= here + 31 * Day
         /\ \E y \in Int : z = DayOf(y, m, d) * Day + s
<1> DEFINE this  == YearsOf(here \div Day)
           years == this \cup {y + 1 : y \in this}
<1>1. years \subseteq Int
  BY DEF YearsOf, Day
<1>2. PICK y \in years : z = DayOf(y, m, d) * Day + s
  BY DEF month_day_at
<1>3. DayOf(y, m, d) \in Int
  <2>1. YearStart(y) \in Int
    BY <1>1 DEF YearStart
  <2>2. MonthStart(y, m) \in Int
    BY <1>1, MonthsBegin
  <2> QED
    BY <2>1, <2>2 DEF DayOf
<1>4. here < z /\ z <= here + 31 * Day
  BY DEF month_day_at, MONTH_DAY_HORIZON_DAYS
<1> QED
  BY <1>1, <1>2, <1>3, <1>4 DEF Day

\* Two readings that are not one are told apart by the week.
LEMMA WeekDecides ==
  ASSUME NEW here \in Int, NEW a \in 1 .. 12, NEW b \in 1 .. 12, NEW s \in Int,
         NEW m \in month_day_at(here, a, b, None, s), NEW d \in month_day_at(here, b, a, None, s),
         m # d
  PROVE  LET window == here + WEEKLY_WINDOW_DAYS * Day
         IN (m <= window /\ d > window) \/ (d <= window /\ m > window)
<1>1. /\ m \in Int /\ here < m /\ m <= here + 31 * Day
      /\ d \in Int /\ here < d /\ d <= here + 31 * Day
  BY ReadingIsAhead
<1>2. PICK x \in Int : m = DayOf(x, a, b) * Day + s
  BY ReadingIsAhead
<1>3. PICK y \in Int : d = DayOf(y, b, a) * Day + s
  BY ReadingIsAhead
<1>4. DayOf(x, a, b) \in Int /\ DayOf(y, b, a) \in Int
  <2>1. YearStart(x) \in Int /\ YearStart(y) \in Int
    BY DEF YearStart
  <2>2. MonthStart(x, a) \in Int /\ MonthStart(y, b) \in Int
    BY MonthsBegin
  <2> QED
    BY <2>1, <2>2 DEF DayOf
<1>5. DayOf(x, a, b) - DayOf(y, b, a) >= 27 \/ DayOf(x, a, b) - DayOf(y, b, a) <= -27
  <2>1. CASE a < b
    BY <1>4, <2>1, ReadingsApart
  <2>2. CASE b < a
    <3>1. DayOf(y, b, a) - DayOf(x, a, b) <= -27 \/ DayOf(y, b, a) - DayOf(x, a, b) >= 27
      BY <2>2, ReadingsApart
    <3> QED
      BY <1>4, <3>1
  <2>3. CASE a = b
    <3>1. x # y
      BY <1>2, <1>3, <2>3
    <3>2. CASE x < y
      BY <1>4, <2>3, <3>2, SameDayApart
    <3>3. CASE y < x
      BY <1>4, <2>3, <3>3, SameDayApart
    <3> QED
      BY <3>1, <3>2, <3>3
  <2> QED
    BY <2>1, <2>2, <2>3
<1>6. m - d >= 27 * Day \/ d - m >= 27 * Day
  BY <1>2, <1>3, <1>4, <1>5 DEF Day
<1> QED
  BY <1>1, <1>6 DEF Day, WEEKLY_WINDOW_DAYS

\* The clock moves, and stays a number.
Clock == now \in Int

LEMMA NumbersAreDecided ==
  ASSUME Clock
  PROVE  LocaleNeverDecides
<1> SUFFICES ASSUME NEW zone \in Zones, NEW a \in 1 .. 12, NEW b \in 1 .. 12,
                    NEW s \in {0, 8 * Hour, Day - Minute}
             PROVE  numeric_at(Here(zone), a, b, None, s, "Unknown")
                      = numeric_at(Here(zone), a, b, None, s, "MonthFirst")
  BY DEF LocaleNeverDecides
<1>1. Here(zone) \in Int /\ s \in Int
  BY ReadingConstants DEF Here, Clock, Hour, Minute, Day
<1>2. ASSUME NEW m \in month_day_at(Here(zone), a, b, None, s),
             NEW d \in month_day_at(Here(zone), b, a, None, s)
      PROVE  LET window == Here(zone) + WEEKLY_WINDOW_DAYS * Day
             IN pick_reading(m, d, window, "Unknown") = pick_reading(m, d, window, "MonthFirst")
  BY <1>1, WeekDecides DEF pick_reading
<1> QED
  BY <1>2 DEF numeric_at

\* The clock is a number, in every step.
LEMMA ClockKept ==
  ASSUME Clock, [Next]_vars
  PROVE  Clock'
<1>1. CASE Pass
  BY <1>1, ReadingConstants DEF Pass, Clock
<1>2. CASE UNCHANGED vars
  BY <1>2 DEF Clock, vars
<1>3. CASE \E line : PrintLine(line)
  BY <1>3 DEF PrintLine, Clock
<1>4. CASE ReadPane \/ ReadTyped
  BY <1>4 DEF ReadPane, ReadTyped, Clock
<1> QED
  BY <1>1, <1>2, <1>3, <1>4 DEF Next, PrintSession, PrintWeekly, PrintCodex, PrintQuota,
                                PrintCut, PrintReport

\* The locale never decides how an all-numeric date is read (pick_reading,
\* numeric_at), whatever the time, the zone and the date.
THEOREM LocaleSettlesNothing == Spec => []LocaleNeverDecides
<1>1. Init => Clock
  BY ReadingConstants DEF Init, Clock
<1>2. Clock /\ [Next]_vars => Clock'
  BY ClockKept
<1>3. Clock => LocaleNeverDecides
  BY NumbersAreDecided
<1> QED
  BY <1>1, <1>2, <1>3, PTL DEF Spec

-----------------------------------------------------------------------------
(***************************************************************************)
(* What timespec.rs returns is ahead of the clock it was asked with.       *)
(***************************************************************************)
LEMMA SecondsOfDay ==
  ASSUME NEW token, NEW s \in clock_hm(token)
  PROVE  s \in Int /\ 0 <= s
<1>1. PICK h \in 0 .. 23, m \in 0 .. 59 : s = h * Hour + m * Minute
  BY DEF clock_hm
<1> QED
  BY <1>1 DEF Hour, Minute

LEMMA DayIsLong ==
  ASSUME NEW here \in Int, NEW s \in Int, 0 <= s
  PROVE  LET today == (here \div Day) * Day + s IN today \in Int /\ today + Day > here
BY DEF Day

LEMMA AtClockAhead ==
  ASSUME NEW here \in Int, NEW s \in Int, 0 <= s
  PROVE  at_clock(here, s) \in Int /\ at_clock(here, s) > here
BY DayIsLong DEF at_clock, Day

LEMMA ParseClockAhead ==
  ASSUME NEW here \in Int, NEW token, NEW z \in parse_clock(here, token)
  PROVE  z \in Int /\ z > here
BY AtClockAhead, SecondsOfDay DEF parse_clock

Span(token) == token.h \in Int /\ token.m \in Int /\ 0 <= token.h /\ 0 <= token.m

LEMMA SpanAhead ==
  ASSUME NEW here \in Int, NEW token, Span(token), NEW z \in parse_relative(here, token)
  PROVE  z \in Int /\ z > here
BY DEF parse_relative, Span, Hour, Minute

LEMMA WeekdayAhead ==
  ASSUME NEW here \in Int, NEW w \in Int, NEW s \in Int, 0 <= s
  PROVE  weekday_at(here, w, s) \in Int /\ weekday_at(here, w, s) > here
<1> DEFINE today == here \div Day
           days  == (w - Weekday(today)) % 7
           at    == (today + days) * Day + s
<1>1. today \in Int /\ days \in Int /\ 0 <= days
  BY DEF Weekday, Day
<1>2. at \in Int /\ at >= today * Day + s
  BY <1>1 DEF Day
<1>3. today * Day + s + Day > here
  BY DayIsLong
<1> HIDE DEF at
<1>4. at + 7 * Day > here
  BY <1>1, <1>2, <1>3 DEF Day
<1>5. weekday_at(here, w, s) = IF at > here THEN at ELSE at + 7 * Day
  BY DEF weekday_at, at
<1> QED
  BY <1>2, <1>4, <1>5 DEF Day

LEMMA DateAhead ==
  ASSUME NEW here \in Int, NEW m, NEW d, NEW y, NEW s \in Int,
         NEW z \in month_day_at(here, m, d, y, s)
  PROVE  z \in Int /\ z > here
<1>1. PICK x : IsDate(x, m, d) /\ z = DayOf(x, m, d) * Day + s
  BY DEF month_day_at
<1>2. x \in Int /\ m \in 1 .. 12 /\ d \in Int
  <2>1. x \in Int /\ m \in 1 .. 12
    BY <1>1 DEF IsDate
  <2>2. MonthLength(x, m) \in Int
    BY DEF MonthLength
  <2> QED
    BY <1>1, <2>1, <2>2 DEF IsDate
<1>3. YearStart(x) \in Int /\ MonthStart(x, m) \in Int
  <2>1. YearStart(x) \in Int
    BY <1>2 DEF YearStart
  <2> QED
    BY <1>2, <2>1, MonthsBegin
<1>4. DayOf(x, m, d) \in Int
  BY <1>2, <1>3 DEF DayOf
<1> QED
  BY <1>1, <1>4 DEF month_day_at, Day

LEMMA NumberAhead ==
  ASSUME NEW here \in Int, NEW a, NEW b, NEW y, NEW s \in Int, NEW order,
         NEW z \in numeric_at(here, a, b, y, s, order)
  PROVE  z \in Int /\ z > here
<1>1. z \in month_day_at(here, a, b, y, s) \cup month_day_at(here, b, a, y, s)
  BY DEF numeric_at, pick_reading
<1> QED
  BY <1>1, DateAhead

\* The days that words can name.
NamesDay(d) ==
  \/ d = Today \/ d = Tomorrow
  \/ \E w \in Int : d = OnWeekday(w)
  \/ \E m, n, y : d = MonthDay(m, n, y) \/ d = Numeric(m, n, y)

LEMMA ResolvedAhead ==
  ASSUME NEW here \in Int, NEW d, NamesDay(d), NEW s \in Int, 0 <= s, NEW order,
         NEW z \in resolve_day_clock(here, d, s, order)
  PROVE  z \in Int /\ z > here
<1>1. CASE d = Today
  BY <1>1, DayIsLong DEF resolve_day_clock, Today
<1>2. CASE d = Tomorrow
  <2>1. z = (here \div Day) * Day + s + Day
    BY <1>2 DEF resolve_day_clock, Tomorrow
  <2> QED
    BY <2>1, DayIsLong DEF Day
<1>3. ASSUME NEW w \in Int, d = OnWeekday(w)
      PROVE  z \in Int /\ z > here
  BY <1>3, WeekdayAhead DEF resolve_day_clock, OnWeekday
<1>4. ASSUME NEW m, NEW n, NEW y, d = MonthDay(m, n, y)
      PROVE  z \in Int /\ z > here
  BY <1>4, DateAhead DEF resolve_day_clock, MonthDay
<1>5. ASSUME NEW m, NEW n, NEW y, d = Numeric(m, n, y)
      PROVE  z \in Int /\ z > here
  BY <1>5, NumberAhead DEF resolve_day_clock, Numeric
<1> QED
  BY <1>1, <1>2, <1>3, <1>4, <1>5 DEF NamesDay

-----------------------------------------------------------------------------
(***************************************************************************)
(* What the words of a banner name.                                        *)
(***************************************************************************)
WordOK(w) == w.field \in {"date", "named"} => NamesDay(w.is)

WordsOK(words) == \A k \in DOMAIN words : WordOK(words[k])

LEMMA WithYear ==
  ASSUME NEW date, NamesDay(date), NEW years, NEW d \in with_year(date, years)
  PROVE  NamesDay(d)
<1>1. CASE d = date
  BY <1>1
<1>2. CASE d # date
  <2>1. date.day = "Numeric" /\ \E y : d = [date EXCEPT !.year = y]
    BY <1>2 DEF with_year
  <2>2. PICK a, b, x : date = Numeric(a, b, x)
    BY <2>1 DEF NamesDay, Today, Tomorrow, OnWeekday, MonthDay
  <2>3. PICK y : d = [date EXCEPT !.year = y]
    BY <2>1
  <2>4. d = Numeric(a, b, y)
    BY <2>2, <2>3 DEF Numeric
  <2> QED
    BY <2>4 DEF NamesDay
<1> QED
  BY <1>1, <1>2

\* Words name days, or, of connectives alone, none.
LEMMA Scanned ==
  ASSUME NEW words, WordsOK(words), NEW refuse
  PROVE  LET days == scan_day_words(words, refuse)
         IN days = {Unnamed} \/ \A d \in days : NamesDay(d)
<1> DEFINE at(f) == {k \in DOMAIN words : words[k].field = f}
           of(f) == {words[k].is : k \in at(f)}
           years == of("year")
           y     == IF years = {} THEN None ELSE CHOOSE x \in years : TRUE
           doubt == \/ \E f \in {"date", "month", "year", "day", "named"} : Cardinality(at(f)) > 1
                    \/ refuse /\ at("other") # {}
           date  == UNION {with_year(d, years) : d \in of("date")}
           month == {MonthDay(m, d, y) : m \in of("month"), d \in of("day")}
           named == IF of("named") = {} THEN {Unnamed} ELSE of("named")
           Says(fields) == \A f \in {"date", "month", "day"} : f \in fields <=> of(f) # {}
           days  == scan_day_words(words, refuse)
<1>1. \A d \in of("date") \cup of("named") : NamesDay(d)
  BY DEF WordsOK, WordOK
<1>2. days = IF doubt THEN {}
             ELSE CASE Says({"date"}) -> date
                    [] Says({"month", "day"}) -> month
                    [] Says({}) /\ years = {} -> named
                    [] OTHER -> {}
  BY DEF scan_day_words
<1>3. \A d \in date : NamesDay(d)
  <2> SUFFICES ASSUME NEW e \in of("date"), NEW d \in with_year(e, years)
               PROVE  NamesDay(d)
    OBVIOUS
  <2> QED
    BY <1>1, WithYear
<1>4. \A d \in month : NamesDay(d)
  BY DEF NamesDay
<1>5. named = {Unnamed} \/ \A d \in named : NamesDay(d)
  BY <1>1
<1> HIDE DEF Says, doubt, date, month, named, days
<1>6. days = {} \/ days = date \/ days = month \/ days = named
  BY <1>2
<1>7. days = {Unnamed} \/ \A d \in days : NamesDay(d)
  BY <1>3, <1>4, <1>5, <1>6
<1> QED
  BY <1>7 DEF days

LEMMA UnnamedIsNoDay == ~NamesDay(Unnamed)
BY DEF NamesDay, Unnamed, Today, Tomorrow, OnWeekday, MonthDay, Numeric

-----------------------------------------------------------------------------
(***************************************************************************)
(* What detect.rs reads off a pane is ahead.                               *)
(***************************************************************************)
ToCome(r) == r.kind = "Reset" => r.at \in Int /\ r.at > now + Padding

LineOK(l) == (l.span = None \/ Span(l.span)) /\ WordsOK(l.gap) /\ WordsOK(l.trail)

LinesOK(lines) ==
  /\ \E S : lines \in Seq(S)
  /\ \A i \in DOMAIN lines : LineOK(lines[i])

LEMMA LinesFrom ==
  ASSUME NEW lines, LinesOK(lines), NEW i \in DOMAIN lines
  PROVE  DOMAIN lines = 1 .. Len(lines) /\ i .. Len(lines) \subseteq DOMAIN lines
<1>1. PICK S : lines \in Seq(S)
  BY DEF LinesOK
<1>2. DOMAIN lines = 1 .. Len(lines) /\ Len(lines) \in Nat
  BY <1>1
<1> QED
  BY <1>2

LEMMA HereIsInt ==
  ASSUME Clock, NEW zone \in Zones
  PROVE  Here(zone) \in Int /\ Offset[zone] \in Int /\ now \in Int /\ Here(zone) = now + Offset[zone]
BY ReadingConstants DEF Clock, Here

LEMMA ResetAhead ==
  ASSUME Clock, NEW zone \in Zones, NEW z \in Int, z > Here(zone)
  PROVE  ToCome(Reset(zone, z))
<1>1. z - Offset[zone] + 2 * 60 \in Int /\ z - Offset[zone] + 2 * 60 > now + 2 * 60
  BY HereIsInt
<1> QED
  BY <1>1 DEF ToCome, Reset, PADDING_MINUTES, Minute, Padding

LEMMA OthersAhead == ToCome(Unreadable) /\ ToCome(Elapsed) /\ ToCome(NoBanner)
BY DEF ToCome, Unreadable, Elapsed, NoBanner

LEMMA LocalIsZone == Local \in Zones /\ \A zone : in_zone(zone) \in Zones
BY ReadingConstants DEF in_zone

LEMMA DurationAhead ==
  ASSUME Clock, NEW lines, LinesOK(lines), NEW i \in DOMAIN lines,
         NEW r \in read_duration(lines, i)
  PROVE  ToCome(r)
<1>1. PICK t \in find_duration_token(lines, i) : \E z \in parse_relative(Here(Local), t) :
        r = Reset(Local, z)
  BY DEF read_duration
<1>2. PICK z \in parse_relative(Here(Local), t) : r = Reset(Local, z)
  BY <1>1
<1>3. PICK k \in i .. Len(lines) : lines[k].span # None /\ t = lines[k].span
  BY DEF find_duration_token, First
<1>4. Span(t)
  BY <1>3, LinesFrom DEF LinesOK, LineOK
<1>5. z \in Int /\ z > Here(Local)
  BY <1>4, SpanAhead, HereIsInt, LocalIsZone
<1> QED
  BY <1>2, <1>5, ResetAhead, LocalIsZone

LEMMA ClockAhead ==
  ASSUME Clock, NEW lines, NEW i, NEW r \in read_clock(lines, i)
  PROVE  ToCome(r)
<1> DEFINE zone == in_zone(find_zone_token(lines[i]))
<1>1. PICK t \in find_clock_token(lines, i) : \E z \in parse_clock(Here(zone), t) :
        r = Reset(zone, z)
  BY DEF read_clock
<1>2. PICK z \in parse_clock(Here(zone), t) : r = Reset(zone, z)
  BY <1>1
<1>3. zone \in Zones
  BY LocalIsZone
<1> HIDE DEF zone
<1>4. z \in Int /\ z > Here(zone)
  BY <1>3, HereIsInt, ParseClockAhead
<1> QED
  BY <1>2, <1>3, <1>4, ResetAhead

LEMMA WeeklyDayAhead ==
  ASSUME NEW here \in Int, NEW line, LineOK(line), NEW z \in weekly_day(line, here)
  PROVE  z \in Int /\ z > here
<1> DEFINE days(D) == UNION {resolve_day_clock(here, d, s, Order) : d \in D, s \in clock_hm(line.token)}
           before == parse_day_words(line.gap)
           after  == find_day_words(line.trail)
<1>1. ASSUME NEW D, \A d \in D : NamesDay(d), z \in days(D)
      PROVE  z \in Int /\ z > here
  <2>1. PICK d \in D, s \in clock_hm(line.token) : z \in resolve_day_clock(here, d, s, Order)
    BY <1>1
  <2> QED
    BY <1>1, <2>1, ResolvedAhead, SecondsOfDay
<1>2. before = {Unnamed} \/ \A d \in before : NamesDay(d)
  BY Scanned DEF LineOK, parse_day_words
<1>3. \A d \in after : NamesDay(d)
  BY Scanned DEF LineOK, find_day_words
<1>4. CASE z \in days(before) /\ before # {Unnamed}
  BY <1>1, <1>2, <1>4
<1>5. CASE z \in days(after)
  BY <1>1, <1>3, <1>5
<1>6. CASE z \in parse_clock(here, line.token)
  BY <1>6, ParseClockAhead
<1> QED
  BY <1>4, <1>5, <1>6 DEF weekly_day

LEMMA WeeklyAhead ==
  ASSUME Clock, NEW line, LineOK(line), NEW r \in read_weekly(line)
  PROVE  ToCome(r)
<1> DEFINE zone == in_zone(find_zone_token(line))
           at   == weekly_day(line, Here(zone))
<1>1. zone \in Zones
  BY LocalIsZone
<1>2. r = Unreadable \/ \E z \in at : r = Reset(zone, z)
  BY DEF read_weekly
<1> HIDE DEF zone
<1>3. \A z \in at : z \in Int /\ z > Here(zone)
  BY <1>1, HereIsInt, WeeklyDayAhead
<1> QED
  BY <1>1, <1>2, <1>3, ResetAhead, OthersAhead

LEMMA CodexWords ==
  ASSUME NEW lines, LinesOK(lines), NEW i \in DOMAIN lines, NEW k \in i .. Len(lines)
  PROVE  WordsOK(GapTo(lines, i, k))
<1> DEFINE Places(part, last) == UNION {{j} \X {part} \X DOMAIN lines[j][part] : j \in i .. last}
<1> SUFFICES ASSUME NEW p \in Places("gap", k) \cup Places("trail", k - 1)
             PROVE  WordOK(lines[p[1]][p[2]][p[3]])
  BY DEF GapTo, WordsOK
<1>1. i \in Int /\ k \in Int /\ Len(lines) \in Int
  <2>1. PICK S : lines \in Seq(S)
    BY DEF LinesOK
  <2> QED
    BY <2>1, LinesFrom
<1>2. ASSUME NEW j \in i .. k, NEW part \in {"gap", "trail"}, NEW n \in DOMAIN lines[j][part]
      PROVE  WordOK(lines[j][part][n])
  <2>1. j \in DOMAIN lines
    BY <1>1, LinesFrom
  <2>2. LineOK(lines[j])
    BY <2>1 DEF LinesOK
  <2> QED
    BY <1>2, <2>2 DEF LineOK, WordsOK
<1>3. CASE p \in Places("gap", k)
  <2>1. PICK j \in i .. k : p \in {j} \X {"gap"} \X DOMAIN lines[j]["gap"]
    BY <1>3
  <2> QED
    BY <1>2, <2>1
<1>4. CASE p \in Places("trail", k - 1)
  <2>1. PICK j \in i .. k - 1 : p \in {j} \X {"trail"} \X DOMAIN lines[j]["trail"]
    BY <1>4
  <2>2. j \in i .. k
    BY <1>1
  <2> QED
    BY <1>2, <2>1, <2>2
<1> QED
  BY <1>3, <1>4

LEMMA CodexAhead ==
  ASSUME Clock, NEW lines, LinesOK(lines), NEW i \in DOMAIN lines, NEW r \in read_codex(lines, i)
  PROVE  ToCome(r)
<1> DEFINE here == Here(Local)
<1>1. here \in Int
  BY HereIsInt, LocalIsZone
<1>2. ASSUME NEW s \in Int, 0 <= s, NEW d, NamesDay(d), r \in codex_dated(d, s, here)
      PROVE  ToCome(r)
  <2>1. r \in {Elapsed, Unreadable} \/ \E z \in resolve_day_clock(here, d, s, Order) : r = Reset(Local, z)
    BY <1>2 DEF codex_dated
  <2>2. \A z \in resolve_day_clock(here, d, s, Order) : z \in Int /\ z > here
    BY <1>1, <1>2, ResolvedAhead
  <2> QED
    BY <2>1, <2>2, ResetAhead, OthersAhead, LocalIsZone
<1>3. ASSUME NEW s \in Int, 0 <= s, r \in codex_bare(s, here)
      PROVE  ToCome(r)
  <2>1. r = Elapsed \/ r = Reset(Local, at_clock(here, s))
    BY <1>3 DEF codex_bare
  <2> QED
    BY <1>1, <1>3, <2>1, AtClockAhead, ResetAhead, OthersAhead, LocalIsZone
<1> HIDE DEF here
<1>4. PICK k \in First(lines, {j \in Paragraph(lines, i) : lines[j].token # None}) :
        LET days == parse_day_words(GapTo(lines, i, k))
            secs == clock_hm(lines[k].token)
        IN r \in (IF days = {} \/ secs = {} THEN {Unreadable}
                  ELSE IF days = {Unnamed} THEN UNION {codex_bare(s, here) : s \in secs}
                  ELSE UNION {codex_dated(d, s, here) : d \in days, s \in secs})
  BY DEF read_codex, here
<1>5. k \in i .. Len(lines)
  BY DEF First, Paragraph
<1> DEFINE days == parse_day_words(GapTo(lines, i, k))
           secs == clock_hm(lines[k].token)
<1>6. days = {Unnamed} \/ \A d \in days : NamesDay(d)
  BY <1>5, CodexWords, Scanned DEF parse_day_words
<1>7. CASE r = Unreadable
  BY <1>7, OthersAhead
<1>8. CASE \E s \in secs : r \in codex_bare(s, here)
  BY <1>3, <1>8, SecondsOfDay
<1>9. CASE days # {Unnamed} /\ \E d \in days, s \in secs : r \in codex_dated(d, s, here)
  BY <1>2, <1>6, <1>9, SecondsOfDay
<1> QED
  BY <1>4, <1>7, <1>8, <1>9

LEMMA DetectedAhead ==
  ASSUME Clock, NEW lines, LinesOK(lines), NEW r \in detect_reset(lines)
  PROVE  ToCome(r)
<1>1. r = NoBanner \/ \E i \in DOMAIN lines, n \in 1 .. 4 : r \in read_banner(lines, i, Rank[n])
  BY DEF detect_reset
<1>2. ASSUME NEW i \in DOMAIN lines, NEW n \in 1 .. 4, r \in read_banner(lines, i, Rank[n])
      PROVE  ToCome(r)
  <2>1. Rank[n] \in {"Duration", "Codex", "Weekly", "Clock"}
    BY DEF Rank
  <2>2. LineOK(lines[i])
    BY DEF LinesOK
  <2> QED
    BY <1>2, <2>1, <2>2, DurationAhead, CodexAhead, WeeklyAhead, ClockAhead DEF read_banner
<1> QED
  BY <1>1, <1>2, OthersAhead

LEMMA TypedAhead ==
  ASSUME Clock, NEW style, NEW t \in Int, now <= t,
         NEW z \in parse_timespec(Here(Local), Written(style, t))
  PROVE  z \in Int /\ z > Here(Local)
<1> DEFINE here == Here(Local)
           spec == Written(style, t)
<1>1. here \in Int /\ now \in Int
  BY HereIsInt, LocalIsZone
<1> HIDE DEF here
<1>2. CASE style \in {"12-hour", "24-hour"}
  <2>1. spec.kind = "clock"
    BY <1>2 DEF Written
  <2>2. z \in parse_clock(here, spec.is)
    BY <2>1 DEF parse_timespec, here
  <2> QED
    BY <1>1, <2>2, ParseClockAhead DEF here
<1>3. CASE style = "span"
  <2>1. spec = [kind |-> "span", is |-> SpanOf(t - now)]
    BY <1>3 DEF Written
  <2>2. Span(SpanOf(t - now))
    <3>1. t - now \in Nat
      BY <1>1
    <3> QED
      BY <3>1 DEF Span, SpanOf, Hour, Minute
  <2>3. z \in parse_relative(here, SpanOf(t - now))
    BY <2>1 DEF parse_timespec, here
  <2> QED
    BY <1>1, <2>2, <2>3, SpanAhead DEF here
<1>4. CASE style \notin {"12-hour", "24-hour", "span"}
  <2>1. spec = [kind |-> "named", is |-> style]
    BY <1>4 DEF Written
  <2>2. z \in parse_named(here, style)
    BY <2>1 DEF parse_timespec, here
  <2>3. PICK s \in {0, 12 * Hour} : z = at_clock(here, s)
    BY <2>2 DEF parse_named
  <2>4. s \in Int /\ 0 <= s
    BY DEF Hour
  <2> QED
    BY <1>1, <2>3, <2>4, AtClockAhead DEF here
<1> QED
  BY <1>2, <1>3, <1>4

-----------------------------------------------------------------------------
(***************************************************************************)
(* What the CLIs print can be read as lines.                               *)
(***************************************************************************)
LEMMA NoWords == WordsOK(<<>>)
BY DEF WordsOK

LEMMA WordsJoined ==
  ASSUME NEW S, \A w \in S : WordOK(w), NEW s \in Seq(S), NEW t \in Seq(S)
  PROVE  WordsOK(s \o t)
<1>1. s \o t \in Seq(S)
  OBVIOUS
<1> QED
  BY <1>1 DEF WordsOK

LEMMA BlankBanner ==
  ASSUME NEW kind, NEW reset
  PROVE  LET line == Banner(kind, reset)
         IN /\ line.gap = <<>> /\ line.trail = <<>> /\ line.span = None
            /\ {"gap", "trail", "span", "wording", "token", "zone"} \subseteq DOMAIN line
BY DEF Banner, Blank

LEMMA DayWordsOK ==
  ASSUME NEW wording \in Wordings, NEW n \in Int, NEW today
  PROVE  LET words == DayWords(wording, n, today)
         IN WordsOK(words) /\ WordsOK(words \o Filler) /\ WordsOK(Filler \o words)
<1> DEFINE m == MonthOf(n)
           d == DayOfMonth(n)
           y == YearOf(n)
           S == {Word("month", m), Word("day", d), Word("year", y), Word("filler", "at"),
                 Word("other", "m/d/yy"), Word("named", OnWeekday(Weekday(n))),
                 Word("named", Today), Word("named", Tomorrow),
                 Word("date", Numeric(m, d, None)), Word("date", Numeric(d, m, None)),
                 Word("date", Numeric(m, d, y)), Word("date", MonthDay(m, d, y))}
<1>1. \A w \in S : WordOK(w)
  <2>1. Weekday(n) \in Int
    BY DEF Weekday
  <2> QED
    BY <2>1 DEF WordOK, Word, NamesDay
<1>2. Filler \in Seq(S) /\ <<>> \in Seq(S)
  BY DEF Filler
<1>3. Date(n) \in Seq(S) /\ Year(n) \in Seq(S) /\ Week(n) \in Seq(S)
  BY DEF Date, Year, Week
<1>4. /\ Fields(n, "MonthFirst", None) \in Seq(S) /\ Fields(n, "DayFirst", None) \in Seq(S)
      /\ Fields(n, "MonthFirst", y) \in Seq(S) /\ Relative(n, today) \in Seq(S)
      /\ <<Word("date", MonthDay(m, d, y))>> \in Seq(S) /\ <<Word("other", "m/d/yy")>> \in Seq(S)
  BY DEF Fields, Relative
<1> HIDE DEF S
<1>5. DayWords(wording, n, today) \in Seq(S)
  <2>1. Week(n) \o Date(n) \o Year(n) \in Seq(S)
    BY <1>3
  <2> QED
    BY <1>2, <1>3, <1>4, <2>1, PrintingConstants DEF DayWords
<1> QED
  BY <1>1, <1>2, <1>5, WordsJoined DEF WordsOK

LEMMA WeeklyLine ==
  ASSUME Clock, NEW zone \in Zones, NEW wording \in Wordings, NEW reset \in Int
  PROVE  LineOK(Weekly(wording, zone, reset))
<1> DEFINE n     == (reset + Offset[zone]) \div Day
           words == DayWords(wording, n, Here(zone) \div Day)
           line  == Weekly(wording, zone, reset)
<1>1. n \in Int
  BY HereIsInt DEF Day
<1>2. WordsOK(words \o Filler) /\ WordsOK(Filler \o words)
  BY <1>1, DayWordsOK
<1> HIDE DEF n, words
<1>3. /\ line.span = None
      /\ line.gap \in {<<>>, words \o Filler} /\ line.trail \in {<<>>, Filler \o words}
  BY BlankBanner DEF Weekly, n, words
<1> QED
  BY <1>2, <1>3, NoWords DEF LineOK

LEMMA CodexLine ==
  ASSUME Clock, NEW reset \in Int
  PROVE  LineOK(Codex(reset))
<1> DEFINE n    == (reset + Offset[Local]) \div Day
           line == Codex(reset)
           S    == {Word("month", MonthOf(n)), Word("day", DayOfMonth(n)), Word("year", YearOf(n))}
<1>1. \A w \in S : WordOK(w)
  BY DEF WordOK, Word
<1>2. Date(n) \in Seq(S) /\ Year(n) \in Seq(S)
  BY DEF Date, Year
<1> HIDE DEF S
<1>3. WordsOK(Date(n) \o Year(n))
  BY <1>1, <1>2, WordsJoined
<1> HIDE DEF n
<1>4. line.span = None /\ line.gap \in {<<>>, Date(n) \o Year(n)} /\ line.trail = <<>>
  BY BlankBanner DEF Codex, n
<1> QED
  BY <1>3, <1>4, NoWords DEF LineOK

LEMMA SessionLine ==
  ASSUME NEW zone, NEW reset, NEW kind
  PROVE  LineOK(Session(zone, reset)) /\ LineOK(Banner(kind, reset))
BY BlankBanner, NoWords DEF Session, LineOK

LEMMA QuotaLine ==
  ASSUME Clock, NEW t \in Int, now <= t
  PROVE  LineOK(Quota(t))
<1>1. t - now \in Nat
  BY DEF Clock
<1>2. Span(SpanOf(t - now))
  BY <1>1 DEF Span, SpanOf, Hour, Minute
<1> DEFINE banner == Banner("Duration", t)
<1>3. /\ "span" \in DOMAIN banner /\ "gap" \in DOMAIN banner /\ "trail" \in DOMAIN banner
      /\ banner.gap = <<>> /\ banner.trail = <<>>
  BY BlankBanner
<1>4. Quota(t) = [banner EXCEPT !.span = SpanOf(t - now)]
  BY DEF Quota
<1> HIDE DEF banner
<1>5. /\ Quota(t).span = SpanOf(t - now)
      /\ Quota(t).gap = <<>> /\ Quota(t).trail = <<>>
  BY <1>3, <1>4
<1> QED
  BY <1>2, <1>5, NoWords DEF LineOK

LEMMA ReportLine ==
  ASSUME NEW joined
  PROVE  LineOK([Report EXCEPT !.joined = joined])
<1> DEFINE n    == now \div Day + 1
           gap  == <<Word("other", "21%"), Word("other", "left")>>
           line == [Report EXCEPT !.joined = joined]
           S    == {Word("month", MonthOf(n)), Word("day", DayOfMonth(n)), Word("filler", "at")}
<1>1. \A w \in S : WordOK(w)
  BY DEF WordOK, Word
<1>2. Date(n) \in Seq(S) /\ Filler \in Seq(S)
  BY DEF Date, Filler
<1> HIDE DEF S
<1>3. WordsOK(Filler \o Date(n))
  BY <1>1, <1>2, WordsJoined
<1>4. WordsOK(gap)
  BY DEF WordsOK, WordOK, Word
<1> HIDE DEF gap
<1>5. line.span = None /\ line.gap = gap /\ line.trail = Filler \o Date(n)
  BY DEF Report, Blank, gap
<1> QED
  BY <1>3, <1>4, <1>5 DEF LineOK

-----------------------------------------------------------------------------
(***************************************************************************)
(* Whatever is read is still to come.                                      *)
(***************************************************************************)
IInv == Clock /\ LinesOK(screen) /\ InFuture

LEMMA PrintKeeps ==
  ASSUME IInv, NEW line, LineOK(line), PrintLine(line)
  PROVE  IInv'
<1>1. PICK S : screen \in Seq(S)
  BY DEF IInv, LinesOK
<1>2. screen \in Seq(S \cup {line})
  BY <1>1
<1>3. screen' = Append(screen, line) /\ screen' \in Seq(S \cup {line})
  BY <1>2 DEF PrintLine
<1>4. \A i \in DOMAIN screen' : LineOK(screen'[i])
  BY <1>2, <1>3 DEF IInv, LinesOK
<1>5. \A l : LineOK(l)' = LineOK(l)
  BY DEF LineOK
<1>6. LinesOK(screen)'
  BY <1>3, <1>4 DEF LinesOK
<1> QED
  BY <1>6 DEF IInv, PrintLine, Clock, InFuture, Read

LEMMA AheadIsNat ==
  \A kind \in {"Clock", "Weekly", "Codex", "Duration", "Typed"} : Ahead[kind] \subseteq Nat
BY PrintingConstants

LEMMA StepKeepsInv ==
  ASSUME IInv, [Next]_vars
  PROVE  IInv'
<1> USE DEF IInv
<1>0. Clock'
  BY ClockKept
<1>1. CASE PrintSession
  BY <1>1, SessionLine, PrintKeeps DEF PrintSession
<1>2. CASE PrintWeekly
  <2>1. PICK zone \in Zones, wording \in Wordings : \E d \in Ahead["Weekly"] :
          PrintLine(Weekly(wording, zone, now + d))
    BY <1>2 DEF PrintWeekly
  <2>2. PICK d \in Ahead["Weekly"] : PrintLine(Weekly(wording, zone, now + d))
    BY <2>1
  <2>3. now + d \in Int
    BY <2>2, AheadIsNat DEF Clock
  <2> QED
    BY <2>2, <2>3, WeeklyLine, PrintKeeps
<1>3. CASE PrintCodex
  <2>1. PICK d \in Ahead["Codex"] : PrintLine(Codex(now + d))
    BY <1>3 DEF PrintCodex
  <2>2. now + d \in Int
    BY <2>1, AheadIsNat DEF Clock
  <2> QED
    BY <2>1, <2>2, CodexLine, PrintKeeps
<1>4. CASE PrintQuota
  <2>1. PICK d \in Ahead["Duration"] : PrintLine(Quota(now + d))
    BY <1>4 DEF PrintQuota
  <2>2. now + d \in Int /\ now <= now + d
    BY <2>1, AheadIsNat DEF Clock
  <2> QED
    BY <2>1, <2>2, QuotaLine, PrintKeeps
<1>5. CASE PrintCut
  BY <1>5, SessionLine, PrintKeeps DEF PrintCut
<1>6. CASE PrintReport
  BY <1>6, ReportLine, PrintKeeps DEF PrintReport
<1>7. CASE Pass
  BY <1>0, <1>7 DEF Pass, LinesOK, LineOK, InFuture, Read
<1>8. CASE ReadPane
  <2>1. PICK r \in detect_reset(screen) : result' = [r |-> r, meant |-> None]
    BY <1>8 DEF ReadPane
  <2>2. ToCome(r)
    BY <2>1, DetectedAhead
  <2>3. InFuture'
    BY <1>8, <2>1, <2>2 DEF ReadPane, InFuture, Read, ToCome, Padding, PADDING_MINUTES, Minute, Clock
  <2> QED
    BY <1>0, <1>8, <2>3 DEF ReadPane
<1>9. CASE ReadTyped
  <2>1. PICK style \in Styles, d \in Ahead["Typed"] :
          \E z \in parse_timespec(Here(Local), Written(style, now + d)) :
            result' = [r |-> [kind |-> "Reset", at |-> z - Offset[Local]],
                       meant |-> Meant(style, now + d)]
    BY <1>9 DEF ReadTyped
  <2>2. PICK z \in parse_timespec(Here(Local), Written(style, now + d)) :
          result'.r.at = z - Offset[Local]
    BY <2>1
  <2>3. d \in Nat /\ now + d \in Int /\ now <= now + d
    BY AheadIsNat DEF Clock
  <2>4. z \in Int /\ z > Here(Local)
    BY <2>3, TypedAhead
  <2>5. z - Offset[Local] > now
    BY <2>4, HereIsInt, LocalIsZone
  <2>6. InFuture'
    BY <1>9, <2>2, <2>5 DEF ReadTyped, InFuture, Read
  <2> QED
    BY <1>0, <1>9, <2>6 DEF ReadTyped
<1>10. CASE UNCHANGED vars
  BY <1>0, <1>10 DEF vars, LinesOK, LineOK, InFuture, Read
<1> QED
  BY <1>1, <1>2, <1>3, <1>4, <1>5, <1>6, <1>7, <1>8, <1>9, <1>10 DEF Next

\* Whatever is read off a pane, or typed, is still to come: nothing is
\* scheduled for a moment that has gone by (parse_timespec, detect_reset).
THEOREM ReadIsAhead == Spec => []InFuture
<1>1. Init => IInv
  BY ReadingConstants DEF Init, IInv, Clock, LinesOK, InFuture, Read
<1>2. IInv /\ [Next]_vars => IInv'
  BY StepKeepsInv
<1>3. IInv => InFuture
  BY DEF IInv
<1> QED
  BY <1>1, <1>2, <1>3, PTL DEF Spec
=============================================================================
