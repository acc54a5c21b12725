------------------------------ MODULE NudgeReset ------------------------------
(***************************************************************************)
(* Reading a reset off a pane (detect.rs), against what the banners there  *)
(* were printed to say.                                                    *)
(*                                                                         *)
(* A CLI prints a banner about a reset it knows to the second, in one of   *)
(* the wordings detect.rs and the README list; time passes; more is        *)
(* printed below it; nudge reads the pane once.  A banner is one line of   *)
(* the capture however it was wrapped when it is Codex's, whose paragraphs *)
(* are unwrapped; the others are one line as it is.                        *)
(*                                                                         *)
(* A line is what the regular expressions make of it: the shapes of the    *)
(* banners that begin there, the words before the first clock token, the   *)
(* token, the words after it up to a separator, the first span ("1h30m"),  *)
(* the zone, and whether it follows the line above without a blank one.    *)
(***************************************************************************)
EXTENDS NudgeTime

CONSTANTS
  Zones,        \* the zones a banner may name
  Offset,       \* each zone's clock, in seconds ahead of `now`
  Local,        \* the machine's own
  Locale,       \* the regions its LC_ALL, LC_TIME and LANG name
  Invalid, Patterns, \* NUDGE_CLOCK_PATTERN: Invalid, or the shapes it matches as well
  Starts,       \* when the first banner may be printed
  Ahead,        \* per shape, how far ahead a reset may be
  Wordings,     \* how a weekly banner may put its day
  Delays,       \* how long may pass between two steps
  Styles,       \* how a user may write a time
  MaxLines,     \* bound: lines printed
  MaxDelays     \* bound: how often time passes

ASSUME ReadingConstants ==
  /\ Local \in Zones /\ Offset \in [Zones -> Int] /\ Starts \subseteq Int
  /\ \A d \in Delays : d \in Int /\ d > 0
  /\ DOMAIN Locale = 1 .. 3

ASSUME PrintingConstants ==
  /\ Ahead \in [{"Clock", "Weekly", "Codex", "Duration", "Typed"} -> SUBSET Nat]
  /\ Wordings \subseteq {"bare", "undated", "dated", "trailing", "full", "weekday", "relative",
                         "month/day", "day/month", "with-year", "ISO", "two-digit-year",
                         "two-digit-year-after"}
  /\ \A p \in Patterns \ {Invalid} : p \subseteq DOMAIN Ahead

\* None is no zone, no clock and no span.
ASSUME NoneIsNothingPrinted ==
  /\ None \notin Zones
  /\ None \notin [h : Nat, m : 0 .. 59, mer : {"AM", "PM", "none"}]
  /\ None \notin [h : Nat, m : 0 .. 59]

ASSUME Bounds == MaxLines \in Nat /\ MaxDelays \in Nat

VARIABLES
  now,       \* in seconds since 2000
  clock_ext, \* NUDGE_CLOCK_PATTERN
  screen,    \* the capture, a sequence of lines, each with what it was printed for
  delays,    \* how often time has passed
  result     \* what nudge read; None until it does

vars == <<now, clock_ext, screen, delays, result>>

-----------------------------------------------------------------------------
(***************************************************************************)
(* detect.rs.                                                              *)
(***************************************************************************)
PADDING_MINUTES == 2

NoBanner   == [kind |-> "None"]
Unreadable == [kind |-> "Unreadable"]
Elapsed    == [kind |-> "Elapsed"]

\* A moment z on a zone's clock, padded.
Reset(zone, z) == [kind |-> "Reset", at |-> z - Offset[zone] + PADDING_MINUTES * Minute]

\* A plausible slip: a banner's hour is read on the machine's clock.
BugInZone(zone) == Local

\* A zone nobody knows is the machine's.
in_zone(zone) == IF zone \in Zones THEN zone ELSE Local

Order == locale_date_order(Locale)

\* The zone a banner's line ends with.
find_zone_token(line) == line.zone

Here(zone) == now + Offset[zone]

First(lines, S) == {i \in S : \A k \in S : i <= k}

\* The first token of its kind from line i to the end of the capture, on this
\* line or below.
find_duration_token(lines, i) ==
  {lines[k].span : k \in First(lines, {j \in i .. Len(lines) : lines[j].span # None})}

find_clock_token(lines, i) ==
  {lines[k].token : k \in First(lines, {j \in i .. Len(lines) : lines[j].token # None})}

read_duration(lines, i) ==
  {Reset(Local, z) : z \in UNION {parse_relative(Here(Local), t) : t \in find_duration_token(lines, i)}}

\* The zone is the banner's line's.
read_clock(lines, i) ==
  LET zone == in_zone(find_zone_token(lines[i]))
  IN {Reset(zone, z) : z \in UNION {parse_clock(Here(zone), t) : t \in find_clock_token(lines, i)}}

\* The day named before the time; failing that, after it; failing that, the
\* next such hour.
weekly_day(line, here) ==
  LET token == line.token
      On(days) == UNION {resolve_day_clock(here, d, s, Order) : d \in days, s \in clock_hm(token)}
      before == parse_day_words(line.gap)
      after  == find_day_words(line.trail)
  IN IF before # {Unnamed} THEN On(before)
     ELSE IF after # {} THEN On(after)
     ELSE parse_clock(here, token)

\* Without a time on its line, none; without a day that can be read, refused.
read_weekly(line) ==
  LET zone == in_zone(find_zone_token(line))
      at   == weekly_day(line, Here(zone))
  IN IF line.token = None THEN {}
     ELSE IF at = {} THEN {Unreadable}
     ELSE {Reset(zone, z) : z \in at}

\* The lines a banner's paragraph goes on to.
Paragraph(lines, i) ==
  {j \in i .. Len(lines) : \A k \in i + 1 .. j : lines[k].joined}

\* The words of a paragraph from line i up to the token on line k, each at its
\* place.
GapTo(lines, i, k) ==
  LET Places(part, last) == UNION {{j} \X {part} \X DOMAIN lines[j][part] : j \in i .. last}
  IN [p \in Places("gap", k) \cup Places("trail", k - 1) |-> lines[p[1]][p[2]][p[3]]]

codex_dated(day, s, here) ==
  LET at == resolve_day_clock(here, day, s, Order)
  IN IF at # {} THEN {Reset(Local, z) : z \in at}
     ELSE IF day_clock_has_passed(here, day, s) THEN {Elapsed}
     ELSE {Unreadable}

\* A plausible slip: an hour that has gone by is tomorrow's.
BugCodexBare(s, here) == {Reset(Local, at_clock(here, s))}

\* Codex dates every reset that is not today's.
codex_bare(s, here) ==
  LET z == at_clock(here, s)
  IN IF z \div Day = here \div Day THEN {Reset(Local, z)} ELSE {Elapsed}

read_codex(lines, i) ==
  LET here == Here(Local)
  IN UNION {LET days == parse_day_words(GapTo(lines, i, k))
                secs == clock_hm(lines[k].token)
            IN IF days = {} \/ secs = {} THEN {Unreadable}
               ELSE IF days = {Unnamed} THEN UNION {codex_bare(s, here) : s \in secs}
               ELSE UNION {codex_dated(d, s, here) : d \in days, s \in secs}
            : k \in First(lines, {j \in Paragraph(lines, i) : lines[j].token # None})}

\* The order in which shapes that match at one place are tried.
Rank == <<"Duration", "Codex", "Weekly", "Clock">>

read_banner(lines, i, shape) ==
  CASE shape = "Duration" -> read_duration(lines, i)
    [] shape = "Codex"    -> read_codex(lines, i)
    [] shape = "Weekly"   -> read_weekly(lines[i])
    [] shape = "Clock"    -> read_clock(lines, i)

\* A plausible slip: the banner highest on the screen is taken.
BugTriedBefore(b, c) == b[1] < c[1] \/ (b[1] = c[1] /\ b[2] < c[2])

\* Bottom-up, and by rank on one line.
TriedBefore(b, c) == b[1] > c[1] \/ (b[1] = c[1] /\ b[2] < c[2])

\* The first banner tried that says anything decides.
detect_reset(lines) ==
  LET banners == {b \in (DOMAIN lines) \X (1 .. 4) :
                    /\ Rank[b[2]] \in lines[b[1]].shapes
                    /\ read_banner(lines, b[1], Rank[b[2]]) # {}}
      lowest  == {b \in banners : \A c \in banners \ {b} : TriedBefore(b, c)}
  IN IF banners = {} THEN {NoBanner}
     ELSE UNION {read_banner(lines, b[1], Rank[b[2]]) : b \in lowest}

-----------------------------------------------------------------------------
(***************************************************************************)
(* What the CLIs print.  The words are those of detect.rs and the README.  *)
(***************************************************************************)
Word(f, v) == [field |-> f, is |-> v]

Clock12(t) ==
  LET h == (t % Day) \div Hour
  IN [h |-> IF h % 12 = 0 THEN 12 ELSE h % 12, m |-> (t % Hour) \div Minute,
      mer |-> IF h < 12 THEN "AM" ELSE "PM"]

Clock24(t) == [h |-> (t % Day) \div Hour, m |-> (t % Hour) \div Minute, mer |-> "none"]

\* "1h30m", the seconds dropped.
SpanOf(d) == [h |-> d \div Hour, m |-> (d % Hour) \div Minute]

Blank == [shapes |-> {}, gap |-> <<>>, token |-> None, trail |-> <<>>, span |-> None,
          zone |-> None, joined |-> FALSE,
          kind |-> "noise", wording |-> "none", reset |-> None, printed |-> now]

\* A pattern that is no regular expression is passed over.
build_re(ext) == IF ext = Invalid THEN {} ELSE ext

Matched(kind) == IF kind \in build_re(clock_ext) THEN {kind, "Clock"} ELSE {kind}

Banner(kind, reset) ==
  [Blank EXCEPT !.shapes = Matched(kind), !.kind = kind, !.reset = reset]

\* The words that name day n, seen from today, each as scan_day_words reads it
\* once the line has been taken apart (parse_month, parse_day_number, parse_year,
\* parse_day, parse_numeric_date); "other" is a word it cannot read.
Date(n)    == <<Word("month", MonthOf(n)), Word("day", DayOfMonth(n))>>
Year(n)    == <<Word("year", YearOf(n))>>
Week(n)    == <<Word("named", OnWeekday(Weekday(n)))>>
Filler     == <<Word("filler", "at")>>
Fields(n, order, year) ==
  LET m == MonthOf(n)  d == DayOfMonth(n)
  IN <<Word("date", IF order = "MonthFirst" THEN Numeric(m, d, year) ELSE Numeric(d, m, year))>>
Relative(n, today) == <<Word("named", IF n = today THEN Today ELSE Tomorrow)>>

DayWords(wording, n, today) ==
  CASE wording \in {"bare", "undated"} -> <<>>
    [] wording \in {"dated", "trailing"} -> Date(n)
    [] wording = "full"       -> Week(n) \o Date(n) \o Year(n)
    [] wording = "weekday"    -> Week(n)
    [] wording = "relative"   -> Relative(n, today)
    [] wording = "month/day"  -> Fields(n, "MonthFirst", None)
    [] wording = "day/month"  -> Fields(n, "DayFirst", None)
    [] wording = "with-year"  -> Fields(n, "MonthFirst", YearOf(n))
    [] wording = "ISO"        -> <<Word("date", MonthDay(MonthOf(n), DayOfMonth(n), YearOf(n)))>>
    [] wording \in {"two-digit-year", "two-digit-year-after"} -> <<Word("other", "m/d/yy")>>

\* A banner may leave its day out only within a day, and call it today or
\* tomorrow only if it is.
Sayable(wording, reset, n, today) ==
  /\ wording = "bare" => reset - now <= Day
  /\ wording = "relative" => n - today \in {0, 1}

After == {"trailing", "two-digit-year-after"}

Weekly(wording, zone, reset) ==
  LET n == (reset + Offset[zone]) \div Day
      words == DayWords(wording, n, Here(zone) \div Day)
  IN [Banner("Weekly", reset) EXCEPT
        !.wording = wording,
        !.gap   = IF wording \in After THEN <<>> ELSE words \o Filler,
        !.trail = IF wording \in After THEN Filler \o words ELSE <<>>,
        !.token = Clock12(reset + Offset[zone]),
        !.zone  = IF zone = Local THEN None ELSE zone]

Session(zone, reset) ==
  [Banner("Clock", reset) EXCEPT !.token = Clock12(reset + Offset[zone]),
                                 !.zone  = IF zone = Local THEN None ELSE zone]

Codex(reset) ==
  LET n == (reset + Offset[Local]) \div Day
  IN [Banner("Codex", reset) EXCEPT
        !.gap   = IF n = Here(Local) \div Day THEN <<>> ELSE Date(n) \o Year(n),
        !.token = Clock12(reset + Offset[Local])]

Quota(reset) == [Banner("Duration", reset) EXCEPT !.span = SpanOf(reset - now)]

\* A line that is no banner, with times of its own: a usage report's row.
Report == [Blank EXCEPT !.gap = <<Word("other", "21%"), Word("other", "left")>>,
                        !.token = Clock24(now + Hour), !.trail = Filler \o Date(now \div Day + 1)]

-----------------------------------------------------------------------------
(***************************************************************************)
(* The pane, and nudge's one reading of it.                                *)
(***************************************************************************)
Init ==
  /\ now \in Starts /\ clock_ext \in Patterns
  /\ screen = <<>> /\ delays = 0 /\ result = None

PrintLine(line) ==
  /\ result = None /\ Len(screen) < MaxLines
  /\ screen' = Append(screen, line)
  /\ UNCHANGED <<now, clock_ext, delays, result>>

PrintSession == \E zone \in Zones : \E d \in Ahead["Clock"] : PrintLine(Session(zone, now + d))

PrintWeekly ==
  \E zone \in Zones, wording \in Wordings : \E d \in Ahead["Weekly"] :
    /\ Sayable(wording, now + d, (now + d + Offset[zone]) \div Day, Here(zone) \div Day)
    /\ PrintLine(Weekly(wording, zone, now + d))

PrintCodex == \E d \in Ahead["Codex"] : PrintLine(Codex(now + d))

PrintQuota == \E d \in Ahead["Duration"] : PrintLine(Quota(now + d))

\* A banner the capture cut off before its time.
PrintCut == \E kind \in {"Clock", "Weekly", "Codex", "Duration"} : PrintLine(Banner(kind, now + Hour))

PrintReport == \E joined \in BOOLEAN : PrintLine([Report EXCEPT !.joined = joined])

Pass ==
  /\ result = None /\ screen # <<>> /\ delays < MaxDelays
  /\ \E d \in Delays : now' = now + d
  /\ delays' = delays + 1
  /\ UNCHANGED <<clock_ext, screen, result>>

ReadPane ==
  /\ result = None /\ screen # <<>>
  /\ \E r \in detect_reset(screen) : result' = [r |-> r, meant |-> None]
  /\ UNCHANGED <<now, clock_ext, screen, delays>>

\* What a user types who means moment t, and the moment they can mean by it.
Coming(s) == now + 1 + ((s - Here(Local) - 1) % Day)

Written(style, t) ==
  CASE style = "12-hour" -> [kind |-> "clock", is |-> Clock12(t + Offset[Local])]
    [] style = "24-hour" -> [kind |-> "clock", is |-> Clock24(t + Offset[Local])]
    [] style = "span"    -> [kind |-> "span", is |-> SpanOf(t - now)]
    [] OTHER             -> [kind |-> "named", is |-> style]

Meant(style, t) ==
  CASE style = "noon"     -> Coming(12 * Hour)
    [] style = "midnight" -> Coming(0)
    [] style = "span"     -> now + (t - now - ((t - now) % Minute))
    [] OTHER              -> Coming(t + Offset[Local] - ((t + Offset[Local]) % Minute))

\* The user says the time instead (--time, or the dashboard's When field).
ReadTyped ==
  /\ result = None /\ screen = <<>>
  /\ \E style \in Styles : \E d \in Ahead["Typed"] :
       \E z \in parse_timespec(Here(Local), Written(style, now + d)) :
         result' = [r |-> [kind |-> "Reset", at |-> z - Offset[Local]],
                    meant |-> Meant(style, now + d)]
  /\ UNCHANGED <<now, clock_ext, screen, delays>>

Next == \/ PrintSession \/ PrintWeekly \/ PrintCodex \/ PrintQuota \/ PrintCut \/ PrintReport
        \/ Pass \/ ReadPane \/ ReadTyped

Spec == Init /\ [][Next]_vars

-----------------------------------------------------------------------------
(***************************************************************************)
(* Properties.                                                             *)
(***************************************************************************)
\* The banner the pane is about: the lowest, if the capture holds its time.
Banners == {i \in DOMAIN screen : screen[i].kind # "noise"}

Complete(line) == line.token # None \/ line.span # None

Live == {screen[i] : i \in {k \in Banners : Complete(screen[k]) /\ \A j \in Banners : j <= k}}

Read(kind) == IF result = None THEN FALSE ELSE result.r.kind = kind

\* Nudge never fires before the reset the lowest banner on the pane is about,
\* in any wording of Wordings, whatever else the pane holds and whenever it is read:
\* what detect.rs calls the silent misfire.
NeverEarly == Read("Reset") => \A b \in Live : result.r.at >= b.reset

\* A banner read while the minute it names is ahead is read as that minute,
\* padded (a span as that far from the reading), in every wording the README
\* lists; what cannot be read, or lies past the horizon, is refused.  A day
\* called tomorrow says so only until midnight.  A typed time is the coming one
\* so called.
ToMinute(t) == t - (t % Minute)

Refusable(b) ==
  \/ b.wording = "two-digit-year"
  \/ b.kind # "Duration" /\ ToMinute(b.reset) - now > MONTH_DAY_HORIZON_DAYS * Day

Dated(b) == LET day(t) == (t + Offset[in_zone(b.zone)]) \div Day
            IN b.wording = "relative" => day(b.printed) = day(now)

Padding == PADDING_MINUTES * Minute

Punctual ==
  result # None =>
    /\ result.meant # None => result.r.at = result.meant
    /\ \A b \in {l \in Live : ToMinute(l.reset) > now} :
         IF Refusable(b) THEN Read("Unreadable")
         ELSE /\ Read("Reset")
              /\ IF b.kind = "Duration"
                 THEN result.r.at <= b.reset + Padding + (now - b.printed)
                 ELSE Dated(b) => result.r.at = ToMinute(b.reset) + Padding

\* A Codex banner is said to have elapsed exactly when it has: the minute it
\* was printed to come has come (read_codex, day_clock_has_passed).  What a bare
\* one says on a later day cannot be told from that day's.
ElapsedExactly ==
  result # None => \A b \in {l \in Live : l.kind = "Codex"} :
    LET day(t) == (t + Offset[Local]) \div Day
        past   == ToMinute(b.reset) <= now
    IN IF b.gap = <<>> /\ day(now) # day(b.reset) THEN Read("Elapsed") => past
       ELSE Read("Elapsed") <=> past

\* Whatever is read, from a banner or typed, is still to come.
InFuture == Read("Reset") => result.r.at > now

\* The two readings of a numeric date are never left to the locale: the
\* calendar and the week settle every one (the comment on pick_reading, and the
\* README: "In practice step 3 never runs").
LocaleNeverDecides ==
  result = None /\ screen = <<>> =>
    \A zone \in Zones : \A a, b \in 1 .. 12 : \A s \in {0, 8 * Hour, Day - Minute} :
      numeric_at(Here(zone), a, b, None, s, "Unknown")
        = numeric_at(Here(zone), a, b, None, s, "MonthFirst")

\* A day that cannot be read makes nudge refuse, wherever the banner puts it
\* (the README: "A day it cannot read unambiguously makes it refuse to
\* schedule", with the two-digit year as the standing example).
UnreadDayRefused ==
  Read("Reset") => \A b \in Live : b.wording \notin {"two-digit-year", "two-digit-year-after"}
=============================================================================
