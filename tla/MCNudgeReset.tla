----------------------------- MODULE MCNudgeReset -----------------------------
(* Values for the instances of NudgeReset that TLC checks. *)
EXTENDS NudgeReset

Clocks == [z \in {"here", "there"} |-> IF z = "here" THEN 0 ELSE -7 * Hour]

Env == <<None, "DE", "US">>

\* No regular expression, and one that matches weekly and Codex banners too.
Set == {Invalid, {"Weekly", "Codex"}}

Moment(y, m, d, hour, minute, second) ==
  DayOf(y, m, d) * Day + hour * Hour + minute * Minute + second

\* Where the calendar is difficult: the end of a year, of a February with and
\* without a 29th, and a day whose two numeric readings are both within a month.
Days == {Moment(2027, 12, 30, 22, 10, 30), Moment(2028, 2, 27, 8, 0, 0),
         Moment(2027, 2, 24, 0, 0, 0), Moment(2027, 7, 7, 23, 50, 0), Moment(2027, 10, 31, 15, 4, 59)}

Resets == [k \in {"Clock", "Weekly", "Codex", "Duration", "Typed"} |->
  CASE k = "Clock"    -> {4 * Hour + 40}
    [] k = "Weekly"   -> {7 * Hour, 25 * Hour + 600, 7 * Day}
    [] k = "Codex"    -> {90 * Minute, 30 * Hour + 20, 40 * Day}
    [] k = "Duration" -> {4 * Hour + 50}
    [] k = "Typed"    -> {30 * Minute, 13 * Hour, Day}]

Said == {"bare", "dated", "trailing", "full", "weekday", "relative", "month/day", "day/month",
         "with-year", "ISO", "two-digit-year"}

\* A reset a week ahead, worded so that its day cannot be read.
NextWeek  == [k \in DOMAIN Resets |-> {7 * Day}]
SaidAfter == {"two-digit-year-after"}
=============================================================================
