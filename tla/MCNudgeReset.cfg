SPECIFICATION Spec
CONSTANTS
  None = None
  Zones = {"here", "there"}
  Offset <- Clocks
  Local = "here"
  Locale <- Env
  Invalid = Invalid
  Patterns <- Set
  Starts <- Days
  Ahead <- Resets
  Wordings <- Said
  Delays = {5400, 90000}
  Styles = {"12-hour", "24-hour", "span", "noon", "midnight"}
  MaxLines = 2
  MaxDelays = 2
INVARIANTS
  NeverEarly
  Punctual
  ElapsedExactly
  InFuture
  LocaleNeverDecides
CHECK_DEADLOCK FALSE
