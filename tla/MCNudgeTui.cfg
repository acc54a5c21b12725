SPECIFICATION Spec
CONSTANTS
  None = None
  DefaultText <- Words
  DefaultRetries = 2
  Delays = {"kept", "default"}
  DefaultDelays = "default"
  Seeds <- Lists
  PanesOn <- PanesOf
  Title <- Titles
  Me = 1
  Letters = {"a", "b"}
  Chars = {"word", "space"}
  Readings = {"Reset", "None"}
  ResetAt = 2
  ManualTimes = {3}
  RetryAt = 4
  Times = {1, 2, 3, 4}
  MaxText = 5
  MaxKeys = 6
  MaxEvents = 1
  MaxId = 4
INVARIANTS
  TypeOK
  FormCoherent
  CursorInRange
  CursorHasColumn
  WordMotions
  PickerOffersMatches
  ShownIsOfActivePane
  EditKeepsRest
  EditNotDoubled
  StampIsTrue
CHECK_DEADLOCK FALSE
