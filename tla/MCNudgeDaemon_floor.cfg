SPECIFICATION Spec
CONSTANTS
  Grace = 2
  MaxPoll = 2
  MinRetry = 2
  MinSleep = 1
  Horizon = 9
  Unset = Unset
  Clients = {c1}
  Specs <- OneRetry
  Edits <- KeepAll
  DefaultRetries = 2
  MaxId = 3
  MaxTime = 7
  MaxFaults = 0
PROPERTY RetryFloor
