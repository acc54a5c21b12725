SPECIFICATION FairSpec
CONSTANTS
  Grace = 0
  MaxPoll = 2
  MinRetry = 1
  MinSleep = 1
  Horizon = 9
  Unset = Unset
  Clients = {c1}
  Specs <- OneSpec
  Edits <- KeepAll
  DefaultRetries = 2
  MaxId = 2
  MaxTime = 2
  MaxFaults = 1
PROPERTY DueIsResolved
