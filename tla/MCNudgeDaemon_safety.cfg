SPECIFICATION Spec
CONSTANTS
  Grace = 1
  MaxPoll = 2
  MinRetry = 1
  MinSleep = 1
  Horizon = 3
  Unset = Unset
  Clients = {c1}
  Specs <- TwoSpecs
  Edits <- PutOff
  DefaultRetries = 1
  MaxId = 2
  MaxTime = 3
  MaxFaults = 1
INVARIANTS
  TypeOK
  Agreement
  RetryBudget
  LateAtMostOnce
  NoSilentLoss
  RetryNeverResumed
PROPERTIES
  SleepIsShort
  ImplementsJobs
