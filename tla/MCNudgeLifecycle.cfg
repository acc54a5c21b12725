SPECIFICATION FairSpec
CONSTANTS
  None = None
  Stale = Stale
  Daemons = {1, 2}
  Clients = {"c1"}
  Peers = {"p1"}
  MAX_WORKERS = 1
  BuildOf <- Builds
  Managers = {"Systemd", "Launchd"}
  MaxPolls = 1
  MaxWaits = 2
  MaxAdmin = 3
  MaxFaults = 2
INVARIANTS
  TypeOK
  OneScheduler
  SocketKept
  SlotsAreWorkers
  NoteIsTrue
CHECK_DEADLOCK FALSE
PROPERTIES
  ReachableOrGone
  RestartsEnd
  NoneWaitsForever
