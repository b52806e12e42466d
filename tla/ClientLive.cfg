SPECIFICATION FairSpec
CONSTANTS
  Launcher = Launcher
  Check = Check
  Refreshes = {r}
  Conns = {c, d}
  None = None
  MaxNbrOfServers = 2
  PeriodicCheck = FALSE
  AutoConnect = TRUE
  Managed = TRUE
  Broadcasts = FALSE
INVARIANTS
  OneReceiver
PROPERTIES
  RefreshEnds
  StopReturns
