SPECIFICATION Spec
CONSTANTS
  Launcher = Launcher
  Check = Check
  Refreshes = {q, r}
  Conns = {c, d}
  None = None
  MaxNbrOfServers = 1
  PeriodicCheck = TRUE
  AutoConnect = TRUE
  Managed = FALSE
  Broadcasts = TRUE
SYMMETRY Symmetry
CONSTRAINT Apart
INVARIANTS
  TearsDownOwn
  QuietSurvives
