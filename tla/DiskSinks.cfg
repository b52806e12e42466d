SPECIFICATION DiskSpec
CONSTANTS
  Width = 5
  MaxFiles = 3
  MaxSize = 3
  Sizes = {1, 2, 4}
  MaxLogged = 9
  MaxStarts = 3
  Capacity = 2
  Places = {p1, p2}
  MaxErrorsLogged = 4
  MaxIds = 3
INVARIANTS
  WithinLimits
  KeptIsSuffix
  FilesAreRuns
PROPERTIES
  RestartContinues
  FlushIsContext
