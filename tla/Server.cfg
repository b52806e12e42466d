SPECIFICATION Spec
CONSTANTS
  Conns = {a, b}
  Pingers = {p}
  Nobody = Nobody
INVARIANTS
  Watched
  StoppedClean
PROPERTIES
  NoLateRunner
