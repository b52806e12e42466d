SPECIFICATION FairTimerSpec
CONSTANTS
  Callers = {c1, c2}
  Owner = owner
  MaxTimers = 2
INVARIANTS
  NoStaleEntry
  OneCallAfterCancel
  CrashNeedsCancel
PROPERTIES
  TimersFire
  CancelledEnds
