SPECIFICATION FairSpec
CONSTANTS
  Loggers = {l1, l2}
  Entries = {e1, e2}
  MaxEntries = 3
  NoEntry = NoEntry
  Free = Free
INVARIANTS
  OneMoreAtMost
PROPERTIES
  JoinHangsOnlyAsleep
  EveryEntryPrinted
  QueueSpec
