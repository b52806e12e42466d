SPECIFICATION FairSpec
CONSTANTS
  Threads = {t1, t2}
  Main = main
  None = none
  NbrOfSinks = 2
  Level = 3
  Levels = {1, 4}
  Domains = {d1}
  MaxEvents = 2
INVARIANTS
  SinksAgree
  EntriesIntact

  
  
