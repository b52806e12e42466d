SPECIFICATION FairNetSpec
CONSTANTS
  Conns = {a}
  Framed = a
  Pingers = {p}
  Nobody = Nobody
  Length = 3
  Buffer = 4
  MaxMessages = 2
PROPERTIES
  LineSpec
  Drains
  StopReturns
  
