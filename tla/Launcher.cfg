SPECIFICATION FairSpec
CONSTANTS
  N = 3
  Subscribers = {1, 3}
  Posters = {1, 2}
  Early = {2}
  Stallers = {1}
  Closers = {3}
  SignalLimit = 2
  Takers = {"main", "other"}
INVARIANTS
  NoMissedRequest
PROPERTIES
  SubscribeMeetsEarlyOnly
  RequestServed
