SPECIFICATION Spec
CONSTANTS
  c1 = c1
  c2 = c2
  Clients = {c1, c2}
  Daemon = daemon
  MaxMsg = 1
  MaxOrphans = 1
  MaxLost = 1
  NetPairs <- SomeNets
  TestNets <- None
  CapturePairs <- None
  FilterPairs <- SomeFilters
  Keys <- None
  KeyMax = 3
  UserNames <- None
  InitPa <- Delivered
  ClassMask = 24
  Crashes = TRUE
  Ask <- SomeAsk
INVARIANT ConfirmedIsDurable
CHECK_DEADLOCK FALSE
