SPECIFICATION Spec
CONSTANTS
  NetPairs <- None
  TestNets <- None
  CapturePairs <- SomeCaptures
  FilterPairs <- SomeFilters
  Keys <- SomeKeys
  KeyMax = 3
  UserNames = {1, 2, 3}
  InitPa <- Settled
  ClassMask = 8
  Crashes = TRUE
INVARIANTS
  TypeOK
  SavedIsOnDisk
  TornOnlyByCrash
  FileIsLoadable
CHECK_DEADLOCK FALSE
