SPECIFICATION Spec
CONSTANTS
  NetPairs <- None
  TestNets <- None
  CapturePairs <- SomeCaptures
  FilterPairs <- None
  Keys <- None
  KeyMax = 3
  UserNames = {1, 2, 3}
  InitPa <- Delivered
  ClassMask = 8
  Crashes = TRUE
INVARIANT LoadsWhatWasSaved
CHECK_DEADLOCK FALSE
