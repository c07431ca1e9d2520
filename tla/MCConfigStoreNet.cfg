SPECIFICATION FairSpec
CONSTANTS
  NetPairs <- SomeNetPairs
  TestNets <- SomeTestNets
  CapturePairs <- None
  FilterPairs <- None
  Keys <- None
  KeyMax = 3
  UserNames = {1, 2, 3}
  InitPa <- Delivered
  ClassMask = 8
  Crashes = TRUE
INVARIANTS
  DriftOnlyByFailure
  NetConfigOkMeansApplied
PROPERTY RequestEnds
CHECK_DEADLOCK FALSE
