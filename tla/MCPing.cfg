SPECIFICATION Spec
CONSTANTS
  Slots = 3
  Half = 2
  MaxFds = 3
  MaxTests = 7
INVARIANTS
  OkIsOwnOrZero
  OwnAnswerCounts
  SocketsOnlyLeakByFailure
CHECK_DEADLOCK FALSE
