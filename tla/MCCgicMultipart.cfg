SPECIFICATION FairSpec
CONSTANTS
  Bytes <- SomeBytes
  Bodies <- SomeBodies
  PutbackSize = 8
  HeaderSpace = 2
INVARIANTS
  TypeOK
  PutBackInOrder
  StreamInBounds
  BoundariesAreFound
PROPERTY ParserEnds
CHECK_DEADLOCK FALSE
