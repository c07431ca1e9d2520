SPECIFICATION Spec
CONSTANTS
  HexBelow <- SomeHexBelow
  Uploads <- SomeUploads
  Calls <- SomeCalls
  MaxTemps = 6
  MaxFailures = 4
INVARIANTS
  TempsAreKept
  StaysDefined
  RestoredIsSaved
  EnvironmentIsValid
  UpdateIsWhole
  FormIsRead
  HeadersAreRead
  FieldsAreRead
  CookiesAreRead
  MacIsKept
  PageShowsText
CHECK_DEADLOCK FALSE
