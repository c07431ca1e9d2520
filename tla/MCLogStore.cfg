SPECIFICATION Spec
CONSTANTS
  PageMax = 2
  Lengths = {1, 2}
  Filters <- SomeFilters
  FirstTime = 9
  SetTimes = {9}
  MaxTime = 10
  MaxLog = 3
  MaxRead = 4
INVARIANTS
  PagesAreSelection
  SelectsByTime
CHECK_DEADLOCK FALSE
