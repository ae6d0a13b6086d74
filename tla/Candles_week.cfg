\* Days and weeks.
SPECIFICATION Spec
CONSTANTS
  Values <- Week
  WeekLevel = 2
  Offset = 3
  Kept = 14
  ChanSize = 1
  MaxEvents = 1
  MaxNow = 7
  MaxLag = 1
INVARIANTS
  CoversItsInterval
CHECK_DEADLOCK FALSE
