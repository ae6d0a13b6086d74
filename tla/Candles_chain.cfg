\* Minutes and two longer intervals, each closed at least once; five events, one more than
\* the rows kept.  The clock stops at its bound, or earlier when no whole pass comes.
SPECIFICATION Spec
CONSTANTS
  Values <- Chain
  WeekLevel = 0
  Offset = 0
  Kept = 4
  ChanSize = 1
  MaxEvents = 5
  MaxNow = 8
  MaxLag = 1
INVARIANTS
  TypeOK
  CoversItsInterval
  ClosedIsComplete
  OpensWithItsFirst
PROPERTIES
  NeverLosesData
CHECK_DEADLOCK FALSE
