\* Two jobs, two runs of each, one requester, and any number of signals.
\* The process ends.
SPECIFICATION FairSpec
CONSTANTS
  Jobs = {j1, j2}
  Runs = {1, 2}
  Requesters = {a1}
INVARIANTS
  WorkIsAwaited
  ClosedOnce
PROPERTIES
  ShutdownEnds
  RequestsReturn
CHECK_DEADLOCK FALSE
