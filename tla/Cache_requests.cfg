\* Two requests while keys change, a cache of two entries; loads of the home page may
\* fail and the loader of the configuration may panic.
\* Requests end, or wait for a call that does not.
SPECIFICATION FairSpec
CONSTANTS
  Callers = {c1, c2}
  home = home
  config = config
  None = None
  Names <- MCNames
  Period <- MCPeriod
  Inner <- MCInner
  Fails <- MCFails
  Panics = {config}
  Size = 2
  MaxNow = 3
INVARIANTS
  TypeOK
  OneInFlight
  NoCallLeft
  NotTooOld
PROPERTIES
  EveryRequestEnds
CHECK_DEADLOCK FALSE
