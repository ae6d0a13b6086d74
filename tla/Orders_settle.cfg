\* One recharge and two miners, two goroutines, one crash.  The orders may all
\* be settled, and then it stops.
SPECIFICATION FairSpec
CONSTANTS
  Recharges = {1}
  Miners = {2, 3}
  Management = {}
  Slots = {t1, t2}
  MaxCrashes = 1
  Year = 2024
  Unix = 1700000000
  Nobody = Nobody
INVARIANTS
  PaidOnce
  BookedIsSettled
  SettledIsBooked
PROPERTIES
  EveryFoundOrderSettled
CHECK_DEADLOCK FALSE
