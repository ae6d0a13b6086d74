\* One bought management product, two goroutines, no crash.
SPECIFICATION FairSpec
CONSTANTS
  Recharges = {}
  Miners = {}
  Management = {1}
  Slots = {t1, t2}
  MaxCrashes = 0
  Year = 2024
  Unix = 1700000000
  Nobody = Nobody
PROPERTIES
  EveryProductSettled
CHECK_DEADLOCK FALSE
