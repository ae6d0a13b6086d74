\* Two requests at a time, two accounts of one mobile and a code more, a failure
\* of each kind, two tokens, which last half as long as a key of the cache.
SPECIFICATION Spec
CONSTANTS
  Slots = {s1, s2}
  Mobiles = {m1}
  Users = 2
  Tokens = 2
  Codes = 3
  Faults = 1
  Period = 2
  Life = 1
  MaxNow = 3
INVARIANTS
  AccountsByOverlap
  AccountsByCodes
  LiveTokensByOverlap
  AcceptedWasGood
