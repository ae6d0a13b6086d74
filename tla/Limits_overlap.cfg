\* Two requests at a time, of two users, that meet small limits.
SPECIFICATION FairSpec
CONSTANTS
  Users = {u1, u2}
  Slots = {t1, t2}
  MaxNum = 2
  IssuesNum = 2
  MinersIssued = 3
  BuyLimit = 1
  TotalNum = 2
  DayWithdrawNum = 1
  MaxPlaced = 3
  Nobody = Nobody
INVARIANTS
  CountersAreOrdered
  LimitsBendAsCounted
PROPERTIES
  KeptIfReadStillHolds
  EveryRequestEnds
CHECK_DEADLOCK FALSE
