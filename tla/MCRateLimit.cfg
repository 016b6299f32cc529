CONSTANTS
  Callers = {c1, c2}
  Clients = {alice}
  Capacity = 2
  FillRate = 1
  Needs <- MCNeeds
  MaxTime = 3
  Modulus = 16
  NoBucket = NoBucket
SPECIFICATION LimiterSpec
CHECK_DEADLOCK FALSE
INVARIANT LimitHolds
