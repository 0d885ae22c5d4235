SPECIFICATION FairSpec
CONSTANTS
  r1 = r1
  r2 = r2
  a = a
  b = b
  c = c
  Request = {r1, r2}
  Origin = {a, b}
  Limits <- SomeLimits
  MaxOrigins = 2
  Delays = {0, 1, 2}
  MaxDelay = 1
  Memory = 1
  Horizon = 3
PROPERTIES
  WaitsOnlyWhileClosed
CHECK_DEADLOCK FALSE
