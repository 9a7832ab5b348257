SPECIFICATION MCSpec
CONSTANTS
  a1 = a1
  a2 = a2
  Alias = {a1, a2}
  Canonical = a1
  Limits = {}
  FileSize = 1
  MaxFaults = 1
INVARIANT RateLimitsAreRetried
CHECK_DEADLOCK FALSE
