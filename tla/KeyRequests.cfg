SPECIFICATION MCSpec
CONSTANTS
  d1 = d1
  d2 = d2
  s1 = s1
  Nobody = Nobody
  Device = {d1, d2}
  Id = {s1}
  MaxEvents = 3
  MaxMarks = 2
  MaxFaults = 1
INVARIANT QueuesAgree
INVARIANT TrustPersists
PROPERTY SharedOnlyOnRequest
PROPERTY RequestsSettle
CHECK_DEADLOCK FALSE
