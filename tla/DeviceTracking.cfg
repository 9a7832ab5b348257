SPECIFICATION FairSpec
CONSTANTS
  u1 = u1
  d1 = d1
  q1 = q1
  q2 = q2
  User = {u1}
  Device = {d1}
  Owner <- MCOneOwner
  Query = {q1, q2}
  Keys = {1, 2}
  MaxChanges = 3
  MaxFaults = 1
INVARIANT TypeOK
INVARIANT CurrentUnlessMissed
PROPERTY FingerprintPinned
PROPERTY ListsConverge
CHECK_DEADLOCK FALSE
