SPECIFICATION MCFairSpec
CONSTANTS
  u1 = u1
  u2 = u2
  d1 = d1
  d2 = d2
  t1 = t1
  t2 = t2
  User = {u1, u2}
  Device = {d1, d2}
  Owner <- MCOwner
  Task = {t1, t2}
  ChunkSize = 1
  MaxMessages = 1
  MayGiveUp = TRUE
  MaxCalls = 3
  MaxChanges = 1
PROPERTY CallsEnd
CHECK_DEADLOCK FALSE
