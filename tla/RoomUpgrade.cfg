SPECIFICATION MCSpec
CONSTANTS
  a1 = a1
  a2 = a2
  Alias = {a1, a2}
  Canonical = a1
  Limits = {1}
  FileSize = 2
  MaxFaults = 2
INVARIANT CallPromise
INVARIANT UploadedWhole
INVARIANT UpgradeSound
PROPERTY UpgradeEnds
CHECK_DEADLOCK FALSE
