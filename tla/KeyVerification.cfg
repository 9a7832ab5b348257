SPECIFICATION MCQuickSpec
CONSTANTS
  a = a
  b = b
  Side = {a, b}
  EventTimeout = 1
  MaxAge = 2
  MaxLife = 3
  MacKeys <- MCNioMacs
  Known = {TRUE}
  MaxTxn = 2
  MaxCalls = 5
  MaxFaults = 1
INVARIANT TypeOK
INVARIANT MutualConfirmation
INVARIANT KeyAgreement
PROPERTY GoalSpec
SYMMETRY MCSides
CHECK_DEADLOCK FALSE
