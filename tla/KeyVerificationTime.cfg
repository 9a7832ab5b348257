SPECIFICATION MCFairSpec
CONSTANTS
  a = a
  b = b
  Side = {a, b}
  EventTimeout = 1
  MaxAge = 2
  MaxLife = 3
  MacKeys <- MCOtherMacs
  Known = {TRUE, FALSE}
  MaxTxn = 1
  MaxCalls = 4
  MaxFaults = 0
PROPERTY CancelIsFinal
PROPERTY VerificationsEnd
CHECK_DEADLOCK FALSE
