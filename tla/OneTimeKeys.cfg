SPECIFICATION AccountFairSpec
CONSTANTS
  none = none
  NoCount = none
  MaxOneTimeKeys = 2
  MaxKeys = 4
  MaxClaims = 2
  MaxFaults = 2
INVARIANT AccountTypeOK
INVARIANT GivenOutOnce
INVARIANT SessionsJoin
PROPERTY Refills
CHECK_DEADLOCK FALSE
