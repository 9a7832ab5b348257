SPECIFICATION FairSpec
CONSTANTS
  s1 = s1
  e1 = e1
  e2 = e2
  Session = {s1}
  MaxIndex = 1
  EventId = {e1, e2}
  CacheSize = 1
  MaxMessages = 4
  MaxFaults = 1
INVARIANT ReplayCheck
INVARIANT ForwardedIsKnown
PROPERTY OneDummyAnHour
PROPERTY MissingKeysCome
CHECK_DEADLOCK FALSE
