SPECIFICATION MCSpec
CONSTANTS
  u1 = u1
  n1 = n1
  User = {u1}
  Name = {n1}
  NoName = NoName
  Unchanged = Unchanged
  MaxEvents = 3
  MaxTurns = 2
INVARIANT RoomsConsistent
INVARIANT RoomCurrent
INVARIANT NothingLost
PROPERTY NoSyncAfterStop
