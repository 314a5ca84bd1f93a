SPECIFICATION LiveSpec
CONSTANTS
  Id = {i1, i2}
  MaxSessions = 2
  MaxRelays = 2
  MaxInbox = 1
INVARIANTS
  TypeOK
  Tracked
  NothingLeft
PROPERTIES
  OwnFrames
  FeedsOwn
  AppEndIsSeen
  SessionGoes
CHECK_DEADLOCK FALSE
