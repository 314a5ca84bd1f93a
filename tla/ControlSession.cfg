SPECIFICATION FairSpec
CONSTANTS
  MaxSessions = 3
  FirstBackoff = 3
  MaxBackoff = 10
INVARIANTS
  TypeOK
  KeptAlive
PROPERTIES
  HeartbeatHarmless
  ImplementsLink
  Recovers
CHECK_DEADLOCK FALSE
