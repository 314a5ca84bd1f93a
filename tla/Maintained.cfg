SPECIFICATION FairSpec
CONSTANTS
  MaxSessions = 3
  FirstBackoff = 3
  MaxBackoff = 10
PROPERTY Maintained
CHECK_DEADLOCK FALSE
