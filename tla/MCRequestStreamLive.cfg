SPECIFICATION FairSpec
CONSTANTS
  MaxSessions = 1
  Req = {r1, r2, r3}
  MaxConcurrent = 2
  MinParts = 1
  MaxParts = 1
  MaxChunks = 0
  MaxInbox = 1
PROPERTIES
  EveryRequestFinishes
  ImplementsExchange
CHECK_DEADLOCK FALSE
