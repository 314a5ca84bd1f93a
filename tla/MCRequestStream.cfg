SPECIFICATION Spec
CONSTANTS
  MaxSessions = 2
  Req = {r1, r2}
  MaxConcurrent = 2
  MinParts = 2
  MaxParts = 2
  MaxChunks = 2
  MaxInbox = 2
SYMMETRY Symmetry
INVARIANTS
  TypeOK
  RequestWhole
  ReplyInOrder
  SlotsAccounted
  NothingKept
  NeverStuck
CHECK_DEADLOCK FALSE
