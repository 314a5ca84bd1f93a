SPECIFICATION Spec
CONSTANTS
  MaxSessions = 2
  Req = {r1, r2}
  MaxConcurrent = 2
  MinParts = 1
  MaxParts = 1
  MaxChunks = 1
  MaxInbox = 2
SYMMETRY Symmetry
INVARIANT HeadFirst
CHECK_DEADLOCK FALSE
