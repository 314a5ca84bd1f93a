SPECIFICATION Spec
CONSTANTS
  Job = {j1, j2, j3}
  Port = {p1, p2}
  Conn = {c1, c2, c3, c4}
  PoolLimit = 1
  PoolTTL = 0
  MaxTime = 1
  NoConn = NoConn
SYMMETRY Symmetry
INVARIANT NoIndexError
CHECK_DEADLOCK FALSE
