SPECIFICATION Spec
CONSTANTS
  Proc = {p1, p2}
  Name = {1, 2}
  Block <- MCBlock
  MaxBatch = 2
  NoFile = NoFile
  MaxMishaps = 1
  MaxCommands = 4
SYMMETRY Alike
INVARIANTS
  TypeOK
  SavedWasRegistered
  DistinctPorts
  LiveIsSaved
  InBlock
  SameAccount
  DefaultIsSaved
PROPERTY StickyKept
CHECK_DEADLOCK FALSE
