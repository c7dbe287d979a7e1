CONSTANTS
  Readers = {r1}
  Writers = {w1, w2}
  ProcReaders = {p1}
  BufSize = 2
  Counts = {1, 3}
  MaxMessage = 2
  MaxOffset = 3
  Placers = {w2}
  Offsets = {1, 3}
  None = None
SPECIFICATION LoadFairSpec
CHECK_DEADLOCK FALSE
INVARIANTS
  TypeOK
  CopiesStayInside
  WaitersHaveHolder
  ReadsAreWhole
  OneHolder
  OpenNeedsDriver
  LeavesOnlyKnown
PROPERTIES
  ClientsEnd
  ProcShowsNode
