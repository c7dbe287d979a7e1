CONSTANTS
  Readers = {}
  Writers = {w1, w2}
  ProcReaders = {}
  BufSize = 3
  Counts = {1, 2}
  MaxMessage = 2
  MaxOffset = 0
  Placers = {}
  Offsets = {}
  None = None
SPECIFICATION Spec
CHECK_DEADLOCK FALSE
INVARIANTS
  CountDescribesBuffer
