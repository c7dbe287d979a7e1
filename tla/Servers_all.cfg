CONSTANTS
  Clients = {a, b}
  Messages = 2
  PipeCap = 1
  Nobody = Nobody
SPECIFICATION FairSpec
CHECK_DEADLOCK FALSE
INVARIANTS
  TypeOK
PROPERTIES
  InOrder
  Served
