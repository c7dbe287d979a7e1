CONSTANTS
  Clients = {a, b}
  Messages = 2
  PipeCap = 1
  Nobody = Nobody
SPECIFICATION Spec
CHECK_DEADLOCK FALSE
INVARIANTS
  EachItsThread
