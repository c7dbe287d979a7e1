CONSTANTS
  MotionValues = {0, 1}
  DistanceValues = {3, 4}
  DoorValues = {0, 1, 2}
  Statuses = {0, 1}
  PipeCap = 2
  QueueCap = 1
  FdLimit = 10
  Faults = {"file", "exec", "create", "ps", "slowstart", "queue"}
SPECIFICATION Spec
CHECK_DEADLOCK FALSE
INVARIANTS
  EventsUnderstood
