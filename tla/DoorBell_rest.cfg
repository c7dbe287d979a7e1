CONSTANTS
  MotionValues = {0, 1}
  DistanceValues = {3, 4}
  DoorValues = {0, 1, 2}
  Statuses = {0, 1}
  PipeCap = 2
  QueueCap = 2
  FdLimit = 16
  Faults = {}
SPECIFICATION ClaimsSpec
CHECK_DEADLOCK FALSE
INVARIANTS
  RestAfterThreeRings
