CONSTANTS
  MotionValues = {0, 1}
  DistanceValues = {3, 4}
  DoorValues = {0, 1}
  Statuses = {0, 1}
  PipeCap = 1
  QueueCap = 1
  FdLimit = 16
  Faults = {}
SPECIFICATION FairSpec
CHECK_DEADLOCK FALSE
INVARIANTS
  NeverStalls
PROPERTIES
  VisitEnds
  ValidDistanceRings
  RingLooksAtDoor
  FailureRestarts
  BootScans
