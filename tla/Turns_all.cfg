CONSTANTS
  Rounds = 3
  Nobody = Nobody
SPECIFICATION FairSpec
CHECK_DEADLOCK FALSE
INVARIANTS
  TypeOK
  NotAllWait
  TurnsInOrder
PROPERTIES
  AllEnd
