CONSTANTS
  Rounds = 2
  Faults = {"fork", "create", "kill"}
  Gone = Gone
  Left = {Gone}
SPECIFICATION FairSpec
CHECK_DEADLOCK FALSE
INVARIANTS
  TypeOK
  Exclusive
  ResultKept
  FreeWhenUnused
  PrintsLast
PROPERTIES
  MainEnds
