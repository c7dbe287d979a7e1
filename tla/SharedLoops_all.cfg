CONSTANTS
  Ups = {a, u2}
  Downs = {b}
  A = a
  B = b
  Rounds = 2
  Start = 1
  Nobody = Nobody
  Lost = Lost
SPECIFICATION FairSpec
CHECK_DEADLOCK FALSE
INVARIANTS
  TypeOK
  LosesNothing
  DriftBounded
PROPERTIES
  PrintedIsFinal
  EndsUnlessOwnerKilled
