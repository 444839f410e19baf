SPECIFICATION FairSpec
CONSTANTS
  MaxMessages = 2
  MaxAttempts = 3
  MaxRestarts = 1
INVARIANTS
  TypeOK
  AnsweredIsHandled
  RunsAreAttempts
PROPERTIES
  Accounted
CHECK_DEADLOCK FALSE
