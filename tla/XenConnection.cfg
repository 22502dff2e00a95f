SPECIFICATION Spec
CONSTANTS
  MaxAttempts = 2
  MaxEvents = 1
  Members = 2
  MAX_CONSECUTIVE_ERRORS = 2
INVARIANTS
  TypeOK
  EndedStaysEnded
  LoadedStays
  PollerHasSession
PROPERTIES
  PollersEnd
  LostIsRetried
CHECK_DEADLOCK FALSE
