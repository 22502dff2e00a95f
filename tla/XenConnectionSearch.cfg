SPECIFICATION SafeSpec
CONSTANTS
  MaxAttempts = 2
  MaxEvents = 1
  Members = 2
  MAX_CONSECUTIVE_ERRORS = 2
INVARIANTS
  SearchGoesOn

CHECK_DEADLOCK FALSE
