SPECIFICATION Spec
CONSTANTS
  Ref = {vm, console}
  Consoles = {console}
  Bare = {console}
  MaxChanges = 3
  MaxAttempts = 2
  MAX_CONSECUTIVE_ERRORS = 2
INVARIANTS
  TypeOK
  NothingIsMissed
PROPERTIES
  MirrorsServer
  Converges
CHECK_DEADLOCK FALSE
