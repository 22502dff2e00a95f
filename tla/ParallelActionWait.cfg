SPECIFICATION SafeSpec
CONSTANTS
  N = 3
  Widths = {2}
  c1 = c1
  c2 = c2
  NoConn = NoConn
  OwnConn = c1
  Conn <- MCConn
INVARIANTS
  WaitsForSomething
CHECK_DEADLOCK FALSE
