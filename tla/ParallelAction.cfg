SPECIFICATION Spec
CONSTANTS
  N = 3
  Widths = {0, 2}
  c1 = c1
  c2 = c2
  NoConn = NoConn
  OwnConn = c1
  Conn <- MCConn
INVARIANTS
  TypeOK
  SuccessIsComplete
  StartsNoMore
PROPERTIES
  Ends
  PoolPerConnection
CHECK_DEADLOCK FALSE
