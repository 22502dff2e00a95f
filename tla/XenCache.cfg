SPECIFICATION Spec
CONSTANTS
  Thread = {main, connect, worker}
  Ref = {vm, host}
  Object = {o1, o2, o3, o4}
  NoRef = NoRef
  NoObject = NoObject
  MaxUpdates = 3
SYMMETRY Symmetric
INVARIANTS
  TypeOK
  StaleIsMarked
  OneObject
  ObjectIsFresh
PROPERTIES
  EvictedIsFinal
CHECK_DEADLOCK FALSE
