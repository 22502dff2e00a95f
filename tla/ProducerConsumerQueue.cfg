SPECIFICATION Spec
CONSTANTS
  w1 = w1
  w2 = w2
  t1 = t1
  t2 = t2
  c1 = c1
  c2 = c2
  NullTask = NullTask
  Workers <- MCWorkers
  Tasks <- MCTasks
  Callers <- MCCallers
INVARIANTS
  TypeOK
  WorkConserving
  GracefulStop
PROPERTIES
  StopTerminates
  PoolSpec
CHECK_DEADLOCK FALSE
