SPECIFICATION Spec
CONSTANTS
  MaxTasks = 2
  MaxLost = 1
INVARIANTS
  TypeOK
  NothingLeftBehind
  ReportsMatchError
  CompletedMeansTasksDone
PROPERTIES
  Ends
CHECK_DEADLOCK FALSE
