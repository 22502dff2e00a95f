SPECIFICATION SafeSpec
CONSTANTS
  MaxTasks = 2
  MaxLost = 1
INVARIANTS
  CompletedMeansTasksEnded
CHECK_DEADLOCK FALSE
