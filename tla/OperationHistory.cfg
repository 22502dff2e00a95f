SPECIFICATION Spec
CONSTANTS
  Task = {mine, theirs}
  Own = {mine}
  Recognized = {mine}
  Address = {a, b, c, d, e, f, g, h}
  MaxSessions = 1
  MaxToggles = 1
  MaxBegun = 2
  MaxQueue = 2
INVARIANTS
  TypeOK
  RecordIsFound
  MonitoredOnce
  EndIsRecorded
PROPERTIES
  MonitorEnds
CHECK_DEADLOCK FALSE
