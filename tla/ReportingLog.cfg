\* The log file: two burst lines, a cleanup line and two burst tasks.
SPECIFICATION Spec
CONSTANTS
  LogToFile = TRUE
  Forward = FALSE
  Entries = 1
  None = None
  MaxAlerts = 0
  MaxBursts = 2
  MaxCleanups = 1
INVARIANTS
  LinesIntact
  BurstsFollowLines
CHECK_DEADLOCK FALSE
