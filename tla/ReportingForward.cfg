\* Forwarding beside a burst, with a peer that may leave at any time.
SPECIFICATION FairSpec
CONSTANTS
  LogToFile = TRUE
  Forward = TRUE
  Entries = 0
  None = None
  MaxAlerts = 2
  MaxBursts = 1
  MaxCleanups = 0
INVARIANTS
  StreamComplete
  OnlyTailTorn
  ForwardedOnce
PROPERTIES
  AllReported
CHECK_DEADLOCK FALSE
