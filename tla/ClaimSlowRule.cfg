\* A rule with an interval longer than timestamps are kept.
SPECIFICATION HSpec
CONSTANTS
  SelfIps <- MCSelfIps
  WithPort <- MCWithPort
  Iface <- MCIface
  AnyPort = AnyPort
  None = None
  Packets <- RatePackets
  Rules <- SlowRules
  Second = 2
  CleanupPeriod = 2
  TrackWindow = 3
  StaleAfter = 4
  Skew = 0
  MaxTime = 10
  MaxPackets = 4
INVARIANTS
  PruningIsSafe
CHECK_DEADLOCK FALSE
