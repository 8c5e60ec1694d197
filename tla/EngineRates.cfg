\* Two rules count the same host's SYNs and data; timestamps out of order.
SPECIFICATION HSpec
CONSTANTS
  SelfIps <- MCSelfIps
  WithPort <- MCWithPort
  Iface <- MCIface
  AnyPort = AnyPort
  None = None
  Packets <- RatePackets
  Rules <- RateRules
  Second = 2
  CleanupPeriod = 2
  TrackWindow = 4
  StaleAfter = 4
  Skew = 1
  MaxTime = 8
  MaxPackets = 6
INVARIANTS
  ConnsAmongPackets
  NoUnreportedWindow
PROPERTIES
  AlertsJustified
CHECK_DEADLOCK FALSE
