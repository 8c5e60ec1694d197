\* One connection, a beacon and a rule on established traffic; timestamps out of order.
SPECIFICATION HSpec
CONSTANTS
  SelfIps <- MCSelfIps
  WithPort <- MCWithPort
  Iface <- MCIface
  AnyPort = AnyPort
  None = None
  Packets <- ConnPackets
  Rules <- ConnRules
  Second = 2
  CleanupPeriod = 2
  TrackWindow = 3
  StaleAfter = 3
  Skew = 1
  MaxTime = 7
  MaxPackets = 4
INVARIANTS
  EstablishedRulesCountNone
  NothingStale
  StateOfLastControl
CHECK_DEADLOCK FALSE
