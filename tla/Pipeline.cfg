\* Two blocks of three packets, so that the ring wraps; a channel of one, which overflows; rings of the
\* flow table that wrap and a table that evicts; a connection that opens and closes, beside packets
\* that the two parsers do not agree about.
SPECIFICATION DSpec
CONSTANTS
  Headers <- MCHeaders
  Ports <- MCPorts
  NoRef = NoRef
  NoBlock = NoBlock
  NoKey = NoKey
  None = None
  MaxBatch = 3
  MaxBuckets = 3
  Blocks = 2
  BlockCap = 3
  MaxPackets = 3
  Slots = 2
  Window = 1
  MaxFlows = 1
  QueueCap = 1
  MaxTime = 2
  RetireAfter = 1
  Rules <- MCRules
  SelfIps <- MCSelfIps
  Iface = "eth0"
  AnyPort = AnyPort
  Second = 1
  CleanupPeriod = 1
  TrackWindow = 2
  StaleAfter = 2
INVARIANTS
  KernelOrderKept
  ConnsInKernelOrder
PROPERTIES
  ImplementsEngine
CHECK_DEADLOCK FALSE
