\* Two blocks of four packets, batches of three: the ring wraps and fills, batches overflow.  The
\* thread is fair, the kernel promises nothing.
SPECIFICATION FairSpec
CONSTANTS
  http = http
  dns = dns
  Ports <- MCPorts
  NoRef = NoRef
  NoBlock = NoBlock
  MaxBatch = 3
  MaxBuckets = 3
  Blocks = 2
  BlockCap = 4
  MaxPackets = 7
INVARIANTS
  InStep
  RefsAlive
  NothingLeaks
  StableGrouping
PROPERTIES
  BlockFullyTaken
  ImplementsPortFifo
  RetiredBlocksReturn
CHECK_DEADLOCK FALSE
