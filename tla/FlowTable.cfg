\* Two-slot rings, room for two of three flows: wraps, evictions, idle removals, bursts.  Frames may
\* stop or go on for ever.
SPECIFICATION FairSpec
CONSTANTS
  FlowKey <- MCFlowKey
  Data <- MCData
  FlowKeyOf <- MCFlowKeyOf
  a = a
  b = b
  c = c
  arp = arp
  NoKey = NoKey
  None = None
  Slots = 2
  Window = 2
  MaxFlows = 2
  QueueCap = 2
  MaxTime = 3
INVARIANTS
  TypeOK
  RingsAgree
  Segregated
  TableBound
  BurstSound
PROPERTIES
  LosesOnlyIdleOrLeastRecent
  ImplementsFlowWindow
  IdleFlowsLeave
  OldPacketsTaken
