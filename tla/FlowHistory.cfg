\* Two-slot rings, room for two of three flows, a prompt processor.
SPECIFICATION PromptSpec
CONSTANTS
  FlowKey <- MCThreeKeys
  Data <- MCThreeData
  FlowKeyOf <- MCThreeKeyOf
  a = a
  b = b
  c = c
  arp = arp
  NoKey = NoKey
  None = None
  Slots = 2
  Window = 2
  MaxFlows = 2
  QueueCap = 2
  MaxTime = 5
SYMMETRY MCFlowSymmetry
INVARIANTS
  RingIsRecentPast
PROPERTIES
  ReportsEveryBurst
