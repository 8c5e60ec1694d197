\* The same with a processor that may lag behind the capture thread.
SPECIFICATION LaggingSpec
CONSTANTS
  FlowKey <- MCTwoKeys
  Data <- MCTwoData
  FlowKeyOf <- MCTwoKeyOf
  a = a
  b = b
  c = c
  arp = arp
  NoKey = NoKey
  None = None
  Slots = 3
  Window = 2
  MaxFlows = 2
  QueueCap = 2
  MaxTime = 5
PROPERTIES
  RemovesOnlyInactive
