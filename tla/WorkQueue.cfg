SPECIFICATION FairSpec
CONSTANTS
  Jobs = {j1, j2}
  NoJob = NoJob
  Workers = {w1, w2}
  MaxEnqueue = 2
  MaxFaults = 3
INVARIANTS
  WorkQueueInv
  NothingLost
  RedeliveryNeedsFault
  LossPerFault
PROPERTIES
  DeliverySpec
  QueueDrains
  EverythingSettles
