SPECIFICATION FairSpec
CONSTANTS
  ClientIds = {c1, c2}
  NoClient = NoClient
  MaxUint64 = 4
  MaxLine = 2
  Backlog = 1
  SendBatchSize = 1
  QueueCapacity = 1
  Oversized = {1}
  MaxClientFaults = 0
  MaxServerFaults = 0
  MaxNetFaults = 0
  MaxStops = 0
PROPERTIES
  AtLeastOnce
CHECK_DEADLOCK FALSE
