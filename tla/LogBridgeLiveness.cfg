SPECIFICATION FairSpec
CONSTANTS
  ClientIds = {c1, c2}
  NoClient = NoClient
  MaxUint64 = 6
  MaxLine = 2
  Backlog = 1
  SendBatchSize = 1
  QueueCapacity = 1
  Oversized = {}
  MaxClientFaults = 1
  MaxServerFaults = 1
  MaxNetFaults = 0
  MaxStops = 0
PROPERTIES
  AtLeastOnce
CHECK_DEADLOCK FALSE
