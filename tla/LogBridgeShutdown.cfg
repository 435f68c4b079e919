SPECIFICATION ClientFairSpec
CONSTANTS
  ClientIds = {c1, c2}
  NoClient = NoClient
  MaxUint64 = 3
  MaxLine = 2
  Backlog = 1
  SendBatchSize = 1
  QueueCapacity = 1
  Oversized = {2}
  MaxClientFaults = 1
  MaxServerFaults = 0
  MaxNetFaults = 0
  MaxStops = 1
PROPERTIES
  ShutdownCompletes
CHECK_DEADLOCK FALSE
