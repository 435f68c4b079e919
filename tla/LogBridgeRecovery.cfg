SPECIFICATION Spec
CONSTANTS
  ClientIds = {c1, c2}
  NoClient = NoClient
  MaxUint64 = 4
  MaxLine = 2
  Backlog = 1
  SendBatchSize = 2
  QueueCapacity = 2
  Oversized = {}
  MaxClientFaults = 2
  MaxServerFaults = 1
  MaxNetFaults = 0
  MaxStops = 0
INVARIANTS
  RestartNeverRefused
  IdNeverReused
PROPERTIES
  ImplementsReliableLog
CHECK_DEADLOCK FALSE
