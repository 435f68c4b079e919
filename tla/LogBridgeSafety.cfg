SPECIFICATION Spec
CONSTANTS
  ClientIds = {c1, c2}
  NoClient = NoClient
  MaxUint64 = 4
  MaxLine = 2
  Backlog = 1
  SendBatchSize = 2
  QueueCapacity = 2
  Oversized = {}
  MaxClientFaults = 1
  MaxServerFaults = 1
  MaxNetFaults = 1
  MaxStops = 1
SYMMETRY Symmetry
INVARIANTS
  TypeOK
  NoLineLost
  DedupNeverSwallows
  AckMatchesBatch
  AckedIsDurable
  NoReprint
  LinesPrintedOnce
  RunningMeansWorking
  Inv
CHECK_DEADLOCK FALSE
