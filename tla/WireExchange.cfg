SPECIFICATION Spec
CONSTANTS
  Base = 4
  Magic = 113
  MaxClientIdLength = 1
  MaxSourceLength = 1
  MaxContentLength = 2
  MaxBatchMessageCount = 2
  MaxFramePayloadLength = 68
  SendBatchSize = 2
  SocketBuffer = 2
  FirstId = 65533
  MaxAppends = 1
  MaxFaults = 1
INVARIANTS
  BatchNeverRefused
  TornTailRecovered
  EndTellsTheTruth
  DecodedAsAppended
  AcceptedIsCanonical
CHECK_DEADLOCK FALSE
PROPERTIES
  TransferEnds
