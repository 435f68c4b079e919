SPECIFICATION DSpec
CONSTANTS
  ClientIds = {c1, c2}
  NoClient = NoClient
  MaxUint64 = 5
  MaxLine = 0
INVARIANTS
  PromiseKept
PROPERTIES
  WatermarkMonotone
