SPECIFICATION Spec
CONSTANTS
  MaxLine = 2
  MaxFiles = 3
  MaxTruncate = 1
  MaxEnds = 2
  Environments = {{}, {"lag", "down"}}
INVARIANTS
  NoLineMissed
  CheckpointBehindStored
  LinesWhole
  RepeatsOnlyAfterCrash
PROPERTIES
  EveryLineStored
