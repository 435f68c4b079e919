SPECIFICATION Spec
CONSTANTS
  MaxRecord = 4
  MaxFaults = 4
  NoFile = NoFile
INVARIANTS
  PromisedSurvives
  DroppedStaysDropped
  AlwaysLoadable
