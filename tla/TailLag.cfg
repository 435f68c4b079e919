SPECIFICATION Spec
CONSTANTS
  MaxLine = 2
  MaxFiles = 2
  MaxTruncate = 0
  MaxEnds = 1
  Environments = {{"lag"}}
PROPERTIES
  DrainedBeforeSwitch
