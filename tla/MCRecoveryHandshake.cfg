SPECIFICATION Spec
CONSTANTS
  Accepted <- ThreeRecords
  MaxCommands = 1
PROPERTIES
  RecoveryEnds
