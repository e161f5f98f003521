SPECIFICATION Spec
CONSTANTS
  b1 = b1
  b2 = b2
  b3 = b3
  c1 = c1
  c2 = c2
  ModelCommands <- OneModelCommand
  ProjectCommands <- OneProjectCommand
  Limit = 2
  Copies = TRUE
  Operations <- OnlyCommands
  MaxRecords = 8
  MaxCrashes = 2
PROPERTIES
  RecoversNoLess
CHECK_DEADLOCK FALSE
