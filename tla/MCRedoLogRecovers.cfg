SPECIFICATION Spec
CONSTANTS
  b1 = b1
  b2 = b2
  b3 = b3
  c1 = c1
  c2 = c2
  ModelCommands <- ThreeModelCommands
  ProjectCommands <- OneProjectCommand
  Limit = 2
  Copies = TRUE
  Operations <- Saving
  MaxRecords = 7
  MaxCrashes = 1
SYMMETRY MCSymmetry
PROPERTIES
  RecoversDocument
  RecoversHistory
  RecoversCamera
CHECK_DEADLOCK FALSE
