SPECIFICATION Spec
CONSTANTS
  b1 = b1
  b2 = b2
  b3 = b3
  c1 = c1
  c2 = c2
  ModelCommands <- OneModelCommand
  ProjectCommands <- TwoProjectCommands
  Limit = 1
  Copies = TRUE
  Operations <- Everything
  MaxRecords = 5
  MaxCrashes = 2
SYMMETRY MCSymmetry
INVARIANTS
  TypeOK
  StackMatchesDocument
CHECK_DEADLOCK FALSE
