SPECIFICATION FairSpec
CONSTANTS
  Outputs <- EveryOutput
  LastFrame = 1
  Steps = 2
  MaxReads = 2
  MaxListeners = 2
INVARIANTS
  TypeOK
  PassOutlivesItsReads
  FramesInOrder
PROPERTIES
  WholeRangeIsWritten
  ExportLeavesNoTrace
  ExportEnds
CHECK_DEADLOCK FALSE
