SPECIFICATION FairSpec
CONSTANTS
  m1 = m1
  m2 = m2
  a1 = a1
  Models <- TwoModels
  Accessories <- OneAccessory
  PROJECT = PROJECT
  NULL = NULL
  Limit = 1
  MaxFrame = 1
  Kinds <- EditingKinds
  CameraShared = FALSE
  Loop = FALSE
  LosesDevice = TRUE
  DeleteWhileEditing = FALSE
PROPERTIES
  EditingIsIsolated
  LeavingKeepsPlayback
  PlaybackEnds
