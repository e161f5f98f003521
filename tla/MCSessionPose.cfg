SPECIFICATION Spec
CONSTANTS
  m1 = m1
  m2 = m2
  a1 = a1
  Models <- OneModel
  Accessories <- NoAccessories
  PROJECT = PROJECT
  NULL = NULL
  Limit = 2
  MaxFrame = 1
  Kinds <- PoseKinds
  CameraShared = FALSE
  Loop = TRUE
  LosesDevice = FALSE
  DeleteWhileEditing = FALSE
INVARIANTS
  TypeOK
  PendingIsTheTransform
PROPERTIES
  FrameMoveTakesBackOneTransform
  ImplementsHistories
