CONSTANTS
  Limit = 2
  Bones = {b1, b2}
  Values = {v0, v1}
  DefaultValue = v0
  NULL = NULL
  LastFrame = 2
  Columns <- LaterColumns
  Adjusts = TRUE
  MaxSelected = 2
  MaxPushes = 3
SPECIFICATION Spec
INVARIANT TypeOK
INVARIANT FirstKeyframeStays
INVARIANT ReplayAgrees
PROPERTY UndoIsTheInverse
SYMMETRY BoneSymmetry
CHECK_DEADLOCK FALSE
