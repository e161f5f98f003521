SPECIFICATION Spec
CONSTANTS
  m1 = m1
  m2 = m2
  a1 = a1
  p1 = p1
  p2 = p2
  n1 = n1
  n2 = n2
  NULL = NULL
  ZIP = ZIP
  Models <- OneModel
  Accessories <- None
  Paths <- TwoPaths
  Names <- TwoNames
  MaxSaves = 3
  Writers <- Platforms
  GivenNames <- OneName
  Operations <- Importing
PROPERTIES
  SavesImportedTextures
CHECK_DEADLOCK FALSE
