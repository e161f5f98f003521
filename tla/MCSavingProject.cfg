SPECIFICATION Spec
CONSTANTS
  m1 = m1
  m2 = m2
  a1 = a1
  p1 = p1
  p2 = p2
  n1 = n1
  n2 = n2
  NULL = NULL
  ZIP = ZIP
  Models <- TwoModels
  Accessories <- None
  Paths <- TwoPaths
  Names <- TwoNames
  MaxSaves = 3
  Writers <- Platforms
  GivenNames <- OneName
  Operations <- Everything
SYMMETRY MCSymmetry
INVARIANTS
  TypeOK
  FilesAreComplete
  NoLeftovers
  FileURIIsTheOrigin
  SourcesSurvive
PROPERTIES
  SavesEveryTexture
CHECK_DEADLOCK FALSE
