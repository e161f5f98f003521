SPECIFICATION Spec
CONSTANTS
  c1 = c1
  c2 = c2
  c3 = c3
  c4 = c4
  d1 = d1
  d2 = d2
  Commands <- MCCommands
  Documents <- MCDocuments
  HardLimit = 3
  NULL = NULL
INVARIANTS
  TypeOK
  Ownership
  MementoChain
  CleanMeansSaved
PROPERTY
  ImplementsHistory
