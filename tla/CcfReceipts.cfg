SPECIFICATION Spec
CONSTANTS
  Stride = 3
  MaxSeq = 8
  Depth = 3
INVARIANTS
  TypeOK
  ReceiptsOncePerStride
  OnlyCommittedAsked
  WalkIsContiguous
PROPERTY ReceiptsEventuallyAsked
CHECK_DEADLOCK FALSE
