SPECIFICATION Spec
CONSTANTS
  Generators = {g1}
  Duration = 1
  Second = 2
  IntMax = 7
  MaxTime = 4
  MaxQueue = 1
  MayThrow = TRUE
  Replica = {r1}
  Block = {b1}
  Key = {k1, k2}
  UnverifiedLists <- MCUnverifiedLists
INVARIANTS
  VerifyNeverReportsFailure
  OnlyFreshLeft
PROPERTY VerifiedUnlessStopped
CHECK_DEADLOCK FALSE
