SPECIFICATION LdbSpec
CONSTANTS
  Replica = {r1, r2}
  Block = {b1}
  Key = {k1, k2}
  UnverifiedLists <- MCUnverifiedLists
INVARIANTS
  LossOnlyWhenLate
  SnapshotStillHeld
PROPERTY ImplementsLedger
