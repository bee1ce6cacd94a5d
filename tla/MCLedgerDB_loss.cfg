SPECIFICATION LdbSpec
CONSTANTS
  Replica = {r1}
  Block = {b1}
  Key = {k1, k2}
  UnverifiedLists <- MCUnverifiedLists
INVARIANT NoPromiseLost
