SPECIFICATION Spec
CONSTANTS
  Missing = Missing
  Accounts = {1, 2, 3}
  Amounts = {1, 3}
  Ops = {"AM", "GB", "UB", "US", "SP", "WC"}
  IntMax = 7
  Loaded = {1, 2}
  OpeningSaving = 3
  OpeningChecking = 2
  MaxPosts = 5
INVARIANTS
  TypeOK
  CongruentToIdeal
  ExactUntilOverdrawn
  ThrowsOnlyWhenOverdrawn
  FourAgree
CHECK_DEADLOCK FALSE
