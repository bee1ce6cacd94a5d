SPECIFICATION Spec
CONSTANTS
  Missing = Missing
  Accounts = {1, 2}
  Amounts = {1}
  Ops = {"US", "WC"}
  IntMax = 63
  Loaded = {1, 2}
  OpeningSaving = 3
  OpeningChecking = 2
  MaxPosts = 4
PROPERTY SameAsInteractive
CHECK_DEADLOCK FALSE
