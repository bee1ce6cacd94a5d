SPECIFICATION Spec
CONSTANTS
  Accounts = {1, 2}
  Amounts = {1}
  Ops = {"AM", "GB", "UB", "US", "SP", "WC"}
  Clients = {c1, c2}
  Opening <- MCOpening
  MaxTxns = 2
PROPERTIES
  Serializable
  ChecksAreCovered
CHECK_DEADLOCK FALSE
