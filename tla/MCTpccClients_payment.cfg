SPECIFICATION ClientsSpec
CONSTANTS
  Warehouses = {1, 2}
  d1 = d1
  d2 = d2
  c1 = c1
  c2 = c2
  Districts = {d1, d2}
  Customers = {c1, c2}
  Items = {1, 2}
  LineLists <- MCLineLists
  Payments = {1, 2}
  Carriers = {"carrier"}
  Price <- MCPrice
  LoadedStock = 10
  Window = 2
  MaxPosts = 3
  MaxTime = 1
  Clients = {a, b}
  Tasks <- MCTasks
  MaxTxns = 4
SYMMETRY Symmetry
INVARIANT CommittedPaymentsCount
CHECK_DEADLOCK FALSE
