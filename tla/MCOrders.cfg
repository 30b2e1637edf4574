SPECIFICATION Spec
CONSTANTS
  hoodie = hoodie
  small = small
  default = default
  c1 = c1
  c2 = c2
  t1 = t1
  t2 = t2
  alice = alice
  bob = bob
  o1 = o1
  o2 = o2
  None = None
  Products = {hoodie}
  Titles = {t1, t2}
  Prices = {1, 2}
  Users = {alice, bob}
  Variants = {small, default}
  Default = default
  Chains = {c1}
  SystemChains = {c1}
  Requests <- MCRequests
  Orders = {o1, o2}
  Customers = {alice}
  OperatorIds = {"OperatorCancel"}
  MaxRequests = 4
SYMMETRY Symmetry
INVARIANTS
  OneOpenOrder
  ShownIsOrderable
  StockAccountsForOrders
PROPERTIES
  OnlyOverlapRevives
  ApprovalFollowsCatalog
CHECK_DEADLOCK FALSE
