\* Two terminals, two carts, two products: lock order, deadlock, the last unit.
CONSTANTS
  p1 = p1  p2 = p2
  c1 = c1  c2 = c2  c3 = c3
  Terminals = {t1, t2}
  Carts = {c1, c2}
  Products = {p1, p2}
  Customers = {}
  Prices = {"retail"}
  RetailPrice = "retail"
  Quantities = {1}
  InitialStock <- OneEach
  Tracked = {p1, p2}
  AllowNegative = {}
  NoCustomer = NoCustomer
  MaxAttempts = 1
  LastDay = 0
  MaxQuantity = 1
  Workload <- AllRequests
  Removable = {p1}
  NoOne = NoOne
  NoRequest = NoRequest
  NoReceipt = NoReceipt
SPECIFICATION Spec
INVARIANTS TypeOK NoOversell DeadlockNeedsBaskets
PROPERTIES ReadyCartFrozen RequestsAreAtomic
