\* Quantities, overridden prices, a customer, a product that may go negative.
CONSTANTS
  p1 = p1  p2 = p2
  c1 = c1  c2 = c2  c3 = c3
  Terminals = {t1, t2}
  Carts = {c1, c2}
  Products = {p1, p2}
  Customers = {cu1}
  Prices = {"retail", "override"}
  RetailPrice = "retail"
  Quantities = {1, 2}
  InitialStock <- ThreeAndNone
  Tracked = {p1, p2}
  AllowNegative = {p2}
  NoCustomer = NoCustomer
  MaxAttempts = 2
  LastDay = 0
  MaxQuantity = 2
  Workload <- CounterRequests
  Removable = {}
  NoOne = NoOne
  NoRequest = NoRequest
  NoReceipt = NoReceipt
SYMMETRY Symmetry
SPECIFICATION Spec
INVARIANTS LogExplainsStock SaleMatchesCart CheckedStockIsCurrent
