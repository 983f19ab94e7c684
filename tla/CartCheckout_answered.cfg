\* Fairness: every request is answered.
CONSTANTS
  p1 = p1  p2 = p2
  c1 = c1  c2 = c2  c3 = c3
  Terminals = {t1, t2}
  Carts = {c1, c2}
  Products = {p1, p2}
  Customers = {}
  Prices = {"retail"}
  RetailPrice = "retail"
  Quantities = {1}
  InitialStock <- OneEach
  Tracked = {p1, p2}
  AllowNegative = {}
  NoCustomer = NoCustomer
  MaxAttempts = 2
  LastDay = 0
  MaxQuantity = 1
  Workload <- BasketRequests
  Removable = {}
  NoOne = NoOne
  NoRequest = NoRequest
  NoReceipt = NoReceipt
SPECIFICATION FairSpec
PROPERTIES RequestAnswered
