\* Three carts, two days: receipt numbers and retries.
CONSTANTS
  p1 = p1  p2 = p2
  c1 = c1  c2 = c2  c3 = c3
  Terminals = {t1, t2}
  Carts = {c1, c2, c3}
  Products = {p1, p2}
  Customers = {}
  Prices = {"retail"}
  RetailPrice = "retail"
  Quantities = {1}
  InitialStock <- TwoEach
  Tracked = {p1}
  AllowNegative = {}
  NoCustomer = NoCustomer
  MaxAttempts = 3
  LastDay = 1
  MaxQuantity = 1
  Workload <- OwnProduct
  Removable = {}
  NoOne = NoOne
  NoRequest = NoRequest
  NoReceipt = NoReceipt
SYMMETRY Symmetry
SPECIFICATION Spec
INVARIANTS SoldOnce NextReceiptNumberFree OneSaleAtATime RetriesMeanSales
