\* Two clerks, a product that may not go negative and one that may.
CONSTANTS
  p1 = p1  p2 = p2
  Clerks = {k1, k2}
  Products = {p1, p2}
  AllowNegative = {p2}
  InitialStock <- OneAndNone
  Orders <- SmallOrders
  MaxRows = 3
  NoOrder = NoOrder
  NoRead = NoRead
  Unwritten = Unwritten
SYMMETRY Symmetry
SPECIFICATION LedgerSpec
INVARIANTS NeverBelowZero LogExplainsUndriftedStock
PROPERTIES SaleRowsTrue
