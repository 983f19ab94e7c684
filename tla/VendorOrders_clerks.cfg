\* Two clerks work on an order of two cases of one product and one of another.
CONSTANTS
  Clerks = {k1, k2}
  i1 = i1  i2 = i2
  Items = {i1, i2}
  Suggested <- TwoLines
  Asked <- SomeQuantities
  NewStatuses = {"CANCELLED", Keep}
  MaxVersion = 2
  MaxBought = 2
  NoRequest = NoRequest
  Keep = Keep
SYMMETRY Symmetry
SPECIFICATION VendorSpec
INVARIANTS ReceivedWasBought BoughtIsReceived
PROPERTIES ClosedOrderKept ReceivedIsComplete
