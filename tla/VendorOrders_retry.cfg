\* One clerk whose request may fail between its two transactions, and who tries again.
CONSTANTS
  Clerks = {k1}
  i1 = i1  i2 = i2
  Items = {i1, i2}
  Suggested <- TwoLines
  Asked <- SomeQuantities
  NewStatuses = {"CANCELLED", Keep}
  MaxVersion = 2
  MaxBought = 2
  NoRequest = NoRequest
  Keep = Keep
SPECIFICATION VendorSpec
PROPERTY BoughtWithinOrder
