\* Two clerks edit a purchase of one product.
CONSTANTS
  p1 = p1
  Clerks = {k1, k2}
  Products = {p1}
  Lines <- SomeLines
  Changes <- SomeChanges
  MaxVersion = 2
  NoPurchase = NoPurchase
  NoEdit = NoEdit
  Keep = Keep
  Unread = Unread
SYMMETRY Symmetry
SPECIFICATION PurchaseSpec
PROPERTY SavedOverWhatWasOpened
