CONSTANTS
  u1 = u1 u2 = u2 g1 = g1 i1 = i1
  FrontDesks = {"promotions"}
  Pricers = {u1, u2}
  Timer = Timer
  Goods = {i1}
  Groups = {g1}
  Prices = {1, 2}
  FirstPrice = 1
  FirstGoods <- ARowOrNone
  GoodsDtos <- ChangesOfGoods
  MaxChanges = 2
  MaxFailures = 1
  NoGoods = NoGoods NoGroup = NoGroup NoJob = NoJob
  LineLists <- Baskets
  OfferLists <- Running
  NoLimit = 99
  BilledLines <- Bills
  Discounts <- TierDiscounts
  Rates = {20}
  NoBill = NoBill
  Tills = {u1, u2}
  TierStores = {"r1", "r2"}
  TierRules <- SomeRules
  MaxSpend = 2
  NoRule = NoRule NoSale = NoSale
SPECIFICATION FrontSpec
INVARIANT StackableOnly
CHECK_DEADLOCK FALSE
