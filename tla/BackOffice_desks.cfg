CONSTANTS
  c1 = c1 c2 = c2 x1 = x1 x2 = x2 a = a b0 = b0 b1 = b1 k1 = k1 k2 = k2 t1 = t1 t2 = t2 w1 = w1
  Desks = {"billing", "stores", "accounts", "registers", "catalogue", "names", "records", "packs"}
  Calls = {c1, c2}
  Plans = {"advanced"}
  MaxSessions = 2
  MaxEvents = 3
  NoCall = NoCall NoPlan = NoPlan NoSnapshot = NoSnapshot
  Deeds = {c1, c2}
  Shops = {x1, x2}
  MaxStores = 1
  OwnerPlans = {"plus"}
  FirstPlan = "plus"
  NoDeed = NoDeed
  Visitors = {c1, c2}
  Addresses = {x1, x2}
  MaxLinks = 2
  NoAddress = NoAddress NoVisit = NoVisit
  Managers = {c1, c2}
  RegisterIds = {k1}
  Digits = {x1, x2}
  CandidateLimit = 1
  MaxCodes = 2
  NoTask = NoTask
  Keepers = {k2}
  CatalogueItems = {a}
  Departments = {x1, x2}
  Categories = {k1}
  Taxes = {t1, t2}
  NoRow = NoRow NoCategory = NoCategory NoCheck = NoCheck
  Namers = {c1, c2}
  Tables = {"department", "category", "plain", "reason"}
  Entries = {x1, x2}
  Words = {w1}
  Scopes = {1, 2}
  NoEntry = NoEntry NoNaming = NoNaming
  Editors = {c1, c2}
  Kinds = {"promotion", "loyalty", "permissions"}
  Items = {x1}
  NoRecord = NoRecord NoEdit = NoEdit
  Reviewers = {c1, c2}
  Owners = {c1, c2}
  Packs = {a}
  InitialPack <- OnePack
  ProductBarcodes = {}
  PackDtos <- SomeDtos
  MaxProposals = 2
  NoPack = NoPack NoBarcode = NoBarcode NoProposal = NoProposal NoReview = NoReview
SPECIFICATION OfficeSpec
SYMMETRY Symmetry
INVARIANTS
  OneOpenSession BilledStoresAreActive VerifiedIsProven LinksWorkOnce CodeMakesOneDevice RevokedStayOut
  ReferencesFit NamesDiffer RecordIsComplete ActivePacksDiffer VersionsGuardPacks
PROPERTIES KeepsPromise DecisionsHold
CHECK_DEADLOCK FALSE
