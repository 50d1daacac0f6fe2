SPECIFICATION PartsSpec
CONSTANTS
  a1 = a1  a2 = a2  b1 = b1
  w1 = w1  w2 = w2
  h1 = h1  h2 = h2
  d1 = d1  d2 = d2
  k1 = k1  k2 = k2
  ponni = ponni
  None = None
  NoAddress = NoAddress
  Nothing = Nothing
  Account = {a1, a2}
  Browser = {b1}
  Worker = {w1, w2}
  MaxSessions = 3
  MaxFaults = 1
  Address = {h1, h2}
  Device = {d1, d2}
  Item = {ponni}
  Call = {k1, k2}
  MaxQuantity = 2
  MaxPayments = 1
  MaxLosses = 1
  o1 = o1  o2 = o2  o3 = o3
  p1 = p1  p2 = p2
  au1 = au1  au2 = au2
  t1 = t1  t2 = t2
  c1 = c1  q1 = q1  q2 = q2
  he1 = he1  he2 = he2  he3 = he3
  Book <- MCBook
  Work <- MCWork
  Publisher = {p1, p2}
  BookRow <- MCBookRow
  WorkRow <- MCWorkRow
  Collection = {c1}
  BookCollections <- MCBookCollections
  Published = {c1}
  NoPrice = NoPrice
  MaxEdits = 1
  Heart = {he1, he2, he3}
  HeartBook <- MCHeartBook
  MaxToggles = 4
  MaxLost = 1
  Query = {q1, q2}
  NoQuery = NoQuery
  Text <- MCText
  PersonalWeight = 30
  Personalized = TRUE
  PageSize = 2
  MaxSimilar = 2
  MaxVisits = 3
  StoredShelves <- MCStoredShelves
  TrendingShelf = TRUE
  PersonalizedShelves = TRUE
  Banners <- MCBanners
  ShelfPageSize = 1
  FetchesFail = TRUE
  OpeningOrders <- MCOrders
  Filter <- MCFilter
  AllOrders <- MCAllOrders
  StoreChannel = {"erode"}
  ShopBook = {"b"}
  PickStatus = {"paid", "cancelled"}
  ListPageSize = 2
  NotShown = NotShown
  MaxLoads = 3
  MaxSales = 1
  MaxPicked = 1
  MaxRefusals = 1
  MaxActs = 2
  Products <- MCProducts
  NewProduct <- MCNewProduct
  SitePageSize = 2
  Absent = Absent
  NotANumber = NotANumber
  MaxSiteChanges = 2
  MaxUnanswered = 1
SYMMETRY Symmetry
INVARIANTS
  TokenIsSpentOnce
  LogoutEndsSession
  RegisteredIsAnnounced
  DefaultStands
  OrderIsWhatWasShown
  HeartIsLastLike
  WalkSeesEachOnce
  FacetLeadsToItsCount
  CardsOpenAndCharge
  ReelsShowEachOnce
  SaleIsLoggedOnce
  PagesShowTheOrders
  CrawlFindsEveryBook
\* Everything is bounded: visits end, tokens and addresses are used up.
CHECK_DEADLOCK FALSE
