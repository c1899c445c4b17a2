SPECIFICATION BackofficeSpec
CONSTANTS
  m1 = m1
  m2 = m2
  t1 = t1
  t2 = t2
  a1 = a1
  a2 = a2
  standard = standard
  suite = suite
  sea = sea
  spa = spa
  pool1 = pool1
  Rooms = {m1}
  Files = {"f1", "f2", "f3", "f4"}
  ImageRequests = {"new", "newCover", "delete1", "cover2", "room"}
  ImageAsk <- MCImageAsk
  ExistingImages <- MCExistingImages
  NoImage = noImage
  NoRequest = noRequest
  Probes = {"p1", "p2", "p3"}
  Connections = {"k1", "k2", "k3"}
  NoProbe = noProbe
  NoConnection = noConnection
  Keys = {"a", "b"}
  Limit <- MCLimit
  Window <- MCWindow
  LastTick = 6
  NoBucket = noBucket
  RoomTypes = {t1, t2}
  Amenities = {a1, a2}
  RoomRows = {m1, m2}
  AmenityId <- MCAmenityId
  CatalogRequests = {"add", "move", "remove", "delete1", "delete2", "restore2", "restoreAgain", "set12", "deleteA", "restoreA", "deleteB"}
  CatalogAsk <- MCCatalogAsk
  CatalogArrivals <- MCArrivals
  InitialTypes <- MCInitialTypes
  InitialLinks <- MCInitialLinks
  InitialDeleted = {t2}
  NoType = noType
  NoOwner = noOwner
  RoomNumbers = {101, 102, 103}
  TypeIds = {standard, suite}
  Features = {sea, spa, pool1}
  CreatedAt <- MCCreatedAt
  InitialRooms <- MCInitialRooms
  InitialRoomTypes <- MCInitialRoomTypes
  InitialDead = {spa}
  Stays <- MCStays
  Edits <- MCEdits
  Queries <- MCQueries
  AnyType = anyType
  AnyStatus = anyStatus
  NoQuery = noQuery
  MaxAdvanceDays = 1
  MaxStayNights = 2
  MaxChanges = 2
  b1 = b1
  b2 = b2
  c1 = c1
  c2 = c2
  u1 = u1
  k1 = k1
  k2 = k2
  k3 = k3
  PayBookings = {b1, b2}
  PayCustomers = {c1, c2}
  PayStaff = {u1}
  PayKeys = {k1, k2, k3}
  PayRequests = {"online", "onlineAgain", "foreign", "online2", "online3", "cash", "cashAgain", "bank", "refund", "refundAgain", "refund3", "refundOther", "refundCash", "refundCashAgain", "duplicate", "duplicateAgain"}
  PayAsk <- MCPayAsk
  PayArrivals <- MCPayArrivals
  BookedBy <- MCBookedBy
  NoPayment = noPayment
  NoRefund = noRefund
  NoKey = noKey
  NoActor = noActor
  ListRows = {1, 2, 3, 4}
  Viewers = {"mine", "other"}
  RowOf <- MCRowOf
  MethodOf <- MCMethodOf
  StartPlace <- MCStartPlace
  FirstRows = {1, 2, 3}
  Widths = {1, 2, 3}
  StartWidth <- MCStartWidth
  ListQueries <- MCListQueries
  Anyone = anyone
  MaxEvents = 2
  Talks = {b1, b2}
  Customers = {c1, c2}
  Users = {u1}
  TalkOf <- MCTalkOf
  MaxMessages = 2
  NoFilter = noFilter
  NoOne = noOne
  Attempts = {"v1", "v2"}
  Handlings = {"h1", "h2"}
  NoHandling = noHandling
  NoAttempt = noAttempt
INVARIANTS
  CoverIsUnique
  FilesMatchRows
  LeaseEndsWithProbe
  AdmissionsBounded
  ReferencesHold
  PagesHoldWhatCanBeBooked
  ToldMeansRecorded
  KeysAnswerOnce
  WalksMissNothing
  InboxAgrees
PROPERTIES
  ProbesEnd
  OffersCanBeBooked
  RefusalsAreTrue
CHECK_DEADLOCK FALSE
