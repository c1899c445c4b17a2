----------------------------- MODULE MCBackoffice -----------------------------
(***************************************************************************)
(* Small instances, for TLC, of the components that share no state with    *)
(* each other: images, catalog and lists of rooms, requests for payments   *)
(* and refunds, the notifications of VNPay, lists in pages, the chat       *)
(* inbox, the rate limit and the health probe.  Each behaviour is one of   *)
(* one of them; the others keep their initial state.                       *)
(***************************************************************************)
EXTENDS RoomImages, HealthProbe, RateLimiter, Catalog, RoomSearch, VnpayNotifications,
        PaymentRequests, Listings, ChatInbox, TLC

CONSTANTS
  m1, m2, t1, t2, a1, a2, standard, suite, sea, spa, pool1,
  b1, b2, c1, c2, u1, k1, k2, k3

VARIABLE focus   \* the component whose behaviour this is

vars ==
  <<focus, imageVars, probeVars, limiterVars, catalogVars, searchVars, noticeVars,
    requestVars, listVars, inboxVars>>

-----------------------------------------------------------------------------
(* Images: a room with two images *)

MCImageQuestion == [kind |-> "create", room |-> m1, file |-> "f1", order |-> 0, cover |-> FALSE]
MCImageQuestions ==
  "new" :> [MCImageQuestion EXCEPT !.file = "f3"]
  @@ "newCover" :> [MCImageQuestion EXCEPT !.file = "f4", !.cover = TRUE]
  @@ "delete1" :> [MCImageQuestion EXCEPT !.kind = "delete"]
  @@ "cover2" :> [MCImageQuestion EXCEPT !.kind = "cover", !.file = "f2"]
  @@ "room" :> [MCImageQuestion EXCEPT !.kind = "room"]
MCImageAsk == MCImageQuestions
MCExistingImages ==
  "f1" :> [room |-> m1, order |-> 0, cover |-> TRUE]
  @@ "f2" :> [room |-> m1, order |-> 1, cover |-> FALSE]
  @@ [f \in Files |-> NoImage]

-----------------------------------------------------------------------------
(* Rate limit: two handlers *)

MCLimit == "a" :> 2 @@ "b" :> 1
MCWindow == "a" :> 2 @@ "b" :> 4

-----------------------------------------------------------------------------
(* Catalog: one room, a deleted type with an amenity; any three requests   *)
(* arrive together, or the five that a type restored twice needs.          *)

MCCatalogQuestion == [kind |-> "addRoom", room |-> m2, type |-> t2, amenity |-> a1, amenities |-> {}]
MCCatalogQuestions ==
  "add" :> MCCatalogQuestion
  @@ "move" :> [MCCatalogQuestion EXCEPT !.kind = "moveRoom", !.room = m1]
  @@ "remove" :> [MCCatalogQuestion EXCEPT !.kind = "removeRoom", !.room = m1]
  @@ "delete1" :> [MCCatalogQuestion EXCEPT !.kind = "deleteType", !.type = t1]
  @@ "delete2" :> [MCCatalogQuestion EXCEPT !.kind = "deleteType"]
  @@ "restore2" :> [MCCatalogQuestion EXCEPT !.kind = "restoreType"]
  @@ "restoreAgain" :> [MCCatalogQuestion EXCEPT !.kind = "restoreType"]
  @@ "set12" :> [MCCatalogQuestion EXCEPT !.kind = "setAmenities", !.amenities = {a1, a2}]
  @@ "deleteA" :> [MCCatalogQuestion EXCEPT !.kind = "deleteAmenity"]
  @@ "restoreA" :> [MCCatalogQuestion EXCEPT !.kind = "restoreAmenity"]
  @@ "deleteB" :> [MCCatalogQuestion EXCEPT !.kind = "deleteAmenity", !.amenity = a2]
MCCatalogAsk == MCCatalogQuestions
MCArrivals ==
  {s \in SUBSET CatalogRequests : Cardinality(s) = 3}
    \cup {{"restore2", "restoreAgain", "set12", "delete2", "deleteA"}}
MCInitialTypes == m1 :> t1 @@ m2 :> NoType
MCInitialLinks == t1 :> {} @@ t2 :> {a2}
MCAmenityId == a1 :> 1 @@ a2 :> 2

-----------------------------------------------------------------------------
(* Lists of rooms: three rooms of two types, of which one is hidden.  The  *)
(* suite keeps a link to an amenity that has been deleted.                 *)

MCQuery ==
  [kind |-> "search", stay |-> [checkIn |-> 1, checkOut |-> 3], guests |-> 2, type |-> AnyType,
   status |-> AnyStatus, minPrice |-> 0, maxPrice |-> 9, amenities |-> {},
   sort |-> "RECOMMENDED", limit |-> 1]
MCQuerySet ==
  {MCQuery,
   [MCQuery EXCEPT !.sort = "POPULARITY"],
   [MCQuery EXCEPT !.sort = "NEWEST", !.limit = 2],
   [MCQuery EXCEPT !.sort = "PRICE_DESC", !.guests = 1, !.limit = 2],
   [MCQuery EXCEPT !.amenities = {sea}, !.maxPrice = 2, !.type = suite],
   [MCQuery EXCEPT !.kind = "available", !.limit = 2, !.stay.checkIn = 2],
   [MCQuery EXCEPT !.kind = "list", !.limit = 2, !.amenities = {spa}],
   [MCQuery EXCEPT !.kind = "management", !.limit = 2]}
MCQueries == MCQuerySet
\* A day that every query is too late for.
MCLongAfter == 9
MCStays == {[checkIn |-> 0, checkOut |-> 1], [checkIn |-> 1, checkOut |-> 2], [checkIn |-> 1, checkOut |-> 3]}
MCSearchedRoom == [status |-> "READY", type |-> standard, booked |-> {}, blocked |-> {}, images |-> 1]
MCInitialRooms ==
  101 :> MCSearchedRoom
  @@ 102 :> [MCSearchedRoom EXCEPT !.type = suite, !.images = 2]
  @@ 103 :> [MCSearchedRoom EXCEPT !.status = "HIDDEN", !.images = 0]
MCInitialRoomTypes ==
  standard :> [deleted |-> FALSE, price |-> 1, maxGuests |-> 2, amenities |-> {}]
  @@ suite :> [deleted |-> FALSE, price |-> 2, maxGuests |-> 3, amenities |-> {sea, spa}]
MCEdits == {[price |-> 1, maxGuests |-> 2], [price |-> 2, maxGuests |-> 1]}
MCCreatedAt == 101 :> 1 @@ 102 :> 2 @@ 103 :> 1

-----------------------------------------------------------------------------
(* Payment requests: two bookings of one customer, requests sent twice,    *)
(* keys that other requests use as well.                                   *)

MCPayQuestion ==
  [kind |-> "vnpay", actor |-> c1, booking |-> b1, payment |-> NoPayment, key |-> k1, method |-> "VNPAY"]
MCCashQuestion ==
  [MCPayQuestion EXCEPT !.kind = "manual", !.actor = u1, !.key = k2, !.method = "CASH"]
MCRefundQuestion ==
  [MCPayQuestion EXCEPT !.kind = "refund", !.actor = u1, !.payment = "online", !.key = k3]
MCPayQuestions ==
  "online" :> MCPayQuestion
  @@ "onlineAgain" :> MCPayQuestion
  @@ "foreign" :> [MCPayQuestion EXCEPT !.actor = c2]
  @@ "online2" :> [MCPayQuestion EXCEPT !.booking = b2]
  @@ "online3" :> [MCPayQuestion EXCEPT !.booking = b2, !.key = k2]
  @@ "cash" :> MCCashQuestion
  @@ "cashAgain" :> MCCashQuestion
  @@ "bank" :> [MCCashQuestion EXCEPT !.key = k1, !.method = "BANK_TRANSFER"]
  @@ "refund" :> MCRefundQuestion
  @@ "refundAgain" :> MCRefundQuestion
  @@ "refund3" :> [MCRefundQuestion EXCEPT !.payment = "online3"]
  @@ "refundOther" :> [MCRefundQuestion EXCEPT !.key = k2]
  @@ "refundCash" :> [MCRefundQuestion EXCEPT !.payment = "cash"]
  @@ "refundCashAgain" :> [MCRefundQuestion EXCEPT !.payment = "cash"]
  @@ "duplicate" :> [MCRefundQuestion EXCEPT !.kind = "duplicate"]
  @@ "duplicateAgain" :> [MCRefundQuestion EXCEPT !.kind = "duplicate"]
MCPayAsk == MCPayQuestions
MCPayArrivals ==
  {{"online", "onlineAgain", "online2", "cash"}, {"online", "cash", "cashAgain", "bank"},
   {"online", "foreign"}, {"online", "online3", "refund", "refund3"},
   {"online", "refund", "refundAgain", "refundOther"}, {"cash", "refundCash", "refundCashAgain"},
   {"online", "cash", "duplicate", "duplicateAgain", "refundCash"}}
MCBookedBy == [b \in {b1, b2} |-> c1]

-----------------------------------------------------------------------------
(* Lists: three rows and one that comes; two were created in one second.   *)
(* The room type in the middle fills a page by itself.                     *)

MCListQuery ==
  [list |-> "customerBookings", viewer |-> "mine", status |-> "any", methods |-> PayMethods,
   deleted |-> FALSE, limit |-> 2]
MCOfAll == [MCListQuery EXCEPT !.viewer = Anyone]
MCListQuerySet ==
  {MCListQuery,
   [MCListQuery EXCEPT !.status = "old", !.limit = 1],
   [MCOfAll EXCEPT !.list = "managementBookings"],
   [MCListQuery EXCEPT !.list = "customerPayments", !.limit = 1],
   [MCListQuery EXCEPT !.list = "bookingPayments", !.limit = 1],
   [MCOfAll EXCEPT !.list = "paymentFeed", !.methods = {"CASH", "BANK_TRANSFER"}, !.limit = 1],
   [MCOfAll EXCEPT !.list = "users"],
   [MCOfAll EXCEPT !.list = "customers", !.status = "old"],
   [MCOfAll EXCEPT !.list = "roomTypes"],
   [MCOfAll EXCEPT !.list = "roomTypes", !.deleted = TRUE],
   [MCOfAll EXCEPT !.list = "amenities"],
   [MCOfAll EXCEPT !.list = "inbox"],
   [MCListQuery EXCEPT !.list = "inbox", !.limit = 1]}
MCListQueries == MCListQuerySet
MCRowOf == 1 :> "mine" @@ 2 :> "other" @@ 3 :> "mine" @@ 4 :> "mine"
MCMethodOf == 1 :> "CASH" @@ 2 :> "VNPAY" @@ 3 :> "BANK_TRANSFER" @@ 4 :> "CASH"
MCStartPlace == 1 :> 1 @@ 2 :> 2 @@ 3 :> 2 @@ 4 :> 1
MCStartWidth == 1 :> 1 @@ 2 :> 3 @@ 3 :> 1 @@ 4 :> 2

-----------------------------------------------------------------------------
(* Inbox: two customers and a support user *)

MCTalkOf == b1 :> c1 @@ b2 :> c2

-----------------------------------------------------------------------------
BackofficeInit ==
  /\ focus \in {"images", "probe", "limiter", "catalog", "search", "notices", "requests", "lists", "inbox"}
  /\ ImagesInit /\ ProbeInit /\ LimiterInit /\ NoticesInit /\ InboxInit
  /\ IF focus = "search" THEN SearchInit ELSE SearchInitOn(MCLongAfter)
  /\ IF focus = "catalog" THEN CatalogInit ELSE CatalogInitWith({})
  /\ IF focus = "requests" THEN RequestsInit ELSE RequestsInitWith({})
  /\ IF focus = "lists" THEN ListingsInit ELSE ListingsInitWith({MCListQuery})

BackofficeNext ==
  \/ /\ focus = "images" /\ ImagesNext
     /\ UNCHANGED <<focus, probeVars, limiterVars, catalogVars, searchVars, noticeVars, requestVars, listVars, inboxVars>>
  \/ /\ focus = "probe" /\ ProbeNext
     /\ UNCHANGED <<focus, imageVars, limiterVars, catalogVars, searchVars, noticeVars, requestVars, listVars, inboxVars>>
  \/ /\ focus = "limiter" /\ LimiterNext
     /\ UNCHANGED <<focus, imageVars, probeVars, catalogVars, searchVars, noticeVars, requestVars, listVars, inboxVars>>
  \/ /\ focus = "catalog" /\ CatalogNext
     /\ UNCHANGED <<focus, imageVars, probeVars, limiterVars, searchVars, noticeVars, requestVars, listVars, inboxVars>>
  \/ /\ focus = "search" /\ SearchNext
     /\ UNCHANGED <<focus, imageVars, probeVars, limiterVars, catalogVars, noticeVars, requestVars, listVars, inboxVars>>
  \/ /\ focus = "notices" /\ NoticesNext
     /\ UNCHANGED <<focus, imageVars, probeVars, limiterVars, catalogVars, searchVars, requestVars, listVars, inboxVars>>
  \/ /\ focus = "requests" /\ RequestsNext
     /\ UNCHANGED <<focus, imageVars, probeVars, limiterVars, catalogVars, searchVars, noticeVars, listVars, inboxVars>>
  \/ /\ focus = "lists" /\ ListingsNext
     /\ UNCHANGED <<focus, imageVars, probeVars, limiterVars, catalogVars, searchVars, noticeVars, requestVars, inboxVars>>
  \/ /\ focus = "inbox" /\ InboxNext
     /\ UNCHANGED <<focus, imageVars, probeVars, limiterVars, catalogVars, searchVars, noticeVars, requestVars, listVars>>

BackofficeSpec == BackofficeInit /\ [][BackofficeNext]_vars /\ ProbeFairness
=============================================================================
