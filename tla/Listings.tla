------------------------------ MODULE Listings ------------------------------
(***************************************************************************)
(* The lists of bookings, payments, accounts, room types, amenities and    *)
(* conversations, read page by page with OFFSET and LIMIT while rows come, *)
(* change, go and move.  Each page is a statement of its own; nothing      *)
(* remembers the list between two of them.                                 *)
(*                                                                         *)
(* One walk over one list is followed.  A row is whatever its list holds;  *)
(* searching in texts is left out.  TypeORM counts OFFSET and LIMIT over   *)
(* the distinct values of the columns of ORDER BY: a room type, listed     *)
(* with its amenities and beds in order, takes a place for each pair.      *)
(***************************************************************************)
EXTENDS Integers, FiniteSets

CONSTANTS
  ListRows,    \* the ids of rows
  Viewers,     \* customers, or bookings, to whom rows belong
  RowOf,       \* to whom each row belongs ...
  MethodOf,    \* ... how it was paid, if it is a payment ...
  StartPlace,  \* ... and when it was created, or which place its name has
  FirstRows,   \* the rows of the initial state
  Widths,      \* how many places a room type may take ...
  StartWidth,  \* ... and how many each row takes at first, if it is one
  ListQueries, \* what a walk may ask for
  Anyone,      \* no restriction
  MaxEvents    \* bound on the changes of rows that are there

PayMethods == {"VNPAY", "CASH", "BANK_TRANSFER"}
ListNames ==
  {"customerBookings", "managementBookings", "customerPayments", "bookingPayments", "paymentFeed",
   "users", "customers", "roomTypes", "amenities", "inbox"}
ListQuery ==
  [list : ListNames, viewer : Viewers \cup {Anyone}, status : {"old", "new", "any"},
   methods : SUBSET PayMethods, deleted : BOOLEAN, limit : Nat \ {0}]

ASSUME ListingsAssumption ==
  /\ ListRows \subseteq Nat /\ FirstRows \subseteq ListRows /\ IsFiniteSet(FirstRows)
  /\ Anyone \notin Viewers
  /\ RowOf \in [ListRows -> Viewers] /\ MethodOf \in [ListRows -> PayMethods]
  /\ StartPlace \in [ListRows -> Nat]
  /\ Widths \subseteq Nat \ {0} /\ StartWidth \in [ListRows -> Widths]
  /\ ListQueries \subseteq ListQuery /\ MaxEvents \in Nat

VARIABLES
  present,   \* the rows there are
  gone,      \* those of them that have been soft-deleted
  status,    \* the status of each row
  place,     \* when it was created, or had its last message, or the place of its name
  width,     \* how many pairs of an amenity and a bed a room type has, one at least
  events,    \* how many changes there have been
  walk       \* the query, the last page read, and what the walk has seen

listVars == <<present, gone, status, place, width, events, walk>>

WalkOf(q) == [query |-> q, page |-> 0, over |-> FALSE, seen |-> {}, began |-> FirstRows,
              moved |-> {}, left |-> FALSE, vain |-> {}]

ListingsInitWith(queries) ==
  /\ present = FirstRows /\ gone = {}
  /\ status = [x \in ListRows |-> "old"]
  /\ place = StartPlace /\ width = StartWidth
  /\ events = 0
  /\ \E q \in queries : walk = WalkOf(q)

ListingsInit == ListingsInitWith(ListQueries)

-----------------------------------------------------------------------------
(* What each list holds *)

OfStatus(q) == {x \in present : q.status \in {"any", status[x]}}
Belonging(q) == {x \in present : q.viewer \in {Anyone, RowOf[x]}}
NotDeleted == present \ gone

\* BookingQueryService
ListForCustomer(q) == {x \in OfStatus(q) : RowOf[x] = q.viewer}
ListManagement(q) == OfStatus(q) \cap Belonging(q)

\* PaymentQueryService: of one booking, which must be the customer's; or of
\* all, where staff are shown some methods only.
ListOfBooking(q) == {x \in OfStatus(q) : RowOf[x] = q.viewer /\ MethodOf[x] \in q.methods}
ListAllManagement(q) == {x \in OfStatus(q) : MethodOf[x] \in q.methods}

\* UserAdminService and CustomerAdminService
ListAccounts(q) == OfStatus(q) \cap NotDeleted

\* RoomTypeService and AmenityService, to the public or to administrators
FindList(q) == IF q.deleted THEN present ELSE NotDeleted

\* ChatService: a conversation is there with its first message.
AccessibleConversations(q) == Belonging(q)

Members(q) ==
  CASE q.list = "customerBookings" -> ListForCustomer(q)
    [] q.list = "managementBookings" -> ListManagement(q)
    [] q.list \in {"customerPayments", "bookingPayments"} -> ListOfBooking(q)
    [] q.list = "paymentFeed" -> ListAllManagement(q)
    [] q.list \in {"users", "customers"} -> ListAccounts(q)
    [] q.list \in {"roomTypes", "amenities"} -> FindList(q)
    [] q.list = "inbox" -> AccessibleConversations(q)

\* What the detail of a row asks of it.
GetForCustomer(q) == Belonging(q)
GetManagementPayment(q) == {x \in present : MethodOf[x] \in q.methods}
FindOne(q) == IF q.deleted THEN present ELSE NotDeleted

Openable(q) ==
  CASE q.list \in {"customerBookings", "inbox"} -> GetForCustomer(q)
    [] q.list \in {"bookingPayments", "paymentFeed"} -> GetManagementPayment(q)
    [] q.list \in {"roomTypes", "amenities"} -> FindOne(q)
    [] OTHER -> present

\* createdAt alone does not order rows of one second; MySQL may return them
\* in another order each time.
OrderIsTotal(q) == q.list \notin {"users", "customers"}

TieBreaks(q) == IF OrderIsTotal(q) THEN {[x \in ListRows |-> x]} ELSE {[x \in ListRows |-> x], [x \in ListRows |-> -x]}

\* Mutant of Precedes: a list starts with its oldest rows.
Follows(q, tie, x, y) == place[x] < place[y] \/ (place[x] = place[y] /\ tie[x] < tie[y])

\* Amenities are listed by name, all others with the newest first.
Precedes(q, tie, x, y) ==
  IF q.list = "amenities"
  THEN place[x] < place[y] \/ (place[x] = place[y] /\ tie[x] < tie[y])
  ELSE place[x] > place[y] \/ (place[x] = place[y] /\ tie[x] > tie[y])

\* parsePagination()
Skip(q, page) == (page - 1) * q.limit

TakesPlaces(q) == q.list = "roomTypes"

PlacesOf(q, x) == IF TakesPlaces(q) THEN 1 .. width[x] ELSE {1}

PagedPlaces(q) == UNION {{x} \X PlacesOf(q, x) : x \in Members(q)}

PlacePrecedes(q, tie, o, p) == Precedes(q, tie, o[1], p[1]) \/ (o[1] = p[1] /\ o[2] < p[2])

PlacesOnPage(q, tie, page) ==
  {p \in PagedPlaces(q) :
     Cardinality({o \in PagedPlaces(q) : PlacePrecedes(q, tie, o, p)})
       \in Skip(q, page) .. Skip(q, page) + q.limit - 1}

\* A page holds each row once, whatever places it has there.
PageOf(q, tie, page) == {p[1] : p \in PlacesOnPage(q, tie, page)}

\* Where a page is full of places it may be short of rows.
IsLast(q, rows) == IF TakesPlaces(q) THEN rows = {} ELSE Cardinality(rows) < q.limit

-----------------------------------------------------------------------------
(* The walk *)

\* The next page, until one is not full, or is empty where others may be short.
ReadPage ==
  /\ ~walk.over
  /\ \E tie \in TieBreaks(walk.query) :
       LET rows == PageOf(walk.query, tie, walk.page + 1) IN
       walk' = [walk EXCEPT !.page = @ + 1, !.seen = @ \cup rows,
                            !.began = IF walk.page = 0 THEN Members(walk.query) ELSE @,
                            !.moved = IF walk.page = 0 THEN {} ELSE @,
                            !.left = IF walk.page = 0 THEN FALSE ELSE @,
                            !.over = IsLast(walk.query, rows)]
  /\ UNCHANGED <<present, gone, status, place, width, events>>

\* A row that a page has shown is opened.
OpenRow(x) ==
  /\ x \in walk.seen \ walk.vain
  /\ x \notin Openable(walk.query)
  /\ walk' = [walk EXCEPT !.vain = @ \cup {x}]
  /\ UNCHANGED <<present, gone, status, place, width, events>>

-----------------------------------------------------------------------------
(* The rows *)

\* The walk takes note of rows that leave its list.
Noted(moved) ==
  \E q \in {walk.query} :
    walk' = [walk EXCEPT !.moved = @ \cup moved, !.left = @ \/ Members(q) \ Members(q)' # {}]

Event == events < MaxEvents /\ events' = events + 1

\* A row is committed; an older one may be committed after a newer one.
InsertRow(x) ==
  /\ x \notin present
  /\ present' = present \cup {x}
  /\ UNCHANGED <<gone, status, place, width, events, walk>>

ChangeStatus(x) ==
  /\ x \in present /\ walk.query.status # "any" /\ Event
  /\ status' = [status EXCEPT ![x] = IF @ = "old" THEN "new" ELSE "old"]
  /\ UNCHANGED <<present, gone, place, width>> /\ Noted({})

SoftDelete(x) ==
  /\ x \in NotDeleted /\ walk.query.list \in {"roomTypes", "amenities"} /\ Event
  /\ gone' = gone \cup {x}
  /\ UNCHANGED <<present, status, place, width>> /\ Noted({})

Restore(x) ==
  /\ x \in gone /\ Event
  /\ gone' = gone \ {x}
  /\ UNCHANGED <<present, status, place, width>> /\ Noted({})

\* A new message moves its conversation; an amenity gets another name.
Move(x) ==
  /\ x \in present /\ walk.query.list \in {"inbox", "amenities"} /\ Event
  /\ LET latest == CHOOSE t \in {place[y] : y \in present} : \A y \in present : place[y] <= t
     IN \E t \in {latest, latest + 1} : place' = [place EXCEPT ![x] = t]
  /\ UNCHANGED <<present, gone, status, width>> /\ Noted({x})

\* A room type gets or loses amenities or beds, or an amenity of it is deleted
\* or restored; a type with fewer places moves the rows behind it.
Relink(x, n) ==
  /\ x \in present /\ TakesPlaces(walk.query) /\ n # width[x] /\ Event
  /\ width' = [width EXCEPT ![x] = n]
  /\ UNCHANGED <<present, gone, status, place>>
  /\ Noted(IF n < width[x] THEN {x} ELSE {})

ListingsNext ==
  \/ ReadPage
  \/ \E x \in ListRows :
       \/ OpenRow(x) \/ InsertRow(x) \/ ChangeStatus(x)
       \/ SoftDelete(x) \/ Restore(x) \/ Move(x)
       \/ \E n \in Widths : Relink(x, n)

ListingsSpec == ListingsInit /\ [][ListingsNext]_listVars

-----------------------------------------------------------------------------
(* Properties *)

\* The types of the state.
ListingsTypeOK ==
  /\ gone \subseteq present /\ present \subseteq ListRows
  /\ status \in [ListRows -> {"old", "new"}] /\ place \in [ListRows -> Nat]
  /\ width \in [ListRows -> Widths] /\ events \in 0 .. MaxEvents
  /\ walk.seen \subseteq present /\ walk.began \subseteq present

\* A walk to the last page has seen every row that was in the list when it
\* began and did not move, whatever was inserted before, after or between, as
\* long as no row left the list, no name in it was changed and no room type
\* lost a place: each of them lets the next page skip a row.  Room types come
\* without gaps only to a reader who goes on until a page is empty, for pages
\* that are full of places are short of types (room-type.service.ts:264-277).
\* A row that the walk was shown can be opened unless rows have left since
\* (payment-query.service.ts:110-112).
WalksMissNothing ==
  /\ walk.over /\ ~walk.left /\ OrderIsTotal(walk.query)
       /\ (walk.query.list \in {"amenities", "roomTypes"} => walk.moved = {}) =>
         walk.began \ walk.moved \subseteq walk.seen
  /\ walk.vain # {} => walk.left
=============================================================================
