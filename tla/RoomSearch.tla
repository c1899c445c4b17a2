----------------------------- MODULE RoomSearch -----------------------------
(***************************************************************************)
(* What visitors and staff are shown of the rooms: the public list, the    *)
(* search by dates, the list of available rooms for staff and the          *)
(* management list with its calendar summary.  A list is read outside any  *)
(* transaction by several statements - the numbers of the page, the rows   *)
(* of those numbers, for the management list the calendar - while rooms    *)
(* are booked, blocked, moved and edited.                                  *)
(*                                                                         *)
(* A room is named by its number, which is unique; a day is a number, and  *)
(* a night is named by the day before it.                                  *)
(***************************************************************************)
EXTENDS Integers, FiniteSets

CONSTANTS
  RoomNumbers, TypeIds, Features,
  CreatedAt,       \* when each room was created; rooms may share a time
  InitialRooms, InitialRoomTypes,
  InitialDead,     \* the deleted amenities, to which types may still be linked
  Stays,           \* the stays that may be booked
  Edits,           \* the prices and numbers of guests a type may be given
  Queries,         \* the queries that may be asked
  AnyType, AnyStatus, NoQuery,
  MaxAdvanceDays,
  MaxStayNights,
  MaxChanges       \* bound: the changes of rooms and types

RoomStatuses == {"READY", "OCCUPIED", "CLEANING", "MAINTENANCE", "HIDDEN"}
Unbookable == {"HIDDEN", "MAINTENANCE"}
Stay == {s \in [checkIn : Nat, checkOut : Nat] : s.checkIn < s.checkOut}

\* "booked" are the stays not cancelled, "blocked" the nights staff closed, and
\* "images" says how many images the room has.
SearchedRoom == [status : RoomStatuses, type : TypeIds, booked : SUBSET Stays, blocked : SUBSET Nat,
                 images : Nat]
SearchedType == [deleted : BOOLEAN, price : Nat, maxGuests : Nat, amenities : SUBSET Features]

ASSUME SearchAssumption ==
  /\ RoomNumbers \subseteq Nat /\ IsFiniteSet(RoomNumbers)
  /\ Stays \subseteq Stay /\ CreatedAt \in [RoomNumbers -> Nat]
  /\ InitialRooms \in [RoomNumbers -> SearchedRoom]
  /\ \A m \in RoomNumbers : IsFiniteSet(InitialRooms[m].booked)
  /\ InitialRoomTypes \in [TypeIds -> SearchedType] /\ InitialDead \subseteq Features
  /\ MaxAdvanceDays \in Nat /\ MaxStayNights \in Nat /\ MaxChanges \in Nat
  /\ Edits \subseteq [price : Nat, maxGuests : Nat] /\ NoQuery \notin Queries

ASSUME QueriesAssumption ==
  \A q \in Queries :
    /\ q.kind \in {"list", "management", "available", "search"}
    /\ q.stay \in [checkIn : Nat, checkOut : Nat] /\ q.guests \in Nat \ {0}
    /\ q.type \in TypeIds \cup {AnyType} /\ q.status \in RoomStatuses \cup {AnyStatus}
    /\ q.minPrice \in Nat /\ q.maxPrice \in Nat /\ q.amenities \subseteq Features
    /\ q.sort \in {"RECOMMENDED", "PRICE_ASC", "PRICE_DESC", "POPULARITY", "NEWEST"}
    /\ q.limit \in Nat \ {0}

VARIABLES
  room,         \* the rooms
  type,         \* the room types
  dead,         \* the amenities that have been deleted
  today,
  changes,      \* how many changes there have been
  asked,        \* the query being answered, how far, and the day it was asked
  found,        \* the numbers its first statement has returned
  answer,       \* the rooms its second statement has returned
  summaries     \* their calendars, as the third statement has seen them

searchVars == <<room, type, dead, today, changes, asked, found, answer, summaries>>

NothingAsked == [query |-> NoQuery, stage |-> "none", day |-> 0]

SearchInitOn(day) ==
  /\ room = InitialRooms /\ type = InitialRoomTypes /\ dead = InitialDead
  /\ today = day /\ changes = 0
  /\ asked = NothingAsked /\ found = {} /\ answer = {} /\ summaries = {}

SearchInit == SearchInitOn(0)

-----------------------------------------------------------------------------
(* The conditions of the lists *)

NightsOf(stay) == stay.checkIn..(stay.checkOut - 1)
Reserved(m) == UNION {NightsOf(s) : s \in room[m].booked}
Calendar(m) == Reserved(m) \cup room[m].blocked
TypeOf(m) == type[room[m].type]

Managed(m) == ~TypeOf(m).deleted

\* Mutant of Public: a room that was hidden is still shown.
PublicAndHidden(m) == Managed(m) /\ room[m].status # "MAINTENANCE"

Public(m) == Managed(m) /\ room[m].status \notin Unbookable

\* No night of the stay is in the calendar; the day of departure is free.
FreeFor(m, stay) == NightsOf(stay) \cap Calendar(m) = {}

OfType(m, q) == q.type \in {AnyType, room[m].type}

\* A deleted amenity is not counted, so no room has it.
HasAmenities(m, q) == q.amenities \subseteq TypeOf(m).amenities \ dead

Priced(m, q) == q.minPrice <= TypeOf(m).price /\ TypeOf(m).price <= q.maxPrice

\* The rooms a query is about.
Matching(q) ==
  {m \in RoomNumbers :
    /\ OfType(m, q)
    /\ CASE q.kind = "list" -> Public(m) /\ HasAmenities(m, q)
         [] q.kind = "management" -> Managed(m) /\ q.status \in {AnyStatus, room[m].status}
         [] q.kind = "available" ->
              Managed(m) /\ room[m].status \notin Unbookable
              /\ q.guests <= TypeOf(m).maxGuests /\ FreeFor(m, q.stay)
         [] q.kind = "search" ->
              Public(m) /\ q.guests <= TypeOf(m).maxGuests /\ FreeFor(m, q.stay)
              /\ Priced(m, q) /\ HasAmenities(m, q)}

\* The stay of a search must be possible on the day it is asked.
WithinBookingWindow(stay, day) == day <= stay.checkIn /\ stay.checkIn - day <= MaxAdvanceDays
StayAllowed(stay, day) ==
  /\ stay.checkIn < stay.checkOut /\ stay.checkOut - stay.checkIn <= MaxStayNights
  /\ WithinBookingWindow(stay, day)

QueryAllowed(q) ==
  /\ q.kind \in {"available", "search"} => StayAllowed(q.stay, today)
  /\ q.kind = "search" => q.minPrice <= q.maxPrice

-----------------------------------------------------------------------------
(* Order and pages *)

Popularity(m) == Cardinality(room[m].booked)

\* The value by which a search sorts first; a descending one is negated.
SortValue(q, m) ==
  CASE q.kind # "search" -> 0
    [] q.sort = "PRICE_DESC" -> -TypeOf(m).price
    [] q.sort = "NEWEST" -> -CreatedAt[m]
    [] q.sort = "POPULARITY" -> -Popularity(m)
    [] OTHER -> TypeOf(m).price

\* Equal values are ordered by price, in a search, and by number.
ThenBy(q, m) == IF q.kind = "search" THEN TypeOf(m).price ELSE 0

\* Mutant of Before: rooms of one price keep no order among themselves.
BeforeByPrice(q, m, n) ==
  \/ SortValue(q, m) < SortValue(q, n)
  \/ SortValue(q, m) = SortValue(q, n) /\ ThenBy(q, m) < ThenBy(q, n)

Before(q, m, n) ==
  \/ SortValue(q, m) < SortValue(q, n)
  \/ /\ SortValue(q, m) = SortValue(q, n)
     /\ \/ ThenBy(q, m) < ThenBy(q, n)
        \/ ThenBy(q, m) = ThenBy(q, n) /\ m < n

\* Every list is ordered by columns of the joined images as well, and TypeORM
\* takes the numbers of a page from the DISTINCT rooms and columns of the order:
\* a room has as many places in the pages as images, and one if it has none.
Places(rows) == UNION {{m} \X (0 .. IF room[m].images = 0 THEN 0 ELSE room[m].images - 1) : m \in rows}

PlaceBefore(q, x, y) == Before(q, x[1], y[1]) \/ (x[1] = y[1] /\ x[2] < y[2])
Rank(q, x, places) == Cardinality({y \in places : PlaceBefore(q, y, x)})

\* OFFSET and LIMIT cut the order of the places into pages.
PlacesOn(q, page) ==
  LET places == Places(Matching(q))
  IN {x \in places : Rank(q, x, places) \div q.limit = page - 1}

Page(q, page) == {x[1] : x \in PlacesOn(q, page)}

-----------------------------------------------------------------------------
(* Answering a query *)

Ask(q, page) ==
  /\ asked.stage = "none"
  /\ QueryAllowed(q)
  /\ asked' = [query |-> q, stage |-> "numbers", day |-> today]
  /\ found' = Page(q, page)
  /\ answer' = {} /\ summaries' = {}
  /\ UNCHANGED <<room, type, dead, today, changes>>

\* Mutant of Fetched: the rows are read by their numbers alone.
FetchedByNumber(q) == found

\* The rows of the page are read under the conditions of the query again.
Fetched(q) == found \cap Matching(q)

FetchRooms ==
  /\ asked.stage = "numbers"
  /\ answer' = Fetched(asked.query)
  /\ asked' = IF asked.query.kind = "management" THEN [asked EXCEPT !.stage = "rows"] ELSE NothingAsked
  /\ found' = {}
  /\ UNCHANGED <<room, type, dead, today, changes, summaries>>

\* The nearest entry of the calendar from today on, if there is one.
NextEvents(m) ==
  {d \in Calendar(m) : today <= d /\ \A e \in Calendar(m) : today <= e => d <= e}

\* What staff see of the calendar next to a room.
Summary(m) ==
  [number |-> m, next |-> NextEvents(m),
   todayStatus |-> IF today \notin NextEvents(m) THEN "AVAILABLE"
                   ELSE IF today \in Reserved(m) THEN "RESERVED" ELSE "BLOCKED"]

GetCalendarSummaries ==
  /\ asked.stage = "rows"
  /\ summaries' = {Summary(m) : m \in answer}
  /\ asked' = NothingAsked
  /\ UNCHANGED <<room, type, dead, today, changes, found, answer>>

-----------------------------------------------------------------------------
(* The world changes *)

Change == changes < MaxChanges /\ changes' = changes + 1 /\ UNCHANGED <<asked, found, answer, summaries>>

\* What creating a booking demands of the room, its type and the stay.
CanBeBooked(m, stay, guests, day) ==
  /\ ~TypeOf(m).deleted
  /\ room[m].status \notin {"HIDDEN", "MAINTENANCE"}
  /\ guests <= TypeOf(m).maxGuests
  /\ StayAllowed(stay, day)
  /\ NightsOf(stay) \cap Calendar(m) = {}

Book(m, stay) ==
  /\ Change
  /\ CanBeBooked(m, stay, 1, today)
  /\ room' = [room EXCEPT ![m].booked = @ \cup {stay}]
  /\ UNCHANGED <<type, dead, today>>

Cancel(m, stay) ==
  /\ Change
  /\ stay \in room[m].booked /\ room[m].status # "OCCUPIED"
  /\ room' = [room EXCEPT ![m].booked = @ \ {stay}]
  /\ UNCHANGED <<type, dead, today>>

\* Staff close nights that are free, and open closed ones.
Block(m, stay) ==
  /\ Change
  /\ FreeFor(m, stay)
  /\ room' = [room EXCEPT ![m].blocked = @ \cup NightsOf(stay)]
  /\ UNCHANGED <<type, dead, today>>

Unblock(m, stay) ==
  /\ Change
  /\ room' = [room EXCEPT ![m].blocked = @ \ NightsOf(stay)]
  /\ UNCHANGED <<type, dead, today>>

\* Staff or a check-in and a check-out change the status.
SetStatus(m, status) ==
  /\ Change
  /\ room[m].status # status
  /\ room' = [room EXCEPT ![m].status = status]
  /\ UNCHANGED <<type, dead, today>>

\* An image of the room is added or deleted.
ChangeImages(m, number) ==
  /\ Change
  /\ room' = [room EXCEPT ![m].images = number]
  /\ UNCHANGED <<type, dead, today>>

MoveToType(m, t) ==
  /\ Change
  /\ ~type[t].deleted
  /\ room' = [room EXCEPT ![m].type = t]
  /\ UNCHANGED <<type, dead, today>>

EditType(t, price, maxGuests) ==
  /\ Change
  /\ ~type[t].deleted
  /\ type' = [type EXCEPT ![t].price = price, ![t].maxGuests = maxGuests]
  /\ UNCHANGED <<room, dead, today>>

RetireType(t) ==
  /\ Change
  /\ ~type[t].deleted /\ \A m \in RoomNumbers : room[m].type # t
  /\ type' = [type EXCEPT ![t].deleted = TRUE]
  /\ UNCHANGED <<room, dead, today>>

RetireAmenity(a) ==
  /\ Change
  /\ \A t \in TypeIds : type[t].deleted \/ a \notin type[t].amenities
  /\ dead' = dead \cup {a}
  /\ UNCHANGED <<room, type, today>>

Midnight ==
  /\ Change
  /\ today' = today + 1
  /\ UNCHANGED <<room, type, dead>>
-----------------------------------------------------------------------------
SearchNext ==
  \/ \E q \in Queries, page \in 1..(Cardinality(Places(RoomNumbers)) + 1) : Ask(q, page)
  \/ FetchRooms \/ GetCalendarSummaries
  \/ \E m \in RoomNumbers, stay \in Stays :
       Book(m, stay) \/ Cancel(m, stay) \/ Block(m, stay) \/ Unblock(m, stay)
  \/ \E m \in RoomNumbers : \/ \E status \in RoomStatuses : SetStatus(m, status)
                            \/ \E t \in TypeIds : MoveToType(m, t)
                            \/ \E number \in {room[m].images - 1, room[m].images + 1} \cap Nat :
                                 ChangeImages(m, number)
  \/ \E t \in TypeIds : RetireType(t) \/ \E u \in Edits : EditType(t, u.price, u.maxGuests)
  \/ \E a \in Features : RetireAmenity(a)
  \/ Midnight

SearchSpec == SearchInit /\ [][SearchNext]_searchVars

-----------------------------------------------------------------------------
(* Properties *)

\* The types of the state.
SearchTypeOK ==
  /\ room \in [RoomNumbers -> SearchedRoom] /\ type \in [TypeIds -> SearchedType]
  /\ dead \subseteq Features /\ today \in Nat /\ changes \in 0..MaxChanges
  /\ asked \in [query : Queries \cup {NoQuery}, stage : {"none", "numbers", "rows"}, day : Nat]
  /\ found \subseteq RoomNumbers /\ answer \subseteq RoomNumbers

Offering(q) == q.kind \in {"available", "search"}

\* Whatever was booked, blocked, hidden or edited between the statements of a
\* search, creating a booking would accept every room it returns, for its
\* stay and guests, when its rows are read.
OffersCanBeBooked ==
  [][asked.stage = "numbers" /\ Offering(asked.query) =>
       \A m \in answer' : CanBeBooked(m, asked.query.stay, asked.query.guests, asked.day)]_searchVars

Unfiltered(q) ==
  q.type = AnyType /\ q.amenities = {} /\ \A m \in RoomNumbers : Priced(m, q)

\* The pages of a search without filters hold exactly the rooms that could be
\* booked, however many rooms share a price, a popularity or a time of creation:
\* no page is empty before all of them were shown and, unless a room has several
\* images, each room is on one page and each page full before the next one starts.
PagesHoldWhatCanBeBooked ==
  \A q \in Queries : Offering(q) /\ Unfiltered(q) /\ QueryAllowed(q) =>
    LET bookable == {m \in RoomNumbers : CanBeBooked(m, q.stay, q.guests, today)}
        total == Cardinality(Places(bookable))
        expected(p) == Cardinality({i \in 1..total : (i - 1) \div q.limit = p - 1})
        pages == 1..(total + 1)
    IN /\ UNION {Page(q, p) : p \in pages} = bookable
       /\ \A p \in pages :
            /\ Page(q, p) = {} <=> expected(p) = 0
            /\ (\A m \in bookable : room[m].images <= 1) => Cardinality(Page(q, p)) = expected(p)
=============================================================================
