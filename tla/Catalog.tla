------------------------------ MODULE Catalog ------------------------------
(***************************************************************************)
(* Rooms, room types and amenities: what refers to what, while types and   *)
(* amenities are soft-deleted and restored and rooms come, move and go.    *)
(* No foreign key knows of a soft deletion; only row locks, taken one at a *)
(* time, keep a deletion apart from what would refer to the deleted row.   *)
(* A transaction commits all it writes with its last step and may fail     *)
(* before: a name is taken, a deadlock chooses it, the connection is lost. *)
(***************************************************************************)
EXTENDS Integers

CONSTANTS
  RoomTypes, Amenities,
  RoomRows,         \* rooms that exist or may be added
  AmenityId,        \* the id of each amenity
  CatalogRequests,
  CatalogAsk,       \* what each request asks for
  CatalogArrivals,  \* the sets of requests that may arrive together
  InitialTypes,     \* the room type of each room, NoType if there is no room
  InitialLinks,     \* the amenities linked to each type
  InitialDeleted,   \* the soft-deleted types and amenities
  NoType, NoOwner

CatalogRows == RoomTypes \cup Amenities \cup RoomRows
CatalogQuestion ==
  [kind : {"addRoom", "moveRoom", "removeRoom", "deleteType", "restoreType",
           "setAmenities", "deleteAmenity", "restoreAmenity"},
   room : RoomRows, type : RoomTypes, amenity : Amenities, amenities : SUBSET Amenities]

ASSUME CatalogAssumption ==
  /\ RoomTypes \cap (Amenities \cup RoomRows) = {} /\ Amenities \cap RoomRows = {}
  /\ NoType \notin CatalogRows /\ NoOwner \notin CatalogRequests
  /\ AmenityId \in [Amenities -> Nat]
  /\ \A a, b \in Amenities : AmenityId[a] = AmenityId[b] => a = b
  /\ \A r \in CatalogRequests : CatalogAsk[r] \in CatalogQuestion
  /\ CatalogArrivals \subseteq SUBSET CatalogRequests

\* At first no room is of a deleted type, and no type in use has a deleted amenity.
ASSUME InitialAssumption ==
  /\ InitialDeleted \subseteq RoomTypes \cup Amenities
  /\ InitialTypes \in [RoomRows -> (RoomTypes \ InitialDeleted) \cup {NoType}]
  /\ InitialLinks \in [RoomTypes -> SUBSET Amenities]
  /\ \A t \in RoomTypes \ InitialDeleted : InitialLinks[t] \cap InitialDeleted = {}

VARIABLES
  roomType,      \* the room type of each room that exists
  links,         \* the amenities linked to each type
  deleted,       \* the soft-deleted types and amenities
  rowOwner,      \* the request whose transaction holds each row
  catalogStage,  \* how far the handling of each request has come
  listed         \* the links each restoration of a type has read

catalogVars == <<roomType, links, deleted, rowOwner, catalogStage, listed>>

CatalogInitWith(arriving) ==
  /\ roomType = InitialTypes /\ links = InitialLinks /\ deleted = InitialDeleted
  /\ rowOwner = [x \in CatalogRows |-> NoOwner]
  /\ catalogStage = [r \in CatalogRequests |-> IF r \in arriving THEN "new" ELSE "absent"]
  /\ listed = [r \in CatalogRequests |-> {}]

CatalogInit == \E arriving \in CatalogArrivals : CatalogInitWith(arriving)

-----------------------------------------------------------------------------
(* Row locks *)

\* Mutant of ToLock: a room is moved without locking its new type.
ToLockOfRoom(r) ==
  LET q == CatalogAsk[r]
      wanted == CASE q.kind \in {"addRoom", "deleteType"} -> {q.type}
                  [] q.kind \in {"moveRoom", "removeRoom"} -> {q.room}
                  [] q.kind = "restoreType" -> listed[r] \cup {q.type}
                  [] q.kind = "setAmenities" -> q.amenities \cup {q.type}
                  [] OTHER -> {q.amenity}
  IN {x \in wanted : rowOwner[x] # r}

\* The rows a request works under.  A room is deleted after a locking read
\* that joins its type and its amenities.
Wanted(r) ==
  LET q == CatalogAsk[r]
      t == roomType[q.room]
  IN CASE q.kind \in {"addRoom", "deleteType"} -> {q.type}
       [] q.kind = "moveRoom" -> {q.type, q.room}
       [] q.kind = "removeRoom" ->
            IF rowOwner[q.room] # r \/ t = NoType THEN {q.room} ELSE {q.room, t} \cup links[t]
       [] q.kind = "restoreType" -> listed[r] \cup {q.type}
       [] q.kind = "setAmenities" -> q.amenities \cup {q.type}
       [] OTHER -> {q.amenity}

\* The rows it has yet to lock.
ToLock(r) == {x \in Wanted(r) : rowOwner[x] # r}

\* Rows are locked table by table, and amenities by ascending id.
Tables(r) ==
  IF CatalogAsk[r].kind = "removeRoom" THEN <<RoomRows, RoomTypes, Amenities>>
  ELSE <<Amenities, RoomTypes, RoomRows>>
LockedBefore(r, x, y) ==
  \/ \E i, j \in 1..3 : i < j /\ x \in Tables(r)[i] /\ y \in Tables(r)[j]
  \/ x \in Amenities /\ y \in Amenities /\ AmenityId[x] < AmenityId[y]

Stage(r, next) == catalogStage' = [catalogStage EXCEPT ![r] = next]

Done(r, next) ==
  /\ Stage(r, next)
  /\ rowOwner' = [x \in CatalogRows |-> IF rowOwner[x] = r THEN NoOwner ELSE rowOwner[x]]

\* The restoration of a type starts with a plain read of its links.
Start(r) ==
  /\ catalogStage[r] = "new"
  /\ Stage(r, "locking")
  /\ listed' = [listed EXCEPT ![r] =
                  IF CatalogAsk[r].kind = "restoreType" THEN links[CatalogAsk[r].type] ELSE {}]
  /\ UNCHANGED <<roomType, links, deleted, rowOwner>>

\* What a request demands of a row when it has locked it.
Suits(r, x) ==
  LET kind == CatalogAsk[r].kind IN
  /\ kind \in {"addRoom", "moveRoom", "deleteType"} /\ x \in RoomTypes => x \notin deleted
  /\ kind = "restoreType" /\ x \in RoomTypes => x \in deleted
  /\ kind \in {"setAmenities", "deleteAmenity"} => x \notin deleted
  /\ kind \in {"moveRoom", "removeRoom"} /\ x \in RoomRows => roomType[x] # NoType

LockRow(r) ==
  /\ catalogStage[r] = "locking"
  /\ \E x \in ToLock(r) :
       /\ \A y \in ToLock(r) \ {x} : LockedBefore(r, x, y)
       /\ rowOwner[x] = NoOwner
       /\ IF Suits(r, x)
          THEN rowOwner' = [rowOwner EXCEPT ![x] = r] /\ UNCHANGED catalogStage
          ELSE Done(r, "failed")
  /\ UNCHANGED <<roomType, links, deleted, listed>>

\* All locks are held, and the request is of this kind.
Locked(r, kind) ==
  CatalogAsk[r].kind = kind /\ catalogStage[r] = "locking" /\ ToLock(r) = {}

\* Whatever goes wrong, the transaction is rolled back.
RollBack(r) ==
  /\ catalogStage[r] \in {"locking", "unused"}
  /\ Done(r, "failed")
  /\ UNCHANGED <<roomType, links, deleted, listed>>

-----------------------------------------------------------------------------
(* Rooms *)

AddRoom(r) ==
  /\ Locked(r, "addRoom")
  /\ LET q == CatalogAsk[r]
     IN /\ roomType[q.room] = NoType
        /\ roomType' = [roomType EXCEPT ![q.room] = q.type]
  /\ Done(r, "done")
  /\ UNCHANGED <<links, deleted, listed>>

MoveRoom(r) ==
  /\ Locked(r, "moveRoom")
  /\ roomType' = [roomType EXCEPT ![CatalogAsk[r].room] = CatalogAsk[r].type]
  /\ Done(r, "done")
  /\ UNCHANGED <<links, deleted, listed>>

\* A room without history is removed for good.
RemoveRoom(r) ==
  /\ Locked(r, "removeRoom")
  /\ roomType' = [roomType EXCEPT ![CatalogAsk[r].room] = NoType]
  /\ Done(r, "done")
  /\ UNCHANGED <<links, deleted, listed>>

-----------------------------------------------------------------------------
(* Room types *)

\* hasActiveRooms() is a locking read; whoever holds one of the rooms makes
\* it wait, and one room is enough to refuse the deletion.
RoomsOf(t) == {m \in RoomRows : roomType[m] = t}

SoftDeleteType(r) ==
  /\ Locked(r, "deleteType")
  /\ LET t == CatalogAsk[r].type
     IN /\ RoomsOf(t) = {}
        /\ deleted' = deleted \cup {t}
  /\ Done(r, "done")
  /\ UNCHANGED <<roomType, links, listed>>

\* The links to amenities that have been deleted since; those that the
\* restoration has not read it has not locked.
StaleLinks(r) == listed[r] \cap deleted

RestoreType(r) ==
  /\ Locked(r, "restoreType")
  /\ LET t == CatalogAsk[r].type
     IN /\ links' = [links EXCEPT ![t] = @ \ StaleLinks(r)]
        /\ deleted' = deleted \ {t}
  /\ Done(r, "done")
  /\ UNCHANGED <<roomType, listed>>

SetAmenities(r) ==
  /\ Locked(r, "setAmenities")
  /\ links' = [links EXCEPT ![CatalogAsk[r].type] = CatalogAsk[r].amenities]
  /\ Done(r, "done")
  /\ UNCHANGED <<roomType, deleted, listed>>

-----------------------------------------------------------------------------
(* Amenities *)

IsUsedByActiveRoomType(a) == \E t \in RoomTypes \ deleted : a \in links[t]

\* The use of the locked amenity is a plain read; it is deleted afterwards.
CheckUse(r) ==
  /\ Locked(r, "deleteAmenity")
  /\ ~IsUsedByActiveRoomType(CatalogAsk[r].amenity)
  /\ Stage(r, "unused")
  /\ UNCHANGED <<roomType, links, deleted, rowOwner, listed>>

SoftDeleteAmenity(r) ==
  /\ catalogStage[r] = "unused"
  /\ deleted' = deleted \cup {CatalogAsk[r].amenity}
  /\ Done(r, "done")
  /\ UNCHANGED <<roomType, links, listed>>

\* recover() waits for the row only to write it.
RestoreAmenity(r) ==
  /\ Locked(r, "restoreAmenity")
  /\ deleted' = deleted \ {CatalogAsk[r].amenity}
  /\ Done(r, "done")
  /\ UNCHANGED <<roomType, links, listed>>

-----------------------------------------------------------------------------
CatalogNext == \E r \in CatalogRequests :
  \/ Start(r) \/ LockRow(r) \/ RollBack(r)
  \/ AddRoom(r) \/ MoveRoom(r) \/ RemoveRoom(r)
  \/ SoftDeleteType(r) \/ RestoreType(r) \/ SetAmenities(r)
  \/ CheckUse(r) \/ SoftDeleteAmenity(r) \/ RestoreAmenity(r)

CatalogSpec == CatalogInit /\ [][CatalogNext]_catalogVars

-----------------------------------------------------------------------------
(* Properties *)

\* The types of the state.
CatalogTypeOK ==
  /\ roomType \in [RoomRows -> RoomTypes \cup {NoType}]
  /\ links \in [RoomTypes -> SUBSET Amenities]
  /\ deleted \subseteq RoomTypes \cup Amenities
  /\ rowOwner \in [CatalogRows -> CatalogRequests \cup {NoOwner}]
  /\ catalogStage \in [CatalogRequests -> {"absent", "new", "locking", "unused", "done", "failed"}]
  /\ listed \in [CatalogRequests -> SUBSET Amenities]

\* No room is of a deleted type: a type is not deleted while a room comes to
\* it or moves to it.
RoomsHaveActiveTypes == \A m \in RoomRows : roomType[m] \notin deleted

\* A type in use is linked to a deleted amenity only if it was restored from
\* a list of its links that was out of date when its locks were taken.
DeadLinksComeFromOldLists ==
  \A t \in RoomTypes \ deleted : \A a \in links[t] \cap deleted :
    \E r \in CatalogRequests :
      /\ CatalogAsk[r].kind = "restoreType" /\ CatalogAsk[r].type = t
      /\ catalogStage[r] = "done" /\ a \notin listed[r]

\* What a room or a type in use refers to has not been deleted, but for links
\* that were listed too early.
ReferencesHold == RoomsHaveActiveTypes /\ DeadLinksComeFromOldLists
=============================================================================
