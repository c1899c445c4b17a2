----------------------------- MODULE RoomImages -----------------------------
(***************************************************************************)
(* The images of rooms: rows in the database and files on the disk, which  *)
(* no transaction covers.  A transaction starts with a read of its own     *)
(* (the snapshot of REPEATABLE READ), or with the lock of the room, which  *)
(* serialises all that changes the images of the room.                     *)
(*                                                                         *)
(* An image is named by its file, whose name is random and never used      *)
(* again.  Every step of a request may fail, and the process may die.      *)
(***************************************************************************)
EXTENDS Integers, FiniteSets

CONSTANTS
  Rooms, Files,
  ImageRequests,
  ImageAsk,       \* what each request asks for
  ExistingImages, \* the image rows of the initial state
  NoImage,        \* no row
  NoRequest

ImageRow == [room : Rooms, order : Nat, cover : BOOLEAN]
ImageQuestion == [kind : {"create", "delete", "cover", "room"}, room : Rooms, file : Files,
                  order : Nat, cover : BOOLEAN]

CoversOf(rows, room) == {f \in Files : rows[f] # NoImage /\ rows[f].room = room /\ rows[f].cover}
ImagesOf(rows, room) == {f \in Files : rows[f] # NoImage /\ rows[f].room = room}

ASSUME ImagesAssumption ==
  /\ \A r \in ImageRequests : ImageAsk[r] \in ImageQuestion
  /\ ExistingImages \in [Files -> ImageRow \cup {NoImage}]
  /\ NoImage \notin ImageRow /\ NoRequest \notin ImageRequests

\* The random names of new files are fresh, and rooms have one cover each.
ASSUME FreshFilesAssumption ==
  /\ \A r \in ImageRequests : ImageAsk[r].kind = "create" =>
       /\ ExistingImages[ImageAsk[r].file] = NoImage
       /\ \A s \in ImageRequests \ {r} : ImageAsk[s].kind = "create" => ImageAsk[s].file # ImageAsk[r].file
  /\ \A m \in Rooms : ImagesOf(ExistingImages, m) # {} =>
       \E f \in Files : CoversOf(ExistingImages, m) = {f}

VARIABLES
  images,      \* the committed image rows
  files,       \* the files on the disk
  rooms,       \* the rooms that have a row
  roomHolder,  \* the request whose transaction holds each room's row
  imageStage,  \* how far the handling of each request has come
  snapshot,    \* the image rows as the transaction of each request sees them
  toUnlink     \* the files each request has yet to remove

imageVars == <<images, files, rooms, roomHolder, imageStage, snapshot, toUnlink>>

ImagesInit ==
  /\ images = ExistingImages
  /\ files = {f \in Files : ExistingImages[f] # NoImage}
  /\ rooms = Rooms
  /\ roomHolder = [m \in Rooms |-> NoRequest]
  /\ imageStage = [r \in ImageRequests |-> "new"]
  /\ snapshot = [r \in ImageRequests |-> ExistingImages]
  /\ toUnlink = [r \in ImageRequests |-> {}]

-----------------------------------------------------------------------------
IsAt(r, kinds, where) == ImageAsk[r].kind \in kinds /\ imageStage[r] = where

Enter(r, where) == imageStage' = [imageStage EXCEPT ![r] = where]

ReleaseRooms(r) ==
  roomHolder' = [m \in Rooms |-> IF roomHolder[m] = r THEN NoRequest ELSE roomHolder[m]]

\* The transaction is over; the files in "left" remain to be removed.
EndTransaction(r, left) ==
  /\ ReleaseRooms(r)
  /\ toUnlink' = [toUnlink EXCEPT ![r] = left]
  /\ Enter(r, IF left = {} THEN "done" ELSE "unlinking")

\* Mutant of LoseConnection: a creation removes its file after any failure.
LoseConnectionAndFile(r) ==
  EndTransaction(r, IF ImageAsk[r].kind = "create" THEN {ImageAsk[r].file} ELSE {})

\* The connection is lost: neither COMMIT nor ROLLBACK is answered, nobody
\* knows what became of the transaction, and no file is removed.
LoseConnection(r) ==
  /\ ReleaseRooms(r)
  /\ toUnlink' = [toUnlink EXCEPT ![r] = {}]
  /\ Enter(r, "broken")

Commit(r, left) == EndTransaction(r, left) \/ LoseConnection(r)

\* The transaction fails; a creation then removes the file it has written.
Fail(r) ==
  /\ imageStage[r] \in {"stored", "found", "locked"}
  /\ \/ EndTransaction(r, IF ImageAsk[r].kind = "create" THEN {ImageAsk[r].file} ELSE {})
     \/ LoseConnection(r)
  /\ UNCHANGED <<images, files, rooms, snapshot>>

\* deleteManaged(): a file that cannot be removed is logged and stays.
DeleteManaged(r) ==
  /\ imageStage[r] = "unlinking"
  /\ \E f \in toUnlink[r], removed \in BOOLEAN :
       /\ files' = IF removed THEN files \ {f} ELSE files
       /\ toUnlink' = [toUnlink EXCEPT ![r] = IF removed THEN @ \ {f} ELSE {}]
       /\ Enter(r, IF ~removed THEN "broken" ELSE IF toUnlink[r] = {f} THEN "done" ELSE "unlinking")
  /\ UNCHANGED <<images, rooms, roomHolder, snapshot>>

\* The process dies; the database rolls back what was not committed.
Crash ==
  /\ imageStage' = [r \in ImageRequests |->
                      IF imageStage[r] \in {"new", "done"} THEN imageStage[r] ELSE "broken"]
  /\ roomHolder' = [m \in Rooms |-> NoRequest]
  /\ toUnlink' = [r \in ImageRequests |-> {}]
  /\ UNCHANGED <<images, files, rooms, snapshot>>

\* Mutant of RoomIsFree: the room is read without a lock.
RoomIsAlwaysFree(m) == m \in Rooms

RoomIsFree(m) == roomHolder[m] = NoRequest

\* lockRoom(): a room that has been deleted ends the transaction.
LockRoom(r, m, left) ==
  IF m \notin rooms
  THEN EndTransaction(r, left)
  ELSE /\ RoomIsFree(m)
       /\ roomHolder' = [roomHolder EXCEPT ![m] = r]
       /\ Enter(r, "locked")
       /\ UNCHANGED toUnlink

-----------------------------------------------------------------------------
(* Creating an image *)

\* The file is checked, converted and written before the database is asked.  It
\* may be refused; and a write that fails, or that the process does not survive,
\* may leave a part of the file, which nobody removes.
Store(r) ==
  /\ IsAt(r, {"create"}, "new")
  /\ \/ files' = files \cup {ImageAsk[r].file} /\ Enter(r, "stored")
     \/ Enter(r, "done") /\ UNCHANGED files
     \/ files' = files \cup {ImageAsk[r].file} /\ Enter(r, "broken")
  /\ UNCHANGED <<images, rooms, roomHolder, snapshot, toUnlink>>

LockRoomForImage(r) ==
  /\ IsAt(r, {"create"}, "stored")
  /\ LockRoom(r, ImageAsk[r].room, {ImageAsk[r].file})
  /\ UNCHANGED <<images, files, rooms, snapshot>>

\* The rows with f as the only cover of the room.
CoveredBy(rows, room, f) ==
  [g \in Files |-> IF g \in ImagesOf(rows, room) THEN [rows[g] EXCEPT !.cover = (g = f)]
                   ELSE rows[g]]

\* The first image of a room is its cover, and so is one that asks to be.
CreateImage(r) ==
  /\ IsAt(r, {"create"}, "locked")
  /\ LET q == ImageAsk[r]
         isCover == q.cover \/ ImagesOf(images, q.room) = {}
         rows == [images EXCEPT ![q.file] = [room |-> q.room, order |-> q.order, cover |-> isCover]]
     IN images' = IF isCover THEN CoveredBy(rows, q.room, q.file) ELSE rows
  /\ Commit(r, {})
  /\ UNCHANGED <<files, rooms, snapshot>>

-----------------------------------------------------------------------------
(* Deleting an image, and choosing the cover *)

\* A consistent read tells the room; it fixes what the transaction sees.
FindImage(r) ==
  /\ IsAt(r, {"delete", "cover"}, "new")
  /\ snapshot' = [snapshot EXCEPT ![r] = images]
  /\ Enter(r, IF images[ImageAsk[r].file] = NoImage THEN "done" ELSE "found")
  /\ UNCHANGED <<images, files, rooms, roomHolder, toUnlink>>

LockRoomOfImage(r) ==
  /\ IsAt(r, {"delete", "cover"}, "found")
  /\ LockRoom(r, snapshot[r][ImageAsk[r].file].room, {})
  /\ UNCHANGED <<images, files, rooms, snapshot>>

\* Mutant of LockedImage: a plain read, which the snapshot answers.
SnapshotImage(r) == snapshot[r][ImageAsk[r].file]

\* A locking read sees the current row, not that of the snapshot.
LockedImage(r) == images[ImageAsk[r].file]

\* The image that comes first becomes the cover when the cover goes; ids
\* break ties.
NextCovers(rows, room) ==
  {f \in ImagesOf(rows, room) : \A g \in ImagesOf(rows, room) : rows[f].order <= rows[g].order}

\* Written directly, whatever the snapshot says of the row.
Promoted(rows, f) == [rows EXCEPT ![f].cover = TRUE]

DeleteImage(r) ==
  /\ IsAt(r, {"delete"}, "locked")
  /\ LET f == ImageAsk[r].file
         image == LockedImage(r)
         rest == [images EXCEPT ![f] = NoImage]
     IN IF image = NoImage
        THEN EndTransaction(r, {}) /\ UNCHANGED images
        ELSE /\ IF image.cover /\ NextCovers(rest, image.room) # {}
                THEN \E g \in NextCovers(rest, image.room) : images' = Promoted(rest, g)
                ELSE images' = rest
             /\ Commit(r, {f})
  /\ UNCHANGED <<files, rooms, snapshot>>

SetCover(r) ==
  /\ IsAt(r, {"cover"}, "locked")
  /\ LET image == LockedImage(r)
     IN IF image = NoImage
        THEN EndTransaction(r, {}) /\ UNCHANGED images
        ELSE images' = CoveredBy(images, image.room, ImageAsk[r].file) /\ Commit(r, {})
  /\ UNCHANGED <<files, rooms, snapshot>>

-----------------------------------------------------------------------------
(* Deleting a room *)

\* The room and its images are read under the lock.
LockAdminRoom(r) ==
  /\ IsAt(r, {"room"}, "new")
  /\ LET m == ImageAsk[r].room
     IN IF m \notin rooms
        THEN EndTransaction(r, {})
        ELSE /\ RoomIsFree(m)
             /\ roomHolder' = [roomHolder EXCEPT ![m] = r]
             /\ toUnlink' = [toUnlink EXCEPT ![r] = ImagesOf(images, m)]
             /\ Enter(r, "locked")
  /\ UNCHANGED <<images, files, rooms, snapshot>>

\* A room with a history is kept.  Its image rows go with it by the foreign
\* key, their files after the commit.
DeleteRoom(r) ==
  /\ IsAt(r, {"room"}, "locked")
  /\ LET m == ImageAsk[r].room
     IN \/ EndTransaction(r, {}) /\ UNCHANGED <<images, rooms>>
        \/ /\ rooms' = rooms \ {m}
           /\ images' = [f \in Files |-> IF f \in ImagesOf(images, m) THEN NoImage ELSE images[f]]
           /\ Commit(r, toUnlink[r])
  /\ UNCHANGED <<files, snapshot>>

-----------------------------------------------------------------------------
ImagesNext ==
  \/ \E r \in ImageRequests :
       \/ Store(r) \/ LockRoomForImage(r) \/ CreateImage(r)
       \/ FindImage(r) \/ LockRoomOfImage(r) \/ DeleteImage(r) \/ SetCover(r)
       \/ LockAdminRoom(r) \/ DeleteRoom(r)
       \/ Fail(r) \/ DeleteManaged(r)
  \/ Crash

ImagesSpec == ImagesInit /\ [][ImagesNext]_imageVars

-----------------------------------------------------------------------------
(* Properties *)

StageSet == {"new", "stored", "found", "locked", "unlinking", "done", "broken"}

\* The types of the state.
ImagesTypeOK ==
  /\ images \in [Files -> ImageRow \cup {NoImage}]
  /\ files \subseteq Files /\ rooms \subseteq Rooms
  /\ roomHolder \in [Rooms -> ImageRequests \cup {NoRequest}]
  /\ imageStage \in [ImageRequests -> StageSet]
  /\ snapshot \in [ImageRequests -> [Files -> ImageRow \cup {NoImage}]]
  /\ toUnlink \in [ImageRequests -> SUBSET Files]

\* A room with images has exactly one cover, as the data audit demands: a
\* deletion of the cover that waited for the room must choose the next one by
\* what the rows are now, and write it.
CoverIsUnique ==
  \A m \in Rooms : ImagesOf(images, m) # {} => \E f \in Files : CoversOf(images, m) = {f}

\* The room a file is, or was, or will be an image of.
IsFileOf(f, m) ==
  \/ ExistingImages[f] # NoImage /\ ExistingImages[f].room = m
  \/ \E r \in ImageRequests :
       ImageAsk[r].kind = "create" /\ ImageAsk[r].file = f /\ ImageAsk[r].room = m

\* No row is without its file, whatever fails; and a file without a row belongs
\* to a request that is not finished or was broken off: by a crash, by the loss of
\* its connection, or by a write or an unlink of that file that failed.
FilesMatchRows ==
  \A f \in Files :
    /\ images[f] # NoImage => f \in files
    /\ f \in files /\ images[f] = NoImage =>
         \E r \in ImageRequests :
           /\ imageStage[r] \notin {"new", "done"}
           /\ \/ ImageAsk[r].kind \in {"create", "delete"} /\ ImageAsk[r].file = f
              \/ ImageAsk[r].kind = "room" /\ IsFileOf(f, ImageAsk[r].room)
=============================================================================
