------------------------------ MODULE RoomProofs ------------------------------
(***************************************************************************)
(* What holds of rooms, and of lists, for any number of rows and requests. *)
(* Of the images of rooms: one cover per room, no row without its file,    *)
(* and no file without a request that answers for it.  Of rooms, types and *)
(* amenities: no reference to what is deleted, but of the one kind that is *)
(* explained.  Of searches: they offer what can be booked, and their pages *)
(* hold all of it.  Of the other lists: a walk misses nothing that stays.  *)
(***************************************************************************)
EXTENDS RoomImages, Catalog, RoomSearch, Listings, FiniteSetTheorems, FunctionTheorems,
        WellFoundedInduction, TLAPS
-----------------------------------------------------------------------------
(* Images.                                                                  *)

\* The stages before a creation has committed.
Early == {"new", "stored", "found", "locked"}

\* A creation of this file may still commit.
Coming(f) ==
  \E r \in ImageRequests :
    ImageAsk[r].kind = "create" /\ ImageAsk[r].file = f /\ imageStage[r] \in Early

\* The file is the business of this request.
Concerns(r, f) ==
  \/ ImageAsk[r].kind \in {"create", "delete"} /\ ImageAsk[r].file = f
  \/ ImageAsk[r].kind = "room" /\ IsFileOf(f, ImageAsk[r].room)

\* A row has its file, and only one request ever writes it.
RowSound(f) ==
  images[f] # NoImage => f \in files /\ IsFileOf(f, images[f].room) /\ ~Coming(f)

\* A creation that may commit has written its file and holds its room; a
\* deletion of a room has seen all images the room has.
HoldsWhatItNeeds(r) ==
  /\ ImageAsk[r].kind = "create" /\ imageStage[r] \in Early \ {"new"} => ImageAsk[r].file \in files
  /\ ImageAsk[r].kind \in {"create", "room"} /\ imageStage[r] = "locked" =>
       roomHolder[ImageAsk[r].room] = r
  /\ ImageAsk[r].kind = "room" /\ imageStage[r] = "locked" =>
       ImagesOf(images, ImageAsk[r].room) \subseteq toUnlink[r]

\* What a request will remove has no row when it is removed, and gets none.
Removable(r, f) ==
  /\ Concerns(r, f) /\ ~Coming(f)
  /\ \/ imageStage[r] = "unlinking" /\ images[f] = NoImage
     \/ /\ imageStage[r] = "locked" /\ ImageAsk[r].kind = "room"
        /\ images[f] = NoImage \/ images[f].room = ImageAsk[r].room

\* The request will give this file a row or remove it, or was broken off.
AnswersFor(r, f) ==
  /\ Concerns(r, f)
  /\ \/ imageStage[r] = "broken"
     \/ imageStage[r] = "unlinking" /\ f \in toUnlink[r]
     \/ ImageAsk[r].kind = "create" /\ imageStage[r] \in Early \ {"new"}

Accounted(f) ==
  f \in files /\ images[f] = NoImage => \E r \in ImageRequests : AnswersFor(r, f)

ImagesInv ==
  /\ \A f \in Files : RowSound(f) /\ Accounted(f)
  /\ \A r \in ImageRequests : HoldsWhatItNeeds(r) /\ \A f \in toUnlink[r] : Removable(r, f)

\* The types of what the requests themselves hold.
ImageControlOK ==
  /\ roomHolder \in [Rooms -> ImageRequests \cup {NoRequest}]
  /\ imageStage \in [ImageRequests -> StageSet]
  /\ toUnlink \in [ImageRequests -> SUBSET Files]

\* A step of r leaves alone what the other requests hold.
OthersKeep(r) ==
  \A s \in ImageRequests \ {r} :
    /\ imageStage'[s] = imageStage[s] /\ toUnlink'[s] = toUnlink[s]
    /\ \A m \in Rooms : roomHolder[m] = s => roomHolder'[m] = s

\* Where r is after the step, and what it has left to remove.
Reaches(r, stage, left) ==
  /\ ImageControlOK' /\ OthersKeep(r)
  /\ imageStage'[r] = stage /\ toUnlink'[r] = left

\* The ways a transaction ends, and how it takes its lock.
LEMMA TransactionEnds ==
  ASSUME ImageControlOK, NEW r \in ImageRequests, NEW left \in SUBSET Files
  PROVE  /\ EndTransaction(r, left) => Reaches(r, IF left = {} THEN "done" ELSE "unlinking", left)
         /\ LoseConnection(r) => Reaches(r, "broken", {})
  <1>1. \A stage \in StageSet, rest \in SUBSET Files :
          /\ ReleaseRooms(r) /\ Enter(r, stage) /\ toUnlink' = [toUnlink EXCEPT ![r] = rest]
          => Reaches(r, stage, rest)
    BY DEF ImageControlOK, ReleaseRooms, Enter, Reaches, OthersKeep
  <1> DEFINE stage == IF left = {} THEN "done" ELSE "unlinking"
  <1>2. stage \in StageSet /\ "broken" \in StageSet /\ {} \in SUBSET Files
    BY DEF StageSet
  <1>3. EndTransaction(r, left) => Reaches(r, stage, left)
    BY <1>1, <1>2 DEF EndTransaction
  <1>4. LoseConnection(r) => Reaches(r, "broken", {})
    BY <1>1, <1>2 DEF LoseConnection
  <1> QED BY <1>3, <1>4

TakesRoom(r, m, left) ==
  /\ RoomIsFree(m) /\ roomHolder' = [roomHolder EXCEPT ![m] = r]
  /\ Enter(r, "locked") /\ toUnlink' = [toUnlink EXCEPT ![r] = left]

LEMMA RoomIsLocked ==
  ASSUME ImageControlOK, NEW r \in ImageRequests, NEW m \in Rooms,
         NEW left \in SUBSET Files, TakesRoom(r, m, left)
  PROVE  Reaches(r, "locked", left) /\ roomHolder'[m] = r
  <1>1. "locked" \in StageSet
    BY DEF StageSet
  <1>2. ImageControlOK' /\ imageStage'[r] = "locked" /\ toUnlink'[r] = left /\ roomHolder'[m] = r
    BY <1>1 DEF ImageControlOK, Enter, TakesRoom
  <1>3. OthersKeep(r)
    BY ImagesAssumption DEF ImageControlOK, Enter, OthersKeep, RoomIsFree, TakesRoom
  <1> QED BY <1>2, <1>3 DEF Reaches

\* Rows may vanish, and change in all but their room.
RowsKeepRooms ==
  \A f \in Files :
    images'[f] # NoImage => images[f] # NoImage /\ images'[f].room = images[f].room

\* A file is coming no sooner than before.
NothingNewComes(r) == imageStage'[r] \in Early => imageStage[r] \in Early

LEMMA ComingShrinks ==
  ASSUME NEW r \in ImageRequests, OthersKeep(r), NothingNewComes(r), NEW f \in Files, Coming(f)'
  PROVE  Coming(f)
  BY DEF Coming, OthersKeep, NothingNewComes

\* The files without a row that r is to answer for after the step.
TakesOver(r) ==
  \A f \in Files :
    /\ f \in files' /\ images'[f] = NoImage
    /\ f \notin files \/ images[f] # NoImage \/ AnswersFor(r, f)
    => AnswersFor(r, f)'

\* A step that creates no row, and answers for those it takes away.
LEMMA NoRowComes ==
  ASSUME ImagesInv, NEW r \in ImageRequests, OthersKeep(r), NothingNewComes(r),
         RowsKeepRooms, files \subseteq files', TakesOver(r),
         HoldsWhatItNeeds(r)', \A f \in toUnlink'[r] : Removable(r, f)',
         toUnlink' \in [ImageRequests -> SUBSET Files]
  PROVE  ImagesInv'
  <1>1. \A f \in Files : RowSound(f)'
    BY ComingShrinks DEF ImagesInv, RowSound, RowsKeepRooms
  <1>2. ASSUME NEW f \in Files, f \in files', images'[f] = NoImage
        PROVE  \E s \in ImageRequests : AnswersFor(s, f)'
    <2>1. CASE f \notin files \/ images[f] # NoImage
      BY <1>2, <2>1 DEF TakesOver
    <2>2. CASE f \in files /\ images[f] = NoImage
      <3>1. PICK s \in ImageRequests : AnswersFor(s, f)
        BY <2>2 DEF ImagesInv, Accounted
      <3>2. CASE s = r
        BY <1>2, <3>1, <3>2 DEF TakesOver
      <3>3. CASE s # r
        <4>1. imageStage'[s] = imageStage[s] /\ toUnlink'[s] = toUnlink[s]
          BY <3>3 DEF OthersKeep
        <4> QED BY <3>1, <4>1 DEF AnswersFor, Concerns
      <3> QED BY <3>2, <3>3
    <2> QED BY <2>1, <2>2
  <1>3. \A f \in Files : Accounted(f)'
    BY <1>2 DEF Accounted
  <1>4. ASSUME NEW s \in ImageRequests \ {r}
        PROVE  HoldsWhatItNeeds(s)' /\ \A f \in toUnlink'[s] : Removable(s, f)'
    <2>1. /\ imageStage'[s] = imageStage[s] /\ toUnlink'[s] = toUnlink[s]
          /\ \A m \in Rooms : roomHolder[m] = s => roomHolder'[m] = s
      BY <1>4 DEF OthersKeep
    <2>2. HoldsWhatItNeeds(s) /\ \A f \in toUnlink[s] : Removable(s, f)
      BY <1>4 DEF ImagesInv
    <2>3. ImageAsk[s].room \in Rooms
      BY ImagesAssumption DEF ImageQuestion
    <2>4. ImagesOf(images', ImageAsk[s].room) \subseteq ImagesOf(images, ImageAsk[s].room)
      BY DEF ImagesOf, RowsKeepRooms
    <2>5. HoldsWhatItNeeds(s)'
      BY <2>1, <2>2, <2>3, <2>4 DEF HoldsWhatItNeeds
    <2>6. ASSUME NEW f \in toUnlink'[s]
          PROVE  Removable(s, f)'
      <3>1. f \in Files /\ Removable(s, f)
        BY <2>1, <2>2, <2>6
      <3>2. ~Coming(f)'
        BY <3>1, ComingShrinks DEF Removable
      <3>3. images'[f] = NoImage \/ (images[f] # NoImage /\ images'[f].room = images[f].room)
        BY <3>1 DEF RowsKeepRooms
      <3> QED BY <2>1, <3>1, <3>2, <3>3 DEF Removable, Concerns
    <2> QED BY <2>5, <2>6
  <1> QED BY <1>1, <1>3, <1>4 DEF ImagesInv

\* Who has nothing locked and nothing committed has nothing to remove.
LEMMA NothingToRemove ==
  ASSUME ImagesTypeOK, ImagesInv, NEW r \in ImageRequests,
         imageStage[r] \notin {"locked", "unlinking"} \/ (imageStage[r] = "locked" /\ ImageAsk[r].kind # "room")
  PROVE  toUnlink[r] = {}
  BY DEF ImagesTypeOK, ImagesInv, Removable

\* Nobody else creates the file of a creation, and it has no row before.
LEMMA CreationIsAlone ==
  ASSUME ImagesInv, NEW r \in ImageRequests, ImageAsk[r].kind = "create", imageStage[r] \in Early
  PROVE  /\ ImageAsk[r].file \in Files /\ images[ImageAsk[r].file] = NoImage
         /\ OthersKeep(r) /\ imageStage'[r] \notin Early => ~Coming(ImageAsk[r].file)'
  <1>1. ImageAsk[r].file \in Files
    BY ImagesAssumption DEF ImageQuestion
  <1>2. images[ImageAsk[r].file] = NoImage
    BY <1>1 DEF ImagesInv, RowSound, Coming
  <1>3. \A s \in ImageRequests \ {r} :
          ImageAsk[s].kind = "create" => ImageAsk[s].file # ImageAsk[r].file
    BY FreshFilesAssumption
  <1>4. ASSUME imageStage'[r] \notin Early PROVE ~Coming(ImageAsk[r].file)'
    BY <1>3, <1>4 DEF Coming
  <1> QED BY <1>1, <1>2, <1>4

\* The end of a request's transaction, however it ends.
LEMMA EndOfTransaction ==
  ASSUME ImagesTypeOK, ImagesInv, NEW r \in ImageRequests, NEW stage, NEW left,
         Reaches(r, stage, left), stage \in {"done", "broken", "unlinking"},
         RowsKeepRooms, UNCHANGED files,
         \A f \in left : stage = "unlinking" /\ Concerns(r, f) /\ ~Coming(f)' /\ images'[f] = NoImage,
         \A f \in Files :
           AnswersFor(r, f) \/ images[f] # NoImage => images'[f] # NoImage \/ AnswersFor(r, f)'
  PROVE  ImagesInv'
  <1>1. OthersKeep(r) /\ imageStage'[r] = stage /\ toUnlink'[r] = left /\ ImageControlOK'
    BY DEF Reaches
  <1>2. NothingNewComes(r) /\ HoldsWhatItNeeds(r)'
    BY <1>1 DEF NothingNewComes, HoldsWhatItNeeds, Early
  <1>3. \A f \in toUnlink'[r] : Removable(r, f)'
    BY <1>1 DEF Removable, Concerns
  <1>4. toUnlink' \in [ImageRequests -> SUBSET Files]
    BY <1>1 DEF ImageControlOK
  <1> QED BY <1>1, <1>2, <1>3, <1>4, NoRowComes DEF TakesOver

LEMMA SameRows ==
  ASSUME UNCHANGED images
  PROVE  RowsKeepRooms
  BY DEF RowsKeepRooms

LEMMA ControlTypes == ImagesTypeOK => ImageControlOK
  BY DEF ImagesTypeOK, ImageControlOK

LEMMA CreationLocks ==
  ASSUME ImagesTypeOK, ImagesInv, NEW r \in ImageRequests, LockRoomForImage(r)
  PROVE  ImagesInv'
  <1> DEFINE f == ImageAsk[r].file
             m == ImageAsk[r].room
  <1>0. /\ f \in Files /\ m \in Rooms /\ ImageAsk[r].kind = "create" /\ imageStage[r] = "stored"
        /\ UNCHANGED <<images, files>> /\ ImageControlOK
    BY ImagesAssumption, ControlTypes DEF LockRoomForImage, IsAt, ImageQuestion
  <1>1. images[f] = NoImage /\ (OthersKeep(r) /\ imageStage'[r] \notin Early => ~Coming(f)')
    BY <1>0, CreationIsAlone DEF Early
  <1>2. toUnlink[r] = {}
    BY <1>0, NothingToRemove
  <1>3. CASE m \notin rooms
    <2>1. Reaches(r, "unlinking", {f})
      BY <1>0, <1>3, TransactionEnds DEF LockRoomForImage, LockRoom
    <2>2. ~Coming(f)'
      BY <1>1, <2>1 DEF Reaches, Early
    <2>3. Concerns(r, f)
      BY <1>0 DEF Concerns
    <2>4. \A g \in Files : AnswersFor(r, g) => AnswersFor(r, g)'
      BY <1>0, <2>1 DEF AnswersFor, Concerns, Reaches, Early
    <2> QED BY <1>0, <1>1, <2>1, <2>2, <2>3, <2>4, SameRows, EndOfTransaction
  <1>4. CASE m \in rooms
    <2>1. toUnlink' = [toUnlink EXCEPT ![r] = {}]
      BY <1>0, <1>2, <1>4 DEF LockRoomForImage, LockRoom, ImageControlOK
    <2>0. TakesRoom(r, m, {})
      BY <1>4, <2>1 DEF LockRoomForImage, LockRoom, TakesRoom
    <2>2. Reaches(r, "locked", {}) /\ roomHolder'[m] = r
      BY <1>0, <2>0, RoomIsLocked
    <2>3. NothingNewComes(r)
      BY <1>0 DEF NothingNewComes, Early
    <2>4. HoldsWhatItNeeds(r)
      BY DEF ImagesInv
    <2>5. HoldsWhatItNeeds(r)'
      BY <1>0, <2>2, <2>4 DEF HoldsWhatItNeeds, Reaches, Early
    <2>6. \A g \in Files : AnswersFor(r, g) => AnswersFor(r, g)'
      BY <1>0, <2>2 DEF AnswersFor, Concerns, Reaches, Early
    <2> QED BY <1>0, <2>2, <2>3, <2>5, <2>6, SameRows, NoRowComes DEF TakesOver, Reaches, ImageControlOK
  <1> QED BY <1>3, <1>4

LEMMA ImageIsFound ==
  ASSUME ImagesTypeOK, ImagesInv, NEW r \in ImageRequests, FindImage(r)
  PROVE  ImagesInv'
  <1>1. PICK stage \in {"done", "found"} : imageStage' = [imageStage EXCEPT ![r] = stage]
    BY DEF FindImage, Enter
  <1>2. /\ imageStage[r] = "new" /\ ImageAsk[r].kind \in {"delete", "cover"}
        /\ UNCHANGED <<images, files, roomHolder, toUnlink>> /\ toUnlink[r] = {}
    BY NothingToRemove DEF FindImage, IsAt
  <1>3. OthersKeep(r) /\ imageStage'[r] = stage
    BY <1>1, <1>2 DEF OthersKeep, ImagesTypeOK
  <1>4. NothingNewComes(r)
    BY <1>2 DEF NothingNewComes, Early
  <1>5. HoldsWhatItNeeds(r)'
    BY <1>2 DEF HoldsWhatItNeeds
  <1>6. \A g \in Files : ~AnswersFor(r, g)
    BY <1>2 DEF AnswersFor
  <1> QED BY <1>2, <1>3, <1>4, <1>5, <1>6, SameRows, NoRowComes DEF TakesOver, ImagesTypeOK

\* What choosing a cover does to the rows.
ImageTable == [Files -> ImageRow \cup {NoImage}]

LEMMA CoverIsChosen ==
  ASSUME NEW rows \in ImageTable, NEW m, NEW f
  PROVE  /\ CoveredBy(rows, m, f) \in ImageTable
         /\ \A g \in Files :
              /\ CoveredBy(rows, m, f)[g] # NoImage <=> rows[g] # NoImage
              /\ rows[g] # NoImage =>
                   /\ CoveredBy(rows, m, f)[g].room = rows[g].room
                   /\ rows[g].room = m => CoveredBy(rows, m, f)[g].cover = (g = f)
                   /\ rows[g].room # m => CoveredBy(rows, m, f)[g] = rows[g]
  <1> SUFFICES ASSUME NEW g \in Files
               PROVE  /\ CoveredBy(rows, m, f)[g] \in ImageRow \cup {NoImage}
                      /\ CoveredBy(rows, m, f)[g] # NoImage <=> rows[g] # NoImage
                      /\ rows[g] # NoImage =>
                           /\ CoveredBy(rows, m, f)[g].room = rows[g].room
                           /\ rows[g].room = m => CoveredBy(rows, m, f)[g].cover = (g = f)
                           /\ rows[g].room # m => CoveredBy(rows, m, f)[g] = rows[g]
    BY DEF CoveredBy, ImageTable
  <1> DEFINE row == [rows[g] EXCEPT !.cover = (g = f)]
  <1>1. CoveredBy(rows, m, f)[g] = IF g \in ImagesOf(rows, m) THEN row ELSE rows[g]
    BY DEF CoveredBy
  <1>2. rows[g] \in ImageRow \cup {NoImage}
    BY DEF ImageTable
  <1>3. CASE g \in ImagesOf(rows, m)
    <2>1. rows[g] \in ImageRow /\ rows[g].room = m
      BY <1>2, <1>3 DEF ImagesOf
    <2>2. PICK n \in Rooms, o \in Nat, c \in BOOLEAN : rows[g] = [room |-> n, order |-> o, cover |-> c]
      BY <2>1 DEF ImageRow
    <2>3. (g = f) \in BOOLEAN
      OBVIOUS
    <2>4. row = [room |-> n, order |-> o, cover |-> (g = f)]
      BY <2>2
    <2>5. row \in ImageRow
      BY <2>3, <2>4 DEF ImageRow
    <2>6. row.room = n /\ row.cover = (g = f) /\ rows[g].room = n
      BY <2>2, <2>4
    <2> QED BY <1>1, <1>3, <2>1, <2>5, <2>6, ImagesAssumption
  <1>4. CASE g \notin ImagesOf(rows, m)
    BY <1>1, <1>2, <1>4 DEF ImagesOf
  <1> QED BY <1>3, <1>4

LEMMA CoverIsPromoted ==
  ASSUME NEW rows \in ImageTable, NEW f \in Files, rows[f] # NoImage
  PROVE  /\ Promoted(rows, f) \in ImageTable
         /\ \A g \in Files :
              /\ Promoted(rows, f)[g] # NoImage <=> rows[g] # NoImage
              /\ g # f => Promoted(rows, f)[g] = rows[g]
         /\ Promoted(rows, f)[f].room = rows[f].room /\ Promoted(rows, f)[f].cover
  <1> DEFINE row == [rows[f] EXCEPT !.cover = TRUE]
  <1>1. Promoted(rows, f) = [rows EXCEPT ![f] = row]
    BY DEF Promoted
  <1>2. rows[f] \in ImageRow
    BY DEF ImageTable
  <1>4. row \in ImageRow /\ row.room = rows[f].room /\ row.cover = TRUE
    BY <1>2 DEF ImageRow
  <1> HIDE DEF row
  <1> QED BY <1>1, <1>4, ImagesAssumption DEF ImageTable

LEMMA ImageLocks ==
  ASSUME ImagesTypeOK, ImagesInv, NEW r \in ImageRequests, LockRoomOfImage(r)
  PROVE  ImagesInv'
  <1> DEFINE m == snapshot[r][ImageAsk[r].file].room
  <1>0. /\ imageStage[r] = "found" /\ ImageAsk[r].kind \in {"delete", "cover"}
        /\ UNCHANGED <<images, files>> /\ ImageControlOK /\ toUnlink[r] = {} /\ LockRoom(r, m, {})
    BY NothingToRemove, ControlTypes DEF LockRoomOfImage, IsAt
  <1>1. \A g \in Files : ~AnswersFor(r, g)
    BY <1>0 DEF AnswersFor
  <1> HIDE DEF m
  <1>2. CASE m \notin rooms
    <2>1. Reaches(r, "done", {})
      BY <1>0, <1>2, TransactionEnds DEF LockRoom
    <2> QED BY <1>0, <1>1, <2>1, SameRows, EndOfTransaction
  <1>3. CASE m \in rooms
    <2>0. m \in Rooms /\ TakesRoom(r, m, {})
      BY <1>0, <1>3 DEF LockRoom, TakesRoom, ImageControlOK, ImagesTypeOK
    <2>1. Reaches(r, "locked", {})
      BY <1>0, <2>0, RoomIsLocked
    <2>2. NothingNewComes(r) /\ HoldsWhatItNeeds(r)'
      BY <1>0 DEF NothingNewComes, Early, HoldsWhatItNeeds
    <2> QED BY <1>0, <1>1, <2>1, <2>2, SameRows, NoRowComes DEF TakesOver, Reaches, ImageControlOK
  <1> QED BY <1>2, <1>3

LEMMA CoverIsSet ==
  ASSUME ImagesTypeOK, ImagesInv, NEW r \in ImageRequests, SetCover(r)
  PROVE  ImagesInv'
  <1>0. /\ imageStage[r] = "locked" /\ ImageAsk[r].kind = "cover"
        /\ UNCHANGED files /\ ImageControlOK /\ images \in ImageTable
    BY ControlTypes DEF SetCover, IsAt, ImagesTypeOK, ImageTable
  <1>1. \A g \in Files : ~AnswersFor(r, g)
    BY <1>0 DEF AnswersFor
  <1>2. PICK stage \in {"done", "broken"} : Reaches(r, stage, {})
    BY <1>0, TransactionEnds DEF SetCover, Commit
  <1>3. images' = images \/ images' = CoveredBy(images, images[ImageAsk[r].file].room, ImageAsk[r].file)
    BY DEF SetCover, LockedImage
  <1>4. RowsKeepRooms /\ \A g \in Files : images[g] # NoImage => images'[g] # NoImage
    BY <1>0, <1>3, CoverIsChosen DEF RowsKeepRooms
  <1> QED BY <1>0, <1>1, <1>2, <1>4, EndOfTransaction

LEMMA ImageIsDeleted ==
  ASSUME ImagesTypeOK, ImagesInv, NEW r \in ImageRequests, DeleteImage(r)
  PROVE  ImagesInv'
  <1> DEFINE f == ImageAsk[r].file
             rest == [images EXCEPT ![f] = NoImage]
  <1>0. /\ imageStage[r] = "locked" /\ ImageAsk[r].kind = "delete" /\ f \in Files
        /\ UNCHANGED files /\ ImageControlOK /\ images \in ImageTable
    BY ImagesAssumption, ControlTypes DEF DeleteImage, IsAt, ImagesTypeOK, ImageTable, ImageQuestion
  <1>1. \A g \in Files : ~AnswersFor(r, g)
    BY <1>0 DEF AnswersFor
  <1>2. CASE images[f] = NoImage
    <2>1. Reaches(r, "done", {}) /\ UNCHANGED images
      BY <1>0, <1>2, TransactionEnds DEF DeleteImage, LockedImage
    <2> QED BY <1>0, <1>1, <2>1, SameRows, EndOfTransaction
  <1>3. CASE images[f] # NoImage
    <2>1. rest \in ImageTable /\ \A g \in Files : rest[g] = IF g = f THEN NoImage ELSE images[g]
      BY <1>0 DEF ImageTable
    <2>2. images' = rest \/ \E g \in Files : rest[g] # NoImage /\ images' = Promoted(rest, g)
      BY <1>0, <1>3 DEF DeleteImage, LockedImage, NextCovers, ImagesOf
    <2> HIDE DEF rest
    <2>3. /\ RowsKeepRooms /\ images'[f] = NoImage
          /\ \A g \in Files \ {f} : images[g] # NoImage => images'[g] # NoImage
      <3>1. CASE images' = rest
        BY <1>0, <2>1, <3>1 DEF RowsKeepRooms
      <3>2. ASSUME NEW g \in Files, rest[g] # NoImage, images' = Promoted(rest, g)
            PROVE  /\ RowsKeepRooms /\ images'[f] = NoImage
                   /\ \A h \in Files \ {f} : images[h] # NoImage => images'[h] # NoImage
        BY <1>0, <2>1, <3>2, CoverIsPromoted DEF RowsKeepRooms
      <3> QED BY <2>2, <3>1, <3>2
    <2>4. PICK stage, left : /\ Reaches(r, stage, left)
                             /\ \/ stage = "unlinking" /\ left = {f}
                                \/ stage = "broken" /\ left = {}
      BY <1>0, <1>3, TransactionEnds DEF DeleteImage, LockedImage, Commit
    <2>5. OthersKeep(r) /\ imageStage'[r] = stage /\ toUnlink'[r] = left /\ Concerns(r, f)
      BY <1>0, <2>4 DEF Reaches, Concerns
    <2>6. ~Coming(f)
      BY <1>0, <1>3 DEF ImagesInv, RowSound
    <2>7. ~Coming(f)'
      BY <1>0, <2>4, <2>5, <2>6, ComingShrinks DEF NothingNewComes, Early
    <2>8. AnswersFor(r, f)'
      BY <2>4, <2>5 DEF AnswersFor, Concerns
    <2> QED BY <1>0, <1>1, <2>3, <2>4, <2>5, <2>7, <2>8, EndOfTransaction
  <1> QED BY <1>2, <1>3

LEMMA RoomIsLockedForDeletion ==
  ASSUME ImagesTypeOK, ImagesInv, NEW r \in ImageRequests, LockAdminRoom(r)
  PROVE  ImagesInv'
  <1> DEFINE m == ImageAsk[r].room
             left == ImagesOf(images, m)
  <1>0. /\ imageStage[r] = "new" /\ ImageAsk[r].kind = "room" /\ m \in Rooms
        /\ UNCHANGED <<images, files>> /\ ImageControlOK /\ left \in SUBSET Files
    BY ImagesAssumption, ControlTypes DEF LockAdminRoom, IsAt, ImageQuestion, ImagesOf
  <1>1. \A g \in Files : ~AnswersFor(r, g)
    BY <1>0 DEF AnswersFor
  <1>2. CASE m \notin rooms
    <2>1. Reaches(r, "done", {})
      BY <1>0, <1>2, TransactionEnds DEF LockAdminRoom
    <2> QED BY <1>0, <1>1, <2>1, SameRows, EndOfTransaction
  <1>3. CASE m \in rooms
    <2>0. TakesRoom(r, m, left)
      BY <1>3 DEF LockAdminRoom, TakesRoom
    <2>1. Reaches(r, "locked", left) /\ roomHolder'[m] = r
      BY <1>0, <2>0, RoomIsLocked
    <2>2. OthersKeep(r) /\ imageStage'[r] = "locked" /\ toUnlink'[r] = left /\ ImageControlOK'
      BY <2>1 DEF Reaches
    <2>3. NothingNewComes(r) /\ HoldsWhatItNeeds(r)'
      BY <1>0, <2>1, <2>2 DEF NothingNewComes, Early, HoldsWhatItNeeds
    <2>4. ASSUME NEW f \in left PROVE Removable(r, f)'
      <3>1. f \in Files /\ images[f] # NoImage /\ images[f].room = m
        BY DEF ImagesOf
      <3>2. IsFileOf(f, m) /\ ~Coming(f)
        BY <3>1 DEF ImagesInv, RowSound
      <3>3. ~Coming(f)'
        BY <2>2, <2>3, <3>1, <3>2, ComingShrinks
      <3> QED BY <1>0, <2>2, <3>1, <3>2, <3>3 DEF Removable, Concerns, IsFileOf
    <2> QED BY <1>0, <1>1, <2>2, <2>3, <2>4, SameRows, NoRowComes DEF TakesOver, ImageControlOK
  <1> QED BY <1>2, <1>3

LEMMA RoomIsDeleted ==
  ASSUME ImagesTypeOK, ImagesInv, NEW r \in ImageRequests, DeleteRoom(r)
  PROVE  ImagesInv'
  <1> DEFINE m == ImageAsk[r].room
             left == toUnlink[r]
  <1>0. /\ imageStage[r] = "locked" /\ ImageAsk[r].kind = "room" /\ m \in Rooms
        /\ UNCHANGED files /\ ImageControlOK /\ left \in SUBSET Files
    BY ImagesAssumption, ControlTypes DEF DeleteRoom, IsAt, ImageQuestion, ImagesTypeOK
  <1>1. \A g \in Files : ~AnswersFor(r, g)
    BY <1>0 DEF AnswersFor
  <1>2. CASE EndTransaction(r, {}) /\ UNCHANGED <<images, rooms>>
    <2>1. Reaches(r, "done", {})
      BY <1>0, <1>2, TransactionEnds
    <2> QED BY <1>0, <1>1, <1>2, <2>1, SameRows, EndOfTransaction
  <1>3. CASE /\ images' = [f \in Files |-> IF f \in ImagesOf(images, m) THEN NoImage ELSE images[f]]
             /\ Commit(r, left)
    <2>1. \A f \in Files : images'[f] = IF f \in ImagesOf(images, m) THEN NoImage ELSE images[f]
      BY <1>3
    <2>2. RowsKeepRooms
      BY <2>1 DEF RowsKeepRooms
    <2>3. PICK stage, rest : /\ Reaches(r, stage, rest)
                             /\ \/ stage = "broken" /\ rest = {}
                                \/ /\ rest = left
                                   /\ stage = IF left = {} THEN "done" ELSE "unlinking"
      BY <1>0, <1>3, TransactionEnds DEF Commit
    <2>4. OthersKeep(r) /\ imageStage'[r] = stage /\ toUnlink'[r] = rest /\ NothingNewComes(r)
      BY <2>3 DEF Reaches, NothingNewComes, Early
    <2>5. ASSUME NEW f \in rest
          PROVE  stage = "unlinking" /\ Concerns(r, f) /\ ~Coming(f)' /\ images'[f] = NoImage
      <3>1. f \in Files /\ f \in toUnlink[r] /\ stage = "unlinking"
        BY <1>0, <2>3
      <3>2. Removable(r, f)
        BY <3>1 DEF ImagesInv
      <3>3. images[f] = NoImage \/ f \in ImagesOf(images, m)
        BY <1>0, <3>1, <3>2 DEF Removable, ImagesOf
      <3> QED BY <2>1, <2>4, <3>1, <3>2, <3>3, ComingShrinks DEF Removable
    <2>6. ASSUME NEW f \in Files, images[f] # NoImage, images'[f] = NoImage
          PROVE  AnswersFor(r, f)'
      <3>1. f \in ImagesOf(images, m)
        BY <2>1, <2>6
      <3>2. f \in left
        BY <1>0, <3>1 DEF ImagesInv, HoldsWhatItNeeds
      <3>3. IsFileOf(f, m)
        BY <3>1 DEF ImagesOf, ImagesInv, RowSound
      <3>4. Concerns(r, f)
        BY <1>0, <3>3 DEF Concerns
      <3>5. imageStage'[r] = "broken" \/ (imageStage'[r] = "unlinking" /\ f \in toUnlink'[r])
        BY <2>3, <2>4, <3>2
      <3> QED BY <3>4, <3>5 DEF AnswersFor, Concerns, IsFileOf
    <2> QED BY <1>0, <1>1, <2>2, <2>3, <2>5, <2>6, EndOfTransaction
  <1> QED BY <1>2, <1>3 DEF DeleteRoom

LEMMA TransactionFails ==
  ASSUME ImagesTypeOK, ImagesInv, NEW r \in ImageRequests, Fail(r)
  PROVE  ImagesInv'
  <1> DEFINE f == ImageAsk[r].file
  <1>0. imageStage[r] \in {"stored", "found", "locked"} /\ UNCHANGED <<images, files>> /\ ImageControlOK
    BY ControlTypes DEF Fail
  <1>1. CASE ImageAsk[r].kind = "create"
    <2>1. /\ f \in Files /\ images[f] = NoImage
          /\ OthersKeep(r) /\ imageStage'[r] \notin Early => ~Coming(f)'
      BY <1>0, <1>1, CreationIsAlone DEF Early
    <2>2. PICK stage, left : /\ Reaches(r, stage, left)
                             /\ \/ stage = "broken" /\ left = {}
                                \/ stage = "unlinking" /\ left = {f}
      BY <1>0, <1>1, <2>1, TransactionEnds DEF Fail
    <2>3. OthersKeep(r) /\ imageStage'[r] = stage /\ toUnlink'[r] = left /\ ~Coming(f)' /\ Concerns(r, f)
      BY <1>1, <2>1, <2>2 DEF Reaches, Concerns, Early
    <2>4. \A g \in Files : AnswersFor(r, g) => AnswersFor(r, g)'
      BY <1>0, <1>1, <2>2, <2>3 DEF AnswersFor, Concerns
    <2> QED BY <1>0, <2>1, <2>2, <2>3, <2>4, SameRows, EndOfTransaction
  <1>2. CASE ImageAsk[r].kind # "create"
    <2>1. \A g \in Files : ~AnswersFor(r, g)
      BY <1>0, <1>2 DEF AnswersFor
    <2>2. PICK stage \in {"done", "broken"} : Reaches(r, stage, {})
      BY <1>0, <1>2, TransactionEnds DEF Fail
    <2> QED BY <1>0, <2>1, <2>2, SameRows, EndOfTransaction
  <1> QED BY <1>1, <1>2

LEMMA FileIsStored ==
  ASSUME ImagesTypeOK, ImagesInv, NEW r \in ImageRequests, Store(r)
  PROVE  ImagesInv'
  <1> DEFINE f == ImageAsk[r].file
  <1>0. /\ imageStage[r] = "new" /\ ImageAsk[r].kind = "create" /\ toUnlink[r] = {}
        /\ UNCHANGED <<images, roomHolder, toUnlink>>
    BY NothingToRemove DEF Store, IsAt
  <1>1. PICK stage \in {"stored", "done", "broken"} :
          /\ imageStage' = [imageStage EXCEPT ![r] = stage]
          /\ IF stage = "done" THEN files' = files ELSE files' = files \cup {f}
    BY DEF Store, Enter
  <1>2. /\ OthersKeep(r) /\ imageStage'[r] = stage /\ NothingNewComes(r)
        /\ files \subseteq files' /\ HoldsWhatItNeeds(r)'
    BY <1>0, <1>1 DEF OthersKeep, ImagesTypeOK, NothingNewComes, Early, HoldsWhatItNeeds
  <1>3. TakesOver(r)
    BY <1>0, <1>1, <1>2 DEF TakesOver, AnswersFor, Concerns, Early
  <1> QED BY <1>0, <1>2, <1>3, SameRows, NoRowComes DEF ImagesTypeOK

\* The rows after a creation.
LEMMA RowsOfCreation ==
  ASSUME ImagesTypeOK, ImagesInv, NEW r \in ImageRequests, CreateImage(r)
  PROVE  LET f == ImageAsk[r].file
             m == ImageAsk[r].room
         IN /\ images' \in ImageTable /\ images[f] = NoImage
            /\ images'[f] # NoImage /\ images'[f].room = m
            /\ \A g \in Files \ {f} :
                 /\ images'[g] # NoImage <=> images[g] # NoImage
                 /\ images[g] # NoImage =>
                      /\ images'[g].room = images[g].room
                      /\ images[g].room # m => images'[g] = images[g]
            /\ \/ CoversOf(images', m) = {f}
               \/ /\ ImagesOf(images, m) # {} /\ ~images'[f].cover
                  /\ \A g \in Files \ {f} : images'[g] = images[g]
  <1> DEFINE q == ImageAsk[r]
             f == q.file
             m == q.room
             isCover == q.cover \/ ImagesOf(images, m) = {}
             row == [room |-> m, order |-> q.order, cover |-> isCover]
             rows == [images EXCEPT ![f] = row]
  <1>0. /\ imageStage[r] = "locked" /\ q.kind = "create" /\ f \in Files /\ m \in Rooms
        /\ q.order \in Nat /\ images \in ImageTable
    BY ImagesAssumption DEF CreateImage, IsAt, ImagesTypeOK, ImageTable, ImageQuestion
  <1>1. images[f] = NoImage
    BY <1>0, CreationIsAlone DEF Early
  <1>2. isCover \in BOOLEAN
    BY ImagesAssumption DEF ImageQuestion
  <1>3. images' = IF isCover THEN CoveredBy(rows, m, f) ELSE rows
    BY DEF CreateImage
  <1> HIDE DEF isCover
  <1>4. row \in ImageRow /\ row.room = m /\ row.cover = isCover /\ row # NoImage
    BY <1>0, <1>2, ImagesAssumption DEF ImageRow
  <1> HIDE DEF row
  <1>5. /\ rows \in ImageTable /\ rows[f] = row
        /\ \A g \in Files \ {f} : rows[g] = images[g]
    BY <1>0, <1>4 DEF ImageTable
  <1> HIDE DEF rows
  <1>6. CASE isCover
    <2>1. images' = CoveredBy(rows, m, f)
      BY <1>3, <1>6
    <2>2. /\ images' \in ImageTable
          /\ \A g \in Files :
               /\ images'[g] # NoImage <=> rows[g] # NoImage
               /\ rows[g] # NoImage =>
                    /\ images'[g].room = rows[g].room
                    /\ rows[g].room = m => images'[g].cover = (g = f)
                    /\ rows[g].room # m => images'[g] = rows[g]
      BY <1>5, <2>1, CoverIsChosen
    <2>3. CoversOf(images', m) = {f}
      BY ZenonT(40), <1>0, <1>4, <1>5, <2>2 DEF CoversOf
    <2> QED BY <1>0, <1>1, <1>4, <1>5, <2>2, <2>3
  <1>7. CASE ~isCover
    <2>1. images' = rows /\ ImagesOf(images, m) # {}
      BY <1>3, <1>7 DEF isCover
    <2> QED BY <1>0, <1>1, <1>4, <1>5, <1>7, <2>1
  <1> QED BY <1>6, <1>7

LEMMA ImageIsCreated ==
  ASSUME ImagesTypeOK, ImagesInv, NEW r \in ImageRequests, CreateImage(r)
  PROVE  ImagesInv'
  <1> DEFINE f == ImageAsk[r].file
             m == ImageAsk[r].room
  <1>0. /\ imageStage[r] = "locked" /\ ImageAsk[r].kind = "create" /\ f \in Files /\ m \in Rooms
        /\ UNCHANGED files /\ ImageControlOK
    BY ImagesAssumption, ControlTypes DEF CreateImage, IsAt, ImageQuestion
  <1>1. /\ images[f] = NoImage /\ images'[f] # NoImage /\ images'[f].room = m
        /\ \A g \in Files \ {f} :
             /\ images'[g] # NoImage <=> images[g] # NoImage
             /\ images[g] # NoImage => images'[g].room = images[g].room
    BY RowsOfCreation
  <1>2. PICK stage \in {"done", "broken"} : Reaches(r, stage, {})
    BY <1>0, TransactionEnds DEF CreateImage, Commit
  <1>3. /\ OthersKeep(r) /\ imageStage'[r] = stage /\ toUnlink'[r] = {} /\ ImageControlOK'
        /\ NothingNewComes(r)
    BY <1>2 DEF Reaches, NothingNewComes, Early
  <1>4. Coming(f) /\ ~Coming(f)'
    BY <1>0, <1>3, CreationIsAlone DEF Coming, Early
  <1>5. f \in files /\ roomHolder[m] = r
    BY <1>0 DEF ImagesInv, HoldsWhatItNeeds, Early
  <1>6. \A g \in Files : RowSound(g)'
    <2>1. IsFileOf(f, m)
      BY <1>0 DEF IsFileOf
    <2>2. RowSound(f)'
      BY <1>0, <1>1, <1>4, <1>5, <2>1 DEF RowSound, IsFileOf
    <2>3. ASSUME NEW g \in Files \ {f} PROVE RowSound(g)'
      BY <1>0, <1>1, <1>3, <2>3, ComingShrinks DEF ImagesInv, RowSound, IsFileOf
    <2> QED BY <2>2, <2>3
  <1>7. ASSUME NEW g \in Files PROVE Accounted(g)'
    <2> SUFFICES ASSUME g \in files, images'[g] = NoImage
                 PROVE  \E s \in ImageRequests : AnswersFor(s, g)'
      BY <1>0 DEF Accounted
    <2>1. g # f /\ images[g] = NoImage
      BY <1>1
    <2>2. PICK s \in ImageRequests : AnswersFor(s, g)
      BY <2>1 DEF ImagesInv, Accounted
    <2>3. s # r
      BY <1>0, <2>1, <2>2 DEF AnswersFor, Concerns
    <2>4. imageStage'[s] = imageStage[s] /\ toUnlink'[s] = toUnlink[s]
      BY <1>3, <2>3 DEF OthersKeep
    <2> QED BY <2>2, <2>4 DEF AnswersFor, Concerns
  <1>8. HoldsWhatItNeeds(r)' /\ \A g \in toUnlink'[r] : Removable(r, g)'
    BY <1>3 DEF HoldsWhatItNeeds, Early
  <1>9. ASSUME NEW s \in ImageRequests \ {r}
        PROVE  HoldsWhatItNeeds(s)' /\ \A g \in toUnlink'[s] : Removable(s, g)'
    <2> DEFINE n == ImageAsk[s].room
    <2>1. /\ imageStage'[s] = imageStage[s] /\ toUnlink'[s] = toUnlink[s] /\ n \in Rooms
          /\ roomHolder[n] = s => roomHolder'[n] = s
      BY <1>3, ImagesAssumption DEF OthersKeep, ImageQuestion
    <2>2. HoldsWhatItNeeds(s) /\ \A g \in toUnlink[s] : Removable(s, g)
      BY DEF ImagesInv
    <2>3. n # m => ImagesOf(images', n) \subseteq ImagesOf(images, n)
      BY <1>1 DEF ImagesOf
    <2>4. ImageAsk[s].kind = "room" /\ imageStage[s] = "locked" => n # m
      BY <1>5, <2>2 DEF HoldsWhatItNeeds
    <2>5. HoldsWhatItNeeds(s)'
      BY <1>0, <2>1, <2>2, <2>3, <2>4 DEF HoldsWhatItNeeds
    <2>6. ASSUME NEW g \in toUnlink'[s] PROVE Removable(s, g)'
      <3>1. g \in Files /\ Removable(s, g)
        BY <1>0, <2>1, <2>2 DEF ImageControlOK
      <3>2. g # f /\ ~Coming(g)'
        BY <1>3, <1>4, <3>1, ComingShrinks DEF Removable
      <3>3. images'[g] = NoImage \/ (images[g] # NoImage /\ images'[g].room = images[g].room)
        BY <1>1, <3>1, <3>2
      <3>4. images[g] = NoImage => images'[g] = NoImage
        BY <1>1, <3>1, <3>2
      <3> QED BY <2>1, <3>1, <3>2, <3>3, <3>4 DEF Removable, Concerns, IsFileOf
    <2> QED BY <2>5, <2>6
  <1> QED BY <1>6, <1>7, <1>8, <1>9 DEF ImagesInv

LEMMA FileIsRemoved ==
  ASSUME ImagesTypeOK, ImagesInv, NEW r \in ImageRequests, DeleteManaged(r)
  PROVE  ImagesInv'
  <1>0. PICK f \in toUnlink[r], removed \in BOOLEAN :
          /\ imageStage[r] = "unlinking" /\ UNCHANGED <<images, rooms, roomHolder>>
          /\ files' = IF removed THEN files \ {f} ELSE files
          /\ toUnlink' = [toUnlink EXCEPT ![r] = IF removed THEN toUnlink[r] \ {f} ELSE {}]
          /\ Enter(r, IF ~removed THEN "broken" ELSE IF toUnlink[r] = {f} THEN "done" ELSE "unlinking")
    BY DEF DeleteManaged
  <1> DEFINE left == IF removed THEN toUnlink[r] \ {f} ELSE {}
             stage == IF ~removed THEN "broken" ELSE IF toUnlink[r] = {f} THEN "done" ELSE "unlinking"
  <1>1. /\ OthersKeep(r) /\ imageStage'[r] = stage /\ toUnlink'[r] = left
        /\ NothingNewComes(r) /\ toUnlink[r] \subseteq Files
    BY <1>0 DEF OthersKeep, ImagesTypeOK, Enter, NothingNewComes, Early
  <1>2. \A g \in toUnlink[r] : images[g] = NoImage /\ ~Coming(g) /\ Concerns(r, g)
    BY <1>0 DEF ImagesInv, Removable
  <1>3. \A g \in Files : RowSound(g)'
    BY <1>0, <1>1, <1>2, ComingShrinks DEF ImagesInv, RowSound
  <1>4. ASSUME NEW g \in Files PROVE Accounted(g)'
    <2> SUFFICES ASSUME g \in files', images[g] = NoImage
                 PROVE  \E s \in ImageRequests : AnswersFor(s, g)'
      BY <1>0 DEF Accounted
    <2>1. g \in files /\ (removed => g # f)
      BY <1>0
    <2>2. PICK s \in ImageRequests : AnswersFor(s, g)
      BY <2>1 DEF ImagesInv, Accounted
    <2>3. CASE s = r
      <3>1. g \in toUnlink[r] /\ Concerns(r, g)
        BY <1>0, <2>2, <2>3 DEF AnswersFor, Early
      <3>2. imageStage'[r] = "broken" \/ (imageStage'[r] = "unlinking" /\ g \in toUnlink'[r])
        BY <1>1, <2>1, <3>1
      <3> QED BY <3>1, <3>2 DEF AnswersFor, Concerns
    <2>4. CASE s # r
      BY <1>1, <2>2, <2>4 DEF OthersKeep, AnswersFor, Concerns
    <2> QED BY <2>3, <2>4
  <1>5. HoldsWhatItNeeds(r)'
    BY <1>1 DEF HoldsWhatItNeeds, Early
  <1>6. ASSUME NEW g \in toUnlink'[r] PROVE Removable(r, g)'
    <2>1. g \in toUnlink[r] /\ stage = "unlinking"
      BY <1>1
    <2>2. g \in Files /\ ~Coming(g)'
      BY <1>1, <1>2, <2>1, ComingShrinks
    <2> QED BY <1>0, <1>1, <1>2, <2>1, <2>2 DEF Removable, Concerns
  <1>7. ASSUME NEW s \in ImageRequests \ {r}
        PROVE  HoldsWhatItNeeds(s)' /\ \A g \in toUnlink'[s] : Removable(s, g)'
    <2>1. imageStage'[s] = imageStage[s] /\ toUnlink'[s] = toUnlink[s]
      BY <1>1 DEF OthersKeep
    <2>2. HoldsWhatItNeeds(s) /\ \A g \in toUnlink[s] : Removable(s, g)
      BY DEF ImagesInv
    <2>3. ImageAsk[s].kind = "create" /\ imageStage[s] \in Early => ImageAsk[s].file # f
      BY <1>2 DEF Coming
    <2>4. HoldsWhatItNeeds(s)'
      BY <1>0, <2>1, <2>2, <2>3 DEF HoldsWhatItNeeds
    <2>5. ASSUME NEW g \in toUnlink'[s] PROVE Removable(s, g)'
      <3>1. g \in Files /\ Removable(s, g)
        BY <2>1, <2>2 DEF ImagesTypeOK
      <3>2. ~Coming(g)'
        BY <1>1, <3>1, ComingShrinks DEF Removable
      <3> QED BY <1>0, <2>1, <3>1, <3>2 DEF Removable, Concerns
    <2> QED BY <2>4, <2>5
  <1> QED BY <1>3, <1>4, <1>5, <1>6, <1>7 DEF ImagesInv

LEMMA ImagesSurviveCrash ==
  ASSUME ImagesTypeOK, ImagesInv, Crash
  PROVE  ImagesInv'
  <1>1. \A r \in ImageRequests :
          /\ toUnlink'[r] = {}
          /\ imageStage'[r] = IF imageStage[r] \in {"new", "done"} THEN imageStage[r] ELSE "broken"
    BY DEF Crash
  <1>2. UNCHANGED <<images, files>>
    BY DEF Crash
  <1>3. \A f \in Files : Coming(f)' => Coming(f)
    BY <1>1 DEF Coming, Early
  <1>4. \A f \in Files : RowSound(f)'
    BY <1>2, <1>3 DEF ImagesInv, RowSound
  <1>5. \A r \in ImageRequests, f \in Files : AnswersFor(r, f) => AnswersFor(r, f)'
    BY <1>1 DEF AnswersFor, Concerns, Early
  <1>6. \A f \in Files : Accounted(f)'
    BY <1>2, <1>5 DEF ImagesInv, Accounted
  <1>7. \A r \in ImageRequests : HoldsWhatItNeeds(r)' /\ \A f \in toUnlink'[r] : Removable(r, f)'
    BY <1>1 DEF HoldsWhatItNeeds, Early
  <1> QED BY <1>4, <1>6, <1>7 DEF ImagesInv

\* The covers of a room whose rows stay as they are.
LEMMA CoversStay ==
  ASSUME CoverIsUnique, NEW n \in Rooms,
         \A g \in Files :
           /\ images[g] # NoImage /\ images[g].room = n => images'[g] = images[g]
           /\ images'[g] # NoImage /\ images'[g].room = n => images'[g] = images[g]
  PROVE  ImagesOf(images', n) # {} => \E c \in Files : CoversOf(images', n) = {c}
  <1>1. ImagesOf(images', n) = ImagesOf(images, n) /\ CoversOf(images', n) = CoversOf(images, n)
    BY DEF ImagesOf, CoversOf
  <1> QED BY <1>1 DEF CoverIsUnique

LEMMA CreationCovers ==
  ASSUME ImagesTypeOK, ImagesInv, CoverIsUnique, NEW r \in ImageRequests, CreateImage(r)
  PROVE  CoverIsUnique'
  <1> DEFINE f == ImageAsk[r].file
             m == ImageAsk[r].room
  <1>0. f \in Files
    BY ImagesAssumption DEF ImageQuestion
  <1>1. /\ images[f] = NoImage /\ images'[f] # NoImage /\ images'[f].room = m
        /\ \A g \in Files \ {f} :
             /\ images'[g] # NoImage <=> images[g] # NoImage
             /\ images[g] # NoImage =>
                  /\ images'[g].room = images[g].room
                  /\ images[g].room # m => images'[g] = images[g]
        /\ \/ CoversOf(images', m) = {f}
           \/ /\ ImagesOf(images, m) # {} /\ ~images'[f].cover
              /\ \A g \in Files \ {f} : images'[g] = images[g]
    BY RowsOfCreation
  <1> SUFFICES ASSUME NEW n \in Rooms, ImagesOf(images', n) # {}
               PROVE  \E c \in Files : CoversOf(images', n) = {c}
    BY DEF CoverIsUnique
  <1>2. CASE n # m
    <2>1. \A g \in Files :
            /\ images[g] # NoImage /\ images[g].room = n => images'[g] = images[g]
            /\ images'[g] # NoImage /\ images'[g].room = n => images'[g] = images[g]
      BY <1>1, <1>2
    <2> QED BY <2>1, CoversStay
  <1>3. CASE n = m /\ CoversOf(images', m) = {f}
    BY <1>0, <1>3
  <1>4. CASE /\ n = m /\ ImagesOf(images, m) # {} /\ ~images'[f].cover
             /\ \A g \in Files \ {f} : images'[g] = images[g]
    <2>1. CoversOf(images', m) = CoversOf(images, m)
      BY <1>1, <1>4 DEF CoversOf
    <2> QED BY <1>4, <2>1 DEF CoverIsUnique
  <1> QED BY <1>1, <1>2, <1>3, <1>4

\* Among natural numbers there is a least one.
LEMMA LeastElement ==
  ASSUME NEW T, T \subseteq Nat, T # {}
  PROVE  \E x \in T : \A y \in T : x <= y
  <1> DEFINE Less == {ss \in Nat \X Nat : ss[1] < ss[2]}
  <1>1. IsWellFoundedOn(Less, Nat)
    BY NatLessThanWellFounded DEF OpToRel
  <1> HIDE DEF Less
  <1>2. PICK x \in T : \A y \in T : ~ (<<y, x>> \in Less)
    BY <1>1, WFMin
  <1>3. \A y \in T : ~(y < x)
    BY <1>2 DEF Less
  <1> QED BY <1>3

\* While a room has images one of them comes first.
LEMMA SomeImageIsNext ==
  ASSUME NEW rows \in ImageTable, NEW m, ImagesOf(rows, m) # {}
  PROVE  NextCovers(rows, m) # {}
  <1> DEFINE orders == {rows[f].order : f \in ImagesOf(rows, m)}
  <1>1. \A f \in ImagesOf(rows, m) : f \in Files /\ rows[f] \in ImageRow
    BY DEF ImageTable, ImagesOf
  <1>2. orders \subseteq Nat /\ orders # {}
    BY <1>1 DEF ImageRow
  <1>3. PICK x \in orders : \A y \in orders : x <= y
    BY <1>2, LeastElement
  <1>4. PICK f \in ImagesOf(rows, m) : rows[f].order = x
    BY <1>3
  <1>5. \A g \in ImagesOf(rows, m) : rows[f].order <= rows[g].order
    BY <1>3, <1>4
  <1> QED BY <1>4, <1>5 DEF NextCovers

LEMMA DeletionCovers ==
  ASSUME ImagesTypeOK, CoverIsUnique, NEW r \in ImageRequests, DeleteImage(r)
  PROVE  CoverIsUnique'
  <1> DEFINE f == ImageAsk[r].file
             m == images[f].room
             rest == [images EXCEPT ![f] = NoImage]
  <1>0. f \in Files /\ images \in ImageTable
    BY ImagesAssumption DEF ImagesTypeOK, ImageTable, ImageQuestion
  <1>1. CASE images[f] = NoImage
    BY <1>1 DEF DeleteImage, LockedImage, CoverIsUnique, ImagesOf, CoversOf
  <1>2. CASE images[f] # NoImage
    <2>1. rest \in ImageTable /\ \A g \in Files : rest[g] = IF g = f THEN NoImage ELSE images[g]
      BY <1>0 DEF ImageTable
    <2>2. m \in Rooms /\ f \in ImagesOf(images, m) /\ images[f].cover \in BOOLEAN
      BY <1>0, <1>2 DEF ImageTable, ImageRow, ImagesOf
    <2>3. PICK c \in Files : CoversOf(images, m) = {c}
      BY <2>2 DEF CoverIsUnique
    <2>4. \/ images' = rest /\ (~images[f].cover \/ NextCovers(rest, m) = {})
          \/ images[f].cover /\ \E g \in NextCovers(rest, m) : images' = Promoted(rest, g)
      BY <1>2 DEF DeleteImage, LockedImage
    <2> HIDE DEF rest
    <2> SUFFICES ASSUME NEW n \in Rooms, ImagesOf(images', n) # {}
                 PROVE  \E d \in Files : CoversOf(images', n) = {d}
      BY DEF CoverIsUnique
    <2>5. CASE images' = rest /\ (~images[f].cover \/ NextCovers(rest, m) = {})
      <3>1. CASE n # m
        <4>1. \A g \in Files :
                /\ images[g] # NoImage /\ images[g].room = n => images'[g] = images[g]
                /\ images'[g] # NoImage /\ images'[g].room = n => images'[g] = images[g]
          BY <2>1, <2>5, <3>1
        <4> QED BY <4>1, CoversStay
      <3>2. CASE n = m
        <4>1. NextCovers(rest, m) # {}
          BY <2>1, <2>5, <3>2, SomeImageIsNext
        <4>2. ~images[f].cover
          BY <2>5, <4>1
        <4>3. CoversOf(images', m) = {c}
          BY <1>0, <2>1, <2>3, <2>5, <4>2 DEF CoversOf
        <4> QED BY <3>2, <4>3
      <3> QED BY <3>1, <3>2
    <2>6. ASSUME images[f].cover, NEW g \in NextCovers(rest, m), images' = Promoted(rest, g)
          PROVE  \E d \in Files : CoversOf(images', n) = {d}
      <3>1. g \in Files /\ rest[g] # NoImage /\ rest[g].room = m
        BY <2>6 DEF NextCovers, ImagesOf
      <3>2. /\ \A h \in Files : /\ images'[h] # NoImage <=> rest[h] # NoImage
                                /\ h # g => images'[h] = rest[h]
            /\ images'[g].room = m /\ images'[g].cover
        BY <2>1, <2>6, <3>1, CoverIsPromoted
      <3>3. CASE n # m
        <4>1. \A h \in Files :
                /\ images[h] # NoImage /\ images[h].room = n => images'[h] = images[h]
                /\ images'[h] # NoImage /\ images'[h].room = n => images'[h] = images[h]
          BY <2>1, <3>1, <3>2, <3>3
        <4> QED BY <4>1, CoversStay
      <3>4. CASE n = m
        <4>1. f \in CoversOf(images, m)
          BY <1>0, <1>2, <2>6 DEF CoversOf
        <4>2. \A h \in Files : images[h] # NoImage /\ images[h].room = m /\ images[h].cover => h = f
          BY <2>3, <4>1 DEF CoversOf
        <4>3. CoversOf(images', m) = {g}
          BY <2>1, <3>1, <3>2, <4>2 DEF CoversOf
        <4> QED BY <3>1, <3>4, <4>3
      <3> QED BY <3>3, <3>4
    <2> QED BY <2>4, <2>5, <2>6
  <1> QED BY <1>1, <1>2

LEMMA ChoiceCovers ==
  ASSUME ImagesTypeOK, CoverIsUnique, NEW r \in ImageRequests, SetCover(r)
  PROVE  CoverIsUnique'
  <1> DEFINE f == ImageAsk[r].file
             m == images[f].room
  <1>0. f \in Files /\ images \in ImageTable
    BY ImagesAssumption DEF ImagesTypeOK, ImageTable, ImageQuestion
  <1>1. CASE images[f] = NoImage
    BY <1>1 DEF SetCover, LockedImage, CoverIsUnique, ImagesOf, CoversOf
  <1>2. CASE images[f] # NoImage
    <2>1. images' = CoveredBy(images, m, f)
      BY <1>2 DEF SetCover, LockedImage
    <2>2. \A g \in Files :
            /\ images'[g] # NoImage <=> images[g] # NoImage
            /\ images[g] # NoImage =>
                 /\ images'[g].room = images[g].room
                 /\ images[g].room = m => images'[g].cover = (g = f)
                 /\ images[g].room # m => images'[g] = images[g]
      BY <1>0, <2>1, CoverIsChosen
    <2> SUFFICES ASSUME NEW n \in Rooms, ImagesOf(images', n) # {}
                 PROVE  \E d \in Files : CoversOf(images', n) = {d}
      BY DEF CoverIsUnique
    <2>3. CASE n # m
      <3>1. \A h \in Files :
              /\ images[h] # NoImage /\ images[h].room = n => images'[h] = images[h]
              /\ images'[h] # NoImage /\ images'[h].room = n => images'[h] = images[h]
        BY <2>2, <2>3
      <3> QED BY <3>1, CoversStay
    <2>4. CASE n = m
      <3>1. CoversOf(images', m) = {f}
        BY ZenonT(40), <1>0, <1>2, <2>2 DEF CoversOf
      <3> QED BY <1>0, <2>4, <3>1
    <2> QED BY <2>3, <2>4
  <1> QED BY <1>1, <1>2

LEMMA RoomDeletionCovers ==
  ASSUME CoverIsUnique, NEW r \in ImageRequests, DeleteRoom(r)
  PROVE  CoverIsUnique'
  <1> DEFINE m == ImageAsk[r].room
  <1>1. CASE UNCHANGED images
    BY <1>1 DEF CoverIsUnique, ImagesOf, CoversOf
  <1>2. CASE images' = [f \in Files |-> IF f \in ImagesOf(images, m) THEN NoImage ELSE images[f]]
    <2> SUFFICES ASSUME NEW n \in Rooms, ImagesOf(images', n) # {}
                 PROVE  \E d \in Files : CoversOf(images', n) = {d}
      BY DEF CoverIsUnique
    <2>1. n # m
      BY <1>2 DEF ImagesOf
    <2>2. \A h \in Files :
            /\ images[h] # NoImage /\ images[h].room = n => images'[h] = images[h]
            /\ images'[h] # NoImage /\ images'[h].room = n => images'[h] = images[h]
      BY <1>2, <2>1 DEF ImagesOf
    <2> QED BY <2>2, CoversStay
  <1> QED BY <1>1, <1>2 DEF DeleteRoom

\* Every step keeps the types.
LEMMA ImageTypesKept ==
  ASSUME ImagesTypeOK, ImagesInv, ImagesNext
  PROVE  ImagesTypeOK'
  <1>0. ImageControlOK /\ images \in ImageTable
    BY ControlTypes DEF ImagesTypeOK, ImageTable
  <1>1. CASE Crash
    BY <1>0, <1>1 DEF Crash, ImagesTypeOK, StageSet, ImageControlOK
  <1>2. ASSUME NEW r \in ImageRequests,
               \/ Store(r) \/ LockRoomForImage(r) \/ CreateImage(r)
               \/ FindImage(r) \/ LockRoomOfImage(r) \/ DeleteImage(r) \/ SetCover(r)
               \/ LockAdminRoom(r) \/ DeleteRoom(r)
               \/ Fail(r) \/ DeleteManaged(r)
        PROVE  ImagesTypeOK'
    <2> DEFINE q == ImageAsk[r]
    <2>0. q.file \in Files /\ q.room \in Rooms /\ toUnlink[r] \in SUBSET Files
      BY ImagesAssumption DEF ImageQuestion, ImagesTypeOK
    <2>1. ASSUME NEW left \in SUBSET Files, EndTransaction(r, left) \/ LoseConnection(r)
          PROVE  ImageControlOK'
      BY <1>0, <2>1, TransactionEnds DEF Reaches
    <2>2. ASSUME NEW m, NEW left \in SUBSET Files, LockRoom(r, m, left)
          PROVE  ImageControlOK'
      <3>1. CASE m \notin rooms
        BY <2>1, <2>2, <3>1 DEF LockRoom
      <3>2. CASE m \in rooms
        BY <1>0, <2>2, <3>2 DEF LockRoom, Enter, ImageControlOK, StageSet
      <3> QED BY <3>1, <3>2
    <2>3. CASE Store(r)
      BY <2>0, <2>3 DEF Store, Enter, ImagesTypeOK, StageSet
    <2>4. CASE LockRoomForImage(r)
      BY <2>0, <2>2, <2>4 DEF LockRoomForImage, ImagesTypeOK, ImageControlOK
    <2>5. CASE CreateImage(r)
      <3>1. images' \in ImageTable
        BY <2>5, RowsOfCreation
      <3>2. ImageControlOK'
        BY <2>1, <2>5 DEF CreateImage, Commit
      <3> QED BY <2>5, <3>1, <3>2 DEF CreateImage, ImagesTypeOK, ImageControlOK, ImageTable
    <2>6. CASE FindImage(r)
      BY <2>6 DEF FindImage, Enter, ImagesTypeOK, StageSet
    <2>7. CASE LockRoomOfImage(r)
      BY <2>2, <2>7 DEF LockRoomOfImage, ImagesTypeOK, ImageControlOK
    <2>8. CASE DeleteImage(r)
      <3> DEFINE rest == [images EXCEPT ![q.file] = NoImage]
      <3>1. rest \in ImageTable
        BY <1>0 DEF ImageTable
      <3>2. \/ images' = images \/ images' = rest
            \/ \E g \in Files : rest[g] # NoImage /\ images' = Promoted(rest, g)
        BY <2>8 DEF DeleteImage, LockedImage, NextCovers, ImagesOf
      <3> HIDE DEF rest
      <3>3. images' \in ImageTable
        BY <1>0, <3>1, <3>2, CoverIsPromoted
      <3>4. ImageControlOK'
        BY <2>0, <2>1, <2>8 DEF DeleteImage, Commit
      <3> QED BY <2>8, <3>3, <3>4 DEF DeleteImage, ImagesTypeOK, ImageControlOK, ImageTable
    <2>9. CASE SetCover(r)
      <3>1. images' \in ImageTable
        BY <1>0, <2>9, CoverIsChosen DEF SetCover
      <3>2. ImageControlOK'
        BY <2>1, <2>9 DEF SetCover, Commit
      <3> QED BY <2>9, <3>1, <3>2 DEF SetCover, ImagesTypeOK, ImageControlOK, ImageTable
    <2>10. CASE LockAdminRoom(r)
      <3>1. ImagesOf(images, q.room) \in SUBSET Files
        BY DEF ImagesOf
      <3>2. CASE q.room \notin rooms
        BY <2>1, <2>10, <3>2 DEF LockAdminRoom, ImagesTypeOK, ImageControlOK
      <3>3. CASE q.room \in rooms
        BY ZenonT(40), <2>10, <3>1, <3>3 DEF LockAdminRoom, Enter, ImagesTypeOK, StageSet
      <3> QED BY <3>2, <3>3
    <2>11. CASE DeleteRoom(r)
      <3>1. images' \in ImageTable
        BY <1>0, <2>11 DEF DeleteRoom, ImageTable
      <3>2. ImageControlOK'
        BY <2>0, <2>1, <2>11 DEF DeleteRoom, Commit
      <3> QED BY <2>11, <3>1, <3>2 DEF DeleteRoom, ImagesTypeOK, ImageControlOK, ImageTable
    <2>12. CASE Fail(r)
      <3>1. {q.file} \in SUBSET Files /\ {} \in SUBSET Files
        BY <2>0
      <3>2. ImageControlOK'
        BY <2>1, <2>12, <3>1 DEF Fail
      <3> QED BY <2>12, <3>2 DEF Fail, ImagesTypeOK, ImageControlOK
    <2>13. CASE DeleteManaged(r)
      BY <2>0, <2>13 DEF DeleteManaged, Enter, ImagesTypeOK, StageSet
    <2> QED BY <1>2, <2>3, <2>4, <2>5, <2>6, <2>7, <2>8, <2>9, <2>10, <2>11, <2>12, <2>13
  <1> QED BY <1>1, <1>2 DEF ImagesNext

\* What holds of rows, files and requests in every state.
LEMMA ImagesAlways == ImagesSpec => [](ImagesTypeOK /\ ImagesInv /\ CoverIsUnique)
  <1>1. ImagesInit => ImagesTypeOK /\ ImagesInv /\ CoverIsUnique
    <2> SUFFICES ASSUME ImagesInit PROVE ImagesTypeOK /\ ImagesInv /\ CoverIsUnique
      OBVIOUS
    <2>1. ImagesTypeOK
      BY ImagesAssumption DEF ImagesInit, ImagesTypeOK, StageSet
    <2>2. \A f \in Files : images[f] # NoImage => f \in files /\ IsFileOf(f, images[f].room) /\ ~Coming(f)
      BY FreshFilesAssumption DEF ImagesInit, IsFileOf, Coming
    <2>3. \A f \in files : f \in Files /\ images[f] # NoImage
      BY DEF ImagesInit
    <2>4. \A r \in ImageRequests : HoldsWhatItNeeds(r) /\ toUnlink[r] = {}
      BY DEF ImagesInit, HoldsWhatItNeeds, Early
    <2>5. CoverIsUnique
      BY FreshFilesAssumption DEF ImagesInit, CoverIsUnique
    <2> QED BY <2>1, <2>2, <2>3, <2>4, <2>5 DEF ImagesInv, RowSound, Accounted
  <1>2. ImagesTypeOK /\ ImagesInv /\ CoverIsUnique /\ [ImagesNext]_imageVars
        => (ImagesTypeOK /\ ImagesInv /\ CoverIsUnique)'
    <2> SUFFICES ASSUME ImagesTypeOK, ImagesInv, CoverIsUnique, [ImagesNext]_imageVars
                 PROVE  (ImagesTypeOK /\ ImagesInv /\ CoverIsUnique)'
      OBVIOUS
    <2>1. CASE UNCHANGED imageVars
      <3>1. ImagesTypeOK'
        BY <2>1 DEF imageVars, ImagesTypeOK, ImageControlOK
      <3>2. CoverIsUnique'
        BY <2>1 DEF imageVars, CoverIsUnique, ImagesOf, CoversOf
      <3>3. \A f \in Files : RowSound(f)' /\ Accounted(f)'
        BY <2>1 DEF imageVars, ImagesInv, RowSound, Accounted, AnswersFor, Concerns, Coming
      <3>4. \A r \in ImageRequests : HoldsWhatItNeeds(r)'
        BY <2>1 DEF imageVars, ImagesInv, HoldsWhatItNeeds
      <3>5. \A r \in ImageRequests : \A f \in toUnlink'[r] : Removable(r, f)'
        BY <2>1 DEF imageVars, ImagesInv, Removable, Coming, Concerns
      <3> QED BY <3>1, <3>2, <3>3, <3>4, <3>5 DEF ImagesInv
    <2>2. CASE Crash
      <3>1. ImagesTypeOK' /\ ImagesInv'
        BY <2>2, ImageTypesKept, ImagesSurviveCrash DEF ImagesNext
      <3>2. CoverIsUnique'
        BY <2>2 DEF Crash, CoverIsUnique, ImagesOf, CoversOf
      <3> QED BY <3>1, <3>2
    <2>3. ASSUME NEW r \in ImageRequests, CreateImage(r) \/ DeleteImage(r) \/ SetCover(r) \/ DeleteRoom(r)
          PROVE  (ImagesTypeOK /\ ImagesInv /\ CoverIsUnique)'
      <3>1. ImagesTypeOK'
        BY <2>3, ImageTypesKept DEF ImagesNext
      <3>2. ImagesInv'
        BY <2>3, ImageIsCreated, ImageIsDeleted, CoverIsSet, RoomIsDeleted
      <3>3. CoverIsUnique'
        BY <2>3, CreationCovers, DeletionCovers, ChoiceCovers, RoomDeletionCovers
      <3> QED BY <3>1, <3>2, <3>3
    <2>4. ASSUME NEW r \in ImageRequests,
                 \/ Store(r) \/ LockRoomForImage(r) \/ FindImage(r) \/ LockRoomOfImage(r)
                 \/ LockAdminRoom(r) \/ Fail(r) \/ DeleteManaged(r)
          PROVE  (ImagesTypeOK /\ ImagesInv /\ CoverIsUnique)'
      <3>1. ImagesTypeOK'
        BY <2>4, ImageTypesKept DEF ImagesNext
      <3>2. ImagesInv'
        BY <2>4, FileIsStored, CreationLocks, ImageIsFound, ImageLocks, RoomIsLockedForDeletion,
           TransactionFails, FileIsRemoved
      <3>3. UNCHANGED images
        BY <2>4 DEF Store, LockRoomForImage, FindImage, LockRoomOfImage, LockAdminRoom, Fail, DeleteManaged
      <3> QED BY <3>1, <3>2, <3>3 DEF CoverIsUnique, ImagesOf, CoversOf
    <2> QED BY <2>1, <2>2, <2>3, <2>4 DEF ImagesNext
  <1> QED BY <1>1, <1>2, PTL DEF ImagesSpec

\* CoverIsUnique: of the images of a room exactly one is the cover, whatever
\* creations, deletions and choices race.
THEOREM CoverIsAlwaysUnique == ImagesSpec => []CoverIsUnique
  BY ImagesAlways, PTL

\* FilesMatchRows: no image row is ever without its file, and a file without a
\* row belongs to a request that is not finished or was broken off.
THEOREM FilesAlwaysMatchRows == ImagesSpec => []FilesMatchRows
  <1>1. ImagesInv => FilesMatchRows
    BY DEF ImagesInv, RowSound, Accounted, AnswersFor, Concerns, Early, FilesMatchRows
  <1> QED BY <1>1, ImagesAlways, PTL
-----------------------------------------------------------------------------
(* Rooms, room types and amenities.  A row that a request has locked and    *)
(* found not to be deleted is not deleted while it is locked, because a     *)
(* deletion locks what it deletes.                                          *)

\* Old lists explain why this amenity is still linked to this type.
OldListExplains(t, a) ==
  \E r \in CatalogRequests :
    /\ CatalogAsk[r].kind = "restoreType" /\ CatalogAsk[r].type = t
    /\ catalogStage[r] = "done" /\ a \notin listed[r]

\* What a request will refer to is not deleted behind its back.
OwnedRowsStay(r) ==
  \A x \in CatalogRows : rowOwner[x] = r =>
    /\ CatalogAsk[r].kind \in {"addRoom", "moveRoom"} /\ x \in RoomTypes => x \notin deleted
    /\ CatalogAsk[r].kind = "setAmenities" => x \notin deleted

\* An amenity that is about to be deleted is locked and not used.
UnusedStays(r) ==
  catalogStage[r] = "unused" =>
    /\ CatalogAsk[r].kind = "deleteAmenity" /\ rowOwner[CatalogAsk[r].amenity] = r
    /\ \A t \in RoomTypes \ deleted :
         CatalogAsk[r].amenity \in links[t] => OldListExplains(t, CatalogAsk[r].amenity)

CatalogInv ==
  /\ RoomsHaveActiveTypes
  /\ \A t \in RoomTypes \ deleted : \A a \in links[t] \cap deleted : OldListExplains(t, a)
  /\ \A r \in CatalogRequests : OwnedRowsStay(r) /\ UnusedStays(r)

\* The kinds of rows are told apart.
LEMMA Questions ==
  ASSUME NEW r \in CatalogRequests
  PROVE  /\ CatalogAsk[r].room \in RoomRows /\ CatalogAsk[r].type \in RoomTypes
         /\ CatalogAsk[r].amenity \in Amenities /\ CatalogAsk[r].amenities \subseteq Amenities
         /\ RoomRows \subseteq CatalogRows /\ RoomTypes \subseteq CatalogRows
         /\ Amenities \subseteq CatalogRows
         /\ RoomTypes \cap Amenities = {} /\ RoomTypes \cap RoomRows = {}
         /\ Amenities \cap RoomRows = {}
         /\ NoType \notin CatalogRows /\ NoOwner # r
  BY CatalogAssumption DEF CatalogQuestion, CatalogRows

\* A transaction that ends gives its locks back and touches no other request.
LEMMA TransactionDone ==
  ASSUME CatalogTypeOK, NEW r \in CatalogRequests, NEW next \in {"done", "failed"}, Done(r, next)
  PROVE  /\ rowOwner' \in [CatalogRows -> CatalogRequests \cup {NoOwner}]
         /\ catalogStage' \in [CatalogRequests -> {"absent", "new", "locking", "unused", "done", "failed"}]
         /\ catalogStage'[r] = next
         /\ \A s \in CatalogRequests \ {r} : catalogStage'[s] = catalogStage[s]
         /\ \A x \in CatalogRows : rowOwner'[x] = IF rowOwner[x] = r THEN NoOwner ELSE rowOwner[x]
         /\ \A x \in CatalogRows : rowOwner'[x] # r
  BY Questions DEF Done, Stage, CatalogTypeOK

\* Who holds all its locks owns what it asks for.
LEMMA LockedRows ==
  ASSUME NEW r \in CatalogRequests, catalogStage[r] = "locking", ToLock(r) = {}
  PROVE  /\ CatalogAsk[r].kind \in {"addRoom", "deleteType", "moveRoom", "restoreType", "setAmenities"}
              => rowOwner[CatalogAsk[r].type] = r
         /\ CatalogAsk[r].kind = "restoreType" => \A a \in listed[r] : rowOwner[a] = r
         /\ CatalogAsk[r].kind = "setAmenities" => \A a \in CatalogAsk[r].amenities : rowOwner[a] = r
         /\ CatalogAsk[r].kind \in {"deleteAmenity", "restoreAmenity"} => rowOwner[CatalogAsk[r].amenity] = r
  <1>1. \A x \in Wanted(r) : rowOwner[x] = r
    BY DEF ToLock
  <1>2. CatalogAsk[r].kind \in {"addRoom", "removeRoom", "deleteType", "moveRoom", "restoreType",
                                "setAmenities", "deleteAmenity", "restoreAmenity"}
    BY CatalogAssumption DEF CatalogQuestion
  <1>3. CASE CatalogAsk[r].kind \in {"addRoom", "deleteType"}
    BY <1>1, <1>3 DEF Wanted
  <1>4. CASE CatalogAsk[r].kind = "moveRoom"
    BY <1>1, <1>4 DEF Wanted
  <1>5. CASE CatalogAsk[r].kind = "restoreType"
    BY <1>1, <1>5 DEF Wanted
  <1>6. CASE CatalogAsk[r].kind = "setAmenities"
    BY <1>1, <1>6 DEF Wanted
  <1>7. CASE CatalogAsk[r].kind \in {"deleteAmenity", "restoreAmenity"}
    BY <1>1, <1>7 DEF Wanted
  <1>8. CASE CatalogAsk[r].kind = "removeRoom"
    BY <1>8
  <1> QED BY <1>2, <1>3, <1>4, <1>5, <1>6, <1>7, <1>8

\* The end of a transaction: nobody else loses a lock or moves, explanations
\* stay, and what the others rely on has to be shown for rows and links only.
Quiet(r) ==
  /\ \A s \in CatalogRequests \ {r} : catalogStage'[s] = catalogStage[s] /\ listed'[s] = listed[s]
  /\ \A x \in CatalogRows, s \in CatalogRequests \ {r} : rowOwner'[x] = s <=> rowOwner[x] = s

LEMMA ExplanationsStay ==
  ASSUME NEW r \in CatalogRequests, Quiet(r), catalogStage[r] # "done", NEW t, NEW a, OldListExplains(t, a)
  PROVE  OldListExplains(t, a)'
  BY DEF OldListExplains, Quiet

LEMMA OthersRely ==
  ASSUME CatalogTypeOK, CatalogInv, NEW r \in CatalogRequests, Quiet(r), catalogStage[r] # "done",
         NEW s \in CatalogRequests \ {r},
         \A x \in CatalogRows : rowOwner[x] = s /\ x \in deleted' => x \in deleted,
         \A t \in RoomTypes \ deleted', a \in Amenities :
           rowOwner[a] = s /\ a \in links'[t] =>
             (t \notin deleted /\ a \in links[t]) \/ OldListExplains(t, a)'
  PROVE  OwnedRowsStay(s)' /\ UnusedStays(s)'
  <1>1. OwnedRowsStay(s) /\ UnusedStays(s)
    BY DEF CatalogInv
  <1>2. OwnedRowsStay(s)'
    BY <1>1 DEF OwnedRowsStay, Quiet
  <1>3. ASSUME catalogStage'[s] = "unused"
        PROVE  /\ CatalogAsk[s].kind = "deleteAmenity" /\ rowOwner'[CatalogAsk[s].amenity] = s
               /\ \A t \in RoomTypes \ deleted' :
                    CatalogAsk[s].amenity \in links'[t] => OldListExplains(t, CatalogAsk[s].amenity)'
    <2>1. /\ CatalogAsk[s].kind = "deleteAmenity" /\ rowOwner[CatalogAsk[s].amenity] = s
          /\ \A t \in RoomTypes \ deleted :
               CatalogAsk[s].amenity \in links[t] => OldListExplains(t, CatalogAsk[s].amenity)
      BY <1>1, <1>3 DEF UnusedStays, Quiet
    <2>2. CatalogAsk[s].amenity \in Amenities /\ CatalogAsk[s].amenity \in CatalogRows
      BY Questions
    <2>3. rowOwner'[CatalogAsk[s].amenity] = s
      BY <2>1, <2>2 DEF Quiet
    <2>4. ASSUME NEW t \in RoomTypes \ deleted', CatalogAsk[s].amenity \in links'[t]
          PROVE  OldListExplains(t, CatalogAsk[s].amenity)'
      BY <2>1, <2>2, <2>4, ExplanationsStay
    <2> QED BY <2>1, <2>3, <2>4
  <1> QED BY <1>2, <1>3 DEF UnusedStays

\* A transaction of r that ends.
LEMMA TransactionEndsWell ==
  ASSUME CatalogTypeOK, CatalogInv, NEW r \in CatalogRequests, NEW next \in {"done", "failed"},
         catalogStage[r] \in {"locking", "unused"}, Done(r, next), UNCHANGED listed,
         \A x \in CatalogRows : rowOwner[x] # r /\ rowOwner[x] # NoOwner /\ x \in deleted' => x \in deleted,
         \A t \in RoomTypes \ deleted', a \in Amenities :
           rowOwner[a] # r /\ a \in links'[t] =>
             (t \notin deleted /\ a \in links[t]) \/ OldListExplains(t, a)',
         RoomsHaveActiveTypes',
         \A t \in RoomTypes \ deleted' : \A a \in links'[t] \cap deleted' :
           OldListExplains(t, a) \/ OldListExplains(t, a)'
  PROVE  CatalogInv'
  <1>1. Quiet(r) /\ catalogStage[r] # "done"
    BY TransactionDone, Questions DEF Quiet
  <1>2. ASSUME NEW s \in CatalogRequests \ {r}
        PROVE  OwnedRowsStay(s)' /\ UnusedStays(s)'
    <2>1. s # NoOwner
      BY Questions
    <2> QED BY <1>1, <2>1, OthersRely
  <1>3. OwnedRowsStay(r)' /\ UnusedStays(r)'
    BY TransactionDone DEF OwnedRowsStay, UnusedStays
  <1>4. \A t \in RoomTypes \ deleted' : \A a \in links'[t] \cap deleted' : OldListExplains(t, a)'
    BY <1>1, ExplanationsStay
  <1> QED BY <1>2, <1>3, <1>4 DEF CatalogInv

LEMMA RoomRequests ==
  ASSUME CatalogTypeOK, CatalogInv, NEW r \in CatalogRequests,
         AddRoom(r) \/ MoveRoom(r) \/ RemoveRoom(r) \/ RollBack(r)
  PROVE  CatalogInv'
  <1> DEFINE q == CatalogAsk[r]
  <1>1. PICK next \in {"done", "failed"} :
          /\ catalogStage[r] \in {"locking", "unused"} /\ Done(r, next)
          /\ UNCHANGED <<links, deleted, listed>>
    BY DEF AddRoom, MoveRoom, RemoveRoom, RollBack, Locked
  <1>2. RoomsHaveActiveTypes'
    <2>1. CASE RollBack(r)
      BY <2>1 DEF RollBack, CatalogInv, RoomsHaveActiveTypes
    <2>2. CASE AddRoom(r) \/ MoveRoom(r)
      <3>1. q.kind \in {"addRoom", "moveRoom"} /\ catalogStage[r] = "locking" /\ ToLock(r) = {}
        BY <2>2 DEF AddRoom, MoveRoom, Locked
      <3>2. rowOwner[q.type] = r /\ OwnedRowsStay(r)
        BY <3>1, LockedRows DEF CatalogInv
      <3>3. q.type \notin deleted
        BY <3>1, <3>2, Questions DEF OwnedRowsStay
      <3>4. roomType' = [roomType EXCEPT ![q.room] = q.type] /\ deleted' = deleted
        BY <2>2 DEF AddRoom, MoveRoom
      <3> QED BY <3>3, <3>4 DEF CatalogInv, RoomsHaveActiveTypes, CatalogTypeOK
    <2>3. CASE RemoveRoom(r)
      <3>1. roomType' = [roomType EXCEPT ![q.room] = NoType] /\ deleted' = deleted
        BY <2>3 DEF RemoveRoom
      <3>2. NoType \notin deleted
        BY Questions DEF CatalogTypeOK
      <3> QED BY <3>1, <3>2 DEF CatalogInv, RoomsHaveActiveTypes, CatalogTypeOK
    <2> QED BY <2>1, <2>2, <2>3
  <1>3. \A t \in RoomTypes \ deleted' : \A a \in links'[t] \cap deleted' : OldListExplains(t, a)
    BY <1>1 DEF CatalogInv
  <1>4. /\ \A x \in CatalogRows : rowOwner[x] # r /\ rowOwner[x] # NoOwner /\ x \in deleted' => x \in deleted
        /\ \A t \in RoomTypes \ deleted', a \in Amenities :
             rowOwner[a] # r /\ a \in links'[t] => t \notin deleted /\ a \in links[t]
    BY <1>1
  <1> QED BY <1>1, <1>2, <1>3, <1>4, TransactionEndsWell

LEMMA TypeIsDeleted ==
  ASSUME CatalogTypeOK, CatalogInv, NEW r \in CatalogRequests, SoftDeleteType(r)
  PROVE  CatalogInv'
  <1> DEFINE t0 == CatalogAsk[r].type
  <1>1. /\ catalogStage[r] = "locking" /\ Done(r, "done") /\ UNCHANGED <<roomType, links, listed>>
        /\ deleted' = deleted \cup {t0} /\ RoomsOf(t0) = {} /\ rowOwner[t0] = r
    BY LockedRows DEF SoftDeleteType, Locked
  <1>2. RoomsHaveActiveTypes'
    BY <1>1 DEF CatalogInv, RoomsHaveActiveTypes, RoomsOf
  <1>3. t0 \notin Amenities
    BY Questions
  <1>4. \A t \in RoomTypes \ deleted' : \A a \in links'[t] \cap deleted' : OldListExplains(t, a)
    BY <1>1, <1>3 DEF CatalogInv, CatalogTypeOK
  <1>5. /\ \A x \in CatalogRows : rowOwner[x] # r /\ rowOwner[x] # NoOwner /\ x \in deleted' => x \in deleted
        /\ \A t \in RoomTypes \ deleted', a \in Amenities :
             rowOwner[a] # r /\ a \in links'[t] => t \notin deleted /\ a \in links[t]
    BY <1>1
  <1> QED BY <1>1, <1>2, <1>4, <1>5, TransactionEndsWell

LEMMA TypeIsRestored ==
  ASSUME CatalogTypeOK, CatalogInv, NEW r \in CatalogRequests, RestoreType(r)
  PROVE  CatalogInv'
  <1> DEFINE t0 == CatalogAsk[r].type
  <1>1. /\ catalogStage[r] = "locking" /\ Done(r, "done") /\ UNCHANGED <<roomType, listed>>
        /\ CatalogAsk[r].kind = "restoreType" /\ t0 \in RoomTypes
        /\ deleted' = deleted \ {t0} /\ \A a \in listed[r] : rowOwner[a] = r
        /\ links' = [links EXCEPT ![t0] = links[t0] \ StaleLinks(r)]
    BY LockedRows, Questions DEF RestoreType, Locked
  <1>2. RoomsHaveActiveTypes'
    BY <1>1 DEF CatalogInv, RoomsHaveActiveTypes
  <1>3. \A t \in RoomTypes : links'[t] = IF t = t0 THEN links[t] \ StaleLinks(r) ELSE links[t]
    BY <1>1 DEF CatalogTypeOK
  <1>4. catalogStage'[r] = "done"
    BY <1>1, TransactionDone
  <1>5. \A a : a \notin listed[r] => OldListExplains(t0, a)'
    BY <1>1, <1>4 DEF OldListExplains
  <1>6. ASSUME NEW t \in RoomTypes \ deleted', NEW a \in links'[t] \cap deleted'
        PROVE  OldListExplains(t, a) \/ OldListExplains(t, a)'
    <2>1. CASE t = t0
      <3>1. a \notin listed[r]
        BY <1>1, <1>3, <1>6, <2>1 DEF StaleLinks
      <3> QED BY <1>5, <2>1, <3>1
    <2>2. CASE t # t0
      BY <1>1, <1>3, <1>6, <2>2 DEF CatalogInv
    <2> QED BY <2>1, <2>2
  <1>7. ASSUME NEW t \in RoomTypes \ deleted', NEW a \in Amenities, rowOwner[a] # r, a \in links'[t]
        PROVE  (t \notin deleted /\ a \in links[t]) \/ OldListExplains(t, a)'
    <2>1. CASE t = t0
      BY <1>1, <1>5, <1>7, <2>1
    <2>2. CASE t # t0
      BY <1>1, <1>3, <1>7, <2>2
    <2> QED BY <2>1, <2>2
  <1>8. \A x \in CatalogRows : rowOwner[x] # r /\ rowOwner[x] # NoOwner /\ x \in deleted' => x \in deleted
    BY <1>1
  <1> QED BY <1>1, <1>2, <1>6, <1>7, <1>8, TransactionEndsWell

LEMMA AmenitiesAreSet ==
  ASSUME CatalogTypeOK, CatalogInv, NEW r \in CatalogRequests, SetAmenities(r)
  PROVE  CatalogInv'
  <1> DEFINE t0 == CatalogAsk[r].type
             chosen == CatalogAsk[r].amenities
  <1>1. /\ catalogStage[r] = "locking" /\ Done(r, "done") /\ UNCHANGED <<roomType, deleted, listed>>
        /\ CatalogAsk[r].kind = "setAmenities" /\ t0 \in RoomTypes /\ chosen \subseteq CatalogRows
        /\ links' = [links EXCEPT ![t0] = chosen] /\ \A a \in chosen : rowOwner[a] = r
    BY LockedRows, Questions DEF SetAmenities, Locked
  <1>2. RoomsHaveActiveTypes'
    BY <1>1 DEF CatalogInv, RoomsHaveActiveTypes
  <1>3. \A t \in RoomTypes : links'[t] = IF t = t0 THEN chosen ELSE links[t]
    BY <1>1 DEF CatalogTypeOK
  <1>4. \A a \in chosen : a \notin deleted
    BY <1>1 DEF CatalogInv, OwnedRowsStay
  <1>5. \A t \in RoomTypes \ deleted' : \A a \in links'[t] \cap deleted' : OldListExplains(t, a)
    BY <1>1, <1>3, <1>4 DEF CatalogInv
  <1>6. /\ \A x \in CatalogRows : rowOwner[x] # r /\ rowOwner[x] # NoOwner /\ x \in deleted' => x \in deleted
        /\ \A t \in RoomTypes \ deleted', a \in Amenities :
             rowOwner[a] # r /\ a \in links'[t] => t \notin deleted /\ a \in links[t]
    BY <1>1, <1>3
  <1> QED BY <1>1, <1>2, <1>5, <1>6, TransactionEndsWell

LEMMA AmenityIsDeletedOrRestored ==
  ASSUME CatalogTypeOK, CatalogInv, NEW r \in CatalogRequests, SoftDeleteAmenity(r) \/ RestoreAmenity(r)
  PROVE  CatalogInv'
  <1> DEFINE a0 == CatalogAsk[r].amenity
  <1>1. /\ catalogStage[r] \in {"locking", "unused"} /\ Done(r, "done")
        /\ UNCHANGED <<roomType, links, listed>> /\ a0 \in Amenities
    BY Questions DEF SoftDeleteAmenity, RestoreAmenity, Locked
  <1>2. CASE SoftDeleteAmenity(r)
    <2>1. /\ deleted' = deleted \cup {a0} /\ rowOwner[a0] = r
          /\ \A t \in RoomTypes \ deleted : a0 \in links[t] => OldListExplains(t, a0)
      BY <1>2 DEF SoftDeleteAmenity, CatalogInv, UnusedStays
    <2>2. RoomsHaveActiveTypes'
      <3>1. \A m \in RoomRows : roomType[m] # a0
        BY Questions, <1>1 DEF CatalogTypeOK
      <3> QED BY <1>1, <2>1, <3>1 DEF CatalogInv, RoomsHaveActiveTypes
    <2>3. \A t \in RoomTypes \ deleted' : \A a \in links'[t] \cap deleted' : OldListExplains(t, a)
      BY <1>1, <2>1 DEF CatalogInv
    <2>4. /\ \A x \in CatalogRows : rowOwner[x] # r /\ rowOwner[x] # NoOwner /\ x \in deleted' => x \in deleted
          /\ \A t \in RoomTypes \ deleted', a \in Amenities :
               rowOwner[a] # r /\ a \in links'[t] => t \notin deleted /\ a \in links[t]
      BY <1>1, <2>1
    <2> QED BY <1>1, <2>2, <2>3, <2>4, TransactionEndsWell
  <1>3. CASE RestoreAmenity(r)
    <2>1. deleted' = deleted \ {a0} /\ a0 \notin RoomTypes
      BY <1>3, Questions DEF RestoreAmenity
    <2>2. RoomsHaveActiveTypes'
      BY <1>1, <2>1 DEF CatalogInv, RoomsHaveActiveTypes
    <2>3. \A t \in RoomTypes \ deleted' : \A a \in links'[t] \cap deleted' : OldListExplains(t, a)
      BY <1>1, <2>1 DEF CatalogInv
    <2>4. /\ \A x \in CatalogRows : rowOwner[x] # r /\ rowOwner[x] # NoOwner /\ x \in deleted' => x \in deleted
          /\ \A t \in RoomTypes \ deleted', a \in Amenities :
               rowOwner[a] # r /\ a \in links'[t] => t \notin deleted /\ a \in links[t]
      BY <1>1, <2>1
    <2> QED BY <1>1, <2>2, <2>3, <2>4, TransactionEndsWell
  <1> QED BY <1>2, <1>3

\* A step of r inside its transaction, which writes no row.
LEMMA TransactionGoesOn ==
  ASSUME CatalogTypeOK, CatalogInv, NEW r \in CatalogRequests, Quiet(r), catalogStage[r] # "done",
         UNCHANGED <<roomType, links, deleted>>, OwnedRowsStay(r)', UnusedStays(r)'
  PROVE  CatalogInv'
  <1>1. ASSUME NEW s \in CatalogRequests \ {r}
        PROVE  OwnedRowsStay(s)' /\ UnusedStays(s)'
    <2>1. /\ \A x \in CatalogRows : rowOwner[x] = s /\ x \in deleted' => x \in deleted
          /\ \A t \in RoomTypes \ deleted', a \in Amenities :
               rowOwner[a] = s /\ a \in links'[t] => t \notin deleted /\ a \in links[t]
      OBVIOUS
    <2> QED BY <2>1, OthersRely
  <1>2. \A t \in RoomTypes \ deleted' : \A a \in links'[t] \cap deleted' : OldListExplains(t, a)'
    BY ExplanationsStay DEF CatalogInv
  <1>3. RoomsHaveActiveTypes'
    BY DEF CatalogInv, RoomsHaveActiveTypes
  <1> QED BY <1>1, <1>2, <1>3 DEF CatalogInv

LEMMA RequestStarts ==
  ASSUME CatalogTypeOK, CatalogInv, NEW r \in CatalogRequests, Start(r)
  PROVE  CatalogInv'
  <1>1. /\ Quiet(r) /\ catalogStage'[r] = "locking" /\ catalogStage[r] = "new"
        /\ UNCHANGED <<roomType, links, deleted, rowOwner>>
    BY DEF Start, Stage, Quiet, CatalogTypeOK
  <1>2. OwnedRowsStay(r)' /\ UnusedStays(r)'
    BY <1>1 DEF CatalogInv, OwnedRowsStay, UnusedStays
  <1> QED BY <1>1, <1>2, TransactionGoesOn

LEMMA RowIsLocked ==
  ASSUME CatalogTypeOK, CatalogInv, NEW r \in CatalogRequests, LockRow(r)
  PROVE  CatalogInv'
  <1>1. PICK x \in ToLock(r) :
          /\ rowOwner[x] = NoOwner
          /\ IF Suits(r, x)
             THEN rowOwner' = [rowOwner EXCEPT ![x] = r] /\ UNCHANGED catalogStage
             ELSE Done(r, "failed")
    BY DEF LockRow
  <1>2. catalogStage[r] = "locking" /\ UNCHANGED <<roomType, links, deleted, listed>>
    BY DEF LockRow
  <1>3. CASE Suits(r, x)
    <2>1. rowOwner' = [rowOwner EXCEPT ![x] = r] /\ UNCHANGED catalogStage
      BY <1>1, <1>3
    <2>2. Quiet(r)
      BY <1>1, <1>2, <2>1, Questions DEF Quiet, CatalogTypeOK
    <2>3. \A y \in CatalogRows : rowOwner'[y] = r => y = x \/ rowOwner[y] = r
      BY <2>1 DEF CatalogTypeOK
    <2>4. OwnedRowsStay(r)' /\ UnusedStays(r)'
      BY <1>2, <1>3, <2>1, <2>3 DEF CatalogInv, OwnedRowsStay, UnusedStays, Suits
    <2> QED BY <1>2, <2>2, <2>4, TransactionGoesOn
  <1>4. CASE ~Suits(r, x)
    <2>1. Done(r, "failed")
      BY <1>1, <1>4
    <2>2. RoomsHaveActiveTypes'
      BY <1>2 DEF CatalogInv, RoomsHaveActiveTypes
    <2>3. \A t \in RoomTypes \ deleted' : \A a \in links'[t] \cap deleted' : OldListExplains(t, a)
      BY <1>2 DEF CatalogInv
    <2>4. /\ \A y \in CatalogRows : rowOwner[y] # r /\ rowOwner[y] # NoOwner /\ y \in deleted' => y \in deleted
          /\ \A t \in RoomTypes \ deleted', a \in Amenities :
               rowOwner[a] # r /\ a \in links'[t] => t \notin deleted /\ a \in links[t]
      BY <1>2
    <2> QED BY <1>2, <2>1, <2>2, <2>3, <2>4, TransactionEndsWell
  <1> QED BY <1>3, <1>4

LEMMA UseIsChecked ==
  ASSUME CatalogTypeOK, CatalogInv, NEW r \in CatalogRequests, CheckUse(r)
  PROVE  CatalogInv'
  <1>1. /\ Quiet(r) /\ catalogStage[r] = "locking" /\ CatalogAsk[r].kind = "deleteAmenity"
        /\ ToLock(r) = {} /\ ~IsUsedByActiveRoomType(CatalogAsk[r].amenity)
        /\ UNCHANGED <<roomType, links, deleted, rowOwner>>
    BY DEF CheckUse, Locked, Stage, Quiet, CatalogTypeOK
  <1>2. rowOwner[CatalogAsk[r].amenity] = r
    BY <1>1, LockedRows
  <1>3. OwnedRowsStay(r)' /\ UnusedStays(r)'
    BY <1>1, <1>2 DEF CatalogInv, OwnedRowsStay, UnusedStays, IsUsedByActiveRoomType
  <1> QED BY <1>1, <1>3, TransactionGoesOn

\* Every step keeps the types.
LEMMA CatalogTypesKept ==
  ASSUME CatalogTypeOK, NEW r \in CatalogRequests,
         \/ Start(r) \/ LockRow(r) \/ RollBack(r)
         \/ AddRoom(r) \/ MoveRoom(r) \/ RemoveRoom(r)
         \/ SoftDeleteType(r) \/ RestoreType(r) \/ SetAmenities(r)
         \/ CheckUse(r) \/ SoftDeleteAmenity(r) \/ RestoreAmenity(r)
  PROVE  CatalogTypeOK'
  <1> DEFINE q == CatalogAsk[r]
             StagesOK == catalogStage' \in [CatalogRequests -> {"absent", "new", "locking", "unused", "done", "failed"}]
             OwnersOK == rowOwner' \in [CatalogRows -> CatalogRequests \cup {NoOwner}]
  <1>0. q.room \in RoomRows /\ q.type \in RoomTypes /\ q.amenity \in Amenities /\ q.amenities \subseteq Amenities
    BY Questions
  <1>1. ASSUME NEW next \in {"done", "failed"}, Done(r, next) PROVE StagesOK /\ OwnersOK
    BY <1>1, TransactionDone
  <1>2. CASE Start(r)
    BY <1>0, <1>2 DEF Start, Stage, CatalogTypeOK
  <1>3. CASE LockRow(r)
    <2>1. StagesOK /\ OwnersOK
      BY <1>1, <1>3 DEF LockRow, CatalogTypeOK
    <2> QED BY <1>3, <2>1 DEF LockRow, CatalogTypeOK
  <1>4. CASE RollBack(r)
    BY <1>1, <1>4 DEF RollBack, CatalogTypeOK
  <1>5. CASE AddRoom(r)
    BY <1>0, <1>1, <1>5 DEF AddRoom, CatalogTypeOK
  <1>6. CASE MoveRoom(r)
    BY <1>0, <1>1, <1>6 DEF MoveRoom, CatalogTypeOK
  <1>7. CASE RemoveRoom(r)
    BY <1>0, <1>1, <1>7 DEF RemoveRoom, CatalogTypeOK
  <1>8. CASE SoftDeleteType(r)
    BY <1>0, <1>1, <1>8 DEF SoftDeleteType, CatalogTypeOK
  <1>9. CASE RestoreType(r)
    BY <1>0, <1>1, <1>9 DEF RestoreType, CatalogTypeOK
  <1>10. CASE SetAmenities(r)
    BY <1>0, <1>1, <1>10 DEF SetAmenities, CatalogTypeOK
  <1>11. CASE CheckUse(r)
    BY <1>11 DEF CheckUse, Stage, CatalogTypeOK
  <1>12. CASE SoftDeleteAmenity(r)
    BY <1>0, <1>1, <1>12 DEF SoftDeleteAmenity, CatalogTypeOK
  <1>13. CASE RestoreAmenity(r)
    BY <1>0, <1>1, <1>13 DEF RestoreAmenity, CatalogTypeOK
  <1> QED BY <1>2, <1>3, <1>4, <1>5, <1>6, <1>7, <1>8, <1>9, <1>10, <1>11, <1>12, <1>13

\* ReferencesHold: no room is of a deleted type, and a type in use is linked to
\* a deleted amenity only through a list of links that was read too early.
THEOREM ReferencesAlwaysHold == CatalogSpec => []ReferencesHold
  <1>1. CatalogInit => CatalogTypeOK /\ CatalogInv
    <2> SUFFICES ASSUME CatalogInit PROVE CatalogTypeOK /\ CatalogInv
      OBVIOUS
    <2>1. PICK arriving \in CatalogArrivals : CatalogInitWith(arriving)
      BY DEF CatalogInit
    <2>2. CatalogTypeOK
      BY <2>1, InitialAssumption DEF CatalogInitWith, CatalogTypeOK
    <2>3. RoomsHaveActiveTypes
      BY <2>1, InitialAssumption, CatalogAssumption DEF CatalogInitWith, RoomsHaveActiveTypes, CatalogRows
    <2>4. \A t \in RoomTypes \ deleted : links[t] \cap deleted = {}
      BY <2>1, InitialAssumption DEF CatalogInitWith
    <2>5. \A r \in CatalogRequests : OwnedRowsStay(r) /\ UnusedStays(r)
      BY <2>1, Questions DEF CatalogInitWith, OwnedRowsStay, UnusedStays
    <2> QED BY <2>2, <2>3, <2>4, <2>5 DEF CatalogInv
  <1>2. CatalogTypeOK /\ CatalogInv /\ [CatalogNext]_catalogVars => (CatalogTypeOK /\ CatalogInv)'
    <2> SUFFICES ASSUME CatalogTypeOK, CatalogInv, [CatalogNext]_catalogVars
                 PROVE  CatalogTypeOK' /\ CatalogInv'
      OBVIOUS
    <2>1. CASE UNCHANGED catalogVars
      BY <2>1 DEF catalogVars, CatalogTypeOK, CatalogInv, RoomsHaveActiveTypes, OldListExplains,
                  OwnedRowsStay, UnusedStays
    <2>2. CASE CatalogNext
      <3>1. PICK r \in CatalogRequests :
              \/ Start(r) \/ LockRow(r) \/ RollBack(r)
              \/ AddRoom(r) \/ MoveRoom(r) \/ RemoveRoom(r)
              \/ SoftDeleteType(r) \/ RestoreType(r) \/ SetAmenities(r)
              \/ CheckUse(r) \/ SoftDeleteAmenity(r) \/ RestoreAmenity(r)
        BY <2>2 DEF CatalogNext
      <3>2. CatalogTypeOK'
        BY <3>1, CatalogTypesKept
      <3>3. CatalogInv'
        BY <3>1, RequestStarts, RowIsLocked, RoomRequests, TypeIsDeleted, TypeIsRestored, AmenitiesAreSet,
           UseIsChecked, AmenityIsDeletedOrRestored
      <3> QED BY <3>2, <3>3
    <2> QED BY <2>1, <2>2
  <1>3. CatalogInv => ReferencesHold
    BY DEF CatalogInv, ReferencesHold, DeadLinksComeFromOldLists, OldListExplains
  <1> QED BY <1>1, <1>2, <1>3, PTL DEF CatalogSpec

-----------------------------------------------------------------------------
(* The places of rows in an order.                                          *)

\* B orders the rows of S one after the other.
Orders(B, S) ==
  /\ \A x \in S : <<x, x>> \notin B
  /\ \A x, y, z \in S : <<x, y>> \in B /\ <<y, z>> \in B => <<x, z>> \in B
  /\ \A x, y \in S : x # y => <<x, y>> \in B \/ <<y, x>> \in B

\* The rows before x.
Ahead(B, S, x) == {y \in S : <<y, x>> \in B}

\* How many there are.
Position(B, S) == [x \in S |-> Cardinality(Ahead(B, S, x))]

\* The rows of S stand on the places 0, 1, ... without gaps.
LEMMA PlacesFill ==
  ASSUME NEW B, NEW S, IsFiniteSet(S), Orders(B, S)
  PROVE  /\ Cardinality(S) \in Nat
         /\ Position(B, S) \in Bijection(S, 0 .. Cardinality(S) - 1)
  <1>1. Cardinality(S) \in Nat
    BY FS_CardinalityType
  <1>2. ASSUME NEW x \in S
        PROVE  /\ Ahead(B, S, x) \in SUBSET S /\ x \notin Ahead(B, S, x)
               /\ Cardinality(Ahead(B, S, x)) \in 0 .. Cardinality(S) - 1
    <2>1. Ahead(B, S, x) \in SUBSET S /\ x \notin Ahead(B, S, x)
      BY DEF Ahead, Orders
    <2>2. /\ IsFiniteSet(Ahead(B, S, x)) /\ Cardinality(Ahead(B, S, x)) <= Cardinality(S)
          /\ Cardinality(Ahead(B, S, x)) # Cardinality(S)
      BY <2>1, FS_Subset
    <2>3. Cardinality(Ahead(B, S, x)) \in Nat
      BY <2>2, FS_CardinalityType
    <2> QED BY <1>1, <2>1, <2>2, <2>3
  <1>3. ASSUME NEW x \in S, NEW y \in S, <<x, y>> \in B
        PROVE  Cardinality(Ahead(B, S, x)) < Cardinality(Ahead(B, S, y))
    <2>1. Ahead(B, S, x) \in SUBSET Ahead(B, S, y)
      BY <1>3 DEF Ahead, Orders
    <2>2. x \in Ahead(B, S, y) /\ x \notin Ahead(B, S, x)
      BY <1>2, <1>3 DEF Ahead
    <2>3. IsFiniteSet(Ahead(B, S, y))
      BY <1>2, FS_Subset
    <2>4. /\ Cardinality(Ahead(B, S, x)) <= Cardinality(Ahead(B, S, y))
          /\ Cardinality(Ahead(B, S, x)) # Cardinality(Ahead(B, S, y))
      BY <2>1, <2>2, <2>3, FS_Subset
    <2> QED BY <1>2, <2>4
  <1>4. Position(B, S) \in Injection(S, 0 .. Cardinality(S) - 1)
    <2>1. Position(B, S) \in [S -> 0 .. Cardinality(S) - 1]
      BY <1>2 DEF Position
    <2>2. ASSUME NEW x \in S, NEW y \in S, x # y
          PROVE  Position(B, S)[x] # Position(B, S)[y]
      <3>1. <<x, y>> \in B \/ <<y, x>> \in B
        BY <2>2 DEF Orders
      <3> QED BY <1>2, <1>3, <3>1 DEF Position
    <2> QED BY <2>1, <2>2 DEF Injection, IsInjective
  <1>5. /\ IsFiniteSet(0 .. Cardinality(S) - 1)
        /\ Cardinality(0 .. Cardinality(S) - 1) = Cardinality(S)
    <2>1. 0 \in Int /\ Cardinality(S) - 1 \in Int
      BY <1>1
    <2> QED BY <1>1, <2>1, FS_Interval
  <1>6. Position(B, S) \in Surjection(S, 0 .. Cardinality(S) - 1)
    BY <1>4, <1>5, FS_Injection
  <1> QED BY <1>1, <1>4, <1>6 DEF Bijection

\* The rows on these places.
OnPlaces(B, S, P) == {x \in S : Cardinality(Ahead(B, S, x)) \in P}

\* Of the rows of a range of places there are as many as there are places.
LEMMA RangeIsFull ==
  ASSUME NEW B, NEW S, IsFiniteSet(S), Orders(B, S),
         NEW P, P \subseteq 0 .. Cardinality(S) - 1
  PROVE  /\ IsFiniteSet(P)
         /\ Cardinality(OnPlaces(B, S, P)) = Cardinality(P)
  <1> DEFINE n == Cardinality(S) - 1
             f == Position(B, S)
             T == OnPlaces(B, S, P)
             g == [x \in T |-> f[x]]
  <1>1. Cardinality(S) \in Nat /\ f \in Bijection(S, 0 .. n)
    BY PlacesFill
  <1>2. T \subseteq S /\ IsFiniteSet(T) /\ \A x \in S : x \in T <=> f[x] \in P
    BY FS_Subset DEF OnPlaces, Position
  <1> HIDE DEF T, f
  <1>3. g \in [T -> P]
    BY <1>2
  <1>4. \A x, y \in T : g[x] = g[y] => x = y
    BY <1>1, <1>2 DEF Bijection, Injection, IsInjective
  <1>5. \A p \in P : \E x \in T : g[x] = p
    <2> SUFFICES ASSUME NEW p \in P PROVE \E x \in T : g[x] = p
      OBVIOUS
    <2>1. PICK x \in S : f[x] = p
      BY <1>1 DEF Bijection, Surjection
    <2> QED BY <1>2, <2>1
  <1>6. g \in Bijection(T, P)
    BY <1>3, <1>4, <1>5 DEF Bijection, Injection, IsInjective, Surjection
  <1>7. IsFiniteSet(P) /\ Cardinality(T) = Cardinality(P)
    BY <1>2, <1>6, FS_Bijection DEF ExistsBijection
  <1> QED BY <1>7 DEF T

-----------------------------------------------------------------------------
(* Searches.  The rooms of a search stand in a total order, so that its     *)
(* pages cut them without a gap and without a repetition.                   *)

\* What a query in progress has been asked for, and when.
AskedInv ==
  asked.stage = "numbers" =>
    /\ answer = {} /\ asked.query \in Queries
    /\ Offering(asked.query) => StayAllowed(asked.query.stay, asked.day)

SearchInv ==
  /\ SearchTypeOK
  /\ \A m \in RoomNumbers : IsFiniteSet(room[m].booked)
  /\ AskedInv

\* A change of a room or a type.
LEMMA ChangeKeepsAsked ==
  ASSUME AskedInv, Change
  PROVE  AskedInv'
  BY DEF AskedInv, Change, Offering, StayAllowed, WithinBookingWindow

\* A room may be given this instead.
LEMMA RoomReplaced ==
  ASSUME SearchInv, NEW m \in RoomNumbers, NEW x \in SearchedRoom, IsFiniteSet(x.booked),
         room' = [room EXCEPT ![m] = x], Change, UNCHANGED <<type, dead, today>>
  PROVE  SearchInv'
  <1>1. room' \in [RoomNumbers -> SearchedRoom]
    BY DEF SearchInv, SearchTypeOK
  <1>2. changes' \in 0 .. MaxChanges
    BY SearchAssumption DEF SearchInv, SearchTypeOK, Change
  <1>3. SearchTypeOK'
    BY <1>1, <1>2 DEF SearchInv, SearchTypeOK, Change
  <1>4. \A n \in RoomNumbers : IsFiniteSet(room'[n].booked)
    BY DEF SearchInv, SearchTypeOK
  <1> QED BY <1>3, <1>4, ChangeKeepsAsked DEF SearchInv

LEMMA NightsAreDays ==
  ASSUME NEW stay \in Stays
  PROVE  NightsOf(stay) \subseteq Nat
  BY SearchAssumption DEF NightsOf, Stay

LEMMA SearchStarts == SearchInit => SearchInv
  <1> SUFFICES ASSUME SearchInit PROVE SearchInv
    OBVIOUS
  <1>1. SearchTypeOK
    BY SearchAssumption DEF SearchInit, SearchInitOn, SearchTypeOK, NothingAsked
  <1> QED BY <1>1, SearchAssumption DEF SearchInit, SearchInitOn, SearchInv, AskedInv, NothingAsked

LEMMA AnsweringKeeps ==
  ASSUME SearchInv,
         \/ \E q \in Queries, page \in 1 .. (Cardinality(Places(RoomNumbers)) + 1) : Ask(q, page)
         \/ FetchRooms \/ GetCalendarSummaries
  PROVE  SearchInv'
  <1>1. CASE \E q \in Queries, page \in 1 .. (Cardinality(Places(RoomNumbers)) + 1) : Ask(q, page)
    <2>1. PICK q \in Queries, page \in 1 .. (Cardinality(Places(RoomNumbers)) + 1) : Ask(q, page)
      BY <1>1
    <2>2. Page(q, page) \subseteq RoomNumbers
      <3>1. \A m \in Matching(q) : m \in RoomNumbers
        BY DEF Matching
      <3>2. \A x \in Places(Matching(q)) : \E m \in Matching(q) : x[1] = m
        BY DEF Places
      <3>3. \A x \in Places(Matching(q)) : x[1] \in RoomNumbers
        BY <3>1, <3>2
      <3> QED BY <3>3 DEF Page, PlacesOn
    <2>3. SearchTypeOK'
      BY <2>1, <2>2 DEF SearchInv, SearchTypeOK, Ask
    <2>4. AskedInv'
      BY <2>1 DEF AskedInv, Ask, QueryAllowed, Offering, StayAllowed, WithinBookingWindow
    <2> QED BY <2>1, <2>3, <2>4 DEF SearchInv, Ask
  <1>2. CASE FetchRooms
    <2>1. Fetched(asked.query) \subseteq RoomNumbers
      BY DEF Fetched, SearchInv, SearchTypeOK
    <2>2. asked' \in [query : Queries \cup {NoQuery}, stage : {"none", "numbers", "rows"}, day : Nat]
      BY <1>2 DEF SearchInv, SearchTypeOK, FetchRooms, NothingAsked
    <2>3. asked'.stage # "numbers"
      BY <1>2 DEF SearchInv, SearchTypeOK, FetchRooms, NothingAsked
    <2> QED BY <1>2, <2>1, <2>2, <2>3 DEF SearchInv, SearchTypeOK, AskedInv, FetchRooms
  <1>3. CASE GetCalendarSummaries
    <2>1. asked' \in [query : Queries \cup {NoQuery}, stage : {"none", "numbers", "rows"}, day : Nat]
      BY <1>3 DEF GetCalendarSummaries, NothingAsked
    <2> QED BY <1>3, <2>1 DEF SearchInv, SearchTypeOK, AskedInv, GetCalendarSummaries, NothingAsked
  <1> QED BY <1>1, <1>2, <1>3

LEMMA RoomChangesKeep ==
  ASSUME SearchInv, NEW m \in RoomNumbers,
         \/ \E stay \in Stays :
              Book(m, stay) \/ Cancel(m, stay) \/ Block(m, stay) \/ Unblock(m, stay)
         \/ \E s \in RoomStatuses : SetStatus(m, s)
         \/ \E t \in TypeIds : MoveToType(m, t)
         \/ \E number \in Nat : ChangeImages(m, number)
  PROVE  SearchInv'
  <1>0. room[m] \in SearchedRoom /\ IsFiniteSet(room[m].booked)
    BY DEF SearchInv, SearchTypeOK
  <1>1. ASSUME NEW stay \in Stays, Book(m, stay) PROVE SearchInv'
    <2> DEFINE x == [room[m] EXCEPT !.booked = @ \cup {stay}]
    <2>1. IsFiniteSet(room[m].booked \cup {stay})
      BY <1>0, FS_AddElement
    <2>2. x \in SearchedRoom /\ IsFiniteSet(x.booked)
      BY <1>0, <2>1 DEF SearchedRoom
    <2>3. room' = [room EXCEPT ![m] = x]
      BY <1>1 DEF Book
    <2> QED BY <1>1, <2>2, <2>3, RoomReplaced DEF Book
  <1>2. ASSUME NEW stay \in Stays, Cancel(m, stay) PROVE SearchInv'
    <2> DEFINE x == [room[m] EXCEPT !.booked = @ \ {stay}]
    <2>1. IsFiniteSet(room[m].booked \ {stay})
      BY <1>0, FS_RemoveElement
    <2>2. x \in SearchedRoom /\ IsFiniteSet(x.booked)
      BY <1>0, <2>1 DEF SearchedRoom
    <2>3. room' = [room EXCEPT ![m] = x]
      BY <1>2 DEF Cancel
    <2> QED BY <1>2, <2>2, <2>3, RoomReplaced DEF Cancel
  <1>3. ASSUME NEW stay \in Stays, Block(m, stay) PROVE SearchInv'
    <2> DEFINE x == [room[m] EXCEPT !.blocked = @ \cup NightsOf(stay)]
    <2>1. x \in SearchedRoom /\ IsFiniteSet(x.booked)
      BY <1>0, NightsAreDays DEF SearchedRoom
    <2>2. room' = [room EXCEPT ![m] = x]
      BY <1>3 DEF Block
    <2> QED BY <1>3, <2>1, <2>2, RoomReplaced DEF Block
  <1>4. ASSUME NEW stay \in Stays, Unblock(m, stay) PROVE SearchInv'
    <2> DEFINE x == [room[m] EXCEPT !.blocked = @ \ NightsOf(stay)]
    <2>1. x \in SearchedRoom /\ IsFiniteSet(x.booked)
      BY <1>0 DEF SearchedRoom
    <2>2. room' = [room EXCEPT ![m] = x]
      BY <1>4 DEF Unblock
    <2> QED BY <1>4, <2>1, <2>2, RoomReplaced DEF Unblock
  <1>5. ASSUME NEW s \in RoomStatuses, SetStatus(m, s) PROVE SearchInv'
    <2> DEFINE x == [room[m] EXCEPT !.status = s]
    <2>1. x \in SearchedRoom /\ IsFiniteSet(x.booked)
      BY <1>0 DEF SearchedRoom
    <2>2. room' = [room EXCEPT ![m] = x]
      BY <1>5 DEF SetStatus
    <2> QED BY <1>5, <2>1, <2>2, RoomReplaced DEF SetStatus
  <1>6. ASSUME NEW t \in TypeIds, MoveToType(m, t) PROVE SearchInv'
    <2> DEFINE x == [room[m] EXCEPT !.type = t]
    <2>1. x \in SearchedRoom /\ IsFiniteSet(x.booked)
      BY <1>0 DEF SearchedRoom
    <2>2. room' = [room EXCEPT ![m] = x]
      BY <1>6 DEF MoveToType
    <2> QED BY <1>6, <2>1, <2>2, RoomReplaced DEF MoveToType
  <1>7. ASSUME NEW number \in Nat, ChangeImages(m, number) PROVE SearchInv'
    <2> DEFINE x == [room[m] EXCEPT !.images = number]
    <2>1. x \in SearchedRoom /\ IsFiniteSet(x.booked)
      BY <1>0 DEF SearchedRoom
    <2>2. room' = [room EXCEPT ![m] = x]
      BY <1>7 DEF ChangeImages
    <2> QED BY <1>7, <2>1, <2>2, RoomReplaced DEF ChangeImages
  <1> QED BY <1>1, <1>2, <1>3, <1>4, <1>5, <1>6, <1>7

LEMMA OtherChangesKeep ==
  ASSUME SearchInv,
         \/ \E t \in TypeIds : RetireType(t) \/ \E u \in Edits : EditType(t, u.price, u.maxGuests)
         \/ \E a \in Features : RetireAmenity(a)
         \/ Midnight
  PROVE  SearchInv'
  <1>1. Change /\ room' = room
    BY DEF RetireType, EditType, RetireAmenity, Midnight
  <1>2. changes' \in 0 .. MaxChanges
    BY <1>1, SearchAssumption DEF SearchInv, SearchTypeOK, Change
  <1>3. type' \in [TypeIds -> SearchedType]
    <2>1. ASSUME NEW t \in TypeIds, RetireType(t) PROVE type' \in [TypeIds -> SearchedType]
      BY <2>1 DEF RetireType, SearchInv, SearchTypeOK, SearchedType
    <2>2. ASSUME NEW t \in TypeIds, NEW u \in Edits, EditType(t, u.price, u.maxGuests)
          PROVE  type' \in [TypeIds -> SearchedType]
      <3>1. u.price \in Nat /\ u.maxGuests \in Nat
        BY SearchAssumption
      <3> QED BY <2>2, <3>1 DEF EditType, SearchInv, SearchTypeOK, SearchedType
    <2> QED BY <2>1, <2>2 DEF RetireAmenity, Midnight, SearchInv, SearchTypeOK
  <1>4. dead' \subseteq Features /\ today' \in Nat
    <2>1. dead \subseteq Features /\ today \in Nat
      BY DEF SearchInv, SearchTypeOK
    <2>2. ASSUME NEW a \in Features, RetireAmenity(a) PROVE dead' \subseteq Features /\ today' = today
      BY <2>1, <2>2 DEF RetireAmenity
    <2>3. CASE Midnight
      BY <2>1, <2>3 DEF Midnight
    <2>4. CASE \E t \in TypeIds : RetireType(t) \/ \E u \in Edits : EditType(t, u.price, u.maxGuests)
      BY <2>1, <2>4 DEF RetireType, EditType
    <2> QED BY <2>1, <2>2, <2>3, <2>4
  <1> QED BY <1>1, <1>2, <1>3, <1>4, ChangeKeepsAsked DEF SearchInv, SearchTypeOK, Change

LEMMA SearchAlways == SearchSpec => []SearchInv
  <1>1. SearchInv /\ [SearchNext]_searchVars => SearchInv'
    <2> SUFFICES ASSUME SearchInv, [SearchNext]_searchVars PROVE SearchInv'
      OBVIOUS
    <2>1. CASE UNCHANGED searchVars
      BY <2>1 DEF searchVars, SearchInv, SearchTypeOK, AskedInv, Offering, StayAllowed, WithinBookingWindow
    <2>2. CASE SearchNext
      BY <2>2, AnsweringKeeps, RoomChangesKeep, OtherChangesKeep DEF SearchNext
    <2> QED BY <2>1, <2>2
  <1> QED BY <1>1, SearchStarts, PTL DEF SearchSpec

\* OffersCanBeBooked: creating a booking would accept what a search returns,
\* whatever is booked, blocked or edited between its statements.
THEOREM OffersCanAlwaysBeBooked == SearchSpec => OffersCanBeBooked
  <1> DEFINE Offered == asked.stage = "numbers" /\ Offering(asked.query) =>
               \A m \in answer' : CanBeBooked(m, asked.query.stay, asked.query.guests, asked.day)
  <1>1. SearchInv /\ [SearchNext]_searchVars => [Offered]_searchVars
    <2> SUFFICES ASSUME SearchInv, SearchNext, asked.stage = "numbers", Offering(asked.query),
                        NEW m \in answer'
                 PROVE  CanBeBooked(m, asked.query.stay, asked.query.guests, asked.day)
      OBVIOUS
    <2>1. answer = {} /\ asked.query \in Queries /\ StayAllowed(asked.query.stay, asked.day)
      BY DEF SearchInv, AskedInv
    <2>2. FetchRooms
      BY <2>1 DEF SearchNext, Ask, GetCalendarSummaries, Book, Cancel, Block, Unblock, SetStatus, ChangeImages,
                  MoveToType, RetireType, EditType, RetireAmenity, Midnight, Change
    <2>3. m \in Matching(asked.query)
      BY <2>2 DEF FetchRooms, Fetched
    <2> QED BY <2>1, <2>3 DEF Matching, Offering, Public, Managed, Unbookable, FreeFor, CanBeBooked
  <1> QED BY <1>1, SearchAlways, PTL DEF SearchSpec, OffersCanBeBooked

\* The order of the places of rooms in a search, as pairs.
PlaceOrder(q) ==
  {p \in (RoomNumbers \X Nat) \X (RoomNumbers \X Nat) : PlaceBefore(q, p[1], p[2])}

LEMMA PlacesAreOrdered ==
  ASSUME SearchInv, NEW q \in Queries, NEW S, S \subseteq RoomNumbers \X Nat
  PROVE  /\ Orders(PlaceOrder(q), S)
         /\ \A x \in S : Rank(q, x, S) = Cardinality(Ahead(PlaceOrder(q), S, x))
  <1>1. ASSUME NEW m \in RoomNumbers
        PROVE  m \in Int /\ ThenBy(q, m) \in Int /\ SortValue(q, m) \in Int
    <2>1. TypeOf(m).price \in Nat
      BY DEF SearchInv, SearchTypeOK, SearchedRoom, SearchedType, TypeOf
    <2>2. Popularity(m) \in Nat
      BY FS_CardinalityType DEF SearchInv, Popularity
    <2>3. CreatedAt[m] \in Nat /\ m \in Nat
      BY SearchAssumption
    <2>4. ThenBy(q, m) \in Int
      BY <2>1 DEF ThenBy
    <2>5. SortValue(q, m) \in Int
      <3>1. /\ TypeOf(m).price \in Int /\ -TypeOf(m).price \in Int
            /\ -CreatedAt[m] \in Int /\ -Popularity(m) \in Int /\ 0 \in Int
        BY <2>1, <2>2, <2>3
      <3> QED BY <3>1 DEF SortValue
    <2> QED BY <2>3, <2>4, <2>5
  <1>2. \A m \in RoomNumbers : ~Before(q, m, m)
    BY <1>1 DEF Before
  <1>3. \A m, n, o \in RoomNumbers : Before(q, m, n) /\ Before(q, n, o) => Before(q, m, o)
    BY <1>1 DEF Before
  <1>4. \A m, n \in RoomNumbers : m # n => Before(q, m, n) \/ Before(q, n, m)
    BY <1>1 DEF Before
  <1>5. \A x \in S : x = <<x[1], x[2]>> /\ x[1] \in RoomNumbers /\ x[2] \in Nat
    OBVIOUS
  <1>6. \A x, y \in S : <<x, y>> \in PlaceOrder(q) <=> PlaceBefore(q, x, y)
    BY DEF PlaceOrder
  <1>7. \A x \in S : ~PlaceBefore(q, x, x)
    BY <1>2, <1>5 DEF PlaceBefore
  <1>8. ASSUME NEW x \in S, NEW y \in S, NEW z \in S,
               PlaceBefore(q, x, y), PlaceBefore(q, y, z)
        PROVE  PlaceBefore(q, x, z)
    BY <1>3, <1>5, <1>8 DEF PlaceBefore
  <1>9. ASSUME NEW x \in S, NEW y \in S, x # y
        PROVE  PlaceBefore(q, x, y) \/ PlaceBefore(q, y, x)
    <2>1. CASE x[1] # y[1]
      BY <1>4, <1>5, <2>1 DEF PlaceBefore
    <2>2. CASE x[1] = y[1]
      <3>1. x[2] # y[2] /\ x[2] \in Nat /\ y[2] \in Nat
        BY <1>5, <1>9, <2>2
      <3>2. x[2] < y[2] \/ y[2] < x[2]
        BY <3>1
      <3> QED BY <2>2, <3>2 DEF PlaceBefore
    <2> QED BY <2>1, <2>2
  <1>10. Orders(PlaceOrder(q), S)
    BY <1>6, <1>7, <1>8, <1>9 DEF Orders
  <1>11. ASSUME NEW x \in S PROVE Rank(q, x, S) = Cardinality(Ahead(PlaceOrder(q), S, x))
    <2>1. {y \in S : PlaceBefore(q, y, x)} = Ahead(PlaceOrder(q), S, x)
      BY <1>6 DEF Ahead
    <2> QED BY <2>1 DEF Rank
  <1> QED BY <1>10, <1>11

\* Every room has a place, the first one, and no more than it has images.
LEMMA RoomsHavePlaces ==
  ASSUME SearchInv, NEW rows, rows \subseteq RoomNumbers
  PROVE  /\ IsFiniteSet(Places(rows)) /\ Places(rows) \subseteq RoomNumbers \X Nat
         /\ \A m \in rows : <<m, 0>> \in Places(rows)
         /\ \A x \in Places(rows) :
              x = <<x[1], x[2]>> /\ x[1] \in rows /\ (room[x[1]].images <= 1 => x[2] = 0)
  <1> DEFINE last(m) == IF room[m].images = 0 THEN 0 ELSE room[m].images - 1
             places(m) == {m} \X (0 .. last(m))
             All == {places(m) : m \in rows}
  <1>1. ASSUME NEW m \in rows
        PROVE  last(m) \in Nat /\ m \in RoomNumbers /\ (room[m].images <= 1 => last(m) = 0)
    BY DEF SearchInv, SearchTypeOK, SearchedRoom
  <1> HIDE DEF last
  <1>2. Places(rows) = UNION All
    BY DEF Places, last
  <1>3. IsFiniteSet(All)
    <2>1. IsFiniteSet(rows)
      BY SearchAssumption, FS_Subset
    <2>2. [m \in rows |-> places(m)] \in Surjection(rows, All)
      BY DEF Surjection
    <2> QED BY <2>1, <2>2, FS_Surjection
  <1>4. ASSUME NEW m \in rows PROVE IsFiniteSet(places(m))
    <2>1. 0 \in Int /\ last(m) \in Int
      BY <1>1
    <2>2. IsFiniteSet({m}) /\ IsFiniteSet(0 .. last(m))
      BY <2>1, FS_Singleton, FS_Interval
    <2> QED BY <2>2, FS_Product
  <1>5. IsFiniteSet(UNION All)
    BY <1>3, <1>4, FS_UNION
  <1>6. \A x : x \in UNION All <=> \E m \in rows : x \in places(m)
    OBVIOUS
  <1>7. \A m \in rows : <<m, 0>> \in places(m)
    BY <1>1
  <1>8. ASSUME NEW x \in UNION All
        PROVE  /\ x \in RoomNumbers \X Nat /\ x = <<x[1], x[2]>> /\ x[1] \in rows
               /\ room[x[1]].images <= 1 => x[2] = 0
    <2>1. PICK m \in rows : x \in places(m)
      BY <1>6
    <2>2. x[1] = m /\ x[2] \in 0 .. last(m) /\ x = <<x[1], x[2]>>
      BY <2>1
    <2> QED BY <1>1, <2>2
  <1> QED BY <1>2, <1>5, <1>6, <1>7, <1>8

LEMMA QuotientIsSmall ==
  ASSUME NEW k \in Nat, NEW l \in Nat \ {0}
  PROVE  k \div l \in 0 .. k
  OBVIOUS

\* Without filters a search is about what can be booked.
LEMMA UnfilteredMeansBookable ==
  ASSUME NEW q \in Queries, Offering(q), Unfiltered(q), QueryAllowed(q)
  PROVE  Matching(q) = {m \in RoomNumbers : CanBeBooked(m, q.stay, q.guests, today)}
  <1>1. StayAllowed(q.stay, today)
    BY DEF QueryAllowed, Offering
  <1>2. \A m \in RoomNumbers : OfType(m, q) /\ HasAmenities(m, q) /\ Priced(m, q)
    BY DEF Unfiltered, OfType, HasAmenities
  <1> QED BY <1>1, <1>2
    DEF Matching, Offering, Public, Managed, Unbookable, FreeFor, CanBeBooked

\* The places of a page.
Numbered(total, limit, p) == {i \in 1 .. total : (i - 1) \div limit = p - 1}

\* Pages of a search cut the places of its rooms without a gap.
LEMMA PagesCut ==
  ASSUME SearchInv, NEW q \in Queries
  PROVE  LET rows == Matching(q)
             total == Cardinality(Places(rows))
             pages == 1 .. (total + 1)
         IN /\ UNION {Page(q, p) : p \in pages} = rows
            /\ \A p \in pages :
                 /\ IsFiniteSet(PlacesOn(q, p)) /\ PlacesOn(q, p) \subseteq Places(rows)
                 /\ Cardinality(PlacesOn(q, p)) = Cardinality(Numbered(total, q.limit, p))
  <1> DEFINE rows == Matching(q)
             places == Places(rows)
             total == Cardinality(places)
             pages == 1 .. (total + 1)
             order == PlaceOrder(q)
             rank(x) == Cardinality(Ahead(order, places, x))
             Spots(p) == {k \in 0 .. total - 1 : k \div q.limit = p - 1}
  <1>1. rows \subseteq RoomNumbers /\ q.limit \in Nat \ {0}
    BY QueriesAssumption DEF Matching
  <1>2. /\ IsFiniteSet(places) /\ places \subseteq RoomNumbers \X Nat /\ total \in Nat
        /\ \A m \in rows : <<m, 0>> \in places
        /\ \A x \in places : x[1] \in rows
    BY <1>1, RoomsHavePlaces, FS_CardinalityType
  <1>3. Orders(order, places) /\ \A x \in places : Rank(q, x, places) = rank(x)
    BY <1>2, PlacesAreOrdered
  <1>4. \A x \in places : rank(x) \in 0 .. total - 1
    <2>1. Position(order, places) \in Bijection(places, 0 .. total - 1)
      BY <1>2, <1>3, PlacesFill
    <2> QED BY <2>1 DEF Bijection, Injection, Position
  <1>5. \A p : PlacesOn(q, p) = {x \in places : rank(x) \div q.limit = p - 1}
    BY <1>3 DEF PlacesOn
  <1> HIDE DEF rows, places
  <1>6. UNION {Page(q, p) : p \in pages} = rows
    <2>1. ASSUME NEW m \in rows PROVE \E p \in pages : m \in Page(q, p)
      <3> DEFINE x == <<m, 0>>
      <3>1. x \in places /\ x[1] = m
        BY <1>2
      <3>2. rank(x) \in Nat /\ rank(x) < total
        BY <1>2, <1>4, <3>1
      <3>3. rank(x) \div q.limit \in 0 .. rank(x)
        BY <1>1, <3>2, QuotientIsSmall
      <3> DEFINE p == (rank(x) \div q.limit) + 1
      <3>4. p \in pages /\ p - 1 = rank(x) \div q.limit
        BY <1>2, <3>2, <3>3
      <3>5. x \in PlacesOn(q, p)
        BY <1>5, <3>1, <3>4
      <3> HIDE DEF x, p
      <3> QED BY <3>1, <3>4, <3>5 DEF Page
    <2>2. \A p : Page(q, p) \subseteq rows
      BY <1>2, <1>5 DEF Page
    <2> QED BY <2>1, <2>2
  <1>7. ASSUME NEW p \in pages
        PROVE  /\ IsFiniteSet(PlacesOn(q, p)) /\ PlacesOn(q, p) \subseteq places
               /\ Cardinality(PlacesOn(q, p)) = Cardinality(Numbered(total, q.limit, p))
    <2> DEFINE Numbers == Numbered(total, q.limit, p)
               f == [k \in Spots(p) |-> k + 1]
    <2>1. Spots(p) \subseteq 0 .. total - 1
      OBVIOUS
    <2>2. IsFiniteSet(Spots(p)) /\ Cardinality(OnPlaces(order, places, Spots(p))) = Cardinality(Spots(p))
      BY ZenonT(40), <1>2, <1>3, <2>1, RangeIsFull
    <2>3. PlacesOn(q, p) = OnPlaces(order, places, Spots(p))
      BY <1>4, <1>5 DEF OnPlaces
    <2>4. f \in [Spots(p) -> Numbers]
      <3>1. ASSUME NEW k \in Spots(p) PROVE k + 1 \in Numbers
        <4>1. k \in 0 .. total - 1 /\ k \div q.limit = p - 1
          OBVIOUS
        <4>2. k + 1 \in 1 .. total /\ (k + 1) - 1 = k
          BY <1>2, <4>1
        <4> QED BY <4>1, <4>2 DEF Numbered
      <3> QED BY <3>1
    <2>5. \A j, k \in Spots(p) : f[j] = f[k] => j = k
      BY <1>2
    <2>6. \A i \in Numbers : \E k \in Spots(p) : f[k] = i
      <3> SUFFICES ASSUME NEW i \in Numbers PROVE \E k \in Spots(p) : f[k] = i
        OBVIOUS
      <3>1. i - 1 \in 0 .. total - 1 /\ (i - 1) + 1 = i
        BY <1>2 DEF Numbered
      <3>2. i - 1 \in Spots(p)
        BY <3>1 DEF Numbered
      <3> QED BY <3>1, <3>2
    <2>7. f \in Bijection(Spots(p), Numbers)
      BY <2>4, <2>5, <2>6 DEF Bijection, Injection, IsInjective, Surjection
    <2>8. PlacesOn(q, p) \subseteq places /\ IsFiniteSet(PlacesOn(q, p))
      BY <1>2, <1>5, FS_Subset
    <2> QED BY <2>2, <2>3, <2>7, <2>8, FS_Bijection DEF ExistsBijection
  <1> QED BY <1>6, <1>7 DEF rows, places

\* The rooms of a page are none where it has no places, and as many as it has
\* places where no room has more than one.
LEMMA RoomsOfPlaces ==
  ASSUME SearchInv, NEW q \in Queries, NEW p, NEW rows, rows \subseteq RoomNumbers,
         IsFiniteSet(PlacesOn(q, p)), PlacesOn(q, p) \subseteq Places(rows)
  PROVE  /\ Page(q, p) = {} <=> Cardinality(PlacesOn(q, p)) = 0
         /\ (\A m \in rows : room[m].images <= 1) =>
              Cardinality(Page(q, p)) = Cardinality(PlacesOn(q, p))
  <1>1. Page(q, p) = {} <=> Cardinality(PlacesOn(q, p)) = 0
    BY FS_EmptySet DEF Page
  <1>2. ASSUME \A m \in rows : room[m].images <= 1
        PROVE  Cardinality(Page(q, p)) = Cardinality(PlacesOn(q, p))
    <2> DEFINE f == [x \in PlacesOn(q, p) |-> x[1]]
    <2>1. \A x \in PlacesOn(q, p) : x = <<x[1], 0>>
      BY <1>2, RoomsHavePlaces
    <2>2. f \in Bijection(PlacesOn(q, p), Page(q, p))
      BY <2>1 DEF Page, Bijection, Injection, IsInjective, Surjection
    <2> QED BY <2>2, FS_Bijection DEF ExistsBijection
  <1> QED BY <1>1, <1>2

\* PagesHoldWhatCanBeBooked: the pages of a search without filters hold exactly
\* what can be booked, none of them is empty before all of it was shown, and where
\* no room has two images each room is on one page and each page is full.
THEOREM PagesAlwaysHoldWhatCanBeBooked == SearchSpec => []PagesHoldWhatCanBeBooked
  <1>1. SearchInv => PagesHoldWhatCanBeBooked
    <2> SUFFICES ASSUME SearchInv, NEW q \in Queries,
                        Offering(q), Unfiltered(q), QueryAllowed(q)
                 PROVE  LET bookable == {m \in RoomNumbers : CanBeBooked(m, q.stay, q.guests, today)}
                            total == Cardinality(Places(bookable))
                            expected(p) == Cardinality({i \in 1 .. total : (i - 1) \div q.limit = p - 1})
                            pages == 1 .. (total + 1)
                        IN /\ UNION {Page(q, p) : p \in pages} = bookable
                           /\ \A p \in pages :
                                /\ Page(q, p) = {} <=> expected(p) = 0
                                /\ (\A m \in bookable : room[m].images <= 1) =>
                                     Cardinality(Page(q, p)) = expected(p)
      BY DEF PagesHoldWhatCanBeBooked
    <2> DEFINE rows == Matching(q)
               pages == 1 .. (Cardinality(Places(rows)) + 1)
               expected(p) == Cardinality(Numbered(Cardinality(Places(rows)), q.limit, p))
    <2>1. rows = {m \in RoomNumbers : CanBeBooked(m, q.stay, q.guests, today)}
      BY UnfilteredMeansBookable
    <2>2. /\ UNION {Page(q, p) : p \in pages} = rows
          /\ \A p \in pages :
               /\ IsFiniteSet(PlacesOn(q, p)) /\ PlacesOn(q, p) \subseteq Places(rows)
               /\ Cardinality(PlacesOn(q, p)) = expected(p)
      BY PagesCut
    <2>3. rows \subseteq RoomNumbers
      BY DEF Matching
    <2>4. ASSUME NEW p \in pages
          PROVE  /\ Page(q, p) = {} <=> expected(p) = 0
                 /\ (\A m \in rows : room[m].images <= 1) => Cardinality(Page(q, p)) = expected(p)
      <3>1. /\ IsFiniteSet(PlacesOn(q, p)) /\ PlacesOn(q, p) \subseteq Places(rows)
            /\ Cardinality(PlacesOn(q, p)) = expected(p)
        BY <2>2
      <3> HIDE DEF rows, pages, expected
      <3> QED BY <2>3, <3>1, RoomsOfPlaces
    <2> HIDE DEF rows
    <2> QED BY <2>1, <2>2, <2>4 DEF Numbered
  <1> QED BY <1>1, SearchAlways, PTL

-----------------------------------------------------------------------------
(* Lists.  What a walk has not seen yet stands behind the pages it has read *)
(* for as long as no row leaves and none takes fewer places, because rows   *)
(* that come, move or grow only push others back.                           *)

ById == [x \in ListRows |-> x]

\* The first place of a row, and how many places of its list come before it.
FirstPlace(x) == <<x, 1>>

BeforeRow(q, x) == {o \in PagedPlaces(q) : PlacePrecedes(q, ById, o, FirstPlace(x))}

StandsAt(q, x) == Cardinality(BeforeRow(q, x))

Walks ==
  [query : ListQueries, page : Nat, over : BOOLEAN, seen : SUBSET ListRows, began : SUBSET ListRows,
   moved : SUBSET ListRows, left : BOOLEAN, vain : SUBSET ListRows]

\* A walk of which something is promised.
IsRegular ==
  /\ walk.page > 0 /\ ~walk.left /\ OrderIsTotal(walk.query)
  /\ walk.query.list \in {"amenities", "roomTypes"} => walk.moved = {}

\* The walk has seen x, or x is still to come.
SeenOrAhead(q, x) ==
  x \in walk.seen \/ (~walk.over /\ StandsAt(q, x) >= walk.page * q.limit)

ListInv ==
  /\ ListingsTypeOK /\ IsFiniteSet(present) /\ walk \in Walks
  /\ walk.page = 0 => walk.seen = {} /\ ~walk.over
  /\ walk.page > 0 /\ ~walk.left =>
       walk.seen \subseteq Members(walk.query) /\ walk.began \subseteq Members(walk.query)
  /\ walk.vain # {} => walk.left /\ walk.page > 0
  /\ IsRegular => \A x \in walk.began \ walk.moved : SeenOrAhead(walk.query, x)

LEMMA MembersArePresent ==
  ASSUME NEW q \in ListQueries
  PROVE  Members(q) \subseteq present /\ (Members(q))' \subseteq present'
  BY ListingsAssumption DEF ListQuery, ListNames, Members, ListForCustomer, ListManagement, ListOfBooking,
     ListAllManagement, ListAccounts, FindList, AccessibleConversations, OfStatus, Belonging, NotDeleted

\* What a list shows, its detail shows.
LEMMA MembersCanBeOpened ==
  ASSUME NEW q \in ListQueries
  PROVE  Members(q) \subseteq Openable(q)
  BY ListingsAssumption DEF ListQuery, ListNames, Members, ListForCustomer, ListManagement, ListOfBooking,
     ListAllManagement, ListAccounts, FindList, AccessibleConversations, OfStatus, Belonging, NotDeleted,
     Openable, GetForCustomer, GetManagementPayment, FindOne

\* Rows with as many places as w gives them.
Pairs(S, w) == UNION {{x} \X (1 .. w[x]) : x \in S}

LEMMA PairsOfRows ==
  ASSUME NEW S, IsFiniteSet(S), S \subseteq ListRows, NEW w \in [ListRows -> Nat \ {0}]
  PROVE  /\ IsFiniteSet(Pairs(S, w)) /\ Pairs(S, w) \subseteq S \X (Nat \ {0})
         /\ \A x \in S : <<x, 1>> \in Pairs(S, w)
         /\ \A x, n : <<x, n>> \in Pairs(S, w) <=> x \in S /\ n \in 1 .. w[x]
  <1> DEFINE places(x) == {x} \X (1 .. w[x])
             All == {places(x) : x \in S}
  <1>1. Pairs(S, w) = UNION All
    BY DEF Pairs
  <1>2. \A x \in S : w[x] \in Nat \ {0}
    OBVIOUS
  <1>3. IsFiniteSet(All)
    <2>1. [x \in S |-> places(x)] \in Surjection(S, All)
      BY DEF Surjection
    <2> QED BY <2>1, FS_Surjection
  <1>4. ASSUME NEW x \in S PROVE IsFiniteSet(places(x))
    <2>1. 1 \in Int /\ w[x] \in Int
      BY <1>2
    <2>2. IsFiniteSet({x}) /\ IsFiniteSet(1 .. w[x])
      BY <2>1, FS_Singleton, FS_Interval
    <2> QED BY <2>2, FS_Product
  <1>5. IsFiniteSet(UNION All)
    BY <1>3, <1>4, FS_UNION
  <1>6. \A o : o \in UNION All <=> \E x \in S : o \in places(x)
    OBVIOUS
  <1>7. \A x, n : <<x, n>> \in UNION All <=> x \in S /\ n \in 1 .. w[x]
    BY <1>6
  <1>8. UNION All \subseteq S \X (Nat \ {0})
    <2> SUFFICES ASSUME NEW o \in UNION All PROVE o \in S \X (Nat \ {0})
      OBVIOUS
    <2>1. PICK x \in S : o \in places(x)
      BY <1>6
    <2>2. o[1] = x /\ o[2] \in 1 .. w[x] /\ o = <<o[1], o[2]>>
      BY <2>1
    <2> QED BY <1>2, <2>2
  <1>9. \A x \in S : <<x, 1>> \in UNION All
    BY <1>2, <1>7
  <1> QED BY <1>1, <1>5, <1>7, <1>8, <1>9

\* How many places each row takes in a list.
Wide(q) == [x \in ListRows |-> IF TakesPlaces(q) THEN width[x] ELSE 1]

LEMMA PlacesArePairs ==
  ASSUME NEW q \in ListQueries, present \subseteq ListRows, present' \subseteq ListRows
  PROVE  PagedPlaces(q) = Pairs(Members(q), Wide(q)) /\ PagedPlaces(q)' = Pairs((Members(q))', Wide(q)')
  <1>1. 1 .. 1 = {1}
    OBVIOUS
  <1>2. Members(q) \subseteq ListRows /\ (Members(q))' \subseteq ListRows
    BY MembersArePresent
  <1>3. \A x \in Members(q) : PlacesOf(q, x) = 1 .. Wide(q)[x]
    BY <1>1, <1>2 DEF PlacesOf, Wide
  <1>4. \A x \in (Members(q))' : PlacesOf(q, x)' = 1 .. (Wide(q)')[x]
    BY <1>1, <1>2 DEF PlacesOf, Wide, TakesPlaces
  <1>5. PagedPlaces(q) = Pairs(Members(q), Wide(q))
    BY <1>3 DEF PagedPlaces, Pairs
  <1>6. PagedPlaces(q)' = Pairs((Members(q))', Wide(q)')
    BY <1>4 DEF PagedPlaces, Pairs
  <1> QED BY <1>5, <1>6

\* The order of a list, as pairs.
ListPlaces == ListRows \X (Nat \ {0})
ListOrder(q) == {p \in ListPlaces \X ListPlaces : PlacePrecedes(q, ById, p[1], p[2])}

LEMMA RowsAreOrdered ==
  ASSUME place \in [ListRows -> Nat], NEW q, NEW S, S \subseteq ListPlaces
  PROVE  /\ Orders(ListOrder(q), S)
         /\ \A x \in S : Ahead(ListOrder(q), S, x) = {y \in S : PlacePrecedes(q, ById, y, x)}
  <1>1. \A x \in ListRows : x \in Int /\ place[x] \in Int /\ ById[x] = x
    BY ListingsAssumption DEF ById
  <1>2. \A x, y \in ListPlaces : <<x, y>> \in ListOrder(q) <=> PlacePrecedes(q, ById, x, y)
    BY DEF ListOrder
  <1>3. \A x \in ListRows : ~Precedes(q, ById, x, x)
    BY <1>1 DEF Precedes
  <1>4. \A x, y, z \in ListRows :
          Precedes(q, ById, x, y) /\ Precedes(q, ById, y, z) => Precedes(q, ById, x, z)
    BY <1>1 DEF Precedes
  <1>5. \A x, y \in ListRows : x # y => Precedes(q, ById, x, y) \/ Precedes(q, ById, y, x)
    BY <1>1 DEF Precedes
  <1>6. \A x \in S : x \in ListPlaces /\ x = <<x[1], x[2]>> /\ x[1] \in ListRows /\ x[2] \in Nat
    BY DEF ListPlaces
  <1>7. \A x \in S : <<x, x>> \notin ListOrder(q)
    BY <1>2, <1>3, <1>6 DEF PlacePrecedes
  <1>8. ASSUME NEW x \in S, NEW y \in S, NEW z \in S,
               PlacePrecedes(q, ById, x, y), PlacePrecedes(q, ById, y, z)
        PROVE  PlacePrecedes(q, ById, x, z)
    BY <1>4, <1>6, <1>8 DEF PlacePrecedes
  <1>9. ASSUME NEW x \in S, NEW y \in S, x # y
        PROVE  PlacePrecedes(q, ById, x, y) \/ PlacePrecedes(q, ById, y, x)
    <2>1. CASE x[1] # y[1]
      BY <1>5, <1>6, <2>1 DEF PlacePrecedes
    <2>2. CASE x[1] = y[1]
      <3>1. x[2] # y[2] /\ x[2] \in Nat /\ y[2] \in Nat
        BY <1>6, <1>9, <2>2
      <3>2. x[2] < y[2] \/ y[2] < x[2]
        BY <3>1
      <3> QED BY <2>2, <3>2 DEF PlacePrecedes
    <2> QED BY <2>1, <2>2
  <1>10. Orders(ListOrder(q), S)
    BY <1>2, <1>6, <1>7, <1>8, <1>9 DEF Orders
  <1> QED BY <1>2, <1>6, <1>10 DEF Ahead

\* The places of a list; where every row takes one, it is the first.
LEMMA RowsHavePlaces ==
  ASSUME ListInv, NEW q \in ListQueries
  PROVE  /\ IsFiniteSet(PagedPlaces(q)) /\ PagedPlaces(q) \subseteq ListPlaces
         /\ \A x \in Members(q) : FirstPlace(x) \in PagedPlaces(q)
         /\ \A p \in PagedPlaces(q) :
              p = <<p[1], p[2]>> /\ p[1] \in Members(q) /\ (~TakesPlaces(q) => p = FirstPlace(p[1]))
  <1>1. /\ Members(q) \subseteq ListRows /\ IsFiniteSet(Members(q)) /\ present \subseteq ListRows
        /\ width \in [ListRows -> Nat \ {0}]
    <2>1. Members(q) \subseteq present /\ IsFiniteSet(present) /\ present \subseteq ListRows
      BY MembersArePresent DEF ListInv, ListingsTypeOK
    <2>2. width \in [ListRows -> Nat \ {0}]
      BY ListingsAssumption DEF ListInv, ListingsTypeOK
    <2> QED BY <2>1, <2>2, FS_Subset
  <1>2. Wide(q) \in [ListRows -> Nat \ {0}]
    BY <1>1 DEF Wide
  <1>3. PagedPlaces(q) = Pairs(Members(q), Wide(q))
    <2>1. 1 .. 1 = {1}
      OBVIOUS
    <2>2. \A x \in Members(q) : PlacesOf(q, x) = 1 .. Wide(q)[x]
      BY <1>1, <2>1 DEF PlacesOf, Wide
    <2> QED BY <2>2 DEF PagedPlaces, Pairs
  <1>4. /\ IsFiniteSet(PagedPlaces(q)) /\ PagedPlaces(q) \subseteq Members(q) \X (Nat \ {0})
        /\ \A x \in Members(q) : <<x, 1>> \in PagedPlaces(q)
        /\ \A x, n : <<x, n>> \in PagedPlaces(q) <=> x \in Members(q) /\ n \in 1 .. Wide(q)[x]
    BY <1>1, <1>2, <1>3, PairsOfRows
  <1>5. ASSUME NEW p \in PagedPlaces(q), ~TakesPlaces(q) PROVE p = FirstPlace(p[1])
    <2>1. p = <<p[1], p[2]>> /\ p[1] \in Members(q)
      BY <1>4
    <2>2. p[2] \in 1 .. Wide(q)[p[1]] /\ Wide(q)[p[1]] = 1
      BY <1>1, <1>4, <1>5, <2>1 DEF Wide
    <2>3. p[2] = 1
      BY <2>2
    <2> QED BY <2>1, <2>3 DEF FirstPlace
  <1>6. \A p \in PagedPlaces(q) : p = <<p[1], p[2]>> /\ p[1] \in Members(q)
    BY <1>4
  <1>7. PagedPlaces(q) \subseteq ListPlaces
    BY <1>1, <1>4 DEF ListPlaces
  <1>8. \A x \in Members(q) : FirstPlace(x) \in PagedPlaces(q)
    BY <1>4 DEF FirstPlace
  <1> QED BY <1>4, <1>5, <1>6, <1>7, <1>8

\* What a change of the rows does to the walk.
WalkNotes(q, moved) ==
  /\ walk.query = q /\ walk'.query = q /\ walk' \in Walks
  /\ walk'.page = walk.page /\ walk'.over = walk.over /\ walk'.seen = walk.seen
  /\ walk'.began = walk.began /\ walk'.vain = walk.vain
  /\ walk'.moved = walk.moved \cup moved
  /\ walk'.left <=> walk.left \/ Members(q) \ (Members(q))' # {}

\* A row only moves towards the start of its list, and keeps the places it has.
NobodyFallsBack(q, moved) ==
  \A x \in present \ moved, y \in Members(q) :
    Precedes(q, ById, y, x) => Precedes(q, ById, y, x)' /\ PlacesOf(q, y) \subseteq PlacesOf(q, y)'

LEMMA RowsPushBack ==
  ASSUME ListInv, NEW q \in ListQueries, NEW moved \in SUBSET ListRows, WalkNotes(q, moved),
         ListingsTypeOK', IsFiniteSet(present'),
         (q.list \in {"amenities", "roomTypes"} /\ moved # {}) \/ NobodyFallsBack(q, moved)
  PROVE  ListInv'
  <1>1. (Members(q))' \subseteq present' /\ IsFiniteSet((Members(q))') /\ present' \subseteq ListRows
    BY MembersArePresent, FS_Subset DEF ListingsTypeOK
  <1>2. ASSUME walk'.page > 0, ~walk'.left
        PROVE  /\ walk'.seen \subseteq (Members(q))' /\ walk'.began \subseteq (Members(q))'
               /\ Members(q) \subseteq (Members(q))'
    BY <1>2 DEF ListInv, WalkNotes
  <1>3. ASSUME IsRegular', NEW x \in walk'.began \ walk'.moved PROVE SeenOrAhead(q, x)'
    <2>1. IsRegular /\ x \in walk.began \ walk.moved /\ SeenOrAhead(q, x) /\ x \notin moved
      BY <1>3 DEF IsRegular, WalkNotes, ListInv
    <2>2. NobodyFallsBack(q, moved)
      BY <1>3 DEF IsRegular, WalkNotes
    <2>3. x \in present /\ Members(q) \subseteq (Members(q))'
      BY <1>2, <1>3, <2>1 DEF ListInv, ListingsTypeOK, IsRegular
    <2> DEFINE before == BeforeRow(q, x)
               after == BeforeRow(q, x)'
    <2>4. before \in SUBSET after /\ after \in SUBSET PagedPlaces(q)'
      <3>1. ASSUME NEW o \in before PROVE o \in after
        <4>1. o \in PagedPlaces(q) /\ PlacePrecedes(q, ById, o, FirstPlace(x))
          BY <3>1 DEF BeforeRow
        <4>2. o = <<o[1], o[2]>> /\ o[1] \in Members(q) /\ o[2] \in Nat \ {0} /\ o[2] \in PlacesOf(q, o[1])
          <5>1. o[1] \in Members(q) /\ o = <<o[1], o[2]>> /\ o \in ListPlaces
            BY <4>1, RowsHavePlaces
          <5>2. o[2] \in PlacesOf(q, o[1])
            BY <4>1, <5>1 DEF PagedPlaces
          <5> QED BY <5>1, <5>2 DEF ListPlaces
        <4>3. Precedes(q, ById, o[1], x)
          BY <4>1, <4>2 DEF PlacePrecedes, FirstPlace
        <4>4. Precedes(q, ById, o[1], x)' /\ o[2] \in PlacesOf(q, o[1])' /\ o[1] \in (Members(q))'
          BY <2>1, <2>2, <2>3, <4>2, <4>3 DEF NobodyFallsBack
        <4>5. o \in PagedPlaces(q)'
          BY <4>2, <4>4 DEF PagedPlaces
        <4>6. PlacePrecedes(q, ById, o, FirstPlace(x))'
          BY <4>4 DEF PlacePrecedes, FirstPlace
        <4> QED BY <4>5, <4>6 DEF BeforeRow
      <3> QED BY <3>1 DEF BeforeRow
    <2>5. IsFiniteSet(after)
      <3>1. present \subseteq ListRows /\ Wide(q)' \in [ListRows -> Nat \ {0}]
        <4>1. present \subseteq ListRows /\ width' \in [ListRows -> Nat \ {0}]
          BY ListingsAssumption DEF ListInv, ListingsTypeOK
        <4>2. Wide(q)' = [y \in ListRows |-> IF TakesPlaces(q) THEN width'[y] ELSE 1]
          BY DEF Wide, TakesPlaces
        <4>3. \A y \in ListRows : (IF TakesPlaces(q) THEN width'[y] ELSE 1) \in Nat \ {0}
          BY <4>1
        <4> QED BY <4>1, <4>2, <4>3
      <3>2. PagedPlaces(q)' = Pairs((Members(q))', Wide(q)')
        BY <1>1, <3>1, PlacesArePairs
      <3>3. IsFiniteSet(Pairs((Members(q))', Wide(q)'))
        BY <1>1, <3>1, PairsOfRows
      <3> QED BY <2>4, <3>2, <3>3, FS_Subset
    <2>6. IsFiniteSet(before) /\ Cardinality(before) <= Cardinality(after)
      BY <2>4, <2>5, FS_Subset
    <2>7. Cardinality(before) \in Nat /\ Cardinality(after) \in Nat
      BY <2>5, <2>6, FS_CardinalityType
    <2>8. StandsAt(q, x) = Cardinality(before) /\ StandsAt(q, x)' = Cardinality(after)
      BY DEF StandsAt
    <2>9. walk.page * q.limit \in Nat
      BY ListingsAssumption DEF ListInv, Walks, ListQuery
    <2>10. StandsAt(q, x) >= walk.page * q.limit => StandsAt(q, x)' >= walk.page * q.limit
      BY <2>6, <2>7, <2>8, <2>9
    <2> QED BY <2>1, <2>10 DEF SeenOrAhead, WalkNotes
  <1>4. walk'.vain # {} => walk'.left /\ walk'.page > 0
    BY DEF ListInv, WalkNotes
  <1>5. walk'.page = 0 => walk'.seen = {} /\ ~walk'.over
    BY DEF ListInv, WalkNotes
  <1>6. walk'.query = q /\ walk' \in Walks
    BY DEF WalkNotes
  <1> QED BY <1>2, <1>3, <1>4, <1>5, <1>6 DEF ListInv

LEMMA NotedMeans ==
  ASSUME ListInv, NEW moved \in SUBSET ListRows, Noted(moved)
  PROVE  WalkNotes(walk.query, moved)
  <1>1. PICK q \in {walk.query} :
          walk' = [walk EXCEPT !.moved = @ \cup moved, !.left = @ \/ Members(q) \ (Members(q))' # {}]
    BY DEF Noted
  <1>2. q = walk.query /\ q \in ListQueries /\ walk \in Walks
    BY DEF ListInv, Walks
  <1>3. WalkNotes(q, moved)
    <2> DEFINE gap == Members(q) \ (Members(q))' # {}
    <2>0. gap \in BOOLEAN
      OBVIOUS
    <2> HIDE DEF gap
    <2>1. walk' = [walk EXCEPT !.moved = walk.moved \cup moved, !.left = walk.left \/ gap]
      BY <1>1 DEF gap
    <2>2. walk' \in Walks
      BY <1>2, <2>0, <2>1 DEF Walks
    <2>3. walk'.left <=> walk.left \/ gap
      BY <1>2, <2>0, <2>1 DEF Walks
    <2>4. /\ walk'.query = q /\ walk'.page = walk.page /\ walk'.over = walk.over
          /\ walk'.seen = walk.seen /\ walk'.began = walk.began /\ walk'.vain = walk.vain
          /\ walk'.moved = walk.moved \cup moved
      BY <1>2, <2>1 DEF Walks
    <2> QED BY <1>2, <2>2, <2>3, <2>4 DEF WalkNotes, gap
  <1> QED BY <1>2, <1>3

\* Where no row moves, the order stays.
LEMMA PlacesStay ==
  ASSUME NEW q, place' = place, width' = width
  PROVE  NobodyFallsBack(q, {})
  BY DEF NobodyFallsBack, Precedes, PlacesOf

LEMMA InsertionKeeps ==
  ASSUME ListInv, NEW x \in ListRows, InsertRow(x)
  PROVE  ListInv'
  <1> DEFINE q == walk.query
  <1>1. q \in ListQueries /\ walk \in Walks /\ walk.left \in BOOLEAN /\ walk.moved \cup {} = walk.moved
    BY DEF ListInv, Walks
  <1>2. PICK p \in ListQueries : p = walk.query
    BY <1>1
  <1>3. Members(p) \subseteq (Members(p))'
    BY <1>2, ListingsAssumption DEF InsertRow, ListQuery, ListNames, Members, ListForCustomer,
       ListManagement, ListOfBooking, ListAllManagement, ListAccounts, FindList,
       AccessibleConversations, OfStatus, Belonging, NotDeleted
  <1>4. WalkNotes(p, {})
    BY <1>1, <1>2, <1>3 DEF InsertRow, WalkNotes
  <1>5. ListingsTypeOK'
    BY DEF InsertRow, ListInv, ListingsTypeOK
  <1>6. IsFiniteSet(present')
    BY FS_AddElement DEF InsertRow, ListInv
  <1>7. NobodyFallsBack(p, {})
    BY PlacesStay DEF InsertRow
  <1>8. {} \in SUBSET ListRows
    OBVIOUS
  <1> QED BY <1>4, <1>5, <1>6, <1>7, <1>8, RowsPushBack

LEMMA EditKeeps ==
  ASSUME ListInv, NEW x \in ListRows, ChangeStatus(x) \/ SoftDelete(x) \/ Restore(x)
  PROVE  ListInv'
  <1>1. PICK p \in ListQueries : p = walk.query
    BY DEF ListInv, Walks
  <1>2. {} \in SUBSET ListRows /\ Noted({})
    BY DEF ChangeStatus, SoftDelete, Restore
  <1>3. WalkNotes(p, {})
    BY <1>1, <1>2, NotedMeans
  <1>4. Event /\ present' = present /\ place' = place /\ width' = width
    BY DEF ChangeStatus, SoftDelete, Restore
  <1>5. events' \in 0 .. MaxEvents
    BY <1>4, ListingsAssumption DEF Event, ListInv, ListingsTypeOK
  <1>6. gone' \subseteq present /\ status' \in [ListRows -> {"old", "new"}]
    BY DEF ChangeStatus, SoftDelete, Restore, NotDeleted, ListInv, ListingsTypeOK
  <1>7. ListingsTypeOK'
    BY <1>3, <1>4, <1>5, <1>6 DEF ListInv, ListingsTypeOK, WalkNotes
  <1>8. IsFiniteSet(present') /\ NobodyFallsBack(p, {})
    BY <1>4, PlacesStay DEF ListInv
  <1> QED BY <1>2, <1>3, <1>7, <1>8, RowsPushBack

\* The rows, with the latest first.
IsLater(x, y) == place[x] > place[y] \/ (place[x] = place[y] /\ x > y)
LatestFirst == {p \in ListRows \X ListRows : IsLater(p[1], p[2])}

\* Of the rows there are, some is the latest.
LEMMA LatestExists ==
  ASSUME ListInv, present # {}
  PROVE  \E t \in {place[y] : y \in present} : \A y \in present : place[y] <= t
  <1> DEFINE order == LatestFirst
  <1>1. /\ IsFiniteSet(present) /\ present \subseteq ListRows
        /\ \A x \in ListRows : x \in Int /\ place[x] \in Int
    BY ListingsAssumption DEF ListInv, ListingsTypeOK
  <1>2. \A x, y \in ListRows :
          <<x, y>> \in order <=> place[x] > place[y] \/ (place[x] = place[y] /\ x > y)
    <2>1. \A x, y \in ListRows : <<x, y>> \in order <=> IsLater(x, y)
      BY DEF LatestFirst
    <2> QED BY <2>1 DEF IsLater
  <1> HIDE DEF order
  <1>3. Orders(order, present)
    <2>1. \A x \in present : <<x, x>> \notin order
      BY <1>1, <1>2
    <2>2. \A x, y, z \in present : <<x, y>> \in order /\ <<y, z>> \in order => <<x, z>> \in order
      BY <1>1, <1>2
    <2>3. \A x, y \in present : x # y => <<x, y>> \in order \/ <<y, x>> \in order
      BY <1>1, <1>2
    <2> QED BY <2>1, <2>2, <2>3 DEF Orders
  <1>4. /\ Cardinality(present) \in Nat
        /\ Position(order, present) \in Bijection(present, 0 .. Cardinality(present) - 1)
    BY <1>1, <1>3, PlacesFill
  <1>5. Cardinality(present) # 0
    BY <1>1, FS_EmptySet
  <1>6. PICK x \in present : Position(order, present)[x] = 0
    BY <1>4, <1>5 DEF Bijection, Surjection
  <1>7. Cardinality(Ahead(order, present, x)) = 0
    BY <1>6 DEF Position
  <1>8. Ahead(order, present, x) = {}
    <2>1. IsFiniteSet(Ahead(order, present, x))
      BY <1>1, FS_Subset DEF Ahead
    <2> QED BY <1>7, <2>1, FS_EmptySet
  <1>9. ASSUME NEW y \in present PROVE place[y] <= place[x]
    <2>1. <<y, x>> \notin order
      BY <1>8 DEF Ahead
    <2> QED BY <1>1, <1>2, <2>1
  <1> QED BY <1>9

LEMMA MoveKeeps ==
  ASSUME ListInv, NEW x \in ListRows, Move(x)
  PROVE  ListInv'
  <1> DEFINE IsLatest(t) == t \in {place[y] : y \in present} /\ \A y \in present : place[y] <= t
  <1>1. PICK p \in ListQueries : p = walk.query
    BY DEF ListInv, Walks
  <1>2. {x} \in SUBSET ListRows /\ Noted({x})
    BY DEF Move
  <1>3. WalkNotes(p, {x})
    BY <1>1, <1>2, NotedMeans
  <1>4. Event /\ present' = present /\ gone' = gone /\ status' = status /\ width' = width /\ x \in present
    BY DEF Move
  <1>5. events' \in 0 .. MaxEvents
    BY <1>4, ListingsAssumption DEF Event, ListInv, ListingsTypeOK
  <1>6. PICK latest : IsLatest(latest) /\ \E t \in {latest, latest + 1} : place' = [place EXCEPT ![x] = t]
    <2> DEFINE latest == CHOOSE t \in {place[y] : y \in present} : \A y \in present : place[y] <= t
    <2>1. \E t \in {place[y] : y \in present} : \A y \in present : place[y] <= t
      BY <1>4, LatestExists
    <2>2. IsLatest(latest)
      BY <2>1
    <2>3. \E t \in {latest, latest + 1} : place' = [place EXCEPT ![x] = t]
      BY DEF Move
    <2> QED BY <2>2, <2>3
  <1>7. place \in [ListRows -> Nat] /\ latest \in Nat /\ present \subseteq ListRows
    BY <1>6 DEF ListInv, ListingsTypeOK
  <1>8. /\ place' \in [ListRows -> Nat] /\ \A y \in ListRows \ {x} : place'[y] = place[y]
        /\ place'[x] \in Nat /\ place'[x] >= latest
    BY <1>4, <1>6, <1>7
  <1>9. ListingsTypeOK'
    BY <1>3, <1>4, <1>5, <1>8 DEF ListInv, ListingsTypeOK, WalkNotes
  <1>10. CASE p.list = "amenities"
    BY <1>2, <1>3, <1>4, <1>9, <1>10, RowsPushBack DEF ListInv
  <1>11. CASE p.list # "amenities"
    <2>1. ASSUME NEW z \in present \ {x}, NEW y \in Members(p), Precedes(p, ById, y, z)
          PROVE  Precedes(p, ById, y, z)'
      <3>1. y \in ListRows /\ y \in Int /\ z \in Int /\ ById[y] = y /\ ById[z] = z /\ z \in ListRows
        <4>1. y \in present
          BY MembersArePresent
        <4>2. y \in ListRows /\ z \in ListRows
          BY <1>7, <4>1
        <4> QED BY <4>2, ListingsAssumption DEF ById
      <3>2. place[y] > place[z] \/ (place[y] = place[z] /\ y > z)
        BY <1>11, <2>1, <3>1 DEF Precedes
      <3>3. place'[z] = place[z] /\ place[z] \in Nat /\ place[y] \in Nat /\ place[z] <= latest
        BY <1>6, <1>7, <1>8, <3>1
      <3>4. CASE y # x
        BY <1>8, <1>11, <3>1, <3>2, <3>3, <3>4 DEF Precedes
      <3>5. CASE y = x
        <4>1. place[y] <= latest
          BY <1>4, <1>6, <3>5
        <4>2. place'[y] >= place[y] /\ place'[y] \in Nat
          BY <1>7, <1>8, <3>3, <3>5, <4>1
        <4>3. place'[y] > place'[z] \/ (place'[y] = place'[z] /\ y > z)
          BY <3>2, <3>3, <4>2
        <4> QED BY <1>11, <3>1, <4>3 DEF Precedes
      <3> QED BY <3>4, <3>5
    <2>2. NobodyFallsBack(p, {x})
      BY <1>4, <2>1 DEF NobodyFallsBack, PlacesOf
    <2> QED BY <1>2, <1>3, <1>4, <1>9, <2>2, RowsPushBack DEF ListInv
  <1> QED BY <1>10, <1>11

LEMMA RelinkKeeps ==
  ASSUME ListInv, NEW x \in ListRows, NEW n \in Widths, Relink(x, n)
  PROVE  ListInv'
  <1>1. PICK p \in ListQueries : p = walk.query
    BY DEF ListInv, Walks
  <1> DEFINE moved == IF n < width[x] THEN {x} ELSE {}
  <1>2. moved \in SUBSET ListRows /\ Noted(moved)
    BY DEF Relink
  <1>3. WalkNotes(p, moved)
    BY <1>1, <1>2, NotedMeans
  <1>4. /\ Event /\ present' = present /\ gone' = gone /\ status' = status /\ place' = place
        /\ width' = [width EXCEPT ![x] = n] /\ p.list = "roomTypes"
    BY <1>1 DEF Relink, TakesPlaces
  <1>5. events' \in 0 .. MaxEvents
    BY <1>4, ListingsAssumption DEF Event, ListInv, ListingsTypeOK
  <1>6. width \in [ListRows -> Widths] /\ width' \in [ListRows -> Widths] /\ Widths \subseteq Nat \ {0}
    BY <1>4, ListingsAssumption DEF ListInv, ListingsTypeOK
  <1>7. ListingsTypeOK'
    BY <1>3, <1>4, <1>5, <1>6 DEF ListInv, ListingsTypeOK, WalkNotes
  <1>8. IsFiniteSet(present')
    BY <1>4 DEF ListInv
  <1>9. CASE n < width[x]
    BY <1>2, <1>3, <1>4, <1>7, <1>8, <1>9, RowsPushBack
  <1>10. CASE ~(n < width[x])
    <2>1. \A y \in ListRows : width[y] \in Nat /\ width'[y] \in Nat /\ width[y] <= width'[y]
      <3> SUFFICES ASSUME NEW y \in ListRows
                   PROVE  width[y] \in Nat /\ width'[y] \in Nat /\ width[y] <= width'[y]
        OBVIOUS
      <3>1. width[y] \in Nat /\ width'[y] \in Nat /\ width[x] \in Nat /\ n \in Nat
        BY <1>6
      <3>2. width'[y] = IF y = x THEN n ELSE width[y]
        BY <1>4, <1>6
      <3> QED BY <1>10, <3>1, <3>2
    <2>2. \A y \in Members(p) : y \in ListRows
      BY MembersArePresent DEF ListInv, ListingsTypeOK
    <2>3. \A y \in Members(p) : 1 .. width[y] \subseteq 1 .. width'[y]
      BY <2>1, <2>2
    <2>4. \A y \in Members(p) : PlacesOf(p, y) \subseteq PlacesOf(p, y)'
      BY <2>3 DEF PlacesOf, TakesPlaces
    <2>5. NobodyFallsBack(p, {})
      BY <1>4, <2>4 DEF NobodyFallsBack, Precedes
    <2>6. moved = {}
      BY <1>10
    <2> QED BY <1>2, <1>3, <1>7, <1>8, <2>5, <2>6, RowsPushBack
  <1> QED BY <1>9, <1>10

LEMMA NextPageStarts ==
  ASSUME NEW page \in Nat, NEW limit \in Nat \ {0}
  PROVE  /\ ((page + 1) - 1) * limit = page * limit /\ (page + 1) * limit = page * limit + limit
         /\ page * limit \in Nat
  OBVIOUS

\* A page that is the last shows all that were still to come.
LEMMA PageShowsNext ==
  ASSUME ListInv, NEW q \in ListQueries, OrderIsTotal(q), NEW page \in Nat,
         NEW x \in Members(q), StandsAt(q, x) >= page * q.limit,
         x \notin PageOf(q, ById, page + 1)
  PROVE  /\ StandsAt(q, x) >= (page + 1) * q.limit
         /\ ~IsLast(q, PageOf(q, ById, page + 1))
  <1> DEFINE all == PagedPlaces(q)
             rows == PageOf(q, ById, page + 1)
             shown == PlacesOnPage(q, ById, page + 1)
             first == page * q.limit
             places == first .. first + q.limit - 1
             order == ListOrder(q)
  <1>1. q.limit \in Nat \ {0}
    BY ListingsAssumption DEF ListQuery
  <1>2. Skip(q, page + 1) = first /\ (page + 1) * q.limit = first + q.limit /\ first \in Nat
    BY <1>1, NextPageStarts DEF Skip
  <1>3. IsFiniteSet(all) /\ all \subseteq ListPlaces /\ FirstPlace(x) \in all /\ place \in [ListRows -> Nat]
    BY RowsHavePlaces DEF ListInv, ListingsTypeOK
  <1>4. /\ Orders(order, all)
        /\ \A o \in all : Ahead(order, all, o) = {p \in all : PlacePrecedes(q, ById, p, o)}
    BY <1>3, RowsAreOrdered, ZenonT(40)
  <1>5. shown = OnPlaces(order, all, places)
    BY <1>2, <1>4 DEF PlacesOnPage, OnPlaces
  <1>6. StandsAt(q, x) = Cardinality(Ahead(order, all, FirstPlace(x)))
    BY <1>3, <1>4 DEF StandsAt, BeforeRow
  <1>7. Cardinality(all) \in Nat /\ StandsAt(q, x) \in 0 .. Cardinality(all) - 1
    <2>1. /\ Cardinality(all) \in Nat
          /\ Position(order, all) \in Bijection(all, 0 .. Cardinality(all) - 1)
      BY <1>3, <1>4, PlacesFill
    <2> QED BY <1>3, <1>6, <2>1 DEF Bijection, Injection, Position
  <1>8. StandsAt(q, x) \notin places
    <2>1. FirstPlace(x) \notin shown
      BY DEF PageOf, FirstPlace
    <2> QED BY <1>3, <1>5, <1>6, <2>1 DEF OnPlaces
  <1>9. StandsAt(q, x) >= first + q.limit
    BY <1>1, <1>2, <1>7, <1>8
  <1>10. places \subseteq 0 .. Cardinality(all) - 1
    BY <1>1, <1>2, <1>7, <1>9
  <1>11. Cardinality(shown) = Cardinality(places)
    <2>0. IsFiniteSet(all) /\ Orders(order, all) /\ places \subseteq 0 .. Cardinality(all) - 1
      BY <1>3, <1>4, <1>10
    <2> HIDE DEF all, places, order
    <2>1. Cardinality(OnPlaces(order, all, places)) = Cardinality(places)
      BY ONLY <2>0, RangeIsFull
    <2> QED BY <1>5, <2>1
  <1>12. Cardinality(places) = q.limit
    <2>1. first \in Int /\ first + q.limit - 1 \in Int
      BY <1>1, <1>2
    <2>2. Cardinality(first .. first + q.limit - 1) =
            IF first > first + q.limit - 1 THEN 0 ELSE (first + q.limit - 1) - first + 1
      BY <2>1, FS_Interval
    <2>3. q.limit \in Nat \ {0} /\ first \in Nat
      BY <1>1, <1>2
    <2> HIDE DEF first
    <2> QED BY <2>2, <2>3
  <1>13. IsFiniteSet(shown) /\ shown \subseteq all
    <2>1. shown \subseteq all
      BY DEF PlacesOnPage
    <2> QED BY <1>3, <2>1, FS_Subset
  <1> HIDE DEF all, places, order, first, shown, rows
  <1>14. rows = {p[1] : p \in shown}
    BY DEF rows, shown, PageOf
  <1>15. CASE TakesPlaces(q)
    <2>1. shown # {}
      BY <1>1, <1>11, <1>12, FS_EmptySet
    <2>2. rows # {}
      BY <1>14, <2>1
    <2> QED BY <1>2, <1>9, <1>15, <2>2 DEF IsLast, rows
  <1>16. CASE ~TakesPlaces(q)
    <2>1. \A p \in shown : p = FirstPlace(p[1])
      BY <1>13, <1>16, RowsHavePlaces DEF all
    <2>2. [p \in shown |-> p[1]] \in Bijection(shown, rows)
      <3> DEFINE f == [p \in shown |-> p[1]]
      <3>1. f \in [shown -> rows]
        BY <1>14
      <3>2. \A o, p \in shown : f[o] = f[p] => o = p
        BY <2>1
      <3>0. DOMAIN f = shown
        OBVIOUS
      <3>3. \A y \in rows : \E p \in shown : f[p] = y
        BY <1>14
      <3> HIDE DEF f
      <3>4. f \in Bijection(shown, rows)
        BY <3>0, <3>1, <3>2, <3>3 DEF Bijection, Injection, Surjection, IsInjective
      <3> QED BY <3>4 DEF f
    <2>3. Cardinality(rows) = q.limit
      <3>1. ExistsBijection(shown, rows)
        BY <2>2 DEF ExistsBijection
      <3>2. Cardinality(rows) = Cardinality(shown)
        BY <1>13, <3>1, FS_Bijection
      <3> QED BY <1>11, <1>12, <3>2
    <2> QED BY <1>1, <1>2, <1>9, <1>16, <2>3 DEF IsLast, rows
  <1> QED BY <1>15, <1>16

LEMMA ReadingKeeps ==
  ASSUME ListInv, ReadPage
  PROVE  ListInv'
  <1>1. PICK q \in ListQueries : q = walk.query
    BY DEF ListInv, Walks
  <1>2. PICK tie \in TieBreaks(q) :
          walk' = [walk EXCEPT !.page = @ + 1, !.seen = @ \cup PageOf(q, tie, walk.page + 1),
                               !.began = IF walk.page = 0 THEN Members(q) ELSE @,
                               !.moved = IF walk.page = 0 THEN {} ELSE @,
                               !.left = IF walk.page = 0 THEN FALSE ELSE @,
                               !.over = IsLast(q, PageOf(q, tie, walk.page + 1))]
    BY <1>1 DEF ReadPage
  <1> DEFINE rows == PageOf(q, tie, walk.page + 1)
             full == IsLast(q, rows)
  <1>3. full \in BOOLEAN /\ rows \subseteq Members(q) /\ Members(q) \subseteq present /\ present \subseteq ListRows
    <2>1. full \in BOOLEAN
      <3>1. (rows = {}) \in BOOLEAN /\ (Cardinality(rows) < q.limit) \in BOOLEAN
        OBVIOUS
      <3> QED BY <3>1 DEF IsLast
    <2>2. rows \subseteq Members(q)
      BY RowsHavePlaces DEF PageOf, PlacesOnPage
    <2>3. Members(q) \subseteq present /\ present \subseteq ListRows
      BY MembersArePresent DEF ListInv, ListingsTypeOK
    <2> QED BY <2>1, <2>2, <2>3
  <1>4. walk \in Walks
    BY DEF ListInv
  <1>5. /\ walk' \in Walks /\ walk'.query = q /\ walk'.page = walk.page + 1 /\ walk'.page > 0
        /\ walk'.seen = walk.seen \cup rows /\ (walk'.over <=> full) /\ walk'.vain = walk.vain
        /\ walk'.began = (IF walk.page = 0 THEN Members(q) ELSE walk.began)
        /\ walk'.moved = (IF walk.page = 0 THEN {} ELSE walk.moved)
        /\ (walk'.left <=> walk.page # 0 /\ walk.left)
    <2> HIDE DEF rows, full
    <2>1. walk' = [walk EXCEPT !.page = walk.page + 1, !.seen = walk.seen \cup rows,
                               !.began = IF walk.page = 0 THEN Members(q) ELSE walk.began,
                               !.moved = IF walk.page = 0 THEN {} ELSE walk.moved,
                               !.left = IF walk.page = 0 THEN FALSE ELSE walk.left,
                               !.over = full]
      BY <1>2 DEF rows, full
    <2>2. walk' \in Walks
      <3>1. /\ walk.page + 1 \in Nat /\ walk.seen \cup rows \subseteq ListRows /\ full \in BOOLEAN
            /\ Members(q) \subseteq ListRows
        BY <1>3, <1>4 DEF Walks
      <3> DEFINE n == walk.page + 1
                 s == walk.seen \cup rows
                 b == IF walk.page = 0 THEN Members(q) ELSE walk.began
                 m == IF walk.page = 0 THEN {} ELSE walk.moved
                 l == IF walk.page = 0 THEN FALSE ELSE walk.left
      <3>2. /\ n \in Nat /\ s \in SUBSET ListRows /\ b \in SUBSET ListRows /\ m \in SUBSET ListRows
            /\ l \in BOOLEAN
        BY <1>4, <3>1 DEF Walks
      <3>3. walk' = [walk EXCEPT !.page = n, !.seen = s, !.began = b, !.moved = m, !.left = l, !.over = full]
        BY <2>1
      <3> HIDE DEF n, s, b, m, l
      <3> QED BY <1>4, <3>1, <3>2, <3>3 DEF Walks
    <2>3. (walk'.over <=> full) /\ (walk'.left <=> walk.page # 0 /\ walk.left)
      <3>1. walk'.over = full
        BY <1>4, <2>1 DEF Walks
      <3>2. walk'.left = IF walk.page = 0 THEN FALSE ELSE walk.left
        BY <1>4, <2>1 DEF Walks
      <3> QED BY <3>1, <3>2
    <2>4. /\ walk'.query = q /\ walk'.page = walk.page + 1 /\ walk'.page > 0
          /\ walk'.seen = walk.seen \cup rows /\ walk'.vain = walk.vain
          /\ walk'.began = (IF walk.page = 0 THEN Members(q) ELSE walk.began)
          /\ walk'.moved = (IF walk.page = 0 THEN {} ELSE walk.moved)
      BY <1>1, <1>4, <2>1 DEF Walks
    <2> QED BY <2>2, <2>3, <2>4
  <1> HIDE DEF rows, full
  <1>6. ListingsTypeOK' /\ IsFiniteSet(present')
    BY <1>3, <1>5 DEF ReadPage, ListInv, ListingsTypeOK
  <1>7. (Members(q))' = Members(q)
    BY ListingsAssumption DEF ReadPage, ListQuery, ListNames, Members, ListForCustomer, ListManagement,
       ListOfBooking, ListAllManagement, ListAccounts, FindList, AccessibleConversations,
       OfStatus, Belonging, NotDeleted
  <1>8. ~walk'.left => walk'.seen \subseteq Members(q) /\ walk'.began \subseteq Members(q)
    BY <1>1, <1>3, <1>4, <1>5 DEF ListInv, Walks
  <1>9. walk'.vain # {} => walk'.left
    BY <1>5 DEF ListInv
  <1>10. ASSUME IsRegular', NEW x \in walk'.began \ walk'.moved PROVE SeenOrAhead(q, x)'
    <2>1. OrderIsTotal(q) /\ tie = ById
      BY <1>5, <1>10 DEF IsRegular, TieBreaks, ById
    <2>2. x \in Members(q) /\ walk.page \in Nat
      BY <1>4, <1>5, <1>8, <1>10 DEF IsRegular, Walks
    <2>3. x \in walk.seen \/ StandsAt(q, x) >= walk.page * q.limit
      <3>1. CASE walk.page = 0
        <4>1. q.limit \in Nat
          BY ListingsAssumption DEF ListQuery
        <4>2. StandsAt(q, x) \in Nat
          <5>1. IsFiniteSet(BeforeRow(q, x))
            BY RowsHavePlaces, FS_Subset DEF BeforeRow
          <5> QED BY <5>1, FS_CardinalityType DEF StandsAt
        <4> QED BY <3>1, <4>1, <4>2
      <3>2. CASE walk.page # 0
        <4>1. IsRegular /\ x \in walk.began \ walk.moved
          BY <1>1, <1>5, <1>10, <2>2, <3>2 DEF IsRegular
        <4> QED BY <1>1, <4>1 DEF ListInv, SeenOrAhead
      <3> QED BY <3>1, <3>2
    <2>4. CASE x \in walk.seen \cup rows
      <3>1. x \in walk'.seen
        BY <1>5, <2>4
      <3> QED BY <3>1 DEF SeenOrAhead
    <2>5. CASE x \notin walk.seen \cup rows
      <3>1. StandsAt(q, x) >= (walk.page + 1) * q.limit /\ ~IsLast(q, rows)
        BY <2>1, <2>2, <2>3, <2>5, PageShowsNext DEF rows
      <3>2. ~full
        BY <3>1 DEF full
      <3>3. StandsAt(q, x)' = StandsAt(q, x)
        <4>1. place' = place /\ width' = width
          BY DEF ReadPage
        <4>2. PagedPlaces(q)' = PagedPlaces(q)
          BY <1>7, <4>1 DEF PagedPlaces, PlacesOf, TakesPlaces
        <4>3. \A o, p : PlacePrecedes(q, ById, o, p)' <=> PlacePrecedes(q, ById, o, p)
          BY <4>1 DEF PlacePrecedes, Precedes
        <4> QED BY <4>2, <4>3 DEF StandsAt, BeforeRow, FirstPlace
      <3> QED BY <1>5, <3>1, <3>2, <3>3 DEF SeenOrAhead
    <2> QED BY <2>4, <2>5
  <1>11. walk'.page # 0
    BY <1>4, <1>5 DEF Walks
  <1> QED BY <1>5, <1>6, <1>7, <1>8, <1>9, <1>10, <1>11 DEF ListInv

LEMMA OpeningKeeps ==
  ASSUME ListInv, NEW x \in ListRows, OpenRow(x)
  PROVE  ListInv'
  <1>1. PICK q \in ListQueries : q = walk.query
    BY DEF ListInv, Walks
  <1>2. walk' = [walk EXCEPT !.vain = walk.vain \cup {x}] /\ walk \in Walks
    BY DEF OpenRow, ListInv
  <1>3. /\ walk' \in Walks /\ walk'.query = q /\ walk'.page = walk.page /\ walk'.over = walk.over
        /\ walk'.seen = walk.seen /\ walk'.began = walk.began /\ walk'.moved = walk.moved
        /\ walk'.left = walk.left
    BY <1>1, <1>2 DEF Walks
  <1>4. walk.page > 0
    BY <1>2 DEF OpenRow, ListInv, Walks
  <1>5. walk.left
    BY <1>1, <1>2, <1>4, MembersCanBeOpened DEF OpenRow, ListInv, Walks
  <1>6. ListingsTypeOK' /\ IsFiniteSet(present')
    BY <1>3 DEF OpenRow, ListInv, ListingsTypeOK
  <1>7. ~IsRegular'
    BY <1>3, <1>5 DEF IsRegular
  <1> QED BY <1>3, <1>4, <1>5, <1>6, <1>7 DEF ListInv

\* WalksMissNothing: a walk shows every row that stays in its place, and what
\* it shows can be opened, whatever is inserted or moved to the front meanwhile
\* and however many places a room type takes.
THEOREM WalksAlwaysMissNothing == ListingsSpec => []WalksMissNothing
  <1>1. ListingsInit => ListInv
    <2> SUFFICES ASSUME ListingsInit PROVE ListInv
      OBVIOUS
    <2>1. PICK q \in ListQueries : walk = WalkOf(q)
      BY DEF ListingsInit, ListingsInitWith
    <2>2. walk \in Walks /\ walk.page = 0 /\ walk.seen = {} /\ ~walk.over /\ walk.vain = {}
          /\ walk.began = FirstRows
      BY <2>1, ListingsAssumption DEF WalkOf, Walks
    <2>3. ListingsTypeOK
      BY <2>2, ListingsAssumption DEF ListingsInit, ListingsInitWith, ListingsTypeOK
    <2> QED BY <2>2, <2>3, ListingsAssumption DEF ListingsInit, ListingsInitWith, ListInv, IsRegular
  <1>2. ListInv /\ [ListingsNext]_listVars => ListInv'
    <2> SUFFICES ASSUME ListInv, [ListingsNext]_listVars PROVE ListInv'
      OBVIOUS
    <2>1. CASE UNCHANGED listVars
      <3>1. ListingsTypeOK' /\ IsFiniteSet(present') /\ walk' = walk
        BY <2>1 DEF listVars, ListInv, ListingsTypeOK
      <3>2. walk.query \in ListQueries
        BY DEF ListInv, Walks
      <3>3. Members(walk.query)' = Members(walk.query)
        BY <2>1, <3>1, <3>2
        DEF listVars, Members, ListForCustomer, ListManagement, ListOfBooking, ListAllManagement,
            ListAccounts, FindList, AccessibleConversations, OfStatus, Belonging, NotDeleted
      <3>4. \A x, y : Precedes(walk.query, ById, y, x)' <=> Precedes(walk.query, ById, y, x)
        BY <2>1, <3>1 DEF listVars, Precedes
      <3>5. \A x : StandsAt(walk.query, x)' = StandsAt(walk.query, x)
        <4>1. PagedPlaces(walk.query)' = PagedPlaces(walk.query)
          BY <2>1, <3>1, <3>3 DEF PagedPlaces, PlacesOf, TakesPlaces, listVars
        <4>2. \A o, p : PlacePrecedes(walk.query, ById, o, p)' <=> PlacePrecedes(walk.query, ById, o, p)
          BY <3>4 DEF PlacePrecedes
        <4> QED BY <4>1, <4>2 DEF StandsAt, BeforeRow, FirstPlace
      <3>6. (IsRegular <=> IsRegular') /\ \A x : SeenOrAhead(walk.query, x)' <=> SeenOrAhead(walk.query, x)
        BY <3>1, <3>5 DEF IsRegular, SeenOrAhead
      <3> QED BY <3>1, <3>3, <3>6 DEF ListInv
    <2>2. CASE ListingsNext
      BY <2>2, ReadingKeeps, OpeningKeeps, InsertionKeeps, EditKeeps, MoveKeeps, RelinkKeeps DEF ListingsNext
    <2> QED BY <2>1, <2>2
  <1>3. ListInv => WalksMissNothing
    <2> SUFFICES ASSUME ListInv, walk.over, ~walk.left, OrderIsTotal(walk.query),
                        walk.query.list \in {"amenities", "roomTypes"} => walk.moved = {}
                 PROVE  walk.began \ walk.moved \subseteq walk.seen
      BY DEF ListInv, WalksMissNothing
    <2>1. walk.page > 0
      BY DEF ListInv, Walks
    <2>2. IsRegular
      BY <2>1 DEF IsRegular
    <2> QED BY <2>2 DEF ListInv, SeenOrAhead
  <1> QED BY <1>1, <1>2, <1>3, PTL DEF ListingsSpec
====
