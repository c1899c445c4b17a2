------------------------- MODULE MCBookingCreation -------------------------
(***************************************************************************)
(* Small instances of BookingCreation for TLC.  guest1 and guest2 are      *)
(* booked for by themselves and by staff, phone1 at the counter only.      *)
(***************************************************************************)
EXTENDS BookingCreationProperties

CONSTANTS
  web,      \* guest1 books two nights of room1 ...
  retry,    \* ... and sends the same request again
  second,   \* guest1 books two nights of room2, without a key
  desk,     \* staff book the third night of room1 for guest1 ...
  again,    \* ... and send the same request again
  counter,  \* staff book two nights of room1 for phone1
  other,    \* staff book a night of room1 for phone1, reusing the key of desk
  guest1, phone1, room1, room2

MCCustomers == {guest1, phone1}
MCByStaff == {desk, again, counter, other} \cap Requests
MCByPhone == {counter, other} \cap Requests
MCActor == [r \in Requests |-> IF r \in MCByStaff THEN "staff" ELSE guest1]
MCCustomer == [r \in Requests |-> IF r \in MCByPhone THEN phone1 ELSE guest1]
MCRegistered == {guest1}
MCKey == [r \in Requests |->
  CASE r \in {web, retry} -> "k1"
    [] r \in {desk, again, other} -> "k2"
    [] r = counter -> "k3"
    [] OTHER -> "no key"]
MCHash == [r \in Requests |->
  CASE r \in {web, retry} -> "web" [] r \in {desk, again} -> "desk"
    [] r = second -> "second" [] r = counter -> "counter" [] OTHER -> "other"]
MCRoomOf == [r \in Requests |-> IF r = second THEN room2 ELSE room1]
MCNights == [r \in Requests |->
  CASE r \in {desk, again} -> {3} [] r = other -> {2} [] OTHER -> {1, 2}]
=============================================================================
