--------------------------- MODULE BookingCreation ---------------------------
(***************************************************************************)
(* Creating bookings, statement by statement.  BookingPayment takes one    *)
(* step for the whole of createBooking(); this module shows why it may:    *)
(* several requests of customers and of staff run their transactions at    *)
(* the same time, retried with the same Idempotency-Key or not, under the  *)
(* locks and the snapshot reads of InnoDB at REPEATABLE READ.              *)
(*                                                                         *)
(* A request creates at most one booking, so the booking is named by the   *)
(* request that created it.  Locks are not variables: which locks a        *)
(* transaction holds follows from how far it has come.                     *)
(***************************************************************************)
EXTENDS Integers, FiniteSets

CONSTANTS
  Requests,
  Customers,   \* a customer, or the phone number of a customer at the counter
  Rooms,
  Dates,
  Actor,       \* who sends each request, the type of actor included
  ByStaff,     \* the requests of staff
  ByPhone,     \* ... that name the customer by contact only
  Key,         \* the Idempotency-Key of each request, or NoKey
  NoKey,
  Hash,        \* what each request asks for
  Customer,    \* the customer each request is for
  RoomOf,
  Nights,
  Registered,  \* customers that have an account from the start
  MaxUnpaid,   \* BOOKING_MAX_ACTIVE_UNPAID_PER_CUSTOMER
  MaxNights    \* BOOKING_MAX_HELD_NIGHTS_PER_CUSTOMER

NoBooking == "NONE"

ASSUME RequestAssumption ==
  /\ IsFiniteSet(Requests) /\ NoBooking \notin Requests
  /\ ByPhone \subseteq ByStaff /\ ByStaff \subseteq Requests
  /\ Customer \in [Requests -> Customers] /\ RoomOf \in [Requests -> Rooms]
  /\ Nights \in [Requests -> (SUBSET Dates) \ {{}}] /\ IsFiniteSet(Dates)
  /\ Registered \subseteq Customers
\* A customer sends requests for himself, with a token of his account; equal
\* hashes come from equal requests of one actor.
ASSUME ActorAssumption ==
  /\ \A r \in Requests \ ByStaff : Actor[r] = Customer[r] /\ Customer[r] \in Registered
  /\ \A q \in ByStaff, r \in Requests \ ByStaff : Actor[q] # Actor[r]
  /\ \A q, r \in Requests : Hash[q] = Hash[r] =>
       /\ Actor[q] = Actor[r] /\ Customer[q] = Customer[r] /\ RoomOf[q] = RoomOf[r]
       /\ Nights[q] = Nights[r] /\ (q \in ByPhone <=> r \in ByPhone)
ASSUME LimitAssumption == MaxUnpaid \in Nat \ {0} /\ MaxNights \in Nat \ {0}

VARIABLES
  booking,  \* committed rows: "none", "unpaid" (PENDING_PAYMENT and UNPAID),
            \* "paid" (or confirmed by staff) or "cancelled"
  account,  \* committed customers: "ABSENT", "ACTIVE" or "LOCKED"
  stage,    \* how far the handling of each request has come
  view,     \* the read view of each transaction, once it has one
  answer    \* what each request was answered

vars == <<booking, account, stage, view, answer>>

Status == {"none", "unpaid", "paid", "cancelled"}
NoView == [taken |-> FALSE, rows |-> [q \in Requests |-> "none"]]
NoAnswer == [kind |-> "none", booking |-> NoBooking]

Init ==
  /\ booking = [q \in Requests |-> "none"]
  /\ account = [c \in Customers |-> IF c \in Registered THEN "ACTIVE" ELSE "ABSENT"]
  /\ stage = [r \in Requests |-> "idle"]
  /\ view = [r \in Requests |-> NoView]
  /\ answer = [r \in Requests |-> NoAnswer]

-----------------------------------------------------------------------------
(* Locks, and what a read sees *)

Resolved == {"resolved", "admitted", "roomLocked", "inserted"}

\* Mutant of HoldsCustomer: the customer is read without a lock.
HoldsNoCustomer(q) == FALSE

\* The customer row, FOR UPDATE, from findById(..., lockForAdmission).
HoldsCustomer(q) == q \notin ByStaff /\ stage[q] \in Resolved
\* The customer row, shared, from the foreign key check of an insert by staff.
SharesCustomer(q) == q \in ByStaff /\ stage[q] = "inserted"
\* The unique phone of a customer row that is inserted and not committed.
HoldsPhone(q) == q \in ByPhone /\ stage[q] \in Resolved /\ account[Customer[q]] = "ABSENT"
\* Mutant of HoldsRoom: a transaction that failed was not rolled back.
HoldsRoomAfterFailure(q) ==
  stage[q] \in {"roomLocked", "inserted"} \/ answer[q].kind = "failed"

\* The room row, FOR UPDATE.
HoldsRoom(q) == stage[q] \in {"roomLocked", "inserted"}
\* The entry of uq_bookings_request_intent that is not committed.
HoldsIntent(q) == Key[q] # NoKey /\ stage[q] = "inserted"

SameIntent(q, r) == Key[r] # NoKey /\ Key[q] = Key[r] /\ Actor[q] = Actor[r]

\* The other transactions that the next statement of r waits for.
WaitsFor(r) ==
  {q \in Requests \ {r} :
     \/ /\ stage[r] = "begun" /\ r \notin ByStaff /\ Customer[q] = Customer[r]
        /\ HoldsCustomer(q) \/ SharesCustomer(q)
     \/ stage[r] = "newCustomer" /\ Customer[q] = Customer[r] /\ HoldsPhone(q)
     \/ stage[r] = "admitted" /\ RoomOf[q] = RoomOf[r] /\ HoldsRoom(q)
     \/ /\ stage[r] = "roomLocked"
        /\ \/ SameIntent(q, r) /\ HoldsIntent(q)
           \/ Customer[q] = Customer[r] /\ HoldsCustomer(q)}

\* The rows a consistent read of r's transaction returns: the first such read
\* fixes the read view, locking reads do not.
Rows(r) == IF view[r].taken THEN view[r].rows ELSE booking
TakenView(r) == [view EXCEPT ![r] = [taken |-> TRUE, rows |-> Rows(r)]]

Existing(r, rows) == {q \in Requests : SameIntent(q, r) /\ rows[q] # "none"}

ActiveUnpaid(c, rows) == {q \in Requests : Customer[q] = c /\ rows[q] = "unpaid"}
HeldNights(S) == {h \in Requests \X Dates : h[1] \in S /\ h[2] \in Nights[h[1]]}

\* assertActiveUnpaidLimit() and assertHeldNightsLimit()
WithinLimits(r, rows) ==
  LET S == ActiveUnpaid(Customer[r], rows) IN
  /\ Cardinality(S) < MaxUnpaid
  /\ Cardinality(HeldNights(S)) + Cardinality(Nights[r]) <= MaxNights

-----------------------------------------------------------------------------
(* The handling of one request *)

Continue(r, next) == /\ stage' = [stage EXCEPT ![r] = next]
                     /\ UNCHANGED answer

\* Commit or roll back, and answer.
Finish(r, kind, b) ==
  /\ stage' = [stage EXCEPT ![r] = "done"]
  /\ view' = [view EXCEPT ![r] = NoView]
  /\ answer' = [answer EXCEPT ![r] = [kind |-> kind, booking |-> b]]

\* assertIntentReplay(), and the id of the booking found.
AnswerExisting(r, q) ==
  IF Hash[q] = Hash[r] THEN Finish(r, "replayed", q)
                       ELSE Finish(r, "intentConflict", NoBooking)

\* Mutant of FindRequestIntentSnapshot: the lookup runs inside the transaction
\* and so fixes its read view before the customer is locked.
FindRequestIntentFirst(r) ==
  /\ stage[r] = "idle"
  /\ \/ \E q \in Existing(r, booking) : AnswerExisting(r, q)
     \/ /\ Existing(r, booking) = {}
        /\ Continue(r, "begun")
        /\ view' = TakenView(r)
  /\ UNCHANGED <<booking, account>>

\* A replay is answered without opening a transaction.
FindRequestIntentSnapshot(r) ==
  /\ stage[r] = "idle"
  /\ \/ \E q \in Existing(r, booking) : AnswerExisting(r, q)
     \/ /\ Existing(r, booking) = {}
        /\ Continue(r, "begun")
        /\ UNCHANGED view
  /\ UNCHANGED <<booking, account>>

\* getActiveCustomer() of a customer: a locking read of the newest row.
LockCustomer(r) ==
  /\ stage[r] = "begun" /\ r \notin ByStaff
  /\ WaitsFor(r) = {}
  /\ \/ account[Customer[r]] = "ACTIVE" /\ Continue(r, "resolved") /\ UNCHANGED view
     \/ account[Customer[r]] # "ACTIVE" /\ Finish(r, "refused", NoBooking)
  /\ UNCHANGED <<booking, account>>

\* resolveCustomer() of staff: consistent reads, which fix the read view.
FindCustomer(r) ==
  /\ stage[r] = "begun" /\ r \in ByStaff
  /\ \/ /\ account[Customer[r]] = "ACTIVE"
        /\ Continue(r, "resolved") /\ view' = TakenView(r)
     \/ /\ account[Customer[r]] = "ABSENT" /\ r \in ByPhone
        /\ Continue(r, "newCustomer") /\ view' = TakenView(r)
     \/ /\ \/ account[Customer[r]] = "LOCKED"
           \/ account[Customer[r]] = "ABSENT" /\ r \notin ByPhone
        /\ Finish(r, "refused", NoBooking)
  /\ UNCHANGED <<booking, account>>

\* createPasswordless(): the insert waits for another one with the same phone
\* and fails on the unique key if that one committed.
CreatePasswordless(r) ==
  /\ stage[r] = "newCustomer"
  /\ WaitsFor(r) = {}
  /\ \/ account[Customer[r]] = "ABSENT" /\ Continue(r, "resolved") /\ UNCHANGED view
     \/ account[Customer[r]] # "ABSENT" /\ Finish(r, "phoneInUse", NoBooking)
  /\ UNCHANGED <<booking, account>>

\* Mutant of AssertAdmission: the request intent is not looked up again.
AssertLimits(r) ==
  /\ stage[r] = "resolved"
  /\ \/ /\ r \in ByStaff \/ WithinLimits(r, Rows(r))
        /\ Continue(r, "admitted")
        /\ view' = TakenView(r)
     \/ /\ r \notin ByStaff /\ ~WithinLimits(r, Rows(r))
        /\ Finish(r, "limit", NoBooking)
  /\ UNCHANGED <<booking, account>>

\* findRequestIntent() again, then assertAdmission() for customers: several
\* reads of one read view.
AssertAdmission(r) ==
  /\ stage[r] = "resolved"
  /\ \/ \E q \in Existing(r, Rows(r)) : AnswerExisting(r, q)
     \/ /\ Existing(r, Rows(r)) = {}
        /\ r \in ByStaff \/ WithinLimits(r, Rows(r))
        /\ Continue(r, "admitted")
        /\ view' = TakenView(r)
     \/ /\ Existing(r, Rows(r)) = {}
        /\ r \notin ByStaff /\ ~WithinLimits(r, Rows(r))
        /\ Finish(r, "limit", NoBooking)
  /\ UNCHANGED <<booking, account>>

LockBookableRoom(r) ==
  /\ stage[r] = "admitted"
  /\ WaitsFor(r) = {}
  /\ Continue(r, "roomLocked")
  /\ UNCHANGED <<booking, account, view>>

\* Mutant of InsertBooking: without the unique key every insert succeeds.
InsertAnyBooking(r) ==
  /\ stage[r] = "roomLocked"
  /\ WaitsFor(r) = {}
  /\ Continue(r, "inserted")
  /\ UNCHANGED <<booking, account, view>>

\* The insert waits for an uncommitted one with the same request intent and,
\* because of bookings_ibfk_1, for whoever has locked the customer; it fails
\* with a REQUEST_INTENT conflict, and rolls back, if that one committed.
InsertBooking(r) ==
  /\ stage[r] = "roomLocked"
  /\ WaitsFor(r) = {}
  /\ \/ /\ Existing(r, booking) = {}
        /\ Continue(r, "inserted")
        /\ UNCHANGED view
     \/ /\ Existing(r, booking) # {}
        /\ Continue(r, "replaying")
        /\ view' = [view EXCEPT ![r] = NoView]
  /\ UNCHANGED <<booking, account>>

NightsFree(r) ==
  \A q \in Requests : booking[q] \in {"unpaid", "paid"} /\ RoomOf[q] = RoomOf[r] =>
    Nights[q] \cap Nights[r] = {}

\* reserveBookingStay(), the audit entry and the commit, under the lock of the
\* room; the new customer becomes visible with the booking.
ReserveBookingStay(r) ==
  /\ stage[r] = "inserted"
  /\ \/ /\ NightsFree(r)
        /\ booking' = [booking EXCEPT ![r] = "unpaid"]
        /\ account' = [account EXCEPT ![Customer[r]] = IF @ = "ABSENT" THEN "ACTIVE" ELSE @]
        /\ Finish(r, "created", r)
     \/ /\ ~NightsFree(r)
        /\ Finish(r, "roomTaken", NoBooking)
        /\ UNCHANGED <<booking, account>>

\* The catch block: after the rollback, the committed booking is looked up.
ReplayAfterConflict(r) ==
  /\ stage[r] = "replaying"
  /\ \/ \E q \in Existing(r, booking) : AnswerExisting(r, q)
     \/ Existing(r, booking) = {} /\ Finish(r, "createConflict", NoBooking)
  /\ UNCHANGED <<booking, account>>

\* A refusal by a check that is not modelled (stay window, room status, guest
\* capacity), a failure of the database, or being the victim of a deadlock:
\* whatever was written is rolled back.
Fail(r) ==
  /\ stage[r] \notin {"idle", "done"}
  /\ Finish(r, "failed", NoBooking)
  /\ UNCHANGED <<booking, account>>

-----------------------------------------------------------------------------
(* The rest of the system *)

\* A booking is paid or confirmed, cancelled or expired, and a paid one may be
\* refunded; none of these locks the customer.
LeaveUnpaid(q, next) ==
  /\ \/ booking[q] = "unpaid" /\ next \in {"paid", "cancelled"}
     \/ booking[q] = "paid" /\ next = "cancelled"
  /\ booking' = [booking EXCEPT ![q] = next]
  /\ UNCHANGED <<account, stage, view, answer>>

\* CustomerAdminService.saveStatus(), which locks the customer.
SaveStatus(c, status) ==
  /\ account[c] # "ABSENT" /\ account[c] # status
  /\ \A q \in Requests : Customer[q] = c => ~HoldsCustomer(q) /\ ~SharesCustomer(q)
  /\ account' = [account EXCEPT ![c] = status]
  /\ UNCHANGED <<booking, stage, view, answer>>

-----------------------------------------------------------------------------
Handle(r) ==
  \/ FindRequestIntentSnapshot(r) \/ LockCustomer(r) \/ FindCustomer(r)
  \/ CreatePasswordless(r) \/ AssertAdmission(r) \/ LockBookableRoom(r)
  \/ InsertBooking(r) \/ ReserveBookingStay(r) \/ ReplayAfterConflict(r)

Next ==
  \/ \E r \in Requests : Handle(r) \/ Fail(r)
  \/ \E q \in Requests, next \in {"paid", "cancelled"} : LeaveUnpaid(q, next)
  \/ \E c \in Customers, status \in {"ACTIVE", "LOCKED"} : SaveStatus(c, status)

Spec == Init /\ [][Next]_vars

=============================================================================
