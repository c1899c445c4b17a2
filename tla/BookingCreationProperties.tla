---------------------- MODULE BookingCreationProperties ----------------------
(***************************************************************************)
(* What createBooking() promises however its transactions interleave.      *)
(***************************************************************************)
EXTENDS BookingCreation

Stage == {"idle", "begun", "newCustomer", "resolved", "admitted", "roomLocked",
          "inserted", "replaying", "done"}
AnswerKind == {"none", "created", "replayed", "intentConflict", "limit",
               "roomTaken", "phoneInUse", "createConflict", "refused", "failed"}

\* The shape of the state; a read view belongs to an open transaction.
TypeOK ==
  /\ booking \in [Requests -> Status]
  /\ account \in [Customers -> {"ABSENT", "ACTIVE", "LOCKED"}]
  /\ stage \in [Requests -> Stage]
  /\ view \in [Requests -> [taken : BOOLEAN, rows : [Requests -> Status]]]
  /\ \A r \in Requests : view[r].taken => stage[r] \in {"newCustomer"} \union Resolved
  /\ answer \in [Requests -> [kind : AnswerKind, booking : Requests \union {NoBooking}]]

Commits(r) == booking[r] = "none" /\ booking'[r] = "unpaid"

\* When a customer's booking is committed, the customer holds no more unpaid
\* bookings and nights than the limits allow, whatever else was booked for him
\* meanwhile, by himself or by staff.
LimitsHoldAtCommit ==
  [][\A r \in Requests \ ByStaff : Commits(r) =>
       LET S == ActiveUnpaid(Customer[r], booking') IN
       Cardinality(S) <= MaxUnpaid /\ Cardinality(HeldNights(S)) <= MaxNights]_vars

\* Requests with one Idempotency-Key create one booking, and whoever is answered
\* with a booking asked for exactly this booking.
AnswersAgree ==
  /\ \A q, r \in Requests :
       SameIntent(q, r) /\ booking[q] # "none" /\ booking[r] # "none" => q = r
  /\ \A r \in Requests : LET b == answer[r].booking IN
       b # NoBooking => booking[b] # "none" /\ Hash[b] = Hash[r]

\* A retry is not turned away, for a limit its own booking has exhausted or for
\* nights its own booking holds, when that booking is already there.  (For a new
\* customer at the counter CUSTOMER_PHONE_IN_USE can be: see the README.)
RetryFindsItsBooking ==
  [][\A r \in Requests :
       /\ answer[r].kind = "none"
       /\ answer'[r].kind \in {"limit", "roomTaken", "createConflict"}
       => Existing(r, booking) = {}]_vars

\* Nothing is booked by a customer whose account an administrator has locked,
\* even if the request was under way.
LockedAccountBooksNothing ==
  [][\A r \in Requests \ ByStaff : Commits(r) => account[Customer[r]] = "ACTIVE"]_vars

-----------------------------------------------------------------------------
(* Why these hold: the inductive invariant behind them *)

\* A transaction holds its read view and its booking commits last; what a
\* customer's transaction has read is still the whole truth about the unpaid
\* bookings of the customer, except that some may have gone.
RequestInOrder(r) ==
  /\ booking[r] # "none" => stage[r] = "done"
  /\ stage[r] = "newCustomer" => r \in ByStaff
  /\ view[r].taken => \A q \in Requests : view[r].rows[q] # "none" => booking[q] # "none"
  /\ r \notin ByStaff =>
       /\ HoldsCustomer(r) => account[Customer[r]] = "ACTIVE"
       /\ view[r].taken <=> stage[r] \in {"admitted", "roomLocked", "inserted"}
       /\ view[r].taken =>
            /\ WithinLimits(r, view[r].rows)
            /\ ActiveUnpaid(Customer[r], booking) \subseteq
                 ActiveUnpaid(Customer[r], view[r].rows)

\* What one transaction holds, another one does not; a request intent is held
\* or committed once.
Compatible(q, r) ==
  /\ Customer[q] = Customer[r] /\ HoldsCustomer(r) =>
       ~HoldsCustomer(q) /\ ~SharesCustomer(q)
  /\ SameIntent(q, r) =>
       /\ HoldsIntent(r) => ~HoldsIntent(q) /\ booking[q] = "none"
       /\ booking[q] = "none" \/ booking[r] = "none"

CreationInvariant ==
  /\ \A r \in Requests : RequestInOrder(r)
  /\ \A r \in Requests : \A q \in Requests \ {r} : Compatible(q, r)

-----------------------------------------------------------------------------
(* Liveness *)

\* r waits in a set of transactions each of which waits for another one of it.
InKnot(r) ==
  \E S \in SUBSET Requests :
    r \in S /\ \A q \in S : WaitsFor(q) \cap S # {}

\* Every request is handled on, and InnoDB detects deadlocks and rolls one of
\* the transactions back; no other failure is assumed to happen.
Fairness == /\ \A r \in Requests : WF_vars(Handle(r))
            /\ WF_vars(\E r \in Requests : InKnot(r) /\ Fail(r))

FairSpec == Spec /\ Fairness

\* Every request is answered: no lock is waited for forever, although customers
\* lock customer before room and staff room before customer.
RequestsAreAnswered == \A r \in Requests : (stage[r] = "idle") ~> (stage[r] = "done")

=============================================================================
