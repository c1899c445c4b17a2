--------------------------- MODULE BookingPayment ---------------------------
(***************************************************************************)
(* The booking, its payments and refunds, the room calendar and the room   *)
(* status as they change together.  Every service method runs one database *)
(* transaction that first takes FOR UPDATE the booking row (or, for the    *)
(* calendar, the rows it decides on), so each method is one action; what   *)
(* is NOT one step in the code is not one step here:                       *)
(* the customer paying at VNPay, the IPN that reports it, the two crons,   *)
(* and a VNPay refund, which commits REFUND_PENDING, calls the gateway     *)
(* outside any transaction and applies the answer in a second one, with    *)
(* operators reconciling in between.  A manual change of the room status   *)
(* is two steps as well: it runs at READ COMMITTED, locks the bookings it  *)
(* finds, and only then the room.                                          *)
(*                                                                         *)
(* A payment is identified by its idempotency key: uq_payments_idempotency *)
(* makes the two interchangeable, and a replayed key changes nothing.      *)
(* Time is a bounded clock; a day is TicksPerDay ticks.                    *)
(***************************************************************************)
EXTENDS BookingPolicies, FiniteSets

CONSTANTS
  Bookings,      \* bookings that may be created
  Payments,      \* payment rows that may be created, by idempotency key
  RefundKeys,    \* idempotency keys of VNPay refund requests
  Rooms,
  Dates,         \* calendar days, a set of naturals
  RoomOf,        \* the room of each booking
  StayDates,     \* the nights of each booking
  Timeout,       \* BOOKING_PAYMENT_TIMEOUT_MINUTES, in ticks
  TicksPerDay,
  BatchLimit,    \* rows one cron run locks (100 in the code)
  MaxTime,       \* bound: the clock stops here, and nothing that times out
                 \* starts when its timeout would lie beyond
  MaxQueries     \* bound: QueryDr answers under way at once

Free == "FREE"       \* no room_calendar row
Blocked == "BLOCKED" \* a BLOCKED row

ASSUME IdentifierAssumption ==
  /\ None \notin Bookings \union Payments \union RefundKeys
  /\ {Free, Blocked} \cap Bookings = {}
ASSUME StayAssumption ==
  /\ RoomOf \in [Bookings -> Rooms]
  /\ StayDates \in [Bookings -> (SUBSET Dates) \ {{}}]
  /\ Dates \subseteq Nat
ASSUME BoundAssumption ==
  /\ Timeout \in Nat \ {0} /\ TicksPerDay \in Nat \ {0}
  /\ BatchLimit \in Nat \ {0} /\ MaxTime \in Nat /\ MaxQueries \in Nat

VARIABLES
  now,
  booking,   \* rows of bookings; status ABSENT before the insert
  payment,   \* rows of payments; status ABSENT before the insert
  refund,    \* the payment_refunds row of each payment
  calendar,  \* <<room, date>> -> the booking holding it, Free or Blocked
  room,      \* rooms.status
  statusChange, \* the manual change of each room's status that is under way
  call,      \* the requestRefund call of each payment, or its answer
  queries,   \* answers of QueryDr that reconciliation has not applied yet
  charge,    \* VNPay: did the customer's payment go through
  gwRefund   \* VNPay: what became of the refund request

rowVars == <<booking, payment, refund, calendar, room>>
wireVars == <<call, queries>>
gatewayVars == <<charge, gwRefund>>
vars == <<now, rowVars, statusChange, wireVars, gatewayVars>>

Slots == Rooms \X Dates

NoBooking == [status |-> "ABSENT", payStatus |-> "UNPAID", accepted |-> None,
              deadline |-> NoTime, byStaff |-> FALSE]
NoPayment == [status |-> "ABSENT", booking |-> None, method |-> None,
              code |-> None, reason |-> None, canonical |-> None,
              captured |-> FALSE, deadline |-> NoTime]
NoRefund == [exists |-> FALSE, key |-> None, previous |-> None]
NoChange == [open |-> FALSE, locked |-> {}, checkedIn |-> FALSE]

\* The fields of a VNPay answer the refund policies look at, for each kind of
\* answer the gateway gives.
Answer == [
  completed   |-> [verified |-> TRUE, success |-> TRUE, code |-> "00",
                   txnStatus |-> "00", type |-> "02", hasTxnId |-> TRUE,
                   amountMatches |-> TRUE],
  accepted    |-> [verified |-> TRUE, success |-> TRUE, code |-> "00",
                   txnStatus |-> "05", type |-> "02", hasTxnId |-> TRUE,
                   amountMatches |-> TRUE],
  refused     |-> [verified |-> TRUE, success |-> TRUE, code |-> "00",
                   txnStatus |-> "09", type |-> "02", hasTxnId |-> TRUE,
                   amountMatches |-> TRUE],
  original    |-> [verified |-> TRUE, success |-> TRUE, code |-> "00",
                   txnStatus |-> "00", type |-> "01", hasTxnId |-> TRUE,
                   amountMatches |-> TRUE],
  busy        |-> [verified |-> TRUE, success |-> FALSE, code |-> "99",
                   txnStatus |-> None, type |-> None, hasTxnId |-> FALSE,
                   amountMatches |-> FALSE],
  unverified  |-> [verified |-> FALSE, success |-> TRUE, code |-> "00",
                   txnStatus |-> "00", type |-> "02", hasTxnId |-> TRUE,
                   amountMatches |-> TRUE]]
AnswerKind == {"completed", "accepted", "refused", "original", "busy",
               "unverified"}

\* What VNPay may answer to the refund request and to QueryDr in each state of
\* the refund; QueryDr may still show the original payment (type 01) while no
\* refund has been settled.
RefundAnswers(g) ==
  CASE g = "processing" -> {"accepted", "busy", "unverified"}
    [] g = "refunded"   -> {"completed", "accepted", "busy", "unverified"}
    [] g = "refused"    -> {"refused", "busy", "unverified"}
    [] OTHER            -> {}
QueryAnswers(g) ==
  CASE g = "none"       -> {"original", "busy", "unverified"}
    [] g = "processing" -> {"original", "accepted", "busy", "unverified"}
    [] OTHER            -> RefundAnswers(g)

Init ==
  /\ now = 0
  /\ booking = [b \in Bookings |-> NoBooking]
  /\ payment = [p \in Payments |-> NoPayment]
  /\ refund = [p \in Payments |-> NoRefund]
  /\ calendar = [s \in Slots |-> Free]
  /\ room = [r \in Rooms |-> "READY"]
  /\ statusChange = [r \in Rooms |-> NoChange]
  /\ call = [p \in Payments |-> "idle"]
  /\ queries = {}
  /\ charge = [p \in Payments |-> "none"]
  /\ gwRefund = [p \in Payments |-> "none"]

-----------------------------------------------------------------------------
(* Row updates shared by several services *)

Today == now \div TicksPerDay
InBound == now + Timeout <= MaxTime
StaySlots(b) == {RoomOf[b]} \X StayDates[b]
PaymentsOf(b) == {p \in Payments : payment[p].booking = b}

\* Mutant of Unlocked: the status change reads the bookings without locking them.
UnlockedAlways(b) == TRUE

\* The booking row can be locked: a status change of the room may hold it.
Unlocked(b) == b \notin statusChange[RoomOf[b]].locked

\* releaseBookingReservations()
Released(B) == [s \in Slots |-> IF calendar[s] \in B THEN Free ELSE calendar[s]]

PendingOnline(p) == payment[p].method = "VNPAY" /\ payment[p].status = "PENDING"
\* Mutant of Overdue: attempts on a confirmed booking are forgotten.
OverdueUnconfirmed(p) ==
  /\ PendingOnline(p) /\ payment[p].deadline <= now
  /\ booking[payment[p].booking].status = "PENDING_PAYMENT"

Overdue(p) == PendingOnline(p) /\ payment[p].deadline <= now

\* Fail the payments of P that are pending online attempts.
FailPending(P, code) ==
  [p \in Payments |-> IF p \in P /\ PendingOnline(p)
                        THEN [payment[p] EXCEPT !.status = "FAILED", !.code = code]
                        ELSE payment[p]]

HasPendingRefund(b) == \E p \in PaymentsOf(b) : payment[p].status = "REFUND_PENDING"

CancelledRow(bk) == [bk EXCEPT !.status = "CANCELLED", !.deadline = NoTime]

\* The booking row when payment p is accepted, manually or by an IPN.
PaidRow(bk, p) ==
  [bk EXCEPT !.payStatus = "PAID", !.accepted = p, !.deadline = NoTime,
             !.status = IF @ = "PENDING_PAYMENT" THEN "CONFIRMED" ELSE @]

-----------------------------------------------------------------------------
(* Bookings *)

\* Mutant of CreateBooking: the free nights are not checked (no unique index).
CreateBookingUnchecked(b, byStaff) ==
  /\ InBound
  /\ booking[b].status = "ABSENT"
  /\ \A d \in StayDates[b] : d >= Today
  /\ room[RoomOf[b]] \notin {"HIDDEN", "MAINTENANCE"}
  /\ booking' = [booking EXCEPT ![b] =
       [status |-> "PENDING_PAYMENT", payStatus |-> "UNPAID", accepted |-> None,
        deadline |-> now + Timeout, byStaff |-> byStaff]]
  /\ calendar' = [s \in Slots |-> IF s \in StaySlots(b) THEN b ELSE calendar[s]]
  /\ UNCHANGED <<now, payment, refund, room, statusChange, wireVars, gatewayVars>>

\* createBooking(): the room is bookable, every night is still free
\* (uq room_calendar room_date), and the stay does not begin in the past.
CreateBooking(b, byStaff) ==
  /\ InBound
  /\ booking[b].status = "ABSENT"
  /\ \A d \in StayDates[b] : d >= Today
  /\ room[RoomOf[b]] \notin {"HIDDEN", "MAINTENANCE"}
  /\ \A s \in StaySlots(b) : calendar[s] = Free
  /\ booking' = [booking EXCEPT ![b] =
       [status |-> "PENDING_PAYMENT", payStatus |-> "UNPAID", accepted |-> None,
        deadline |-> now + Timeout, byStaff |-> byStaff]]
  /\ calendar' = [s \in Slots |-> IF s \in StaySlots(b) THEN b ELSE calendar[s]]
  /\ UNCHANGED <<now, payment, refund, room, statusChange, wireVars, gatewayVars>>

\* Mutant of CancelBooking: a paid booking can be cancelled.
CancelAnyBooking(b) ==
  /\ booking' = [booking EXCEPT ![b] = CancelledRow(@)]
  /\ payment' = FailPending(PaymentsOf(b), "CANCELLED")
  /\ calendar' = Released({b})

\* BookingPaymentLifecycleService.cancelBooking()
CancelBooking(b) ==
  /\ booking[b].payStatus # "PAID"
  /\ booking' = [booking EXCEPT ![b] = CancelledRow(@)]
  /\ payment' = FailPending(PaymentsOf(b), "CANCELLED")
  /\ calendar' = Released({b})

CancelForCustomer(b) ==
  /\ Unlocked(b)
  /\ booking[b].status \in {"PENDING_PAYMENT", "CONFIRMED"}
  /\ CancelBooking(b)
  /\ UNCHANGED <<now, refund, room, statusChange, wireVars, gatewayVars>>

\* BookingLifecycleService.updateStatus(): checking in and out moves the room
\* with the booking, unless it was hidden or put under maintenance.
UpdateBookingStatus(b, target) ==
  LET bk == booking[b]
      r  == RoomOf[b]
  IN
  /\ Unlocked(b)
  /\ TransitionAllowed(bk, target, HasPendingRefund(b), room[r],
                       Today \in StayDates[b])
  /\ \/ /\ target = "CANCELLED"
        /\ CancelBooking(b)
        /\ UNCHANGED room
     \/ /\ target # "CANCELLED"
        /\ booking' = [booking EXCEPT ![b].status = target, ![b].deadline = NoTime]
        /\ room' = [room EXCEPT ![r] =
             CASE target = "CHECKED_IN" -> "OCCUPIED"
               [] target = "CHECKED_OUT" /\ @ \notin {"HIDDEN", "MAINTENANCE"}
                    -> "CLEANING"
               [] OTHER -> @]
        /\ UNCHANGED <<payment, calendar>>
  /\ UNCHANGED <<now, refund, statusChange, wireVars, gatewayVars>>

ExpiredBookings ==
  {b \in Bookings : /\ booking[b].status = "PENDING_PAYMENT"
                    /\ booking[b].payStatus = "UNPAID"
                    /\ booking[b].deadline <= now}

\* One run of the cron: a batch of at most BatchLimit bookings.
ExpireUnpaidBookings ==
  \E B \in SUBSET ExpiredBookings :
    /\ B # {}
    /\ Cardinality(B) <= BatchLimit
    /\ B = ExpiredBookings \/ Cardinality(B) = BatchLimit
    /\ booking' = [b \in Bookings |-> IF b \in B THEN CancelledRow(booking[b])
                                                 ELSE booking[b]]
    /\ payment' = FailPending(UNION {PaymentsOf(b) : b \in B}, "EXPIRED")
    /\ calendar' = Released(B)
    /\ UNCHANGED <<now, refund, room, statusChange, wireVars, gatewayVars>>

-----------------------------------------------------------------------------
(* Collecting a payment *)

\* Mutant of MayStartPayment: another open attempt is no obstacle.
MayStartPaymentBeside(p, b) ==
  /\ payment[p].status = "ABSENT" /\ booking[b].status # "ABSENT"
  /\ CanAcceptPayment(booking[b], now)

\* Both ways of paying first expire the booking's own overdue attempts and
\* refuse while another attempt is still open.
MayStartPayment(p, b) ==
  /\ payment[p].status = "ABSENT" /\ booking[b].status # "ABSENT"
  /\ Unlocked(b)
  /\ \A q \in PaymentsOf(b) : PendingOnline(q) => Overdue(q)
  /\ CanAcceptPayment(booking[b], now)

WithNewPayment(p, b, row) ==
  [FailPending({q \in PaymentsOf(b) : Overdue(q)}, "EXPIRED") EXCEPT ![p] = row]

CreateVnPayPayment(p, b) ==
  /\ InBound
  /\ MayStartPayment(p, b)
  /\ payment' = WithNewPayment(p, b,
       [NoPayment EXCEPT !.status = "PENDING", !.booking = b, !.method = "VNPAY",
          !.deadline = IF booking[b].status = "PENDING_PAYMENT"
                         THEN booking[b].deadline ELSE now + Timeout])
  /\ UNCHANGED <<now, booking, refund, calendar, room, statusChange, wireVars, gatewayVars>>

RecordManualPayment(p, b) ==
  /\ MayStartPayment(p, b)
  /\ payment' = WithNewPayment(p, b,
       [NoPayment EXCEPT !.status = "SUCCESS", !.booking = b, !.method = "MANUAL"])
  /\ booking' = [booking EXCEPT ![b] = PaidRow(@, p)]
  /\ UNCHANGED <<now, refund, calendar, room, statusChange, wireVars, gatewayVars>>

ExpirePendingOnlinePayments ==
  LET Late == {p \in Payments : Overdue(p)} IN
  \E P \in SUBSET Late :
    /\ P # {}
    /\ Cardinality(P) <= BatchLimit
    /\ P = Late \/ Cardinality(P) = BatchLimit
    /\ payment' = FailPending(P, "EXPIRED")
    /\ UNCHANGED <<now, booking, refund, calendar, room, statusChange, wireVars, gatewayVars>>

\* What a new success is compared with: the accepted payment of the booking or,
\* if it has none, some other payment of it that was successful once.
CanonicalPayment(p) ==
  LET b == payment[p].booking
      found == {q \in PaymentsOf(b) \ {p} :
                  payment[q].status \in {"SUCCESS", "REFUND_PENDING", "REFUNDED"}}
  IN CASE booking[b].accepted # None -> {booking[b].accepted}
       [] booking[b].accepted = None /\ found # {} -> found
       [] OTHER -> {None}

CapturedRow(pay, status, reason, canonical) ==
  [pay EXCEPT !.status = status, !.code = "00", !.captured = TRUE,
              !.reason = reason, !.canonical = canonical]

AcceptCaptured(p) ==
  /\ payment' = [payment EXCEPT ![p] = CapturedRow(@, "SUCCESS", None, None)]
  /\ booking' = [booking EXCEPT ![payment[p].booking] = PaidRow(@, p)]

ReviewCaptured(p, reason, canonical) ==
  /\ payment' = [payment EXCEPT ![p] =
       CapturedRow(@, "REQUIRES_REVIEW", reason, canonical)]
  /\ UNCHANGED booking

\* Mutant of ApplyGatewayPaymentOutcome: an accepted payment is not looked for.
ApplyGatewayOutcomeAnyway(p) ==
  IF booking[payment[p].booking].status = "CANCELLED"
    THEN ReviewCaptured(p, "BOOKING_CANCELLED", None)
    ELSE AcceptCaptured(p)

\* applyGatewayPaymentOutcome(): the money is the booking's, unless the booking
\* is cancelled or another payment is already its accepted one.
ApplyGatewayPaymentOutcome(p) ==
  LET cancelled == booking[payment[p].booking].status = "CANCELLED" IN
  \E canonical \in CanonicalPayment(p) :
    \/ /\ cancelled
       /\ ReviewCaptured(p, "BOOKING_CANCELLED", None)
    \/ /\ ~cancelled /\ canonical \notin {None, p}
       /\ ReviewCaptured(p, "ANOTHER_SUCCESSFUL_PAYMENT", canonical)
    \/ /\ ~cancelled /\ canonical \in {None, p}
       /\ AcceptCaptured(p)

\* Mutant of AwaitsOutcome: an attempt we closed is closed.
AwaitsFirstOutcome(p) == payment[p].status = "PENDING"

\* A failure closed by us, not by the gateway, can still turn into a success.
AwaitsOutcome(p) ==
  \/ payment[p].status = "PENDING"
  \/ /\ payment[p].status = "FAILED" /\ charge[p] = "paid"
     /\ payment[p].code \in {"EXPIRED", "CANCELLED"}

\* processVnPayCallback(): the IPN reports what the customer's attempt came to.
\* It may arrive late, again, or never; a second delivery changes nothing.
VnPayIpn(p) ==
  /\ charge[p] # "none"
  /\ AwaitsOutcome(p)
  /\ Unlocked(payment[p].booking)
  /\ \/ /\ charge[p] = "paid"
        /\ ApplyGatewayPaymentOutcome(p)
     \/ /\ charge[p] = "declined"
        /\ payment' = [payment EXCEPT ![p].status = "FAILED", ![p].code = "24",
                         ![p].reason = None, ![p].canonical = None]
        /\ UNCHANGED booking
  /\ UNCHANGED <<now, refund, calendar, room, statusChange, wireVars, gatewayVars>>

-----------------------------------------------------------------------------
(* Refunds *)

\* Mutant of CompleteRefund: the booking keeps its nights.
CompleteRefundInPlace(p, ref) ==
  LET b == payment[p].booking IN
  /\ payment' = [payment EXCEPT ![p].status = "REFUNDED"]
  /\ UNCHANGED calendar
  /\ IF IsDuplicateCharge(p, payment[p], ref)
       THEN UNCHANGED booking
       ELSE booking' = [booking EXCEPT ![b] =
              [CancelledRow(@) EXCEPT !.payStatus = "REFUNDED"]]

\* completeRefund(): a duplicate charge leaves the booking alone, any other
\* refund cancels it and gives its nights back.
CompleteRefund(p, ref) ==
  LET b == payment[p].booking IN
  /\ payment' = [payment EXCEPT ![p].status = "REFUNDED"]
  /\ IF IsDuplicateCharge(p, payment[p], ref)
       THEN UNCHANGED <<booking, calendar>>
       ELSE /\ booking' = [booking EXCEPT ![b] =
                 [CancelledRow(@) EXCEPT !.payStatus = "REFUNDED"]]
            /\ calendar' = Released({b})

RefundManual(p) ==
  /\ payment[p].method = "MANUAL"
  /\ Unlocked(payment[p].booking)
  /\ ~refund[p].exists
  /\ ManualRefundAllowed(booking[payment[p].booking], payment[p])
  /\ refund' = [refund EXCEPT ![p].exists = TRUE]
  /\ CompleteRefund(p, refund'[p])
  /\ UNCHANGED <<now, room, statusChange, wireVars, gatewayVars>>

\* lockCanonicalPayment() of the refund service
CanonicalStillSuccessful(p) ==
  LET c == payment[p].canonical IN
  /\ EligibleForResolution(p, payment[p], refund[p])
  /\ c \in PaymentsOf(payment[p].booking) /\ payment[c].status = "SUCCESS"

\* prepareVnPayRefund(), the outcome NEW: commit REFUND_PENDING before calling
\* the gateway.  The other outcomes change nothing; a replay reconciles.
PrepareVnPayRefund(p, key, capability) ==
  LET pay == payment[p] IN
  /\ pay.method = "VNPAY"
  /\ Unlocked(pay.booking)
  /\ pay.status \notin {"REFUNDED", "REFUND_PENDING"}
  /\ \A q \in Payments \ {p} : refund[q].key # key
  /\ ~refund[p].exists
  /\ IF capability = "DUPLICATE_CHARGE_REFUND"
       THEN CanonicalStillSuccessful(p)
       ELSE VnPayRefundAllowed(booking[pay.booking], pay)
  /\ refund' = [refund EXCEPT ![p] =
       [exists |-> TRUE, key |-> key, previous |-> pay.status]]
  /\ payment' = [payment EXCEPT ![p].status = "REFUND_PENDING"]
  /\ call' = [call EXCEPT ![p] = "ready"]
  /\ UNCHANGED <<now, booking, calendar, room, statusChange, queries, gatewayVars>>

\* requestRefund() leaves the process ...
SendRefund(p) ==
  /\ call[p] = "ready"
  /\ call' = [call EXCEPT ![p] = "waiting"]
  /\ gwRefund' = [gwRefund EXCEPT ![p] = "processing"]
  /\ UNCHANGED <<now, rowVars, statusChange, queries, charge>>

\* ... or never does, or its answer never comes back: the process crashed, the
\* connection failed or withVnPayDeadline() gave up.
LoseRefundCall(p) ==
  /\ call[p] \in {"ready", "waiting"}
  /\ call' = [call EXCEPT ![p] = "lost"]
  /\ UNCHANGED <<now, rowVars, statusChange, queries, gatewayVars>>

RestoredStatus(p) ==
  IF refund[p].previous = "REQUIRES_REVIEW" THEN "REQUIRES_REVIEW" ELSE "SUCCESS"

Restore(p) ==
  /\ payment' = [payment EXCEPT ![p].status = RestoredStatus(p)]
  /\ UNCHANGED <<booking, calendar>>

ApplyVnPayRefundResult(p) ==
  /\ call[p] \in AnswerKind
  /\ Unlocked(payment[p].booking)
  /\ LET r == Answer[call[p]]
         pending == payment[p].status = "REFUND_PENDING"
     IN \/ /\ pending /\ IsSuccessfulVnPayRefund(r)
           /\ CompleteRefund(p, refund[p])
        \/ /\ pending /\ ~IsSuccessfulVnPayRefund(r) /\ ~IsAmbiguousVnPayResult(r)
           /\ Restore(p)
        \/ /\ ~pending \/ (~IsSuccessfulVnPayRefund(r) /\ IsAmbiguousVnPayResult(r))
           /\ UNCHANGED <<payment, booking, calendar>>
  /\ call' = [call EXCEPT ![p] = "closed"]
  /\ UNCHANGED <<now, refund, room, statusChange, queries, gatewayVars>>

\* reconcileVnPayRefund(): the status is read without a lock, QueryDr answers
\* with what the gateway knows at that moment ...
QueryRefund(p, kind) ==
  /\ payment[p].method = "VNPAY" /\ payment[p].status = "REFUND_PENDING"
  /\ kind \in QueryAnswers(gwRefund[p])
  /\ Cardinality(queries) < MaxQueries
  /\ <<p, kind>> \notin queries
  /\ queries' = queries \union {<<p, kind>>}
  /\ UNCHANGED <<now, rowVars, statusChange, call, gatewayVars>>

\* ... and applyVnPayReconciliation() uses it later, or not at all.
ApplyVnPayReconciliation(p, kind) ==
  /\ <<p, kind>> \in queries
  /\ Unlocked(payment[p].booking)
  /\ queries' = queries \ {<<p, kind>>}
  /\ LET r == Answer[kind]
         pending == payment[p].status = "REFUND_PENDING"
     IN \/ /\ pending /\ IsSuccessfulVnPayRefund(r)
           /\ CompleteRefund(p, refund[p])
        \/ /\ pending /\ ~IsSuccessfulVnPayRefund(r) /\ ~IsAmbiguousVnPayResult(r)
           /\ r.type = "02"
           /\ Restore(p)
        \/ /\ \/ ~pending
              \/ /\ ~IsSuccessfulVnPayRefund(r)
                 /\ IsAmbiguousVnPayResult(r) \/ r.type # "02"
           /\ UNCHANGED <<payment, booking, calendar>>
  /\ UNCHANGED <<now, refund, room, statusChange, call, gatewayVars>>

-----------------------------------------------------------------------------
(* Rooms *)

StayBookings(r) ==
  {b \in Bookings : RoomOf[b] = r /\ booking[b].status \in {"CONFIRMED", "CHECKED_IN"}}

\* RoomMutationService.updateStatus() first locks the bookings of the room that
\* are confirmed or checked in.  A booking that becomes so from here on is not
\* seen: at READ COMMITTED nothing but the rows found is locked ...
LockStayBookings(r) ==
  /\ ~statusChange[r].open
  /\ statusChange' = [statusChange EXCEPT ![r] =
       [open |-> TRUE, locked |-> StayBookings(r),
        checkedIn |-> \E b \in StayBookings(r) : booking[b].status = "CHECKED_IN"]]
  /\ UNCHANGED <<now, rowVars, wireVars, gatewayVars>>

\* ... then the room, whose newest status it checks and replaces; the commit
\* lets the bookings go.
UpdateRoomStatus(r, next, role) ==
  /\ statusChange[r].open
  /\ room[r] # next
  /\ RoomTransitionAllowed(room[r], next, role, statusChange[r].checkedIn)
  /\ room' = [room EXCEPT ![r] = next]
  /\ statusChange' = [statusChange EXCEPT ![r] = NoChange]
  /\ UNCHANGED <<now, booking, payment, refund, calendar, wireVars, gatewayVars>>

\* The change is refused, asks for the status the room has, or is rolled back.
EndStatusChange(r) ==
  /\ statusChange[r].open
  /\ statusChange' = [statusChange EXCEPT ![r] = NoChange]
  /\ UNCHANGED <<now, rowVars, wireVars, gatewayVars>>

DateRange(from, to) == {d \in Dates : from <= d /\ d < to}

\* RoomAvailabilityService.block() and unblock()
BlockDates(r, range) ==
  /\ range # {}
  /\ \A d \in range : calendar[<<r, d>>] = Free
  /\ calendar' = [s \in Slots |-> IF s[1] = r /\ s[2] \in range THEN Blocked
                                                              ELSE calendar[s]]
  /\ UNCHANGED <<now, booking, payment, refund, room, statusChange, wireVars, gatewayVars>>

UnblockDates(r, range) ==
  /\ \E d \in range : calendar[<<r, d>>] = Blocked
  /\ calendar' = [s \in Slots |->
       IF s[1] = r /\ s[2] \in range /\ calendar[s] = Blocked THEN Free
                                                              ELSE calendar[s]]
  /\ UNCHANGED <<now, booking, payment, refund, room, statusChange, wireVars, gatewayVars>>

-----------------------------------------------------------------------------
(* The customer at VNPay, VNPay itself, and time *)

\* The redirect URL lives until the gateway closes it: the customer may pay an
\* attempt we already gave up.
CustomerPays(p, outcome) ==
  /\ payment[p].method = "VNPAY" /\ charge[p] = "none"
  /\ charge' = [charge EXCEPT ![p] = outcome]
  /\ UNCHANGED <<now, rowVars, statusChange, wireVars, gwRefund>>

GatewaySettlesRefund(p, outcome) ==
  /\ gwRefund[p] = "processing"
  /\ gwRefund' = [gwRefund EXCEPT ![p] = outcome]
  /\ UNCHANGED <<now, rowVars, statusChange, wireVars, charge>>

GatewayAnswersRefund(p, kind) ==
  /\ call[p] = "waiting"
  /\ kind \in RefundAnswers(gwRefund[p])
  /\ call' = [call EXCEPT ![p] = kind]
  /\ UNCHANGED <<now, rowVars, statusChange, queries, gatewayVars>>

Tick ==
  /\ now < MaxTime
  /\ now' = now + 1
  /\ UNCHANGED <<rowVars, statusChange, wireVars, gatewayVars>>

-----------------------------------------------------------------------------
BookingNext ==
  \E b \in Bookings :
    \/ \E byStaff \in BOOLEAN : CreateBooking(b, byStaff)
    \/ CancelForCustomer(b)
    \/ \E target \in BookingStatus : UpdateBookingStatus(b, target)
    \/ \E p \in Payments : CreateVnPayPayment(p, b) \/ RecordManualPayment(p, b)

PaymentNext ==
  \E p \in Payments :
    \/ VnPayIpn(p)
    \/ RefundManual(p)
    \/ \E key \in RefundKeys,
          capability \in {"STANDARD_REFUND", "DUPLICATE_CHARGE_REFUND"} :
         PrepareVnPayRefund(p, key, capability)
    \/ SendRefund(p)
    \/ LoseRefundCall(p)
    \/ ApplyVnPayRefundResult(p)
    \/ \E kind \in AnswerKind : \/ QueryRefund(p, kind)
                                \/ ApplyVnPayReconciliation(p, kind)

RoomNext ==
  \E r \in Rooms :
    \/ LockStayBookings(r)
    \/ EndStatusChange(r)
    \/ \E next \in RoomStatus, role \in {"ADMIN", "STAFF"} :
         UpdateRoomStatus(r, next, role)
    \/ \E from, to \in Dates \union {d + 1 : d \in Dates} :
         \/ BlockDates(r, DateRange(from, to))
         \/ UnblockDates(r, DateRange(from, to))

GatewayNext ==
  \E p \in Payments :
    \/ \E outcome \in {"paid", "declined"} : CustomerPays(p, outcome)
    \/ \E outcome \in {"refunded", "refused"} : GatewaySettlesRefund(p, outcome)
    \/ \E kind \in AnswerKind : GatewayAnswersRefund(p, kind)

Next == \/ BookingNext \/ PaymentNext \/ RoomNext \/ GatewayNext
        \/ ExpireUnpaidBookings \/ ExpirePendingOnlinePayments \/ Tick

Spec == Init /\ [][Next]_vars

=============================================================================
