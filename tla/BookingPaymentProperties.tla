---------------------- MODULE BookingPaymentProperties ----------------------
(***************************************************************************)
(* What the booking, payment, refund and calendar services promise         *)
(* together.  Several of these are the checks of `npm run data:audit`      *)
(* (src/src/database/data-audit.ts), stated here of every reachable state  *)
(* instead of being counted after the fact.                                *)
(***************************************************************************)
EXTENDS BookingPayment

BookingRow == [status : BookingStatus \union {"ABSENT"},
               payStatus : BookingPaymentStatus,
               accepted : Payments \union {None},
               deadline : Int, byStaff : BOOLEAN]
PaymentColumns == [status : PaymentStatus \union {"ABSENT"},
                   booking : Bookings \union {None},
                   method : {"VNPAY", "MANUAL", None},
                   code : {"00", "24", "EXPIRED", "CANCELLED", None},
                   reason : ReviewReason \union {None},
                   canonical : Payments \union {None},
                   captured : BOOLEAN, deadline : Int]
PaymentRow == {row \in PaymentColumns :
                 row.status # "ABSENT" => row.booking \in Bookings}
RefundRow == [exists : BOOLEAN, key : RefundKeys \union {None},
              previous : PaymentStatus \union {"ABSENT", None}]

\* The shape of every table and of what is under way with the gateway.
TypeOK ==
  /\ now \in Nat
  /\ booking \in [Bookings -> BookingRow]
  /\ payment \in [Payments -> PaymentRow]
  /\ refund \in [Payments -> RefundRow]
  /\ calendar \in [Slots -> Bookings \union {Free, Blocked}]
  /\ room \in [Rooms -> RoomStatus]
  /\ statusChange \in [Rooms -> [open : BOOLEAN, locked : SUBSET Bookings,
                                 checkedIn : BOOLEAN]]
  /\ call \in [Payments -> {"idle", "ready", "waiting", "lost", "closed"}
                             \union AnswerKind]
  /\ queries \subseteq Payments \X AnswerKind
  /\ charge \in [Payments -> {"none", "paid", "declined"}]
  /\ gwRefund \in [Payments -> {"none", "processing", "refunded", "refused"}]

-----------------------------------------------------------------------------
(* Safety *)

HoldsNights(b) == booking[b].status \notin {"ABSENT", "CANCELLED"}

\* data:audit active-booking-calendar and cancelled-booking-calendar: a booking
\* owns exactly the nights of its stay while it lives, and none once it is
\* cancelled, whichever service cancelled it.  Two live bookings therefore
\* never share a night.
CalendarMatchesBookings ==
  \A b \in Bookings, s \in Slots :
    calendar[s] = b <=> HoldsNights(b) /\ s \in StaySlots(b)

\* The payment p is the booking's money: it was accepted, and a refund of it
\* has not gone through.
Keeps(p) == \/ payment[p].status = "SUCCESS"
            \/ payment[p].status = "REFUND_PENDING" /\ refund[p].previous = "SUCCESS"

\* data:audit booking-payment-status and single-success-payment: a booking is
\* PAID exactly when its accepted payment keeps the money, at most one payment
\* is kept per booking, and a REFUNDED booking has a refunded payment.
BookingAgreesWithPayments ==
  \A b \in Bookings :
    /\ booking[b].payStatus = "PAID" <=> \E p \in PaymentsOf(b) : Keeps(p)
    /\ \A p \in PaymentsOf(b) : Keeps(p) => booking[b].accepted = p
    /\ booking[b].payStatus = "REFUNDED" =>
         /\ booking[b].status = "CANCELLED"
         /\ \E p \in PaymentsOf(b) : payment[p].status = "REFUNDED"

\* Money VNPay took from the customer is on record, or the next IPN can still
\* record it: expiring or cancelling an attempt never closes it for good.
CapturedMoneyIsNotLost ==
  \A p \in Payments : charge[p] = "paid" =>
    \/ AwaitsOutcome(p)
    \/ payment[p].captured /\ payment[p].status \in
         {"SUCCESS", "REQUIRES_REVIEW", "REFUND_PENDING", "REFUNDED"}

\* A booking has at most one open VNPay attempt, and none once it was cancelled
\* or expired without having been paid.  (A refund does not close attempts: see
\* the README.)
OpenAttempts ==
  \A b \in Bookings :
    /\ \A p, q \in PaymentsOf(b) : PendingOnline(p) /\ PendingOnline(q) => p = q
    /\ booking[b].status = "CANCELLED" /\ booking[b].payStatus = "UNPAID" =>
         \A p \in PaymentsOf(b) : ~PendingOnline(p)

Guests(r) == {b \in Bookings : RoomOf[b] = r /\ booking[b].status = "CHECKED_IN"}

\* One half of data:audit room-occupancy: no room is OCCUPIED without a guest.
OccupiedRoomsHaveGuests == \A r \in Rooms : room[r] = "OCCUPIED" => Guests(r) # {}

\* While VNPay has not decided about the accepted payment, the booking stays
\* where it was: paid, not started, not cancelled.
PendingRefundFreezesBooking ==
  \A p \in Payments :
    payment[p].status = "REFUND_PENDING" /\ refund[p].previous = "SUCCESS" =>
      LET bk == booking[payment[p].booking]
      IN bk.payStatus = "PAID" /\ bk.accepted = p /\ bk.status = "CONFIRMED"

RefundAgrees(p) ==
  payment[p].method = "VNPAY" /\ refund[p].exists =>
    /\ payment[p].status = "REFUNDED" => gwRefund[p] = "refunded"
    /\ payment[p].status \in {"SUCCESS", "REQUIRES_REVIEW"} => gwRefund[p] = "refused"

\* A VNPay payment is REFUNDED only if VNPay gave the money back, and a refused
\* request puts the payment back only if VNPay did refuse it.
RefundMatchesGateway == \A p \in Payments : RefundAgrees(p)

-----------------------------------------------------------------------------
(* What a step may never do *)

\* The accepted payment of a booking is decided once: no later IPN, manual
\* payment or refund makes another payment the accepted one.
AcceptedPaymentFixed ==
  [][\A b \in Bookings : booking[b].accepted # None =>
       booking'[b].accepted = booking[b].accepted]_vars

\* A paid booking loses its room only by refunding the payment it was accepted
\* for, and a guest who has checked in leaves only by checking out.
PaidStayIsHonoured ==
  [][\A b \in Bookings :
       /\ booking[b].payStatus = "PAID" =>
            \/ booking'[b].payStatus = "PAID" /\ booking'[b].status # "CANCELLED"
            \/ payment'[booking[b].accepted].status = "REFUNDED"
       /\ booking[b].status = "CHECKED_IN" =>
            booking'[b].status \in {"CHECKED_IN", "CHECKED_OUT"}]_vars

\* Check-ins, check-outs and manual changes of the room status meet in any order:
\* no room is left OCCUPIED by nobody, and an OCCUPIED room stops being OCCUPIED
\* only because a guest of it checks out, or by a manual change of its status that
\* had locked the bookings of the room before any of its guests was confirmed.
\* (By that exception room-occupancy fails: see the README.)
GuestsKeepTheirRooms ==
  [][\A r \in Rooms :
       /\ room'[r] = "OCCUPIED" => Guests(r)' # {}
       /\ room[r] = "OCCUPIED" /\ room'[r] # "OCCUPIED" =>
            \/ \E b \in Guests(r) : booking'[b].status = "CHECKED_OUT"
            \/ statusChange[r].open /\ Guests(r) \cap statusChange[r].locked = {}]_vars

-----------------------------------------------------------------------------
(* Why the money invariants hold: the inductive invariant behind them *)

\* The payment p waits for a decision of the staff, or for VNPay to carry it out.
Reviewed(p) ==
  \/ payment[p].status = "REQUIRES_REVIEW"
  \/ payment[p].status = "REFUND_PENDING" /\ refund[p].previous = "REQUIRES_REVIEW"

\* What the stage of a booking says about its money, and its money about its
\* accepted payment.
BookingMoney(b) ==
  LET bk == booking[b] IN
  /\ bk.status \in {"ABSENT", "PENDING_PAYMENT"} => bk.payStatus = "UNPAID"
  /\ bk.status \in {"CHECKED_IN", "CHECKED_OUT"} => bk.payStatus = "PAID"
  /\ bk.status = "CANCELLED" => bk.payStatus # "PAID"
  /\ bk.payStatus = "UNPAID" => bk.accepted = None
  /\ bk.payStatus = "PAID" => /\ bk.accepted \in PaymentsOf(b)
                             /\ Keeps(bk.accepted)
  /\ bk.payStatus = "REFUNDED" =>
       /\ bk.status = "CANCELLED"
       /\ bk.accepted # None => payment[bk.accepted].status = "REFUNDED"
       /\ \E p \in PaymentsOf(b) : payment[p].status = "REFUNDED"

\* What the status of a payment says about its booking and its refund.
PaymentMoney(p) ==
  LET pay == payment[p]
      bk == booking[pay.booking]
  IN
  /\ pay.status # "ABSENT" => bk.status # "ABSENT"
  /\ Keeps(p) => bk.payStatus = "PAID" /\ bk.accepted = p
  /\ Keeps(p) /\ pay.status = "REFUND_PENDING" => bk.status = "CONFIRMED"
  /\ pay.status = "REFUND_PENDING" =>
       refund[p].previous \in {"SUCCESS", "REQUIRES_REVIEW"}
  /\ Reviewed(p) =>
       \/ pay.reason = "BOOKING_CANCELLED" /\ bk.status = "CANCELLED"
       \/ pay.reason = "ANOTHER_SUCCESSFUL_PAYMENT" /\ pay.canonical \notin {None, p}
  /\ ~refund[p].exists => refund[p].previous = None

MoneyInvariant == /\ \A b \in Bookings : BookingMoney(b)
                  /\ \A p \in Payments : PaymentMoney(p)

-----------------------------------------------------------------------------
(* Why rooms keep their guests: what a manual change of the status knows.    *)

\* The bookings it has locked stay as it found them, so that it knows which of
\* them are checked in, and nothing of the others.
ChangeInvariant ==
  \A r \in Rooms :
    /\ statusChange[r].locked \subseteq StayBookings(r)
    /\ statusChange[r].checkedIn <=> Guests(r) \cap statusChange[r].locked # {}

-----------------------------------------------------------------------------
(* Why the records agree with VNPay: what is recorded of a payment, and what *)
(* is under way about its refund, in the terms of what VNPay has done.       *)

Recorded == {"SUCCESS", "REQUIRES_REVIEW", "REFUND_PENDING", "REFUNDED"}

\* Only an online attempt is ever charged.  One that is recorded was captured, and
\* one that failed was closed by us, and may still turn out paid, or was declined.
AttemptRecord(p) ==
  LET pay == payment[p] IN
  /\ pay.status = "ABSENT" => pay.method = None
  /\ charge[p] # "none" => pay.method = "VNPAY"
  /\ pay.method = "VNPAY" /\ pay.status \in Recorded => pay.captured
  /\ pay.method = "VNPAY" /\ pay.status = "FAILED" =>
       pay.code \in {"EXPIRED", "CANCELLED"} \/ charge[p] = "declined"

\* Somebody holds this answer to a refund of p: requestRefund() or a reconciliation.
Told(p, kind) == call[p] = kind \/ <<p, kind>> \in queries

\* Nothing is asked of VNPay before the refund is on record, its request leaves at
\* most once, and no answer under way contradicts what VNPay decided.
RefundRecord(p) ==
  /\ refund[p].exists => payment[p].status \in Recorded
  /\ ~refund[p].exists => call[p] = "idle" /\ gwRefund[p] = "none"
  /\ call[p] = "ready" => gwRefund[p] = "none"
  /\ call[p] # "original"
  /\ Told(p, "completed") => gwRefund[p] = "refunded"
  /\ Told(p, "refused") => gwRefund[p] = "refused"

GatewayInvariant ==
  \A p \in Payments : AttemptRecord(p) /\ RefundRecord(p) /\ RefundAgrees(p)

-----------------------------------------------------------------------------
(* The contract BookingPayment implements *)

Contract == INSTANCE StayContract WITH
  Stays <- Bookings, NightsOf <- [b \in Bookings |-> StaySlots(b)],
  Nobody <- Free, Owner <- Blocked,
  stage <- [b \in Bookings |-> booking[b].status],
  money <- [b \in Bookings |-> booking[b].payStatus],
  holder <- calendar

\* Payments, IPNs, refunds in progress, crons and blocked nights together never
\* do to a booking more than the contract allows.
ImplementsStayContract == Contract!Spec

-----------------------------------------------------------------------------
(* The checks of data:audit, translated from their SQL: the rows that each  *)
(* of them counts.                                                          *)

ActiveBookingCalendar ==
  {b \in Bookings : /\ booking[b].status \in {"PENDING_PAYMENT", "CONFIRMED", "CHECKED_IN"}
                    /\ Cardinality({d \in Dates : calendar[<<RoomOf[b], d>>] = b})
                         # Cardinality(StayDates[b])}

CancelledBookingCalendar ==
  {b \in Bookings : booking[b].status = "CANCELLED" /\ \E s \in Slots : calendar[s] = b}

SingleSuccessPayment ==
  {b \in Bookings : \E p, q \in PaymentsOf(b) :
     p # q /\ payment[p].status = "SUCCESS" /\ payment[q].status = "SUCCESS"}

BookingPaymentStatusCheck ==
  LET kept(b) == \E p \in PaymentsOf(b) : Keeps(p)
      refunded(b) == \E p \in PaymentsOf(b) : payment[p].status = "REFUNDED"
  IN {b \in Bookings :
        \/ booking[b].payStatus = "PAID" /\ ~kept(b)
        \/ booking[b].payStatus = "REFUNDED" /\ ~refunded(b)
        \/ booking[b].payStatus = "UNPAID" /\ (kept(b) \/ refunded(b))}

PaymentRefundLineage ==
  {p \in Payments : payment[p].status \in {"REFUND_PENDING", "REFUNDED"} /\ ~refund[p].exists}

OccupiedWithoutGuest == {r \in Rooms : room[r] = "OCCUPIED" /\ Guests(r) = {}}
GuestWithoutOccupied ==
  {b \in Bookings : booking[b].status = "CHECKED_IN" /\ room[RoomOf[b]] # "OCCUPIED"}

\* Five checks and the first half of room-occupancy find nothing, whenever the
\* audit runs.
AuditFindsNothing ==
  /\ ActiveBookingCalendar = {} /\ CancelledBookingCalendar = {}
  /\ SingleSuccessPayment = {} /\ BookingPaymentStatusCheck = {}
  /\ PaymentRefundLineage = {} /\ OccupiedWithoutGuest = {}

\* Why they find nothing: a refunded payment, or one found to be a second
\* charge, has a booking that was paid for; and a refund leaves its record.
PaidOnce(p) ==
  /\ payment[p].status = "REFUNDED" \/ payment[p].reason = "ANOTHER_SUCCESSFUL_PAYMENT"
       => booking[payment[p].booking].payStatus # "UNPAID"
  /\ payment[p].status = "REFUNDED" => refund[p].exists

AuditInvariant == \A p \in Payments : payment[p].status # "ABSENT" => PaidOnce(p)

-----------------------------------------------------------------------------
(* The audit checks the code does not keep *)

\* data:audit room-occupancy, translated from its SQL.  "Locking every
\* CONFIRMED/CHECKED_IN candidate closes the race where a check-in and a manual
\* Room transition start at the same time." (room-mutation.service.ts:240): a
\* room is OCCUPIED exactly while a booking of it is CHECKED_IN.
RoomOccupancyAgrees == OccupiedWithoutGuest = {} /\ GuestWithoutOccupied = {}

\* data:audit payment-lineage, "Each accepted payment lineage is represented by
\* the booking authority pointer", translated from its SQL: a booking without
\* an accepted payment has no payment that is SUCCESS, REFUND_PENDING or
\* REFUNDED, and an accepted payment is one of these.
PaymentLineageAudit ==
  \A b \in Bookings :
    LET lineage == {p \in PaymentsOf(b) :
          payment[p].status \in {"SUCCESS", "REFUND_PENDING", "REFUNDED"}}
    IN IF booking[b].accepted = None THEN lineage = {}
                                     ELSE booking[b].accepted \in lineage

-----------------------------------------------------------------------------
(* Liveness *)

\* Both crons run every minute (EVERY_MINUTE, waitForCompletion) and time does
\* not stop; nothing else is assumed to happen.
Fairness == /\ WF_vars(Tick)
            /\ WF_vars(ExpireUnpaidBookings)
            /\ WF_vars(ExpirePendingOnlinePayments)

FairSpec == Spec /\ Fairness

\* An unpaid booking does not hold its nights forever: it is paid, confirmed by
\* staff, cancelled, or expired by the cron.
UnpaidBookingsEnd ==
  \A b \in Bookings :
    (booking[b].status = "PENDING_PAYMENT") ~> (booking[b].status # "PENDING_PAYMENT")

\* An open VNPay attempt closes, so that it cannot block the next one forever.
AttemptsClose ==
  \A p \in Payments : PendingOnline(p) ~> ~PendingOnline(p)

\* What has been left unpaid ends: the crons close bookings as well as attempts,
\* those on bookings that staff have confirmed included.
OverdueIsClosed == UnpaidBookingsEnd /\ AttemptsClose

=============================================================================
