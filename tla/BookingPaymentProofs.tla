------------------------ MODULE BookingPaymentProofs ------------------------
(***************************************************************************)
(* Theorems about BookingPayment, for every number of bookings, payments,  *)
(* rooms and nights and every timeout: types, the calendar, where the      *)
(* money of a booking is (MoneyInvariant), and why data:audit finds        *)
(* nothing.  The proof of an invariant has one step per action; what       *)
(* several actions share is a lemma.                                       *)
(***************************************************************************)
EXTENDS BookingPaymentProperties, TLAPS

(* Type correctness: first the rows, then the tables, then every action.   *)

\* NULL is stored as an integer.
LEMMA NoTimeType == NoTime \in Int
  BY DEF NoTime

\* No manual change of a room is under way.
LEMMA NoChangeType == NoChange \in [open : BOOLEAN, locked : SUBSET Bookings, checkedIn : BOOLEAN]
  BY DEF NoChange

\* The rows written when a booking is cancelled, refunded or paid.
LEMMA BookingRowType ==
  ASSUME NEW bk \in BookingRow, NEW p \in Payments
  PROVE  /\ CancelledRow(bk) \in BookingRow
         /\ [CancelledRow(bk) EXCEPT !.payStatus = "REFUNDED"] \in BookingRow
         /\ PaidRow(bk, p) \in BookingRow
  <1>1. CancelledRow(bk) \in BookingRow
    BY NoTimeType DEF BookingRow, BookingStatus, CancelledRow
  <1>2. [CancelledRow(bk) EXCEPT !.payStatus = "REFUNDED"] \in BookingRow
    BY <1>1 DEF BookingRow, BookingPaymentStatus
  <1>3. PaidRow(bk, p) \in BookingRow
    BY NoTimeType DEF BookingRow, BookingStatus, BookingPaymentStatus, PaidRow
  <1> QED BY <1>1, <1>2, <1>3

\* The rows written when a payment fails, moves, or takes a gateway outcome.
LEMMA PaymentRowType ==
  ASSUME NEW row \in PaymentRow, row.status # "ABSENT"
  PROVE  /\ \A code \in {"EXPIRED", "CANCELLED"} :
              [row EXCEPT !.status = "FAILED", !.code = code] \in PaymentRow
         /\ \A status \in PaymentStatus : [row EXCEPT !.status = status] \in PaymentRow
         /\ \A status \in PaymentStatus, reason \in ReviewReason \union {None},
               canonical \in Payments \union {None} :
              CapturedRow(row, status, reason, canonical) \in PaymentRow
         /\ [row EXCEPT !.status = "FAILED", !.code = "24", !.reason = None,
                        !.canonical = None] \in PaymentRow
  <1>1. ASSUME NEW code \in {"EXPIRED", "CANCELLED"}
        PROVE  [row EXCEPT !.status = "FAILED", !.code = code] \in PaymentRow
    BY DEF PaymentRow, PaymentColumns, PaymentStatus
  <1>2. ASSUME NEW status \in PaymentStatus
        PROVE  [row EXCEPT !.status = status] \in PaymentRow
    BY DEF PaymentRow, PaymentColumns
  <1>3. ASSUME NEW status \in PaymentStatus, NEW reason \in ReviewReason \union {None},
               NEW canonical \in Payments \union {None}
        PROVE  CapturedRow(row, status, reason, canonical) \in PaymentRow
    BY DEF PaymentRow, PaymentColumns, CapturedRow
  <1>4. [row EXCEPT !.status = "FAILED", !.code = "24", !.reason = None,
                    !.canonical = None] \in PaymentRow
    BY DEF PaymentRow, PaymentColumns, PaymentStatus
  <1> QED BY <1>1, <1>2, <1>3, <1>4

\* Failing open attempts keeps the payments table a payments table.
LEMMA FailPendingType ==
  ASSUME TypeOK, NEW P, NEW code \in {"EXPIRED", "CANCELLED"}
  PROVE  FailPending(P, code) \in [Payments -> PaymentRow]
  <1>1. payment \in [Payments -> PaymentRow]
    BY DEF TypeOK
  <1>2. \A p \in Payments : PendingOnline(p) =>
          [payment[p] EXCEPT !.status = "FAILED", !.code = code] \in PaymentRow
    BY <1>1, PaymentRowType DEF PendingOnline
  <1> QED BY <1>1, <1>2 DEF FailPending

\* Giving nights back leaves every night with a booking, blocked or free.
LEMMA ReleasedType ==
  ASSUME TypeOK, NEW B
  PROVE  Released(B) \in [Slots -> Bookings \union {Free, Blocked}]
  BY DEF Released, TypeOK

\* A completed refund keeps the three tables it writes well typed.
LEMMA CompleteRefundType ==
  ASSUME TypeOK, NEW p \in Payments, payment[p].status # "ABSENT",
         NEW ref, CompleteRefund(p, ref)
  PROVE  /\ booking' \in [Bookings -> BookingRow]
         /\ payment' \in [Payments -> PaymentRow]
         /\ calendar' \in [Slots -> Bookings \union {Free, Blocked}]
  <1>1. payment' \in [Payments -> PaymentRow]
    <2>1. payment \in [Payments -> PaymentRow] /\ "REFUNDED" \in PaymentStatus
      BY DEF TypeOK, PaymentStatus
    <2> QED BY <2>1, PaymentRowType DEF CompleteRefund
  <1>2. booking' \in [Bookings -> BookingRow]
    <2>1. booking \in [Bookings -> BookingRow]
      BY DEF TypeOK
    <2> QED BY <2>1, BookingRowType DEF CompleteRefund
  <1>3. calendar' \in [Slots -> Bookings \union {Free, Blocked}]
    BY ReleasedType DEF CompleteRefund, TypeOK
  <1> QED BY <1>1, <1>2, <1>3

\* The tables start out well typed.
LEMMA TypeInit == Init => TypeOK
  BY NoTimeType, NoChangeType
  DEF Init, TypeOK, BookingRow, PaymentRow, PaymentColumns, RefundRow, NoBooking, NoPayment,
      NoRefund, BookingPaymentStatus, RoomStatus

\* Every step of a booking keeps them so.
LEMMA BookingTypeStep == TypeOK /\ BookingNext => TypeOK'
  <1> SUFFICES ASSUME TypeOK, NEW b \in Bookings,
                      \/ \E byStaff \in BOOLEAN : CreateBooking(b, byStaff)
                      \/ CancelForCustomer(b)
                      \/ \E target \in BookingStatus : UpdateBookingStatus(b, target)
                      \/ \E p \in Payments : \/ CreateVnPayPayment(p, b)
                                             \/ RecordManualPayment(p, b)
               PROVE  TypeOK'
    BY DEF BookingNext
  <1> USE DEF wireVars, gatewayVars
  <1>0. /\ booking \in [Bookings -> BookingRow] /\ booking[b] \in BookingRow
        /\ payment \in [Payments -> PaymentRow] /\ now \in Nat
        /\ calendar \in [Slots -> Bookings \union {Free, Blocked}]
    BY DEF TypeOK
  <1>1. ASSUME NEW byStaff \in BOOLEAN, CreateBooking(b, byStaff)
        PROVE  TypeOK'
    <2>1. [status |-> "PENDING_PAYMENT", payStatus |-> "UNPAID", accepted |-> None,
           deadline |-> now + Timeout, byStaff |-> byStaff] \in BookingRow
      BY <1>0, BoundAssumption DEF BookingRow, BookingStatus, BookingPaymentStatus
    <2>2. booking' \in [Bookings -> BookingRow]
      BY <1>0, <1>1, <2>1 DEF CreateBooking
    <2>3. calendar' \in [Slots -> Bookings \union {Free, Blocked}]
      BY <1>0, <1>1 DEF CreateBooking
    <2> QED BY <1>1, <2>2, <2>3 DEF CreateBooking, TypeOK
  <1>2. ASSUME CancelBooking(b)
        PROVE  /\ booking' \in [Bookings -> BookingRow]
               /\ payment' \in [Payments -> PaymentRow]
               /\ calendar' \in [Slots -> Bookings \union {Free, Blocked}]
    <2>1. CancelledRow(booking[b]) \in BookingRow
      BY <1>0, NoTimeType DEF BookingRow, BookingStatus, CancelledRow
    <2> QED BY <1>0, <1>2, <2>1, FailPendingType, ReleasedType DEF CancelBooking
  <1>3. CASE CancelForCustomer(b)
    BY <1>2, <1>3 DEF CancelForCustomer, TypeOK
  <1>4. ASSUME NEW target \in BookingStatus, UpdateBookingStatus(b, target)
        PROVE  TypeOK'
    <2>1. CASE target = "CANCELLED"
      BY <1>2, <1>4, <2>1 DEF UpdateBookingStatus, TypeOK
    <2>2. CASE target # "CANCELLED"
      <3>1. booking' \in [Bookings -> BookingRow]
        BY <1>0, <1>4, <2>2, NoTimeType DEF UpdateBookingStatus, BookingRow
      <3>2. room' \in [Rooms -> RoomStatus]
        BY <1>4, <2>2 DEF UpdateBookingStatus, TypeOK, RoomStatus
      <3> QED BY <1>4, <2>2, <3>1, <3>2 DEF UpdateBookingStatus, TypeOK
    <2> QED BY <2>1, <2>2
  <1>5. ASSUME NEW p \in Payments, NEW row \in PaymentRow
        PROVE  WithNewPayment(p, b, row) \in [Payments -> PaymentRow]
    BY FailPendingType DEF WithNewPayment
  <1>6. ASSUME NEW p \in Payments, CreateVnPayPayment(p, b)
        PROVE  TypeOK'
    <2> DEFINE deadline == IF booking[b].status = "PENDING_PAYMENT"
                             THEN booking[b].deadline ELSE now + Timeout
               row == [NoPayment EXCEPT !.status = "PENDING", !.booking = b,
                         !.method = "VNPAY", !.deadline = deadline]
    <2>1. deadline \in Int
      BY <1>0, BoundAssumption DEF BookingRow
    <2> HIDE DEF deadline
    <2>2. row \in PaymentRow
      BY <2>1 DEF NoPayment, PaymentRow, PaymentColumns, PaymentStatus
    <2>3. payment' = WithNewPayment(p, b, row)
      BY <1>6 DEF CreateVnPayPayment, deadline
    <2> HIDE DEF row
    <2>4. payment' \in [Payments -> PaymentRow]
      BY <1>5, <2>2, <2>3
    <2> QED BY <1>6, <2>4 DEF CreateVnPayPayment, TypeOK
  <1>7. ASSUME NEW p \in Payments, RecordManualPayment(p, b)
        PROVE  TypeOK'
    <2> DEFINE row == [NoPayment EXCEPT !.status = "SUCCESS", !.booking = b,
                                        !.method = "MANUAL"]
    <2>1. row \in PaymentRow
      BY NoTimeType DEF NoPayment, PaymentRow, PaymentColumns, PaymentStatus
    <2>2. payment' = WithNewPayment(p, b, row)
      BY <1>7 DEF RecordManualPayment
    <2> HIDE DEF row
    <2>3. payment' \in [Payments -> PaymentRow]
      BY <1>5, <2>1, <2>2
    <2>4. booking' \in [Bookings -> BookingRow]
      BY <1>0, <1>7, BookingRowType DEF RecordManualPayment
    <2> QED BY <1>7, <2>3, <2>4 DEF RecordManualPayment, TypeOK
  <1> QED BY <1>1, <1>3, <1>4, <1>6, <1>7

\* An IPN of a known payment writes a payment row and a booking row.
LEMMA GatewayOutcomeType ==
  ASSUME TypeOK, NEW p \in Payments, payment[p].status # "ABSENT",
         ApplyGatewayPaymentOutcome(p)
  PROVE  /\ booking' \in [Bookings -> BookingRow]
         /\ payment' \in [Payments -> PaymentRow]
  <1> DEFINE b == payment[p].booking
  <1>1. /\ booking \in [Bookings -> BookingRow] /\ payment \in [Payments -> PaymentRow]
        /\ b \in Bookings /\ booking[b].accepted \in Payments \union {None}
    BY DEF TypeOK, PaymentRow, BookingRow
  <1>2. CanonicalPayment(p) \subseteq Payments \union {None}
    BY <1>1 DEF CanonicalPayment, PaymentsOf
  <1>3. PICK canonical \in Payments \union {None} :
          \/ ReviewCaptured(p, "BOOKING_CANCELLED", None)
          \/ ReviewCaptured(p, "ANOTHER_SUCCESSFUL_PAYMENT", canonical)
          \/ AcceptCaptured(p)
    BY <1>2 DEF ApplyGatewayPaymentOutcome
  <1>4. \A status \in {"SUCCESS", "REQUIRES_REVIEW"}, reason \in ReviewReason \union {None},
           c \in Payments \union {None} :
          CapturedRow(payment[p], status, reason, c) \in PaymentRow
    BY <1>1, PaymentRowType DEF PaymentStatus
  <1>5. ASSUME NEW reason \in ReviewReason, NEW c \in Payments \union {None},
               ReviewCaptured(p, reason, c)
        PROVE  booking' \in [Bookings -> BookingRow] /\ payment' \in [Payments -> PaymentRow]
    BY <1>1, <1>4, <1>5 DEF ReviewCaptured
  <1>6. ASSUME AcceptCaptured(p)
        PROVE  booking' \in [Bookings -> BookingRow] /\ payment' \in [Payments -> PaymentRow]
    BY <1>1, <1>4, <1>6, BookingRowType DEF AcceptCaptured
  <1> QED BY <1>3, <1>5, <1>6 DEF ReviewReason

\* Every step of a payment or of its refund keeps the tables well typed.
LEMMA PaymentTypeStep == TypeOK /\ PaymentNext => TypeOK'
  <1> SUFFICES ASSUME TypeOK, NEW p \in Payments,
                      \/ VnPayIpn(p)
                      \/ RefundManual(p)
                      \/ \E key \in RefundKeys,
                            capability \in {"STANDARD_REFUND", "DUPLICATE_CHARGE_REFUND"} :
                           PrepareVnPayRefund(p, key, capability)
                      \/ SendRefund(p)
                      \/ LoseRefundCall(p)
                      \/ ApplyVnPayRefundResult(p)
                      \/ \E kind \in AnswerKind : \/ QueryRefund(p, kind)
                                                  \/ ApplyVnPayReconciliation(p, kind)
               PROVE  TypeOK'
    BY DEF PaymentNext
  <1> USE DEF rowVars, wireVars, gatewayVars
  <1>0. /\ booking \in [Bookings -> BookingRow]
        /\ payment \in [Payments -> PaymentRow] /\ payment[p] \in PaymentRow
        /\ refund \in [Payments -> RefundRow] /\ refund[p] \in RefundRow
        /\ payment[p].status \in PaymentStatus \union {"ABSENT"}
    BY DEF TypeOK, PaymentRow, PaymentColumns
  <1>1. CASE VnPayIpn(p)
    <2>1. payment[p].status # "ABSENT"
      BY <1>1 DEF VnPayIpn, AwaitsOutcome
    <2>2. CASE charge[p] = "paid"
      BY <1>1, <2>1, <2>2, GatewayOutcomeType DEF VnPayIpn, TypeOK
    <2>3. CASE charge[p] = "declined"
      <3>1. payment' \in [Payments -> PaymentRow] /\ UNCHANGED booking
        BY ZenonT(40), <1>0, <1>1, <2>1, <2>3, PaymentRowType DEF VnPayIpn
      <3> QED BY <1>0, <1>1, <3>1 DEF VnPayIpn, TypeOK
    <2> QED BY <1>1, <2>2, <2>3 DEF VnPayIpn
  <1>2. CASE RefundManual(p)
    <2>1. refund' \in [Payments -> RefundRow]
      BY <1>0, <1>2 DEF RefundManual, RefundRow
    <2>2. payment[p].status # "ABSENT"
      BY <1>2 DEF RefundManual, ManualRefundAllowed
    <2> QED BY <1>2, <2>1, <2>2, CompleteRefundType DEF RefundManual, TypeOK
  <1>3. ASSUME NEW key \in RefundKeys, NEW capability, PrepareVnPayRefund(p, key, capability)
        PROVE  TypeOK'
    <2>1. payment[p].status # "ABSENT"
      BY <1>3 DEF PrepareVnPayRefund, CanonicalStillSuccessful, EligibleForResolution,
                  VnPayRefundAllowed
    <2>2. payment' \in [Payments -> PaymentRow]
      <3>1. "REFUND_PENDING" \in PaymentStatus
        BY DEF PaymentStatus
      <3> QED BY <1>0, <1>3, <2>1, <3>1, PaymentRowType DEF PrepareVnPayRefund
    <2>3. refund' \in [Payments -> RefundRow]
      BY <1>0, <1>3 DEF PrepareVnPayRefund, RefundRow
    <2>4. call' \in [Payments -> {"idle", "ready", "waiting", "lost", "closed"}
                                   \union AnswerKind]
      BY <1>3 DEF PrepareVnPayRefund, TypeOK
    <2> QED BY <1>3, <2>2, <2>3, <2>4 DEF PrepareVnPayRefund, TypeOK
  <1>4. CASE SendRefund(p)
    BY <1>4 DEF SendRefund, TypeOK
  <1>5. CASE LoseRefundCall(p)
    BY <1>5 DEF LoseRefundCall, TypeOK
  <1>6. ASSUME Restore(p), payment[p].status # "ABSENT"
        PROVE  payment' \in [Payments -> PaymentRow] /\ UNCHANGED <<booking, calendar>>
    <2>1. RestoredStatus(p) \in PaymentStatus
      BY DEF RestoredStatus, PaymentStatus
    <2> QED BY <1>0, <1>6, <2>1, PaymentRowType DEF Restore
  <1>7. CASE ApplyVnPayRefundResult(p)
    <2>1. call' \in [Payments -> {"idle", "ready", "waiting", "lost", "closed"}
                                   \union AnswerKind]
      BY <1>7 DEF ApplyVnPayRefundResult, TypeOK
    <2>2. \/ CompleteRefund(p, refund[p]) /\ payment[p].status # "ABSENT"
          \/ Restore(p) /\ payment[p].status # "ABSENT"
          \/ UNCHANGED <<payment, booking, calendar>>
      BY <1>7 DEF ApplyVnPayRefundResult
    <2> QED BY <1>6, <1>7, <2>1, <2>2, CompleteRefundType DEF ApplyVnPayRefundResult, TypeOK
  <1>8. ASSUME NEW kind \in AnswerKind, QueryRefund(p, kind)
        PROVE  TypeOK'
    BY <1>8 DEF QueryRefund, TypeOK
  <1>9. ASSUME NEW kind \in AnswerKind, ApplyVnPayReconciliation(p, kind)
        PROVE  TypeOK'
    <2>1. \/ CompleteRefund(p, refund[p]) /\ payment[p].status # "ABSENT"
          \/ Restore(p) /\ payment[p].status # "ABSENT"
          \/ UNCHANGED <<payment, booking, calendar>>
      BY <1>9 DEF ApplyVnPayReconciliation
    <2> QED BY <1>6, <1>9, <2>1, CompleteRefundType DEF ApplyVnPayReconciliation, TypeOK
  <1> QED BY <1>1, <1>2, <1>3, <1>4, <1>5, <1>7, <1>8, <1>9

\* The crons, the rooms, the gateway and the clock keep the tables well typed.
LEMMA OtherTypeStep ==
  ASSUME TypeOK,
         RoomNext \/ GatewayNext \/ ExpireUnpaidBookings \/ ExpirePendingOnlinePayments
         \/ Tick
  PROVE  TypeOK'
  <1> USE DEF rowVars, wireVars, gatewayVars
  <1>1. CASE RoomNext
    <2>1. PICK r \in Rooms :
            \/ LockStayBookings(r) \/ EndStatusChange(r)
            \/ \E next \in RoomStatus, role \in {"ADMIN", "STAFF"} :
                 UpdateRoomStatus(r, next, role)
            \/ \E from, to \in Dates \union {d + 1 : d \in Dates} :
                 \/ BlockDates(r, DateRange(from, to))
                 \/ UnblockDates(r, DateRange(from, to))
      BY <1>1 DEF RoomNext
    <2>2. ASSUME NEW next \in RoomStatus, NEW role, UpdateRoomStatus(r, next, role)
          PROVE  TypeOK'
      BY <2>2, NoChangeType DEF UpdateRoomStatus, TypeOK
    <2>3. ASSUME NEW range, BlockDates(r, range)
          PROVE  TypeOK'
      BY <2>3 DEF BlockDates, TypeOK
    <2>4. ASSUME NEW range, UnblockDates(r, range)
          PROVE  TypeOK'
      BY <2>4 DEF UnblockDates, TypeOK
    <2>5. CASE LockStayBookings(r)
      BY <2>5 DEF LockStayBookings, StayBookings, TypeOK
    <2>6. CASE EndStatusChange(r)
      BY <2>6, NoChangeType DEF EndStatusChange, TypeOK
    <2> QED BY <2>1, <2>2, <2>3, <2>4, <2>5, <2>6
  <1>2. CASE GatewayNext
    <2>1. PICK p \in Payments :
            \/ \E outcome \in {"paid", "declined"} : CustomerPays(p, outcome)
            \/ \E outcome \in {"refunded", "refused"} : GatewaySettlesRefund(p, outcome)
            \/ \E kind \in AnswerKind : GatewayAnswersRefund(p, kind)
      BY <1>2 DEF GatewayNext
    <2>2. ASSUME NEW outcome \in {"paid", "declined"}, CustomerPays(p, outcome)
          PROVE  TypeOK'
      BY <2>2 DEF CustomerPays, TypeOK
    <2>3. ASSUME NEW outcome \in {"refunded", "refused"}, GatewaySettlesRefund(p, outcome)
          PROVE  TypeOK'
      BY <2>3 DEF GatewaySettlesRefund, TypeOK
    <2>4. ASSUME NEW kind \in AnswerKind, GatewayAnswersRefund(p, kind)
          PROVE  TypeOK'
      BY <2>4 DEF GatewayAnswersRefund, TypeOK
    <2> QED BY <2>1, <2>2, <2>3, <2>4
  <1>3. CASE ExpireUnpaidBookings
    <2>1. PICK B \in SUBSET ExpiredBookings :
            /\ booking' = [b \in Bookings |-> IF b \in B THEN CancelledRow(booking[b])
                                                         ELSE booking[b]]
            /\ payment' = FailPending(UNION {PaymentsOf(b) : b \in B}, "EXPIRED")
            /\ calendar' = Released(B)
            /\ UNCHANGED <<now, refund, room, statusChange, wireVars, gatewayVars>>
      BY <1>3 DEF ExpireUnpaidBookings
    <2>2. \A b \in Bookings : booking[b] \in BookingRow /\ CancelledRow(booking[b]) \in BookingRow
      <3>1. \A b \in Bookings : booking[b] \in BookingRow
        BY DEF TypeOK
      <3>2. ASSUME NEW bk \in BookingRow
            PROVE  CancelledRow(bk) \in BookingRow
        BY NoTimeType DEF BookingRow, BookingStatus, CancelledRow
      <3> QED BY <3>1, <3>2
    <2>3. booking' \in [Bookings -> BookingRow]
      BY <2>1, <2>2
    <2>4. payment' \in [Payments -> PaymentRow]
      BY <2>1, FailPendingType
    <2> QED BY <2>1, <2>3, <2>4, ReleasedType DEF TypeOK
  <1>4. CASE ExpirePendingOnlinePayments
    BY <1>4, FailPendingType DEF ExpirePendingOnlinePayments, TypeOK
  <1>5. CASE Tick
    BY <1>5 DEF Tick, TypeOK
  <1> QED BY <1>1, <1>2, <1>3, <1>4, <1>5

\* Every table keeps its shape in every behaviour of the system.
THEOREM TypeCorrect == Spec => []TypeOK
  <1>1. TypeOK /\ [Next]_vars => TypeOK'
    <2>1. TypeOK /\ Next => TypeOK'
      BY BookingTypeStep, PaymentTypeStep, OtherTypeStep DEF Next
    <2>2. TypeOK /\ UNCHANGED vars => TypeOK'
      BY DEF vars, rowVars, wireVars, gatewayVars, TypeOK
    <2> QED BY <2>1, <2>2
  <1> QED BY <1>1, TypeInit, PTL DEF Spec

-----------------------------------------------------------------------------
(* The calendar and the bookings agree.                                     *)

\* A step that neither starts nor ends a booking, and moves no night from or to
\* one, keeps the calendar in agreement.
LEMMA CalendarFrame ==
  ASSUME CalendarMatchesBookings,
         \A b \in Bookings : HoldsNights(b)' <=> HoldsNights(b),
         \A b \in Bookings, s \in Slots : calendar'[s] = b <=> calendar[s] = b
  PROVE  CalendarMatchesBookings'
  BY DEF CalendarMatchesBookings, StaySlots, Slots

\* So does a step that ends the bookings of B and releases their nights.
LEMMA CalendarRelease ==
  ASSUME CalendarMatchesBookings, NEW B \in SUBSET Bookings,
         calendar' = Released(B),
         \A b \in B : booking'[b].status = "CANCELLED",
         \A b \in Bookings \ B : booking'[b] = booking[b]
  PROVE  CalendarMatchesBookings'
  <1> SUFFICES ASSUME NEW b \in Bookings, NEW s \in Slots
               PROVE  calendar'[s] = b <=> HoldsNights(b)' /\ s \in StaySlots(b)
    BY DEF CalendarMatchesBookings, StaySlots, Slots
  <1>1. calendar[s] = b <=> HoldsNights(b) /\ s \in StaySlots(b)
    BY DEF CalendarMatchesBookings
  <1>2. calendar'[s] = IF calendar[s] \in B THEN Free ELSE calendar[s]
    BY DEF Released
  <1>3. b # Free
    BY IdentifierAssumption
  <1>4. CASE b \in B
    BY <1>2, <1>3, <1>4 DEF HoldsNights
  <1>5. CASE b \notin B
    BY <1>1, <1>2, <1>3, <1>5 DEF HoldsNights
  <1> QED BY <1>4, <1>5

\* A booking that takes free nights takes them from nobody.
LEMMA CalendarHold ==
  ASSUME TypeOK, CalendarMatchesBookings, NEW b \in Bookings, NEW byStaff,
         CreateBooking(b, byStaff)
  PROVE  CalendarMatchesBookings'
  <1> SUFFICES ASSUME NEW c \in Bookings, NEW s \in Slots
               PROVE  calendar'[s] = c <=> HoldsNights(c)' /\ s \in StaySlots(c)
    BY DEF CalendarMatchesBookings, StaySlots, Slots
  <1>1. calendar[s] = c <=> HoldsNights(c) /\ s \in StaySlots(c)
    BY DEF CalendarMatchesBookings
  <1>2. calendar'[s] = IF s \in StaySlots(b) THEN b ELSE calendar[s]
    BY DEF CreateBooking
  <1>3. s \in StaySlots(b) => calendar[s] = Free
    BY DEF CreateBooking
  <1>4. c # Free
    BY IdentifierAssumption
  <1>5. CASE c = b
    <2>1. HoldsNights(b)' /\ ~HoldsNights(b)
      BY DEF CreateBooking, HoldsNights, TypeOK
    <2> QED BY <1>1, <1>2, <1>5, <2>1
  <1>6. CASE c # b
    <2>1. HoldsNights(c)' <=> HoldsNights(c)
      BY <1>6 DEF CreateBooking, HoldsNights, TypeOK
    <2> QED BY <1>1, <1>2, <1>3, <1>4, <1>6, <2>1
  <1> QED BY <1>5, <1>6

\* Completing a refund releases the nights of the booking it cancels.
LEMMA CalendarRefund ==
  ASSUME TypeOK, CalendarMatchesBookings, NEW p \in Payments,
         payment[p].status # "ABSENT", NEW ref, CompleteRefund(p, ref)
  PROVE  CalendarMatchesBookings'
  <1> DEFINE b == payment[p].booking
  <1>1. b \in Bookings /\ booking \in [Bookings -> BookingRow]
    BY DEF TypeOK, PaymentRow
  <1>2. CASE UNCHANGED <<booking, calendar>>
    BY <1>2, CalendarFrame DEF HoldsNights
  <1>3. CASE /\ booking' = [booking EXCEPT ![b] =
                  [CancelledRow(@) EXCEPT !.payStatus = "REFUNDED"]]
             /\ calendar' = Released({b})
    <2>1. booking'[b].status = "CANCELLED" /\ \A c \in Bookings \ {b} : booking'[c] = booking[c]
      BY <1>1, <1>3 DEF CancelledRow, BookingRow
    <2> QED BY <1>1, <1>3, <2>1, CalendarRelease
  <1> QED BY <1>2, <1>3 DEF CompleteRefund

\* Paying, restoring and every step outside the bookings leave the nights alone.
LEMMA CalendarPaid ==
  ASSUME TypeOK, CalendarMatchesBookings, NEW p \in Payments, NEW b \in Bookings,
         booking' = [booking EXCEPT ![b] = PaidRow(@, p)], UNCHANGED calendar
  PROVE  CalendarMatchesBookings'
  <1>1. \A c \in Bookings : HoldsNights(c)' <=> HoldsNights(c)
    BY DEF HoldsNights, PaidRow, TypeOK, BookingRow
  <1> QED BY <1>1, CalendarFrame

\* Every step of the system keeps the calendar in agreement with the bookings.
LEMMA CalendarStep == TypeOK /\ CalendarMatchesBookings /\ [Next]_vars => CalendarMatchesBookings'
  <1> SUFFICES ASSUME TypeOK, CalendarMatchesBookings, [Next]_vars
               PROVE  CalendarMatchesBookings'
    OBVIOUS
  <1> USE DEF vars, rowVars, wireVars, gatewayVars
  <1>0. booking \in [Bookings -> BookingRow]
    BY DEF TypeOK
  <1>1. ASSUME UNCHANGED <<booking, calendar>>
        PROVE  CalendarMatchesBookings'
    BY <1>1, CalendarFrame DEF HoldsNights
  <1>2. ASSUME NEW b \in Bookings, CancelBooking(b)
        PROVE  CalendarMatchesBookings'
    <2>1. booking'[b].status = "CANCELLED" /\ \A c \in Bookings \ {b} : booking'[c] = booking[c]
      BY <1>0, <1>2 DEF CancelBooking, CancelledRow, BookingRow
    <2> QED BY <1>2, <2>1, CalendarRelease DEF CancelBooking
  <1>3. ASSUME NEW b \in Bookings, NEW target \in BookingStatus, UpdateBookingStatus(b, target)
        PROVE  CalendarMatchesBookings'
    <2>1. CASE target = "CANCELLED"
      BY <1>2, <1>3, <2>1 DEF UpdateBookingStatus
    <2>2. CASE target # "CANCELLED"
      <3>1. /\ booking' = [booking EXCEPT ![b].status = target, ![b].deadline = NoTime]
            /\ UNCHANGED calendar
        BY <1>3, <2>2 DEF UpdateBookingStatus
      <3>2. booking[b].status \notin {"ABSENT", "CANCELLED"} /\ target # "ABSENT"
        BY <1>3 DEF UpdateBookingStatus, TransitionAllowed, ManagementTransitions,
                    BookingStatus
      <3>3. \A c \in Bookings : HoldsNights(c)' <=> HoldsNights(c)
        BY <1>0, <2>2, <3>1, <3>2 DEF HoldsNights, BookingRow
      <3> QED BY <3>1, <3>3, CalendarFrame
    <2> QED BY <2>1, <2>2
  <1>4. CASE BookingNext
    <2>1. PICK b \in Bookings :
            \/ \E byStaff \in BOOLEAN : CreateBooking(b, byStaff)
            \/ CancelForCustomer(b)
            \/ \E target \in BookingStatus : UpdateBookingStatus(b, target)
            \/ \E p \in Payments : CreateVnPayPayment(p, b) \/ RecordManualPayment(p, b)
      BY <1>4 DEF BookingNext
    <2>2. ASSUME NEW p \in Payments, RecordManualPayment(p, b)
          PROVE  CalendarMatchesBookings'
      BY <2>2, CalendarPaid DEF RecordManualPayment
    <2>3. ASSUME NEW p \in Payments, CreateVnPayPayment(p, b)
          PROVE  CalendarMatchesBookings'
      BY <2>3, <1>1 DEF CreateVnPayPayment
    <2>4. CASE CancelForCustomer(b)
      BY <2>4, <1>2 DEF CancelForCustomer
    <2> QED BY <1>3, <2>1, <2>2, <2>3, <2>4, CalendarHold
  <1>5. CASE PaymentNext
    <2>1. PICK p \in Payments :
            \/ VnPayIpn(p)
            \/ RefundManual(p)
            \/ \E key \in RefundKeys,
                  capability \in {"STANDARD_REFUND", "DUPLICATE_CHARGE_REFUND"} :
                 PrepareVnPayRefund(p, key, capability)
            \/ SendRefund(p)
            \/ LoseRefundCall(p)
            \/ ApplyVnPayRefundResult(p)
            \/ \E kind \in AnswerKind : \/ QueryRefund(p, kind)
                                        \/ ApplyVnPayReconciliation(p, kind)
      BY <1>5 DEF PaymentNext
    <2>2. CASE VnPayIpn(p)
      <3>1. payment[p].booking \in Bookings
        BY <2>2 DEF VnPayIpn, AwaitsOutcome, TypeOK, PaymentRow
      <3>2. \/ UNCHANGED <<booking, calendar>>
            \/ /\ booking' = [booking EXCEPT ![payment[p].booking] = PaidRow(@, p)]
               /\ UNCHANGED calendar
        BY <2>2 DEF VnPayIpn, ApplyGatewayPaymentOutcome, ReviewCaptured, AcceptCaptured
      <3> QED BY <1>1, <3>1, <3>2, CalendarPaid
    <2>3. CASE RefundManual(p)
      <3>1. payment[p].status # "ABSENT"
        BY <2>3 DEF RefundManual, ManualRefundAllowed
      <3> QED BY <2>3, <3>1, CalendarRefund DEF RefundManual
    <2>4. ASSUME NEW key, NEW capability, PrepareVnPayRefund(p, key, capability)
          PROVE  CalendarMatchesBookings'
      BY <1>1, <2>4 DEF PrepareVnPayRefund
    <2>5. CASE SendRefund(p) \/ LoseRefundCall(p)
      BY <1>1, <2>5 DEF SendRefund, LoseRefundCall
    <2>6. CASE ApplyVnPayRefundResult(p)
      <3>1. \/ CompleteRefund(p, refund[p]) /\ payment[p].status # "ABSENT"
            \/ UNCHANGED <<booking, calendar>>
        BY <2>6 DEF ApplyVnPayRefundResult, Restore
      <3> QED BY <1>1, <3>1, CalendarRefund
    <2>7. ASSUME NEW kind \in AnswerKind, QueryRefund(p, kind)
          PROVE  CalendarMatchesBookings'
      BY <1>1, <2>7 DEF QueryRefund
    <2>8. ASSUME NEW kind \in AnswerKind, ApplyVnPayReconciliation(p, kind)
          PROVE  CalendarMatchesBookings'
      <3>1. \/ CompleteRefund(p, refund[p]) /\ payment[p].status # "ABSENT"
            \/ UNCHANGED <<booking, calendar>>
        BY <2>8 DEF ApplyVnPayReconciliation, Restore
      <3> QED BY <1>1, <3>1, CalendarRefund
    <2> QED BY <2>1, <2>2, <2>3, <2>4, <2>5, <2>6, <2>7, <2>8
  <1>6. CASE RoomNext
    <2>1. PICK r \in Rooms :
            \/ LockStayBookings(r) \/ EndStatusChange(r)
            \/ \E next \in RoomStatus, role \in {"ADMIN", "STAFF"} :
                 UpdateRoomStatus(r, next, role)
            \/ \E from, to \in Dates \union {d + 1 : d \in Dates} :
                 \/ BlockDates(r, DateRange(from, to))
                 \/ UnblockDates(r, DateRange(from, to))
      BY <1>6 DEF RoomNext
    <2>2. ASSUME NEW next, NEW role, UpdateRoomStatus(r, next, role)
          PROVE  CalendarMatchesBookings'
      BY <1>1, <2>2 DEF UpdateRoomStatus
    <2>3. ASSUME NEW range, BlockDates(r, range)
          PROVE  CalendarMatchesBookings'
      <3>1. \A b \in Bookings, s \in Slots : calendar'[s] = b <=> calendar[s] = b
        BY <2>3, IdentifierAssumption DEF BlockDates, Slots
      <3> QED BY <2>3, <3>1, CalendarFrame DEF BlockDates, HoldsNights
    <2>4. ASSUME NEW range, UnblockDates(r, range)
          PROVE  CalendarMatchesBookings'
      <3>1. \A b \in Bookings, s \in Slots : calendar'[s] = b <=> calendar[s] = b
        BY <2>4, IdentifierAssumption DEF UnblockDates
      <3> QED BY <2>4, <3>1, CalendarFrame DEF UnblockDates, HoldsNights
    <2>5. CASE LockStayBookings(r) \/ EndStatusChange(r)
      BY <1>1, <2>5 DEF LockStayBookings, EndStatusChange
    <2> QED BY <2>1, <2>2, <2>3, <2>4, <2>5
  <1>7. CASE GatewayNext
    BY <1>1, <1>7 DEF GatewayNext, CustomerPays, GatewaySettlesRefund, GatewayAnswersRefund
  <1>8. CASE ExpireUnpaidBookings
    <2>1. PICK B \in SUBSET ExpiredBookings :
            /\ booking' = [b \in Bookings |-> IF b \in B THEN CancelledRow(booking[b])
                                                         ELSE booking[b]]
            /\ calendar' = Released(B)
      BY <1>8 DEF ExpireUnpaidBookings
    <2>2. B \in SUBSET Bookings
      BY DEF ExpiredBookings
    <2>3. \A b \in B : booking'[b].status = "CANCELLED"
      BY <1>0, <2>1, <2>2 DEF CancelledRow, BookingRow
    <2> QED BY <2>1, <2>2, <2>3, CalendarRelease
  <1>9. CASE ExpirePendingOnlinePayments \/ Tick \/ UNCHANGED vars
    BY <1>1, <1>9 DEF ExpirePendingOnlinePayments, Tick
  <1> QED BY <1>4, <1>5, <1>6, <1>7, <1>8, <1>9 DEF Next

\* No night is ever shared by two live bookings, lost by one or kept by an ended
\* one.
THEOREM CalendarAlwaysMatches == Spec => []CalendarMatchesBookings
  <1>1. Init => CalendarMatchesBookings
    BY IdentifierAssumption DEF Init, CalendarMatchesBookings, HoldsNights, NoBooking
  <1> QED BY <1>1, CalendarStep, TypeCorrect, PTL DEF Spec

-----------------------------------------------------------------------------
(* The money: the booking and its payments never disagree, an accepted      *)
(* payment is decided once and a pending refund of it freezes the booking.  *)
(* MoneyInvariant is the inductive invariant all of these follow from.      *)

(* Steps that write one kind of row.                                        *)

\* Failing open attempts changes nothing the money depends on.
LEMMA FailPendingRows ==
  ASSUME TypeOK, NEW P, NEW code \in {"EXPIRED", "CANCELLED"}, NEW p \in Payments
  PROVE  LET row == FailPending(P, code)[p]
         IN /\ row.booking = payment[p].booking /\ row.reason = payment[p].reason
            /\ row.canonical = payment[p].canonical
            /\ \/ row = payment[p]
               \/ payment[p].status = "PENDING" /\ row.status = "FAILED"
  <1> DEFINE failed == [payment[p] EXCEPT !.status = "FAILED", !.code = code]
  <1>1. payment[p] \in PaymentColumns
    BY DEF TypeOK, PaymentRow
  <1>2. /\ failed.booking = payment[p].booking /\ failed.reason = payment[p].reason
        /\ failed.canonical = payment[p].canonical /\ failed.status = "FAILED"
    BY <1>1 DEF PaymentColumns
  <1>3. FailPending(P, code)[p] = IF p \in P /\ PendingOnline(p) THEN failed ELSE payment[p]
    BY DEF FailPending
  <1> HIDE DEF failed
  <1>4. CASE p \in P /\ PendingOnline(p)
    BY <1>2, <1>3, <1>4 DEF PendingOnline
  <1>5. CASE ~(p \in P /\ PendingOnline(p))
    BY <1>3, <1>5
  <1> QED BY <1>4, <1>5

\* Cancelling unpaid bookings and failing some open attempts keeps the money in
\* order.
LEMMA MoneyCancel ==
  ASSUME TypeOK, MoneyInvariant, NEW B \in SUBSET Bookings,
         \A b \in B : booking[b].payStatus # "PAID",
         booking' = [b \in Bookings |-> IF b \in B THEN CancelledRow(booking[b])
                                                   ELSE booking[b]],
         NEW P, NEW code \in {"EXPIRED", "CANCELLED"}, payment' = FailPending(P, code),
         UNCHANGED refund
  PROVE  MoneyInvariant'
  <1>1. \A p \in Payments :
          /\ payment'[p].booking = payment[p].booking
          /\ payment'[p].reason = payment[p].reason
          /\ payment'[p].canonical = payment[p].canonical
          /\ \/ payment'[p].status = payment[p].status
             \/ payment[p].status = "PENDING" /\ payment'[p].status = "FAILED"
    BY FailPendingRows
  <1>2. \A b \in Bookings :
          /\ booking'[b].payStatus = booking[b].payStatus
          /\ booking'[b].accepted = booking[b].accepted
          /\ booking'[b].status = IF b \in B THEN "CANCELLED" ELSE booking[b].status
    BY ZenonT(40) DEF CancelledRow, TypeOK, BookingRow
  <1>3. \A p \in Payments : (Keeps(p)' <=> Keeps(p)) /\ (Reviewed(p)' <=> Reviewed(p))
    BY <1>1 DEF Keeps, Reviewed
  <1>4. ASSUME NEW b \in Bookings
        PROVE  BookingMoney(b)'
    <2>1. BookingMoney(b) /\ booking[b].accepted \in Payments \union {None}
          /\ PaymentsOf(b)' = PaymentsOf(b)
      BY <1>1 DEF MoneyInvariant, TypeOK, BookingRow, PaymentsOf
    <2>2. \A p \in Payments : payment[p].status = "REFUNDED" => payment'[p].status = "REFUNDED"
      BY <1>1
    <2>3. PaymentsOf(b) \subseteq Payments
      BY DEF PaymentsOf
    <2> QED BY <1>2, <1>3, <2>1, <2>2, <2>3 DEF BookingMoney
  <1>5. ASSUME NEW p \in Payments
        PROVE  PaymentMoney(p)'
    <2>1. CASE payment[p].status = "ABSENT"
      BY <1>1, <2>1 DEF MoneyInvariant, PaymentMoney, Keeps, Reviewed
    <2>2. CASE payment[p].status # "ABSENT"
      <3>1. payment[p].booking \in Bookings /\ PaymentMoney(p)
        BY <2>2 DEF MoneyInvariant, TypeOK, PaymentRow
      <3>2. payment'[p].status = "REFUND_PENDING" => payment[p].status = "REFUND_PENDING"
        BY <1>1
      <3> QED BY <1>1, <1>2, <1>3, <3>1, <3>2 DEF PaymentMoney
    <2> QED BY <2>1, <2>2
  <1> QED BY <1>4, <1>5 DEF MoneyInvariant

\* A booking row that is left alone stays in order while its kept and refunded
\* payments stay what they are.
LEMMA BookingFrame ==
  ASSUME TypeOK, MoneyInvariant, NEW b \in Bookings, booking'[b] = booking[b],
         \A p \in PaymentsOf(b) : Keeps(p) => p \in PaymentsOf(b)' /\ Keeps(p)',
         \A p \in Payments : payment[p].status = "REFUNDED" =>
           /\ payment'[p].status = "REFUNDED"
           /\ payment'[p].booking = payment[p].booking
  PROVE  BookingMoney(b)'
  <1>1. BookingMoney(b) /\ booking[b].accepted \in Payments \union {None}
    BY DEF MoneyInvariant, TypeOK, BookingRow
  <1>2. booking[b].payStatus = "PAID" =>
          booking'[b].accepted \in PaymentsOf(b)' /\ Keeps(booking[b].accepted)'
    BY <1>1 DEF BookingMoney, PaymentsOf, Keeps
  <1>3. booking[b].payStatus = "REFUNDED" =>
          /\ booking[b].accepted # None => payment'[booking[b].accepted].status = "REFUNDED"
          /\ \E p \in PaymentsOf(b)' : payment'[p].status = "REFUNDED"
    BY <1>1 DEF BookingMoney, PaymentsOf
  <1> QED BY <1>1, <1>2, <1>3 DEF BookingMoney

\* A payment row that is left alone stays in order while its booking row does.
LEMMA PaymentFrame ==
  ASSUME TypeOK, MoneyInvariant, NEW p \in Payments,
         payment'[p] = payment[p], refund'[p] = refund[p],
         payment[p].booking \in Bookings =>
           booking'[payment[p].booking] = booking[payment[p].booking]
  PROVE  PaymentMoney(p)'
  <1>1. PaymentMoney(p) /\ (Keeps(p)' <=> Keeps(p)) /\ (Reviewed(p)' <=> Reviewed(p))
    BY DEF MoneyInvariant, Keeps, Reviewed
  <1>2. CASE payment[p].booking \in Bookings
    BY <1>1, <1>2 DEF PaymentMoney
  <1>3. CASE payment[p].booking \notin Bookings
    <2>1. payment[p].status = "ABSENT"
      BY <1>3 DEF TypeOK, PaymentRow
    <2> QED BY <1>1, <2>1 DEF PaymentMoney, Keeps, Reviewed
  <1> QED BY <1>2, <1>3

\* A step that leaves bookings and refunds alone, and of the payments only opens
\* and fails attempts, keeps the money in order.
LEMMA MoneyQuiet ==
  ASSUME TypeOK, MoneyInvariant, UNCHANGED <<booking, refund>>,
         \A p \in Payments :
           \/ payment'[p] = payment[p]
           \/ /\ payment[p].status \in {"ABSENT", "PENDING", "FAILED"}
              /\ payment'[p].status \in {"PENDING", "FAILED"}
              /\ booking[payment'[p].booking].status # "ABSENT"
  PROVE  MoneyInvariant'
  <1>1. ASSUME NEW b \in Bookings
        PROVE  BookingMoney(b)'
    <2>1. \A p \in Payments :
            Keeps(p) \/ payment[p].status = "REFUNDED" => payment'[p] = payment[p]
      BY DEF Keeps
    <2>2. \A p \in PaymentsOf(b) : Keeps(p) => p \in PaymentsOf(b)' /\ Keeps(p)'
      BY <2>1 DEF PaymentsOf, Keeps
    <2> QED BY <2>1, <2>2, BookingFrame
  <1>2. ASSUME NEW p \in Payments
        PROVE  PaymentMoney(p)'
    <2>1. CASE payment'[p] = payment[p]
      BY <2>1, PaymentFrame
    <2>2. CASE /\ payment'[p].status \in {"PENDING", "FAILED"}
               /\ booking[payment'[p].booking].status # "ABSENT"
      BY <2>2 DEF MoneyInvariant, PaymentMoney, Keeps, Reviewed
    <2> QED BY <2>1, <2>2
  <1> QED BY <1>1, <1>2 DEF MoneyInvariant

\* A new booking has no money yet, whatever rows are around.
LEMMA MoneyCreate ==
  ASSUME TypeOK, MoneyInvariant, NEW b \in Bookings, NEW byStaff, CreateBooking(b, byStaff)
  PROVE  MoneyInvariant'
  <1>1. /\ booking[b].status = "ABSENT" /\ booking[b].payStatus = "UNPAID"
        /\ booking'[b].status = "PENDING_PAYMENT" /\ booking'[b].payStatus = "UNPAID"
        /\ booking'[b].accepted = None
        /\ \A c \in Bookings \ {b} : booking'[c] = booking[c]
        /\ UNCHANGED <<payment, refund>>
    BY DEF CreateBooking, TypeOK, MoneyInvariant, BookingMoney
  <1>2. ASSUME NEW c \in Bookings
        PROVE  BookingMoney(c)'
    BY <1>1 DEF MoneyInvariant, BookingMoney, PaymentsOf, Keeps
  <1>3. ASSUME NEW p \in Payments
        PROVE  PaymentMoney(p)'
    <2>1. PaymentMoney(p)
      BY DEF MoneyInvariant
    <2>2. CASE payment[p].booking \in Bookings
      BY <1>1, <2>1, <2>2 DEF PaymentMoney, Keeps, Reviewed
    <2>3. CASE payment[p].booking \notin Bookings
      BY <1>1, <2>1, <2>3 DEF TypeOK, PaymentRow, PaymentMoney, Keeps, Reviewed
    <2> QED BY <2>2, <2>3
  <1> QED BY <1>2, <1>3 DEF MoneyInvariant

\* The stay of a booking moves on: never while a refund of it is pending.
LEMMA MoneyAdvance ==
  ASSUME TypeOK, MoneyInvariant, NEW b \in Bookings, NEW target \in BookingStatus,
         target # "CANCELLED", UpdateBookingStatus(b, target)
  PROVE  MoneyInvariant'
  <1>1. /\ booking' = [booking EXCEPT ![b].status = target, ![b].deadline = NoTime]
        /\ UNCHANGED <<payment, refund>>
    BY DEF UpdateBookingStatus
  <1>2. /\ booking'[b].status = target
        /\ booking'[b].payStatus = booking[b].payStatus
        /\ booking'[b].accepted = booking[b].accepted
        /\ \A c \in Bookings \ {b} : booking'[c] = booking[c]
    BY <1>1 DEF TypeOK, BookingRow
  <1>3. /\ ~HasPendingRefund(b)
        /\ \/ booking[b].status = "PENDING_PAYMENT" /\ target = "CONFIRMED"
           \/ /\ booking[b].status = "CONFIRMED" /\ target = "CHECKED_IN"
              /\ booking[b].payStatus = "PAID"
           \/ booking[b].status = "CHECKED_IN" /\ target = "CHECKED_OUT"
    BY DEF UpdateBookingStatus, TransitionAllowed, ManagementTransitions, BookingStatus
  <1>4. ASSUME NEW c \in Bookings
        PROVE  BookingMoney(c)'
    <2>1. \A p \in PaymentsOf(c) : Keeps(p) => p \in PaymentsOf(c)' /\ Keeps(p)'
      BY <1>1 DEF PaymentsOf, Keeps
    <2>2. CASE c = b
      <3>1. BookingMoney(b)
        BY DEF MoneyInvariant
      <3>2. booking[b].payStatus # "REFUNDED"
        BY <1>3, <3>1 DEF BookingMoney
      <3>3. booking[b].payStatus = "PAID" =>
              booking'[b].accepted \in PaymentsOf(b)' /\ Keeps(booking[b].accepted)'
        BY <1>1, <1>2, <3>1 DEF BookingMoney, PaymentsOf, Keeps
      <3> QED BY <1>2, <1>3, <2>2, <3>1, <3>2, <3>3 DEF BookingMoney
    <2>3. CASE c # b
      BY <1>1, <1>2, <2>1, <2>3, BookingFrame
    <2> QED BY <2>2, <2>3
  <1>5. ASSUME NEW p \in Payments
        PROVE  PaymentMoney(p)'
    <2>1. PaymentMoney(p)
      BY DEF MoneyInvariant
    <2>2. CASE payment[p].booking = b
      <3>1. payment[p].status # "REFUND_PENDING"
        BY <1>3, <2>2 DEF HasPendingRefund, PaymentsOf
      <3> QED BY <1>1, <1>2, <1>3, <2>1, <2>2, <3>1 DEF PaymentMoney, Keeps, Reviewed
    <2>3. CASE payment[p].booking \in Bookings \ {b}
      BY <1>1, <1>2, <2>1, <2>3 DEF PaymentMoney, Keeps, Reviewed
    <2>4. CASE payment[p].booking \notin Bookings
      BY <1>1, <2>1, <2>4 DEF TypeOK, PaymentRow, PaymentMoney, Keeps, Reviewed
    <2> QED BY <2>2, <2>3, <2>4
  <1> QED BY <1>4, <1>5 DEF MoneyInvariant

\* The booking accepts the payment p, which was not kept before, when it is
\* unpaid and alive.
LEMMA MoneyAccept ==
  ASSUME TypeOK, MoneyInvariant, NEW b \in Bookings, NEW p \in Payments,
         booking[b].payStatus = "UNPAID", booking[b].status \notin {"ABSENT", "CANCELLED"},
         booking' = [booking EXCEPT ![b] = PaidRow(@, p)], UNCHANGED refund,
         payment'[p].status = "SUCCESS", payment'[p].booking = b,
         payment[p].status \in {"ABSENT", "PENDING", "FAILED"},
         \A q \in Payments \ {p} :
           \/ payment'[q] = payment[q]
           \/ /\ payment[q].status = "PENDING" /\ payment'[q].status = "FAILED"
              /\ payment'[q].booking = payment[q].booking
  PROVE  MoneyInvariant'
  <1>1. /\ booking'[b].payStatus = "PAID" /\ booking'[b].accepted = p
        /\ booking'[b].status = IF booking[b].status = "PENDING_PAYMENT"
                                  THEN "CONFIRMED" ELSE booking[b].status
        /\ \A c \in Bookings \ {b} : booking'[c] = booking[c]
    BY DEF PaidRow, TypeOK, BookingRow
  <1>2. Keeps(p)' /\ ~Keeps(p) /\ ~Reviewed(p)'
    BY DEF Keeps, Reviewed
  <1>3. \A q \in Payments : Keeps(q) \/ payment[q].status = "REFUNDED"
                             => q # p /\ payment'[q] = payment[q]
    BY DEF Keeps
  <1>4. ASSUME NEW c \in Bookings
        PROVE  BookingMoney(c)'
    <2>1. CASE c = b
      <3>1. booking'[b].status \in {"CONFIRMED", "CHECKED_IN", "CHECKED_OUT"}
        BY <1>1 DEF TypeOK, BookingRow, BookingStatus
      <3>2. p \in PaymentsOf(b)'
        BY DEF PaymentsOf
      <3> QED BY <1>1, <1>2, <2>1, <3>1, <3>2 DEF BookingMoney
    <2>2. CASE c # b
      <3>1. \A q \in PaymentsOf(c) : Keeps(q) => q \in PaymentsOf(c)' /\ Keeps(q)'
        BY <1>3 DEF PaymentsOf, Keeps
      <3> QED BY <1>1, <1>3, <2>2, <3>1, BookingFrame
    <2> QED BY <2>1, <2>2
  <1>5. ASSUME NEW q \in Payments
        PROVE  PaymentMoney(q)'
    <2>0. PaymentMoney(q) /\ PaymentMoney(p)
      BY DEF MoneyInvariant
    <2>1. CASE q = p
      BY <1>1, <1>2, <2>0, <2>1 DEF PaymentMoney
    <2>2. CASE q # p /\ payment'[q] = payment[q] /\ payment[q].booking # b
      BY <1>1, <2>2, PaymentFrame
    <2>3. CASE q # p /\ payment'[q] = payment[q] /\ payment[q].booking = b
      BY <1>1, <2>0, <2>3 DEF PaymentMoney, Keeps, Reviewed
    <2>4. CASE q # p /\ payment[q].status = "PENDING" /\ payment'[q].status = "FAILED"
               /\ payment'[q].booking = payment[q].booking
      <3>1. payment[q].booking \in Bookings
        BY <2>4 DEF TypeOK, PaymentRow
      <3> QED BY <1>1, <2>0, <2>4, <3>1 DEF PaymentMoney, Keeps, Reviewed
    <2> QED BY <2>1, <2>2, <2>3, <2>4
  <1> QED BY <1>4, <1>5 DEF MoneyInvariant

-----------------------------------------------------------------------------
(* Steps of one payment.                                                    *)

\* A step that writes one payment row and its refund keeps the money in order if
\* it keeps that row in order and does not give up a kept payment.
LEMMA MoneyOnePayment ==
  ASSUME TypeOK, MoneyInvariant, UNCHANGED booking, NEW p \in Payments,
         \A q \in Payments \ {p} : payment'[q] = payment[q] /\ refund'[q] = refund[q],
         payment'[p].booking = payment[p].booking, Keeps(p) => Keeps(p)',
         payment[p].status # "REFUNDED", PaymentMoney(p)'
  PROVE  MoneyInvariant'
  <1>1. ASSUME NEW b \in Bookings
        PROVE  BookingMoney(b)'
    <2>1. \A q \in PaymentsOf(b) : Keeps(q) => q \in PaymentsOf(b)' /\ Keeps(q)'
      <3> SUFFICES ASSUME NEW q \in PaymentsOf(b), Keeps(q)
                   PROVE  q \in PaymentsOf(b)' /\ Keeps(q)'
        OBVIOUS
      <3>1. CASE q = p
        BY <3>1 DEF PaymentsOf
      <3>2. CASE q # p
        BY <3>2 DEF PaymentsOf, Keeps
      <3> QED BY <3>1, <3>2
    <2> QED BY <2>1, BookingFrame
  <1>2. ASSUME NEW q \in Payments
        PROVE  PaymentMoney(q)'
    <2>1. CASE q = p
      BY <2>1
    <2>2. CASE q # p
      BY <2>2, PaymentFrame
    <2> QED BY <2>1, <2>2
  <1> QED BY <1>1, <1>2 DEF MoneyInvariant

\* A success that finds no other successful payment belongs to an unpaid booking
\* without an accepted payment.
LEMMA NothingAccepted ==
  ASSUME TypeOK, MoneyInvariant, NEW p \in Payments,
         payment[p].status \in {"PENDING", "FAILED"},
         booking[payment[p].booking].status # "CANCELLED",
         NEW canonical \in CanonicalPayment(p), canonical \in {None, p}
  PROVE  /\ booking[payment[p].booking].accepted = None
         /\ booking[payment[p].booking].payStatus = "UNPAID"
  <1> DEFINE b == payment[p].booking
  <1>1. /\ b \in Bookings /\ booking[b].accepted \in Payments \union {None}
        /\ BookingMoney(b) /\ booking[b].payStatus \in BookingPaymentStatus
    BY DEF TypeOK, PaymentRow, BookingRow, MoneyInvariant
  <1>2. ~Keeps(p) /\ payment[p].status # "REFUNDED"
    BY DEF Keeps
  <1>3. booking[b].payStatus # "REFUNDED"
    BY <1>1 DEF BookingMoney
  <1>4. booking[b].accepted # p
    BY <1>1, <1>2, <1>3, IdentifierAssumption DEF BookingMoney, BookingPaymentStatus
  <1>5. booking[b].accepted = None
    BY <1>1, <1>4 DEF CanonicalPayment
  <1>6. booking[b].payStatus = "UNPAID"
    BY <1>1, <1>3, <1>5, IdentifierAssumption
    DEF BookingMoney, BookingPaymentStatus, PaymentsOf
  <1> QED BY <1>5, <1>6

\* An IPN reports money for p: it is accepted or put up for review.
LEMMA MoneyOutcome ==
  ASSUME TypeOK, MoneyInvariant, NEW p \in Payments,
         payment[p].status \in {"PENDING", "FAILED"},
         ApplyGatewayPaymentOutcome(p), UNCHANGED refund
  PROVE  MoneyInvariant'
  <1> DEFINE b == payment[p].booking
  <1>1. /\ b \in Bookings /\ booking[b].accepted \in Payments \union {None}
        /\ payment[p] \in PaymentColumns /\ booking[b].status # "ABSENT"
        /\ BookingMoney(b) /\ PaymentMoney(p)
        /\ booking[b].payStatus \in BookingPaymentStatus
    BY DEF TypeOK, PaymentRow, BookingRow, MoneyInvariant, PaymentMoney
  <1>2. PICK canonical \in CanonicalPayment(p) :
          \/ /\ booking[b].status = "CANCELLED"
             /\ ReviewCaptured(p, "BOOKING_CANCELLED", None)
          \/ /\ booking[b].status # "CANCELLED" /\ canonical \notin {None, p}
             /\ ReviewCaptured(p, "ANOTHER_SUCCESSFUL_PAYMENT", canonical)
          \/ /\ booking[b].status # "CANCELLED" /\ canonical \in {None, p}
             /\ AcceptCaptured(p)
    BY DEF ApplyGatewayPaymentOutcome
  <1>3. ASSUME NEW reason, NEW c, ReviewCaptured(p, reason, c),
               \/ reason = "BOOKING_CANCELLED" /\ booking[b].status = "CANCELLED"
               \/ reason = "ANOTHER_SUCCESSFUL_PAYMENT" /\ c \notin {None, p}
        PROVE  MoneyInvariant'
    <2>1. /\ payment'[p].status = "REQUIRES_REVIEW" /\ payment'[p].booking = b
          /\ payment'[p].reason = reason /\ payment'[p].canonical = c
          /\ \A q \in Payments \ {p} : payment'[q] = payment[q]
          /\ UNCHANGED booking
      BY <1>1, <1>3 DEF ReviewCaptured, CapturedRow, TypeOK, PaymentColumns
    <2>2. ~Keeps(p) /\ ~Keeps(p)'
      BY <2>1 DEF Keeps
    <2>3. PaymentMoney(p)'
      BY <1>1, <1>3, <2>1, <2>2 DEF PaymentMoney
    <2> QED BY <2>1, <2>2, <2>3, MoneyOnePayment
  <1>4. CASE booking[b].status # "CANCELLED" /\ canonical \in {None, p} /\ AcceptCaptured(p)
    <2>5. booking[b].payStatus = "UNPAID"
      BY <1>4, NothingAccepted
    <2>6. /\ payment'[p].status = "SUCCESS" /\ payment'[p].booking = b
          /\ \A q \in Payments \ {p} : payment'[q] = payment[q]
          /\ booking' = [booking EXCEPT ![b] = PaidRow(@, p)]
      BY <1>1, <1>4 DEF AcceptCaptured, CapturedRow, TypeOK, PaymentColumns
    <2> QED BY <1>1, <1>4, <2>5, <2>6, MoneyAccept
  <1> QED BY <1>2, <1>3, <1>4

\* A refund completes: the payment is given back, and with it the booking unless
\* it was a duplicate.
LEMMA MoneyComplete ==
  ASSUME TypeOK, MoneyInvariant, NEW p \in Payments, NEW ref,
         CompleteRefund(p, ref),
         ref.previous = refund[p].previous,
         \/ payment[p].status = "SUCCESS" /\ refund[p].previous = None
         \/ payment[p].status = "REFUND_PENDING",
         \A q \in Payments \ {p} : refund'[q] = refund[q],
         refund'[p].exists \/ refund'[p] = refund[p]
  PROVE  MoneyInvariant'
  <1> DEFINE b == payment[p].booking
  <1>1. /\ b \in Bookings /\ booking[b] \in BookingRow
        /\ payment[p] \in PaymentColumns /\ booking[b].status # "ABSENT"
        /\ BookingMoney(b) /\ PaymentMoney(p)
        /\ booking[b].payStatus \in BookingPaymentStatus
    BY DEF TypeOK, PaymentRow, BookingRow, MoneyInvariant, PaymentMoney
  <1>2. /\ payment'[p].status = "REFUNDED" /\ payment'[p].booking = b
        /\ \A q \in Payments \ {p} : payment'[q] = payment[q]
    BY <1>1 DEF CompleteRefund, TypeOK, PaymentColumns
  <1>3. ~Keeps(p)' /\ ~Reviewed(p)'
    BY <1>2 DEF Keeps, Reviewed
  <1>4. ~refund'[p].exists => refund'[p].previous = None
    BY <1>1 DEF PaymentMoney
  <1>5. CASE IsDuplicateCharge(p, payment[p], ref)
    <2>1. UNCHANGED booking /\ ~Keeps(p)
      BY <1>5 DEF CompleteRefund, IsDuplicateCharge, Keeps, None
    <2>2. PaymentMoney(p)'
      BY <1>1, <1>2, <1>3, <1>4, <2>1 DEF PaymentMoney
    <2> QED BY <1>2, <2>1, <2>2, MoneyOnePayment
  <1>6. CASE ~IsDuplicateCharge(p, payment[p], ref)
    <2>1. Keeps(p) \/ booking[b].status = "CANCELLED"
      BY <1>1, <1>6 DEF IsDuplicateCharge, PaymentMoney, Keeps, Reviewed
    <2>2. /\ booking'[b].payStatus = "REFUNDED" /\ booking'[b].status = "CANCELLED"
          /\ booking'[b].accepted = booking[b].accepted
          /\ \A c \in Bookings \ {b} : booking'[c] = booking[c]
      <3> DEFINE row == [CancelledRow(booking[b]) EXCEPT !.payStatus = "REFUNDED"]
      <3>1. /\ row.payStatus = "REFUNDED" /\ row.status = "CANCELLED"
            /\ row.accepted = booking[b].accepted
        BY <1>1 DEF CancelledRow, BookingRow
      <3>2. booking' = [booking EXCEPT ![b] = row] /\ booking \in [Bookings -> BookingRow]
        BY <1>6 DEF CompleteRefund, TypeOK
      <3> HIDE DEF row
      <3> QED BY <1>1, <3>1, <3>2
    <2>3. booking[b].accepted # None =>
            \/ booking[b].accepted = p
            \/ /\ booking[b].accepted \in Payments \ {p}
               /\ payment[booking[b].accepted].status = "REFUNDED"
      BY <1>1, <2>1 DEF BookingMoney, PaymentMoney, BookingRow, BookingPaymentStatus
    <2>4. ASSUME NEW c \in Bookings
          PROVE  BookingMoney(c)'
      <3>1. CASE c = b
        <4>1. p \in PaymentsOf(b)'
          BY <1>2 DEF PaymentsOf
        <4> QED BY <1>2, <2>2, <2>3, <3>1, <4>1 DEF BookingMoney
      <3>2. CASE c # b
        <4>1. \A q \in PaymentsOf(c) : Keeps(q) => q \in PaymentsOf(c)' /\ Keeps(q)'
          BY <1>2, <3>2 DEF PaymentsOf, Keeps
        <4>2. \A q \in Payments : payment[q].status = "REFUNDED" =>
                payment'[q].status = "REFUNDED" /\ payment'[q].booking = payment[q].booking
          BY <1>2
        <4> QED BY <2>2, <3>2, <4>1, <4>2, BookingFrame
      <3> QED BY <3>1, <3>2
    <2>5. ASSUME NEW q \in Payments
          PROVE  PaymentMoney(q)'
      <3>1. CASE q = p
        BY <1>2, <1>3, <1>4, <2>2, <3>1 DEF PaymentMoney
      <3>2. CASE q # p /\ payment[q].booking # b
        BY <1>2, <2>2, <3>2, PaymentFrame
      <3>3. CASE q # p /\ payment[q].booking = b
        <4>1. PaymentMoney(q) /\ ~Keeps(q)
          BY <1>1, <2>1, <3>3 DEF MoneyInvariant, PaymentMoney, BookingMoney
        <4> QED BY <1>2, <2>2, <3>3, <4>1 DEF PaymentMoney, Keeps, Reviewed
      <3> QED BY <3>1, <3>2, <3>3
    <2> QED BY <2>4, <2>5 DEF MoneyInvariant
  <1> QED BY <1>5, <1>6

-----------------------------------------------------------------------------
(* Every step of the system keeps the money in order.                       *)

\* Creating, cancelling, advancing and paying bookings.
LEMMA MoneyBookingStep == TypeOK /\ MoneyInvariant /\ BookingNext => MoneyInvariant'
  <1> SUFFICES ASSUME TypeOK, MoneyInvariant, NEW b \in Bookings,
                      \/ \E byStaff \in BOOLEAN : CreateBooking(b, byStaff)
                      \/ CancelForCustomer(b)
                      \/ \E target \in BookingStatus : UpdateBookingStatus(b, target)
                      \/ \E p \in Payments : \/ CreateVnPayPayment(p, b)
                                             \/ RecordManualPayment(p, b)
               PROVE  MoneyInvariant'
    BY DEF BookingNext
  <1>0. booking \in [Bookings -> BookingRow]
    BY DEF TypeOK
  <1>1. ASSUME CancelBooking(b), UNCHANGED refund
        PROVE  MoneyInvariant'
    <2> DEFINE B == {b}
    <2>1. /\ booking' = [c \in Bookings |-> IF c \in B THEN CancelledRow(booking[c])
                                                      ELSE booking[c]]
          /\ payment' = FailPending(PaymentsOf(b), "CANCELLED")
          /\ \A c \in B : booking[c].payStatus # "PAID"
          /\ B \in SUBSET Bookings
      BY <1>0, <1>1 DEF CancelBooking
    <2> HIDE DEF B
    <2> QED BY <1>1, <2>1, MoneyCancel
  <1>2. CASE CancelForCustomer(b)
    BY <1>1, <1>2 DEF CancelForCustomer
  <1>3. ASSUME NEW target \in BookingStatus, UpdateBookingStatus(b, target)
        PROVE  MoneyInvariant'
    BY <1>1, <1>3, MoneyAdvance DEF UpdateBookingStatus
  <1>4. ASSUME NEW p \in Payments, NEW row, payment' = WithNewPayment(p, b, row),
               payment[p].status = "ABSENT"
        PROVE  /\ payment'[p] = row
               /\ \A q \in Payments \ {p} :
                    \/ payment'[q] = payment[q]
                    \/ /\ payment[q].status = "PENDING" /\ payment'[q].status = "FAILED"
                       /\ payment'[q].booking = payment[q].booking
    <2> DEFINE late == {r \in PaymentsOf(b) : Overdue(r)}
    <2>1. /\ payment'[p] = row
          /\ \A q \in Payments \ {p} : payment'[q] = FailPending(late, "EXPIRED")[q]
      BY <1>4 DEF WithNewPayment, FailPending
    <2> HIDE DEF late
    <2>2. \A q \in Payments \ {p} :
            \/ payment'[q] = payment[q]
            \/ /\ payment[q].status = "PENDING" /\ payment'[q].status = "FAILED"
               /\ payment'[q].booking = payment[q].booking
      BY <2>1, FailPendingRows
    <2> QED BY <2>1, <2>2
  <1>5. ASSUME NEW p \in Payments, CreateVnPayPayment(p, b)
        PROVE  MoneyInvariant'
    <2> DEFINE row == [NoPayment EXCEPT !.status = "PENDING", !.booking = b,
                         !.method = "VNPAY",
                         !.deadline = IF booking[b].status = "PENDING_PAYMENT"
                                        THEN booking[b].deadline ELSE now + Timeout]
    <2>1. row.status = "PENDING" /\ row.booking = b
      BY DEF NoPayment
    <2>2. /\ payment' = WithNewPayment(p, b, row) /\ payment[p].status = "ABSENT"
          /\ booking[b].status # "ABSENT" /\ UNCHANGED <<booking, refund>>
      BY <1>5 DEF CreateVnPayPayment, MayStartPayment
    <2> HIDE DEF row
    <2>3. \A q \in Payments \ {p} :
            payment[q].status = "PENDING" => booking[payment[q].booking].status # "ABSENT"
      BY DEF MoneyInvariant, PaymentMoney
    <2> QED BY <1>4, <2>1, <2>2, <2>3, MoneyQuiet
  <1>6. ASSUME NEW p \in Payments, RecordManualPayment(p, b)
        PROVE  MoneyInvariant'
    <2> DEFINE row == [NoPayment EXCEPT !.status = "SUCCESS", !.booking = b,
                                        !.method = "MANUAL"]
    <2>1. row.status = "SUCCESS" /\ row.booking = b
      BY DEF NoPayment
    <2>2. /\ payment' = WithNewPayment(p, b, row) /\ payment[p].status = "ABSENT"
          /\ booking[b].payStatus = "UNPAID" /\ booking[b].status \notin {"ABSENT", "CANCELLED"}
          /\ booking' = [booking EXCEPT ![b] = PaidRow(@, p)] /\ UNCHANGED refund
      BY <1>6 DEF RecordManualPayment, MayStartPayment, CanAcceptPayment
    <2> HIDE DEF row
    <2>3. /\ payment'[p].status = "SUCCESS" /\ payment'[p].booking = b
          /\ \A q \in Payments \ {p} :
               \/ payment'[q] = payment[q]
               \/ /\ payment[q].status = "PENDING" /\ payment'[q].status = "FAILED"
                  /\ payment'[q].booking = payment[q].booking
      BY <1>4, <2>1, <2>2
    <2> QED BY <2>2, <2>3, MoneyAccept
  <1> QED BY <1>2, <1>3, <1>5, <1>6, MoneyCreate

\* IPNs, refunds, their answers and their reconciliation.
LEMMA MoneyPaymentStep == TypeOK /\ MoneyInvariant /\ PaymentNext => MoneyInvariant'
  <1> SUFFICES ASSUME TypeOK, MoneyInvariant, NEW p \in Payments,
                      \/ VnPayIpn(p)
                      \/ RefundManual(p)
                      \/ \E key \in RefundKeys,
                            capability \in {"STANDARD_REFUND", "DUPLICATE_CHARGE_REFUND"} :
                           PrepareVnPayRefund(p, key, capability)
                      \/ SendRefund(p)
                      \/ LoseRefundCall(p)
                      \/ ApplyVnPayRefundResult(p)
                      \/ \E kind \in AnswerKind : \/ QueryRefund(p, kind)
                                                  \/ ApplyVnPayReconciliation(p, kind)
               PROVE  MoneyInvariant'
    BY DEF PaymentNext
  <1>0. /\ payment \in [Payments -> PaymentRow] /\ payment[p] \in PaymentColumns
        /\ refund \in [Payments -> RefundRow] /\ refund[p] \in RefundRow
        /\ PaymentMoney(p)
    BY DEF TypeOK, PaymentRow, MoneyInvariant
  <1>1. ASSUME UNCHANGED <<booking, payment, refund>>
        PROVE  MoneyInvariant'
    BY <1>1, MoneyQuiet
  <1>2. CASE VnPayIpn(p)
    <2>1. payment[p].status \in {"PENDING", "FAILED"} /\ UNCHANGED refund
      BY <1>2 DEF VnPayIpn, AwaitsOutcome
    <2>2. CASE ApplyGatewayPaymentOutcome(p)
      BY <2>1, <2>2, MoneyOutcome
    <2>3. CASE /\ payment' = [payment EXCEPT ![p].status = "FAILED", ![p].code = "24",
                                ![p].reason = None, ![p].canonical = None]
               /\ UNCHANGED booking
      <3>1. /\ payment'[p].status = "FAILED" /\ payment'[p].booking = payment[p].booking
            /\ \A q \in Payments \ {p} : payment'[q] = payment[q]
        BY <1>0, <2>3 DEF PaymentColumns
      <3>2. booking[payment[p].booking].status # "ABSENT"
        BY <1>0, <2>1 DEF PaymentMoney
      <3> QED BY <2>1, <2>3, <3>1, <3>2, MoneyQuiet
    <2> QED BY <1>2, <2>2, <2>3 DEF VnPayIpn
  <1>3. CASE RefundManual(p)
    <2>1. /\ payment[p].status = "SUCCESS" /\ ~refund[p].exists
          /\ refund' = [refund EXCEPT ![p].exists = TRUE]
          /\ CompleteRefund(p, refund'[p])
      BY <1>3 DEF RefundManual, ManualRefundAllowed
    <2>2. /\ refund'[p].exists /\ refund'[p].previous = refund[p].previous
          /\ \A q \in Payments \ {p} : refund'[q] = refund[q]
      BY <1>0, <2>1 DEF RefundRow
    <2>3. refund[p].previous = None
      BY <1>0, <2>1 DEF PaymentMoney
    <2> QED BY <2>1, <2>2, <2>3, MoneyComplete
  <1>4. ASSUME NEW key \in RefundKeys, NEW capability, PrepareVnPayRefund(p, key, capability)
        PROVE  MoneyInvariant'
    <2>1. /\ payment'[p].status = "REFUND_PENDING"
          /\ payment'[p].booking = payment[p].booking
          /\ payment'[p].reason = payment[p].reason
          /\ payment'[p].canonical = payment[p].canonical
          /\ refund'[p] = [exists |-> TRUE, key |-> key, previous |-> payment[p].status]
          /\ \A q \in Payments \ {p} : payment'[q] = payment[q] /\ refund'[q] = refund[q]
          /\ UNCHANGED booking
      BY <1>0, <1>4 DEF PrepareVnPayRefund, PaymentColumns
    <2>2. /\ payment[p].status \in {"SUCCESS", "REQUIRES_REVIEW"}
          /\ payment[p].status = "SUCCESS" =>
               booking[payment[p].booking].status \in {"PENDING_PAYMENT", "CONFIRMED"}
      BY <1>4 DEF PrepareVnPayRefund, VnPayRefundAllowed, CanonicalStillSuccessful,
                  EligibleForResolution
    <2>3. (Keeps(p)' <=> Keeps(p)) /\ (Reviewed(p)' <=> Reviewed(p))
      BY <2>1, <2>2 DEF Keeps, Reviewed
    <2>4. payment[p].booking \in Bookings /\ BookingMoney(payment[p].booking)
      BY <2>2 DEF TypeOK, PaymentRow, MoneyInvariant
    <2>5. PaymentMoney(p)'
      <3>1. CASE payment[p].status = "SUCCESS"
        <4>1. booking[payment[p].booking].status = "CONFIRMED"
          BY <1>0, <2>2, <2>4, <3>1 DEF PaymentMoney, BookingMoney, Keeps
        <4> QED BY <1>0, <2>1, <2>3, <3>1, <4>1 DEF PaymentMoney, Keeps, Reviewed
      <3>2. CASE payment[p].status = "REQUIRES_REVIEW"
        BY <1>0, <2>1, <2>3, <3>2 DEF PaymentMoney, Keeps, Reviewed
      <3> QED BY <2>2, <3>1, <3>2
    <2> QED BY <2>1, <2>2, <2>3, <2>5, MoneyOnePayment
  <1>5. ASSUME Restore(p), payment[p].status = "REFUND_PENDING", UNCHANGED refund
        PROVE  MoneyInvariant'
    <2>1. /\ payment'[p].status = RestoredStatus(p)
          /\ payment'[p].booking = payment[p].booking
          /\ payment'[p].reason = payment[p].reason
          /\ payment'[p].canonical = payment[p].canonical
          /\ \A q \in Payments \ {p} : payment'[q] = payment[q] /\ refund'[q] = refund[q]
          /\ UNCHANGED booking
      BY <1>0, <1>5 DEF Restore, PaymentColumns
    <2>2. refund[p].previous \in {"SUCCESS", "REQUIRES_REVIEW"}
      BY <1>0, <1>5 DEF PaymentMoney
    <2>3. (Keeps(p)' <=> Keeps(p)) /\ (Reviewed(p)' <=> Reviewed(p))
      BY <1>5, <2>1, <2>2 DEF Keeps, Reviewed, RestoredStatus
    <2>4. PaymentMoney(p)'
      BY <1>0, <1>5, <2>1, <2>2, <2>3 DEF PaymentMoney, RestoredStatus
    <2> QED BY <1>5, <2>1, <2>3, <2>4, MoneyOnePayment
  <1>6. ASSUME CompleteRefund(p, refund[p]), payment[p].status = "REFUND_PENDING",
               UNCHANGED refund
        PROVE  MoneyInvariant'
    BY <1>6, MoneyComplete
  <1>7. CASE ApplyVnPayRefundResult(p)
    <2>1. /\ \/ CompleteRefund(p, refund[p]) /\ payment[p].status = "REFUND_PENDING"
             \/ Restore(p) /\ payment[p].status = "REFUND_PENDING"
             \/ UNCHANGED <<payment, booking>>
          /\ UNCHANGED refund
      BY <1>7 DEF ApplyVnPayRefundResult
    <2> QED BY <1>1, <1>5, <1>6, <2>1
  <1>8. ASSUME NEW kind, ApplyVnPayReconciliation(p, kind)
        PROVE  MoneyInvariant'
    <2>1. /\ \/ CompleteRefund(p, refund[p]) /\ payment[p].status = "REFUND_PENDING"
             \/ Restore(p) /\ payment[p].status = "REFUND_PENDING"
             \/ UNCHANGED <<payment, booking>>
          /\ UNCHANGED refund
      BY <1>8 DEF ApplyVnPayReconciliation
    <2> QED BY <1>1, <1>5, <1>6, <2>1
  <1>9. ASSUME \/ SendRefund(p) \/ LoseRefundCall(p)
               \/ \E kind \in AnswerKind : QueryRefund(p, kind)
        PROVE  MoneyInvariant'
    BY <1>1, <1>9 DEF SendRefund, LoseRefundCall, QueryRefund, rowVars
  <1> QED BY <1>2, <1>3, <1>4, <1>7, <1>8, <1>9

\* All of them, the crons, the rooms, the gateway and the clock.
LEMMA MoneyStep == TypeOK /\ MoneyInvariant /\ [Next]_vars => MoneyInvariant'
  <1> SUFFICES ASSUME TypeOK, MoneyInvariant, [Next]_vars
               PROVE  MoneyInvariant'
    OBVIOUS
  <1> USE DEF vars, rowVars
  <1>1. ASSUME UNCHANGED <<booking, payment, refund>>
        PROVE  MoneyInvariant'
    BY <1>1, MoneyQuiet
  <1>2. CASE RoomNext
    BY <1>1, <1>2 DEF RoomNext, LockStayBookings, UpdateRoomStatus, EndStatusChange, BlockDates,
             UnblockDates, rowVars
  <1>3. CASE GatewayNext
    BY <1>1, <1>3 DEF GatewayNext, CustomerPays, GatewaySettlesRefund, GatewayAnswersRefund
  <1>4. CASE ExpireUnpaidBookings
    <2>1. PICK B \in SUBSET ExpiredBookings :
            /\ booking' = [b \in Bookings |-> IF b \in B THEN CancelledRow(booking[b])
                                                         ELSE booking[b]]
            /\ payment' = FailPending(UNION {PaymentsOf(b) : b \in B}, "EXPIRED")
            /\ UNCHANGED refund
      BY <1>4 DEF ExpireUnpaidBookings
    <2>2. B \in SUBSET Bookings /\ \A b \in B : booking[b].payStatus # "PAID"
      BY DEF ExpiredBookings
    <2> HIDE DEF vars, rowVars
    <2> QED BY <2>1, <2>2, MoneyCancel
  <1>5. CASE ExpirePendingOnlinePayments
    <2>1. PICK P : payment' = FailPending(P, "EXPIRED") /\ UNCHANGED <<booking, refund>>
      BY <1>5 DEF ExpirePendingOnlinePayments
    <2> DEFINE B == {b \in Bookings : FALSE}
    <2>2. /\ B \in SUBSET Bookings /\ \A b \in B : booking[b].payStatus # "PAID"
          /\ booking' = [b \in Bookings |-> IF b \in B THEN CancelledRow(booking[b])
                                                      ELSE booking[b]]
      BY <2>1 DEF TypeOK
    <2> HIDE DEF B, vars, rowVars
    <2> QED BY <2>1, <2>2, MoneyCancel
  <1>6. CASE Tick \/ UNCHANGED vars
    BY <1>1, <1>6 DEF Tick
  <1> QED BY <1>2, <1>3, <1>4, <1>5, <1>6, MoneyBookingStep, MoneyPaymentStep DEF Next

-----------------------------------------------------------------------------
(* The theorems.                                                            *)

\* The inductive invariant of the money holds in every reachable state.
THEOREM MoneyInOrder == Spec => []MoneyInvariant
  <1>1. Init => MoneyInvariant
    BY DEF Init, MoneyInvariant, BookingMoney, PaymentMoney, Keeps, Reviewed,
           NoBooking, NoPayment, NoRefund
  <1> QED BY <1>1, MoneyStep, TypeCorrect, PTL DEF Spec

\* A booking is PAID exactly when one of its payments is kept, that payment is its
\* accepted one, and a REFUNDED booking is cancelled and has a refunded payment.
THEOREM BookingsAgreeWithPayments == Spec => []BookingAgreesWithPayments
  <1>1. TypeOK /\ MoneyInvariant => BookingAgreesWithPayments
    <2> SUFFICES ASSUME TypeOK, MoneyInvariant, NEW b \in Bookings
                 PROVE  /\ booking[b].payStatus = "PAID" <=> \E p \in PaymentsOf(b) : Keeps(p)
                        /\ \A p \in PaymentsOf(b) : Keeps(p) => booking[b].accepted = p
                        /\ booking[b].payStatus = "REFUNDED" =>
                             /\ booking[b].status = "CANCELLED"
                             /\ \E p \in PaymentsOf(b) : payment[p].status = "REFUNDED"
      BY DEF BookingAgreesWithPayments
    <2>1. BookingMoney(b)
      BY DEF MoneyInvariant
    <2>2. ASSUME NEW p \in PaymentsOf(b), Keeps(p)
          PROVE  booking[b].payStatus = "PAID" /\ booking[b].accepted = p
      <3>1. p \in Payments /\ payment[p].booking = b
        BY DEF PaymentsOf
      <3> QED BY <2>2, <3>1 DEF MoneyInvariant, PaymentMoney
    <2> QED BY <2>1, <2>2 DEF BookingMoney
  <1> QED BY <1>1, TypeCorrect, MoneyInOrder, PTL

\* While VNPay decides about the accepted payment, its booking is paid and neither
\* starts nor ends.
THEOREM PendingRefundAlwaysFreezes == Spec => []PendingRefundFreezesBooking
  <1>1. TypeOK /\ MoneyInvariant => PendingRefundFreezesBooking
    BY DEF MoneyInvariant, PaymentMoney, Keeps, PendingRefundFreezesBooking
  <1> QED BY <1>1, TypeCorrect, MoneyInOrder, PTL

\* The accepted payment of a booking is never replaced.
THEOREM AcceptedPaymentIsFixed == Spec => AcceptedPaymentFixed
  <1> DEFINE Fixed == \A b \in Bookings : booking[b].accepted # None =>
                        booking'[b].accepted = booking[b].accepted
  <1>1. TypeOK /\ MoneyInvariant /\ Next => Fixed
    <2> SUFFICES ASSUME TypeOK, MoneyInvariant, Next
                 PROVE  Fixed
      OBVIOUS
    <2> USE DEF rowVars
    <2>0. booking \in [Bookings -> BookingRow]
      BY DEF TypeOK
    <2>1. ASSUME NEW b \in Bookings, NEW p, booking[b].accepted = None,
                 booking' = [booking EXCEPT ![b] = PaidRow(@, p)]
          PROVE  Fixed
      BY <2>0, <2>1
    <2>2. ASSUME NEW b \in Bookings, CancelBooking(b)
          PROVE  Fixed
      BY <2>0, <2>2 DEF CancelBooking, CancelledRow, BookingRow
    <2>3. ASSUME NEW p \in Payments, payment[p].status # "ABSENT", NEW ref,
                 CompleteRefund(p, ref)
          PROVE  Fixed
      <3> DEFINE b == payment[p].booking
                 row == [CancelledRow(booking[b]) EXCEPT !.payStatus = "REFUNDED"]
      <3>1. b \in Bookings
        BY <2>3 DEF TypeOK, PaymentRow
      <3>2. row.accepted = booking[b].accepted
        BY <2>0, <3>1 DEF CancelledRow, BookingRow
      <3>3. UNCHANGED booking \/ booking' = [booking EXCEPT ![b] = row]
        BY <2>3 DEF CompleteRefund
      <3> HIDE DEF row
      <3> QED BY <2>0, <3>1, <3>2, <3>3
    <2>4. CASE BookingNext
      <3>1. PICK b \in Bookings :
              \/ \E byStaff \in BOOLEAN : CreateBooking(b, byStaff)
              \/ CancelForCustomer(b)
              \/ \E target \in BookingStatus : UpdateBookingStatus(b, target)
              \/ \E p \in Payments : CreateVnPayPayment(p, b) \/ RecordManualPayment(p, b)
        BY <2>4 DEF BookingNext
      <3>2. BookingMoney(b)
        BY DEF MoneyInvariant
      <3>3. ASSUME NEW byStaff \in BOOLEAN, CreateBooking(b, byStaff)
            PROVE  Fixed
        BY <2>0, <3>2, <3>3 DEF CreateBooking, BookingMoney
      <3>4. CASE CancelForCustomer(b)
        BY <2>2, <3>4 DEF CancelForCustomer
      <3>5. ASSUME NEW target \in BookingStatus, UpdateBookingStatus(b, target)
            PROVE  Fixed
        BY <2>0, <2>2, <3>5 DEF UpdateBookingStatus, BookingRow
      <3>6. ASSUME NEW p \in Payments, CreateVnPayPayment(p, b)
            PROVE  Fixed
        BY <3>6 DEF CreateVnPayPayment
      <3>7. ASSUME NEW p \in Payments, RecordManualPayment(p, b)
            PROVE  Fixed
        <4>1. booking[b].accepted = None
          BY <3>2, <3>7 DEF RecordManualPayment, MayStartPayment, CanAcceptPayment,
                            BookingMoney
        <4> QED BY <2>1, <3>7, <4>1 DEF RecordManualPayment
      <3> QED BY <3>1, <3>3, <3>4, <3>5, <3>6, <3>7
    <2>5. CASE PaymentNext
      <3>1. PICK p \in Payments :
              \/ VnPayIpn(p)
              \/ RefundManual(p)
              \/ \E key \in RefundKeys,
                    capability \in {"STANDARD_REFUND", "DUPLICATE_CHARGE_REFUND"} :
                   PrepareVnPayRefund(p, key, capability)
              \/ SendRefund(p)
              \/ LoseRefundCall(p)
              \/ ApplyVnPayRefundResult(p)
              \/ \E kind \in AnswerKind : \/ QueryRefund(p, kind)
                                          \/ ApplyVnPayReconciliation(p, kind)
        BY <2>5 DEF PaymentNext
      <3>2. CASE VnPayIpn(p)
        <4>1. payment[p].status \in {"PENDING", "FAILED"} /\ payment[p].booking \in Bookings
          BY <3>2 DEF VnPayIpn, AwaitsOutcome, TypeOK, PaymentRow
        <4>2. \/ UNCHANGED booking
              \/ /\ booking' = [booking EXCEPT ![payment[p].booking] = PaidRow(@, p)]
                 /\ booking[payment[p].booking].accepted = None
          BY <3>2, <4>1, NothingAccepted
          DEF VnPayIpn, ApplyGatewayPaymentOutcome, ReviewCaptured, AcceptCaptured
        <4> QED BY <2>1, <4>1, <4>2
      <3>3. CASE RefundManual(p)
        <4>1. payment[p].status # "ABSENT"
          BY <3>3 DEF RefundManual, ManualRefundAllowed
        <4> QED BY <2>3, <3>3, <4>1 DEF RefundManual
      <3>4. CASE ApplyVnPayRefundResult(p)
        <4>1. \/ CompleteRefund(p, refund[p]) /\ payment[p].status # "ABSENT"
              \/ UNCHANGED booking
          BY <3>4 DEF ApplyVnPayRefundResult, Restore
        <4> QED BY <2>3, <4>1
      <3>5. ASSUME NEW kind, ApplyVnPayReconciliation(p, kind)
            PROVE  Fixed
        <4>1. \/ CompleteRefund(p, refund[p]) /\ payment[p].status # "ABSENT"
              \/ UNCHANGED booking
          BY <3>5 DEF ApplyVnPayReconciliation, Restore
        <4> QED BY <2>3, <4>1
      <3>6. ASSUME NEW key, NEW capability, PrepareVnPayRefund(p, key, capability)
            PROVE  Fixed
        BY <3>6 DEF PrepareVnPayRefund
      <3>7. ASSUME \/ SendRefund(p) \/ LoseRefundCall(p)
                   \/ \E kind \in AnswerKind : QueryRefund(p, kind)
            PROVE  Fixed
        BY <3>7 DEF SendRefund, LoseRefundCall, QueryRefund
      <3> QED BY <3>1, <3>2, <3>3, <3>4, <3>5, <3>6, <3>7
    <2>6. CASE RoomNext
      BY <2>6 DEF RoomNext, LockStayBookings, UpdateRoomStatus, EndStatusChange, BlockDates,
             UnblockDates, rowVars
    <2>7. CASE GatewayNext
      BY <2>7 DEF GatewayNext, CustomerPays, GatewaySettlesRefund, GatewayAnswersRefund
    <2>8. CASE ExpireUnpaidBookings
      <3>1. PICK B \in SUBSET ExpiredBookings :
              booking' = [b \in Bookings |-> IF b \in B THEN CancelledRow(booking[b])
                                                           ELSE booking[b]]
        BY <2>8 DEF ExpireUnpaidBookings
      <3>2. \A b \in Bookings : CancelledRow(booking[b]).accepted = booking[b].accepted
        BY <2>0 DEF CancelledRow, BookingRow
      <3> QED BY <3>1, <3>2
    <2>9. CASE ExpirePendingOnlinePayments \/ Tick
      BY <2>9 DEF ExpirePendingOnlinePayments, Tick
    <2> QED BY <2>4, <2>5, <2>6, <2>7, <2>8, <2>9 DEF Next
  <1>2. TypeOK /\ MoneyInvariant /\ [Next]_vars => [Fixed]_vars
    BY <1>1
  <1> QED BY <1>2, TypeCorrect, MoneyInOrder, PTL DEF Spec, AcceptedPaymentFixed

-----------------------------------------------------------------------------
(* The bookings that a manual change of a room's status has locked.         *)

\* Every step but those of the rooms leaves the changes under way alone, and the
\* status of the bookings they have locked.
LEMMA LockedBookingsStay ==
  ASSUME TypeOK, ChangeInvariant, [Next]_vars, ~RoomNext
  PROVE  /\ UNCHANGED statusChange
         /\ \A c \in Bookings : ~Unlocked(c) => booking'[c].status = booking[c].status
  <1> DEFINE Stay == \A c \in Bookings : ~Unlocked(c) => booking'[c].status = booking[c].status
  <1> USE DEF rowVars, vars
  <1>0. booking \in [Bookings -> BookingRow]
    BY DEF TypeOK
  <1>1. ASSUME NEW b, Unlocked(b), \A c \in Bookings \ {b} : booking'[c] = booking[c]
        PROVE  Stay
    BY <1>1
  <1>2. CASE BookingNext
    <2>1. PICK b \in Bookings :
            \/ \E byStaff \in BOOLEAN : CreateBooking(b, byStaff)
            \/ CancelForCustomer(b)
            \/ \E target \in BookingStatus : UpdateBookingStatus(b, target)
            \/ \E p \in Payments : CreateVnPayPayment(p, b) \/ RecordManualPayment(p, b)
      BY <1>2 DEF BookingNext
    <2>2. ASSUME NEW byStaff, CreateBooking(b, byStaff)
          PROVE  UNCHANGED statusChange /\ Stay
      <3>1. Unlocked(b)
        BY <2>2, StayAssumption DEF CreateBooking, Unlocked, ChangeInvariant, StayBookings
      <3>2. UNCHANGED statusChange /\ \A c \in Bookings \ {b} : booking'[c] = booking[c]
        BY <1>0, <2>2 DEF CreateBooking
      <3> QED BY <1>1, <3>1, <3>2
    <2>3. CASE CancelForCustomer(b)
      <3>1. Unlocked(b) /\ UNCHANGED statusChange
        BY <2>3 DEF CancelForCustomer
      <3>2. \A c \in Bookings \ {b} : booking'[c] = booking[c]
        BY <1>0, <2>3 DEF CancelForCustomer, CancelBooking
      <3> QED BY <1>1, <3>1, <3>2
    <2>4. ASSUME NEW target, UpdateBookingStatus(b, target)
          PROVE  UNCHANGED statusChange /\ Stay
      <3>1. Unlocked(b) /\ UNCHANGED statusChange
        BY <2>4 DEF UpdateBookingStatus
      <3>2. \A c \in Bookings \ {b} : booking'[c] = booking[c]
        BY <1>0, <2>4 DEF UpdateBookingStatus, CancelBooking
      <3> QED BY <1>1, <3>1, <3>2
    <2>5. ASSUME NEW p, CreateVnPayPayment(p, b)
          PROVE  UNCHANGED statusChange /\ Stay
      BY <2>5 DEF CreateVnPayPayment
    <2>6. ASSUME NEW p, RecordManualPayment(p, b)
          PROVE  UNCHANGED statusChange /\ Stay
      <3>1. Unlocked(b) /\ UNCHANGED statusChange
        BY <2>6 DEF RecordManualPayment, MayStartPayment
      <3>2. \A c \in Bookings \ {b} : booking'[c] = booking[c]
        BY <1>0, <2>6 DEF RecordManualPayment
      <3> QED BY <1>1, <3>1, <3>2
    <2> QED BY <2>1, <2>2, <2>3, <2>4, <2>5, <2>6
  <1>3. CASE PaymentNext
    <2>1. PICK p \in Payments :
            \/ VnPayIpn(p)
            \/ RefundManual(p)
            \/ \E key \in RefundKeys,
                  capability \in {"STANDARD_REFUND", "DUPLICATE_CHARGE_REFUND"} :
                 PrepareVnPayRefund(p, key, capability)
            \/ SendRefund(p)
            \/ LoseRefundCall(p)
            \/ ApplyVnPayRefundResult(p)
            \/ \E kind \in AnswerKind : \/ QueryRefund(p, kind)
                                        \/ ApplyVnPayReconciliation(p, kind)
      BY <1>3 DEF PaymentNext
    <2>2. CASE VnPayIpn(p)
      <3>1. Unlocked(payment[p].booking) /\ UNCHANGED statusChange
        BY <2>2 DEF VnPayIpn
      <3>2. \A c \in Bookings \ {payment[p].booking} : booking'[c] = booking[c]
        BY <1>0, <2>2 DEF VnPayIpn, ApplyGatewayPaymentOutcome, ReviewCaptured, AcceptCaptured
      <3> QED BY <1>1, <3>1, <3>2
    <2>3. ASSUME NEW ref, CompleteRefund(p, ref), Unlocked(payment[p].booking)
          PROVE  Stay
      <3>1. \A c \in Bookings \ {payment[p].booking} : booking'[c] = booking[c]
        BY <1>0, <2>3 DEF CompleteRefund
      <3> QED BY <1>1, <2>3, <3>1
    <2>4. CASE RefundManual(p)
      BY <2>3, <2>4 DEF RefundManual
    <2>5. ASSUME NEW key, NEW capability, PrepareVnPayRefund(p, key, capability)
          PROVE  UNCHANGED statusChange /\ Stay
      BY <2>5 DEF PrepareVnPayRefund
    <2>6. CASE SendRefund(p) \/ LoseRefundCall(p)
      BY <2>6 DEF SendRefund, LoseRefundCall
    <2>7. CASE ApplyVnPayRefundResult(p)
      <3>1. /\ UNCHANGED statusChange
            /\ \/ CompleteRefund(p, refund[p]) /\ Unlocked(payment[p].booking)
               \/ UNCHANGED booking
        BY <2>7 DEF ApplyVnPayRefundResult, Restore
      <3> QED BY <2>3, <3>1
    <2>8. ASSUME NEW kind, QueryRefund(p, kind)
          PROVE  UNCHANGED statusChange /\ Stay
      BY <2>8 DEF QueryRefund
    <2>9. ASSUME NEW kind, ApplyVnPayReconciliation(p, kind)
          PROVE  UNCHANGED statusChange /\ Stay
      <3>1. /\ UNCHANGED statusChange
            /\ \/ CompleteRefund(p, refund[p]) /\ Unlocked(payment[p].booking)
               \/ UNCHANGED booking
        BY <2>9 DEF ApplyVnPayReconciliation, Restore
      <3> QED BY <2>3, <3>1
    <2> QED BY <2>1, <2>2, <2>4, <2>5, <2>6, <2>7, <2>8, <2>9
  <1>4. CASE GatewayNext
    BY <1>4 DEF GatewayNext, CustomerPays, GatewaySettlesRefund, GatewayAnswersRefund
  <1>5. CASE ExpireUnpaidBookings
    <2>1. PICK B \in SUBSET ExpiredBookings :
            /\ booking' = [b \in Bookings |-> IF b \in B THEN CancelledRow(booking[b])
                                                         ELSE booking[b]]
            /\ UNCHANGED statusChange
      BY <1>5 DEF ExpireUnpaidBookings
    <2>2. \A b \in B : booking[b].status = "PENDING_PAYMENT" /\ b \in Bookings
      BY DEF ExpiredBookings
    <2>3. \A b \in B : Unlocked(b)
      BY <2>2, StayAssumption DEF Unlocked, ChangeInvariant, StayBookings
    <2> QED BY <2>1, <2>3
  <1>6. CASE ExpirePendingOnlinePayments \/ Tick \/ UNCHANGED vars
    BY <1>6 DEF ExpirePendingOnlinePayments, Tick
  <1> QED BY <1>2, <1>3, <1>4, <1>5, <1>6 DEF Next

\* A step leaves the knowledge of every change as it is, or starts or ends one.
LEMMA ChangeStep == TypeOK /\ ChangeInvariant /\ [Next]_vars => ChangeInvariant'
  <1> SUFFICES ASSUME TypeOK, ChangeInvariant, [Next]_vars
               PROVE  ChangeInvariant'
    OBVIOUS
  <1>1. CASE ~RoomNext
    <2> SUFFICES ASSUME NEW r \in Rooms
                 PROVE  /\ statusChange'[r].locked \subseteq StayBookings(r)'
                        /\ statusChange'[r].checkedIn <=>
                             Guests(r)' \cap statusChange'[r].locked # {}
      BY DEF ChangeInvariant
    <2>1. /\ statusChange'[r] = statusChange[r]
          /\ \A c \in Bookings : ~Unlocked(c) => booking'[c].status = booking[c].status
      BY <1>1, LockedBookingsStay
    <2>2. /\ statusChange[r].locked \subseteq StayBookings(r)
          /\ statusChange[r].checkedIn <=> Guests(r) \cap statusChange[r].locked # {}
      BY DEF ChangeInvariant
    <2>3. \A c \in statusChange[r].locked :
            c \in Bookings /\ RoomOf[c] = r /\ booking'[c].status = booking[c].status
      BY <2>1, <2>2 DEF StayBookings, Unlocked
    <2> QED BY <2>1, <2>2, <2>3 DEF StayBookings, Guests
  <1>2. CASE RoomNext
    <2>1. UNCHANGED booking
      BY <1>2 DEF RoomNext, LockStayBookings, UpdateRoomStatus, EndStatusChange, BlockDates,
                  UnblockDates, rowVars
    <2> DEFINE Found(r) ==
          [open |-> TRUE, locked |-> StayBookings(r),
           checkedIn |-> \E b \in StayBookings(r) : booking[b].status = "CHECKED_IN"]
    <2>r. PICK r \in Rooms : \/ LockStayBookings(r) \/ EndStatusChange(r)
                            \/ \E next, role : UpdateRoomStatus(r, next, role)
                            \/ UNCHANGED statusChange
      BY <1>2 DEF RoomNext, BlockDates, UnblockDates
    <2>2. PICK row \in {statusChange[r], NoChange, Found(r)} :
            statusChange' = [statusChange EXCEPT ![r] = row]
      <3>1. statusChange = [statusChange EXCEPT ![r] = statusChange[r]]
        BY DEF TypeOK
      <3> QED BY <2>r, <3>1 DEF LockStayBookings, EndStatusChange, UpdateRoomStatus
    <2>3. /\ row.locked \subseteq StayBookings(r)
          /\ row.checkedIn <=> Guests(r) \cap row.locked # {}
      <3>1. CASE row = statusChange[r]
        BY <3>1 DEF ChangeInvariant
      <3>2. CASE row = NoChange
        BY <3>2 DEF NoChange
      <3>3. CASE row = Found(r)
        BY <3>3 DEF StayBookings, Guests
      <3> QED BY <2>2, <3>1, <3>2, <3>3
    <2>4. \A q \in Rooms : statusChange'[q] = IF q = r THEN row ELSE statusChange[q]
      BY <2>2 DEF TypeOK
    <2> QED BY <2>1, <2>3, <2>4 DEF ChangeInvariant, StayBookings, Guests
  <1> QED BY <1>1, <1>2

\* A manual change of the status of a room knows of each booking it has locked, and
\* of no other, whether its guest is in the room.
THEOREM ChangesKnowWhatTheyLocked == Spec => []ChangeInvariant
  <1>1. Init => ChangeInvariant
    BY DEF Init, ChangeInvariant, NoChange, StayBookings, Guests
  <1> QED BY <1>1, ChangeStep, TypeCorrect, PTL DEF Spec

\* The status of a room changes by a check-in, a check-out or a manual change.
LEMMA RoomsOtherwiseKept ==
  ASSUME Next, room' # room
  PROVE  \/ \E b \in Bookings, target \in BookingStatus : UpdateBookingStatus(b, target)
         \/ \E r \in Rooms, next \in RoomStatus, role \in {"ADMIN", "STAFF"} :
              UpdateRoomStatus(r, next, role)
  <1> USE DEF rowVars
  <1>1. CASE BookingNext
    BY <1>1 DEF BookingNext, CreateBooking, CancelForCustomer, CreateVnPayPayment,
                RecordManualPayment
  <1>2. CASE PaymentNext
    BY <1>2 DEF PaymentNext, VnPayIpn, RefundManual, PrepareVnPayRefund, SendRefund,
                LoseRefundCall, ApplyVnPayRefundResult, QueryRefund, ApplyVnPayReconciliation
  <1>3. CASE RoomNext
    BY <1>3 DEF RoomNext, LockStayBookings, EndStatusChange, BlockDates, UnblockDates
  <1>4. CASE GatewayNext \/ ExpireUnpaidBookings \/ ExpirePendingOnlinePayments \/ Tick
    BY <1>4 DEF GatewayNext, CustomerPays, GatewaySettlesRefund, GatewayAnswersRefund,
                ExpireUnpaidBookings, ExpirePendingOnlinePayments, Tick
  <1> QED BY <1>1, <1>2, <1>3, <1>4 DEF Next

-----------------------------------------------------------------------------
(* Why data:audit finds nothing: no room is occupied by nobody, no paid     *)
(* booking becomes unpaid again, and a refund leaves its record.            *)

(* Steps that concern one table.                                            *)

\* A step that checks nobody in or out and leaves the rooms alone.
LEMMA OccupancyFrame ==
  ASSUME OccupiedRoomsHaveGuests, UNCHANGED room,
         \A b \in Bookings :
           booking'[b].status = "CHECKED_IN" <=> booking[b].status = "CHECKED_IN"
  PROVE  OccupiedRoomsHaveGuests'
  BY DEF OccupiedRoomsHaveGuests, Guests

\* A step that makes no paid booking unpaid, refunds nothing and finds no second
\* charge but where PaidOnce is known to hold.
LEMMA AuditFrame ==
  ASSUME AuditInvariant,
         \A p \in Payments : payment[p].status # "ABSENT" => payment[p].booking \in Bookings,
         \A b \in Bookings :
           booking[b].payStatus # "UNPAID" => booking'[b].payStatus # "UNPAID",
         \A p \in Payments : payment'[p].status # "ABSENT" =>
           \/ PaidOnce(p)'
           \/ /\ payment[p].status # "ABSENT"
              /\ payment'[p].booking = payment[p].booking
              /\ payment'[p].status = "REFUNDED" => payment[p].status = "REFUNDED"
              /\ payment'[p].reason = "ANOTHER_SUCCESSFUL_PAYMENT" =>
                   payment[p].reason = "ANOTHER_SUCCESSFUL_PAYMENT"
              /\ refund[p].exists => refund'[p].exists
  PROVE  AuditInvariant'
  BY DEF AuditInvariant, PaidOnce

\* Both, where bookings and payments are cancelled and failed.
LEMMA CancelFrame ==
  ASSUME TypeOK, MoneyInvariant, AuditInvariant, OccupiedRoomsHaveGuests, UNCHANGED <<refund, room>>,
         NEW B \in SUBSET Bookings, \A b \in B : booking[b].payStatus # "PAID",
         booking' = [b \in Bookings |-> IF b \in B THEN CancelledRow(booking[b])
                                                   ELSE booking[b]],
         NEW P, NEW code \in {"EXPIRED", "CANCELLED"}, payment' = FailPending(P, code)
  PROVE  AuditInvariant' /\ OccupiedRoomsHaveGuests'
  <1>1. \A b \in Bookings :
          /\ booking'[b].payStatus = booking[b].payStatus
          /\ booking'[b].status = IF b \in B THEN "CANCELLED" ELSE booking[b].status
    BY ZenonT(40) DEF CancelledRow, TypeOK, BookingRow
  <1>2. \A b \in B : booking[b].status # "CHECKED_IN"
    BY DEF MoneyInvariant, BookingMoney
  <1>3. \A p \in Payments :
          /\ payment'[p].booking = payment[p].booking
          /\ payment'[p].reason = payment[p].reason
          /\ \/ payment'[p].status = payment[p].status
             \/ payment[p].status = "PENDING" /\ payment'[p].status = "FAILED"
    BY FailPendingRows
  <1>4. \A p \in Payments : payment[p].status # "ABSENT" => payment[p].booking \in Bookings
    BY DEF TypeOK, PaymentRow
  <1>5. AuditInvariant'
    BY <1>1, <1>3, <1>4, AuditFrame
  <1>6. OccupiedRoomsHaveGuests'
    BY <1>1, <1>2, OccupancyFrame
  <1> QED BY <1>5, <1>6

\* Both, where a refund completes.
LEMMA CompleteFrame ==
  ASSUME TypeOK, MoneyInvariant, AuditInvariant, OccupiedRoomsHaveGuests, UNCHANGED room,
         NEW p \in Payments, NEW ref, CompleteRefund(p, ref), ref.previous = refund[p].previous,
         \/ /\ payment[p].status = "SUCCESS" /\ refund[p].previous = None
            /\ booking[payment[p].booking].status # "CHECKED_IN"
         \/ payment[p].status = "REFUND_PENDING",
         refund'[p].exists, \A q \in Payments \ {p} : refund'[q] = refund[q]
  PROVE  AuditInvariant' /\ OccupiedRoomsHaveGuests'
  <1> DEFINE b == payment[p].booking
  <1>1. /\ b \in Bookings /\ booking[b] \in BookingRow /\ payment[p] \in PaymentColumns
        /\ PaymentMoney(p) /\ PaidOnce(p)
        /\ \A q \in Payments : payment[q].status # "ABSENT" => payment[q].booking \in Bookings
    BY DEF TypeOK, PaymentRow, MoneyInvariant, AuditInvariant
  <1>2. /\ payment'[p].status = "REFUNDED" /\ payment'[p].booking = b
        /\ \A q \in Payments \ {p} : payment'[q] = payment[q]
    BY <1>1 DEF CompleteRefund, TypeOK, PaymentColumns
  <1>3. CASE IsDuplicateCharge(p, payment[p], ref)
    <2>1. UNCHANGED booking /\ payment[p].reason = "ANOTHER_SUCCESSFUL_PAYMENT"
      BY <1>3 DEF CompleteRefund, IsDuplicateCharge
    <2>2. PaidOnce(p)'
      BY <1>1, <1>2, <2>1 DEF PaidOnce
    <2>3. AuditInvariant'
      BY <1>1, <1>2, <2>1, <2>2, AuditFrame
    <2> QED BY <2>1, <2>3, OccupancyFrame
  <1>4. CASE ~IsDuplicateCharge(p, payment[p], ref)
    <2>1. booking[b].status # "CHECKED_IN"
      BY <1>1, <1>4 DEF IsDuplicateCharge, PaymentMoney, Keeps, Reviewed
    <2>2. /\ booking'[b].payStatus = "REFUNDED" /\ booking'[b].status = "CANCELLED"
          /\ \A c \in Bookings \ {b} : booking'[c] = booking[c]
      <3> DEFINE row == [CancelledRow(booking[b]) EXCEPT !.payStatus = "REFUNDED"]
      <3>1. row.payStatus = "REFUNDED" /\ row.status = "CANCELLED"
        BY <1>1 DEF CancelledRow, BookingRow
      <3>2. booking' = [booking EXCEPT ![b] = row] /\ booking \in [Bookings -> BookingRow]
        BY <1>4 DEF CompleteRefund, TypeOK
      <3> HIDE DEF row
      <3> QED BY <1>1, <3>1, <3>2
    <2>3. PaidOnce(p)'
      BY <1>2, <2>2 DEF PaidOnce
    <2>4. AuditInvariant'
      BY <1>1, <1>2, <2>2, <2>3, AuditFrame
    <2>5. \A c \in Bookings : booking'[c].status = "CHECKED_IN" <=> booking[c].status = "CHECKED_IN"
      BY <2>1, <2>2
    <2> QED BY <2>4, <2>5, OccupancyFrame
  <1> QED BY <1>3, <1>4

\* Both, where money that VNPay captured is accepted or put up for review.
LEMMA OutcomeFrame ==
  ASSUME TypeOK, MoneyInvariant, AuditInvariant, OccupiedRoomsHaveGuests, UNCHANGED <<refund, room>>,
         NEW p \in Payments, payment[p].status \in {"PENDING", "FAILED"},
         ApplyGatewayPaymentOutcome(p)
  PROVE  AuditInvariant' /\ OccupiedRoomsHaveGuests'
  <1> DEFINE b == payment[p].booking
  <1>1. /\ b \in Bookings /\ booking[b] \in BookingRow /\ payment[p] \in PaymentColumns
        /\ BookingMoney(b) /\ booking[b].payStatus \in BookingPaymentStatus
        /\ booking \in [Bookings -> BookingRow]
        /\ \A q \in Payments : payment[q].status # "ABSENT" => payment[q].booking \in Bookings
    BY DEF TypeOK, PaymentRow, MoneyInvariant, BookingRow
  <1>2. PICK canonical \in CanonicalPayment(p) :
          \/ ReviewCaptured(p, "BOOKING_CANCELLED", None)
          \/ /\ booking[b].status # "CANCELLED" /\ canonical \notin {None, p}
             /\ ReviewCaptured(p, "ANOTHER_SUCCESSFUL_PAYMENT", canonical)
          \/ AcceptCaptured(p)
    BY DEF ApplyGatewayPaymentOutcome
  <1>3. ASSUME NEW reason, NEW c, ReviewCaptured(p, reason, c),
               reason = "ANOTHER_SUCCESSFUL_PAYMENT" => booking[b].payStatus # "UNPAID"
        PROVE  AuditInvariant' /\ OccupiedRoomsHaveGuests'
    <2>1. /\ payment'[p].status = "REQUIRES_REVIEW" /\ payment'[p].booking = b
          /\ payment'[p].reason = reason
          /\ \A q \in Payments \ {p} : payment'[q] = payment[q]
          /\ UNCHANGED booking
      BY <1>1, <1>3 DEF ReviewCaptured, CapturedRow, TypeOK, PaymentColumns
    <2>2. PaidOnce(p)'
      BY <1>3, <2>1 DEF PaidOnce
    <2>3. AuditInvariant'
      BY <1>1, <2>1, <2>2, AuditFrame
    <2> QED BY <2>1, <2>3, OccupancyFrame
  <1>4. ASSUME booking[b].status # "CANCELLED", canonical \notin {None, p}
        PROVE  booking[b].payStatus # "UNPAID"
    <2>1. CASE booking[b].accepted # None
      BY <1>1, <2>1 DEF BookingMoney
    <2>2. CASE booking[b].accepted = None
      <3>1. /\ canonical \in Payments /\ payment[canonical].booking = b
            /\ payment[canonical].status \in {"SUCCESS", "REFUND_PENDING", "REFUNDED"}
        BY <1>4, <2>2 DEF CanonicalPayment, PaymentsOf
      <3>2. PaymentMoney(canonical) /\ PaidOnce(canonical)
        BY <3>1 DEF MoneyInvariant, AuditInvariant
      <3> QED BY <1>4, <3>1, <3>2 DEF PaymentMoney, PaidOnce, Keeps, Reviewed
    <2> QED BY <2>1, <2>2
  <1>5. CASE AcceptCaptured(p)
    <2>1. /\ payment'[p].status = "SUCCESS" /\ payment'[p].booking = b /\ payment'[p].reason = None
          /\ \A q \in Payments \ {p} : payment'[q] = payment[q]
          /\ booking' = [booking EXCEPT ![b] = PaidRow(@, p)]
      BY <1>1, <1>5 DEF AcceptCaptured, CapturedRow, TypeOK, PaymentColumns
    <2>2. /\ booking'[b].payStatus = "PAID"
          /\ booking'[b].status = "CHECKED_IN" <=> booking[b].status = "CHECKED_IN"
          /\ \A c \in Bookings \ {b} : booking'[c] = booking[c]
      BY <1>1, <2>1 DEF PaidRow, BookingRow
    <2>3. PaidOnce(p)'
      BY <2>1, <2>2 DEF PaidOnce
    <2>4. AuditInvariant'
      BY <1>1, <2>1, <2>2, <2>3, AuditFrame
    <2>5. \A c \in Bookings : booking'[c].status = "CHECKED_IN" <=> booking[c].status = "CHECKED_IN"
      BY <2>2
    <2> QED BY <2>4, <2>5, OccupancyFrame
  <1> QED BY <1>2, <1>3, <1>4, <1>5

-----------------------------------------------------------------------------
(* Every step of the system.                                                *)

\* The two invariants, about the tables the audit reads.
Audited == AuditInvariant /\ OccupiedRoomsHaveGuests

\* Creating, cancelling, advancing and paying bookings.
LEMMA AuditBookingStep ==
  TypeOK /\ MoneyInvariant /\ Audited /\ BookingNext => Audited'
  <1> SUFFICES ASSUME TypeOK, MoneyInvariant, AuditInvariant, OccupiedRoomsHaveGuests,
                      NEW b \in Bookings,
                      \/ \E byStaff \in BOOLEAN : CreateBooking(b, byStaff)
                      \/ CancelForCustomer(b)
                      \/ \E target \in BookingStatus : UpdateBookingStatus(b, target)
                      \/ \E p \in Payments : \/ CreateVnPayPayment(p, b)
                                             \/ RecordManualPayment(p, b)
               PROVE  AuditInvariant' /\ OccupiedRoomsHaveGuests'
    BY DEF BookingNext, Audited
  <1>0. /\ booking \in [Bookings -> BookingRow] /\ booking[b] \in BookingRow
        /\ BookingMoney(b)
        /\ \A p \in Payments : payment[p].status # "ABSENT" => payment[p].booking \in Bookings
    BY DEF TypeOK, PaymentRow, MoneyInvariant
  <1>1. ASSUME CancelBooking(b), UNCHANGED <<refund, room>>
        PROVE  AuditInvariant' /\ OccupiedRoomsHaveGuests'
    <2> DEFINE B == {b}
    <2>1. /\ booking' = [c \in Bookings |-> IF c \in B THEN CancelledRow(booking[c])
                                                      ELSE booking[c]]
          /\ payment' = FailPending(PaymentsOf(b), "CANCELLED")
          /\ \A c \in B : booking[c].payStatus # "PAID"
          /\ B \in SUBSET Bookings
      BY <1>0, <1>1 DEF CancelBooking
    <2> HIDE DEF B
    <2> QED BY <1>1, <2>1, CancelFrame
  <1>2. CASE CancelForCustomer(b)
    BY <1>1, <1>2 DEF CancelForCustomer
  <1>3. ASSUME NEW byStaff, CreateBooking(b, byStaff)
        PROVE  AuditInvariant' /\ OccupiedRoomsHaveGuests'
    <2>1. /\ booking[b].status = "ABSENT" /\ booking[b].payStatus = "UNPAID"
          /\ booking'[b].status = "PENDING_PAYMENT"
          /\ \A c \in Bookings \ {b} : booking'[c] = booking[c]
          /\ UNCHANGED <<payment, refund, room>>
      BY <1>0, <1>3 DEF CreateBooking, BookingMoney
    <2>2. AuditInvariant'
      BY <1>0, <2>1, AuditFrame
    <2> QED BY <2>1, <2>2, OccupancyFrame
  <1>4. ASSUME NEW target \in BookingStatus, target # "CANCELLED", UpdateBookingStatus(b, target)
        PROVE  AuditInvariant' /\ OccupiedRoomsHaveGuests'
    <2> DEFINE r == RoomOf[b]
    <2>1. /\ booking' = [booking EXCEPT ![b].status = target, ![b].deadline = NoTime]
          /\ room' = [room EXCEPT ![r] =
               CASE target = "CHECKED_IN" -> "OCCUPIED"
                 [] target = "CHECKED_OUT" /\ @ \notin {"HIDDEN", "MAINTENANCE"} -> "CLEANING"
                 [] OTHER -> @]
          /\ UNCHANGED <<payment, refund>>
          /\ target \in ManagementTransitions(booking[b].status)
          /\ target = "CHECKED_IN" => room[r] = "READY"
      BY <1>4 DEF UpdateBookingStatus, TransitionAllowed
    <2>2. /\ booking'[b].status = target /\ booking'[b].payStatus = booking[b].payStatus
          /\ \A c \in Bookings \ {b} : booking'[c] = booking[c]
      BY <1>0, <2>1 DEF BookingRow
    <2>3. AuditInvariant'
      BY <1>0, <2>1, <2>2, AuditFrame
    <2>4. /\ target = "CHECKED_OUT" => booking[b].status = "CHECKED_IN"
          /\ target \in {"CONFIRMED", "CHECKED_IN"} => booking[b].status # "CHECKED_IN"
          /\ target \in {"CONFIRMED", "CHECKED_IN", "CHECKED_OUT"}
      BY <1>4, <2>1 DEF ManagementTransitions
    <2>5. r \in Rooms /\ RoomOf \in [Bookings -> Rooms] /\ room \in [Rooms -> RoomStatus]
      BY StayAssumption DEF TypeOK
    <2>6. CASE target = "CONFIRMED"
      <3>1. room' = room
        BY <2>1, <2>5, <2>6
      <3> QED BY <2>2, <2>3, <2>4, <2>6, <3>1, OccupancyFrame
    <2>7. CASE target = "CHECKED_IN"
      <3>1. room' = [room EXCEPT ![r] = "OCCUPIED"]
        BY <2>1, <2>7
      <3> QED BY <2>2, <2>3, <2>5, <2>7, <3>1 DEF OccupiedRoomsHaveGuests, Guests
    <2>8. CASE target = "CHECKED_OUT"
      <3>1. room'[r] # "OCCUPIED" /\ \A q \in Rooms \ {r} : room'[q] = room[q]
        BY <2>1, <2>5, <2>8
      <3> QED BY <2>2, <2>3, <2>4, <2>5, <2>8, <3>1 DEF OccupiedRoomsHaveGuests, Guests
    <2> QED BY <2>4, <2>6, <2>7, <2>8
  <1>5. ASSUME UpdateBookingStatus(b, "CANCELLED")
        PROVE  AuditInvariant' /\ OccupiedRoomsHaveGuests'
    BY <1>1, <1>5 DEF UpdateBookingStatus
  <1>6. ASSUME NEW p \in Payments, NEW row, payment' = WithNewPayment(p, b, row),
               row.status # "REFUNDED", row.reason = None, payment[p].status = "ABSENT",
               UNCHANGED <<refund, room>>,
               \A c \in Bookings :
                 /\ booking'[c].status = "CHECKED_IN" <=> booking[c].status = "CHECKED_IN"
                 /\ booking[c].payStatus # "UNPAID" => booking'[c].payStatus # "UNPAID"
        PROVE  AuditInvariant' /\ OccupiedRoomsHaveGuests'
    <2> DEFINE late == {q \in PaymentsOf(b) : Overdue(q)}
    <2>1. /\ payment'[p] = row
          /\ \A q \in Payments \ {p} : payment'[q] = FailPending(late, "EXPIRED")[q]
      BY <1>6 DEF WithNewPayment, FailPending
    <2> HIDE DEF late
    <2>2. PaidOnce(p)'
      BY <1>6, <2>1 DEF PaidOnce, None
    <2>3. \A q \in Payments \ {p} :
            /\ payment'[q].booking = payment[q].booking /\ payment'[q].reason = payment[q].reason
            /\ \/ payment'[q] = payment[q]
               \/ payment[q].status = "PENDING" /\ payment'[q].status = "FAILED"
      BY <2>1, FailPendingRows
    <2>4. AuditInvariant'
      BY <1>0, <1>6, <2>2, <2>3, AuditFrame
    <2> QED BY <1>6, <2>4, OccupancyFrame
  <1>7. ASSUME NEW p \in Payments, CreateVnPayPayment(p, b)
        PROVE  AuditInvariant' /\ OccupiedRoomsHaveGuests'
    <2> DEFINE row == [NoPayment EXCEPT !.status = "PENDING", !.booking = b,
                         !.method = "VNPAY",
                         !.deadline = IF booking[b].status = "PENDING_PAYMENT"
                                        THEN booking[b].deadline ELSE now + Timeout]
    <2>1. row.status = "PENDING" /\ row.reason = None
      BY DEF NoPayment
    <2>2. /\ payment' = WithNewPayment(p, b, row) /\ payment[p].status = "ABSENT"
          /\ UNCHANGED <<booking, refund, room>>
      BY <1>7 DEF CreateVnPayPayment, MayStartPayment
    <2> HIDE DEF row
    <2> QED BY <1>6, <2>1, <2>2
  <1>8. ASSUME NEW p \in Payments, RecordManualPayment(p, b)
        PROVE  AuditInvariant' /\ OccupiedRoomsHaveGuests'
    <2> DEFINE row == [NoPayment EXCEPT !.status = "SUCCESS", !.booking = b,
                                        !.method = "MANUAL"]
    <2>1. row.status = "SUCCESS" /\ row.reason = None
      BY DEF NoPayment
    <2>2. /\ payment' = WithNewPayment(p, b, row) /\ payment[p].status = "ABSENT"
          /\ booking' = [booking EXCEPT ![b] = PaidRow(@, p)] /\ UNCHANGED <<refund, room>>
      BY <1>8 DEF RecordManualPayment, MayStartPayment
    <2> HIDE DEF row
    <2>3. /\ booking'[b].payStatus = "PAID"
          /\ booking'[b].status = "CHECKED_IN" <=> booking[b].status = "CHECKED_IN"
          /\ \A c \in Bookings \ {b} : booking'[c] = booking[c]
      BY <1>0, <2>2 DEF PaidRow, BookingRow
    <2> QED BY <1>6, <2>1, <2>2, <2>3
  <1> QED BY <1>2, <1>3, <1>4, <1>5, <1>7, <1>8

\* IPNs, refunds, their answers and their reconciliation.
LEMMA AuditPaymentStep ==
  TypeOK /\ MoneyInvariant /\ Audited /\ PaymentNext => Audited'
  <1> SUFFICES ASSUME TypeOK, MoneyInvariant, AuditInvariant, OccupiedRoomsHaveGuests,
                      NEW p \in Payments,
                      \/ VnPayIpn(p)
                      \/ RefundManual(p)
                      \/ \E key \in RefundKeys,
                            capability \in {"STANDARD_REFUND", "DUPLICATE_CHARGE_REFUND"} :
                           PrepareVnPayRefund(p, key, capability)
                      \/ SendRefund(p)
                      \/ LoseRefundCall(p)
                      \/ ApplyVnPayRefundResult(p)
                      \/ \E kind \in AnswerKind : \/ QueryRefund(p, kind)
                                                  \/ ApplyVnPayReconciliation(p, kind)
               PROVE  AuditInvariant' /\ OccupiedRoomsHaveGuests'
    BY DEF PaymentNext, Audited
  <1>0. /\ payment \in [Payments -> PaymentRow] /\ payment[p] \in PaymentColumns
        /\ refund \in [Payments -> RefundRow] /\ refund[p] \in RefundRow
        /\ PaymentMoney(p)
        /\ \A q \in Payments : payment[q].status # "ABSENT" => payment[q].booking \in Bookings
    BY DEF TypeOK, PaymentRow, MoneyInvariant
  <1>1. ASSUME UNCHANGED <<booking, room>>, payment[p].status # "ABSENT",
               payment'[p].booking = payment[p].booking,
               payment'[p].status # "REFUNDED" \/ payment'[p].status = payment[p].status,
               payment'[p].reason \in {payment[p].reason, None},
               refund[p].exists => refund'[p].exists,
               \A q \in Payments \ {p} : payment'[q] = payment[q] /\ refund'[q] = refund[q]
        PROVE  AuditInvariant' /\ OccupiedRoomsHaveGuests'
    <2>1. AuditInvariant'
      <3> DEFINE Same(q) == /\ payment[q].status # "ABSENT"
                            /\ payment'[q].booking = payment[q].booking
                            /\ payment'[q].status = "REFUNDED" => payment[q].status = "REFUNDED"
                            /\ payment'[q].reason = "ANOTHER_SUCCESSFUL_PAYMENT" =>
                                 payment[q].reason = "ANOTHER_SUCCESSFUL_PAYMENT"
                            /\ refund[q].exists => refund'[q].exists
      <3>1. Same(p)
        BY <1>1 DEF None
      <3>2. \A q \in Payments : payment'[q].status # "ABSENT" => Same(q)
        BY <1>1, <3>1
      <3> QED BY <1>0, <1>1, <3>2, AuditFrame
    <2> QED BY <1>1, <2>1, OccupancyFrame
  <1>2. ASSUME UNCHANGED <<booking, payment, refund, room>>
        PROVE  AuditInvariant' /\ OccupiedRoomsHaveGuests'
    <2>1. AuditInvariant'
      BY <1>0, <1>2, AuditFrame
    <2> QED BY <1>2, <2>1, OccupancyFrame
  <1>3. CASE VnPayIpn(p)
    <2>1. payment[p].status \in {"PENDING", "FAILED"} /\ UNCHANGED <<refund, room>>
      BY <1>3 DEF VnPayIpn, AwaitsOutcome
    <2>2. CASE ApplyGatewayPaymentOutcome(p)
      BY <2>1, <2>2, OutcomeFrame
    <2>3. CASE /\ payment' = [payment EXCEPT ![p].status = "FAILED", ![p].code = "24",
                                ![p].reason = None, ![p].canonical = None]
               /\ UNCHANGED booking
      <3>1. /\ payment'[p].status = "FAILED" /\ payment'[p].booking = payment[p].booking
            /\ payment'[p].reason = None
            /\ \A q \in Payments \ {p} : payment'[q] = payment[q]
        BY <1>0, <2>3 DEF PaymentColumns
      <3> QED BY <1>1, <2>1, <2>3, <3>1
    <2> QED BY <1>3, <2>2, <2>3 DEF VnPayIpn
  <1>4. CASE RefundManual(p)
    <2>1. /\ payment[p].status = "SUCCESS" /\ ~refund[p].exists
          /\ booking[payment[p].booking].status # "CHECKED_IN"
          /\ refund' = [refund EXCEPT ![p].exists = TRUE]
          /\ CompleteRefund(p, refund'[p]) /\ UNCHANGED room
      BY <1>4 DEF RefundManual, ManualRefundAllowed
    <2>2. /\ refund'[p].exists /\ refund'[p].previous = refund[p].previous
          /\ \A q \in Payments \ {p} : refund'[q] = refund[q]
      BY <1>0, <2>1 DEF RefundRow
    <2>3. refund[p].previous = None
      BY <1>0, <2>1 DEF PaymentMoney
    <2> QED BY <2>1, <2>2, <2>3, CompleteFrame
  <1>5. ASSUME NEW key, NEW capability, PrepareVnPayRefund(p, key, capability)
        PROVE  AuditInvariant' /\ OccupiedRoomsHaveGuests'
    <2>1. /\ payment'[p].status = "REFUND_PENDING"
          /\ payment'[p].booking = payment[p].booking
          /\ payment'[p].reason = payment[p].reason
          /\ refund'[p] = [exists |-> TRUE, key |-> key, previous |-> payment[p].status]
          /\ \A q \in Payments \ {p} : payment'[q] = payment[q] /\ refund'[q] = refund[q]
          /\ UNCHANGED <<booking, room>>
      BY <1>0, <1>5 DEF PrepareVnPayRefund, PaymentColumns
    <2>2. payment[p].status # "ABSENT"
      BY <1>5 DEF PrepareVnPayRefund, VnPayRefundAllowed, CanonicalStillSuccessful,
                  EligibleForResolution
    <2> QED BY <1>1, <2>1, <2>2
  <1>6. ASSUME Restore(p), payment[p].status = "REFUND_PENDING", UNCHANGED <<refund, room>>
        PROVE  AuditInvariant' /\ OccupiedRoomsHaveGuests'
    <2>1. /\ payment'[p].status = RestoredStatus(p)
          /\ payment'[p].booking = payment[p].booking
          /\ payment'[p].reason = payment[p].reason
          /\ \A q \in Payments \ {p} : payment'[q] = payment[q]
          /\ UNCHANGED booking
      BY <1>0, <1>6 DEF Restore, PaymentColumns
    <2> QED BY <1>1, <1>6, <2>1 DEF RestoredStatus
  <1>7. ASSUME CompleteRefund(p, refund[p]), payment[p].status = "REFUND_PENDING",
               UNCHANGED <<refund, room>>
        PROVE  AuditInvariant' /\ OccupiedRoomsHaveGuests'
    <2>1. refund[p].exists
      BY <1>0, <1>7 DEF PaymentMoney, None
    <2> QED BY <1>7, <2>1, CompleteFrame
  <1>8. ASSUME \/ ApplyVnPayRefundResult(p)
               \/ \E kind \in AnswerKind : ApplyVnPayReconciliation(p, kind)
        PROVE  AuditInvariant' /\ OccupiedRoomsHaveGuests'
    <2>1. /\ \/ CompleteRefund(p, refund[p]) /\ payment[p].status = "REFUND_PENDING"
             \/ Restore(p) /\ payment[p].status = "REFUND_PENDING"
             \/ UNCHANGED <<payment, booking>>
          /\ UNCHANGED <<refund, room>>
      BY <1>8 DEF ApplyVnPayRefundResult, ApplyVnPayReconciliation
    <2> QED BY <1>2, <1>6, <1>7, <2>1
  <1>9. ASSUME \/ SendRefund(p) \/ LoseRefundCall(p)
               \/ \E kind \in AnswerKind : QueryRefund(p, kind)
        PROVE  AuditInvariant' /\ OccupiedRoomsHaveGuests'
    BY <1>2, <1>9 DEF SendRefund, LoseRefundCall, QueryRefund, rowVars
  <1> QED BY <1>3, <1>4, <1>5, <1>8, <1>9

\* All of them, the crons, the rooms, the gateway and the clock.
LEMMA AuditStep ==
  TypeOK /\ MoneyInvariant /\ ChangeInvariant /\ Audited /\ [Next]_vars => Audited'
  <1> SUFFICES ASSUME TypeOK, MoneyInvariant, ChangeInvariant, Audited, [Next]_vars
               PROVE  Audited'
    OBVIOUS
  <1>0. /\ \A p \in Payments : payment[p].status # "ABSENT" => payment[p].booking \in Bookings
        /\ AuditInvariant /\ OccupiedRoomsHaveGuests
    BY DEF TypeOK, PaymentRow, Audited
  <1>1. ASSUME UNCHANGED <<booking, payment, refund>>
        PROVE  AuditInvariant'
    BY <1>0, <1>1, AuditFrame
  <1>2. CASE RoomNext
    <2>1. UNCHANGED <<booking, payment, refund>>
      BY <1>2 DEF RoomNext, LockStayBookings, UpdateRoomStatus, EndStatusChange, BlockDates,
             UnblockDates, rowVars
    <2>2. ASSUME NEW r \in Rooms, NEW next, NEW role, UpdateRoomStatus(r, next, role)
          PROVE  OccupiedRoomsHaveGuests'
      <3>1. room' = [room EXCEPT ![r] = next] /\ room \in [Rooms -> RoomStatus]
        BY <2>2 DEF UpdateRoomStatus, TypeOK
      <3>2. next = "OCCUPIED" => Guests(r) # {}
        BY <2>2 DEF UpdateRoomStatus, RoomTransitionAllowed, ChangeInvariant
      <3> QED BY <1>0, <2>1, <3>1, <3>2 DEF OccupiedRoomsHaveGuests, Guests
    <2>3. ASSUME UNCHANGED room
          PROVE  OccupiedRoomsHaveGuests'
      <3>1. \A b \in Bookings :
              booking'[b].status = "CHECKED_IN" <=> booking[b].status = "CHECKED_IN"
        BY <2>1
      <3> QED BY <1>0, <2>3, <3>1, OccupancyFrame
    <2>4. ASSUME NEW r \in Rooms,
                 \/ LockStayBookings(r) \/ EndStatusChange(r)
                 \/ \E range : BlockDates(r, range) \/ UnblockDates(r, range)
          PROVE  UNCHANGED room
      BY <2>4 DEF LockStayBookings, EndStatusChange, BlockDates, UnblockDates, rowVars
    <2>5. OccupiedRoomsHaveGuests'
      <3>1. PICK r \in Rooms :
              \/ LockStayBookings(r) \/ EndStatusChange(r)
              \/ \E next \in RoomStatus, role \in {"ADMIN", "STAFF"} :
                   UpdateRoomStatus(r, next, role)
              \/ \E range : BlockDates(r, range) \/ UnblockDates(r, range)
        BY <1>2, Zenon DEF RoomNext
      <3>2. CASE \E next \in RoomStatus, role \in {"ADMIN", "STAFF"} :
                   UpdateRoomStatus(r, next, role)
        BY <2>2, <3>2
      <3>3. CASE \/ LockStayBookings(r) \/ EndStatusChange(r)
                 \/ \E range : BlockDates(r, range) \/ UnblockDates(r, range)
        BY <2>3, <2>4, <3>3
      <3> QED BY <3>1, <3>2, <3>3
    <2>6. AuditInvariant'
      BY <1>1, <2>1
    <2> QED BY <2>5, <2>6 DEF Audited
  <1>3. ASSUME GatewayNext \/ Tick \/ UNCHANGED vars
        PROVE  Audited'
    <2>1. UNCHANGED <<booking, payment, refund, room>>
      BY <1>3 DEF GatewayNext, CustomerPays, GatewaySettlesRefund, GatewayAnswersRefund, Tick,
                  vars, rowVars
    <2> QED BY <1>0, <1>1, <2>1, OccupancyFrame DEF Audited
  <1>4. CASE ExpireUnpaidBookings
    <2>1. PICK B \in SUBSET ExpiredBookings :
            /\ booking' = [b \in Bookings |-> IF b \in B THEN CancelledRow(booking[b])
                                                         ELSE booking[b]]
            /\ payment' = FailPending(UNION {PaymentsOf(b) : b \in B}, "EXPIRED")
            /\ UNCHANGED <<refund, room>>
      BY <1>4 DEF ExpireUnpaidBookings
    <2>2. B \in SUBSET Bookings /\ \A b \in B : booking[b].payStatus # "PAID"
      BY DEF ExpiredBookings
    <2> QED BY <1>0, <2>1, <2>2, CancelFrame DEF Audited
  <1>5. CASE ExpirePendingOnlinePayments
    <2>1. PICK P : payment' = FailPending(P, "EXPIRED") /\ UNCHANGED <<booking, refund, room>>
      BY <1>5 DEF ExpirePendingOnlinePayments
    <2> DEFINE B == {b \in Bookings : FALSE}
    <2>2. /\ B \in SUBSET Bookings /\ \A b \in B : booking[b].payStatus # "PAID"
          /\ booking' = [b \in Bookings |-> IF b \in B THEN CancelledRow(booking[b])
                                                      ELSE booking[b]]
      BY <2>1 DEF TypeOK
    <2> HIDE DEF B
    <2> QED BY <1>0, <2>1, <2>2, CancelFrame DEF Audited
  <1> QED BY <1>2, <1>3, <1>4, <1>5, AuditBookingStep, AuditPaymentStep DEF Next

LEMMA AlwaysAudited == Spec => [](TypeOK /\ MoneyInvariant /\ Audited)
  <1>1. Init => Audited
    BY DEF Init, Audited, AuditInvariant, OccupiedRoomsHaveGuests, NoBooking, NoPayment
  <1> QED BY <1>1, AuditStep, TypeCorrect, MoneyInOrder, ChangesKnowWhatTheyLocked, PTL DEF Spec

-----------------------------------------------------------------------------
(* The theorems.                                                            *)

\* Whoever checks guests in and out and changes rooms: no room is OCCUPIED by
\* nobody, and one that is OCCUPIED stops being so only because a guest of it checks
\* out or by a manual change that locked the bookings of the room before any of its
\* guests was confirmed.
THEOREM GuestsAlwaysKeepTheirRooms == Spec => GuestsKeepTheirRooms
  <1> DEFINE Kept == \A r \in Rooms :
               /\ room'[r] = "OCCUPIED" => Guests(r)' # {}
               /\ room[r] = "OCCUPIED" /\ room'[r] # "OCCUPIED" =>
                    \/ \E b \in Guests(r) : booking'[b].status = "CHECKED_OUT"
                    \/ statusChange[r].open /\ Guests(r) \cap statusChange[r].locked = {}
  <1>1. ASSUME TypeOK, ChangeInvariant, OccupiedRoomsHaveGuests', Next
        PROVE  Kept
    <2> SUFFICES ASSUME NEW r \in Rooms, room[r] = "OCCUPIED", room'[r] # "OCCUPIED"
                 PROVE  \/ \E b \in Guests(r) : booking'[b].status = "CHECKED_OUT"
                        \/ statusChange[r].open /\ Guests(r) \cap statusChange[r].locked = {}
      BY <1>1 DEF OccupiedRoomsHaveGuests
    <2>1. \/ \E b \in Bookings, target \in BookingStatus : UpdateBookingStatus(b, target)
          \/ \E q \in Rooms, next \in RoomStatus, role \in {"ADMIN", "STAFF"} :
               UpdateRoomStatus(q, next, role)
      BY <1>1, RoomsOtherwiseKept
    <2>2. ASSUME NEW q \in Rooms, NEW next, NEW role, UpdateRoomStatus(q, next, role)
          PROVE  statusChange[r].open /\ Guests(r) \cap statusChange[r].locked = {}
      <3>1. q = r /\ next # "OCCUPIED"
        BY <1>1, <2>2 DEF UpdateRoomStatus, TypeOK
      <3>2. statusChange[r].open /\ ~statusChange[r].checkedIn
        BY <2>2, <3>1 DEF UpdateRoomStatus, RoomTransitionAllowed
      <3> QED BY <1>1, <3>2 DEF ChangeInvariant
    <2>3. ASSUME NEW b \in Bookings, NEW target \in BookingStatus, UpdateBookingStatus(b, target)
          PROVE  b \in Guests(r) /\ booking'[b].status = "CHECKED_OUT"
      <3>1. /\ target \in ManagementTransitions(booking[b].status)
            /\ target # "CANCELLED"
            /\ booking' = [booking EXCEPT ![b].status = target, ![b].deadline = NoTime]
            /\ room' = [room EXCEPT ![RoomOf[b]] =
                 CASE target = "CHECKED_IN" -> "OCCUPIED"
                   [] target = "CHECKED_OUT" /\ @ \notin {"HIDDEN", "MAINTENANCE"} -> "CLEANING"
                   [] OTHER -> @]
        BY <2>3 DEF UpdateBookingStatus, TransitionAllowed
      <3>2. /\ RoomOf[b] \in Rooms /\ room \in [Rooms -> RoomStatus]
            /\ booking \in [Bookings -> BookingRow] /\ booking[b] \in BookingRow
        BY <1>1, StayAssumption DEF TypeOK
      <3>3. RoomOf[b] = r
        BY <3>1, <3>2
      <3>4. target = "CHECKED_OUT"
        BY <3>1, <3>2, <3>3
      <3>5. booking[b].status = "CHECKED_IN"
        BY <3>1, <3>4 DEF ManagementTransitions
      <3>6. booking'[b].status = target
        BY <3>1, <3>2 DEF BookingRow
      <3> QED BY <3>3, <3>4, <3>5, <3>6 DEF Guests
    <2> QED BY <2>1, <2>2, <2>3
  <1>2. TypeOK /\ ChangeInvariant /\ Audited' /\ [Next]_vars => [Kept]_vars
    BY <1>1 DEF Audited
  <1> QED BY <1>2, AlwaysAudited, ChangesKnowWhatTheyLocked, PTL DEF Spec, GuestsKeepTheirRooms

\* Five of the checks of data:audit and the first half of room-occupancy find nothing
\* in any reachable state.
THEOREM AuditNeverFindsAnything == Spec => []AuditFindsNothing
  <1>1. TypeOK /\ MoneyInvariant /\ Audited /\ CalendarMatchesBookings => AuditFindsNothing
    <2> SUFFICES ASSUME TypeOK, MoneyInvariant, Audited, CalendarMatchesBookings
                 PROVE  AuditFindsNothing
      OBVIOUS
    <2>1. ASSUME NEW b \in Bookings
          PROVE  b \notin ActiveBookingCalendar /\ b \notin CancelledBookingCalendar
      <3>1. RoomOf[b] \in Rooms /\ StayDates[b] \subseteq Dates
        BY StayAssumption
      <3>2. CASE HoldsNights(b)
        <4>1. {d \in Dates : calendar[<<RoomOf[b], d>>] = b} = StayDates[b]
          BY <3>1, <3>2 DEF CalendarMatchesBookings, Slots, StaySlots
        <4> QED BY <3>2, <4>1 DEF ActiveBookingCalendar, CancelledBookingCalendar, HoldsNights
      <3>3. CASE ~HoldsNights(b)
        <4>1. \A s \in Slots : calendar[s] # b
          BY <3>3 DEF CalendarMatchesBookings
        <4> QED BY <3>3, <4>1 DEF ActiveBookingCalendar, CancelledBookingCalendar, HoldsNights
      <3> QED BY <3>2, <3>3
    <2>2. ASSUME NEW b \in Bookings
          PROVE  b \notin SingleSuccessPayment /\ b \notin BookingPaymentStatusCheck
      <3>1. /\ BookingMoney(b)
            /\ \A p \in PaymentsOf(b) :
                 /\ p \in Payments /\ payment[p].booking = b
                 /\ Keeps(p) => booking[b].payStatus = "PAID" /\ booking[b].accepted = p
                 /\ payment[p].status = "REFUNDED" => booking[b].payStatus # "UNPAID"
        BY DEF MoneyInvariant, PaymentMoney, Audited, AuditInvariant, PaidOnce, PaymentsOf
      <3>2. b \notin SingleSuccessPayment
        BY <3>1 DEF SingleSuccessPayment, Keeps
      <3>3. b \notin BookingPaymentStatusCheck
        BY <3>1 DEF BookingPaymentStatusCheck, BookingMoney
      <3> QED BY <3>2, <3>3
    <2>3. ASSUME NEW p \in Payments
          PROVE  p \notin PaymentRefundLineage
      <3>1. PaymentMoney(p) /\ (payment[p].status # "ABSENT" => PaidOnce(p))
        BY DEF MoneyInvariant, Audited, AuditInvariant
      <3> QED BY <3>1 DEF PaymentRefundLineage, PaymentMoney, PaidOnce, None
    <2>4. OccupiedWithoutGuest = {}
      BY DEF Audited, OccupiedRoomsHaveGuests, OccupiedWithoutGuest
    <2>5. /\ ActiveBookingCalendar \subseteq Bookings /\ CancelledBookingCalendar \subseteq Bookings
          /\ SingleSuccessPayment \subseteq Bookings /\ BookingPaymentStatusCheck \subseteq Bookings
          /\ PaymentRefundLineage \subseteq Payments
      BY DEF ActiveBookingCalendar, CancelledBookingCalendar, SingleSuccessPayment,
             BookingPaymentStatusCheck, PaymentRefundLineage
    <2> QED BY <2>1, <2>2, <2>3, <2>4, <2>5 DEF AuditFindsNothing
  <1> QED BY <1>1, AlwaysAudited, CalendarAlwaysMatches, PTL

=============================================================================
