-------------------------- MODULE BookingPolicies --------------------------
(***************************************************************************)
(* The enumerations of the booking and payment schemas and the pure        *)
(* decisions the services take on a row they have locked.  Nothing here    *)
(* has state: the state machines EXTEND this module and use its operators  *)
(* as guards.                                                              *)
(*                                                                         *)
(* A booking row is a record with at least the fields status, payStatus    *)
(* and byStaff (createdByUserId is not null); a payment row has status,    *)
(* method, reason (reviewReason), canonical (reviewCanonicalPaymentId) and *)
(* captured (gatewayTransactionId is not null); a refund row has exists    *)
(* and previous (previousPaymentStatus).                                   *)
(***************************************************************************)
EXTENDS Integers

None == "NONE"          \* the database NULL
NoTime == -1            \* NULL in a timestamp column

BookingStatus == {"PENDING_PAYMENT", "CONFIRMED", "CHECKED_IN", "CHECKED_OUT",
                  "CANCELLED"}
BookingPaymentStatus == {"UNPAID", "PAID", "REFUNDED"}
PaymentStatus == {"PENDING", "SUCCESS", "FAILED", "REQUIRES_REVIEW",
                  "REFUND_PENDING", "REFUNDED"}
ReviewReason == {"BOOKING_CANCELLED", "ANOTHER_SUCCESSFUL_PAYMENT"}
RoomStatus == {"READY", "OCCUPIED", "CLEANING", "MAINTENANCE", "HIDDEN"}

-----------------------------------------------------------------------------
(* BookingTransitionPolicy *)

ManagementTransitions(status) ==
  CASE status = "PENDING_PAYMENT" -> {"CONFIRMED", "CANCELLED"}
    [] status = "CONFIRMED"       -> {"CHECKED_IN", "CANCELLED"}
    [] status = "CHECKED_IN"      -> {"CHECKED_OUT"}
    [] OTHER                      -> {}

\* evaluate(): may the booking go to target, given whether a refund of it is
\* pending, the status of its room and whether today is inside its stay?
TransitionAllowed(bk, target, refundPending, roomStatus, inStay) ==
  /\ ~refundPending
  /\ target \in ManagementTransitions(bk.status)
  /\ target = "CONFIRMED" => (bk.payStatus # "UNPAID" \/ bk.byStaff)
  /\ target = "CHECKED_IN" =>
       bk.payStatus = "PAID" /\ inStay /\ roomStatus = "READY"
  /\ target = "CANCELLED" => bk.payStatus # "PAID"

-----------------------------------------------------------------------------
(* Who may change what: payments, refunds, rooms *)

\* assertBookingCanAcceptPayment()
CanAcceptPayment(bk, now) ==
  /\ bk.payStatus = "UNPAID"
  /\ \/ bk.status = "CONFIRMED"
     \/ bk.status = "PENDING_PAYMENT" /\ bk.deadline > now

\* assertManualRefundAllowed()
ManualRefundAllowed(bk, pay) ==
  /\ pay.status = "SUCCESS" /\ bk.payStatus = "PAID"
  /\ bk.status \notin {"CHECKED_IN", "CHECKED_OUT", "CANCELLED"}

\* assertVnPayRefundAllowed(): the accepted payment of a booking that has not
\* started, or money that arrived after its booking was cancelled.
VnPayRefundAllowed(bk, pay) ==
  /\ pay.captured
  /\ \/ /\ pay.status = "REQUIRES_REVIEW" /\ bk.status = "CANCELLED"
        /\ pay.reason = "BOOKING_CANCELLED"
     \/ /\ pay.status = "SUCCESS" /\ bk.payStatus = "PAID"
        /\ bk.status \in {"PENDING_PAYMENT", "CONFIRMED"}

\* detectDuplicateChargeRefund().isDuplicateCharge
IsDuplicateCharge(p, pay, ref) ==
  /\ ref.previous = "REQUIRES_REVIEW"
  /\ pay.reason = "ANOTHER_SUCCESSFUL_PAYMENT"
  /\ pay.canonical \notin {None, p}

\* detectDuplicateChargeRefund().isEligibleForResolution
EligibleForResolution(p, pay, ref) ==
  /\ \/ pay.status = "REQUIRES_REVIEW"
     \/ /\ pay.status \in {"REFUND_PENDING", "REFUNDED"}
        /\ ref.previous = "REQUIRES_REVIEW"
  /\ pay.method = "VNPAY" /\ pay.captured
  /\ pay.reason = "ANOTHER_SUCCESSFUL_PAYMENT"
  /\ pay.canonical \notin {None, p}

\* Mutant of RoomTransitionAllowed: only the role is checked.
RoomTransitionByRoleOnly(current, next, role, hasCheckedIn) ==
  role = "ADMIN" \/ (role = "STAFF" /\ "HIDDEN" \notin {current, next})

\* RoomStatusTransitionPolicy.assertAllowed()
RoomTransitionAllowed(current, next, role, hasCheckedIn) ==
  /\ role = "ADMIN" \/ (role = "STAFF" /\ "HIDDEN" \notin {current, next})
  /\ hasCheckedIn <=> next = "OCCUPIED"

-----------------------------------------------------------------------------
(* What a verified or unverified VNPay answer says about a refund *)

\* Mutant of IsSuccessfulVnPayRefund: the original payment passes for a refund.
IsSuccessfulVnPayAnswer(r) ==
  /\ r.verified /\ r.success
  /\ r.code = "00" /\ r.txnStatus = "00"
  /\ r.hasTxnId /\ r.amountMatches

IsSuccessfulVnPayRefund(r) ==
  /\ r.verified /\ r.success
  /\ r.code = "00" /\ r.txnStatus = "00" /\ r.type = "02"
  /\ r.hasTxnId /\ r.amountMatches

IsAmbiguousVnPayResult(r) ==
  \/ ~r.verified
  \/ r.code \in {None, "94", "98", "99"}
  \/ r.txnStatus \in {"05", "06"}
  \/ /\ r.success /\ r.code = "00" /\ r.txnStatus = "00" /\ r.type = "02"
     /\ ~r.hasTxnId

=============================================================================
