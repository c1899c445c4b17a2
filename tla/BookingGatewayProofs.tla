-------------------------- MODULE BookingGatewayProofs --------------------------
(***************************************************************************)
(* What a booking promises to those outside the system, for every          *)
(* instance: money that VNPay took is never lost from sight, a refund is   *)
(* recorded as VNPay decided it, a booking has one open attempt, and       *)
(* whatever payments, refunds and crons do to a booking is a step of       *)
(* StayContract.                                                           *)
(***************************************************************************)
EXTENDS BookingPaymentProofs

(* The records and VNPay.                                                   *)

\* A step that leaves refunds and the gateway alone, and of the payments writes
\* only attempts that are not recorded yet.
LEMMA GatewayFrame ==
  ASSUME GatewayInvariant, UNCHANGED <<refund, call, queries, charge, gwRefund>>,
         \A p \in Payments :
           \/ payment'[p] = payment[p]
           \/ payment[p].status \notin Recorded /\ AttemptRecord(p)'
  PROVE  GatewayInvariant'
  <1> SUFFICES ASSUME NEW p \in Payments
               PROVE  AttemptRecord(p)' /\ RefundRecord(p)' /\ RefundAgrees(p)'
    BY DEF GatewayInvariant
  <1>1. AttemptRecord(p) /\ RefundRecord(p) /\ RefundAgrees(p)
    BY DEF GatewayInvariant
  <1>2. CASE payment'[p] = payment[p]
    BY <1>1, <1>2 DEF AttemptRecord, RefundRecord, RefundAgrees, Told
  <1>3. CASE payment[p].status \notin Recorded /\ AttemptRecord(p)'
    BY <1>1, <1>3 DEF RefundRecord, RefundAgrees, Told
  <1> QED BY <1>2, <1>3

\* A step that writes the payment p, its refund or what VNPay knows and says of
\* it, and nothing about another payment.
LEMMA GatewayOne ==
  ASSUME GatewayInvariant, NEW p \in Payments,
         \A q \in Payments \ {p} :
           /\ payment'[q] = payment[q] /\ refund'[q] = refund[q] /\ call'[q] = call[q]
           /\ charge'[q] = charge[q] /\ gwRefund'[q] = gwRefund[q],
         \A q \in Payments \ {p}, kind \in AnswerKind :
           <<q, kind>> \in queries' => <<q, kind>> \in queries,
         AttemptRecord(p)', RefundRecord(p)', RefundAgrees(p)'
  PROVE  GatewayInvariant'
  <1> SUFFICES ASSUME NEW q \in Payments \ {p}
               PROVE  AttemptRecord(q)' /\ RefundRecord(q)' /\ RefundAgrees(q)'
    BY DEF GatewayInvariant
  <1>1. AttemptRecord(q) /\ RefundRecord(q) /\ RefundAgrees(q)
    BY DEF GatewayInvariant
  <1> QED BY <1>1 DEF AttemptRecord, RefundRecord, RefundAgrees, Told, AnswerKind

\* Failing open attempts leaves them open to a late success.
LEMMA FailPendingAttempts ==
  ASSUME TypeOK, GatewayInvariant, NEW P, NEW code \in {"EXPIRED", "CANCELLED"},
         UNCHANGED charge, NEW p \in Payments, payment'[p] = FailPending(P, code)[p]
  PROVE  payment'[p] = payment[p] \/ (payment[p].status \notin Recorded /\ AttemptRecord(p)')
  <1>1. payment[p] \in PaymentColumns /\ AttemptRecord(p)
    BY DEF TypeOK, PaymentRow, GatewayInvariant
  <1>2. CASE p \in P /\ PendingOnline(p)
    <2>1. payment'[p] = [payment[p] EXCEPT !.status = "FAILED", !.code = code]
      BY <1>2 DEF FailPending
    <2>2. /\ payment'[p].status = "FAILED" /\ payment'[p].code = code
          /\ payment'[p].method = payment[p].method
      BY <1>1, <2>1 DEF PaymentColumns
    <2> QED BY <1>1, <1>2, <2>2 DEF AttemptRecord, PendingOnline, Recorded
  <1>3. CASE ~(p \in P /\ PendingOnline(p))
    BY <1>3 DEF FailPending
  <1> QED BY <1>2, <1>3

\* Creating, cancelling, advancing and paying bookings.
LEMMA GatewayBookingStep == TypeOK /\ GatewayInvariant /\ BookingNext => GatewayInvariant'
  <1> SUFFICES ASSUME TypeOK, GatewayInvariant, NEW b \in Bookings,
                      \/ \E byStaff \in BOOLEAN : CreateBooking(b, byStaff)
                      \/ CancelForCustomer(b)
                      \/ \E target \in BookingStatus : UpdateBookingStatus(b, target)
                      \/ \E p \in Payments : \/ CreateVnPayPayment(p, b)
                                             \/ RecordManualPayment(p, b)
               PROVE  GatewayInvariant'
    BY DEF BookingNext
  <1> USE DEF wireVars, gatewayVars
  <1>1. ASSUME \/ payment' = payment
               \/ \E P : payment' = FailPending(P, "CANCELLED"),
               UNCHANGED <<refund, wireVars, gatewayVars>>
        PROVE  GatewayInvariant'
    BY <1>1, FailPendingAttempts, GatewayFrame
  <1>2. ASSUME NEW byStaff, CreateBooking(b, byStaff)
        PROVE  GatewayInvariant'
    BY <1>1, <1>2 DEF CreateBooking
  <1>3. CASE CancelForCustomer(b)
    BY <1>1, <1>3 DEF CancelForCustomer, CancelBooking
  <1>4. ASSUME NEW target, UpdateBookingStatus(b, target)
        PROVE  GatewayInvariant'
    BY <1>1, <1>4 DEF UpdateBookingStatus, CancelBooking
  <1>5. ASSUME NEW p \in Payments, NEW row, payment' = WithNewPayment(p, b, row),
               payment[p].status = "ABSENT", UNCHANGED <<refund, wireVars, gatewayVars>>,
               \/ row.status = "PENDING" /\ row.method = "VNPAY"
               \/ row.status = "SUCCESS" /\ row.method = "MANUAL"
        PROVE  GatewayInvariant'
    <2> DEFINE late == {r \in PaymentsOf(b) : Overdue(r)}
    <2>1. /\ payment'[p] = row
          /\ \A q \in Payments \ {p} : payment'[q] = FailPending(late, "EXPIRED")[q]
      BY <1>5 DEF WithNewPayment, FailPending
    <2> HIDE DEF late
    <2>2. payment[p].status \notin Recorded /\ AttemptRecord(p)'
      BY <1>5, <2>1 DEF GatewayInvariant, AttemptRecord, Recorded, None
    <2>3. \A q \in Payments \ {p} :
            \/ payment'[q] = payment[q]
            \/ payment[q].status \notin Recorded /\ AttemptRecord(q)'
      BY <1>5, <2>1, FailPendingAttempts
    <2> QED BY <1>5, <2>2, <2>3, GatewayFrame
  <1>6. ASSUME NEW p \in Payments, CreateVnPayPayment(p, b)
        PROVE  GatewayInvariant'
    <2> DEFINE row == [NoPayment EXCEPT !.status = "PENDING", !.booking = b,
                         !.method = "VNPAY",
                         !.deadline = IF booking[b].status = "PENDING_PAYMENT"
                                        THEN booking[b].deadline ELSE now + Timeout]
    <2>1. row.status = "PENDING" /\ row.method = "VNPAY"
      BY DEF NoPayment
    <2>2. /\ payment' = WithNewPayment(p, b, row) /\ payment[p].status = "ABSENT"
          /\ UNCHANGED <<refund, wireVars, gatewayVars>>
      BY <1>6 DEF CreateVnPayPayment, MayStartPayment
    <2> HIDE DEF row
    <2> QED BY <1>5, <2>1, <2>2
  <1>7. ASSUME NEW p \in Payments, RecordManualPayment(p, b)
        PROVE  GatewayInvariant'
    <2> DEFINE row == [NoPayment EXCEPT !.status = "SUCCESS", !.booking = b,
                                        !.method = "MANUAL"]
    <2>1. row.status = "SUCCESS" /\ row.method = "MANUAL"
      BY DEF NoPayment
    <2>2. /\ payment' = WithNewPayment(p, b, row) /\ payment[p].status = "ABSENT"
          /\ UNCHANGED <<refund, wireVars, gatewayVars>>
      BY <1>7 DEF RecordManualPayment, MayStartPayment
    <2> HIDE DEF row
    <2> QED BY <1>5, <2>1, <2>2
  <1> QED BY <1>2, <1>3, <1>4, <1>6, <1>7

\* An answer is a verified success only if it says "completed", and a verified
\* failure only if it says "refused", or shows the original payment.
LEMMA AnswerVerdicts ==
  ASSUME NEW kind \in AnswerKind
  PROVE  /\ IsSuccessfulVnPayRefund(Answer[kind]) => kind = "completed"
         /\ ~IsSuccessfulVnPayRefund(Answer[kind]) /\ ~IsAmbiguousVnPayResult(Answer[kind])
              => \/ kind = "refused"
                 \/ kind = "original" /\ Answer[kind].type # "02"
  BY DEF AnswerKind, Answer, IsSuccessfulVnPayRefund, IsAmbiguousVnPayResult, None

\* IPNs, refunds, their answers and their reconciliation.
LEMMA GatewayPaymentStep == TypeOK /\ GatewayInvariant /\ PaymentNext => GatewayInvariant'
  <1> SUFFICES ASSUME TypeOK, GatewayInvariant, NEW p \in Payments,
                      \/ VnPayIpn(p)
                      \/ RefundManual(p)
                      \/ \E key \in RefundKeys,
                            capability \in {"STANDARD_REFUND", "DUPLICATE_CHARGE_REFUND"} :
                           PrepareVnPayRefund(p, key, capability)
                      \/ SendRefund(p)
                      \/ LoseRefundCall(p)
                      \/ ApplyVnPayRefundResult(p)
                      \/ \E kind \in AnswerKind : \/ QueryRefund(p, kind)
                                                  \/ ApplyVnPayReconciliation(p, kind)
               PROVE  GatewayInvariant'
    BY DEF PaymentNext
  <1> USE DEF wireVars, gatewayVars, rowVars
  <1>0. /\ payment \in [Payments -> PaymentRow] /\ payment[p] \in PaymentColumns
        /\ refund \in [Payments -> RefundRow] /\ refund[p] \in RefundRow
        /\ AttemptRecord(p) /\ RefundRecord(p) /\ RefundAgrees(p)
        /\ DOMAIN call = Payments /\ DOMAIN gwRefund = Payments
        /\ queries \subseteq Payments \X AnswerKind
    BY DEF TypeOK, PaymentRow, GatewayInvariant
  <1>1. CASE VnPayIpn(p)
    <2>1. /\ payment[p].status \in {"PENDING", "FAILED"} /\ payment[p].method = "VNPAY"
          /\ charge[p] \in {"paid", "declined"}
          /\ UNCHANGED <<refund, call, queries, charge, gwRefund>>
      BY <1>0, <1>1 DEF VnPayIpn, AwaitsOutcome, AttemptRecord
    <2>2. ASSUME NEW status \in Recorded, NEW reason, NEW canonical,
                 payment' = [payment EXCEPT ![p] = CapturedRow(@, status, reason, canonical)]
          PROVE  GatewayInvariant'
      <3>1. /\ payment'[p].status = status /\ payment'[p].captured
            /\ payment'[p].method = "VNPAY"
            /\ \A q \in Payments \ {p} : payment'[q] = payment[q]
        BY <1>0, <2>1, <2>2 DEF CapturedRow, PaymentColumns
      <3>2. payment[p].status \notin Recorded /\ AttemptRecord(p)'
        BY <2>1, <3>1 DEF AttemptRecord, Recorded
      <3> QED BY <2>1, <3>1, <3>2, GatewayFrame
    <2>3. CASE ApplyGatewayPaymentOutcome(p)
      BY <2>2, <2>3 DEF ApplyGatewayPaymentOutcome, AcceptCaptured, ReviewCaptured, Recorded
    <2>4. CASE /\ charge[p] = "declined"
               /\ payment' = [payment EXCEPT ![p].status = "FAILED", ![p].code = "24",
                                ![p].reason = None, ![p].canonical = None]
      <3>1. /\ payment'[p].status = "FAILED" /\ payment'[p].method = "VNPAY"
            /\ \A q \in Payments \ {p} : payment'[q] = payment[q]
        BY <1>0, <2>1, <2>4 DEF PaymentColumns
      <3>2. payment[p].status \notin Recorded /\ AttemptRecord(p)'
        BY <2>1, <2>4, <3>1 DEF AttemptRecord, Recorded
      <3> QED BY <2>1, <3>1, <3>2, GatewayFrame
    <2> QED BY <1>1, <2>3, <2>4 DEF VnPayIpn
  <1>2. CASE RefundManual(p)
    <2>1. /\ payment[p].method = "MANUAL" /\ payment[p].status = "SUCCESS" /\ ~refund[p].exists
          /\ refund' = [refund EXCEPT ![p].exists = TRUE]
          /\ payment' = [payment EXCEPT ![p].status = "REFUNDED"]
          /\ UNCHANGED <<wireVars, gatewayVars>>
      BY <1>2 DEF RefundManual, ManualRefundAllowed, CompleteRefund
    <2>2. /\ payment'[p].status = "REFUNDED" /\ payment'[p].method = "MANUAL"
          /\ refund'[p].exists
          /\ \A q \in Payments \ {p} : payment'[q] = payment[q] /\ refund'[q] = refund[q]
      BY <1>0, <2>1 DEF PaymentColumns, RefundRow
    <2>3. AttemptRecord(p)' /\ RefundRecord(p)' /\ RefundAgrees(p)'
      BY <1>0, <2>1, <2>2 DEF AttemptRecord, RefundRecord, RefundAgrees, Recorded, Told
    <2> QED BY <2>1, <2>2, <2>3, GatewayOne
  <1>3. ASSUME NEW key, NEW capability, PrepareVnPayRefund(p, key, capability)
        PROVE  GatewayInvariant'
    <2>1. /\ payment[p].captured /\ ~refund[p].exists
          /\ refund' = [refund EXCEPT ![p] =
               [exists |-> TRUE, key |-> key, previous |-> payment[p].status]]
          /\ payment' = [payment EXCEPT ![p].status = "REFUND_PENDING"]
          /\ call' = [call EXCEPT ![p] = "ready"]
          /\ UNCHANGED <<queries, gatewayVars>>
          /\ payment[p].method = "VNPAY" /\ payment[p].status \in {"SUCCESS", "REQUIRES_REVIEW"}
      BY <1>3 DEF PrepareVnPayRefund, VnPayRefundAllowed, CanonicalStillSuccessful,
                  EligibleForResolution
    <2>2. /\ payment'[p].status = "REFUND_PENDING" /\ payment'[p].method = "VNPAY"
          /\ payment'[p].captured /\ refund'[p].exists /\ call'[p] = "ready"
          /\ \A q \in Payments \ {p} :
               payment'[q] = payment[q] /\ refund'[q] = refund[q] /\ call'[q] = call[q]
      BY <1>0, <2>1 DEF PaymentColumns
    <2>3. gwRefund[p] = "none" /\ call[p] = "idle"
      BY <1>0, <2>1 DEF RefundRecord
    <2>4. AttemptRecord(p)' /\ RefundRecord(p)' /\ RefundAgrees(p)'
      BY <1>0, <2>1, <2>2, <2>3 DEF AttemptRecord, RefundRecord, RefundAgrees, Recorded, Told
    <2> QED BY <2>1, <2>2, <2>4, GatewayOne
  <1>4. CASE SendRefund(p)
    <2>1. /\ call[p] = "ready" /\ call'[p] = "waiting" /\ gwRefund'[p] = "processing"
          /\ \A q \in Payments \ {p} : call'[q] = call[q] /\ gwRefund'[q] = gwRefund[q]
          /\ UNCHANGED <<payment, refund, queries, charge>>
      BY <1>0, <1>4 DEF SendRefund
    <2>2. ASSUME RefundAgrees(p)
          PROVE  RefundAgrees(p)'
      BY <1>0, <2>1, <2>2 DEF RefundAgrees, RefundRecord
    <2>3. AttemptRecord(p)' /\ RefundRecord(p)'
      BY <1>0, <2>1 DEF AttemptRecord, RefundRecord, Told
    <2> QED BY <1>0, <2>1, <2>2, <2>3, GatewayOne
  <1>5. CASE LoseRefundCall(p)
    <2>1. /\ call'[p] = "lost" /\ call[p] \in {"ready", "waiting"}
          /\ \A q \in Payments \ {p} : call'[q] = call[q]
          /\ UNCHANGED <<payment, refund, queries, gatewayVars>>
      BY <1>0, <1>5 DEF LoseRefundCall
    <2>2. AttemptRecord(p)' /\ RefundRecord(p)' /\ RefundAgrees(p)'
      BY <1>0, <2>1 DEF AttemptRecord, RefundRecord, RefundAgrees, Told
    <2> QED BY <2>1, <2>2, GatewayOne

  <1>6. ASSUME NEW kind \in AnswerKind, QueryRefund(p, kind)
        PROVE  GatewayInvariant'
    <2>1. /\ queries' = queries \union {<<p, kind>>} /\ kind \in QueryAnswers(gwRefund[p])
          /\ UNCHANGED <<payment, refund, call, gatewayVars>>
      BY <1>6 DEF QueryRefund
    <2>2. /\ kind = "completed" => gwRefund[p] = "refunded"
          /\ kind = "refused" => gwRefund[p] = "refused"
      BY <2>1 DEF QueryAnswers, RefundAnswers
    <2>3. AttemptRecord(p)' /\ RefundRecord(p)' /\ RefundAgrees(p)'
      BY <1>0, <2>1, <2>2 DEF AttemptRecord, RefundRecord, RefundAgrees, Told
    <2>4. \A q \in Payments \ {p}, k \in AnswerKind : <<q, k>> \in queries' => <<q, k>> \in queries
      BY <2>1
    <2> QED BY <2>1, <2>3, <2>4, GatewayOne
  \* An answer is applied: a verified success completes the refund, a verified
  \* failure restores the payment, anything else leaves it.
  <1>7. ASSUME NEW kind \in AnswerKind, Told(p, kind), UNCHANGED <<refund, gatewayVars>>,
               \A q \in Payments \ {p} : call'[q] = call[q],
               call'[p] = call[p] \/ (call[p] = kind /\ call'[p] = "closed"),
               queries' \subseteq queries,
               \/ /\ payment[p].status = "REFUND_PENDING" /\ kind = "completed"
                  /\ payment' = [payment EXCEPT ![p].status = "REFUNDED"]
               \/ /\ payment[p].status = "REFUND_PENDING" /\ kind = "refused"
                  /\ payment' = [payment EXCEPT ![p].status = RestoredStatus(p)]
               \/ UNCHANGED payment
        PROVE  GatewayInvariant'
    <2>1. \A status \in Recorded :
            payment' = [payment EXCEPT ![p].status = status] =>
              /\ payment'[p].status = status /\ payment'[p].method = payment[p].method
              /\ payment'[p].captured = payment[p].captured
      BY <1>0 DEF PaymentColumns
    <2>2. RefundRecord(p)'
      <3>1. payment'[p].status = payment[p].status \/ payment'[p].status \in Recorded
        BY <1>7, <2>1 DEF RestoredStatus, Recorded
      <3> QED BY <1>0, <1>7, <3>1 DEF RefundRecord, Told, AnswerKind
    <2>3. AttemptRecord(p)' /\ RefundAgrees(p)'
      <3>1. CASE UNCHANGED payment
        BY <1>0, <1>7, <3>1 DEF AttemptRecord, RefundAgrees
      <3>2. CASE /\ payment[p].status = "REFUND_PENDING" /\ kind = "completed"
                 /\ payment' = [payment EXCEPT ![p].status = "REFUNDED"]
        BY <1>0, <1>7, <2>1, <3>2 DEF AttemptRecord, RefundAgrees, RefundRecord, Recorded
      <3>3. CASE /\ payment[p].status = "REFUND_PENDING" /\ kind = "refused"
                 /\ payment' = [payment EXCEPT ![p].status = RestoredStatus(p)]
        <4>1. RestoredStatus(p) \in {"SUCCESS", "REQUIRES_REVIEW"}
          BY DEF RestoredStatus
        <4> QED BY <1>0, <1>7, <2>1, <3>3, <4>1
                DEF AttemptRecord, RefundAgrees, RefundRecord, Recorded
      <3> QED BY <1>7, <3>1, <3>2, <3>3
    <2>4. \A q \in Payments \ {p} : payment'[q] = payment[q]
      BY <1>0, <1>7
    <2> QED BY <1>7, <2>2, <2>3, <2>4, GatewayOne
  <1>8. CASE ApplyVnPayRefundResult(p)
    <2>1. call[p] \in AnswerKind /\ call[p] # "original"
      BY <1>0, <1>8 DEF ApplyVnPayRefundResult, RefundRecord
    <2>2. \/ /\ payment[p].status = "REFUND_PENDING" /\ call[p] = "completed"
             /\ payment' = [payment EXCEPT ![p].status = "REFUNDED"]
          \/ /\ payment[p].status = "REFUND_PENDING" /\ call[p] = "refused"
             /\ payment' = [payment EXCEPT ![p].status = RestoredStatus(p)]
          \/ UNCHANGED payment
      BY <1>8, <2>1, AnswerVerdicts DEF ApplyVnPayRefundResult, CompleteRefund, Restore
    <2>3. /\ UNCHANGED <<refund, queries, gatewayVars>> /\ call'[p] = "closed"
          /\ \A q \in Payments \ {p} : call'[q] = call[q]
      BY <1>0, <1>8 DEF ApplyVnPayRefundResult
    <2>4. Told(p, call[p])
      BY DEF Told
    <2> QED BY <1>7, <2>1, <2>2, <2>3, <2>4
  <1>9. ASSUME NEW kind \in AnswerKind, ApplyVnPayReconciliation(p, kind)
        PROVE  GatewayInvariant'
    <2>1. \/ /\ payment[p].status = "REFUND_PENDING" /\ kind = "completed"
             /\ payment' = [payment EXCEPT ![p].status = "REFUNDED"]
          \/ /\ payment[p].status = "REFUND_PENDING" /\ kind = "refused"
             /\ payment' = [payment EXCEPT ![p].status = RestoredStatus(p)]
          \/ UNCHANGED payment
      BY <1>9, AnswerVerdicts DEF ApplyVnPayReconciliation, CompleteRefund, Restore
    <2>2. /\ UNCHANGED <<refund, call, gatewayVars>> /\ queries' \subseteq queries
          /\ Told(p, kind)
      BY <1>9 DEF ApplyVnPayReconciliation, Told
    <2> QED BY <1>7, <2>1, <2>2
  <1> QED BY <1>1, <1>2, <1>3, <1>4, <1>5, <1>6, <1>8, <1>9

\* All of them, the crons, the rooms, the gateway and the clock.
LEMMA GatewayStep == TypeOK /\ GatewayInvariant /\ [Next]_vars => GatewayInvariant'
  <1> SUFFICES ASSUME TypeOK, GatewayInvariant, [Next]_vars
               PROVE  GatewayInvariant'
    OBVIOUS
  <1> USE DEF vars, rowVars, wireVars, gatewayVars
  <1>1. ASSUME UNCHANGED <<payment, refund, wireVars, gatewayVars>>
        PROVE  GatewayInvariant'
    BY <1>1, GatewayFrame
  <1>2. ASSUME NEW P, payment' = FailPending(P, "EXPIRED"),
               UNCHANGED <<refund, wireVars, gatewayVars>>
        PROVE  GatewayInvariant'
    BY <1>2, FailPendingAttempts, GatewayFrame
  <1>3. CASE RoomNext
    BY <1>1, <1>3 DEF RoomNext, LockStayBookings, UpdateRoomStatus, EndStatusChange, BlockDates,
                     UnblockDates
  <1>4. CASE GatewayNext
    <2> SUFFICES ASSUME NEW p \in Payments,
                        \/ \E outcome \in {"paid", "declined"} : CustomerPays(p, outcome)
                        \/ \E outcome \in {"refunded", "refused"} :
                             GatewaySettlesRefund(p, outcome)
                        \/ \E kind \in AnswerKind : GatewayAnswersRefund(p, kind)
                 PROVE  GatewayInvariant'
      BY <1>4 DEF GatewayNext
    <2>0. /\ AttemptRecord(p) /\ RefundRecord(p) /\ RefundAgrees(p)
          /\ DOMAIN call = Payments /\ DOMAIN gwRefund = Payments /\ DOMAIN charge = Payments
      BY DEF TypeOK, GatewayInvariant
    <2>1. ASSUME NEW outcome \in {"paid", "declined"}, CustomerPays(p, outcome)
          PROVE  GatewayInvariant'
      <3>1. /\ payment[p].method = "VNPAY" /\ charge[p] = "none"
            /\ \A q \in Payments \ {p} : charge'[q] = charge[q]
            /\ UNCHANGED <<payment, refund, wireVars, gwRefund>>
        BY <2>0, <2>1 DEF CustomerPays
      <3>2. AttemptRecord(p)' /\ RefundRecord(p)' /\ RefundAgrees(p)'
        BY <2>0, <3>1 DEF AttemptRecord, RefundRecord, RefundAgrees, Told
      <3> QED BY <3>1, <3>2, GatewayOne
    <2>2. ASSUME NEW outcome \in {"refunded", "refused"}, GatewaySettlesRefund(p, outcome)
          PROVE  GatewayInvariant'
      <3>1. /\ gwRefund[p] = "processing" /\ gwRefund'[p] = outcome
            /\ \A q \in Payments \ {p} : gwRefund'[q] = gwRefund[q]
            /\ UNCHANGED <<payment, refund, wireVars, charge>>
        BY <2>0, <2>2 DEF GatewaySettlesRefund
      <3>2. AttemptRecord(p)' /\ RefundRecord(p)' /\ RefundAgrees(p)'
        BY <2>0, <3>1 DEF AttemptRecord, RefundRecord, RefundAgrees, Told
      <3> QED BY <3>1, <3>2, GatewayOne
    <2>3. ASSUME NEW kind \in AnswerKind, GatewayAnswersRefund(p, kind)
          PROVE  GatewayInvariant'
      <3>1. /\ call[p] = "waiting" /\ call'[p] = kind /\ kind \in RefundAnswers(gwRefund[p])
            /\ \A q \in Payments \ {p} : call'[q] = call[q]
            /\ UNCHANGED <<payment, refund, queries, charge, gwRefund>>
        BY <2>0, <2>3 DEF GatewayAnswersRefund
      <3>2. /\ kind \notin {"original", "idle", "ready"}
            /\ kind = "completed" => gwRefund[p] = "refunded"
            /\ kind = "refused" => gwRefund[p] = "refused"
        BY <3>1 DEF RefundAnswers
      <3>3. AttemptRecord(p)' /\ RefundRecord(p)' /\ RefundAgrees(p)'
        BY <2>0, <3>1, <3>2 DEF AttemptRecord, RefundRecord, RefundAgrees, Told
      <3> QED BY <3>1, <3>3, GatewayOne
    <2> QED BY <2>1, <2>2, <2>3
  <1>5. CASE ExpireUnpaidBookings
    BY <1>2, <1>5 DEF ExpireUnpaidBookings
  <1>6. CASE ExpirePendingOnlinePayments
    BY <1>2, <1>6 DEF ExpirePendingOnlinePayments
  <1>7. CASE Tick \/ UNCHANGED vars
    BY <1>1, <1>7 DEF Tick
  <1> QED BY <1>3, <1>4, <1>5, <1>6, <1>7, GatewayBookingStep, GatewayPaymentStep DEF Next

\* What is recorded and what is under way agree with VNPay in every reachable state.
LEMMA GatewayAgrees == Spec => []GatewayInvariant
  <1>1. Init => GatewayInvariant
    BY DEF Init, GatewayInvariant, AttemptRecord, RefundRecord, RefundAgrees, Told, Recorded,
           NoPayment, NoRefund
  <1> QED BY <1>1, GatewayStep, TypeCorrect, PTL DEF Spec

\* Money VNPay took is on record, or the next IPN still records it.
THEOREM CapturedMoneyIsNeverLost == Spec => []CapturedMoneyIsNotLost
  <1>1. TypeOK /\ GatewayInvariant => CapturedMoneyIsNotLost
    <2> SUFFICES ASSUME TypeOK, GatewayInvariant, NEW p \in Payments, charge[p] = "paid"
                 PROVE  \/ AwaitsOutcome(p)
                        \/ payment[p].captured /\ payment[p].status \in Recorded
      BY DEF CapturedMoneyIsNotLost, Recorded
    <2>1. payment[p].status \in PaymentStatus \union {"ABSENT"} /\ AttemptRecord(p)
      BY DEF TypeOK, PaymentRow, PaymentColumns, GatewayInvariant
    <2>2. payment[p].method = "VNPAY" /\ payment[p].status # "ABSENT"
      BY <2>1 DEF AttemptRecord, None
    <2> QED BY <2>1, <2>2 DEF AttemptRecord, AwaitsOutcome, PaymentStatus, Recorded
  <1> QED BY <1>1, GatewayAgrees, TypeCorrect, PTL

\* A VNPay payment is REFUNDED only if VNPay gave the money back, and is put back
\* only if VNPay refused, whatever is lost, late, repeated or unverified.
THEOREM RefundsAlwaysMatchGateway == Spec => []RefundMatchesGateway
  <1>1. GatewayInvariant => RefundMatchesGateway
    BY DEF GatewayInvariant, RefundMatchesGateway
  <1> QED BY <1>1, GatewayAgrees, PTL

-----------------------------------------------------------------------------
(* Open attempts.                                                           *)

EndedUnpaid(b) == booking[b].status = "CANCELLED" /\ booking[b].payStatus = "UNPAID"

\* A step that opens no attempt, and closes those of the bookings it ends unpaid.
LEMMA OpenFrame ==
  ASSUME OpenAttempts,
         \A p \in Payments : PendingOnline(p)' =>
           PendingOnline(p) /\ payment'[p].booking = payment[p].booking,
         \A b \in Bookings : EndedUnpaid(b)' =>
           EndedUnpaid(b) \/ \A p \in Payments : payment'[p].booking = b => ~PendingOnline(p)'
  PROVE  OpenAttempts'
  BY DEF OpenAttempts, PaymentsOf, EndedUnpaid

\* Failing open attempts, with the bookings they belong to or without.
LEMMA OpenFailPending ==
  ASSUME TypeOK, NEW P, NEW code \in {"EXPIRED", "CANCELLED"}, NEW p \in Payments,
         payment'[p] = FailPending(P, code)[p]
  PROVE  /\ payment'[p].booking = payment[p].booking
         /\ PendingOnline(p)' => PendingOnline(p) /\ p \notin P
  <1>1. payment[p] \in PaymentColumns
    BY DEF TypeOK, PaymentRow
  <1>2. CASE p \in P /\ PendingOnline(p)
    <2>1. payment'[p] = [payment[p] EXCEPT !.status = "FAILED", !.code = code]
      BY <1>2 DEF FailPending
    <2>2. payment'[p].status = "FAILED" /\ payment'[p].booking = payment[p].booking
      BY <1>1, <2>1 DEF PaymentColumns
    <2> QED BY <2>2 DEF PendingOnline
  <1>3. CASE ~(p \in P /\ PendingOnline(p))
    BY <1>3 DEF FailPending, PendingOnline
  <1> QED BY <1>2, <1>3

\* Bookings of B are cancelled and the open attempts of P, theirs among them, fail.
LEMMA OpenCancel ==
  ASSUME TypeOK, OpenAttempts, NEW B \in SUBSET Bookings,
         booking' = [b \in Bookings |-> IF b \in B THEN CancelledRow(booking[b])
                                                   ELSE booking[b]],
         NEW P, \A b \in B : PaymentsOf(b) \subseteq P,
         NEW code \in {"EXPIRED", "CANCELLED"}, payment' = FailPending(P, code)
  PROVE  OpenAttempts'
  <1>1. \A p \in Payments : /\ payment'[p].booking = payment[p].booking
                            /\ PendingOnline(p)' => PendingOnline(p) /\ p \notin P
    BY OpenFailPending
  <1>2. ASSUME NEW b \in Bookings, EndedUnpaid(b)'
        PROVE  EndedUnpaid(b) \/ \A p \in Payments : payment'[p].booking = b => ~PendingOnline(p)'
    <2>1. CASE b \in B
      BY <1>1, <2>1 DEF PaymentsOf
    <2>2. CASE b \notin B
      BY <1>2, <2>2 DEF EndedUnpaid
    <2> QED BY <2>1, <2>2
  <1> QED BY <1>1, <1>2, OpenFrame

\* Creating, cancelling, advancing and paying bookings.
LEMMA OpenBookingStep == TypeOK /\ OpenAttempts /\ BookingNext => OpenAttempts'
  <1> SUFFICES ASSUME TypeOK, OpenAttempts, NEW b \in Bookings,
                      \/ \E byStaff \in BOOLEAN : CreateBooking(b, byStaff)
                      \/ CancelForCustomer(b)
                      \/ \E target \in BookingStatus : UpdateBookingStatus(b, target)
                      \/ \E p \in Payments : \/ CreateVnPayPayment(p, b)
                                             \/ RecordManualPayment(p, b)
               PROVE  OpenAttempts'
    BY DEF BookingNext
  <1>0. booking \in [Bookings -> BookingRow] /\ booking[b] \in BookingRow
    BY DEF TypeOK
  <1>1. ASSUME NEW byStaff, CreateBooking(b, byStaff)
        PROVE  OpenAttempts'
    <2>1. \A c \in Bookings : EndedUnpaid(c)' => EndedUnpaid(c)
      BY <1>0, <1>1 DEF CreateBooking, EndedUnpaid
    <2>2. \A p \in Payments : PendingOnline(p)' =>
            PendingOnline(p) /\ payment'[p].booking = payment[p].booking
      BY <1>1 DEF CreateBooking, PendingOnline
    <2> QED BY <2>1, <2>2, OpenFrame
  <1>2. ASSUME CancelBooking(b)
        PROVE  OpenAttempts'
    <2> DEFINE B == {b}
    <2>1. /\ booking' = [c \in Bookings |-> IF c \in B THEN CancelledRow(booking[c])
                                                      ELSE booking[c]]
          /\ payment' = FailPending(PaymentsOf(b), "CANCELLED")
          /\ \A c \in B : PaymentsOf(c) \subseteq PaymentsOf(b)
          /\ B \in SUBSET Bookings
      BY <1>0, <1>2 DEF CancelBooking
    <2> HIDE DEF B
    <2> QED BY <2>1, OpenCancel
  <1>3. CASE CancelForCustomer(b)
    BY <1>2, <1>3 DEF CancelForCustomer
  <1>4. ASSUME NEW target \in BookingStatus, UpdateBookingStatus(b, target)
        PROVE  OpenAttempts'
    <2>1. CASE target = "CANCELLED"
      BY <1>2, <1>4, <2>1 DEF UpdateBookingStatus
    <2>2. CASE target # "CANCELLED"
      <3>1. /\ booking' = [booking EXCEPT ![b].status = target, ![b].deadline = NoTime]
            /\ UNCHANGED payment
        BY <1>4, <2>2 DEF UpdateBookingStatus
      <3>2. \A c \in Bookings : EndedUnpaid(c)' => EndedUnpaid(c)
        BY <1>0, <2>2, <3>1 DEF BookingRow, EndedUnpaid
      <3>3. \A p \in Payments : PendingOnline(p)' =>
              PendingOnline(p) /\ payment'[p].booking = payment[p].booking
        BY <3>1 DEF PendingOnline
      <3> QED BY <3>2, <3>3, OpenFrame
    <2> QED BY <2>1, <2>2
  \* A new payment: the overdue attempts of the booking fail, and there are no others.
  <1>5. ASSUME NEW p \in Payments, NEW row, payment' = WithNewPayment(p, b, row),
               MayStartPayment(p, b), row.booking = b
        PROVE  /\ payment'[p] = row
               /\ \A q \in Payments \ {p} : /\ payment'[q].booking = payment[q].booking
                                            /\ PendingOnline(q)' => PendingOnline(q)
               /\ \A q \in Payments \ {p} : payment'[q].booking = b => ~PendingOnline(q)'
    <2> DEFINE late == {q \in PaymentsOf(b) : Overdue(q)}
    <2>1. /\ payment'[p] = row
          /\ \A q \in Payments \ {p} : payment'[q] = FailPending(late, "EXPIRED")[q]
      BY <1>5 DEF WithNewPayment, FailPending
    <2>2. \A q \in PaymentsOf(b) : PendingOnline(q) => q \in late
      BY <1>5 DEF MayStartPayment
    <2> HIDE DEF late
    <2>3. \A q \in Payments \ {p} : /\ payment'[q].booking = payment[q].booking
                                    /\ PendingOnline(q)' => PendingOnline(q) /\ q \notin late
      BY <2>1, OpenFailPending
    <2> QED BY <2>1, <2>2, <2>3 DEF PaymentsOf
  <1>6. ASSUME NEW p \in Payments, CreateVnPayPayment(p, b)
        PROVE  OpenAttempts'
    <2> DEFINE row == [NoPayment EXCEPT !.status = "PENDING", !.booking = b,
                         !.method = "VNPAY",
                         !.deadline = IF booking[b].status = "PENDING_PAYMENT"
                                        THEN booking[b].deadline ELSE now + Timeout]
    <2>1. row.booking = b
      BY DEF NoPayment
    <2>2. /\ payment' = WithNewPayment(p, b, row) /\ MayStartPayment(p, b) /\ UNCHANGED booking
      BY <1>6 DEF CreateVnPayPayment
    <2> HIDE DEF row
    <2>3. ~EndedUnpaid(b)
      BY <2>2 DEF MayStartPayment, CanAcceptPayment, EndedUnpaid
    <2>4. /\ payment'[p].booking = b
          /\ \A q \in Payments \ {p} : /\ payment'[q].booking = payment[q].booking
                                       /\ PendingOnline(q)' => PendingOnline(q)
          /\ \A q \in Payments \ {p} : payment'[q].booking = b => ~PendingOnline(q)'
      BY <1>5, <2>1, <2>2
    <2> QED BY <2>2, <2>3, <2>4 DEF OpenAttempts, EndedUnpaid, PaymentsOf
  <1>7. ASSUME NEW p \in Payments, RecordManualPayment(p, b)
        PROVE  OpenAttempts'
    <2> DEFINE row == [NoPayment EXCEPT !.status = "SUCCESS", !.booking = b,
                                        !.method = "MANUAL"]
    <2>1. row.booking = b /\ row.status = "SUCCESS"
      BY DEF NoPayment
    <2>2. /\ payment' = WithNewPayment(p, b, row) /\ MayStartPayment(p, b)
          /\ booking' = [booking EXCEPT ![b] = PaidRow(@, p)]
      BY <1>7 DEF RecordManualPayment
    <2> HIDE DEF row
    <2>3. \A q \in Payments : PendingOnline(q)' =>
            PendingOnline(q) /\ payment'[q].booking = payment[q].booking
      BY <1>5, <2>1, <2>2 DEF PendingOnline
    <2>4. \A c \in Bookings : EndedUnpaid(c)' => EndedUnpaid(c)
      BY <1>0, <2>2 DEF PaidRow, BookingRow, EndedUnpaid
    <2> QED BY <2>3, <2>4, OpenFrame
  <1> QED BY <1>1, <1>3, <1>4, <1>6, <1>7

\* IPNs, refunds, their answers and their reconciliation.
LEMMA OpenPaymentStep == TypeOK /\ OpenAttempts /\ PaymentNext => OpenAttempts'
  <1> SUFFICES ASSUME TypeOK, OpenAttempts, NEW p \in Payments,
                      \/ VnPayIpn(p)
                      \/ RefundManual(p)
                      \/ \E key \in RefundKeys,
                            capability \in {"STANDARD_REFUND", "DUPLICATE_CHARGE_REFUND"} :
                           PrepareVnPayRefund(p, key, capability)
                      \/ SendRefund(p)
                      \/ LoseRefundCall(p)
                      \/ ApplyVnPayRefundResult(p)
                      \/ \E kind \in AnswerKind : \/ QueryRefund(p, kind)
                                                  \/ ApplyVnPayReconciliation(p, kind)
               PROVE  OpenAttempts'
    BY DEF PaymentNext
  <1>0. /\ booking \in [Bookings -> BookingRow]
        /\ payment \in [Payments -> PaymentRow] /\ payment[p] \in PaymentColumns
    BY DEF TypeOK, PaymentRow
  <1>1. ASSUME payment'[p].status # "PENDING",
               \A q \in Payments \ {p} : payment'[q] = payment[q],
               \A c \in Bookings : EndedUnpaid(c)' => EndedUnpaid(c)
        PROVE  OpenAttempts'
    <2>1. \A q \in Payments : PendingOnline(q)' =>
            PendingOnline(q) /\ payment'[q].booking = payment[q].booking
      BY <1>0, <1>1 DEF PendingOnline
    <2> QED BY <1>1, <2>1, OpenFrame
  <1>2. ASSUME NEW status \in Recorded,
               \/ payment' = [payment EXCEPT ![p].status = status]
               \/ \E reason, c :
                    payment' = [payment EXCEPT ![p] = CapturedRow(@, status, reason, c)]
        PROVE  payment'[p].status # "PENDING" /\ \A q \in Payments \ {p} : payment'[q] = payment[q]
    <2>1. CASE payment' = [payment EXCEPT ![p].status = status]
      BY <1>0, <2>1 DEF PaymentColumns, Recorded
    <2>2. ASSUME NEW reason, NEW c,
                 payment' = [payment EXCEPT ![p] = CapturedRow(@, status, reason, c)]
          PROVE  payment'[p].status # "PENDING" /\ \A q \in Payments \ {p} : payment'[q] = payment[q]
      BY <1>0, <2>2 DEF PaymentColumns, CapturedRow, Recorded
    <2> QED BY <1>2, <2>1, <2>2
  <1>3. CASE VnPayIpn(p)
    <2> DEFINE b == payment[p].booking
    <2>1. \/ /\ booking[b].status # "CANCELLED" /\ AcceptCaptured(p)
          \/ \E reason, c : ReviewCaptured(p, reason, c)
          \/ /\ payment' = [payment EXCEPT ![p].status = "FAILED", ![p].code = "24",
                              ![p].reason = None, ![p].canonical = None]
             /\ UNCHANGED booking
      BY <1>3 DEF VnPayIpn, ApplyGatewayPaymentOutcome
    <2>2. CASE booking[b].status # "CANCELLED" /\ AcceptCaptured(p)
      <3>1. b \in Bookings
        BY <1>3, <1>0 DEF VnPayIpn, AwaitsOutcome, PaymentRow
      <3>2. \A c \in Bookings : EndedUnpaid(c)' => EndedUnpaid(c)
        BY <1>0, <2>2, <3>1 DEF AcceptCaptured, PaidRow, BookingRow, EndedUnpaid
      <3> QED BY <1>1, <1>2, <2>2, <3>2 DEF AcceptCaptured, Recorded
    <2>3. ASSUME NEW reason, NEW c, ReviewCaptured(p, reason, c)
          PROVE  OpenAttempts'
      BY <1>1, <1>2, <2>3 DEF ReviewCaptured, Recorded, EndedUnpaid
    <2>4. CASE /\ payment' = [payment EXCEPT ![p].status = "FAILED", ![p].code = "24",
                                ![p].reason = None, ![p].canonical = None]
               /\ UNCHANGED booking
      <3>1. \A q \in Payments : PendingOnline(q)' =>
              PendingOnline(q) /\ payment'[q].booking = payment[q].booking
        BY <1>0, <2>4 DEF PendingOnline, PaymentColumns
      <3> QED BY <2>4, <3>1, OpenFrame DEF EndedUnpaid
    <2> QED BY <2>1, <2>2, <2>3, <2>4
  <1>4. ASSUME NEW ref, CompleteRefund(p, ref), payment[p].status # "ABSENT"
        PROVE  OpenAttempts'
    <2> DEFINE b == payment[p].booking
               row == [CancelledRow(booking[b]) EXCEPT !.payStatus = "REFUNDED"]
    <2>1. b \in Bookings
      BY <1>0, <1>4 DEF PaymentRow
    <2>2. row.payStatus = "REFUNDED"
      BY <1>0, <2>1 DEF CancelledRow, BookingRow
    <2>3. UNCHANGED booking \/ booking' = [booking EXCEPT ![b] = row]
      BY <1>4 DEF CompleteRefund
    <2> HIDE DEF row
    <2>4. \A c \in Bookings : EndedUnpaid(c)' => EndedUnpaid(c)
      BY <1>0, <2>1, <2>2, <2>3 DEF EndedUnpaid
    <2> QED BY <1>1, <1>2, <1>4, <2>4 DEF CompleteRefund, Recorded
  <1>5. CASE RefundManual(p)
    BY <1>4, <1>5 DEF RefundManual, ManualRefundAllowed
  <1>6. ASSUME NEW key, NEW capability, PrepareVnPayRefund(p, key, capability)
        PROVE  OpenAttempts'
    BY <1>1, <1>2, <1>6 DEF PrepareVnPayRefund, Recorded, EndedUnpaid
  <1>7. ASSUME UNCHANGED <<booking, payment>>
        PROVE  OpenAttempts'
    BY <1>7, OpenFrame DEF PendingOnline, EndedUnpaid
  <1>8. CASE Restore(p)
    <2>1. RestoredStatus(p) \in Recorded
      BY DEF RestoredStatus, Recorded
    <2>2. payment' = [payment EXCEPT ![p].status = RestoredStatus(p)] /\ UNCHANGED booking
      BY <1>8 DEF Restore
    <2> QED BY <1>1, <1>2, <2>1, <2>2 DEF EndedUnpaid
  <1>9. ASSUME \/ ApplyVnPayRefundResult(p)
               \/ \E kind \in AnswerKind : ApplyVnPayReconciliation(p, kind)
        PROVE  OpenAttempts'
    <2>1. \/ CompleteRefund(p, refund[p]) /\ payment[p].status # "ABSENT"
          \/ Restore(p)
          \/ UNCHANGED <<booking, payment>>
      BY <1>9 DEF ApplyVnPayRefundResult, ApplyVnPayReconciliation
    <2> QED BY <1>4, <1>7, <1>8, <2>1
  <1>10. ASSUME \/ SendRefund(p) \/ LoseRefundCall(p)
                \/ \E kind \in AnswerKind : QueryRefund(p, kind)
         PROVE  OpenAttempts'
    BY <1>7, <1>10 DEF SendRefund, LoseRefundCall, QueryRefund, rowVars
  <1> QED BY <1>3, <1>5, <1>6, <1>9, <1>10

\* All of them, the crons, the rooms, the gateway and the clock.
LEMMA OpenStep == TypeOK /\ OpenAttempts /\ [Next]_vars => OpenAttempts'
  <1> SUFFICES ASSUME TypeOK, OpenAttempts, [Next]_vars
               PROVE  OpenAttempts'
    OBVIOUS
  <1> USE DEF vars, rowVars
  <1>1. ASSUME UNCHANGED <<booking, payment>>
        PROVE  OpenAttempts'
    BY <1>1, OpenFrame DEF PendingOnline, EndedUnpaid
  <1>2. CASE RoomNext
    BY <1>1, <1>2 DEF RoomNext, LockStayBookings, UpdateRoomStatus, EndStatusChange, BlockDates,
                     UnblockDates
  <1>3. CASE GatewayNext
    BY <1>1, <1>3 DEF GatewayNext, CustomerPays, GatewaySettlesRefund, GatewayAnswersRefund
  <1>4. CASE ExpireUnpaidBookings
    <2>1. PICK B \in SUBSET ExpiredBookings :
            /\ booking' = [b \in Bookings |-> IF b \in B THEN CancelledRow(booking[b])
                                                         ELSE booking[b]]
            /\ payment' = FailPending(UNION {PaymentsOf(b) : b \in B}, "EXPIRED")
      BY <1>4 DEF ExpireUnpaidBookings
    <2> DEFINE P == UNION {PaymentsOf(b) : b \in B}
    <2>2. B \in SUBSET Bookings /\ \A b \in B : PaymentsOf(b) \subseteq P
      BY DEF ExpiredBookings
    <2>3. payment' = FailPending(P, "EXPIRED")
      BY <2>1
    <2> HIDE DEF P, vars, rowVars
    <2> QED BY <2>1, <2>2, <2>3, OpenCancel
  <1>5. CASE ExpirePendingOnlinePayments
    <2>1. PICK P : payment' = FailPending(P, "EXPIRED") /\ UNCHANGED booking
      BY <1>5 DEF ExpirePendingOnlinePayments
    <2>2. \A p \in Payments : /\ payment'[p].booking = payment[p].booking
                              /\ PendingOnline(p)' => PendingOnline(p)
      BY <2>1, OpenFailPending
    <2> QED BY <2>1, <2>2, OpenFrame DEF EndedUnpaid
  <1>6. CASE Tick \/ UNCHANGED vars
    BY <1>1, <1>6 DEF Tick
  <1> QED BY <1>2, <1>3, <1>4, <1>5, <1>6, OpenBookingStep, OpenPaymentStep DEF Next

\* A booking has at most one open attempt, and none once it has ended unpaid.
THEOREM AttemptsStayExclusive == Spec => []OpenAttempts
  <1>1. Init => OpenAttempts
    <2>1. Init => \A p \in Payments : ~PendingOnline(p)
      BY DEF Init, PendingOnline, NoPayment
    <2>2. Init => \A b \in Bookings : PaymentsOf(b) \subseteq Payments
      BY DEF PaymentsOf
    <2> QED BY <2>1, <2>2 DEF OpenAttempts
  <1> QED BY <1>1, OpenStep, TypeCorrect, PTL DEF Spec

-----------------------------------------------------------------------------
(* The contract of a stay.                                                  *)

\* A step that leaves status, money and nights of every booking alone.
LEMMA ContractFrame ==
  ASSUME UNCHANGED calendar,
         \A b \in Bookings : /\ booking'[b].status = booking[b].status
                             /\ booking'[b].payStatus = booking[b].payStatus
  PROVE  UNCHANGED Contract!vars
  BY DEF Contract!vars

\* A new booking holds its nights.
LEMMA ContractCreate ==
  ASSUME TypeOK, MoneyInvariant, NEW b \in Bookings, NEW byStaff, CreateBooking(b, byStaff)
  PROVE  Contract!Hold(b)
  <1>1. /\ booking[b].status = "ABSENT" /\ booking[b].payStatus = "UNPAID"
        /\ booking'[b].status = "PENDING_PAYMENT" /\ booking'[b].payStatus = "UNPAID"
        /\ \A c \in Bookings \ {b} : booking'[c] = booking[c]
        /\ \A s \in StaySlots(b) : calendar[s] = Free
        /\ calendar' = [s \in Slots |-> IF s \in StaySlots(b) THEN b ELSE calendar[s]]
    BY DEF CreateBooking, TypeOK, MoneyInvariant, BookingMoney
  <1> QED BY <1>1 DEF Contract!Hold

\* Unpaid bookings end and give their nights back.
LEMMA ContractCancel ==
  ASSUME TypeOK, MoneyInvariant, NEW B \in SUBSET Bookings, B # {},
         \A b \in B : /\ booking[b].status \in {"PENDING_PAYMENT", "CONFIRMED"}
                      /\ booking[b].payStatus # "PAID",
         booking' = [b \in Bookings |-> IF b \in B THEN CancelledRow(booking[b])
                                                   ELSE booking[b]],
         calendar' = Released(B)
  PROVE  Contract!Cancel(B)
  <1>1. \A b \in Bookings :
          /\ booking'[b].payStatus = booking[b].payStatus
          /\ booking'[b].status = IF b \in B THEN "CANCELLED" ELSE booking[b].status
    BY DEF CancelledRow, TypeOK, BookingRow
  <1>2. \A b \in B : booking[b].payStatus = "UNPAID"
    BY DEF TypeOK, BookingRow, BookingPaymentStatus, MoneyInvariant, BookingMoney
  <1> QED BY <1>1, <1>2 DEF Contract!Cancel, Contract!GivenBack, Released

\* The rows after a payment was accepted.
LEMMA PaidRows ==
  ASSUME TypeOK, NEW b \in Bookings, NEW p, booking' = [booking EXCEPT ![b] = PaidRow(@, p)]
  PROVE  /\ booking'[b].payStatus = "PAID"
         /\ booking'[b].status = IF booking[b].status = "PENDING_PAYMENT"
                                   THEN "CONFIRMED" ELSE booking[b].status
         /\ \A c \in Bookings \ {b} : booking'[c] = booking[c]
  BY DEF PaidRow, TypeOK, BookingRow

\* A booking in force is paid, manually or by an IPN.
LEMMA ContractPay ==
  ASSUME NEW b \in Bookings,
         booking[b].status \in {"PENDING_PAYMENT", "CONFIRMED"},
         booking[b].payStatus = "UNPAID",
         booking'[b].payStatus = "PAID", booking'[b].status = "CONFIRMED",
         \A c \in Bookings \ {b} : booking'[c] = booking[c], UNCHANGED calendar
  PROVE  Contract!Pay(b)
  <1> DEFINE stages == [c \in Bookings |-> booking[c].status]
             moneys == [c \in Bookings |-> booking[c].payStatus]
  <1>1. /\ stages[b] \in {"PENDING_PAYMENT", "CONFIRMED"} /\ moneys[b] = "UNPAID"
        /\ moneys' = [moneys EXCEPT ![b] = "PAID"]
        /\ stages' = [stages EXCEPT ![b] = "CONFIRMED"]
    OBVIOUS
  <1>2. (IF stages[b] = "PENDING_PAYMENT" THEN "CONFIRMED" ELSE stages[b]) = "CONFIRMED"
    BY <1>1
  <1> QED BY <1>1, <1>2 DEF Contract!Pay

\* A completed refund ends the stay it was for, or is of money that stay never was.
LEMMA ContractRefund ==
  ASSUME TypeOK, MoneyInvariant, NEW p \in Payments, NEW ref,
         CompleteRefund(p, ref), ref.previous = refund[p].previous,
         \/ /\ payment[p].status = "SUCCESS" /\ refund[p].previous = None
            /\ booking[payment[p].booking].status \notin {"CHECKED_IN", "CHECKED_OUT"}
         \/ payment[p].status = "REFUND_PENDING"
  PROVE  (\E b \in Bookings : Contract!Refund(b)) \/ UNCHANGED Contract!vars
  <1>0. PICK b \in Bookings : b = payment[p].booking
    BY DEF TypeOK, PaymentRow
  <1> DEFINE row == [CancelledRow(booking[b]) EXCEPT !.payStatus = "REFUNDED"]
  <1>1. /\ booking[b] \in BookingRow /\ booking \in [Bookings -> BookingRow]
        /\ BookingMoney(b) /\ PaymentMoney(p)
    BY DEF TypeOK, MoneyInvariant
  <1>2. CASE IsDuplicateCharge(p, payment[p], ref)
    BY <1>2, ContractFrame DEF CompleteRefund
  <1>3. CASE ~IsDuplicateCharge(p, payment[p], ref)
    <2>1. Keeps(p) \/ booking[b].status = "CANCELLED"
      BY <1>0, <1>1, <1>3 DEF IsDuplicateCharge, PaymentMoney, Keeps, Reviewed
    <2>2. Keeps(p) => booking[b].status = "CONFIRMED" /\ booking[b].payStatus = "PAID"
      BY <1>0, <1>1 DEF PaymentMoney, BookingMoney, Keeps, BookingRow, BookingStatus
    <2>3. row.payStatus = "REFUNDED" /\ row.status = "CANCELLED"
      BY <1>1 DEF CancelledRow, BookingRow
    <2>4. booking' = [booking EXCEPT ![b] = row] /\ calendar' = Released({b})
      BY <1>0, <1>3 DEF CompleteRefund
    <2> HIDE DEF row
    <2>5. /\ booking'[b].payStatus = "REFUNDED" /\ booking'[b].status = "CANCELLED"
          /\ \A c \in Bookings \ {b} : booking'[c] = booking[c]
      BY <1>1, <2>3, <2>4
    <2>6. Contract!Refund(b)
      BY <1>1, <2>1, <2>2, <2>4, <2>5 DEF Contract!Refund, Contract!GivenBack, Released
    <2> QED BY <2>6
  <1> QED BY <1>2, <1>3

\* Blocking and unblocking touch only nights that no guest holds.
LEMMA ContractOwner ==
  ASSUME TypeOK, NEW r \in Rooms, NEW range, BlockDates(r, range) \/ UnblockDates(r, range)
  PROVE  Contract!OwnerChanges
  <1>1. /\ UNCHANGED booking /\ calendar \in [Slots -> Bookings \union {Free, Blocked}]
        /\ calendar' \in [Slots -> Bookings \union {Free, Blocked}]
    BY DEF BlockDates, UnblockDates, TypeOK
  <1>2. \A s \in Slots : calendar'[s] # calendar[s] =>
          {calendar[s], calendar'[s]} = {Free, Blocked}
    BY <1>1 DEF BlockDates, UnblockDates, Slots
  <1> QED BY <1>1, <1>2 DEF Contract!OwnerChanges

\* Creating, cancelling, advancing and paying bookings.
LEMMA ContractBookingStep ==
  TypeOK /\ MoneyInvariant /\ BookingNext => [Contract!Next]_(Contract!vars)
  <1> SUFFICES ASSUME TypeOK, MoneyInvariant, NEW b \in Bookings,
                      \/ \E byStaff \in BOOLEAN : CreateBooking(b, byStaff)
                      \/ CancelForCustomer(b)
                      \/ \E target \in BookingStatus : UpdateBookingStatus(b, target)
                      \/ \E p \in Payments : \/ CreateVnPayPayment(p, b)
                                             \/ RecordManualPayment(p, b)
               PROVE  Contract!Next \/ UNCHANGED Contract!vars
    BY DEF BookingNext
  <1>0. booking \in [Bookings -> BookingRow]
    BY DEF TypeOK
  <1>1. ASSUME NEW byStaff, CreateBooking(b, byStaff)
        PROVE  Contract!Next
    BY <1>1, ContractCreate DEF Contract!Next
  <1>2. ASSUME CancelBooking(b), booking[b].status \in {"PENDING_PAYMENT", "CONFIRMED"}
        PROVE  Contract!Next
    <2> DEFINE B == {b}
    <2>1. /\ booking' = [c \in Bookings |-> IF c \in B THEN CancelledRow(booking[c])
                                                      ELSE booking[c]]
          /\ calendar' = Released(B)
          /\ \A c \in B : /\ booking[c].status \in {"PENDING_PAYMENT", "CONFIRMED"}
                          /\ booking[c].payStatus # "PAID"
          /\ B \in SUBSET Bookings /\ B # {}
      BY <1>0, <1>2 DEF CancelBooking
    <2> HIDE DEF B
    <2> QED BY <2>1, ContractCancel DEF Contract!Next
  <1>3. CASE CancelForCustomer(b)
    BY <1>2, <1>3 DEF CancelForCustomer
  <1>4. ASSUME NEW target \in BookingStatus, UpdateBookingStatus(b, target)
        PROVE  Contract!Next
    <2>1. target \in ManagementTransitions(booking[b].status)
      BY <1>4 DEF UpdateBookingStatus, TransitionAllowed
    <2>2. CASE target = "CANCELLED"
      <3>1. booking[b].status \in {"PENDING_PAYMENT", "CONFIRMED"}
        BY <2>1, <2>2 DEF ManagementTransitions
      <3> QED BY <1>2, <1>4, <2>2, <3>1 DEF UpdateBookingStatus
    <2>3. CASE target # "CANCELLED"
      <3>1. /\ booking' = [booking EXCEPT ![b].status = target, ![b].deadline = NoTime]
            /\ UNCHANGED calendar
            /\ target = "CHECKED_IN" => booking[b].payStatus = "PAID"
        BY <1>4, <2>3 DEF UpdateBookingStatus, TransitionAllowed
      <3>2. /\ booking'[b].status = target /\ booking'[b].payStatus = booking[b].payStatus
            /\ \A c \in Bookings \ {b} : booking'[c] = booking[c]
        BY <1>0, <3>1 DEF BookingRow
      <3>3. \/ booking[b].status = "PENDING_PAYMENT" /\ target = "CONFIRMED"
            \/ booking[b].status = "CONFIRMED" /\ target = "CHECKED_IN"
            \/ booking[b].status = "CHECKED_IN" /\ target = "CHECKED_OUT"
        BY <2>1, <2>3 DEF ManagementTransitions
      <3> DEFINE stages == [c \in Bookings |-> booking[c].status]
                 moneys == [c \in Bookings |-> booking[c].payStatus]
      <3>4. /\ stages' = [stages EXCEPT ![b] = target] /\ UNCHANGED moneys
            /\ stages[b] = booking[b].status /\ moneys[b] = booking[b].payStatus
        BY <3>2
      <3>5. \/ target = "CONFIRMED" /\ Contract!Confirm(b)
            \/ target = "CHECKED_IN" /\ Contract!CheckIn(b)
            \/ target = "CHECKED_OUT" /\ Contract!CheckOut(b)
        BY <3>1, <3>3, <3>4 DEF Contract!Confirm, Contract!CheckIn, Contract!CheckOut
      <3> QED BY <3>5 DEF Contract!Next
    <2> QED BY <2>2, <2>3
  <1>5. ASSUME NEW p \in Payments, CreateVnPayPayment(p, b)
        PROVE  UNCHANGED Contract!vars
    BY <1>5, ContractFrame DEF CreateVnPayPayment
  <1>6. ASSUME NEW p \in Payments, RecordManualPayment(p, b)
        PROVE  Contract!Next
    <2>1. /\ booking[b].status \in {"PENDING_PAYMENT", "CONFIRMED"}
          /\ booking[b].payStatus = "UNPAID"
          /\ booking' = [booking EXCEPT ![b] = PaidRow(@, p)] /\ UNCHANGED calendar
      BY <1>6 DEF RecordManualPayment, MayStartPayment, CanAcceptPayment
    <2>2. Contract!Pay(b)
      BY <2>1, PaidRows, ContractPay
    <2> QED BY <2>2 DEF Contract!Next
  <1> QED BY <1>1, <1>3, <1>4, <1>5, <1>6

\* IPNs, refunds, their answers and their reconciliation.
LEMMA ContractPaymentStep ==
  TypeOK /\ MoneyInvariant /\ PaymentNext => [Contract!Next]_(Contract!vars)
  <1> SUFFICES ASSUME TypeOK, MoneyInvariant, NEW p \in Payments,
                      \/ VnPayIpn(p)
                      \/ RefundManual(p)
                      \/ \E key \in RefundKeys,
                            capability \in {"STANDARD_REFUND", "DUPLICATE_CHARGE_REFUND"} :
                           PrepareVnPayRefund(p, key, capability)
                      \/ SendRefund(p)
                      \/ LoseRefundCall(p)
                      \/ ApplyVnPayRefundResult(p)
                      \/ \E kind \in AnswerKind : \/ QueryRefund(p, kind)
                                                  \/ ApplyVnPayReconciliation(p, kind)
               PROVE  Contract!Next \/ UNCHANGED Contract!vars
    BY DEF PaymentNext
  <1>0. PaymentMoney(p) /\ (payment[p].status # "ABSENT" => payment[p].booking \in Bookings)
    BY DEF MoneyInvariant, TypeOK, PaymentRow
  <1>1. CASE VnPayIpn(p)
    <2>0. PICK b \in Bookings : b = payment[p].booking
      BY <1>0, <1>1 DEF VnPayIpn, AwaitsOutcome
    <2>1. /\ payment[p].status \in {"PENDING", "FAILED"} /\ UNCHANGED calendar
          /\ BookingMoney(b) /\ booking[b].status # "ABSENT"
          /\ booking[b].status \in BookingStatus \union {"ABSENT"}
      BY <1>0, <1>1, <2>0
      DEF VnPayIpn, AwaitsOutcome, TypeOK, BookingRow, MoneyInvariant, PaymentMoney
    <2>2. \/ UNCHANGED booking
          \/ /\ booking[b].status # "CANCELLED" /\ booking[b].payStatus = "UNPAID"
             /\ booking' = [booking EXCEPT ![b] = PaidRow(@, p)]
      BY <1>1, <2>0, <2>1, NothingAccepted
      DEF VnPayIpn, ApplyGatewayPaymentOutcome, ReviewCaptured, AcceptCaptured
    <2>3. CASE UNCHANGED booking
      BY <2>1, <2>3, ContractFrame
    <2>4. CASE /\ booking[b].status # "CANCELLED" /\ booking[b].payStatus = "UNPAID"
               /\ booking' = [booking EXCEPT ![b] = PaidRow(@, p)]
      <3>1. booking[b].status \in {"PENDING_PAYMENT", "CONFIRMED"}
        BY <2>1, <2>4 DEF BookingMoney, BookingStatus
      <3>2. Contract!Pay(b)
        BY <2>1, <2>4, <3>1, PaidRows, ContractPay
      <3> QED BY <2>1, <3>2 DEF Contract!Next
    <2> QED BY <2>2, <2>3, <2>4
  <1>2. CASE RefundManual(p)
    <2>1. /\ payment[p].status = "SUCCESS" /\ refund[p].previous = None
          /\ booking[payment[p].booking].status \notin {"CHECKED_IN", "CHECKED_OUT"}
          /\ CompleteRefund(p, refund'[p]) /\ refund'[p].previous = refund[p].previous
      BY <1>0, <1>2 DEF RefundManual, ManualRefundAllowed, PaymentMoney, TypeOK, RefundRow
    <2> QED BY <1>0, <2>1, ContractRefund DEF Contract!Next
  <1>3. ASSUME \/ ApplyVnPayRefundResult(p)
               \/ \E kind \in AnswerKind : ApplyVnPayReconciliation(p, kind)
        PROVE  Contract!Next \/ UNCHANGED Contract!vars
    <2>1. \/ CompleteRefund(p, refund[p]) /\ payment[p].status = "REFUND_PENDING"
          \/ UNCHANGED <<booking, calendar>>
      BY <1>3 DEF ApplyVnPayRefundResult, ApplyVnPayReconciliation, Restore
    <2>2. CASE CompleteRefund(p, refund[p]) /\ payment[p].status = "REFUND_PENDING"
      BY <1>0, <2>2, ContractRefund DEF Contract!Next
    <2>3. CASE UNCHANGED <<booking, calendar>>
      BY <2>3, ContractFrame
    <2> QED BY <2>1, <2>2, <2>3
  <1>4. ASSUME NEW key, NEW capability, PrepareVnPayRefund(p, key, capability)
        PROVE  UNCHANGED Contract!vars
    BY <1>4, ContractFrame DEF PrepareVnPayRefund
  <1>5. ASSUME \/ SendRefund(p) \/ LoseRefundCall(p)
               \/ \E kind \in AnswerKind : QueryRefund(p, kind)
        PROVE  UNCHANGED Contract!vars
    BY <1>5, ContractFrame DEF SendRefund, LoseRefundCall, QueryRefund, rowVars
  <1> QED BY <1>1, <1>2, <1>3, <1>4, <1>5

\* All of them, the crons, the rooms, the gateway and the clock.
LEMMA ContractStep ==
  TypeOK /\ MoneyInvariant /\ [Next]_vars => [Contract!Next]_(Contract!vars)
  <1> SUFFICES ASSUME TypeOK, MoneyInvariant, [Next]_vars
               PROVE  Contract!Next \/ UNCHANGED Contract!vars
    OBVIOUS
  <1>1. CASE RoomNext
    <2>1. PICK r \in Rooms :
            \/ LockStayBookings(r) \/ EndStatusChange(r)
            \/ \E next \in RoomStatus, role \in {"ADMIN", "STAFF"} :
                 UpdateRoomStatus(r, next, role)
            \/ \E range : BlockDates(r, range) \/ UnblockDates(r, range)
      BY <1>1 DEF RoomNext
    <2>2. ASSUME NEW next, NEW role, UpdateRoomStatus(r, next, role)
          PROVE  UNCHANGED Contract!vars
      BY <2>2, ContractFrame DEF UpdateRoomStatus
    <2>3. CASE LockStayBookings(r) \/ EndStatusChange(r)
      BY <2>3, ContractFrame DEF LockStayBookings, EndStatusChange, rowVars
    <2> QED BY <2>1, <2>2, <2>3, ContractOwner DEF Contract!Next
  <1>2. CASE GatewayNext
    BY <1>2, ContractFrame
    DEF GatewayNext, CustomerPays, GatewaySettlesRefund, GatewayAnswersRefund, rowVars
  <1>3. CASE ExpireUnpaidBookings
    <2>1. PICK B \in SUBSET ExpiredBookings :
            /\ B # {} /\ calendar' = Released(B)
            /\ booking' = [b \in Bookings |-> IF b \in B THEN CancelledRow(booking[b])
                                                         ELSE booking[b]]
      BY <1>3 DEF ExpireUnpaidBookings
    <2>2. B \in SUBSET Bookings
      BY DEF ExpiredBookings
    <2>3. \A b \in B : booking[b].status = "PENDING_PAYMENT" /\ booking[b].payStatus # "PAID"
      BY DEF ExpiredBookings
    <2>4. Contract!Cancel(B)
      BY <2>1, <2>2, <2>3, ContractCancel
    <2> QED BY <2>1, <2>2, <2>4 DEF Contract!Next
  <1>4. CASE ExpirePendingOnlinePayments \/ Tick \/ UNCHANGED vars
    BY <1>4, ContractFrame DEF ExpirePendingOnlinePayments, Tick, vars, rowVars
  <1> QED BY <1>1, <1>2, <1>3, <1>4, ContractBookingStep, ContractPaymentStep DEF Next

\* Payments, IPNs, refunds, crons and blocked nights together implement the contract
\* of a stay: every step is one of its steps or changes nothing it speaks of.
THEOREM StayContractIsKept == Spec => ImplementsStayContract
  <1>1. Init => Contract!Init
    BY DEF Init, Contract!Init, NoBooking
  <1> QED BY <1>1, ContractStep, TypeCorrect, MoneyInOrder, PTL
          DEF Spec, ImplementsStayContract, Contract!Spec

\* A paid booking loses its room only with the refund of its accepted payment, and a
\* guest who has checked in only checks out.
THEOREM PaidStayIsAlwaysHonoured == Spec => PaidStayIsHonoured
  <1> DEFINE Honoured ==
        \A b \in Bookings :
          /\ booking[b].payStatus = "PAID" =>
               \/ booking'[b].payStatus = "PAID" /\ booking'[b].status # "CANCELLED"
               \/ payment'[booking[b].accepted].status = "REFUNDED"
          /\ booking[b].status = "CHECKED_IN" =>
               booking'[b].status \in {"CHECKED_IN", "CHECKED_OUT"}
             Fixed == \A b \in Bookings : booking[b].accepted # None =>
                        booking'[b].accepted = booking[b].accepted
  <1>1. ASSUME TypeOK, MoneyInvariant, MoneyInvariant', [Contract!Next]_(Contract!vars), Fixed
        PROVE  Honoured
    <2> SUFFICES ASSUME NEW b \in Bookings
                 PROVE  /\ booking[b].payStatus = "PAID" =>
                             \/ booking'[b].payStatus = "PAID" /\ booking'[b].status # "CANCELLED"
                             \/ payment'[booking[b].accepted].status = "REFUNDED"
                        /\ booking[b].status = "CHECKED_IN" =>
                             booking'[b].status \in {"CHECKED_IN", "CHECKED_OUT"}
      OBVIOUS
    <2>1. BookingMoney(b) /\ BookingMoney(b)'
      BY <1>1 DEF MoneyInvariant
    <2>2. /\ booking[b].payStatus = "PAID" => booking'[b].payStatus \in {"PAID", "REFUNDED"}
          /\ booking[b].status = "CHECKED_IN" =>
               booking'[b].status \in {"CHECKED_IN", "CHECKED_OUT"}
      <3>1. CASE UNCHANGED Contract!vars
        BY <3>1 DEF Contract!vars
      <3>2. CASE Contract!OwnerChanges
        BY <3>2 DEF Contract!OwnerChanges
      <3>3. ASSUME NEW S \in SUBSET Bookings, Contract!Cancel(S)
            PROVE  /\ booking'[b].payStatus = booking[b].payStatus
                   /\ booking[b].status = "CHECKED_IN" => booking'[b].status = "CHECKED_IN"
        BY <3>3 DEF Contract!Cancel
      <3>4. ASSUME NEW s \in Bookings,
                   \/ Contract!Hold(s) \/ Contract!Confirm(s) \/ Contract!CheckIn(s)
                   \/ Contract!CheckOut(s)
            PROVE  /\ booking'[b].payStatus = booking[b].payStatus
                   /\ booking[b].status = "CHECKED_IN" =>
                        booking'[b].status \in {"CHECKED_IN", "CHECKED_OUT"}
        BY <3>4 DEF Contract!Hold, Contract!Confirm, Contract!CheckIn, Contract!CheckOut
      <3>5. ASSUME NEW s \in Bookings, Contract!Pay(s)
            PROVE  /\ booking[b].payStatus = "PAID" => booking'[b].payStatus = "PAID"
                   /\ booking[b].status = "CHECKED_IN" => booking'[b].status = "CHECKED_IN"
        BY <3>5 DEF Contract!Pay
      <3>6. ASSUME NEW s \in Bookings, Contract!Refund(s)
            PROVE  /\ booking[b].payStatus = "PAID" => booking'[b].payStatus \in {"PAID", "REFUNDED"}
                   /\ booking[b].status = "CHECKED_IN" => booking'[b].status = "CHECKED_IN"
        BY <3>6 DEF Contract!Refund
      <3> QED BY <1>1, <3>1, <3>2, <3>3, <3>4, <3>5, <3>6 DEF Contract!Next
    <2>3. booking[b].payStatus = "PAID" =>
            booking[b].accepted # None /\ booking'[b].accepted = booking[b].accepted
      BY <1>1, <2>1, IdentifierAssumption DEF BookingMoney, PaymentsOf
    <2> QED BY <2>1, <2>2, <2>3 DEF BookingMoney
  <1>2. TypeOK /\ MoneyInvariant /\ MoneyInvariant' /\ [Next]_vars /\ [Fixed]_vars => [Honoured]_vars
    BY <1>1, ContractStep
  <1>3. Spec => [][Fixed]_vars
    BY AcceptedPaymentIsFixed DEF AcceptedPaymentFixed
  <1> QED BY <1>2, <1>3, TypeCorrect, MoneyInOrder, PTL DEF Spec, PaidStayIsHonoured

=============================================================================
