--------------------------- MODULE PaymentRequests ---------------------------
(***************************************************************************)
(* Requests that create a payment or refund one, with the Idempotency-Keys *)
(* that make them safe to send again.  Requests about one booking take     *)
(* turns at its row; only the unique keys see across bookings, and a key   *)
(* that is free when it is looked up may be taken when the row is written. *)
(*                                                                         *)
(* Identical questions are one request sent twice.  What acceptance and    *)
(* refunds do to a booking in detail is the matter of BookingPayment.      *)
(***************************************************************************)
EXTENDS Integers, FiniteSets

CONSTANTS
  PayBookings, PayCustomers, PayStaff, PayKeys,
  PayRequests,    \* a payment has the name of the request that creates it
  PayAsk,         \* what each request asks for
  PayArrivals,    \* the sets of requests that may arrive together
  BookedBy,       \* the customer of each booking
  NoPayment, NoRefund, NoKey, NoActor

\* refund() and resolveDuplicateCharge()
RefundKinds == {"refund", "duplicate"}

PayQuestion ==
  [kind : {"vnpay", "manual"} \cup RefundKinds,
   actor : PayCustomers \cup PayStaff, booking : PayBookings,
   payment : PayRequests \cup {NoPayment}, key : PayKeys,
   method : {"VNPAY", "CASH", "BANK_TRANSFER"}]

\* EXPIRED is a payment that has FAILED because its time was over.
PayStatuses == {"PENDING", "SUCCESS", "FAILED", "EXPIRED", "REQUIRES_REVIEW", "REFUND_PENDING", "REFUNDED"}
PayRow ==
  [booking : PayBookings, method : {"VNPAY", "CASH", "BANK_TRANSFER"}, status : PayStatuses,
   key : PayKeys, by : PayStaff \cup {NoActor}]
RefundRow == [key : PayKeys \cup {NoKey}, before : PayStatuses, refused : BOOLEAN]

\* The answers that are not a payment.
NoPaymentReplies == {"none", "notFound", "refused", "denied", "rejected", "tooLate", "unknown", "error"}

ASSUME PaymentRequestsAssumption ==
  /\ BookedBy \in [PayBookings -> PayCustomers]
  /\ NoActor \notin PayCustomers \cup PayStaff /\ NoPayment \notin PayRequests /\ NoKey \notin PayKeys
  /\ NoPayment \notin PayRow /\ NoRefund \notin RefundRow /\ PayRequests \cap NoPaymentReplies = {}
  /\ PayArrivals \subseteq SUBSET PayRequests
  /\ \A r \in PayRequests :
       /\ PayAsk[r] \in PayQuestion
       /\ PayAsk[r].kind \in RefundKinds <=> PayAsk[r].payment # NoPayment
       /\ PayAsk[r].kind = "vnpay" => PayAsk[r].method = "VNPAY"
       /\ PayAsk[r].kind = "manual" => PayAsk[r].method # "VNPAY" /\ PayAsk[r].actor \in PayStaff

VARIABLES
  payRow,     \* the committed payments
  refundRow,  \* the committed refunds of the payments
  payable,    \* whether each booking can still accept a payment
  overdue,    \* the attempts whose time is over
  acceptedPayment,  \* the payment each booking has accepted
  canonicalOf,      \* the accepted payment that a payment under review repeats
  payHolder,  \* the request whose transaction holds each booking
  payStage,   \* how far each request has come
  payReply    \* what each request has been answered

requestVars ==
  <<payRow, refundRow, payable, overdue, acceptedPayment, canonicalOf, payHolder, payStage, payReply>>

RequestsInitWith(arriving) ==
  /\ payRow = [p \in PayRequests |-> NoPayment]
  /\ refundRow = [p \in PayRequests |-> NoRefund]
  /\ payable = [b \in PayBookings |-> TRUE]
  /\ overdue = {}
  /\ acceptedPayment = [b \in PayBookings |-> NoPayment]
  /\ canonicalOf = [p \in PayRequests |-> NoPayment]
  /\ payHolder = [b \in PayBookings |-> NoPayment]
  /\ payStage = [r \in PayRequests |-> IF r \in arriving THEN "new" ELSE "absent"]
  /\ payReply = [r \in PayRequests |-> "none"]

RequestsInit == \E arriving \in PayArrivals : RequestsInitWith(arriving)

-----------------------------------------------------------------------------
(* Transactions *)

PayAt(r, kinds, where) == PayAsk[r].kind \in kinds /\ payStage[r] = where

\* The booking a request is about; a refund has read its payment before.
BookingOf(r) ==
  IF PayAsk[r].payment = NoPayment THEN PayAsk[r].booking ELSE payRow[PayAsk[r].payment].booking

Unlock(r) == payHolder' = [b \in PayBookings |-> IF payHolder[b] = r THEN NoPayment ELSE payHolder[b]]

GoTo(r, where) == payStage' = [payStage EXCEPT ![r] = where]

\* The transaction of the request is over and it is answered.
Reply(r, reply) ==
  /\ Unlock(r) /\ GoTo(r, "done")
  /\ payReply' = [payReply EXCEPT ![r] = reply]

BookingIsFree(b) == payHolder[b] = NoPayment

\* lockBooking(): the booking is read and held.
LockPayBooking(r) ==
  /\ BookingIsFree(BookingOf(r))
  /\ payHolder' = [payHolder EXCEPT ![BookingOf(r)] = r]
  /\ GoTo(r, "locked")
  /\ UNCHANGED payReply

\* A transaction fails and is rolled back: a deadlock, a lost connection.
PayFails(r) ==
  /\ payStage[r] \in {"locked", "free", "written"}
  /\ Reply(r, "error")
  /\ UNCHANGED <<payRow, refundRow, payable, overdue, acceptedPayment, canonicalOf>>

\* Another transaction has written the key and not yet committed.
KeyIsBeingWritten(r, kinds) ==
  \E s \in PayRequests \ {r} : PayAt(s, kinds, "written") /\ PayAsk[s].key = PayAsk[r].key

-----------------------------------------------------------------------------
(* Payments *)

LockForPayment(r) ==
  /\ PayAt(r, {"vnpay", "manual"}, "new")
  /\ IF PayAsk[r].kind = "vnpay" /\ BookedBy[PayAsk[r].booking] # PayAsk[r].actor
     THEN Reply(r, "notFound")
     ELSE LockPayBooking(r)
  /\ UNCHANGED <<payRow, refundRow, payable, overdue, acceptedPayment, canonicalOf>>

\* findByIdempotencyKey() and its snapshot form: the unique key has one payment.
PaymentsOfKey(key) == {p \in PayRequests : payRow[p] # NoPayment /\ payRow[p].key = key}

NewPayment(r) ==
  LET q == PayAsk[r] IN
  [booking |-> q.booking, method |-> q.method, key |-> q.key,
   status |-> IF q.kind = "vnpay" THEN "PENDING" ELSE "SUCCESS",
   by |-> IF q.kind = "vnpay" THEN NoActor ELSE q.actor]

\* Mutant of IsReplay: a customer's key answers for each of his bookings.
IsReplayOfCustomer(r, p) ==
  payRow[p].method = NewPayment(r).method /\ payRow[p].by = NewPayment(r).by

\* assertIdempotentReplay() of both services.
IsReplay(r, p) ==
  /\ payRow[p].booking = NewPayment(r).booking
  /\ payRow[p].method = NewPayment(r).method
  /\ payRow[p].by = NewPayment(r).by

\* The key has a payment: it is the answer, or the key is another request's.
ReplyFromKey(r) ==
  \E p \in PaymentsOfKey(PayAsk[r].key) : Reply(r, IF IsReplay(r, p) THEN p ELSE "refused")

IsAttempt(p, b) ==
  payRow[p] # NoPayment /\ payRow[p].booking = b /\ payRow[p].method = "VNPAY" /\ payRow[p].status = "PENDING"

\* An attempt that is not overdue; the others are closed first.
HasPendingOnlineAttempt(b) == \E p \in PayRequests \ overdue : IsAttempt(p, b)

\* Mutant of LookUpKey: the booking is asked before the key.
LookUpKeyLast(r) ==
  /\ PayAt(r, {"vnpay", "manual"}, "locked")
  /\ IF HasPendingOnlineAttempt(PayAsk[r].booking) \/ ~payable[PayAsk[r].booking]
     THEN Reply(r, "refused")
     ELSE IF PaymentsOfKey(PayAsk[r].key) # {}
     THEN ReplyFromKey(r)
     ELSE GoTo(r, "free") /\ UNCHANGED <<payHolder, payReply>>
  /\ UNCHANGED <<payRow, refundRow, payable, overdue, acceptedPayment, canonicalOf>>

LookUpKey(r) ==
  /\ PayAt(r, {"vnpay", "manual"}, "locked")
  /\ IF PaymentsOfKey(PayAsk[r].key) # {}
     THEN ReplyFromKey(r)
     ELSE IF HasPendingOnlineAttempt(PayAsk[r].booking) \/ ~payable[PayAsk[r].booking]
     THEN Reply(r, "refused")
     ELSE GoTo(r, "free") /\ UNCHANGED <<payHolder, payReply>>
  /\ UNCHANGED <<payRow, refundRow, payable, overdue, acceptedPayment, canonicalOf>>

\* createPayment(): the key has been taken meanwhile, for another booking.
CreatePayment(r) ==
  /\ PayAt(r, {"vnpay", "manual"}, "free")
  /\ ~KeyIsBeingWritten(r, {"vnpay", "manual"})
  /\ IF PaymentsOfKey(PayAsk[r].key) # {}
     THEN Unlock(r) /\ GoTo(r, "taken")
     ELSE GoTo(r, "written") /\ UNCHANGED payHolder
  /\ UNCHANGED <<payRow, refundRow, payable, overdue, acceptedPayment, canonicalOf, payReply>>

\* resolveIdempotencyConflict(), after the rollback.
ResolveIdempotencyConflict(r) ==
  /\ payStage[r] = "taken"
  /\ ReplyFromKey(r)
  /\ UNCHANGED <<payRow, refundRow, payable, overdue, acceptedPayment, canonicalOf>>

ClosedAttempts(b) == {p \in overdue : IsAttempt(p, b)}

\* The transaction commits: overdue attempts are closed, the payment is there
\* and, if it is manual, accepted.  The client may never hear of it.
CommitPayment(r) ==
  /\ PayAt(r, {"vnpay", "manual"}, "written")
  /\ payRow' = [p \in PayRequests |->
                  IF p = r THEN NewPayment(r)
                  ELSE IF p \in ClosedAttempts(PayAsk[r].booking)
                  THEN [payRow[p] EXCEPT !.status = "EXPIRED"]
                  ELSE payRow[p]]
  /\ acceptedPayment' = [acceptedPayment EXCEPT ![PayAsk[r].booking] = IF PayAsk[r].kind = "manual" THEN r ELSE @]
  /\ payable' = [payable EXCEPT ![PayAsk[r].booking] = @ /\ PayAsk[r].kind = "vnpay"]
  /\ \E reply \in {r, "error"} : Reply(r, reply)
  /\ UNCHANGED <<refundRow, overdue, canonicalOf>>

-----------------------------------------------------------------------------
(* Refunds *)

IsVnPay(p) == payRow[p].method = "VNPAY"

\* refund(), resolveDuplicateCharge(): the payment is read without a lock to
\* learn its method.
LockForRefund(r) ==
  /\ PayAt(r, RefundKinds, "new")
  /\ payRow[PayAsk[r].payment] # NoPayment
  /\ IF PayAsk[r].kind = "duplicate" /\ ~IsVnPay(PayAsk[r].payment)
     THEN Reply(r, "denied")
     ELSE LockPayBooking(r)
  /\ UNCHANGED <<payRow, refundRow, payable, overdue, acceptedPayment, canonicalOf>>

\* findByRefundIdempotencyKey()
RefundsOfKey(key) == {p \in PayRequests : refundRow[p] # NoRefund /\ refundRow[p].key = key}

\* detectDuplicateChargeRefund(): the payment is to be reviewed, or was when
\* its refund began, because another one had been accepted.
IsDuplicateCharge(p) ==
  /\ canonicalOf[p] # NoPayment
  /\ \/ payRow[p].status = "REQUIRES_REVIEW"
     \/ payRow[p].status \in {"REFUND_PENDING", "REFUNDED"} /\ refundRow[p].before = "REQUIRES_REVIEW"

\* lockCanonicalPayment(), which asks before the key is looked at.
MayResolve(p) == IsDuplicateCharge(p) /\ payRow[canonicalOf[p]].status = "SUCCESS"

\* prepareVnPayRefund() up to the write of the refund, which the booking and
\* the payment may not allow.
PrepareVnPayRefund(r) ==
  /\ PayAt(r, RefundKinds, "locked") /\ IsVnPay(PayAsk[r].payment)
  /\ LET p == PayAsk[r].payment
         sameKey == refundRow[p] # NoRefund /\ refundRow[p].key = PayAsk[r].key
     IN CASE PayAsk[r].kind = "duplicate" /\ ~MayResolve(p) -> Reply(r, "denied")
          [] PayAsk[r].kind = "duplicate" => MayResolve(p) ->
             CASE RefundsOfKey(PayAsk[r].key) \ {p} # {} -> Reply(r, "refused")
               [] RefundsOfKey(PayAsk[r].key) \ {p} = {} /\ payRow[p].status = "REFUNDED" -> Reply(r, p)
               [] RefundsOfKey(PayAsk[r].key) \ {p} = {} /\ payRow[p].status = "REFUND_PENDING" ->
                    IF sameKey
                    THEN Unlock(r) /\ GoTo(r, "reconciling") /\ UNCHANGED payReply
                    ELSE Reply(r, "refused")
               [] RefundsOfKey(PayAsk[r].key) \ {p} = {} /\ payRow[p].status \notin {"REFUNDED", "REFUND_PENDING"} ->
                    \/ /\ refundRow[p] # NoRefund
                       /\ Reply(r, IF sameKey /\ refundRow[p].refused THEN "rejected" ELSE "refused")
                    \/ /\ refundRow[p] = NoRefund /\ payRow[p].status \in {"SUCCESS", "REQUIRES_REVIEW"}
                       /\ GoTo(r, "free") /\ UNCHANGED <<payHolder, payReply>>
                    \/ refundRow[p] = NoRefund /\ Reply(r, "refused")
  /\ UNCHANGED <<payRow, refundRow, payable, overdue, acceptedPayment, canonicalOf>>

\* createRefund(): the key has been taken meanwhile, for another payment.
CreateRefund(r) ==
  /\ PayAt(r, RefundKinds, "free")
  /\ ~KeyIsBeingWritten(r, RefundKinds)
  /\ IF RefundsOfKey(PayAsk[r].key) # {}
     THEN Reply(r, "refused")
     ELSE GoTo(r, "written") /\ UNCHANGED <<payHolder, payReply>>
  /\ UNCHANGED <<payRow, refundRow, payable, overdue, acceptedPayment, canonicalOf>>

CommitRefund(r) ==
  /\ PayAt(r, RefundKinds, "written")
  /\ LET p == PayAsk[r].payment
     IN /\ refundRow' = [refundRow EXCEPT ![p] = [key |-> PayAsk[r].key, before |-> payRow[p].status, refused |-> FALSE]]
        /\ payRow' = [payRow EXCEPT ![p].status = "REFUND_PENDING"]
  /\ \/ Reply(r, "error")
     \/ Unlock(r) /\ GoTo(r, "sending") /\ UNCHANGED payReply
  /\ UNCHANGED <<payable, overdue, acceptedPayment, canonicalOf>>

\* What the answer of VNPay may do to a pending refund: nothing, complete it,
\* or refuse it, which restores the payment and keeps the refund.
Outcomes(p) ==
  {[status |-> payRow[p].status, refund |-> refundRow[p]],
   [status |-> "REFUNDED", refund |-> refundRow[p]],
   [status |-> refundRow[p].before, refund |-> [refundRow[p] EXCEPT !.refused = TRUE]]}

\* applyVnPayRefundResult(): the answer to the refund command.  One that VNPay
\* has accepted and not yet carried out is answered with the pending payment.
ApplyRefundResult(r) ==
  LET p == PayAsk[r].payment IN
  /\ payStage[r] = "sending"
  /\ BookingIsFree(payRow[p].booking)
  /\ IF payRow[p].status # "REFUND_PENDING"
     THEN /\ Reply(r, IF payRow[p].status = "REFUNDED" THEN p ELSE "tooLate")
          /\ UNCHANGED <<payRow, refundRow>>
     ELSE \E o \in Outcomes(p) :
            /\ payRow' = [payRow EXCEPT ![p].status = o.status]
            /\ refundRow' = [refundRow EXCEPT ![p] = o.refund]
            /\ \E reply \in CASE o.status = "REFUND_PENDING" -> {p, "unknown"}
                              [] o.status = "REFUNDED" -> {p}
                              [] OTHER -> {"rejected"} : Reply(r, reply)
  /\ UNCHANGED <<payable, overdue, acceptedPayment, canonicalOf>>

\* reconcileVnPayRefund(): the payment is read without a lock ...
Reconcile(r) ==
  /\ payStage[r] = "reconciling"
  /\ IF payRow[PayAsk[r].payment].status # "REFUND_PENDING"
     THEN Reply(r, "tooLate")
     ELSE GoTo(r, "querying") /\ UNCHANGED <<payHolder, payReply>>
  /\ UNCHANGED <<payRow, refundRow, payable, overdue, acceptedPayment, canonicalOf>>

\* ... and applyVnPayReconciliation() does nothing when it is late.  The answer
\* is the payment as it is then, unless VNPay's cannot be had or trusted.
ApplyReconciliation(r) ==
  LET p == PayAsk[r].payment IN
  /\ payStage[r] = "querying"
  /\ BookingIsFree(payRow[p].booking)
  /\ \/ /\ payRow[p].status = "REFUND_PENDING"
        /\ \E o \in Outcomes(p) :
             /\ payRow' = [payRow EXCEPT ![p].status = o.status]
             /\ refundRow' = [refundRow EXCEPT ![p] = o.refund]
        /\ Reply(r, p)
     \/ /\ \E reply \in {p, "unknown"} : Reply(r, reply)
        /\ UNCHANGED <<payRow, refundRow>>
  /\ UNCHANGED <<payable, overdue, acceptedPayment, canonicalOf>>

\* refundManual(): the lock of the booking is all that a repetition needs.
RefundManual(r) ==
  LET p == PayAsk[r].payment IN
  /\ PayAt(r, RefundKinds, "locked") /\ ~IsVnPay(p)
  /\ \/ payRow[p].status = "REFUNDED" /\ Reply(r, p) /\ UNCHANGED <<payRow, refundRow>>
     \/ /\ payRow[p].status = "SUCCESS"
        /\ payRow' = [payRow EXCEPT ![p].status = "REFUNDED"]
        /\ refundRow' = [refundRow EXCEPT ![p] = [key |-> NoKey, before |-> payRow[p].status, refused |-> FALSE]]
        /\ \E reply \in {p, "error"} : Reply(r, reply)
     \/ payRow[p].status # "REFUNDED" /\ Reply(r, "refused") /\ UNCHANGED <<payRow, refundRow>>
  /\ UNCHANGED <<payable, overdue, acceptedPayment, canonicalOf>>

-----------------------------------------------------------------------------
(* The world: VNPay tells what became of an attempt; time passes. *)

\* A full refund of the payment a booking has accepted cancels the booking.
BookingIsRefunded(b) == acceptedPayment[b] # NoPayment /\ payRow[acceptedPayment[b]].status = "REFUNDED"

\* A success is accepted, or kept for a review beside the payment that was.
AttemptSucceeds(p) ==
  LET b == payRow[p].booking IN
  \/ /\ payable[b]
     /\ payRow' = [payRow EXCEPT ![p].status = "SUCCESS"]
     /\ payable' = [payable EXCEPT ![b] = FALSE]
     /\ acceptedPayment' = [acceptedPayment EXCEPT ![b] = p]
     /\ UNCHANGED canonicalOf
  \/ /\ ~payable[b]
     /\ payRow' = [payRow EXCEPT ![p].status = "REQUIRES_REVIEW"]
     /\ canonicalOf' = [canonicalOf EXCEPT ![p] = IF BookingIsRefunded(b) THEN NoPayment ELSE acceptedPayment[b]]
     /\ UNCHANGED <<payable, acceptedPayment>>

\* A success counts even for an attempt that has been closed.
AttemptDecided(p) ==
  /\ payRow[p] # NoPayment /\ IsVnPay(p) /\ BookingIsFree(payRow[p].booking)
  /\ payRow[p].status \in {"PENDING", "EXPIRED"}
  /\ \/ AttemptSucceeds(p)
     \/ /\ payRow[p].status = "PENDING"
        /\ payRow' = [payRow EXCEPT ![p].status = "FAILED"]
        /\ UNCHANGED <<payable, acceptedPayment, canonicalOf>>
  /\ UNCHANGED <<refundRow, overdue, payHolder, payStage, payReply>>

AttemptOverdue(p) ==
  /\ payRow[p] # NoPayment /\ IsAttempt(p, payRow[p].booking) /\ p \notin overdue
  /\ overdue' = overdue \cup {p}
  /\ UNCHANGED <<payRow, refundRow, payable, acceptedPayment, canonicalOf, payHolder, payStage, payReply>>

BookingClosed(b) ==
  /\ payable[b] /\ BookingIsFree(b)
  /\ payable' = [payable EXCEPT ![b] = FALSE]
  /\ UNCHANGED <<payRow, refundRow, overdue, acceptedPayment, canonicalOf, payHolder, payStage, payReply>>

RequestsNext ==
  \/ \E r \in PayRequests :
       \/ PayFails(r)
       \/ LockForPayment(r) \/ LookUpKey(r) \/ CreatePayment(r)
       \/ ResolveIdempotencyConflict(r) \/ CommitPayment(r)
       \/ LockForRefund(r) \/ PrepareVnPayRefund(r) \/ CreateRefund(r) \/ CommitRefund(r)
       \/ ApplyRefundResult(r) \/ Reconcile(r) \/ ApplyReconciliation(r) \/ RefundManual(r)
       \/ AttemptDecided(r) \/ AttemptOverdue(r)
  \/ \E b \in PayBookings : BookingClosed(b)

RequestsSpec == RequestsInit /\ [][RequestsNext]_requestVars

-----------------------------------------------------------------------------
(* Properties *)

\* The types of the state.
RequestsTypeOK ==
  /\ payRow \in [PayRequests -> PayRow \cup {NoPayment}]
  /\ refundRow \in [PayRequests -> RefundRow \cup {NoRefund}]
  /\ payable \in [PayBookings -> BOOLEAN] /\ overdue \subseteq PayRequests
  /\ acceptedPayment \in [PayBookings -> PayRequests \cup {NoPayment}]
  /\ canonicalOf \in [PayRequests -> PayRequests \cup {NoPayment}]
  /\ payHolder \in [PayBookings -> PayRequests \cup {NoPayment}]
  /\ payStage \in [PayRequests -> {"absent", "new", "locked", "free", "written", "taken",
                                   "sending", "reconciling", "querying", "done"}]
  /\ payReply \in [PayRequests -> NoPaymentReplies \cup PayRequests]

\* Two requests are one, sent twice.
Identical(r, s) == PayAsk[r] = PayAsk[s]

\* A payment comes into being once per key, and whoever is answered with a
\* payment has asked for it, with its key, for its booking, by its method and
\* as its author (README.md:27).
KeysAnswerOnce ==
  /\ \A p, q \in PayRequests : payRow[p] # NoPayment /\ payRow[q] # NoPayment /\ payRow[p].key = payRow[q].key => p = q
  /\ \A r \in PayRequests : PayAsk[r].payment = NoPayment /\ payReply[r] \in PayRequests =>
       LET p == payReply[r]
       IN /\ payRow[p] # NoPayment /\ payRow[p].key = PayAsk[r].key
          /\ payRow[p].booking = PayAsk[r].booking /\ payRow[p].method = PayAsk[r].method
          /\ PayAsk[p].actor = PayAsk[r].actor

\* A request is refused only when nothing has been recorded for it: no payment
\* that an identical request has made, and no refund it might have asked for
\* that is complete or waits for VNPay.  A request to resolve a duplicate charge
\* is an exception: it is denied, whatever it has recorded before, once the
\* payment that was accepted is itself being refunded, and only then if the
\* charge was a duplicate (payment-refund.service.ts:401-403, 712-738).
RefusalsAreTrue ==
  [][\A r \in PayRequests : payReply[r] = "none" /\ payReply'[r] \in {"refused", "denied"} =>
       LET p == PayAsk[r].payment IN
       IF p = NoPayment
       THEN \A s \in PayRequests : Identical(r, s) => payRow[s] = NoPayment
       ELSE IF payReply'[r] = "denied"
       THEN canonicalOf[p] # NoPayment => payRow[canonicalOf[p]].status \in {"REFUND_PENDING", "REFUNDED"}
       ELSE /\ payRow[p].status = "REFUNDED" => IsVnPay(p) /\ RefundsOfKey(PayAsk[r].key) \ {p} # {}
            /\ IsVnPay(p) /\ refundRow[p] # NoRefund /\ refundRow[p].key = PayAsk[r].key => refundRow[p].refused
    ]_requestVars
=============================================================================
