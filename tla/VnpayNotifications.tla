------------------------- MODULE VnpayNotifications -------------------------
(***************************************************************************)
(* The notifications (IPN) by which VNPay tells the outcome of an attempt  *)
(* to pay, statement by statement, and the code they are answered with.    *)
(* VNPay repeats a notification until it gets an answer that says the      *)
(* outcome is known; a notification may be handled several times at once,  *)
(* a statement may fail, COMMIT or the answer may be lost, and the process *)
(* may die.  What the outcome does to booking and money is modelled in     *)
(* BookingPayment; here one booking has several attempts.                  *)
(***************************************************************************)
EXTENDS Integers, FiniteSets

CONSTANTS
  Attempts,    \* the attempts to pay one booking by VNPay
  Handlings,   \* the requests that may be under way at a time
  NoHandling, NoAttempt

ASSUME NotificationsAssumption == NoHandling \notin Handlings /\ NoAttempt \notin Attempts

\* What else may reach the endpoint: a request with a wrong signature, one
\* that lacks a field or the date of a payment, one for a reference of no
\* attempt, and one with another amount.
OddNotices == {"unsigned", "incomplete", "unknown", "amount"}

VARIABLES
  outcome,        \* what became of each attempt at VNPay
  attempt,        \* the status of each attempt and the code it was closed with
  bookingState,   \* the booking: its status and its accepted attempt
  lockedBy,       \* the handling whose transaction holds booking and attempts
  handling,       \* the requests: notice, attempt, stage and code of the answer
  told            \* the attempts of which VNPay has an answer that ends its retries

noticeVars == <<outcome, attempt, bookingState, lockedBy, handling, told>>

IdleHandling == [notice |-> "none", attempt |-> NoAttempt, stage |-> "idle", code |-> "none"]

NoticesInit ==
  /\ outcome = [a \in Attempts |-> "open"]
  /\ attempt = [a \in Attempts |-> [status |-> "PENDING", code |-> "none"]]
  /\ bookingState = [status |-> "PENDING_PAYMENT", accepted |-> NoAttempt]
  /\ lockedBy = NoHandling
  /\ handling = [h \in Handlings |-> IdleHandling]
  /\ told = {}

-----------------------------------------------------------------------------
\* The customer pays or gives up; VNPay decides each reference once.
Decide(a) ==
  /\ outcome[a] = "open"
  /\ \E result \in {"paid", "declined"} : outcome' = [outcome EXCEPT ![a] = result]
  /\ UNCHANGED <<attempt, bookingState, lockedBy, handling, told>>

\* The answer to a notification that is turned away before anything is read.
InvalidCode(notice) == IF notice = "unsigned" THEN "97" ELSE "99"

\* The answer says what became of the notification.
ResponseCode(result) ==
  CASE result = "NOT_FOUND" -> "01"
    [] result = "INVALID_AMOUNT" -> "04"
    [] result = "ALREADY_PROCESSED" -> "02"
    [] result = "ERROR" -> "99"
    [] result \in {"PROCESSED", "REQUIRES_REVIEW"} -> "00"

\* VNPay sends the outcome of an attempt until it has been told.  Signature
\* and fields are checked before anything is read.
Receive(h, a) ==
  /\ handling[h].stage = "idle"
  /\ outcome[a] # "open" /\ a \notin told
  /\ handling' = [handling EXCEPT ![h] = [notice |-> "outcome", attempt |-> a,
                                          stage |-> "validated", code |-> "none"]]
  /\ UNCHANGED <<outcome, attempt, bookingState, lockedBy, told>>

ReceiveOdd(h, notice) ==
  /\ handling[h].stage = "idle"
  /\ handling' = [handling EXCEPT ![h] =
       IF notice \in {"unsigned", "incomplete"}
       THEN [IdleHandling EXCEPT !.notice = notice, !.stage = "answering", !.code = InvalidCode(notice)]
       ELSE [IdleHandling EXCEPT !.notice = notice, !.stage = "validated"]]
  /\ UNCHANGED <<outcome, attempt, bookingState, lockedBy, told>>

Reach(h, stage) == handling' = [handling EXCEPT ![h].stage = stage]

AnswerWith(h, result) ==
  handling' = [handling EXCEPT ![h].stage = "answering", ![h].code = ResponseCode(result)]

\* The attempt is looked up before the transaction.
FindSnapshot(h) ==
  /\ handling[h].stage = "validated"
  /\ CASE handling[h].notice = "unknown" -> AnswerWith(h, "NOT_FOUND")
       [] handling[h].notice = "amount" -> AnswerWith(h, "INVALID_AMOUNT")
       [] OTHER -> Reach(h, "found")
  /\ UNCHANGED <<outcome, attempt, bookingState, lockedBy, told>>

LockBookingAndAttempt(h) ==
  /\ handling[h].stage = "found" /\ lockedBy = NoHandling
  /\ lockedBy' = h
  /\ Reach(h, "locked")
  /\ UNCHANGED <<outcome, attempt, bookingState, told>>

\* Mutant of LateSuccess: an attempt that was closed stays closed.
NeverLate(a) == a = NoAttempt

\* A success is taken although the attempt was closed without VNPay.
LateSuccess(a) ==
  outcome[a] = "paid" /\ attempt[a].status = "FAILED" /\ attempt[a].code \in {"EXPIRED", "CANCELLED"}

AlreadyProcessed(a) == attempt[a].status # "PENDING" /\ ~LateSuccess(a)

\* The status of an attempt that succeeded: another accepted attempt or a
\* cancelled booking leave it to be reviewed.
ReviewNeeded(a) ==
  \/ bookingState.status = "CANCELLED"
  \/ bookingState.accepted \notin {NoAttempt, a}
  \/ \E b \in Attempts \ {a} : attempt[b].status = "SUCCESS"

RecordOutcome(a) ==
  IF outcome[a] = "declined"
  THEN /\ attempt' = [attempt EXCEPT ![a] = [status |-> "FAILED", code |-> "GATEWAY"]]
       /\ UNCHANGED bookingState
  ELSE IF ReviewNeeded(a)
  THEN /\ attempt' = [attempt EXCEPT ![a] = [status |-> "REQUIRES_REVIEW", code |-> "GATEWAY"]]
       /\ UNCHANGED bookingState
  ELSE /\ attempt' = [attempt EXCEPT ![a] = [status |-> "SUCCESS", code |-> "GATEWAY"]]
       /\ bookingState' = [status |-> "CONFIRMED", accepted |-> a]

ResultOf(a) == IF outcome[a] = "paid" /\ ReviewNeeded(a) THEN "REQUIRES_REVIEW" ELSE "PROCESSED"

\* The locked rows decide.  When COMMIT is not answered the outcome has been
\* recorded all the same, or HandlingFails() describes what happened.
ProcessCallback(h) ==
  /\ handling[h].stage = "locked"
  /\ LET a == handling[h].attempt
     IN IF AlreadyProcessed(a)
        THEN AnswerWith(h, "ALREADY_PROCESSED") /\ UNCHANGED <<attempt, bookingState>>
        ELSE \/ RecordOutcome(a) /\ AnswerWith(h, ResultOf(a))
             \/ RecordOutcome(a) /\ AnswerWith(h, "ERROR")
  /\ lockedBy' = NoHandling
  /\ UNCHANGED <<outcome, told>>

\* A statement fails and the transaction is rolled back.
HandlingFails(h) ==
  /\ handling[h].stage \in {"validated", "found", "locked"}
  /\ AnswerWith(h, "ERROR")
  /\ lockedBy' = IF lockedBy = h THEN NoHandling ELSE lockedBy
  /\ UNCHANGED <<outcome, attempt, bookingState, told>>

\* The codes after which VNPay does not repeat the notification.
FinalCodes == {"00", "02"}

\* The answer is sent; it may be lost on the way.
Respond(h) ==
  /\ handling[h].stage = "answering"
  /\ \/ UNCHANGED told
     \/ /\ handling[h].notice = "outcome" /\ handling[h].code \in FinalCodes
        /\ told' = told \cup {handling[h].attempt}
  /\ handling' = [handling EXCEPT ![h] = IdleHandling]
  /\ UNCHANGED <<outcome, attempt, bookingState, lockedBy>>

-----------------------------------------------------------------------------
\* The cron closes an overdue attempt.
ExpireAttempt(a) ==
  /\ lockedBy = NoHandling
  /\ attempt[a].status = "PENDING"
  /\ attempt' = [attempt EXCEPT ![a] = [status |-> "FAILED", code |-> "EXPIRED"]]
  /\ UNCHANGED <<outcome, bookingState, lockedBy, handling, told>>

\* The booking is cancelled or expires, and its open attempts with it.
CloseBooking(code) ==
  /\ lockedBy = NoHandling
  /\ bookingState.status = "PENDING_PAYMENT"
  /\ bookingState' = [bookingState EXCEPT !.status = "CANCELLED"]
  /\ attempt' = [a \in Attempts |-> IF attempt[a].status = "PENDING"
                                    THEN [status |-> "FAILED", code |-> code] ELSE attempt[a]]
  /\ UNCHANGED <<outcome, lockedBy, handling, told>>

ProcessDies ==
  /\ handling' = [h \in Handlings |-> IdleHandling]
  /\ lockedBy' = NoHandling
  /\ UNCHANGED <<outcome, attempt, bookingState, told>>

NoticesNext ==
  \/ \E a \in Attempts : Decide(a) \/ ExpireAttempt(a)
  \/ \E h \in Handlings :
       \/ \E a \in Attempts : Receive(h, a)
       \/ \E notice \in OddNotices : ReceiveOdd(h, notice)
       \/ FindSnapshot(h) \/ LockBookingAndAttempt(h) \/ ProcessCallback(h)
       \/ HandlingFails(h) \/ Respond(h)
  \/ \E code \in {"EXPIRED", "CANCELLED"} : CloseBooking(code)
  \/ ProcessDies

NoticesSpec == NoticesInit /\ [][NoticesNext]_noticeVars

-----------------------------------------------------------------------------
(* Properties *)

\* The types of the state.
NoticesTypeOK ==
  /\ outcome \in [Attempts -> {"open", "paid", "declined"}]
  /\ attempt \in [Attempts -> [status : {"PENDING", "SUCCESS", "REQUIRES_REVIEW", "FAILED"},
                               code : {"none", "GATEWAY", "EXPIRED", "CANCELLED"}]]
  /\ bookingState \in [status : {"PENDING_PAYMENT", "CONFIRMED", "CANCELLED"},
                       accepted : Attempts \cup {NoAttempt}]
  /\ lockedBy \in Handlings \cup {NoHandling}
  /\ handling \in [Handlings -> [notice : OddNotices \cup {"none", "outcome"},
                                 attempt : Attempts \cup {NoAttempt},
                                 stage : {"idle", "validated", "found", "locked", "answering"},
                                 code : {"none", "00", "01", "02", "04", "97", "99"}]]
  /\ told \subseteq Attempts

\* VNPay stops repeating a notification only when its outcome is on record,
\* whatever closed the attempt before, failed, crashed or was lost: money
\* taken is a payment or under review, and at most one attempt is accepted.
ToldMeansRecorded ==
  /\ \A a \in told :
       IF outcome[a] = "paid" THEN attempt[a].status \in {"SUCCESS", "REQUIRES_REVIEW"}
                              ELSE attempt[a].status = "FAILED"
  /\ \A a \in Attempts : attempt[a].status = "SUCCESS" <=> bookingState.accepted = a
=============================================================================
