-------------------------- MODULE BackofficeProofs --------------------------
(***************************************************************************)
(* What holds of the small components for any number of requests,          *)
(* connections and clock ticks: notifications of VNPay, the health probe,  *)
(* payment and refund requests with their keys, the rate limit, and the    *)
(* inbox.  Each section proves one of them from its own specification.     *)
(***************************************************************************)
EXTENDS VnpayNotifications, HealthProbe, PaymentRequests, RateLimiter, ChatInbox, FiniteSetTheorems,
        WellFoundedInduction, TLAPS

-----------------------------------------------------------------------------
(* Notifications of VNPay.  An outcome that is on record stays on record:   *)
(* an attempt closed by VNPay is never touched again, and one closed by the *)
(* cron or a cancellation only takes a success that comes late.             *)

\* What VNPay decided is on record.
OutcomeRecorded(a) ==
  \/ outcome[a] = "paid" /\ attempt[a].status \in {"SUCCESS", "REQUIRES_REVIEW"}
  \/ outcome[a] = "declined" /\ attempt[a].status = "FAILED"

\* What is recorded of an attempt is what VNPay decided, or who closed it.
AttemptIsTrue(a) ==
  /\ attempt[a].status \in {"SUCCESS", "REQUIRES_REVIEW"} => outcome[a] = "paid"
  /\ attempt[a].status = "FAILED" =>
       outcome[a] = "declined" \/ attempt[a].code \in {"EXPIRED", "CANCELLED"}
  /\ attempt[a].status = "SUCCESS" <=> bookingState.accepted = a

\* Who is told that the outcome is known is told the truth.
HandlingIsTrue(h) ==
  /\ handling[h].stage = "validated" => handling[h].notice \in {"outcome", "unknown", "amount"}
  /\ handling[h].stage \in {"found", "locked"} => handling[h].notice = "outcome"
  /\ handling[h].stage # "idle" /\ handling[h].notice = "outcome" =>
       handling[h].attempt \in Attempts /\ outcome[handling[h].attempt] # "open"
  /\ handling[h].stage = "answering" /\ handling[h].notice = "outcome"
       /\ handling[h].code \in FinalCodes => OutcomeRecorded(handling[h].attempt)

NoticesInv ==
  /\ \A a \in Attempts : AttemptIsTrue(a)
  /\ \A a \in told : OutcomeRecorded(a)
  /\ \A h \in Handlings : HandlingIsTrue(h)

HandlingRow ==
  [notice : OddNotices \cup {"none", "outcome"}, attempt : Attempts \cup {NoAttempt},
   stage : {"idle", "validated", "found", "locked", "answering"},
   code : {"none", "00", "01", "02", "04", "97", "99"}]

LEMMA AnswersAreTyped ==
  ASSUME NoticesTypeOK, NEW h \in Handlings,
         NEW result \in {"NOT_FOUND", "INVALID_AMOUNT", "ALREADY_PROCESSED", "ERROR",
                         "PROCESSED", "REQUIRES_REVIEW"},
         AnswerWith(h, result)
  PROVE  /\ handling' \in [Handlings -> HandlingRow]
         /\ \A g \in Handlings \ {h} : handling'[g] = handling[g]
         /\ handling'[h].notice = handling[h].notice /\ handling'[h].attempt = handling[h].attempt
         /\ handling'[h].stage = "answering" /\ handling'[h].code = ResponseCode(result)
  <1> DEFINE code == ResponseCode(result)
  <1>1. code \in {"none", "00", "01", "02", "04", "97", "99"}
    BY DEF ResponseCode
  <1>2. handling' = [handling EXCEPT ![h].stage = "answering", ![h].code = code]
    BY DEF AnswerWith
  <1>3. handling \in [Handlings -> HandlingRow]
    BY DEF NoticesTypeOK, HandlingRow
  <1> HIDE DEF code
  <1>4. /\ handling' \in [Handlings -> HandlingRow]
        /\ \A g \in Handlings \ {h} : handling'[g] = handling[g]
        /\ handling'[h].notice = handling[h].notice /\ handling'[h].attempt = handling[h].attempt
        /\ handling'[h].stage = "answering" /\ handling'[h].code = code
    BY ZenonT(40), <1>1, <1>2, <1>3 DEF HandlingRow
  <1> QED BY <1>4 DEF code

LEMMA NoticesTypesKept ==
  ASSUME NoticesTypeOK, NoticesInv, [NoticesNext]_noticeVars
  PROVE  NoticesTypeOK'
  <1> DEFINE attempts == [Attempts -> [status : {"PENDING", "SUCCESS", "REQUIRES_REVIEW", "FAILED"},
                                       code : {"none", "GATEWAY", "EXPIRED", "CANCELLED"}]]
             bookings == [status : {"PENDING_PAYMENT", "CONFIRMED", "CANCELLED"},
                          accepted : Attempts \cup {NoAttempt}]
  <1>1. CASE UNCHANGED noticeVars
    BY <1>1 DEF noticeVars, NoticesTypeOK
  <1>2. ASSUME NEW a \in Attempts, Decide(a) PROVE NoticesTypeOK'
    BY <1>2 DEF Decide, NoticesTypeOK
  <1>3. ASSUME NEW a \in Attempts, ExpireAttempt(a) PROVE NoticesTypeOK'
    BY <1>3 DEF ExpireAttempt, NoticesTypeOK
  <1>4. ASSUME NEW h \in Handlings, NEW a \in Attempts, Receive(h, a) PROVE NoticesTypeOK'
    BY <1>4 DEF Receive, NoticesTypeOK
  <1>5. ASSUME NEW h \in Handlings, NEW notice \in OddNotices, ReceiveOdd(h, notice) PROVE NoticesTypeOK'
    BY <1>5 DEF ReceiveOdd, OddNotices, IdleHandling, InvalidCode, NoticesTypeOK
  <1>6. ASSUME NEW h \in Handlings, FindSnapshot(h) PROVE NoticesTypeOK'
    <2>1. CASE \E result \in {"NOT_FOUND", "INVALID_AMOUNT"} : AnswerWith(h, result)
      BY <1>6, <2>1, AnswersAreTyped DEF FindSnapshot, NoticesTypeOK, HandlingRow
    <2>2. CASE Reach(h, "found")
      BY <1>6, <2>2 DEF FindSnapshot, Reach, NoticesTypeOK
    <2> QED BY <1>6, <2>1, <2>2 DEF FindSnapshot
  <1>7. ASSUME NEW h \in Handlings, LockBookingAndAttempt(h) PROVE NoticesTypeOK'
    BY SMTT(30), <1>7 DEF LockBookingAndAttempt, Reach, NoticesTypeOK
  <1>8. ASSUME NEW h \in Handlings, HandlingFails(h) PROVE NoticesTypeOK'
    BY <1>8, AnswersAreTyped DEF HandlingFails, NoticesTypeOK, HandlingRow
  <1>9. ASSUME NEW h \in Handlings, ProcessCallback(h) PROVE NoticesTypeOK'
    <2>1. /\ UNCHANGED <<outcome, told>> /\ lockedBy' \in Handlings \cup {NoHandling}
      BY <1>9 DEF ProcessCallback
    <2>2. PICK result \in {"ALREADY_PROCESSED", "REQUIRES_REVIEW", "PROCESSED", "ERROR"} : AnswerWith(h, result)
      BY <1>9 DEF ProcessCallback, ResultOf
    <2>3. handling' \in [Handlings -> HandlingRow]
      BY <2>2, AnswersAreTyped
    <2>4. handling[h].attempt \in Attempts
      BY <1>9 DEF ProcessCallback, NoticesInv, HandlingIsTrue
    <2>5. ASSUME NEW a \in Attempts, RecordOutcome(a) PROVE attempt' \in attempts /\ bookingState' \in bookings
      BY <2>5 DEF RecordOutcome, NoticesTypeOK
    <2>6. attempt' \in attempts /\ bookingState' \in bookings
      BY <1>9, <2>4, <2>5 DEF ProcessCallback, NoticesTypeOK
    <2> QED BY <2>1, <2>3, <2>6 DEF NoticesTypeOK, HandlingRow
  <1>10. ASSUME NEW h \in Handlings, Respond(h) PROVE NoticesTypeOK'
    BY <1>10 DEF Respond, IdleHandling, NoticesTypeOK, NoticesInv, HandlingIsTrue
  <1>11. ASSUME NEW code \in {"EXPIRED", "CANCELLED"}, CloseBooking(code) PROVE NoticesTypeOK'
    BY <1>11 DEF CloseBooking, NoticesTypeOK
  <1>12. CASE ProcessDies
    BY <1>12 DEF ProcessDies, IdleHandling, NoticesTypeOK
  <1> QED BY <1>1, <1>2, <1>3, <1>4, <1>5, <1>6, <1>7, <1>8, <1>9, <1>10, <1>11, <1>12 DEF NoticesNext

\* A step that leaves what is recorded alone, or records the true outcome.
RecordsGoOn ==
  /\ \A a \in Attempts : AttemptIsTrue(a)'
  /\ \A a \in Attempts : OutcomeRecorded(a) => OutcomeRecorded(a)'
  /\ \A a \in Attempts : outcome[a] # "open" => outcome'[a] = outcome[a]

HandlingsGoOn == \A h \in Handlings : handling'[h] = handling[h] \/ HandlingIsTrue(h)'

ToldGoesOn == \A a \in told' : a \in told \/ (a \in Attempts /\ OutcomeRecorded(a))

LEMMA RecordsKeepNotices ==
  ASSUME NoticesInv, NoticesTypeOK, RecordsGoOn, HandlingsGoOn, ToldGoesOn
  PROVE  NoticesInv'
  <1>1. told \subseteq Attempts /\ \A h \in Handlings : HandlingIsTrue(h)
    BY DEF NoticesTypeOK, NoticesInv
  <1>2. ASSUME NEW a \in told' PROVE OutcomeRecorded(a)'
    <2>1. a \in Attempts /\ OutcomeRecorded(a)
      BY <1>1 DEF NoticesInv, ToldGoesOn
    <2> QED BY <2>1 DEF RecordsGoOn
  <1>3. ASSUME NEW h \in Handlings PROVE HandlingIsTrue(h)'
    <2>1. CASE handling'[h] = handling[h]
      <3>0. PICK a : a = handling[h].attempt
        OBVIOUS
      <3>1. HandlingIsTrue(h) /\ handling'[h].attempt = a
        BY <1>1, <2>1, <3>0
      <3>2. a \in Attempts => /\ OutcomeRecorded(a) => OutcomeRecorded(a)'
                              /\ outcome[a] # "open" => outcome'[a] # "open"
        BY DEF RecordsGoOn
      <3> QED BY <2>1, <3>0, <3>1, <3>2 DEF HandlingIsTrue, OutcomeRecorded
    <2> QED BY <2>1 DEF HandlingsGoOn
  <1> QED BY <1>2, <1>3 DEF NoticesInv, RecordsGoOn

LEMMA QuietStepsGoOn ==
  ASSUME NoticesInv, UNCHANGED <<outcome, attempt, bookingState>>
  PROVE  RecordsGoOn
  BY DEF RecordsGoOn, NoticesInv, AttemptIsTrue, OutcomeRecorded

\* The callback is taken under the lock, and its answer says what it did.
LEMMA CallbackKeepsNotices ==
  ASSUME NoticesInv, NoticesTypeOK, NEW h \in Handlings, ProcessCallback(h)
  PROVE  NoticesInv'
  <1>0. PICK a : a = handling[h].attempt
    OBVIOUS
  <1>1. /\ a \in Attempts /\ outcome[a] \in {"paid", "declined"} /\ handling[h].notice = "outcome"
        /\ UNCHANGED <<outcome, told>>
    BY <1>0 DEF ProcessCallback, NoticesInv, HandlingIsTrue, NoticesTypeOK
  <1>2. PICK result \in {"ALREADY_PROCESSED", "REQUIRES_REVIEW", "PROCESSED", "ERROR"} :
          /\ AnswerWith(h, result)
          /\ IF AlreadyProcessed(a) THEN UNCHANGED <<attempt, bookingState>> ELSE RecordOutcome(a)
    BY <1>0 DEF ProcessCallback, ResultOf
  <1>3. /\ \A g \in Handlings \ {h} : handling'[g] = handling[g]
        /\ handling'[h].attempt = a /\ handling'[h].stage = "answering" /\ handling'[h].notice = "outcome"
    BY <1>0, <1>1, <1>2, AnswersAreTyped
  <1>4. RecordsGoOn /\ OutcomeRecorded(a)'
    <2>1. \A b \in Attempts : AttemptIsTrue(b)
      BY DEF NoticesInv
    <2>2. CASE AlreadyProcessed(a)
      <3>1. attempt[a].status \in {"PENDING", "SUCCESS", "REQUIRES_REVIEW", "FAILED"}
        BY <1>1 DEF NoticesTypeOK
      <3>2. OutcomeRecorded(a)
        BY <1>1, <2>1, <2>2, <3>1 DEF AlreadyProcessed, LateSuccess, OutcomeRecorded, AttemptIsTrue
      <3>3. UNCHANGED <<outcome, attempt, bookingState>>
        BY <1>1, <1>2, <2>2
      <3>4. OutcomeRecorded(a)'
        BY <3>2, <3>3 DEF OutcomeRecorded
      <3> QED BY <3>3, <3>4, QuietStepsGoOn
    <2>3. CASE ~AlreadyProcessed(a)
      <3>1. RecordOutcome(a)
        BY <1>2, <2>3
      <3>2. ~OutcomeRecorded(a) /\ attempt[a].status \notin {"SUCCESS", "REQUIRES_REVIEW"}
        BY <1>1, <2>3 DEF AlreadyProcessed, LateSuccess, OutcomeRecorded
      <3>3. bookingState.accepted # a
        BY <1>1, <2>1, <3>2 DEF AttemptIsTrue
      <3>4. \A b \in Attempts \ {a} : attempt'[b] = attempt[b]
        BY <3>1 DEF RecordOutcome, NoticesTypeOK
      <3>5. /\ outcome[a] = "declined" => attempt'[a] = [status |-> "FAILED", code |-> "GATEWAY"]
            /\ outcome[a] = "paid" => attempt'[a].status \in {"SUCCESS", "REQUIRES_REVIEW"}
        BY <1>1, <3>1 DEF RecordOutcome, NoticesTypeOK
      <3>6. OutcomeRecorded(a)'
        BY <1>1, <3>5 DEF OutcomeRecorded
      <3>7. \A b \in Attempts \ {a} : AttemptIsTrue(b)'
        <4>1. CASE UNCHANGED bookingState
          BY <1>1, <2>1, <3>4, <4>1 DEF AttemptIsTrue
        <4>2. CASE ~UNCHANGED bookingState
          <5>1. ~ReviewNeeded(a) /\ bookingState'.accepted = a
            BY <1>1, <3>1, <4>2 DEF RecordOutcome
          <5>2. \A b \in Attempts \ {a} : attempt[b].status # "SUCCESS"
            BY <5>1 DEF ReviewNeeded
          <5> QED BY <1>1, <2>1, <3>4, <5>1, <5>2 DEF AttemptIsTrue
        <4> QED BY <4>1, <4>2
      <3>8. attempt'[a].status = "SUCCESS" <=> bookingState'.accepted = a
        BY <1>1, <3>1, <3>3, <3>5 DEF RecordOutcome, NoticesTypeOK
      <3>9. AttemptIsTrue(a)'
        BY <1>1, <3>5, <3>8 DEF AttemptIsTrue
      <3>10. \A b \in Attempts : OutcomeRecorded(b) => OutcomeRecorded(b)'
        BY <1>1, <3>2, <3>4 DEF OutcomeRecorded
      <3> QED BY <1>1, <3>6, <3>7, <3>9, <3>10 DEF RecordsGoOn
    <2> QED BY <2>2, <2>3
  <1>5. HandlingIsTrue(h)'
    BY <1>1, <1>3, <1>4 DEF HandlingIsTrue
  <1>6. HandlingsGoOn
    BY <1>3, <1>5 DEF HandlingsGoOn
  <1>7. ToldGoesOn
    BY <1>1 DEF ToldGoesOn
  <1> QED BY <1>4, <1>6, <1>7, RecordsKeepNotices

LEMMA NoticesInvKept ==
  ASSUME NoticesInv, NoticesTypeOK, [NoticesNext]_noticeVars
  PROVE  NoticesInv'
  <1> DEFINE Frame == UNCHANGED <<outcome, attempt, bookingState, told>>
  <1>0. UNCHANGED told => ToldGoesOn
    BY DEF ToldGoesOn
  <1>1. ASSUME Frame, HandlingsGoOn PROVE NoticesInv'
    BY <1>0, <1>1, QuietStepsGoOn, RecordsKeepNotices
  <1>2. ASSUME UNCHANGED <<handling, told>>, RecordsGoOn PROVE NoticesInv'
    <2>1. HandlingsGoOn
      BY <1>2 DEF HandlingsGoOn
    <2> QED BY <1>0, <1>2, <2>1, RecordsKeepNotices
  <1>3. \A h \in Handlings : HandlingIsTrue(h)
    BY DEF NoticesInv
  <1>4. \A b \in Attempts : AttemptIsTrue(b)
    BY DEF NoticesInv
  <1>5. CASE UNCHANGED noticeVars
    BY <1>1, <1>5 DEF noticeVars, HandlingsGoOn
  <1>6. ASSUME NEW a \in Attempts, Decide(a) PROVE NoticesInv'
    <2>1. /\ outcome[a] = "open" /\ \A b \in Attempts \ {a} : outcome'[b] = outcome[b]
          /\ UNCHANGED <<attempt, bookingState, handling, told>>
      BY <1>6 DEF Decide, NoticesTypeOK
    <2>2. attempt[a].status \notin {"SUCCESS", "REQUIRES_REVIEW"} /\ ~OutcomeRecorded(a)
          /\ (attempt[a].status = "FAILED" => attempt[a].code \in {"EXPIRED", "CANCELLED"})
      BY <1>4, <2>1 DEF AttemptIsTrue, OutcomeRecorded
    <2>3. RecordsGoOn
      BY <1>4, <2>1, <2>2 DEF RecordsGoOn, AttemptIsTrue, OutcomeRecorded
    <2> QED BY <1>2, <2>1, <2>3
  <1>7. ASSUME NEW a \in Attempts, ExpireAttempt(a) PROVE NoticesInv'
    <2>1. /\ attempt[a].status = "PENDING" /\ attempt'[a] = [status |-> "FAILED", code |-> "EXPIRED"]
          /\ \A b \in Attempts \ {a} : attempt'[b] = attempt[b]
          /\ UNCHANGED <<outcome, bookingState, handling, told>>
      BY <1>7 DEF ExpireAttempt, NoticesTypeOK
    <2>2. RecordsGoOn
      BY <1>4, <2>1 DEF RecordsGoOn, AttemptIsTrue, OutcomeRecorded
    <2> QED BY <1>2, <2>1, <2>2
  <1>8. ASSUME NEW code \in {"EXPIRED", "CANCELLED"}, CloseBooking(code) PROVE NoticesInv'
    <2>1. /\ bookingState'.accepted = bookingState.accepted
          /\ UNCHANGED <<outcome, handling, told>>
          /\ \A b \in Attempts : attempt'[b] = IF attempt[b].status = "PENDING"
                                              THEN [status |-> "FAILED", code |-> code] ELSE attempt[b]
      BY <1>8 DEF CloseBooking, NoticesTypeOK
    <2>2. RecordsGoOn
      BY <1>4, <2>1 DEF RecordsGoOn, AttemptIsTrue, OutcomeRecorded
    <2> QED BY <1>2, <2>1, <2>2
  <1>9. ASSUME NEW h \in Handlings, NEW a \in Attempts, Receive(h, a) PROVE NoticesInv'
    <2>1. /\ Frame /\ outcome[a] # "open"
          /\ handling' = [handling EXCEPT ![h] = [notice |-> "outcome", attempt |-> a,
                                                  stage |-> "validated", code |-> "none"]]
      BY <1>9 DEF Receive
    <2>2. HandlingsGoOn
      BY <2>1 DEF HandlingsGoOn, HandlingIsTrue, NoticesTypeOK
    <2> QED BY <1>1, <2>1, <2>2
  <1>10. ASSUME NEW h \in Handlings, NEW notice \in OddNotices, ReceiveOdd(h, notice) PROVE NoticesInv'
    <2>1. Frame /\ \A g \in Handlings \ {h} : handling'[g] = handling[g]
      BY <1>10 DEF ReceiveOdd, NoticesTypeOK
    <2>2. /\ handling'[h].notice = notice
          /\ handling'[h].stage = IF notice \in {"unsigned", "incomplete"} THEN "answering" ELSE "validated"
      BY <1>10 DEF ReceiveOdd, NoticesTypeOK, IdleHandling
    <2>3. HandlingIsTrue(h)'
      BY <2>2 DEF HandlingIsTrue, OddNotices
    <2> QED BY <1>1, <2>1, <2>3 DEF HandlingsGoOn
  <1>11. ASSUME NEW h \in Handlings, NEW result \in {"NOT_FOUND", "INVALID_AMOUNT", "ERROR"},
                Frame, AnswerWith(h, result), handling[h].stage # "idle"
         PROVE  NoticesInv'
    <2>1. /\ \A g \in Handlings \ {h} : handling'[g] = handling[g]
          /\ handling'[h].notice = handling[h].notice /\ handling'[h].attempt = handling[h].attempt
          /\ handling'[h].stage = "answering" /\ handling'[h].code = ResponseCode(result)
      BY <1>11, AnswersAreTyped
    <2>2. ResponseCode(result) \notin FinalCodes
      BY DEF ResponseCode, FinalCodes
    <2>3. HandlingIsTrue(h)'
      BY <1>3, <1>11, <2>1, <2>2 DEF HandlingIsTrue
    <2> QED BY <1>1, <1>11, <2>1, <2>3 DEF HandlingsGoOn
  <1>12. ASSUME NEW h \in Handlings, NEW stage \in {"found", "locked"}, Frame, Reach(h, stage),
                handling[h].stage # "idle", handling[h].notice = "outcome"
         PROVE  NoticesInv'
    <2>1. /\ \A g \in Handlings \ {h} : handling'[g] = handling[g]
          /\ handling'[h].notice = "outcome" /\ handling'[h].attempt = handling[h].attempt
          /\ handling'[h].stage = stage
      BY <1>12 DEF Reach, NoticesTypeOK
    <2>2. HandlingIsTrue(h)'
      BY <1>3, <1>12, <2>1 DEF HandlingIsTrue
    <2> QED BY <1>1, <1>12, <2>1, <2>2 DEF HandlingsGoOn
  <1>13. ASSUME NEW h \in Handlings, FindSnapshot(h) PROVE NoticesInv'
    <2>1. Frame /\ handling[h].stage = "validated"
      BY <1>13 DEF FindSnapshot
    <2>2. CASE Reach(h, "found") /\ handling[h].notice \notin {"unknown", "amount"}
      <3>1. handling[h].notice = "outcome"
        BY <1>3, <2>1, <2>2 DEF HandlingIsTrue
      <3> QED BY <1>12, <2>1, <2>2, <3>1
    <2>3. CASE \E result \in {"NOT_FOUND", "INVALID_AMOUNT"} : AnswerWith(h, result)
      BY <1>11, <2>1, <2>3
    <2> QED BY <1>13, <2>2, <2>3 DEF FindSnapshot
  <1>14. ASSUME NEW h \in Handlings, LockBookingAndAttempt(h) PROVE NoticesInv'
    BY <1>3, <1>12, <1>14 DEF LockBookingAndAttempt, HandlingIsTrue
  <1>15. ASSUME NEW h \in Handlings, HandlingFails(h) PROVE NoticesInv'
    BY <1>11, <1>15 DEF HandlingFails
  <1>16. ASSUME NEW h \in Handlings, Respond(h) PROVE NoticesInv'
    <2>1. /\ UNCHANGED <<outcome, attempt, bookingState>>
          /\ handling' = [handling EXCEPT ![h] = IdleHandling]
          /\ handling[h].stage = "answering"
          /\ \/ told' = told
             \/ /\ told' = told \cup {handling[h].attempt} /\ handling[h].notice = "outcome"
                /\ handling[h].code \in FinalCodes
      BY <1>16 DEF Respond
    <2>3. ToldGoesOn
      BY <1>3, <2>1 DEF ToldGoesOn, HandlingIsTrue
    <2>2. HandlingsGoOn
      BY <2>1 DEF HandlingsGoOn, HandlingIsTrue, IdleHandling, NoticesTypeOK
    <2> QED BY <2>1, <2>2, <2>3, QuietStepsGoOn, RecordsKeepNotices
  <1>17. CASE ProcessDies
    <2>1. HandlingsGoOn
      BY <1>17 DEF ProcessDies, HandlingsGoOn, HandlingIsTrue, IdleHandling
    <2> QED BY <1>1, <1>17, <2>1 DEF ProcessDies
  <1> QED BY <1>5, <1>6, <1>7, <1>8, <1>9, <1>10, <1>13, <1>14, <1>15, <1>16, <1>17,
             CallbackKeepsNotices DEF NoticesNext

\* VNPay stops repeating a notification only when its outcome is on record, and
\* at most one attempt is the accepted one (payment-collection.service.ts answers "00" or
\* "02" only after the transaction that recorded it).
THEOREM NotificationsAlwaysRecorded == NoticesSpec => []ToldMeansRecorded
  <1>1. NoticesInit => NoticesTypeOK /\ NoticesInv
    BY NotificationsAssumption DEF NoticesInit, NoticesTypeOK, NoticesInv, IdleHandling, OddNotices,
       AttemptIsTrue, HandlingIsTrue, OutcomeRecorded
  <1>2. NoticesTypeOK /\ NoticesInv /\ [NoticesNext]_noticeVars => NoticesTypeOK' /\ NoticesInv'
    BY NoticesTypesKept, NoticesInvKept
  <1>3. NoticesTypeOK /\ NoticesInv => ToldMeansRecorded
    BY DEF NoticesTypeOK, NoticesInv, OutcomeRecorded, AttemptIsTrue, ToldMeansRecorded
  <1> QED BY <1>1, <1>2, <1>3, PTL DEF NoticesSpec

-----------------------------------------------------------------------------
(* The health probe.  One probe runs at a time, and the shutdown knows it as *)
(* long as it waits for the pool or its query.  A connection that the pool   *)
(* opens is the only one: the pool has none meanwhile.                       *)

IsRunning(p) == probeStage[p] \in {"acquiring", "querying", "ok", "failed"}

ProbeInv ==
  /\ \A p \in Probes : IsRunning(p) => probeRunning
  /\ \A p, q \in Probes : IsRunning(p) /\ IsRunning(q) => p = q
  /\ \A p \in Probes : abortActiveProbe = p <=> probeStage[p] \in {"acquiring", "querying"}
  /\ \A p \in Probes : probeStage[p] \in {"new", "acquiring"} => acquired[p] = NoConnection
  /\ opening # NoProbe => open = {}
  /\ \A c, d \in open : c = d
  /\ LeaseEndsWithProbe

LEMMA ProbeTypesKept ==
  ASSUME ProbeTypeOK, [ProbeNext]_probeVars
  PROVE  ProbeTypeOK'
  <1> USE DEF ProbeTypeOK
  <1>1. CASE UNCHANGED probeVars
    BY <1>1 DEF probeVars, pool
  <1>2. ASSUME NEW p \in Probes, NEW destroy \in BOOLEAN, ReturnConnection(p, destroy)
        PROVE  /\ lentTo' \in [Connections -> Probes \cup {NoProbe}]
               /\ open' \subseteq Connections /\ closed' \subseteq Connections
               /\ opening' \in Probes \cup {NoProbe}
    BY <1>2 DEF ReturnConnection, GiveBack, pool
  <1>3. ASSUME NEW p \in Probes, NEW ok \in BOOLEAN, Finish(p, ok)
        PROVE  /\ probeStage' \in [Probes -> {"new", "acquiring", "querying", "ok", "failed", "answered"}]
               /\ abortActiveProbe' = NoProbe /\ UNCHANGED <<probeRunning, acquired>>
    BY <1>3 DEF Finish
  <1>4. ASSUME NEW p \in Probes, Check(p) PROVE ProbeTypeOK'
    BY <1>4 DEF Check
  <1>5. ASSUME NEW p \in Probes, Acquire(p) PROVE ProbeTypeOK'
    BY <1>5 DEF Acquire, OfferedTo, Opened
  <1>6. ASSUME NEW p \in Probes, AcquireFails(p) PROVE ProbeTypeOK'
    BY <1>3, <1>6 DEF AcquireFails, Opened
  <1>7. ASSUME NEW p \in Probes, AcquireLate(p) PROVE ProbeTypeOK'
    BY <1>7 DEF AcquireLate, OfferedTo
  <1>8. ASSUME NEW p \in Probes, QueryAnswered(p) PROVE ProbeTypeOK'
    BY <1>2, <1>3, <1>8 DEF QueryAnswered
  <1>9. ASSUME NEW p \in Probes, Timeout(p) PROVE ProbeTypeOK'
    BY <1>2, <1>3, <1>9 DEF Timeout
  <1>10. ASSUME NEW p \in Probes, Finally(p) PROVE ProbeTypeOK'
    BY <1>10 DEF Finally, pool
  <1>11. CASE OnApplicationShutdown
    <2>1. abortActiveProbe # NoProbe => abortActiveProbe \in Probes
      OBVIOUS
    <2> QED BY <1>3, <1>11, <2>1 DEF OnApplicationShutdown
  <1> QED BY <1>1, <1>4, <1>5, <1>6, <1>7, <1>8, <1>9, <1>10, <1>11 DEF ProbeNext

\* The probe ends and gives its connection back, or the pool loses it.
LEMMA FinishKeepsProbe ==
  ASSUME ProbeTypeOK, ProbeInv, NEW p \in Probes, probeStage[p] \in {"acquiring", "querying"},
         NEW ok \in BOOLEAN, Finish(p, ok), NEW destroy \in BOOLEAN, ReturnConnection(p, destroy)
  PROVE  ProbeInv'
  <1> USE DEF ProbeTypeOK, ProbeInv, IsRunning
  <1> QED
    BY ProbesAssumption DEF Finish, ReturnConnection, GiveBack, LeaseEndsWithProbe, pool

LEMMA ProbeInvKept ==
  ASSUME ProbeTypeOK, ProbeInv, [ProbeNext]_probeVars
  PROVE  ProbeInv'
  <1> USE ProbesAssumption DEF ProbeTypeOK, ProbeInv, IsRunning, LeaseEndsWithProbe
  <1>1. CASE UNCHANGED probeVars
    BY <1>1 DEF probeVars, pool
  <1>2. ASSUME NEW p \in Probes, Check(p) PROVE ProbeInv'
    BY <1>2 DEF Check
  <1>3. ASSUME NEW p \in Probes, Acquire(p) PROVE ProbeInv'
    BY <1>3 DEF Acquire, OfferedTo, Opened
  <1>4. ASSUME NEW p \in Probes, AcquireFails(p) PROVE ProbeInv'
    BY <1>4 DEF AcquireFails, Opened, Finish
  <1>5. ASSUME NEW p \in Probes, AcquireLate(p) PROVE ProbeInv'
    BY <1>5 DEF AcquireLate, OfferedTo, Completed
  <1>6. ASSUME NEW p \in Probes, QueryAnswered(p) PROVE ProbeInv'
    <2>1. \/ Finish(p, TRUE) /\ ReturnConnection(p, FALSE)
          \/ Finish(p, FALSE) /\ ReturnConnection(p, TRUE)
      BY <1>6 DEF QueryAnswered, Finish, ReturnConnection, GiveBack
    <2>2. probeStage[p] \in {"acquiring", "querying"}
      BY <1>6 DEF QueryAnswered
    <2> QED BY <2>1, <2>2, FinishKeepsProbe
  <1>7. ASSUME NEW p \in Probes, Timeout(p) PROVE ProbeInv'
    BY <1>7, FinishKeepsProbe DEF Timeout
  <1>8. ASSUME NEW p \in Probes, Finally(p) PROVE ProbeInv'
    BY <1>8 DEF Finally, pool
  <1>9. CASE OnApplicationShutdown
    BY <1>9 DEF OnApplicationShutdown, Finish
  <1> QED BY <1>1, <1>2, <1>3, <1>4, <1>5, <1>6, <1>7, <1>8, <1>9 DEF ProbeNext

\* The connection of the pool is in use exactly while its probe runs its query.
THEOREM LeaseAlwaysEndsWithProbe == ProbeSpec => []LeaseEndsWithProbe
  <1>1. ProbeInit => ProbeTypeOK /\ ProbeInv
    BY ProbesAssumption DEF ProbeInit, ProbeTypeOK, ProbeInv, IsRunning, LeaseEndsWithProbe
  <1>2. ProbeTypeOK /\ ProbeInv /\ [ProbeNext]_probeVars => ProbeTypeOK' /\ ProbeInv'
    BY ProbeTypesKept, ProbeInvKept
  <1>3. ProbeInv => LeaseEndsWithProbe
    BY DEF ProbeInv
  <1> QED BY <1>1, <1>2, <1>3, PTL DEF ProbeSpec

-----------------------------------------------------------------------------
(* Payment and refund requests.  Whoever has written a key and not yet      *)
(* committed keeps others from writing it, and the lock of the booking      *)
(* keeps a payment that is about to be refunded as it was found.            *)

IsPaymentRequest(r) == PayAsk[r].payment = NoPayment

\* A payment is what its request asked for; only its status changes.
PaymentIsTrue(p) ==
  payRow[p] # NoPayment =>
    /\ IsPaymentRequest(p) /\ payStage[p] = "done"
    /\ payRow[p].booking = PayAsk[p].booking /\ payRow[p].method = PayAsk[p].method
    /\ payRow[p].key = PayAsk[p].key /\ payRow[p].by = NewPayment(p).by
    /\ PayAsk[p].kind = "vnpay" => BookedBy[PayAsk[p].booking] = PayAsk[p].actor

\* A refund waits for VNPay or is complete, unless VNPay has refused it.
RefundFits(p) ==
  /\ refundRow[p] # NoRefund =>
       payRow[p] # NoPayment /\ (refundRow[p].refused \/ payRow[p].status \in {"REFUND_PENDING", "REFUNDED"})
  /\ payRow[p] # NoPayment /\ payRow[p].status \in {"REFUND_PENDING", "REFUNDED"} => refundRow[p] # NoRefund

\* A request in a transaction holds its booking.
RequestHolds(r) ==
  /\ payStage[r] \in {"locked", "free", "written"} => payHolder[BookingOf(r)] = r
  /\ payStage[r] = "taken" => IsPaymentRequest(r)
  /\ payStage[r] \in {"sending", "reconciling", "querying"} => ~IsPaymentRequest(r)
  /\ ~IsPaymentRequest(r) /\ payStage[r] \notin {"absent", "new"} => payRow[PayAsk[r].payment] # NoPayment
  /\ PayAsk[r].kind = "vnpay" /\ payStage[r] \in {"locked", "free", "written", "taken"} =>
       BookedBy[PayAsk[r].booking] = PayAsk[r].actor
  /\ ~IsPaymentRequest(r) /\ payStage[r] \in {"free", "written"} =>
       /\ refundRow[PayAsk[r].payment] = NoRefund /\ IsVnPay(PayAsk[r].payment)
       /\ payRow[PayAsk[r].payment].status \in {"SUCCESS", "REQUIRES_REVIEW"}

\* A key that is being written is free but for its writer.
KeysAreFree ==
  /\ \A r \in PayRequests : payStage[r] = "written" /\ IsPaymentRequest(r) => PaymentsOfKey(PayAsk[r].key) = {}
  /\ \A r \in PayRequests : payStage[r] = "written" /\ ~IsPaymentRequest(r) => RefundsOfKey(PayAsk[r].key) = {}
  /\ \A r, s \in PayRequests :
       payStage[r] = "written" /\ payStage[s] = "written" /\ PayAsk[r].key = PayAsk[s].key
         /\ (IsPaymentRequest(r) <=> IsPaymentRequest(s)) => r = s

OneOfKey ==
  /\ \A p, q \in PayRequests :
       payRow[p] # NoPayment /\ payRow[q] # NoPayment /\ payRow[p].key = payRow[q].key => p = q
  /\ \A p, q \in PayRequests :
       refundRow[p] # NoRefund /\ refundRow[q] # NoRefund /\ refundRow[p].key = refundRow[q].key
         /\ refundRow[p].key # NoKey => p = q

\* Whoever is answered with a payment has asked for it.
ReplyIsTrue(r) ==
  IsPaymentRequest(r) /\ payReply[r] \in PayRequests =>
    LET p == payReply[r]
    IN /\ payRow[p] # NoPayment /\ payRow[p].key = PayAsk[r].key
       /\ payRow[p].booking = PayAsk[r].booking /\ payRow[p].method = PayAsk[r].method
       /\ PayAsk[p].actor = PayAsk[r].actor

RequestsInv ==
  /\ \A p \in PayRequests : PaymentIsTrue(p) /\ RefundFits(p) /\ RequestHolds(p) /\ ReplyIsTrue(p)
  /\ KeysAreFree /\ OneOfKey

(* What steps have in common. *)

\* Payments stay what they are but for their status.
PaymentsGoOn ==
  \A p \in PayRequests : payRow[p] # NoPayment =>
    /\ payRow'[p] # NoPayment /\ payRow'[p].booking = payRow[p].booking
    /\ payRow'[p].method = payRow[p].method /\ payRow'[p].key = payRow[p].key
    /\ payRow'[p].by = payRow[p].by

NoNewPayment == \A p \in PayRequests : payRow'[p] # NoPayment => payRow[p] # NoPayment

NoNewRefund ==
  \A p \in PayRequests : refundRow'[p] # NoRefund =>
    refundRow'[p].key = NoKey \/ (refundRow[p] # NoRefund /\ refundRow'[p].key = refundRow[p].key)

\* Only r goes on, and takes no lock from another.
OnlyMoves(r) ==
  /\ \A s \in PayRequests \ {r} : payStage'[s] = payStage[s] /\ payReply'[s] = payReply[s]
  /\ \A b \in PayBookings : payHolder[b] \in PayRequests \ {r} => payHolder'[b] = payHolder[b]

\* The payments that others are about to refund stay as they are.
RefundsWait(r) ==
  \A s \in PayRequests \ {r} :
    ~IsPaymentRequest(s) /\ payStage[s] \in {"free", "written"} =>
      LET p == PayAsk[s].payment
      IN refundRow'[p] = refundRow[p] /\ payRow'[p].status = payRow[p].status

LEMMA RequestTypes ==
  ASSUME NEW r \in PayRequests
  PROVE  /\ PayAsk[r].kind \in {"vnpay", "manual"} \cup RefundKinds /\ PayAsk[r].booking \in PayBookings
         /\ PayAsk[r].key \in PayKeys /\ PayAsk[r].key # NoKey
         /\ PayAsk[r].method \in {"VNPAY", "CASH", "BANK_TRANSFER"}
         /\ PayAsk[r].actor \in PayCustomers \cup PayStaff /\ PayAsk[r].actor # NoActor
         /\ PayAsk[r].kind = "vnpay" => PayAsk[r].method = "VNPAY"
         /\ PayAsk[r].kind = "manual" => PayAsk[r].method # "VNPAY" /\ PayAsk[r].actor \in PayStaff
         /\ IsPaymentRequest(r) <=> PayAsk[r].kind \in {"vnpay", "manual"}
         /\ ~IsPaymentRequest(r) <=> PayAsk[r].kind \in RefundKinds
         /\ ~IsPaymentRequest(r) => PayAsk[r].payment \in PayRequests
  BY PaymentRequestsAssumption DEF PayQuestion, RefundKinds, IsPaymentRequest

\* The booking of a request in a transaction.
LEMMA BookingsGoOn ==
  ASSUME RequestsTypeOK, NEW r \in PayRequests, PaymentsGoOn,
         ~IsPaymentRequest(r) => payRow[PayAsk[r].payment] # NoPayment
  PROVE  BookingOf(r) \in PayBookings /\ BookingOf(r)' = BookingOf(r)
  <1>1. CASE IsPaymentRequest(r)
    BY <1>1, RequestTypes DEF IsPaymentRequest, BookingOf
  <1>2. CASE ~IsPaymentRequest(r)
    BY <1>2, RequestTypes DEF IsPaymentRequest, BookingOf, PaymentsGoOn, RequestsTypeOK, PayRow
  <1> QED BY <1>1, <1>2

\* What a step of r has to look after.
LEMMA StepKeepsRequests ==
  ASSUME RequestsTypeOK, RequestsInv, NEW r \in PayRequests,
         PaymentsGoOn, OnlyMoves(r), RefundsWait(r),
         payStage'[r] = payStage[r] \/ payStage[r] # "done",
         \A p \in PayRequests \ {r} : payRow'[p] # NoPayment => payRow[p] # NoPayment,
         payRow'[r] # NoPayment /\ payRow[r] = NoPayment => PaymentIsTrue(r)',
         \A p \in PayRequests : RefundFits(p)',
         RequestHolds(r)', ReplyIsTrue(r)', KeysAreFree', OneOfKey'
  PROVE  RequestsInv'
  <1>1. ASSUME NEW p \in PayRequests PROVE PaymentIsTrue(p)'
    <2>1. PaymentIsTrue(p) /\ (p # r => payStage'[p] = payStage[p])
      BY DEF RequestsInv, OnlyMoves
    <2>2. NewPayment(p)'.by = NewPayment(p).by
      BY DEF NewPayment
    <2>3. CASE payRow[p] # NoPayment
      BY <2>1, <2>2, <2>3 DEF PaymentIsTrue, PaymentsGoOn
    <2>4. CASE payRow[p] = NoPayment
      BY <2>4 DEF PaymentIsTrue
    <2> QED BY <2>3, <2>4
  <1>2. ASSUME NEW s \in PayRequests \ {r} PROVE RequestHolds(s)' /\ ReplyIsTrue(s)'
    <2>1. RequestHolds(s) /\ ReplyIsTrue(s) /\ payStage'[s] = payStage[s] /\ payReply'[s] = payReply[s]
      BY <1>2 DEF RequestsInv, OnlyMoves
    <2>2. ReplyIsTrue(s)'
      BY <2>1 DEF ReplyIsTrue, PaymentsGoOn
    <2>3. CASE payStage[s] \in {"absent", "new", "done"}
      BY <1>2, <2>1, <2>2, <2>3, RequestTypes DEF RequestHolds, PaymentsGoOn
    <2>4. CASE payStage[s] \notin {"absent", "new", "done"}
      <3>1. ~IsPaymentRequest(s) => payRow[PayAsk[s].payment] # NoPayment
        BY <2>1, <2>4 DEF RequestHolds
      <3>2. BookingOf(s) \in PayBookings /\ BookingOf(s)' = BookingOf(s)
        BY <1>2, <3>1, BookingsGoOn
      <3>3. payHolder[BookingOf(s)] = s => payHolder'[BookingOf(s)] = s
        BY <1>2, <3>2 DEF OnlyMoves
      <3>4. ~IsPaymentRequest(s) =>
              LET p == PayAsk[s].payment IN
              /\ payRow'[p] # NoPayment
              /\ IsVnPay(p) => IsVnPay(p)'
              /\ payStage[s] \in {"free", "written"} =>
                   refundRow'[p] = refundRow[p] /\ payRow'[p].status = payRow[p].status
        BY <1>2, <3>1, RequestTypes DEF PaymentsGoOn, IsVnPay, RefundsWait
      <3> QED BY <1>2, <2>1, <2>2, <2>4, <3>2, <3>3, <3>4 DEF RequestHolds
    <2> QED BY <2>2, <2>3, <2>4
  <1> QED BY <1>1, <1>2 DEF RequestsInv

LEMMA KeysStayFree ==
  ASSUME RequestsTypeOK, RequestsInv, NEW r \in PayRequests,
         PaymentsGoOn, NoNewPayment, NoNewRefund, OnlyMoves(r), payStage'[r] # "written"
  PROVE  KeysAreFree' /\ OneOfKey'
  <1>1. /\ \A k \in PayKeys : PaymentsOfKey(k)' \subseteq PaymentsOfKey(k)
        /\ \A k \in PayKeys : RefundsOfKey(k)' \subseteq RefundsOfKey(k)
    BY PaymentRequestsAssumption DEF PaymentsOfKey, RefundsOfKey, PaymentsGoOn, NoNewPayment, NoNewRefund
  <1>2. KeysAreFree /\ OneOfKey /\ \A s \in PayRequests : payStage'[s] = "written" => payStage[s] = "written"
    BY DEF RequestsInv, OnlyMoves
  <1>3. KeysAreFree'
    BY <1>1, <1>2, RequestTypes DEF KeysAreFree, IsPaymentRequest
  <1>4. OneOfKey'
    BY <1>2 DEF OneOfKey, PaymentsGoOn, NoNewPayment, NoNewRefund
  <1> QED BY <1>3, <1>4

PayStageSet ==
  {"absent", "new", "locked", "free", "written", "taken", "sending", "reconciling", "querying", "done"}

LEMMA GoingOn ==
  ASSUME RequestsTypeOK, NEW r \in PayRequests, NEW where \in PayStageSet, GoTo(r, where),
         UNCHANGED payHolder \/ Unlock(r),
         NEW reply \in NoPaymentReplies \cup PayRequests,
         payReply' = [payReply EXCEPT ![r] = reply]
  PROVE  /\ OnlyMoves(r) /\ payStage'[r] = where /\ payReply'[r] = reply
         /\ payStage' \in [PayRequests -> PayStageSet]
         /\ payHolder' \in [PayBookings -> PayRequests \cup {NoPayment}]
         /\ payReply' \in [PayRequests -> NoPaymentReplies \cup PayRequests]
  BY DEF RequestsTypeOK, GoTo, Unlock, OnlyMoves, PayStageSet

LEMMA Answering ==
  ASSUME RequestsTypeOK, NEW r \in PayRequests,
         NEW reply \in NoPaymentReplies \cup PayRequests, Reply(r, reply)
  PROVE  /\ OnlyMoves(r) /\ payStage'[r] = "done" /\ payReply'[r] = reply
         /\ payStage' \in [PayRequests -> PayStageSet]
         /\ payHolder' \in [PayBookings -> PayRequests \cup {NoPayment}]
         /\ payReply' \in [PayRequests -> NoPaymentReplies \cup PayRequests]
  <1>1. "done" \in PayStageSet
    BY DEF PayStageSet
  <1> QED BY <1>1, GoingOn DEF Reply

LEMMA Moving ==
  ASSUME RequestsTypeOK, NEW r \in PayRequests, NEW where \in PayStageSet, GoTo(r, where),
         UNCHANGED payHolder \/ Unlock(r), UNCHANGED payReply
  PROVE  /\ OnlyMoves(r) /\ payStage'[r] = where /\ payReply'[r] = payReply[r]
         /\ payStage' \in [PayRequests -> PayStageSet]
         /\ payHolder' \in [PayBookings -> PayRequests \cup {NoPayment}]
         /\ payReply' \in [PayRequests -> NoPaymentReplies \cup PayRequests]
  BY DEF RequestsTypeOK, GoTo, Unlock, OnlyMoves, PayStageSet

LEMMA RowsStay ==
  ASSUME RequestsInv, UNCHANGED <<payRow, refundRow>>
  PROVE  /\ PaymentsGoOn /\ NoNewPayment /\ NoNewRefund
         /\ \A r \in PayRequests : RefundsWait(r)
         /\ \A p \in PayRequests : RefundFits(p)'
  BY DEF RequestsInv, PaymentsGoOn, NoNewPayment, NoNewRefund, RefundsWait, RefundFits

\* A request is answered, or goes on, and writes nothing.
LEMMA NothingWritten ==
  ASSUME RequestsTypeOK, RequestsInv, NEW r \in PayRequests, UNCHANGED <<payRow, refundRow>>,
         OnlyMoves(r), payStage[r] # "done", payStage'[r] # "written", RequestHolds(r)', ReplyIsTrue(r)'
  PROVE  RequestsInv'
  <1>1. KeysAreFree' /\ OneOfKey'
    BY RowsStay, KeysStayFree
  <1> QED BY <1>1, RowsStay, StepKeepsRequests DEF NoNewPayment

LEMMA NothingWrittenAnswer ==
  ASSUME RequestsTypeOK, RequestsInv, NEW r \in PayRequests, UNCHANGED <<payRow, refundRow>>,
         NEW reply \in NoPaymentReplies \cup PayRequests, Reply(r, reply), payStage[r] # "done",
         IsPaymentRequest(r) \/ payRow[PayAsk[r].payment] # NoPayment,
         IsPaymentRequest(r) /\ reply \in PayRequests =>
           /\ payStage[r] \in {"locked", "taken"}
           /\ reply \in PaymentsOfKey(PayAsk[r].key) /\ IsReplay(r, reply)
  PROVE  RequestsInv'
  <1>1. OnlyMoves(r) /\ payStage'[r] = "done" /\ payReply'[r] = reply
    BY Answering
  <1>2. RequestHolds(r)'
    BY <1>1 DEF RequestHolds, IsPaymentRequest
  <1>3. ReplyIsTrue(r)'
    <2>1. SUFFICES ASSUME IsPaymentRequest(r), reply \in PayRequests
                   PROVE  /\ payRow[reply] # NoPayment /\ payRow[reply].key = PayAsk[r].key
                          /\ payRow[reply].booking = PayAsk[r].booking
                          /\ payRow[reply].method = PayAsk[r].method
                          /\ PayAsk[reply].actor = PayAsk[r].actor
      BY <1>1 DEF ReplyIsTrue, IsPaymentRequest
    <2>2. /\ payRow[reply] # NoPayment /\ payRow[reply].key = PayAsk[r].key
          /\ payRow[reply].booking = PayAsk[r].booking /\ payRow[reply].method = PayAsk[r].method
          /\ payRow[reply].by = NewPayment(r).by
      BY <2>1 DEF PaymentsOfKey, IsReplay, NewPayment
    <2>3. PaymentIsTrue(reply) /\ RequestHolds(r) /\ IsPaymentRequest(reply) /\ NewPayment(reply).by = NewPayment(r).by
      BY <2>1, <2>2 DEF RequestsInv, PaymentIsTrue
    <2>4. CASE PayAsk[r].kind = "vnpay"
      <3>1. PayAsk[reply].kind = "vnpay"
        BY <2>1, <2>3, <2>4, RequestTypes DEF NewPayment
      <3>2. payStage[r] \in {"locked", "free", "written", "taken"} => BookedBy[PayAsk[r].booking] = PayAsk[r].actor
        BY <2>3, <2>4 DEF RequestHolds
      <3> QED BY <2>1, <2>2, <2>3, <3>1, <3>2 DEF PaymentIsTrue
    <2>5. CASE PayAsk[r].kind # "vnpay"
      <3>1. PayAsk[reply].kind # "vnpay"
        BY <2>1, <2>3, <2>5, RequestTypes DEF NewPayment
      <3> QED BY <2>1, <2>2, <2>3, <2>5, <3>1 DEF NewPayment
    <2> QED BY <2>4, <2>5
  <1> QED BY <1>1, <1>2, <1>3, NothingWritten

\* The replies of a key: the payment if it is a repetition, else a refusal.
LEMMA KeyAnswersKeepRequests ==
  ASSUME RequestsTypeOK, RequestsInv, NEW r \in PayRequests, UNCHANGED <<payRow, refundRow>>,
         IsPaymentRequest(r), payStage[r] \in {"locked", "taken"}, ReplyFromKey(r)
  PROVE  RequestsInv'
  <1>1. PICK p \in PaymentsOfKey(PayAsk[r].key) : Reply(r, IF IsReplay(r, p) THEN p ELSE "refused")
    BY DEF ReplyFromKey
  <1>2. p \in PayRequests /\ "refused" \in NoPaymentReplies /\ "refused" \notin PayRequests
    BY <1>1, PaymentRequestsAssumption DEF PaymentsOfKey, NoPaymentReplies
  <1>3. CASE IsReplay(r, p)
    BY <1>1, <1>2, <1>3, NothingWrittenAnswer
  <1>4. CASE ~IsReplay(r, p)
    BY <1>1, <1>2, <1>4, NothingWrittenAnswer
  <1> QED BY <1>3, <1>4

LEMMA PaymentStepsKeepRequests ==
  ASSUME RequestsTypeOK, RequestsInv, NEW r \in PayRequests,
         \/ PayFails(r) \/ LockForPayment(r) \/ LookUpKey(r) \/ ResolveIdempotencyConflict(r)
  PROVE  RequestsInv'
  <1> USE DEF PayAt
  <1>1. RequestHolds(r) /\ ReplyIsTrue(r)
    BY DEF RequestsInv
  <1>2. NoPaymentReplies \cap PayRequests = {} /\ "error" \in NoPaymentReplies /\ "notFound" \in NoPaymentReplies
        /\ "refused" \in NoPaymentReplies
    BY PaymentRequestsAssumption DEF NoPaymentReplies
  <1>3. CASE PayFails(r)
    BY <1>1, <1>2, <1>3, NothingWrittenAnswer DEF PayFails, RequestHolds
  <1>4. CASE LockForPayment(r)
    <2>1. UNCHANGED <<payRow, refundRow>> /\ IsPaymentRequest(r) /\ payStage[r] = "new"
      BY <1>4, RequestTypes DEF LockForPayment
    <2>2. CASE Reply(r, "notFound")
      BY <1>2, <2>1, <2>2, NothingWrittenAnswer
    <2>3. CASE LockPayBooking(r) /\ (PayAsk[r].kind = "vnpay" => BookedBy[PayAsk[r].booking] = PayAsk[r].actor)
      <3>1. /\ BookingOf(r) \in PayBookings /\ BookingOf(r)' = BookingOf(r)
            /\ payHolder[BookingOf(r)] = NoPayment /\ payHolder' = [payHolder EXCEPT ![BookingOf(r)] = r]
            /\ payStage' = [payStage EXCEPT ![r] = "locked"] /\ UNCHANGED payReply
        BY <2>1, <2>3, RequestTypes DEF LockPayBooking, BookingIsFree, BookingOf, IsPaymentRequest, GoTo
      <3>2. OnlyMoves(r) /\ payStage'[r] = "locked" /\ payHolder'[BookingOf(r)] = r
        BY <3>1, PaymentRequestsAssumption DEF OnlyMoves, RequestsTypeOK
      <3>3. RequestHolds(r)'
        BY <2>1, <2>3, <3>1, <3>2 DEF RequestHolds, IsPaymentRequest
      <3>4. ReplyIsTrue(r)'
        BY <1>1, <2>1, <3>1 DEF ReplyIsTrue, IsPaymentRequest
      <3> QED BY <2>1, <3>2, <3>3, <3>4, NothingWritten
    <2> QED BY <1>4, <2>2, <2>3 DEF LockForPayment
  <1>5. CASE LookUpKey(r)
    <2>1. UNCHANGED <<payRow, refundRow>> /\ IsPaymentRequest(r) /\ payStage[r] = "locked"
      BY <1>5, RequestTypes DEF LookUpKey
    <2>2. CASE ReplyFromKey(r)
      BY <2>1, <2>2, KeyAnswersKeepRequests
    <2>3. CASE Reply(r, "refused")
      BY <1>2, <2>1, <2>3, NothingWrittenAnswer
    <2>4. CASE GoTo(r, "free") /\ UNCHANGED <<payHolder, payReply>>
      <3>1. OnlyMoves(r) /\ payStage'[r] = "free" /\ payReply'[r] = payReply[r]
        BY <2>4, Moving DEF PayStageSet
      <3>2. BookingOf(r)' = BookingOf(r)
        BY <2>1, BookingsGoOn, RowsStay
      <3>3. RequestHolds(r)'
        BY <1>1, <2>1, <2>4, <3>1, <3>2 DEF RequestHolds, IsPaymentRequest
      <3>4. ReplyIsTrue(r)'
        BY <1>1, <2>1, <3>1 DEF ReplyIsTrue, IsPaymentRequest
      <3> QED BY <2>1, <3>1, <3>3, <3>4, NothingWritten
    <2> QED BY <1>5, <2>2, <2>3, <2>4 DEF LookUpKey
  <1>6. CASE ResolveIdempotencyConflict(r)
    BY <1>1, <1>6, KeyAnswersKeepRequests DEF ResolveIdempotencyConflict, RequestHolds
  <1> QED BY <1>3, <1>4, <1>5, <1>6

LEMMA CreatePaymentKeepsRequests ==
  ASSUME RequestsTypeOK, RequestsInv, NEW r \in PayRequests, CreatePayment(r)
  PROVE  RequestsInv'
  <1> USE DEF PayAt
  <1>1. RequestHolds(r) /\ ReplyIsTrue(r)
    BY DEF RequestsInv
  <1>2. UNCHANGED <<payRow, refundRow, payReply>> /\ IsPaymentRequest(r) /\ payStage[r] = "free"
    BY RequestTypes DEF CreatePayment
  <1>3. BookingOf(r)' = BookingOf(r)
    BY <1>2, BookingsGoOn, RowsStay
  <1>4. CASE Unlock(r) /\ GoTo(r, "taken")
    <2>1. OnlyMoves(r) /\ payStage'[r] = "taken" /\ payReply'[r] = payReply[r]
      BY <1>2, <1>4, Moving DEF PayStageSet
    <2>2. RequestHolds(r)' /\ ReplyIsTrue(r)'
      BY <1>1, <1>2, <2>1 DEF RequestHolds, ReplyIsTrue, IsPaymentRequest
    <2> QED BY <1>2, <2>1, <2>2, NothingWritten
  <1>5. CASE PaymentsOfKey(PayAsk[r].key) = {} /\ GoTo(r, "written") /\ UNCHANGED payHolder
    <2>1. OnlyMoves(r) /\ payStage'[r] = "written" /\ payReply'[r] = payReply[r]
      BY <1>2, <1>5, Moving DEF PayStageSet
    <2>2. RequestHolds(r)' /\ ReplyIsTrue(r)'
      BY <1>1, <1>2, <1>3, <1>5, <2>1 DEF RequestHolds, ReplyIsTrue, IsPaymentRequest
    <2>3. \A s \in PayRequests \ {r} :
            IsPaymentRequest(s) /\ payStage[s] = "written" => PayAsk[s].key # PayAsk[r].key
      BY RequestTypes DEF CreatePayment, KeyIsBeingWritten
    <2>4. /\ \A k : PaymentsOfKey(k)' = PaymentsOfKey(k) /\ RefundsOfKey(k)' = RefundsOfKey(k)
          /\ OneOfKey'
      BY <1>2 DEF PaymentsOfKey, RefundsOfKey, OneOfKey, RequestsInv
    <2>5. KeysAreFree'
      BY <1>2, <1>5, <2>1, <2>3, <2>4 DEF KeysAreFree, RequestsInv, OnlyMoves, IsPaymentRequest
    <2> QED BY <1>2, <2>1, <2>2, <2>4, <2>5, RowsStay, StepKeepsRequests DEF NoNewPayment
  <1> QED BY <1>4, <1>5 DEF CreatePayment

LEMMA NewPaymentIsTyped ==
  ASSUME NEW r \in PayRequests, IsPaymentRequest(r)
  PROVE  /\ NewPayment(r) \in PayRow /\ NewPayment(r) # NoPayment
         /\ NewPayment(r).booking = PayAsk[r].booking /\ NewPayment(r).method = PayAsk[r].method
         /\ NewPayment(r).key = PayAsk[r].key /\ NewPayment(r).status \in {"PENDING", "SUCCESS"}
  BY RequestTypes, PaymentRequestsAssumption DEF NewPayment, PayRow, PayStatuses

\* What a commit makes of the payments.
LEMMA CommittedPayments ==
  ASSUME RequestsTypeOK, RequestsInv, NEW r \in PayRequests, CommitPayment(r)
  PROVE  /\ payRow' \in [PayRequests -> PayRow \cup {NoPayment}]
         /\ payRow[r] = NoPayment /\ payRow'[r] = NewPayment(r)
         /\ \A p \in PayRequests \ {r} :
              \/ payRow'[p] = payRow[p]
              \/ /\ payRow[p] # NoPayment /\ payRow'[p] # NoPayment
                 /\ payRow'[p] = [payRow[p] EXCEPT !.status = "EXPIRED"]
                 /\ payRow[p].status = "PENDING"
         /\ PaymentsGoOn
  <1>1. IsPaymentRequest(r) /\ payStage[r] = "written" /\ payRow[r] = NoPayment
    BY RequestTypes DEF CommitPayment, PayAt, RequestsInv, PaymentIsTrue
  <1> DEFINE b == PayAsk[r].booking
  <1>2. \A p \in ClosedAttempts(b) :
          payRow[p] # NoPayment /\ payRow[p].status = "PENDING"
    BY DEF ClosedAttempts, IsAttempt
  <1>3. payRow' = [p \in PayRequests |->
                  IF p = r THEN NewPayment(r)
                  ELSE IF p \in ClosedAttempts(b)
                  THEN [payRow[p] EXCEPT !.status = "EXPIRED"]
                  ELSE payRow[p]]
    BY DEF CommitPayment
  <1> HIDE DEF b
  <1>4. \A p \in PayRequests : payRow[p] # NoPayment =>
          /\ payRow[p] \in PayRow
          /\ [payRow[p] EXCEPT !.status = "EXPIRED"] \in PayRow
          /\ [payRow[p] EXCEPT !.status = "EXPIRED"].booking = payRow[p].booking
          /\ [payRow[p] EXCEPT !.status = "EXPIRED"].method = payRow[p].method
          /\ [payRow[p] EXCEPT !.status = "EXPIRED"].key = payRow[p].key
          /\ [payRow[p] EXCEPT !.status = "EXPIRED"].by = payRow[p].by
    BY DEF RequestsTypeOK, PayRow, PayStatuses
  <1>5. /\ payRow'[r] = NewPayment(r)
        /\ \A p \in PayRequests \ {r} :
             payRow'[p] = IF p \in ClosedAttempts(b) THEN [payRow[p] EXCEPT !.status = "EXPIRED"]
                                                     ELSE payRow[p]
    BY <1>3
  <1>6. PayRow \cap {NoPayment} = {}
    BY PaymentRequestsAssumption
  <1>7. \A p \in PayRequests : payRow'[p] \in PayRow \cup {NoPayment}
    BY ZenonT(40), <1>1, <1>2, <1>4, <1>5, NewPaymentIsTyped DEF RequestsTypeOK
  <1>8. payRow' \in [PayRequests -> PayRow \cup {NoPayment}]
    BY <1>3, <1>7
  <1>9. \A p \in PayRequests \ {r} :
              \/ payRow'[p] = payRow[p]
              \/ /\ payRow[p] # NoPayment /\ payRow'[p] # NoPayment
                 /\ payRow'[p] = [payRow[p] EXCEPT !.status = "EXPIRED"]
                 /\ payRow[p].status = "PENDING"
    BY <1>2, <1>4, <1>5, <1>6
  <1>10. PaymentsGoOn
    BY <1>1, <1>4, <1>9 DEF PaymentsGoOn
  <1> QED BY <1>1, <1>5, <1>8, <1>9, <1>10

LEMMA CommitPaymentKeepsRequests ==
  ASSUME RequestsTypeOK, RequestsInv, NEW r \in PayRequests, CommitPayment(r)
  PROVE  RequestsInv'
  <1> USE CommittedPayments
  <1>1. /\ IsPaymentRequest(r) /\ payStage[r] = "written" /\ UNCHANGED refundRow
        /\ RequestHolds(r) /\ KeysAreFree /\ OneOfKey
    BY RequestTypes DEF CommitPayment, PayAt, RequestsInv
  <1>2. PICK reply \in {r, "error"} : Reply(r, reply)
    BY DEF CommitPayment
  <1>3. /\ OnlyMoves(r) /\ payStage'[r] = "done" /\ payReply'[r] = reply
        /\ reply \in PayRequests => reply = r
    <2>1. "error" \in NoPaymentReplies /\ "error" \notin PayRequests
      BY PaymentRequestsAssumption DEF NoPaymentReplies
    <2> QED BY <1>2, <2>1, Answering
  <1>4. /\ NewPayment(r) # NoPayment /\ NewPayment(r).key = PayAsk[r].key
        /\ NewPayment(r).booking = PayAsk[r].booking /\ NewPayment(r).method = PayAsk[r].method
        /\ NewPayment(r).status \in {"PENDING", "SUCCESS"}
    BY <1>1, NewPaymentIsTyped
  <1>5. PaymentIsTrue(r)'
    BY <1>1, <1>3, <1>4 DEF PaymentIsTrue, RequestHolds, NewPayment, IsPaymentRequest
  <1>6. RequestHolds(r)' /\ ReplyIsTrue(r)'
    BY <1>1, <1>3, <1>4 DEF RequestHolds, ReplyIsTrue, IsPaymentRequest
  <1>7. RefundsWait(r)
    <2> SUFFICES ASSUME NEW s \in PayRequests \ {r}, ~IsPaymentRequest(s), payStage[s] \in {"free", "written"}
                 PROVE  payRow'[PayAsk[s].payment] = payRow[PayAsk[s].payment]
      BY <1>1 DEF RefundsWait
    <2>1. RequestHolds(s)
      BY DEF RequestsInv
    <2>2. payRow[PayAsk[s].payment] # NoPayment /\ payRow[PayAsk[s].payment].status # "PENDING"
      BY <2>1 DEF RequestHolds
    <2> QED BY <2>2, RequestTypes
  <1>8. ASSUME NEW p \in PayRequests PROVE RefundFits(p)'
    <2>1. RefundFits(p) /\ RefundFits(r)
      BY DEF RequestsInv
    <2>2. CASE p = r
      BY <1>1, <1>4, <2>1, <2>2 DEF RefundFits
    <2>3. CASE p # r /\ payRow'[p] = payRow[p]
      BY <1>1, <2>1, <2>3 DEF RefundFits
    <2>4. CASE p # r /\ payRow'[p] # payRow[p]
      <3>1. /\ payRow[p] # NoPayment /\ payRow'[p] # NoPayment /\ payRow[p].status = "PENDING"
            /\ payRow'[p] = [payRow[p] EXCEPT !.status = "EXPIRED"] /\ payRow[p] \in PayRow
        BY <2>4 DEF RequestsTypeOK
      <3>2. payRow'[p].status = "EXPIRED"
        BY <3>1 DEF PayRow
      <3> QED BY <1>1, <2>1, <3>1, <3>2 DEF RefundFits
    <2> QED BY <2>2, <2>3, <2>4
  <1>9. OneOfKey'
    <2>1. \A p \in PayRequests : payRow[p] # NoPayment => payRow[p].key # PayAsk[r].key
      BY <1>1 DEF KeysAreFree, PaymentsOfKey
    <2>2. \A p \in PayRequests \ {r} : payRow'[p] # NoPayment =>
            payRow[p] # NoPayment /\ payRow'[p].key = payRow[p].key
      BY DEF PaymentsGoOn
    <2> QED BY <1>1, <1>4, <2>1, <2>2 DEF OneOfKey
  <1>10. KeysAreFree'
    <2>1. ASSUME NEW s \in PayRequests, payStage'[s] = "written"
          PROVE  /\ s # r /\ payStage[s] = "written"
                 /\ IsPaymentRequest(s) => PaymentsOfKey(PayAsk[s].key)' = {}
                 /\ ~IsPaymentRequest(s) => RefundsOfKey(PayAsk[s].key)' = {}
      <3>1. s # r /\ payStage[s] = "written"
        BY <1>3, <2>1 DEF OnlyMoves
      <3>2. IsPaymentRequest(s) => PayAsk[s].key # PayAsk[r].key /\ PaymentsOfKey(PayAsk[s].key) = {}
        BY <1>1, <3>1 DEF KeysAreFree
      <3>3. \A p \in PayRequests \ {r} : payRow'[p] # NoPayment =>
              payRow[p] # NoPayment /\ payRow'[p].key = payRow[p].key
        BY DEF PaymentsGoOn
      <3>4. IsPaymentRequest(s) => PaymentsOfKey(PayAsk[s].key)' = {}
        BY <1>4, <3>2, <3>3 DEF PaymentsOfKey
      <3>5. ~IsPaymentRequest(s) => RefundsOfKey(PayAsk[s].key)' = {}
        BY <1>1, <3>1 DEF KeysAreFree, RefundsOfKey
      <3> QED BY <3>1, <3>4, <3>5
    <2> QED BY <1>1, <2>1 DEF KeysAreFree, IsPaymentRequest
  <1> QED BY <1>1, <1>3, <1>5, <1>6, <1>7, <1>8, <1>9, <1>10, StepKeepsRequests

\* What becomes of a payment in a step: nothing, it begins or is decided, its
\* refund begins, or its refund goes on.
PaymentMoves(p) ==
  \/ payRow'[p] = payRow[p] /\ refundRow'[p] = refundRow[p]
  \/ /\ payRow[p] = NoPayment \/ payRow[p].status \in {"PENDING", "EXPIRED"}
     /\ refundRow'[p] = refundRow[p]
  \/ /\ payRow[p] # NoPayment /\ payRow'[p] # NoPayment /\ refundRow'[p] # NoRefund
     /\ payRow[p].status \in {"SUCCESS", "REQUIRES_REVIEW"} /\ refundRow'[p].before = payRow[p].status
     /\ payRow'[p].status \in {"REFUND_PENDING", "REFUNDED"}
  \/ /\ payRow[p] # NoPayment /\ payRow'[p] # NoPayment /\ refundRow[p] # NoRefund /\ refundRow'[p] # NoRefund
     /\ payRow[p].status = "REFUND_PENDING" /\ refundRow'[p].before = refundRow[p].before
     /\ payRow'[p].status \in {"REFUND_PENDING", "REFUNDED", refundRow[p].before}

\* The status and the refund of one payment change.
Changes(p, status, ref) ==
  /\ payRow' = [payRow EXCEPT ![p].status = status]
  /\ refundRow' = [refundRow EXCEPT ![p] = ref]

\* One payment changes, whose booking no other request holds.
LEMMA OnePaymentChanges ==
  ASSUME RequestsTypeOK, RequestsInv, NEW r \in PayRequests, NEW p \in PayRequests, payRow[p] # NoPayment,
         NEW status \in PayStatuses, NEW ref \in RefundRow \cup {NoRefund},
         Changes(p, status, ref),
         payHolder[payRow[p].booking] \in {NoPayment, r} \/ payRow[p].status \in {"PENDING", "EXPIRED"},
         ref # NoRefund => ref.refused \/ status \in {"REFUND_PENDING", "REFUNDED"},
         status \in {"REFUND_PENDING", "REFUNDED"} => ref # NoRefund
  PROVE  /\ PaymentsGoOn /\ NoNewPayment /\ RefundsWait(r)
         /\ \A q \in PayRequests : RefundFits(q)'
         /\ payRow'[p] # NoPayment /\ payRow'[p].status = status /\ refundRow'[p] = ref
         /\ payRow' \in [PayRequests -> PayRow \cup {NoPayment}]
         /\ refundRow' \in [PayRequests -> RefundRow \cup {NoRefund}]
         /\ \A q \in PayRequests \ {p} : payRow'[q] = payRow[q] /\ refundRow'[q] = refundRow[q]
  <1>1. payRow[p] \in PayRow /\ NoPayment \notin PayRow
    BY PaymentRequestsAssumption DEF RequestsTypeOK
  <1>2. /\ [payRow[p] EXCEPT !.status = status] \in PayRow
        /\ [payRow[p] EXCEPT !.status = status].status = status
        /\ [payRow[p] EXCEPT !.status = status].booking = payRow[p].booking
        /\ [payRow[p] EXCEPT !.status = status].method = payRow[p].method
        /\ [payRow[p] EXCEPT !.status = status].key = payRow[p].key
        /\ [payRow[p] EXCEPT !.status = status].by = payRow[p].by
    BY <1>1 DEF PayRow
  <1>3. /\ payRow'[p] = [payRow[p] EXCEPT !.status = status]
        /\ \A q \in PayRequests \ {p} : payRow'[q] = payRow[q]
        /\ payRow' \in [PayRequests -> PayRow \cup {NoPayment}]
    BY <1>2 DEF RequestsTypeOK, Changes
  <1>4. /\ refundRow'[p] = ref /\ \A q \in PayRequests \ {p} : refundRow'[q] = refundRow[q]
        /\ refundRow' \in [PayRequests -> RefundRow \cup {NoRefund}]
    BY DEF RequestsTypeOK, Changes
  <1>5. payRow'[p] # NoPayment /\ payRow'[p].status = status
    BY <1>1, <1>2, <1>3
  <1>6. PaymentsGoOn /\ NoNewPayment
    BY <1>2, <1>3, <1>5 DEF PaymentsGoOn, NoNewPayment
  <1>7. \A q \in PayRequests : RefundFits(q)'
    <2>1. \A q \in PayRequests : RefundFits(q)
      BY DEF RequestsInv
    <2>2. RefundFits(p)'
      BY <1>4, <1>5 DEF RefundFits
    <2>3. ASSUME NEW q \in PayRequests \ {p} PROVE RefundFits(q)'
      BY <1>3, <1>4, <2>1 DEF RefundFits
    <2> QED BY <2>2, <2>3
  <1>8. RefundsWait(r)
    <2> SUFFICES ASSUME NEW s \in PayRequests \ {r}, ~IsPaymentRequest(s), payStage[s] \in {"free", "written"}
                 PROVE  PayAsk[s].payment # p
      BY <1>3, <1>4, RequestTypes DEF RefundsWait
    <2>1. RequestHolds(s)
      BY DEF RequestsInv
    <2>2. /\ payHolder[payRow[PayAsk[s].payment].booking] = s
          /\ payRow[PayAsk[s].payment].status \notin {"PENDING", "EXPIRED"}
      BY <2>1 DEF RequestHolds, BookingOf, IsPaymentRequest
    <2> QED BY <2>2, PaymentRequestsAssumption
  <1> QED BY <1>3, <1>4, <1>5, <1>6, <1>7, <1>8

\* A request about a refund is answered when its transaction has changed the
\* payment.
LEMMA RefundAnswerKeepsRequests ==
  ASSUME RequestsTypeOK, RequestsInv, NEW r \in PayRequests, ~IsPaymentRequest(r), payStage[r] # "done",
         payRow[PayAsk[r].payment] # NoPayment,
         PaymentsGoOn, NoNewPayment, NoNewRefund, RefundsWait(r), \A q \in PayRequests : RefundFits(q)',
         NEW reply \in NoPaymentReplies \cup PayRequests, Reply(r, reply)
  PROVE  RequestsInv'
  <1>1. OnlyMoves(r) /\ payStage'[r] = "done" /\ payReply'[r] = reply
    BY Answering
  <1>2. RequestHolds(r)'
    BY <1>1, RequestTypes DEF RequestHolds, IsPaymentRequest, PaymentsGoOn
  <1>3. ReplyIsTrue(r)'
    BY DEF ReplyIsTrue, IsPaymentRequest
  <1>4. KeysAreFree' /\ OneOfKey'
    BY <1>1, KeysStayFree
  <1> QED BY <1>1, <1>2, <1>3, <1>4, StepKeepsRequests DEF NoNewPayment

LEMMA RefundTypes ==
  ASSUME RequestsTypeOK, RequestsInv, NEW r \in PayRequests, ~IsPaymentRequest(r),
         payStage[r] \notin {"absent", "new"}
  PROVE  /\ PayAsk[r].payment \in PayRequests /\ payRow[PayAsk[r].payment] # NoPayment
         /\ payRow[PayAsk[r].payment] \in PayRow
         /\ BookingOf(r) = payRow[PayAsk[r].payment].booking /\ BookingOf(r) \in PayBookings
         /\ payStage[r] \in {"locked", "free", "written"} => payHolder[BookingOf(r)] = r
         /\ \A x \in {"none", "notFound", "refused", "denied", "rejected", "tooLate", "unknown", "error"} :
              x \in NoPaymentReplies /\ x \notin PayRequests
  BY RequestTypes, PaymentRequestsAssumption
     DEF RequestsInv, RequestHolds, RequestsTypeOK, BookingOf, IsPaymentRequest, PayRow, NoPaymentReplies

LEMMA LockForRefundKeepsRequests ==
  ASSUME RequestsTypeOK, RequestsInv, NEW r \in PayRequests, LockForRefund(r)
  PROVE  RequestsInv'
  <1>1. /\ UNCHANGED <<payRow, refundRow>> /\ ~IsPaymentRequest(r) /\ payStage[r] = "new"
        /\ payRow[PayAsk[r].payment] # NoPayment
    BY RequestTypes DEF LockForRefund, PayAt
  <1>2. CASE Reply(r, "denied")
    <2>1. "denied" \in NoPaymentReplies
      BY DEF NoPaymentReplies
    <2> QED BY <1>1, <1>2, <2>1, NothingWrittenAnswer
  <1>3. CASE LockPayBooking(r)
    <2>1. BookingOf(r) \in PayBookings /\ BookingOf(r)' = BookingOf(r)
      BY <1>1, BookingsGoOn, RowsStay
    <2>2. OnlyMoves(r) /\ payStage'[r] = "locked" /\ payHolder'[BookingOf(r)] = r
      BY <1>3, <2>1, PaymentRequestsAssumption
         DEF LockPayBooking, BookingIsFree, GoTo, OnlyMoves, RequestsTypeOK
    <2>3. RequestHolds(r)'
      BY <1>1, <2>1, <2>2, RequestTypes DEF RequestHolds, IsPaymentRequest
    <2>4. ReplyIsTrue(r)'
      BY <1>1 DEF ReplyIsTrue, IsPaymentRequest
    <2> QED BY <1>1, <2>2, <2>3, <2>4, NothingWritten
  <1> QED BY <1>2, <1>3 DEF LockForRefund

\* A request about a refund that writes nothing goes on, its lock kept if it
\* stays in its transaction.
LEMMA RefundGoesOn ==
  ASSUME RequestsTypeOK, RequestsInv, NEW r \in PayRequests, ~IsPaymentRequest(r),
         payStage[r] \notin {"absent", "new", "done"}, UNCHANGED <<payRow, refundRow, payReply>>,
         NEW where \in {"free", "sending", "reconciling", "querying"}, GoTo(r, where),
         UNCHANGED payHolder \/ Unlock(r),
         where = "free" =>
           /\ UNCHANGED payHolder /\ payStage[r] = "locked"
           /\ refundRow[PayAsk[r].payment] = NoRefund /\ IsVnPay(PayAsk[r].payment)
           /\ payRow[PayAsk[r].payment].status \in {"SUCCESS", "REQUIRES_REVIEW"}
  PROVE  RequestsInv'
  <1>1. OnlyMoves(r) /\ payStage'[r] = where
    BY Moving DEF PayStageSet
  <1>2. payRow[PayAsk[r].payment] # NoPayment /\ (where = "free" => payHolder[BookingOf(r)] = r)
    BY RefundTypes
  <1>3. BookingOf(r)' = BookingOf(r)
    BY <1>2, BookingsGoOn, RowsStay
  <1>4. RequestHolds(r)'
    BY <1>1, <1>2, <1>3, RequestTypes DEF RequestHolds, IsPaymentRequest, IsVnPay
  <1>5. ReplyIsTrue(r)'
    BY DEF ReplyIsTrue, IsPaymentRequest
  <1> QED BY <1>1, <1>4, <1>5, NothingWritten

LEMMA PrepareRefundKeepsRequests ==
  ASSUME RequestsTypeOK, RequestsInv, NEW r \in PayRequests, PrepareVnPayRefund(r)
  PROVE  RequestsInv'
  <1>1. /\ UNCHANGED <<payRow, refundRow>> /\ ~IsPaymentRequest(r) /\ payStage[r] = "locked"
        /\ IsVnPay(PayAsk[r].payment)
    BY RequestTypes DEF PrepareVnPayRefund, PayAt
  <1>2. CASE \E reply \in {"refused", "denied", "rejected", PayAsk[r].payment} : Reply(r, reply)
    BY <1>1, <1>2, RefundTypes, NothingWrittenAnswer
  <1>3. CASE Unlock(r) /\ GoTo(r, "reconciling") /\ UNCHANGED payReply
    BY <1>1, <1>3, RefundGoesOn
  <1>4. CASE /\ refundRow[PayAsk[r].payment] = NoRefund
             /\ payRow[PayAsk[r].payment].status \in {"SUCCESS", "REQUIRES_REVIEW"}
             /\ GoTo(r, "free") /\ UNCHANGED <<payHolder, payReply>>
    BY <1>1, <1>4, RefundGoesOn
  <1> QED BY <1>2, <1>3, <1>4 DEF PrepareVnPayRefund

LEMMA CreateRefundKeepsRequests ==
  ASSUME RequestsTypeOK, RequestsInv, NEW r \in PayRequests, CreateRefund(r)
  PROVE  RequestsInv'
  <1>1. /\ UNCHANGED <<payRow, refundRow>> /\ ~IsPaymentRequest(r) /\ payStage[r] = "free"
        /\ RequestHolds(r)
    BY RequestTypes DEF CreateRefund, PayAt, RequestsInv
  <1>2. CASE Reply(r, "refused")
    BY <1>1, <1>2, RefundTypes, NothingWrittenAnswer
  <1>3. CASE RefundsOfKey(PayAsk[r].key) = {} /\ GoTo(r, "written") /\ UNCHANGED <<payHolder, payReply>>
    <2>1. OnlyMoves(r) /\ payStage'[r] = "written"
      BY <1>3, Moving DEF PayStageSet
    <2>2. BookingOf(r)' = BookingOf(r)
      BY <1>1, BookingsGoOn, RowsStay, RefundTypes
    <2>3. RequestHolds(r)' /\ ReplyIsTrue(r)'
      BY <1>1, <1>3, <2>1, <2>2 DEF RequestHolds, ReplyIsTrue, IsPaymentRequest, IsVnPay
    <2>4. \A s \in PayRequests \ {r} :
            ~IsPaymentRequest(s) /\ payStage[s] = "written" => PayAsk[s].key # PayAsk[r].key
      BY RequestTypes DEF CreateRefund, KeyIsBeingWritten, PayAt
    <2>5. /\ \A k : PaymentsOfKey(k)' = PaymentsOfKey(k) /\ RefundsOfKey(k)' = RefundsOfKey(k)
          /\ OneOfKey'
      BY <1>1 DEF PaymentsOfKey, RefundsOfKey, OneOfKey, RequestsInv
    <2>6. KeysAreFree'
      BY <1>1, <1>3, <2>1, <2>4, <2>5 DEF KeysAreFree, RequestsInv, OnlyMoves, IsPaymentRequest
    <2> QED BY <1>1, <2>1, <2>3, <2>5, <2>6, RowsStay, StepKeepsRequests DEF NoNewPayment
  <1> QED BY <1>2, <1>3 DEF CreateRefund

LEMMA CommittedRefund ==
  ASSUME RequestsTypeOK, RequestsInv, NEW r \in PayRequests, CommitRefund(r)
  PROVE  /\ PaymentsGoOn /\ NoNewPayment /\ RefundsWait(r) /\ \A q \in PayRequests : RefundFits(q)'
         /\ refundRow'[PayAsk[r].payment].key = PayAsk[r].key
         /\ payRow' \in [PayRequests -> PayRow \cup {NoPayment}]
         /\ refundRow' \in [PayRequests -> RefundRow \cup {NoRefund}]
         /\ \A q \in PayRequests \ {PayAsk[r].payment} : refundRow'[q] = refundRow[q]
         /\ \A q \in PayRequests : PaymentMoves(q)
  <1>0. PICK p : p = PayAsk[r].payment
    OBVIOUS
  <1>1. /\ p \in PayRequests /\ payRow[p] # NoPayment /\ payRow[p] \in PayRow
        /\ payHolder[payRow[p].booking] = r
        /\ payRow[p].status \in {"SUCCESS", "REQUIRES_REVIEW"}
    <2>1. RequestHolds(r) /\ ~IsPaymentRequest(r) /\ payStage[r] = "written"
      BY RequestTypes DEF CommitRefund, PayAt, RequestsInv
    <2> QED BY <1>0, <2>1, RefundTypes DEF RequestHolds
  <1>2. PICK ref : ref = [key |-> PayAsk[r].key, before |-> payRow[p].status, refused |-> FALSE]
    OBVIOUS
  <1>3. /\ ref \in RefundRow /\ ref.key = PayAsk[r].key /\ ref # NoRefund /\ ref.before = payRow[p].status
    <2>1. payRow[p].status \in PayStatuses /\ PayAsk[r].key \in PayKeys
      BY <1>1, RequestTypes DEF PayRow
    <2>2. ref \in RefundRow
      BY <1>2, <2>1 DEF RefundRow
    <2> QED BY <1>2, <2>2, PaymentRequestsAssumption
  <1>4. Changes(p, "REFUND_PENDING", ref)
    BY <1>0, <1>2 DEF CommitRefund, Changes
  <1>5. "REFUND_PENDING" \in PayStatuses
    BY DEF PayStatuses
  <1>6. /\ payRow'[p] # NoPayment /\ payRow'[p].status = "REFUND_PENDING" /\ refundRow'[p] = ref
        /\ \A q \in PayRequests \ {p} : payRow'[q] = payRow[q] /\ refundRow'[q] = refundRow[q]
    BY <1>1, <1>3, <1>4, <1>5, OnePaymentChanges
  <1>7. \A q \in PayRequests : PaymentMoves(q)
    BY <1>1, <1>3, <1>6 DEF PaymentMoves
  <1> QED BY <1>0, <1>1, <1>3, <1>4, <1>5, <1>7, OnePaymentChanges

LEMMA CommitRefundKeepsRequests ==
  ASSUME RequestsTypeOK, RequestsInv, NEW r \in PayRequests, CommitRefund(r)
  PROVE  RequestsInv'
  <1> USE CommittedRefund
  <1>0. PICK p : p = PayAsk[r].payment
    OBVIOUS
  <1>1. /\ ~IsPaymentRequest(r) /\ payStage[r] = "written" /\ RequestHolds(r) /\ KeysAreFree /\ OneOfKey
        /\ p \in PayRequests /\ payRow[p] # NoPayment
    BY <1>0, RequestTypes, RefundTypes DEF CommitRefund, PayAt, RequestsInv
  <1>2. OnlyMoves(r) /\ payStage'[r] \in {"done", "sending"}
    <2>1. CASE Reply(r, "error")
      BY <1>1, <2>1, RefundTypes, Answering
    <2>2. CASE Unlock(r) /\ GoTo(r, "sending") /\ UNCHANGED payReply
      BY <2>2, Moving DEF PayStageSet
    <2> QED BY <2>1, <2>2 DEF CommitRefund
  <1>3. RequestHolds(r)' /\ ReplyIsTrue(r)'
    BY <1>0, <1>1, <1>2, RequestTypes DEF RequestHolds, ReplyIsTrue, IsPaymentRequest, PaymentsGoOn
  <1>4. \A q \in PayRequests : refundRow[q] # NoRefund => refundRow[q].key # PayAsk[r].key
    BY <1>1 DEF KeysAreFree, RefundsOfKey
  <1>5. OneOfKey'
    BY <1>0, <1>1, <1>4 DEF OneOfKey, PaymentsGoOn, NoNewPayment
  <1>6. KeysAreFree'
    <2>1. ASSUME NEW s \in PayRequests, payStage'[s] = "written"
          PROVE  /\ s # r /\ payStage[s] = "written"
                 /\ IsPaymentRequest(s) => PaymentsOfKey(PayAsk[s].key)' = {}
                 /\ ~IsPaymentRequest(s) => RefundsOfKey(PayAsk[s].key)' = {}
      <3>1. s # r /\ payStage[s] = "written"
        BY <1>2, <2>1 DEF OnlyMoves
      <3>2. ~IsPaymentRequest(s) => PayAsk[s].key # PayAsk[r].key /\ RefundsOfKey(PayAsk[s].key) = {}
        BY <1>1, <3>1 DEF KeysAreFree
      <3>3. IsPaymentRequest(s) => PaymentsOfKey(PayAsk[s].key)' = {}
        BY <1>1, <3>1 DEF KeysAreFree, PaymentsOfKey, PaymentsGoOn, NoNewPayment
      <3>4. ~IsPaymentRequest(s) => RefundsOfKey(PayAsk[s].key)' = {}
        BY <1>0, <3>2 DEF RefundsOfKey
      <3> QED BY <3>1, <3>3, <3>4
    <2> QED BY <1>1, <2>1 DEF KeysAreFree, IsPaymentRequest
  <1> QED BY <1>1, <1>2, <1>3, <1>5, <1>6, StepKeepsRequests DEF NoNewPayment

\* What VNPay says of a pending refund is recorded while the booking is free.
LEMMA OutcomeApplied ==
  ASSUME RequestsTypeOK, RequestsInv, NEW r \in PayRequests, NEW p \in PayRequests, payRow[p] # NoPayment,
         payRow[p].status = "REFUND_PENDING", BookingIsFree(payRow[p].booking),
         NEW o \in Outcomes(p), Changes(p, o.status, o.refund)
  PROVE  /\ PaymentsGoOn /\ NoNewPayment /\ NoNewRefund /\ RefundsWait(r)
         /\ \A q \in PayRequests : RefundFits(q)'
         /\ payRow' \in [PayRequests -> PayRow \cup {NoPayment}]
         /\ refundRow' \in [PayRequests -> RefundRow \cup {NoRefund}]
         /\ \A q \in PayRequests : PaymentMoves(q)
  <1>1. RefundFits(p) /\ refundRow[p] \in RefundRow /\ NoRefund \notin RefundRow
    BY PaymentRequestsAssumption DEF RequestsInv, RefundFits, RequestsTypeOK
  <1>2. /\ [refundRow[p] EXCEPT !.refused = TRUE] \in RefundRow
        /\ [refundRow[p] EXCEPT !.refused = TRUE].key = refundRow[p].key
        /\ [refundRow[p] EXCEPT !.refused = TRUE].refused
        /\ [refundRow[p] EXCEPT !.refused = TRUE].before = refundRow[p].before
        /\ refundRow[p].before \in PayStatuses
    BY <1>1 DEF RefundRow
  <1>3. /\ o.status \in PayStatuses /\ o.refund \in RefundRow /\ o.refund.key = refundRow[p].key
        /\ o.refund.refused \/ o.status \in {"REFUND_PENDING", "REFUNDED"}
        /\ o.refund.before = refundRow[p].before
        /\ o.status \in {"REFUND_PENDING", "REFUNDED", refundRow[p].before}
    <2>1. PICK gone : gone = [refundRow[p] EXCEPT !.refused = TRUE]
      OBVIOUS
    <2>2. \/ o.status = "REFUND_PENDING" /\ o.refund = refundRow[p]
          \/ o.status = "REFUNDED" /\ o.refund = refundRow[p]
          \/ o.status = refundRow[p].before /\ o.refund = gone
      <3>1. \/ o = [status |-> payRow[p].status, refund |-> refundRow[p]]
            \/ o = [status |-> "REFUNDED", refund |-> refundRow[p]]
            \/ o = [status |-> refundRow[p].before, refund |-> gone]
        BY <2>1, Zenon DEF Outcomes
      <3> QED BY <3>1
    <2>3. "REFUND_PENDING" \in PayStatuses /\ "REFUNDED" \in PayStatuses
      BY DEF PayStatuses
    <2> QED BY <1>1, <1>2, <2>1, <2>2, <2>3
  <1>4. PICK status, ref : status = o.status /\ ref = o.refund /\ Changes(p, status, ref)
    OBVIOUS
  <1>5. /\ PaymentsGoOn /\ NoNewPayment /\ RefundsWait(r) /\ \A q \in PayRequests : RefundFits(q)'
        /\ payRow' \in [PayRequests -> PayRow \cup {NoPayment}]
        /\ refundRow' \in [PayRequests -> RefundRow \cup {NoRefund}]
        /\ refundRow'[p] = ref /\ \A q \in PayRequests \ {p} : refundRow'[q] = refundRow[q]
        /\ payRow'[p] # NoPayment /\ payRow'[p].status = status
        /\ \A q \in PayRequests \ {p} : payRow'[q] = payRow[q]
    BY <1>1, <1>3, <1>4, OnePaymentChanges DEF BookingIsFree
  <1>6. NoNewRefund
    BY <1>1, <1>3, <1>4, <1>5 DEF NoNewRefund
  <1>7. \A q \in PayRequests : PaymentMoves(q)
    BY <1>1, <1>3, <1>4, <1>5 DEF PaymentMoves
  <1> QED BY <1>5, <1>6, <1>7

LEMMA RefundResultKeepsRequests ==
  ASSUME RequestsTypeOK, RequestsInv, NEW r \in PayRequests,
         ApplyRefundResult(r) \/ Reconcile(r) \/ ApplyReconciliation(r)
  PROVE  RequestsInv'
  <1>0. PICK p : p = PayAsk[r].payment
    OBVIOUS
  <1>1. /\ ~IsPaymentRequest(r) /\ payStage[r] \in {"sending", "reconciling", "querying"}
        /\ p \in PayRequests /\ payRow[p] # NoPayment
        /\ \A x \in {"rejected", "tooLate", "unknown", p} : x \in NoPaymentReplies \cup PayRequests
    <2>1. payStage[r] \in {"sending", "reconciling", "querying"}
      BY DEF ApplyRefundResult, Reconcile, ApplyReconciliation
    <2>2. RequestHolds(r)
      BY DEF RequestsInv
    <2>3. ~IsPaymentRequest(r)
      BY <2>1, <2>2 DEF RequestHolds
    <2>4. p \in PayRequests /\ payRow[p] # NoPayment
      BY <1>0, <2>1, <2>3, RefundTypes
    <2>5. \A x \in {"rejected", "tooLate", "unknown", p} : x \in NoPaymentReplies \cup PayRequests
      BY <2>4 DEF NoPaymentReplies
    <2> QED BY <2>1, <2>3, <2>4, <2>5
  <1>2. CASE UNCHANGED <<payRow, refundRow>> /\ \E reply \in {"tooLate", "unknown", p} : Reply(r, reply)
    BY <1>0, <1>1, <1>2, NothingWrittenAnswer
  <1>3. ASSUME BookingIsFree(payRow[p].booking), payRow[p].status = "REFUND_PENDING",
               NEW o \in Outcomes(p), Changes(p, o.status, o.refund),
               NEW reply \in {"rejected", "unknown", p}, Reply(r, reply)
        PROVE  RequestsInv'
    BY <1>0, <1>1, <1>3, OutcomeApplied, RefundAnswerKeepsRequests
  <1>4. CASE ApplyRefundResult(r)
    <2>1. CASE payRow[p].status # "REFUND_PENDING"
      BY <1>0, <1>2, <1>4, <2>1 DEF ApplyRefundResult
    <2>2. CASE payRow[p].status = "REFUND_PENDING"
      <3>1. PICK o \in Outcomes(p) :
              /\ Changes(p, o.status, o.refund)
              /\ \E reply \in CASE o.status = "REFUND_PENDING" -> {p, "unknown"}
                                [] o.status = "REFUNDED" -> {p}
                                [] OTHER -> {"rejected"} : Reply(r, reply)
        BY <1>0, <1>4, <2>2 DEF ApplyRefundResult, Changes
      <3>2. PICK reply \in {"rejected", "unknown", p} : Reply(r, reply)
        BY <3>1
      <3> QED BY <1>0, <1>3, <1>4, <2>2, <3>1, <3>2 DEF ApplyRefundResult
    <2> QED BY <2>1, <2>2
  <1>5. CASE Reconcile(r)
    <2>1. CASE Reply(r, "tooLate")
      BY <1>2, <1>5, <2>1 DEF Reconcile
    <2>2. CASE GoTo(r, "querying") /\ UNCHANGED <<payHolder, payReply>>
      BY <1>1, <1>5, <2>2, RefundGoesOn DEF Reconcile
    <2> QED BY <1>5, <2>1, <2>2 DEF Reconcile
  <1>6. CASE ApplyReconciliation(r)
    <2>1. CASE UNCHANGED <<payRow, refundRow>> /\ \E reply \in {p, "unknown"} : Reply(r, reply)
      BY <1>2, <2>1
    <2>2. CASE /\ payRow[p].status = "REFUND_PENDING" /\ Reply(r, p)
               /\ \E o \in Outcomes(p) : Changes(p, o.status, o.refund)
      BY <1>0, <1>3, <1>6, <2>2 DEF ApplyReconciliation
    <2> QED BY <1>0, <1>6, <2>1, <2>2 DEF ApplyReconciliation, Changes
  <1> QED BY <1>4, <1>5, <1>6

LEMMA ManualRefundWritten ==
  ASSUME RequestsTypeOK, RequestsInv, NEW r \in PayRequests, ~IsPaymentRequest(r), payStage[r] = "locked",
         NEW p \in PayRequests, p = PayAsk[r].payment,
         NEW ref, ref = [key |-> NoKey, before |-> payRow[p].status, refused |-> FALSE],
         payRow[p].status = "SUCCESS", Changes(p, "REFUNDED", ref)
  PROVE  /\ PaymentsGoOn /\ NoNewPayment /\ NoNewRefund /\ RefundsWait(r)
         /\ \A q \in PayRequests : RefundFits(q)'
         /\ payRow' \in [PayRequests -> PayRow \cup {NoPayment}]
         /\ refundRow' \in [PayRequests -> RefundRow \cup {NoRefund}]
         /\ \A q \in PayRequests : PaymentMoves(q)
  <1>1. payRow[p] # NoPayment /\ payRow[p] \in PayRow /\ payHolder[payRow[p].booking] = r
    BY RefundTypes
  <1>2. payRow[p].status \in PayStatuses /\ "REFUNDED" \in PayStatuses
    BY <1>1 DEF PayRow, PayStatuses
  <1>3. ref \in RefundRow /\ ref # NoRefund /\ ref.key = NoKey /\ ref.before = payRow[p].status
    <2>1. ref \in RefundRow
      BY <1>2 DEF RefundRow
    <2> QED BY <2>1, PaymentRequestsAssumption
  <1>4. /\ PaymentsGoOn /\ NoNewPayment /\ RefundsWait(r) /\ \A q \in PayRequests : RefundFits(q)'
        /\ payRow' \in [PayRequests -> PayRow \cup {NoPayment}]
        /\ refundRow' \in [PayRequests -> RefundRow \cup {NoRefund}]
        /\ refundRow'[p] = ref /\ \A q \in PayRequests \ {p} : refundRow'[q] = refundRow[q]
        /\ payRow'[p] # NoPayment /\ payRow'[p].status = "REFUNDED"
        /\ \A q \in PayRequests \ {p} : payRow'[q] = payRow[q]
    BY <1>1, <1>2, <1>3, OnePaymentChanges
  <1>5. NoNewRefund
    BY <1>3, <1>4 DEF NoNewRefund
  <1>6. \A q \in PayRequests : PaymentMoves(q)
    BY <1>1, <1>3, <1>4 DEF PaymentMoves
  <1> QED BY <1>4, <1>5, <1>6

LEMMA ManualRefundKeepsRequests ==
  ASSUME RequestsTypeOK, RequestsInv, NEW r \in PayRequests, RefundManual(r)
  PROVE  RequestsInv'
  <1>0. PICK p : p = PayAsk[r].payment
    OBVIOUS
  <1>1. /\ ~IsPaymentRequest(r) /\ payStage[r] = "locked" /\ p \in PayRequests /\ payRow[p] # NoPayment
        /\ \A x \in {"refused", "error", p} : x \in NoPaymentReplies \cup PayRequests
    BY <1>0, RequestTypes, RefundTypes DEF RefundManual, PayAt
  <1>2. CASE UNCHANGED <<payRow, refundRow>> /\ \E reply \in {"refused", p} : Reply(r, reply)
    BY <1>0, <1>1, <1>2, NothingWrittenAnswer
  <1>3. CASE /\ payRow[p].status = "SUCCESS"
             /\ Changes(p, "REFUNDED", [key |-> NoKey, before |-> payRow[p].status, refused |-> FALSE])
             /\ \E reply \in {p, "error"} : Reply(r, reply)
    BY <1>0, <1>1, <1>3, ManualRefundWritten, RefundAnswerKeepsRequests
  <1> QED BY <1>0, <1>2, <1>3 DEF RefundManual, Changes

\* An attempt succeeds, for the booking or for a review, or fails.
LEMMA DecidedAttempt ==
  ASSUME RequestsTypeOK, RequestsInv, NEW p \in PayRequests, AttemptDecided(p)
  PROVE  /\ PaymentsGoOn /\ NoNewPayment /\ NoNewRefund /\ RefundsWait(p)
         /\ \A q \in PayRequests : RefundFits(q)' /\ PaymentMoves(q)
         /\ payRow' \in [PayRequests -> PayRow \cup {NoPayment}]
         /\ payRow[p] # NoPayment /\ payRow[p].booking \in PayBookings
         /\ payRow[p].status \in {"PENDING", "EXPIRED"} /\ payRow'[p] # NoPayment
         /\ payRow' = [payRow EXCEPT ![p].status = "SUCCESS"] => payRow'[p].status = "SUCCESS"
         /\ payRow' = [payRow EXCEPT ![p].status = "REQUIRES_REVIEW"] => payRow'[p].status = "REQUIRES_REVIEW"
  <1>1. /\ payRow[p] # NoPayment /\ payRow[p].status \in {"PENDING", "EXPIRED"}
        /\ payRow[p] \in PayRow /\ payRow[p].booking \in PayBookings
    BY DEF AttemptDecided, RequestsTypeOK, PayRow
  <1>2. PICK status \in {"SUCCESS", "REQUIRES_REVIEW", "FAILED"} : payRow' = [payRow EXCEPT ![p].status = status]
    BY DEF AttemptDecided, AttemptSucceeds
  <1>3. PICK ref \in RefundRow \cup {NoRefund} : ref = refundRow[p]
    BY DEF RequestsTypeOK
  <1>4. Changes(p, status, ref)
    <2>1. refundRow' = [refundRow EXCEPT ![p] = ref]
      BY <1>3 DEF AttemptDecided, RequestsTypeOK
    <2> QED BY <1>2, <2>1 DEF Changes
  <1>5. status \in PayStatuses
    BY DEF PayStatuses
  <1>6. RefundFits(p)
    BY DEF RequestsInv
  <1>7. ref # NoRefund => ref.refused
    BY <1>1, <1>3, <1>6 DEF RefundFits
  <1>8. /\ PaymentsGoOn /\ NoNewPayment /\ RefundsWait(p) /\ \A q \in PayRequests : RefundFits(q)'
        /\ payRow' \in [PayRequests -> PayRow \cup {NoPayment}] /\ payRow'[p] # NoPayment
        /\ refundRow'[p] = ref
        /\ \A q \in PayRequests \ {p} : payRow'[q] = payRow[q] /\ refundRow'[q] = refundRow[q]
    BY <1>1, <1>4, <1>5, <1>7, OnePaymentChanges
  <1>9. NoNewRefund
    BY DEF AttemptDecided, NoNewRefund
  <1>10. \A q \in PayRequests : PaymentMoves(q)
    BY <1>1, <1>3, <1>8 DEF PaymentMoves
  <1>11. /\ payRow' = [payRow EXCEPT ![p].status = "SUCCESS"] => payRow'[p].status = "SUCCESS"
         /\ payRow' = [payRow EXCEPT ![p].status = "REQUIRES_REVIEW"] => payRow'[p].status = "REQUIRES_REVIEW"
    BY <1>1 DEF RequestsTypeOK, PayRow
  <1> QED BY <1>1, <1>8, <1>9, <1>10, <1>11

\* What an attempt that is decided makes of its booking.
LEMMA DecidedBooking ==
  ASSUME RequestsTypeOK, RequestsInv, NEW p \in PayRequests, AttemptDecided(p)
  PROVE  /\ payable' \in [PayBookings -> BOOLEAN]
         /\ acceptedPayment' \in [PayBookings -> PayRequests \cup {NoPayment}]
         /\ canonicalOf' \in [PayRequests -> PayRequests \cup {NoPayment}]
  <1>1. PICK b \in PayBookings : b = payRow[p].booking
    BY DecidedAttempt
  <1>2. CASE UNCHANGED <<payable, acceptedPayment, canonicalOf>>
    BY <1>2 DEF RequestsTypeOK
  <1>3. CASE /\ payable' = [payable EXCEPT ![b] = FALSE]
             /\ acceptedPayment' = [acceptedPayment EXCEPT ![b] = p]
             /\ UNCHANGED canonicalOf
    BY <1>3 DEF RequestsTypeOK
  <1>4. CASE /\ \E q \in PayRequests \cup {NoPayment} : canonicalOf' = [canonicalOf EXCEPT ![p] = q]
             /\ UNCHANGED <<payable, acceptedPayment>>
    BY <1>4 DEF RequestsTypeOK
  <1>5. (IF BookingIsRefunded(b) THEN NoPayment ELSE acceptedPayment[b]) \in PayRequests \cup {NoPayment}
    BY DEF RequestsTypeOK
  <1> QED BY <1>1, <1>2, <1>3, <1>4, <1>5 DEF AttemptDecided, AttemptSucceeds

LEMMA WorldKeepsRequests ==
  ASSUME RequestsTypeOK, RequestsInv,
         \/ \E p \in PayRequests : AttemptDecided(p) \/ AttemptOverdue(p)
         \/ \E b \in PayBookings : BookingClosed(b)
         \/ UNCHANGED requestVars
  PROVE  RequestsInv'
  <1>1. CASE UNCHANGED <<payRow, refundRow, payHolder, payStage, payReply>>
    <2>1. \A p \in PayRequests : PaymentIsTrue(p) /\ RefundFits(p) /\ RequestHolds(p) /\ ReplyIsTrue(p)
      BY DEF RequestsInv
    <2>2. ASSUME NEW p \in PayRequests
          PROVE  PaymentIsTrue(p)' /\ RefundFits(p)' /\ RequestHolds(p)' /\ ReplyIsTrue(p)'
      BY <1>1, <2>1 DEF PaymentIsTrue, RefundFits, RequestHolds, ReplyIsTrue, BookingOf, IsVnPay,
         IsPaymentRequest, NewPayment
    <2>3. KeysAreFree' /\ OneOfKey'
      BY <1>1 DEF RequestsInv, KeysAreFree, OneOfKey, PaymentsOfKey, RefundsOfKey, IsPaymentRequest
    <2> QED BY <2>2, <2>3 DEF RequestsInv
  <1>2. ASSUME NEW p \in PayRequests, AttemptDecided(p) PROVE RequestsInv'
    <2>1. UNCHANGED <<refundRow, payHolder, payStage, payReply>>
      BY <1>2 DEF AttemptDecided
    <2>2. payStage[p] = "done" /\ IsPaymentRequest(p) /\ ReplyIsTrue(p)
      BY <1>2, DecidedAttempt DEF RequestsInv, PaymentIsTrue
    <2>3. OnlyMoves(p)
      BY <2>1 DEF OnlyMoves
    <2>4. RequestHolds(p)'
      BY <2>1, <2>2, RequestTypes DEF RequestHolds, IsPaymentRequest
    <2>5. ReplyIsTrue(p)'
      BY <1>2, <2>1, <2>2, DecidedAttempt DEF ReplyIsTrue, PaymentsGoOn, IsPaymentRequest
    <2>6. KeysAreFree' /\ OneOfKey'
      BY <1>2, <2>1, <2>2, <2>3, DecidedAttempt, KeysStayFree
    <2> QED BY <1>2, <2>1, <2>2, <2>3, <2>4, <2>5, <2>6, DecidedAttempt, StepKeepsRequests DEF NoNewPayment
  <1> QED BY <1>1, <1>2 DEF AttemptOverdue, BookingClosed, requestVars

\* The steps of one request.
RequestStep(r) ==
  \/ PayFails(r)
  \/ LockForPayment(r) \/ LookUpKey(r) \/ CreatePayment(r)
  \/ ResolveIdempotencyConflict(r) \/ CommitPayment(r)
  \/ LockForRefund(r) \/ PrepareVnPayRefund(r) \/ CreateRefund(r) \/ CommitRefund(r)
  \/ ApplyRefundResult(r) \/ Reconcile(r) \/ ApplyReconciliation(r) \/ RefundManual(r)

LEMMA RequestsInvKept ==
  ASSUME RequestsTypeOK, RequestsInv, [RequestsNext]_requestVars
  PROVE  RequestsInv'
  <1>1. ASSUME NEW r \in PayRequests, RequestStep(r) PROVE RequestsInv'
    BY <1>1, PaymentStepsKeepRequests, CreatePaymentKeepsRequests, CommitPaymentKeepsRequests,
       LockForRefundKeepsRequests, PrepareRefundKeepsRequests, CreateRefundKeepsRequests,
       CommitRefundKeepsRequests, RefundResultKeepsRequests, ManualRefundKeepsRequests DEF RequestStep
  <1> QED BY <1>1, WorldKeepsRequests DEF RequestsNext, RequestStep

ControlTyped ==
  /\ payStage' \in [PayRequests -> PayStageSet]
  /\ payHolder' \in [PayBookings -> PayRequests \cup {NoPayment}]
  /\ payReply' \in [PayRequests -> NoPaymentReplies \cup PayRequests]

\* A step of a request moves that request only, and gives it at most one answer.
LEMMA OneRequestMoves ==
  ASSUME RequestsTypeOK, RequestsInv, NEW r \in PayRequests, RequestStep(r)
  PROVE  ControlTyped /\ OnlyMoves(r)
  <1> USE DEF PayAt
  <1>1. /\ \A x \in {"notFound", "refused", "denied", "rejected", "tooLate", "unknown", "error"} :
             x \in NoPaymentReplies
        /\ \A x \in {"free", "written", "taken", "sending", "reconciling", "querying", "locked"} : x \in PayStageSet
    BY DEF NoPaymentReplies, PayStageSet
  <1>2. ASSUME NEW reply \in NoPaymentReplies \cup PayRequests, Reply(r, reply)
        PROVE  ControlTyped /\ OnlyMoves(r)
    BY <1>2, Answering DEF ControlTyped
  <1>3. ASSUME NEW where \in {"free", "written", "taken", "sending", "reconciling", "querying"}, GoTo(r, where),
               UNCHANGED payHolder \/ Unlock(r), UNCHANGED payReply
        PROVE  ControlTyped /\ OnlyMoves(r)
    BY <1>1, <1>3, Moving DEF ControlTyped
  <1>4. ASSUME LockPayBooking(r) PROVE ControlTyped /\ OnlyMoves(r)
    <2>1. PICK b : b = BookingOf(r)
      OBVIOUS
    <2>2. /\ payHolder[b] = NoPayment /\ payHolder' = [payHolder EXCEPT ![b] = r]
          /\ payStage' = [payStage EXCEPT ![r] = "locked"] /\ UNCHANGED payReply
      BY <1>4, <2>1 DEF LockPayBooking, BookingIsFree, GoTo
    <2>3. OnlyMoves(r)
      BY <2>2, PaymentRequestsAssumption DEF OnlyMoves, RequestsTypeOK
    <2>4. ControlTyped
      BY <2>2 DEF ControlTyped, RequestsTypeOK, PayStageSet
    <2> QED BY <2>3, <2>4
  <1>5. ASSUME ReplyFromKey(r) PROVE ControlTyped /\ OnlyMoves(r)
    BY <1>1, <1>2, <1>5 DEF ReplyFromKey, PaymentsOfKey
  <1>6. CASE PayFails(r)
    BY <1>1, <1>2, <1>6 DEF PayFails
  <1>7. CASE LockForPayment(r)
    BY <1>1, <1>2, <1>4, <1>7 DEF LockForPayment
  <1>8. CASE LookUpKey(r)
    BY <1>1, <1>2, <1>3, <1>5, <1>8 DEF LookUpKey
  <1>9. CASE CreatePayment(r)
    BY <1>3, <1>9 DEF CreatePayment
  <1>10. CASE ResolveIdempotencyConflict(r)
    BY <1>5, <1>10 DEF ResolveIdempotencyConflict
  <1>11. CASE CommitPayment(r)
    BY <1>1, <1>2, <1>11 DEF CommitPayment
  <1>12. CASE LockForRefund(r)
    BY <1>1, <1>2, <1>4, <1>12 DEF LockForRefund
  <1>13. CASE PrepareVnPayRefund(r)
    <2>1. PICK p \in PayRequests : p = PayAsk[r].payment
      BY <1>13, RequestTypes DEF PrepareVnPayRefund
    <2>2. \/ \E reply \in {"refused", "denied", "rejected", p} : Reply(r, reply)
          \/ Unlock(r) /\ GoTo(r, "reconciling") /\ UNCHANGED payReply
          \/ GoTo(r, "free") /\ UNCHANGED <<payHolder, payReply>>
      BY <1>13, <2>1 DEF PrepareVnPayRefund
    <2> QED BY <1>1, <1>2, <1>3, <2>1, <2>2
  <1>14. CASE CreateRefund(r)
    BY <1>1, <1>2, <1>3, <1>14 DEF CreateRefund
  <1>15. CASE CommitRefund(r)
    BY <1>1, <1>2, <1>3, <1>15 DEF CommitRefund
  <1>16. CASE ApplyRefundResult(r) \/ Reconcile(r) \/ ApplyReconciliation(r)
    <2>1. PICK p \in PayRequests : p = PayAsk[r].payment
      BY <1>16, RequestTypes DEF ApplyRefundResult, Reconcile, ApplyReconciliation, RequestsInv, RequestHolds
    <2>2. \/ \E reply \in {"rejected", "tooLate", "unknown", p} : Reply(r, reply)
          \/ GoTo(r, "querying") /\ UNCHANGED <<payHolder, payReply>>
      <3>1. CASE ApplyRefundResult(r)
        BY <2>1, <3>1 DEF ApplyRefundResult
      <3>2. CASE Reconcile(r)
        BY <3>2 DEF Reconcile
      <3>3. CASE ApplyReconciliation(r)
        BY <2>1, <3>3 DEF ApplyReconciliation
      <3> QED BY <1>16, <3>1, <3>2, <3>3
    <2> QED BY <1>1, <1>2, <1>3, <2>1, <2>2
  <1>17. CASE RefundManual(r)
    <2>1. PICK p \in PayRequests : p = PayAsk[r].payment
      BY <1>17, RequestTypes DEF RefundManual
    <2>2. \E reply \in {"refused", "error", p} : Reply(r, reply)
      BY <1>17, <2>1 DEF RefundManual
    <2> QED BY <1>1, <1>2, <2>1, <2>2
  <1> QED BY <1>6, <1>7, <1>8, <1>9, <1>10, <1>11, <1>12, <1>13, <1>14, <1>15, <1>16, <1>17 DEF RequestStep

\* The rows after a step of a request.
LEMMA RowsTyped ==
  ASSUME RequestsTypeOK, RequestsInv, NEW r \in PayRequests, RequestStep(r)
  PROVE  /\ payRow' \in [PayRequests -> PayRow \cup {NoPayment}]
         /\ refundRow' \in [PayRequests -> RefundRow \cup {NoRefund}]
         /\ payable' \in [PayBookings -> BOOLEAN] /\ overdue' = overdue
         /\ acceptedPayment' \in [PayBookings -> PayRequests \cup {NoPayment}] /\ canonicalOf' = canonicalOf
  <1>1. CASE UNCHANGED <<payRow, refundRow, payable, overdue, acceptedPayment, canonicalOf>>
    BY <1>1 DEF RequestsTypeOK
  <1>2. CASE CommitPayment(r)
    <2>1. payable' \in [PayBookings -> BOOLEAN] /\ UNCHANGED <<refundRow, overdue, canonicalOf>>
      <3>1. PICK accepts \in BOOLEAN : accepts = (payable[PayAsk[r].booking] /\ PayAsk[r].kind = "vnpay")
        OBVIOUS
      <3>2. payable' = [payable EXCEPT ![PayAsk[r].booking] = accepts]
        BY <1>2, <3>1 DEF CommitPayment
      <3> QED BY <1>2, <3>2 DEF CommitPayment, RequestsTypeOK
    <2>2. acceptedPayment' \in [PayBookings -> PayRequests \cup {NoPayment}]
      BY <1>2 DEF CommitPayment, RequestsTypeOK
    <2> QED BY <1>2, <2>1, <2>2, CommittedPayments DEF RequestsTypeOK
  <1>3. CASE CommitRefund(r)
    BY <1>3, CommittedRefund DEF CommitRefund, RequestsTypeOK
  <1>4. CASE ApplyRefundResult(r) \/ ApplyReconciliation(r)
    <2>0. PICK p : p = PayAsk[r].payment
      OBVIOUS
    <2>1. p \in PayRequests /\ payRow[p] # NoPayment /\ UNCHANGED <<payable, overdue, acceptedPayment, canonicalOf>>
      BY <1>4, <2>0, RequestTypes DEF ApplyRefundResult, ApplyReconciliation, RequestsInv, RequestHolds
    <2>2. \/ UNCHANGED <<payRow, refundRow>>
          \/ /\ payRow[p].status = "REFUND_PENDING" /\ BookingIsFree(payRow[p].booking)
             /\ \E o \in Outcomes(p) : Changes(p, o.status, o.refund)
      BY <1>4, <2>0 DEF ApplyRefundResult, ApplyReconciliation, Changes
    <2> QED BY <2>1, <2>2, OutcomeApplied DEF RequestsTypeOK
  <1>5. CASE RefundManual(r)
    <2>0. PICK p, ref : p = PayAsk[r].payment /\ ref = [key |-> NoKey, before |-> payRow[p].status, refused |-> FALSE]
      OBVIOUS
    <2>1. /\ ~IsPaymentRequest(r) /\ payStage[r] = "locked" /\ p \in PayRequests
          /\ UNCHANGED <<payable, overdue, acceptedPayment, canonicalOf>>
      BY <1>5, <2>0, RequestTypes DEF RefundManual, PayAt
    <2>2. UNCHANGED <<payRow, refundRow>> \/ (payRow[p].status = "SUCCESS" /\ Changes(p, "REFUNDED", ref))
      BY <1>5, <2>0 DEF RefundManual, Changes
    <2> QED BY <2>0, <2>1, <2>2, ManualRefundWritten DEF RequestsTypeOK
  <1> QED BY <1>1, <1>2, <1>3, <1>4, <1>5
          DEF RequestStep, PayFails, LockForPayment, LookUpKey, CreatePayment, ResolveIdempotencyConflict,
              LockForRefund, PrepareVnPayRefund, CreateRefund, Reconcile

LEMMA RequestsTypesKept ==
  ASSUME RequestsTypeOK, RequestsInv, [RequestsNext]_requestVars
  PROVE  RequestsTypeOK'
  <1>1. ASSUME NEW r \in PayRequests, RequestStep(r) PROVE RequestsTypeOK'
    BY <1>1, OneRequestMoves, RowsTyped DEF RequestsTypeOK, ControlTyped, PayStageSet
  <1>2. ASSUME NEW p \in PayRequests, AttemptDecided(p) PROVE RequestsTypeOK'
    BY <1>2, DecidedAttempt, DecidedBooking DEF AttemptDecided, RequestsTypeOK
  <1>3. ASSUME NEW p \in PayRequests, AttemptOverdue(p) PROVE RequestsTypeOK'
    BY <1>3 DEF AttemptOverdue, RequestsTypeOK
  <1>4. ASSUME NEW b \in PayBookings, BookingClosed(b) PROVE RequestsTypeOK'
    BY <1>4 DEF BookingClosed, RequestsTypeOK
  <1>5. CASE UNCHANGED requestVars
    BY <1>5 DEF requestVars, RequestsTypeOK
  <1> QED BY <1>1, <1>2, <1>3, <1>4, <1>5 DEF RequestsNext, RequestStep

(* What is accepted stays accepted until its refund, and a duplicate charge  *)
(* stays one: the refund that keeps what was before it says so.              *)

BeforeFits(p) ==
  refundRow[p] # NoRefund =>
    /\ refundRow[p].before \in {"SUCCESS", "REQUIRES_REVIEW"}
    /\ payRow[p].status \in {"REFUND_PENDING", "REFUNDED", refundRow[p].before}

\* The payment has been accepted by its booking.
IsAccepted(p) ==
  /\ payRow[p] # NoPayment /\ payRow[p].status \in {"SUCCESS", "REFUND_PENDING", "REFUNDED"}
  /\ refundRow[p] # NoRefund => refundRow[p].before = "SUCCESS"

\* The payment has been kept for a review.
IsReviewed(p) ==
  /\ payRow[p] # NoPayment /\ IsVnPay(p)
  /\ \/ payRow[p].status = "REQUIRES_REVIEW"
     \/ payRow[p].status \in {"REFUND_PENDING", "REFUNDED"} /\ refundRow[p].before = "REQUIRES_REVIEW"

CanonicalInv ==
  /\ \A p \in PayRequests : BeforeFits(p)
  /\ \A p \in PayRequests : canonicalOf[p] # NoPayment => IsReviewed(p) /\ IsAccepted(canonicalOf[p])
  /\ \A b \in PayBookings : acceptedPayment[b] # NoPayment => IsAccepted(acceptedPayment[b])

PaymentGoesOn(p) ==
  payRow[p] # NoPayment => payRow'[p] # NoPayment /\ payRow'[p].method = payRow[p].method

LEMMA MovesKeepVerdicts ==
  ASSUME RequestsTypeOK, RequestsInv, NEW p \in PayRequests, BeforeFits(p), PaymentMoves(p), RefundFits(p)',
         PaymentGoesOn(p)
  PROVE  /\ BeforeFits(p)'
         /\ IsAccepted(p) => IsAccepted(p)'
         /\ IsReviewed(p) => IsReviewed(p)'
  <1>1. RefundFits(p)
    BY DEF RequestsInv
  <1>2. CASE payRow'[p] = payRow[p] /\ refundRow'[p] = refundRow[p]
    BY <1>2 DEF BeforeFits, IsAccepted, IsReviewed, IsVnPay, PaymentGoesOn
  <1>3. CASE /\ payRow[p] = NoPayment \/ payRow[p].status \in {"PENDING", "EXPIRED"}
             /\ refundRow'[p] = refundRow[p]
    <2>1. refundRow[p] = NoRefund
      BY <1>1, <1>3 DEF RefundFits, BeforeFits
    <2>2. ~IsAccepted(p) /\ ~IsReviewed(p)
      BY <1>3 DEF IsAccepted, IsReviewed
    <2> QED BY <1>3, <2>1, <2>2 DEF BeforeFits
  <1>4. CASE /\ payRow[p] # NoPayment /\ payRow'[p] # NoPayment /\ refundRow'[p] # NoRefund
             /\ payRow[p].status \in {"SUCCESS", "REQUIRES_REVIEW"} /\ refundRow'[p].before = payRow[p].status
             /\ payRow'[p].status \in {"REFUND_PENDING", "REFUNDED"}
    BY <1>4 DEF BeforeFits, IsAccepted, IsReviewed, IsVnPay, PaymentGoesOn
  <1>5. CASE /\ payRow[p] # NoPayment /\ payRow'[p] # NoPayment /\ refundRow[p] # NoRefund /\ refundRow'[p] # NoRefund
             /\ payRow[p].status = "REFUND_PENDING" /\ refundRow'[p].before = refundRow[p].before
             /\ payRow'[p].status \in {"REFUND_PENDING", "REFUNDED", refundRow[p].before}
    BY <1>5 DEF BeforeFits, IsAccepted, IsReviewed, IsVnPay, PaymentGoesOn
  <1> QED BY <1>2, <1>3, <1>4, <1>5 DEF PaymentMoves, PaymentGoesOn

\* What becomes of the payments in a step of a request.
LEMMA RequestsMovePayments ==
  ASSUME RequestsTypeOK, RequestsInv, NEW r \in PayRequests, RequestStep(r)
  PROVE  /\ \A p \in PayRequests : PaymentMoves(p) /\ PaymentGoesOn(p)
         /\ canonicalOf' = canonicalOf
         /\ acceptedPayment' = acceptedPayment \/ CommitPayment(r)
  <1>1. CASE UNCHANGED <<payRow, refundRow, acceptedPayment, canonicalOf>>
    BY <1>1 DEF PaymentMoves, PaymentGoesOn
  <1>2. CASE CommitPayment(r)
    <2>1. UNCHANGED <<refundRow, canonicalOf>>
      BY <1>2 DEF CommitPayment
    <2>2. PaymentsGoOn /\ \A p \in PayRequests : PaymentMoves(p)
      BY <1>2, <2>1, CommittedPayments DEF PaymentMoves, PaymentGoesOn
    <2> QED BY <1>2, <2>1, <2>2 DEF PaymentsGoOn, PaymentGoesOn
  <1>3. CASE CommitRefund(r)
    BY <1>3, CommittedRefund DEF CommitRefund, PaymentsGoOn, PaymentGoesOn
  <1>4. CASE ApplyRefundResult(r) \/ ApplyReconciliation(r)
    <2>0. PICK p : p = PayAsk[r].payment
      OBVIOUS
    <2>1. p \in PayRequests /\ payRow[p] # NoPayment /\ UNCHANGED <<acceptedPayment, canonicalOf>>
      BY <1>4, <2>0, RequestTypes DEF ApplyRefundResult, ApplyReconciliation, RequestsInv, RequestHolds
    <2>2. \/ UNCHANGED <<payRow, refundRow>>
          \/ /\ payRow[p].status = "REFUND_PENDING" /\ BookingIsFree(payRow[p].booking)
             /\ \E o \in Outcomes(p) : Changes(p, o.status, o.refund)
      BY <1>4, <2>0 DEF ApplyRefundResult, ApplyReconciliation, Changes
    <2>3. CASE UNCHANGED <<payRow, refundRow>>
      BY <1>1, <2>1, <2>3
    <2> QED BY <2>1, <2>2, <2>3, OutcomeApplied DEF PaymentsGoOn, PaymentGoesOn
  <1>5. CASE RefundManual(r)
    <2>0. PICK p, ref : p = PayAsk[r].payment /\ ref = [key |-> NoKey, before |-> payRow[p].status, refused |-> FALSE]
      OBVIOUS
    <2>1. /\ ~IsPaymentRequest(r) /\ payStage[r] = "locked" /\ p \in PayRequests
          /\ UNCHANGED <<acceptedPayment, canonicalOf>>
      BY <1>5, <2>0, RequestTypes DEF RefundManual, PayAt
    <2>2. UNCHANGED <<payRow, refundRow>> \/ (payRow[p].status = "SUCCESS" /\ Changes(p, "REFUNDED", ref))
      BY <1>5, <2>0 DEF RefundManual, Changes
    <2>3. CASE UNCHANGED <<payRow, refundRow>>
      BY <1>1, <2>1, <2>3
    <2> QED BY <2>0, <2>1, <2>2, <2>3, ManualRefundWritten DEF PaymentsGoOn, PaymentGoesOn
  <1> QED BY <1>1, <1>2, <1>3, <1>4, <1>5
          DEF RequestStep, PayFails, LockForPayment, LookUpKey, CreatePayment, ResolveIdempotencyConflict,
              LockForRefund, PrepareVnPayRefund, CreateRefund, Reconcile

\* The payment is accepted after the step.
AcceptedNow(p) ==
  /\ payRow'[p] # NoPayment /\ payRow'[p].status \in {"SUCCESS", "REFUND_PENDING", "REFUNDED"}
  /\ refundRow'[p] # NoRefund => refundRow'[p].before = "SUCCESS"

LEMMA CanonicalInvKept ==
  ASSUME RequestsTypeOK, RequestsInv, CanonicalInv, [RequestsNext]_requestVars
  PROVE  CanonicalInv'
  <1>1. \A p \in PayRequests : RefundFits(p)'
    BY RequestsInvKept DEF RequestsInv
  <1>2. ASSUME \A p \in PayRequests : PaymentMoves(p) /\ PaymentGoesOn(p)
        PROVE  \A p \in PayRequests :
                 /\ BeforeFits(p)'
                 /\ IsAccepted(p) => AcceptedNow(p)
                 /\ IsReviewed(p) => IsReviewed(p)'
    <2>1. \A p \in PayRequests : IsAccepted(p)' => AcceptedNow(p)
      BY DEF IsAccepted, AcceptedNow
    <2> QED BY <1>1, <1>2, <2>1, MovesKeepVerdicts DEF CanonicalInv
  <1>3. ASSUME \A p \in PayRequests : PaymentMoves(p) /\ PaymentGoesOn(p),
               \A p \in PayRequests : canonicalOf'[p] # NoPayment =>
                 canonicalOf'[p] = canonicalOf[p] \/ (IsReviewed(p)' /\ AcceptedNow(canonicalOf'[p])),
               \A b \in PayBookings : acceptedPayment'[b] # NoPayment =>
                 acceptedPayment'[b] = acceptedPayment[b] \/ AcceptedNow(acceptedPayment'[b])
        PROVE  CanonicalInv'
    <2>1. \A p \in PayRequests : canonicalOf[p] # NoPayment => IsReviewed(p)' /\ AcceptedNow(canonicalOf[p])
      BY <1>2, <1>3 DEF CanonicalInv, RequestsTypeOK
    <2>2. \A b \in PayBookings : acceptedPayment[b] # NoPayment => AcceptedNow(acceptedPayment[b])
      BY <1>2, <1>3 DEF CanonicalInv, RequestsTypeOK
    <2>3. \A p \in PayRequests : canonicalOf'[p] # NoPayment => IsReviewed(p)' /\ AcceptedNow(canonicalOf'[p])
      BY <1>3, <2>1
    <2>4. \A b \in PayBookings : acceptedPayment'[b] # NoPayment => AcceptedNow(acceptedPayment'[b])
      BY <1>3, <2>2
    <2>5. \A p \in PayRequests : canonicalOf'[p] # NoPayment => IsReviewed(p)' /\ IsAccepted(canonicalOf[p])'
      BY <2>3 DEF IsAccepted, AcceptedNow
    <2>6. \A b \in PayBookings : acceptedPayment'[b] # NoPayment => IsAccepted(acceptedPayment[b])'
      BY <2>4 DEF IsAccepted, AcceptedNow
    <2> QED BY <1>2, <1>3, <2>5, <2>6 DEF CanonicalInv
  <1>4. ASSUME NEW r \in PayRequests, RequestStep(r) PROVE CanonicalInv'
    <2>1. /\ \A p \in PayRequests : PaymentMoves(p) /\ PaymentGoesOn(p)
          /\ canonicalOf' = canonicalOf
      BY <1>4, RequestsMovePayments
    <2>2. CASE acceptedPayment' = acceptedPayment
      BY <1>3, <2>1, <2>2
    <2>3. CASE CommitPayment(r)
      <3>1. /\ IsPaymentRequest(r) /\ payRow[r] = NoPayment /\ payRow'[r] = NewPayment(r)
            /\ NewPayment(r) # NoPayment /\ refundRow' = refundRow /\ RefundFits(r)
        BY <2>3, RequestTypes, CommittedPayments, NewPaymentIsTyped DEF CommitPayment, PayAt, RequestsInv
      <3>2. PayAsk[r].kind = "manual" => AcceptedNow(r)
        BY <3>1 DEF AcceptedNow, RefundFits, NewPayment
      <3>3. \A b \in PayBookings :
              \/ acceptedPayment'[b] = acceptedPayment[b]
              \/ acceptedPayment'[b] = r /\ PayAsk[r].kind = "manual"
        BY <2>3 DEF CommitPayment, RequestsTypeOK
      <3>4. \A b \in PayBookings : acceptedPayment'[b] # NoPayment =>
              acceptedPayment'[b] = acceptedPayment[b] \/ AcceptedNow(acceptedPayment'[b])
        BY <3>2, <3>3
      <3> QED BY <1>3, <2>1, <3>4
    <2> QED BY <1>4, <2>2, <2>3, RequestsMovePayments
  <1>5. ASSUME NEW p \in PayRequests, AttemptDecided(p) PROVE CanonicalInv'
    <2>1. \A q \in PayRequests : PaymentMoves(q) /\ PaymentGoesOn(q)
      BY <1>5, DecidedAttempt DEF PaymentsGoOn, PaymentGoesOn
    <2>2. PICK b \in PayBookings : b = payRow[p].booking
      BY <1>5, DecidedAttempt
    <2>3. payRow'[p] # NoPayment /\ refundRow[p] = NoRefund /\ refundRow' = refundRow
      BY <1>5, DecidedAttempt DEF CanonicalInv, BeforeFits, AttemptDecided
    <2>4. CASE UNCHANGED <<acceptedPayment, canonicalOf>>
      BY <1>3, <2>1, <2>4
    <2>5. CASE /\ payRow' = [payRow EXCEPT ![p].status = "SUCCESS"]
               /\ acceptedPayment' = [acceptedPayment EXCEPT ![b] = p]
               /\ UNCHANGED canonicalOf
      <3>1. AcceptedNow(p)
        BY <1>5, <2>3, <2>5, DecidedAttempt DEF AcceptedNow
      <3>2. \A c \in PayBookings : acceptedPayment'[c] = acceptedPayment[c] \/ acceptedPayment'[c] = p
        BY <2>5 DEF RequestsTypeOK
      <3>3. \A c \in PayBookings : acceptedPayment'[c] # NoPayment =>
              acceptedPayment'[c] = acceptedPayment[c] \/ AcceptedNow(acceptedPayment'[c])
        BY <3>1, <3>2
      <3> QED BY <1>3, <2>1, <2>5, <3>3
    <2>6. CASE /\ payRow' = [payRow EXCEPT ![p].status = "REQUIRES_REVIEW"]
               /\ canonicalOf' = [canonicalOf EXCEPT ![p] = IF BookingIsRefunded(b) THEN NoPayment ELSE acceptedPayment[b]]
               /\ UNCHANGED acceptedPayment
      <3>1. IsReviewed(p)'
        <4>1. payRow'[p].status = "REQUIRES_REVIEW" /\ payRow'[p].method = payRow[p].method
          BY <1>5, <2>6, DecidedAttempt DEF PaymentsGoOn
        <4>2. payRow[p].method = "VNPAY"
          BY <1>5 DEF AttemptDecided, IsVnPay
        <4> QED BY <2>3, <4>1, <4>2 DEF IsReviewed, IsVnPay
      <3>2. \A q \in PayRequests :
              \/ canonicalOf'[q] = canonicalOf[q]
              \/ q = p /\ canonicalOf'[q] \in {NoPayment, acceptedPayment[b]}
        BY <2>6 DEF RequestsTypeOK
      <3>3. acceptedPayment[b] # NoPayment => AcceptedNow(acceptedPayment[b])
        BY <1>2, <2>1 DEF CanonicalInv, RequestsTypeOK
      <3>4. \A q \in PayRequests : canonicalOf'[q] # NoPayment =>
              canonicalOf'[q] = canonicalOf[q] \/ (IsReviewed(q)' /\ AcceptedNow(canonicalOf'[q]))
        BY <3>1, <3>2, <3>3
      <3> QED BY <1>3, <2>1, <2>6, <3>4
    <2> QED BY <1>5, <2>2, <2>4, <2>5, <2>6 DEF AttemptDecided, AttemptSucceeds
  <1>6. CASE UNCHANGED <<payRow, refundRow, acceptedPayment, canonicalOf>>
    <2>1. \A p \in PayRequests : PaymentMoves(p)
      BY <1>6 DEF PaymentMoves
    <2>2. \A p \in PayRequests : PaymentGoesOn(p)
      BY <1>6 DEF PaymentGoesOn
    <2> QED BY <1>3, <1>6, <2>1, <2>2
  <1> QED BY <1>4, <1>5, <1>6 DEF RequestsNext, RequestStep, AttemptOverdue, BookingClosed, requestVars

LEMMA RequestsAlways == RequestsSpec => [](RequestsTypeOK /\ RequestsInv /\ CanonicalInv)
  <1>1. RequestsInit => RequestsTypeOK /\ RequestsInv /\ CanonicalInv
    <2> SUFFICES ASSUME NEW arriving \in PayArrivals, RequestsInitWith(arriving)
                 PROVE  RequestsTypeOK /\ RequestsInv /\ CanonicalInv
      BY DEF RequestsInit
    <2>1. RequestsTypeOK
      BY DEF RequestsInitWith, RequestsTypeOK, NoPaymentReplies
    <2>2. \A p \in PayRequests : PaymentIsTrue(p) /\ RefundFits(p) /\ RequestHolds(p)
      BY DEF RequestsInitWith, PaymentIsTrue, RefundFits, RequestHolds
    <2>3. \A p \in PayRequests : ReplyIsTrue(p)
      BY PaymentRequestsAssumption DEF RequestsInitWith, ReplyIsTrue, NoPaymentReplies
    <2>4. KeysAreFree /\ OneOfKey
      BY DEF RequestsInitWith, KeysAreFree, OneOfKey
    <2>5. CanonicalInv
      BY DEF RequestsInitWith, CanonicalInv, BeforeFits
    <2> QED BY <2>1, <2>2, <2>3, <2>4, <2>5 DEF RequestsInv
  <1>2. RequestsTypeOK /\ RequestsInv /\ CanonicalInv /\ [RequestsNext]_requestVars =>
          RequestsTypeOK' /\ RequestsInv' /\ CanonicalInv'
    BY RequestsTypesKept, RequestsInvKept, CanonicalInvKept
  <1> QED BY <1>1, <1>2, PTL DEF RequestsSpec

\* A key has one payment, and whoever is answered with a payment has asked for
\* it: however requests with one key interleave, at one booking or at several.
THEOREM KeysAlwaysAnswerOnce == RequestsSpec => []KeysAnswerOnce
  <1>1. RequestsInv => KeysAnswerOnce
    BY DEF RequestsInv, OneOfKey, ReplyIsTrue, IsPaymentRequest, KeysAnswerOnce
  <1> QED BY <1>1, RequestsAlways, PTL

\* What a refusal says of the payment or the refund that was asked for.
RefusalIsTrue(r, reply) ==
  LET p == PayAsk[r].payment IN
  IF p = NoPayment
  THEN \A s \in PayRequests : Identical(r, s) => payRow[s] = NoPayment
  ELSE IF reply = "denied"
  THEN canonicalOf[p] # NoPayment => payRow[canonicalOf[p]].status \in {"REFUND_PENDING", "REFUNDED"}
  ELSE /\ payRow[p].status = "REFUNDED" => IsVnPay(p) /\ RefundsOfKey(PayAsk[r].key) \ {p} # {}
       /\ IsVnPay(p) /\ refundRow[p] # NoRefund /\ refundRow[p].key = PayAsk[r].key => refundRow[p].refused

\* A payment of the key that is no repetition was made by no identical request.
LEMMA OtherKeyRefusal ==
  ASSUME RequestsTypeOK, RequestsInv, NEW r \in PayRequests, IsPaymentRequest(r),
         PaymentsOfKey(PayAsk[r].key) = {} \/ \E p \in PaymentsOfKey(PayAsk[r].key) : ~IsReplay(r, p),
         NEW reply
  PROVE  RefusalIsTrue(r, reply)
  <1> SUFFICES ASSUME NEW s \in PayRequests, PayAsk[r] = PayAsk[s], payRow[s] # NoPayment PROVE FALSE
    BY DEF RefusalIsTrue, IsPaymentRequest, Identical
  <1>1. /\ PaymentIsTrue(s) /\ OneOfKey
        /\ payRow[s].key = PayAsk[r].key /\ s \in PaymentsOfKey(PayAsk[r].key)
    BY DEF RequestsInv, PaymentIsTrue, PaymentsOfKey
  <1>2. PICK p \in PaymentsOfKey(PayAsk[r].key) : ~IsReplay(r, p)
    BY <1>1
  <1>3. p = s
    BY <1>1, <1>2 DEF OneOfKey, PaymentsOfKey
  <1>4. NewPayment(r) = NewPayment(s)
    BY DEF NewPayment
  <1>5. /\ payRow[s].booking = NewPayment(r).booking /\ payRow[s].method = NewPayment(r).method
        /\ payRow[s].by = NewPayment(r).by
    BY <1>1, <1>4 DEF PaymentIsTrue, NewPayment
  <1> QED BY <1>2, <1>3, <1>5 DEF IsReplay

LEMMA RefusalsOfPayments ==
  ASSUME RequestsTypeOK, RequestsInv, NEW r \in PayRequests, payReply[r] = "none", payReply'[r] \in {"refused", "denied"},
         PayFails(r) \/ LockForPayment(r) \/ LookUpKey(r) \/ CreatePayment(r)
           \/ ResolveIdempotencyConflict(r) \/ CommitPayment(r)
  PROVE  RefusalIsTrue(r, payReply'[r])
  <1>1. /\ "refused" \notin PayRequests /\ "denied" \notin PayRequests /\ PayRequests \cap NoPaymentReplies = {}
        /\ \A x \in {"notFound", "refused", "error"} : x \in NoPaymentReplies
    BY PaymentRequestsAssumption DEF NoPaymentReplies
  <1>2. \A x \in NoPaymentReplies \cup PayRequests : Reply(r, x) => x \in {"refused", "denied"}
    BY Answering
  <1>3. \A p \in PaymentsOfKey(PayAsk[r].key) : p \in PayRequests
    BY DEF PaymentsOfKey
  <1>4. ASSUME IsPaymentRequest(r), ReplyFromKey(r) PROVE RefusalIsTrue(r, payReply'[r])
    <2>1. PICK p \in PaymentsOfKey(PayAsk[r].key) : Reply(r, IF IsReplay(r, p) THEN p ELSE "refused")
      BY <1>4 DEF ReplyFromKey
    <2>2. ~IsReplay(r, p)
      BY <1>1, <1>2, <1>3, <2>1
    <2> QED BY <1>4, <2>1, <2>2, OtherKeyRefusal
  <1>5. CASE PayFails(r)
    BY <1>1, <1>2, <1>5 DEF PayFails
  <1>6. CASE LockForPayment(r)
    BY <1>1, <1>2, <1>6 DEF LockForPayment, LockPayBooking
  <1>7. CASE LookUpKey(r)
    <2>1. IsPaymentRequest(r)
      BY <1>7, RequestTypes DEF LookUpKey, PayAt
    <2>2. ReplyFromKey(r) \/ PaymentsOfKey(PayAsk[r].key) = {}
      BY <1>7 DEF LookUpKey
    <2> QED BY <1>4, <2>1, <2>2, OtherKeyRefusal
  <1>8. CASE CreatePayment(r)
    BY <1>8 DEF CreatePayment
  <1>9. CASE ResolveIdempotencyConflict(r)
    BY <1>4, <1>9 DEF ResolveIdempotencyConflict, RequestsInv, RequestHolds
  <1>10. CASE CommitPayment(r)
    BY <1>1, <1>2, <1>10 DEF CommitPayment
  <1> QED BY <1>5, <1>6, <1>7, <1>8, <1>9, <1>10

LEMMA RefusalsOfRefunds ==
  ASSUME RequestsTypeOK, RequestsInv, NEW r \in PayRequests, CanonicalInv,
         payReply[r] = "none", payReply'[r] \in {"refused", "denied"},
         \/ LockForRefund(r) \/ PrepareVnPayRefund(r) \/ CreateRefund(r) \/ CommitRefund(r)
         \/ ApplyRefundResult(r) \/ Reconcile(r) \/ ApplyReconciliation(r) \/ RefundManual(r)
  PROVE  RefusalIsTrue(r, payReply'[r])
  <1>0. PICK p : p = PayAsk[r].payment
    OBVIOUS
  <1>1. ~IsPaymentRequest(r) /\ p \in PayRequests /\ p # NoPayment
    BY <1>0, RequestTypes DEF LockForRefund, PrepareVnPayRefund, CreateRefund, CommitRefund, ApplyRefundResult,
       Reconcile, ApplyReconciliation, RefundManual, PayAt, RequestsInv, RequestHolds, IsPaymentRequest
  <1>2. \A x \in {"rejected", "tooLate", "unknown", "error", p} : ~Reply(r, x)
    <2>1. \A x \in {"rejected", "tooLate", "unknown", "error", p} :
            x \in NoPaymentReplies \cup PayRequests /\ x \notin {"refused", "denied"}
      BY <1>1, PaymentRequestsAssumption DEF NoPaymentReplies
    <2> QED BY <2>1, Answering
  <1>3. RefundFits(p) /\ OneOfKey
    BY <1>1 DEF RequestsInv
  <1>4. ASSUME payReply'[r] = "denied", canonicalOf[p] # NoPayment => payRow[canonicalOf[p]].status # "SUCCESS"
        PROVE  RefusalIsTrue(r, payReply'[r])
    BY <1>0, <1>1, <1>4 DEF RefusalIsTrue, CanonicalInv, IsAccepted
  <1>5. ASSUME payReply'[r] = "refused",
               /\ payRow[p].status = "REFUNDED" => IsVnPay(p) /\ RefundsOfKey(PayAsk[r].key) \ {p} # {}
               /\ IsVnPay(p) /\ refundRow[p] # NoRefund /\ refundRow[p].key = PayAsk[r].key => refundRow[p].refused
        PROVE  RefusalIsTrue(r, payReply'[r])
    BY <1>0, <1>1, <1>5 DEF RefusalIsTrue
  <1>6. /\ Reply(r, "refused") => payReply'[r] = "refused"
        /\ Reply(r, "denied") => payReply'[r] = "denied"
        /\ UNCHANGED payReply => FALSE
    <2>1. "refused" \in NoPaymentReplies /\ "denied" \in NoPaymentReplies
      BY DEF NoPaymentReplies
    <2> QED BY <2>1, Answering
  <1>7. CASE PrepareVnPayRefund(r)
    <2>1. IsVnPay(p) /\ PayAsk[r].key # NoKey
      BY <1>0, <1>7, RequestTypes DEF PrepareVnPayRefund
    <2>2. CASE PayAsk[r].kind = "duplicate" /\ ~MayResolve(p)
      <3>1. Reply(r, "denied")
        BY <1>0, <1>7, <2>2 DEF PrepareVnPayRefund
      <3>2. canonicalOf[p] # NoPayment => payRow[canonicalOf[p]].status # "SUCCESS"
        BY <1>1, <2>2 DEF MayResolve, IsDuplicateCharge, CanonicalInv, IsReviewed
      <3> QED BY <1>4, <1>6, <3>1, <3>2
    <2>3. CASE PayAsk[r].kind = "duplicate" => MayResolve(p)
      <3>1. CASE RefundsOfKey(PayAsk[r].key) \ {p} # {}
        <4>1. Reply(r, "refused")
          BY <1>0, <1>7, <2>3, <3>1 DEF PrepareVnPayRefund
        <4>2. refundRow[p] # NoRefund => refundRow[p].key # PayAsk[r].key
          BY <1>1, <1>3, <2>1, <3>1 DEF OneOfKey, RefundsOfKey
        <4> QED BY <1>5, <1>6, <2>1, <3>1, <4>1, <4>2
      <3>2. CASE RefundsOfKey(PayAsk[r].key) \ {p} = {} /\ payRow[p].status = "REFUNDED"
        BY <1>0, <1>2, <1>7, <2>3, <3>2 DEF PrepareVnPayRefund
      <3>3. CASE RefundsOfKey(PayAsk[r].key) \ {p} = {} /\ payRow[p].status = "REFUND_PENDING"
        <4>1. Reply(r, "refused") /\ ~(refundRow[p] # NoRefund /\ refundRow[p].key = PayAsk[r].key)
          BY <1>0, <1>6, <1>7, <2>3, <3>3 DEF PrepareVnPayRefund
        <4> QED BY <1>5, <1>6, <3>3, <4>1
      <3>4. CASE RefundsOfKey(PayAsk[r].key) \ {p} = {} /\ payRow[p].status \notin {"REFUNDED", "REFUND_PENDING"}
        <4>1. Reply(r, "refused")
          BY <1>0, <1>2, <1>6, <1>7, <2>3, <3>4 DEF PrepareVnPayRefund
        <4>2. refundRow[p] # NoRefund => refundRow[p].refused
          BY <1>3, <3>4 DEF RefundFits
        <4> QED BY <1>5, <1>6, <3>4, <4>1, <4>2
      <3> QED BY <3>1, <3>2, <3>3, <3>4
    <2> QED BY <2>2, <2>3
  <1>8. CASE CreateRefund(r)
    <2>1. refundRow[p] = NoRefund /\ payRow[p].status # "REFUNDED"
      BY <1>0, <1>1, <1>8 DEF CreateRefund, PayAt, RequestsInv, RequestHolds
    <2>2. Reply(r, "refused")
      BY <1>6, <1>8 DEF CreateRefund
    <2> QED BY <1>5, <1>6, <2>1, <2>2
  <1>9. CASE RefundManual(r)
    <2>1. Reply(r, "refused") /\ payRow[p].status # "REFUNDED" /\ ~IsVnPay(p)
      BY <1>0, <1>2, <1>9 DEF RefundManual
    <2> QED BY <1>5, <1>6, <2>1
  <1>10. CASE LockForRefund(r)
    <2>1. Reply(r, "denied") /\ ~IsVnPay(p)
      BY <1>0, <1>6, <1>10 DEF LockForRefund, LockPayBooking
    <2>2. canonicalOf[p] = NoPayment
      BY <1>1, <2>1 DEF CanonicalInv, IsReviewed
    <2> QED BY <1>4, <1>6, <2>1, <2>2
  <1>11. CASE CommitRefund(r)
    BY <1>2, <1>6, <1>11 DEF CommitRefund
  <1>12. CASE ApplyRefundResult(r)
    BY <1>0, <1>2, <1>12 DEF ApplyRefundResult
  <1>13. CASE Reconcile(r)
    BY <1>2, <1>6, <1>13 DEF Reconcile
  <1>14. CASE ApplyReconciliation(r)
    BY <1>0, <1>2, <1>14 DEF ApplyReconciliation
  <1> QED BY <1>7, <1>8, <1>9, <1>10, <1>11, <1>12, <1>13, <1>14

\* A request is refused only when nothing has been recorded for it; one to
\* resolve a duplicate charge is denied only when the payment is none, or the
\* accepted one is itself being refunded.
THEOREM RefusalsAreAlwaysTrue == RequestsSpec => RefusalsAreTrue
  <1>1. RequestsTypeOK /\ RequestsInv /\ CanonicalInv /\ [RequestsNext]_requestVars =>
          [\A r \in PayRequests : payReply[r] = "none" /\ payReply'[r] \in {"refused", "denied"} =>
             LET p == PayAsk[r].payment IN
             IF p = NoPayment
             THEN \A s \in PayRequests : Identical(r, s) => payRow[s] = NoPayment
             ELSE IF payReply'[r] = "denied"
             THEN canonicalOf[p] # NoPayment => payRow[canonicalOf[p]].status \in {"REFUND_PENDING", "REFUNDED"}
             ELSE /\ payRow[p].status = "REFUNDED" => IsVnPay(p) /\ RefundsOfKey(PayAsk[r].key) \ {p} # {}
                  /\ IsVnPay(p) /\ refundRow[p] # NoRefund /\ refundRow[p].key = PayAsk[r].key => refundRow[p].refused
          ]_requestVars
    <2> SUFFICES ASSUME RequestsTypeOK, RequestsInv, CanonicalInv, RequestsNext, NEW r \in PayRequests,
                        payReply[r] = "none", payReply'[r] \in {"refused", "denied"}
                 PROVE  RefusalIsTrue(r, payReply'[r])
      BY DEF RefusalIsTrue
    <2>1. PICK s \in PayRequests : RequestStep(s)
      BY DEF RequestsNext, RequestStep, AttemptDecided, AttemptOverdue, BookingClosed
    <2>2. s = r
      BY <2>1, OneRequestMoves DEF OnlyMoves
    <2> QED BY <2>1, <2>2, RefusalsOfPayments, RefusalsOfRefunds DEF RequestStep
  <1> QED BY <1>1, RequestsAlways, PTL DEF RequestsSpec, RefusalsAreTrue

-----------------------------------------------------------------------------
(* The rate limit.  Every admission belongs to a window, which began with   *)
(* the first of its bucket; windows of one key do not overlap, and none     *)
(* admits more than the limit.                                              *)

Bucket == [count : Nat, resetAt : Nat]

\* The windows of admissions of k, by their beginnings: an admission lies in
\* its window, later windows begin after earlier ones have ended, and a window
\* has room for the limit.
InWindows(k, times, began) ==
  /\ \A i \in 1..Len(times) : began[i] <= times[i] /\ times[i] < began[i] + Window[k]
  /\ \A i, j \in 1..Len(times) :
       i <= j => began[i] = began[j] \/ began[i] + Window[k] <= began[j]
  /\ \A i \in 1..Len(times) : i > Limit[k] => began[i - Limit[k]] # began[i]

\* All windows are over.
AllOver(k, times, began, t) == \A i \in 1..Len(times) : began[i] + Window[k] <= t

\* The bucket counts the admissions of the latest window, and that has begun.
Counts(k, times, bucket, began, t) ==
  /\ bucket \in Bucket /\ bucket.count \in 1..Limit[k] /\ bucket.count <= Len(times)
  /\ bucket.resetAt - Window[k] <= t
  /\ \A i \in 1..Len(times) :
       IF i > Len(times) - bucket.count THEN began[i] = bucket.resetAt - Window[k]
       ELSE began[i] + Window[k] <= bucket.resetAt - Window[k]

\* What a bucket, or none, says of the admissions.
WindowsOf(k, times, bucket, t) ==
  \E began \in [1..Len(times) -> Int] :
    /\ InWindows(k, times, began)
    /\ bucket = NoBucket => AllOver(k, times, began, t)
    /\ bucket # NoBucket => Counts(k, times, bucket, began, t)

LimiterInv == \A k \in Keys : WindowsOf(k, admitted[k], buckets[k], now)

\* A bucket that is over counts nothing that still matters.
LEMMA BucketsEnd ==
  ASSUME NEW k \in Keys, NEW times \in Seq(Nat), NEW bucket, NEW began \in [1..Len(times) -> Int],
         NEW t \in Nat, NEW u \in Nat, t <= u,
         bucket = NoBucket => AllOver(k, times, began, t),
         bucket # NoBucket => Counts(k, times, bucket, began, t)
  PROVE  /\ bucket = NoBucket => AllOver(k, times, began, u)
         /\ bucket # NoBucket => Counts(k, times, bucket, began, u)
         /\ bucket # NoBucket /\ bucket.resetAt <= u => AllOver(k, times, began, u)
  <1>0. Len(times) \in Nat /\ Window[k] \in Nat \ {0}
    BY LimiterAssumption
  <1>1. Len(times) \in Nat /\ Window[k] \in Nat \ {0} /\ \A i \in 1..Len(times) : began[i] \in Int
    BY <1>0
  <1>2. CASE bucket = NoBucket
    BY <1>1, <1>2 DEF AllOver
  <1>3. CASE bucket # NoBucket
    <2>1. Counts(k, times, bucket, began, t) /\ bucket.resetAt \in Nat /\ bucket.count \in Nat
      BY <1>3 DEF Counts, Bucket
    <2>2. Counts(k, times, bucket, began, u)
      BY <1>1, <2>1 DEF Counts
    <2>3. ASSUME bucket.resetAt <= u, NEW i \in 1..Len(times) PROVE began[i] + Window[k] <= u
      <3>1. began[i] \in Int /\ Window[k] \in Int /\ bucket.resetAt \in Int /\ u \in Int
        BY <1>1, <2>1
      <3>2. \/ began[i] = bucket.resetAt - Window[k]
            \/ began[i] + Window[k] <= bucket.resetAt - Window[k]
        BY <2>1 DEF Counts
      <3>3. Window[k] >= 0 /\ bucket.resetAt <= u
        BY <1>1, <2>3
      <3> QED BY ONLY <3>1, <3>2, <3>3
    <2> QED BY <1>3, <2>2, <2>3 DEF AllOver
  <1> QED BY <1>2, <1>3

\* Nobody else's step, no sweep and no tick disturbs a key.
LEMMA OtherKey ==
  ASSUME NEW k \in Keys, NEW times \in Seq(Nat), NEW bucket, NEW t \in Nat, NEW u \in Nat, t <= u,
         WindowsOf(k, times, bucket, t)
  PROVE  /\ WindowsOf(k, times, bucket, u)
         /\ bucket # NoBucket /\ bucket.resetAt <= u => WindowsOf(k, times, NoBucket, u)
  <1>1. PICK began \in [1..Len(times) -> Int] :
          /\ InWindows(k, times, began)
          /\ bucket = NoBucket => AllOver(k, times, began, t)
          /\ bucket # NoBucket => Counts(k, times, bucket, began, t)
    BY DEF WindowsOf
  <1>2. /\ bucket = NoBucket => AllOver(k, times, began, u)
        /\ bucket # NoBucket => Counts(k, times, bucket, began, u)
        /\ bucket # NoBucket /\ bucket.resetAt <= u => AllOver(k, times, began, u)
    BY <1>1, BucketsEnd
  <1> QED BY <1>1, <1>2 DEF WindowsOf

\* One more admission, in a window that began at "start".
LEMMA OneMore ==
  ASSUME NEW k \in Keys, NEW times \in Seq(Nat), NEW began \in [1..Len(times) -> Int],
         InWindows(k, times, began), NEW t \in Nat, NEW start \in Int, NEW c \in Nat,
         start <= t, t < start + Window[k], c < Limit[k], c <= Len(times),
         \A i \in 1..Len(times) :
           IF i > Len(times) - c THEN began[i] = start ELSE began[i] + Window[k] <= start,
         NEW bucket \in Bucket, bucket.count = c + 1, bucket.resetAt - Window[k] = start
  PROVE  WindowsOf(k, Append(times, t), bucket, t)
  <1>1. PICK n : n = Len(times)
    OBVIOUS
  <1>2. PICK W : W = Window[k]
    OBVIOUS
  <1>3. PICK L : L = Limit[k]
    OBVIOUS
  <1>0. n \in Nat /\ W \in Nat \ {0} /\ L \in Nat \ {0}
    BY <1>1, <1>2, <1>3, LimiterAssumption
  <1>4. /\ n \in Nat /\ W \in Nat \ {0} /\ L \in Nat \ {0}
        /\ \A i \in 1..n : times[i] \in Nat /\ began[i] \in Int
    <2>1. \A i \in 1..Len(times) : times[i] \in Nat
      OBVIOUS
    <2>2. \A i \in 1..Len(times) : began[i] \in Int
      OBVIOUS
    <2> QED BY <1>0, <1>1, <2>1, <2>2
  <1>5. PICK more : more = Append(times, t)
    OBVIOUS
  <1>6. /\ Len(more) = n + 1 /\ more[n + 1] = t
        /\ \A i \in 1..n : more[i] = times[i]
    BY <1>1, <1>5
  <1>7. PICK next : next = [i \in 1..(n + 1) |-> IF i <= n THEN began[i] ELSE start]
    OBVIOUS
  <1>8. /\ next \in [1..Len(more) -> Int] /\ next[n + 1] = start
        /\ \A i \in 1..n : next[i] = began[i]
    BY <1>4, <1>6, <1>7
  <1>9. /\ \A i \in 1..n : began[i] <= times[i] /\ times[i] < began[i] + W
        /\ \A i, j \in 1..n : i <= j => began[i] = began[j] \/ began[i] + W <= began[j]
        /\ \A i \in 1..n : i > L => began[i - L] # began[i]
        /\ \A i \in 1..n : IF i > n - c THEN began[i] = start ELSE began[i] + W <= start
    BY <1>1, <1>2, <1>3 DEF InWindows
  <1>10. ASSUME NEW i \in 1..(n + 1)
         PROVE  /\ next[i] <= more[i] /\ more[i] < next[i] + W
                /\ IF i > (n + 1) - (c + 1) THEN next[i] = start ELSE next[i] + W <= start
    <2>1. CASE i \in 1..n
      <3>1. next[i] = began[i] /\ more[i] = times[i] /\ began[i] \in Int /\ times[i] \in Nat
        BY <1>4, <1>6, <1>8, <2>1
      <3>2. /\ began[i] <= times[i] /\ times[i] < began[i] + W
            /\ IF i > n - c THEN began[i] = start ELSE began[i] + W <= start
        BY <1>9, <2>1
      <3>3. (n + 1) - (c + 1) = n - c
        BY <1>4
      <3> QED BY <3>1, <3>2, <3>3
    <2>2. CASE i = n + 1
      BY <1>2, <1>4, <1>6, <1>8, <2>2
    <2> QED BY <1>4, <2>1, <2>2
  <1>11. ASSUME NEW i \in 1..(n + 1), NEW j \in 1..(n + 1), i <= j
         PROVE  next[i] = next[j] \/ next[i] + W <= next[j]
    <2>1. CASE j \in 1..n
      BY SMTT(30), <1>4, <1>8, <1>9, <1>11, <2>1
    <2>2. CASE j = n + 1
      BY <1>4, <1>8, <1>10, <2>2
    <2> QED BY <1>4, <2>1, <2>2
  <1>12. ASSUME NEW i \in 1..(n + 1), i > L
         PROVE  next[i - L] # next[i]
    <2>1. CASE i \in 1..n
      <3>1. i - L \in 1..n
        BY <1>4, <1>12, <2>1
      <3> QED BY <1>8, <1>9, <1>12, <2>1, <3>1
    <2>2. CASE i = n + 1
      <3>1. PICK j \in 1..n : j = i - L /\ ~(j > n - c)
        BY <1>3, <1>4, <1>12, <2>2
      <3>2. next[j] = began[j] /\ began[j] + W <= start /\ began[j] \in Int /\ next[i] = start
        BY <1>4, <1>8, <1>9, <2>2, <3>1
      <3> QED BY <1>4, <3>1, <3>2
    <2> QED BY <1>4, <2>1, <2>2
  <1>13. InWindows(k, more, next)
    BY <1>2, <1>3, <1>6, <1>10, <1>11, <1>12 DEF InWindows
  <1>14. Counts(k, more, bucket, next, t)
    <2>1. bucket.count \in 1..L /\ bucket.count <= Len(more)
      BY <1>1, <1>3, <1>4, <1>6
    <2> QED BY <1>2, <1>3, <1>4, <1>6, <1>10, <2>1 DEF Counts
  <1>15. bucket # NoBucket
    BY LimiterAssumption DEF Bucket
  <1> QED BY <1>5, <1>8, <1>13, <1>14, <1>15 DEF WindowsOf

LEMMA NewWindow ==
  ASSUME NEW k \in Keys, NEW times \in Seq(Nat), NEW bucket, NEW t \in Nat,
         WindowsOf(k, times, bucket, t), bucket = NoBucket \/ bucket.resetAt <= t
  PROVE  WindowsOf(k, Append(times, t), [count |-> 1, resetAt |-> t + Window[k]], t)
  <1>1. PICK began \in [1..Len(times) -> Int] :
          /\ InWindows(k, times, began)
          /\ bucket = NoBucket => AllOver(k, times, began, t)
          /\ bucket # NoBucket => Counts(k, times, bucket, began, t)
    BY DEF WindowsOf
  <1>2. AllOver(k, times, began, t)
    BY <1>1, BucketsEnd
  <1>3. Window[k] \in Nat \ {0} /\ Limit[k] \in Nat \ {0} /\ Len(times) \in Nat
    BY LimiterAssumption
  <1>4. PICK first : first = [count |-> 1, resetAt |-> t + Window[k]]
    OBVIOUS
  <1>5. first \in Bucket /\ first.count = 0 + 1 /\ first.resetAt - Window[k] = t
    BY <1>3, <1>4 DEF Bucket
  <1>6. \A i \in 1..Len(times) : IF i > Len(times) - 0 THEN began[i] = t ELSE began[i] + Window[k] <= t
    BY <1>2, <1>3 DEF AllOver
  <1>7. t <= t /\ t < t + Window[k] /\ 0 < Limit[k] /\ 0 <= Len(times) /\ 0 \in Nat /\ t \in Int
    BY <1>3
  <1> QED BY <1>1, <1>4, <1>5, <1>6, <1>7, OneMore

LEMMA SameWindow ==
  ASSUME NEW k \in Keys, NEW times \in Seq(Nat), NEW bucket \in Bucket, NEW t \in Nat,
         WindowsOf(k, times, bucket, t), t < bucket.resetAt, bucket.count < Limit[k]
  PROVE  WindowsOf(k, Append(times, t), [bucket EXCEPT !.count = bucket.count + 1], t)
  <1>0. bucket # NoBucket
    BY LimiterAssumption DEF Bucket
  <1>1. PICK began \in [1..Len(times) -> Int] :
          InWindows(k, times, began) /\ Counts(k, times, bucket, began, t)
    BY <1>0 DEF WindowsOf
  <1>3. Window[k] \in Nat \ {0} /\ Limit[k] \in Nat \ {0} /\ Len(times) \in Nat
    BY LimiterAssumption
  <1>4. PICK further : further = [bucket EXCEPT !.count = bucket.count + 1]
    OBVIOUS
  <1>5. /\ further \in Bucket /\ further.count = bucket.count + 1 /\ further.resetAt = bucket.resetAt
        /\ bucket.resetAt \in Nat /\ bucket.count \in Nat
    BY <1>4 DEF Bucket
  <1>6. PICK start : start = bucket.resetAt - Window[k]
    OBVIOUS
  <1>7. start \in Int /\ start <= t /\ t < start + Window[k] /\ bucket.count <= Len(times)
    BY SMTT(30), <1>1, <1>3, <1>5, <1>6 DEF Counts
  <1>8. \A i \in 1..Len(times) :
          IF i > Len(times) - bucket.count THEN began[i] = start ELSE began[i] + Window[k] <= start
    BY <1>1, <1>6 DEF Counts
  <1> QED BY <1>1, <1>4, <1>5, <1>6, <1>7, <1>8, OneMore

\* What is in the map after a sweep.
LEMMA SweptBuckets ==
  ASSUME LimiterTypeOK, NEW k \in Keys
  PROVE  /\ Swept(k) \in [Keys -> [count : Nat, resetAt : Nat] \cup {NoBucket}]
         /\ \A l \in Keys : Swept(k)[l] = buckets[l] \/ (Expired(buckets[l]) /\ Swept(k)[l] = NoBucket)
  BY DEF Swept, LimiterTypeOK

LEMMA LimiterStep ==
  ASSUME LimiterTypeOK, LimiterInv, [LimiterNext]_limiterVars
  PROVE  LimiterTypeOK' /\ LimiterInv'
  <1>1. CASE UNCHANGED limiterVars
    BY <1>1 DEF limiterVars, LimiterTypeOK, LimiterInv
  <1>2. CASE LimiterTick
    <2>1. /\ now' \in Nat /\ now <= now' /\ UNCHANGED <<buckets, lastSweepAt, admitted>>
          /\ now \in Nat
      BY <1>2 DEF LimiterTick, LimiterTypeOK
    <2>2. ASSUME NEW k \in Keys PROVE WindowsOf(k, admitted[k], buckets[k], now')
      <3>1. admitted[k] \in Seq(Nat) /\ WindowsOf(k, admitted[k], buckets[k], now)
        BY DEF LimiterTypeOK, LimiterInv
      <3> QED BY <2>1, <3>1, OtherKey
    <2> QED BY <2>1, <2>2 DEF LimiterInv, LimiterTypeOK
  <1>3. ASSUME NEW k \in Keys, CanActivate(k)
        PROVE  LimiterTypeOK' /\ LimiterInv'
    <2> DEFINE current == buckets[k]
               first == [count |-> 1, resetAt |-> now + Window[k]]
               further == [current EXCEPT !.count = current.count + 1]
    <2>1. /\ now' = now /\ now \in Nat /\ now <= now /\ lastSweepAt' \in Nat /\ Window[k] \in Nat
          /\ current # NoBucket => current \in Bucket /\ current.count \in Nat /\ current.resetAt \in Nat
          /\ Limit[k] \in Nat
      BY <1>3, LimiterAssumption DEF CanActivate, Sweep, LimiterTypeOK, Bucket
    <2>2. \/ (current = NoBucket \/ Expired(current)) /\ Admit(k, first)
          \/ current # NoBucket /\ ~Expired(current) /\ current.count < Limit[k] /\ Admit(k, further)
          \/ Refuse(k)
      BY <1>3, <2>1 DEF CanActivate
    <2>3. ASSUME NEW l \in Keys
          PROVE  /\ admitted[l] \in Seq(Nat) /\ WindowsOf(l, admitted[l], buckets[l], now)
                 /\ WindowsOf(l, admitted[l], Swept(k)[l], now)
      <3>1. admitted[l] \in Seq(Nat) /\ WindowsOf(l, admitted[l], buckets[l], now)
        BY DEF LimiterTypeOK, LimiterInv
      <3>2. Swept(k)[l] = buckets[l] \/ (Expired(buckets[l]) /\ Swept(k)[l] = NoBucket)
        BY SweptBuckets
      <3> QED BY <2>1, <3>1, <3>2, OtherKey DEF Expired
    <2>4. ASSUME NEW bucket \in Bucket, Admit(k, bucket),
                 WindowsOf(k, Append(admitted[k], now), bucket, now)
          PROVE  LimiterTypeOK' /\ LimiterInv'
      <3>1. /\ buckets' = [Swept(k) EXCEPT ![k] = bucket]
            /\ admitted' = [admitted EXCEPT ![k] = Append(admitted[k], now)]
        BY <2>4 DEF Admit
      <3>2. LimiterTypeOK'
        BY <2>1, <3>1, SweptBuckets DEF LimiterTypeOK, Bucket
      <3>3. \A l \in Keys : /\ buckets'[l] = IF l = k THEN bucket ELSE Swept(k)[l]
                            /\ admitted'[l] = IF l = k THEN Append(admitted[k], now) ELSE admitted[l]
        BY <3>1, SweptBuckets DEF LimiterTypeOK
      <3>4. ASSUME NEW l \in Keys PROVE WindowsOf(l, admitted'[l], buckets'[l], now')
        BY <2>1, <2>3, <2>4, <3>3
      <3> QED BY <3>2, <3>4 DEF LimiterInv
    <2>5. CASE (current = NoBucket \/ Expired(current)) /\ Admit(k, first)
      <3>1. first \in Bucket
        BY <2>1 DEF Bucket
      <3>2. current = NoBucket \/ current.resetAt <= now
        BY <2>5 DEF Expired
      <3>3. WindowsOf(k, Append(admitted[k], now), first, now)
        BY <2>1, <2>3, <3>2, NewWindow
      <3> QED BY <2>4, <2>5, <3>1, <3>3
    <2>6. CASE current # NoBucket /\ ~Expired(current) /\ current.count < Limit[k] /\ Admit(k, further)
      <3>1. current \in Bucket /\ further \in Bucket /\ now < current.resetAt
        BY <2>1, <2>6 DEF Expired, Bucket
      <3>3. WindowsOf(k, Append(admitted[k], now), further, now)
        BY <2>1, <2>3, <2>6, <3>1, SameWindow
      <3> QED BY <2>4, <2>6, <3>1, <3>3
    <2>7. CASE Refuse(k)
      <3>1. buckets' = Swept(k) /\ admitted' = admitted
        BY <2>7 DEF Refuse
      <3>2. \A l \in Keys : WindowsOf(l, admitted'[l], buckets'[l], now')
        BY <2>1, <2>3, <3>1
      <3>3. LimiterTypeOK'
        BY <2>1, <3>1, SweptBuckets DEF LimiterTypeOK
      <3> QED BY <3>2, <3>3 DEF LimiterInv
    <2> QED BY <2>2, <2>5, <2>6, <2>7
  <1> QED BY <1>1, <1>2, <1>3 DEF LimiterNext

\* AdmissionsBounded: in a stretch of time as long as the window at most twice
\* the limit is let in, whatever other handlers sweep.
THEOREM AdmissionsAlwaysBounded == LimiterSpec => []AdmissionsBounded
  <1>1. LimiterInit => LimiterTypeOK /\ LimiterInv
    <2> SUFFICES ASSUME LimiterInit PROVE LimiterTypeOK /\ LimiterInv
      OBVIOUS
    <2>1. LimiterTypeOK
      BY DEF LimiterInit, LimiterTypeOK
    <2>2. ASSUME NEW k \in Keys PROVE WindowsOf(k, admitted[k], buckets[k], now)
      <3>1. admitted[k] = <<>> /\ buckets[k] = NoBucket
        BY DEF LimiterInit
      <3>2. PICK none : none = [i \in 1..0 |-> 0]
        OBVIOUS
      <3>3. none \in [1..Len(<<>>) -> Int] /\ InWindows(k, <<>>, none) /\ AllOver(k, <<>>, none, now)
        BY <3>2 DEF InWindows, AllOver
      <3> QED BY <3>1, <3>3 DEF WindowsOf
    <2> QED BY <2>1, <2>2 DEF LimiterInv
  <1>2. LimiterTypeOK /\ LimiterInv => AdmissionsBounded
    <2> SUFFICES ASSUME LimiterTypeOK, LimiterInv, NEW k \in Keys, NEW i \in 1..Len(admitted[k]), i > 2 * Limit[k]
                 PROVE  admitted[k][i] - admitted[k][i - 2 * Limit[k]] >= Window[k]
      BY DEF AdmissionsBounded
    <2>1. PICK times \in Seq(Nat) : times = admitted[k]
      BY DEF LimiterTypeOK
    <2>2. PICK began \in [1..Len(times) -> Int] : InWindows(k, times, began)
      BY <2>1 DEF LimiterInv, WindowsOf
    <2>3. PICK n, W, L : n = Len(times) /\ W = Window[k] /\ L = Limit[k]
      OBVIOUS
    <2>4. n \in Nat /\ W \in Nat \ {0} /\ L \in Nat \ {0}
      BY <2>3, LimiterAssumption
    <2>5. PICK h, g : h = i - L /\ g = i - 2 * L
      OBVIOUS
    <2>6. /\ h \in 1..n /\ g \in 1..n /\ g = h - L /\ h > L /\ i > L /\ g <= h /\ h <= i
          /\ i \in 1..n
      <3>1. i \in 1..n /\ i > 2 * L
        BY <2>1, <2>3
      <3> HIDE <2>3
      <3> QED BY <2>4, <2>5, <3>1
    <2>7. times[g] \in Nat /\ times[i] \in Nat /\ began[g] \in Int /\ began[h] \in Int /\ began[i] \in Int
      <3>1. \A j \in 1..Len(times) : times[j] \in Nat
        OBVIOUS
      <3>2. \A j \in 1..Len(times) : began[j] \in Int
        OBVIOUS
      <3> QED BY <2>3, <2>6, <3>1, <3>2
    <2>8. began[g] # began[h] /\ began[h] # began[i]
      BY <2>2, <2>3, <2>5, <2>6 DEF InWindows
    <2>9. began[g] + W <= began[h] /\ began[h] + W <= began[i]
      BY <2>2, <2>3, <2>6, <2>8 DEF InWindows
    <2>10. times[g] < began[g] + W /\ began[i] <= times[i]
      BY <2>2, <2>3, <2>6 DEF InWindows
    <2>11. times[i] - times[g] >= W
      <3>1. \A a, d \in Nat, x, y, z \in Int, w \in Nat :
              x + w <= y /\ y + w <= z /\ a < x + w /\ z <= d => d - a >= w
        OBVIOUS
      <3> QED BY <2>4, <2>7, <2>9, <2>10, <3>1
    <2> QED BY <2>1, <2>3, <2>5, <2>11
  <1> QED BY <1>1, <1>2, LimiterStep, PTL DEF LimiterSpec

-----------------------------------------------------------------------------
(* The inbox.  Between its two statements messages only come, and a marker  *)
(* that its reader moves is noted.                                          *)

Inboxes ==
  [stage : {"none", "found", "answered"}, actor : Correspondents \cup {NoOne},
   unread : BOOLEAN \cup {NoFilter}, needsReply : BOOLEAN \cup {NoFilter}, items : SUBSET Talks,
   counts : [Talks -> Nat], marked : SUBSET Talks]

\* What an answer under way is about.
FoundStays ==
  inbox.stage = "found" =>
    /\ inbox.actor \in Correspondents
    /\ inbox.unread = TRUE =>
         \A t \in inbox.items \ inbox.marked : UnreadMessageExists(inbox.actor, t)

InboxInv ==
  /\ lastRead \in [Correspondents -> [Talks -> Nat]] /\ lastSequence \in [Talks -> Nat]
  /\ lastMessageActorType \in [Talks -> {"customer", "user", NoOne}]
  /\ IsFiniteSet(sent) /\ inbox \in Inboxes
  /\ \A t \in Talks : lastMessageActorType[t] = "customer" => lastSequence[t] > 0
  /\ \A m \in sent : m.talk \in Talks /\ lastSequence[m.talk] > 0
  /\ FoundStays /\ InboxAnswersAgree

\* Among natural numbers there is a least one.
LEMMA LeastNumber ==
  ASSUME NEW T, T \subseteq Nat, T # {}
  PROVE  \E x \in T : \A y \in T : x <= y
  <1> DEFINE Less == {ss \in Nat \X Nat : ss[1] < ss[2]}
  <1>1. IsWellFoundedOn(Less, Nat)
    BY NatLessThanWellFounded DEF OpToRel
  <1> HIDE DEF Less
  <1>2. PICK x \in T : \A y \in T : ~ (<<y, x>> \in Less)
    BY <1>1, WFMin
  <1>3. \A y \in T : ~(y < x)
    BY <1>2 DEF Less
  <1> QED BY <1>3

SumOver(c, T) == MapThenSumSet(LAMBDA t : c[t], T)

\* The sum of the parts is the whole: parts are counted by their key.  The fold
\* behind the sum is a recursive function, of which the count by subsets of keys
\* is the only solution, as a smallest set of keys on which two differ shows.
LEMMA SumOfCounts ==
  ASSUME NEW T, IsFiniteSet(T), NEW M, IsFiniteSet(M), NEW c,
         \A t \in T : c[t] = Cardinality({m \in M : m.talk = t})
  PROVE  SumOver(c, T) = Cardinality({m \in M : m.talk \in T})
  <1> DEFINE Pick(s) == CHOOSE t \in s : TRUE
             Within(s) == {m \in M : m.talk \in s}
             Solves(g) == g = [s \in SUBSET T |-> IF s = {} THEN 0 ELSE c[Pick(s)] + g[s \ {Pick(s)}]]
             count == [s \in SUBSET T |-> Cardinality(Within(s))]
             sum == CHOOSE g : Solves(g)
             Different == {s \in SUBSET T : sum[s] # count[s]}
  <1>1. SumOver(c, T) = sum[T]
    BY DEF SumOver, MapThenSumSet, MapThenFoldSet
  <1>2. \A s : s # {} => Pick(s) \in s
    OBVIOUS
  <1>3. \A s : IsFiniteSet(Within(s)) /\ Cardinality(Within(s)) \in Nat
    BY FS_Subset, FS_CardinalityType
  <1>4. ASSUME NEW s \in SUBSET T, s # {}
        PROVE  count[s] = c[Pick(s)] + count[s \ {Pick(s)}]
    <2> DEFINE one == {m \in M : m.talk = Pick(s)}
               rest == Within(s \ {Pick(s)})
    <2>1. Pick(s) \in T /\ s \ {Pick(s)} \in SUBSET T
      BY <1>2, <1>4
    <2>2. Within(s) = one \cup rest /\ one \cap rest = {}
      BY <1>2, <1>4
    <2>3. IsFiniteSet(one) /\ IsFiniteSet(rest) /\ Cardinality(one) \in Nat /\ Cardinality(rest) \in Nat
      BY FS_Subset, FS_CardinalityType
    <2>4. c[Pick(s)] = Cardinality(one)
      BY <2>1
    <2>5. count[s] = Cardinality(Within(s)) /\ count[s \ {Pick(s)}] = Cardinality(rest)
      BY <2>1
    <2> HIDE DEF one, rest, Within, count, Pick
    <2>6. Cardinality(one \cup rest) = Cardinality(one) + Cardinality(rest) - Cardinality(one \cap rest)
      BY <2>3, FS_Union
    <2>7. Cardinality(one \cap rest) = 0
      BY <2>2, FS_EmptySet
    <2> QED BY <2>2, <2>3, <2>4, <2>5, <2>6, <2>7
  <1>5. count[{}] = 0
    BY FS_EmptySet
  <1>6. Solves(count)
    <2> HIDE DEF Pick
    <2> QED BY <1>4, <1>5
  <1>7. Solves(sum)
    BY <1>6
  <1>8. ASSUME NEW s \in SUBSET T
        PROVE  sum[s] = IF s = {} THEN 0 ELSE c[Pick(s)] + sum[s \ {Pick(s)}]
    BY <1>7
  <1> HIDE DEF sum, count, Pick, Solves
  <1>9. Different = {}
    <2> SUFFICES ASSUME Different # {} PROVE FALSE
      OBVIOUS
    <2> DEFINE sizes == {Cardinality(s) : s \in Different}
    <2>1. \A s \in Different : IsFiniteSet(s) /\ Cardinality(s) \in Nat
      BY FS_Subset, FS_CardinalityType
    <2>2. PICK n \in sizes : \A x \in sizes : n <= x
      <3>1. sizes \subseteq Nat /\ sizes # {}
        BY <2>1
      <3> HIDE DEF sizes
      <3> QED BY <3>1, LeastNumber
    <2>3. PICK s \in Different : Cardinality(s) = n
      BY <2>2
    <2>4. s # {}
      BY <1>5, <1>8, <2>3
    <2>5. Pick(s) \in s
      BY <1>2, <2>4
    <2>6. Cardinality(s \ {Pick(s)}) = Cardinality(s) - 1
      BY <2>1, <2>5, FS_RemoveElement
    <2>7. s \ {Pick(s)} \notin Different
      <3> SUFFICES ASSUME s \ {Pick(s)} \in Different PROVE FALSE
        OBVIOUS
      <3>1. n <= Cardinality(s \ {Pick(s)})
        BY <2>2
      <3>2. n \in Nat
        BY <2>1, <2>3
      <3> QED BY <2>3, <2>6, <3>1, <3>2
    <2>8. sum[s \ {Pick(s)}] = count[s \ {Pick(s)}]
      BY <2>3, <2>7
    <2> QED BY <1>4, <1>8, <2>3, <2>4, <2>8
  <1>10. sum[T] = count[T]
    BY <1>9
  <1> QED BY <1>1, <1>10 DEF count

\* What is counted is what the filter finds.
LEMMA CountsMeanUnread ==
  ASSUME IsFiniteSet(sent), NEW a, NEW page, NEW t \in Talks
  PROVE  /\ UnreadCounts(a, page)[t] \in Nat
         /\ t \in page => (UnreadCounts(a, page)[t] > 0 <=> UnreadMessageExists(a, t))
  <1> DEFINE unread == {m \in sent : m.talk = t /\ m.sender = UnreadSenderActorType(a)
                                                 /\ m.sequence > lastRead[a][t]}
  <1>1. UnreadCounts(a, page)[t] = IF t \in page THEN Cardinality(unread) ELSE 0
    BY DEF UnreadCounts
  <1>2. IsFiniteSet(unread) /\ Cardinality(unread) \in Nat
    BY FS_Subset, FS_CardinalityType
  <1>3. Cardinality(unread) = 0 <=> unread = {}
    BY <1>2, FS_EmptySet
  <1>4. UnreadMessageExists(a, t) <=> unread # {}
    BY DEF UnreadMessageExists
  <1> HIDE DEF unread
  <1> QED BY <1>1, <1>2, <1>3, <1>4

LEMMA InboxStarts == InboxInit => InboxInv
  <1> SUFFICES ASSUME InboxInit PROVE InboxInv
    OBVIOUS
  <1>1. inbox \in Inboxes /\ inbox.stage = "none"
    BY DEF InboxInit, NoInbox, Inboxes
  <1>2. IsFiniteSet(sent)
    BY FS_EmptySet DEF InboxInit
  <1>3. lastSequence \in [Talks -> Nat] /\ lastRead \in [Correspondents -> [Talks -> Nat]]
    BY DEF InboxInit
  <1>4. NoOne # "customer" => \A t \in Talks : lastMessageActorType[t] # "customer"
    BY DEF InboxInit
  <1> QED BY <1>1, <1>2, <1>3, <1>4, InboxAssumption DEF InboxInit, InboxInv, FoundStays, InboxAnswersAgree

LEMMA SendKeepsInbox ==
  ASSUME InboxInv, NEW a \in Correspondents, NEW t \in Talks, SendMessage(a, t)
  PROVE  InboxInv'
  <1>1. /\ lastSequence' \in [Talks -> Nat] /\ \A u \in Talks : lastSequence[u] > 0 => lastSequence'[u] > 0
        /\ lastSequence'[t] > 0
    BY DEF InboxInv, SendMessage
  <1>2. /\ lastMessageActorType' \in [Talks -> {"customer", "user", NoOne}]
        /\ \A u \in Talks \ {t} : lastMessageActorType'[u] = lastMessageActorType[u]
    BY DEF InboxInv, SendMessage, ActorType
  <1>3. IsFiniteSet(sent') /\ sent \subseteq sent'
    BY FS_AddElement DEF InboxInv, SendMessage
  <1>4. lastRead' = lastRead /\ inbox' = inbox
    BY DEF SendMessage
  <1>5. \A b, u : UnreadMessageExists(b, u) => UnreadMessageExists(b, u)'
    BY <1>3, <1>4 DEF UnreadMessageExists
  <1>6. \A m \in sent' : m.talk \in Talks /\ lastSequence'[m.talk] > 0
    BY <1>1 DEF InboxInv, SendMessage
  <1>7. \A u \in Talks : lastMessageActorType'[u] = "customer" => lastSequence'[u] > 0
    BY <1>1, <1>2 DEF InboxInv
  <1> QED BY <1>1, <1>2, <1>3, <1>4, <1>5, <1>6, <1>7 DEF InboxInv, FoundStays, InboxAnswersAgree

LEMMA MarkKeepsInbox ==
  ASSUME InboxInv, NEW a \in Correspondents, NEW t \in Talks, NEW upTo \in 1 .. MaxMessages,
         MarkRead(a, t, upTo)
  PROVE  InboxInv'
  <1>1. /\ lastRead' \in [Correspondents -> [Talks -> Nat]]
        /\ \A b \in Correspondents, u \in Talks : b # a \/ u # t => lastRead'[b][u] = lastRead[b][u]
    BY InboxAssumption DEF InboxInv, MarkRead
  <1>2. /\ inbox' \in Inboxes /\ inbox'.stage = inbox.stage /\ inbox'.actor = inbox.actor
        /\ inbox'.unread = inbox.unread /\ inbox'.items = inbox.items /\ inbox'.counts = inbox.counts
        /\ inbox.marked \subseteq inbox'.marked
        /\ inbox.stage = "found" /\ inbox.actor = a => t \in inbox'.marked
    BY DEF InboxInv, MarkRead, Inboxes
  <1>3. ASSUME inbox.stage = "found", inbox.unread = TRUE, NEW u \in inbox'.items \ inbox'.marked
        PROVE  UnreadMessageExists(inbox.actor, u)'
    <2>1. u \in Talks /\ inbox.actor \in Correspondents /\ UnreadMessageExists(inbox.actor, u)
      BY <1>2, <1>3 DEF InboxInv, FoundStays, Inboxes
    <2>2. lastRead'[inbox.actor][u] = lastRead[inbox.actor][u]
      BY <1>1, <1>2, <1>3, <2>1
    <2>3. sent' = sent
      BY DEF MarkRead
    <2> QED BY <1>2, <2>1, <2>2, <2>3 DEF UnreadMessageExists
  <1>4. FoundStays'
    BY <1>2, <1>3 DEF InboxInv, FoundStays
  <1>5. InboxAnswersAgree'
    BY <1>2 DEF InboxInv, InboxAnswersAgree
  <1> QED BY <1>1, <1>2, <1>4, <1>5 DEF InboxInv, MarkRead

LEMMA ListKeepsInbox ==
  ASSUME InboxInv, NEW a \in Correspondents, NEW unread \in BOOLEAN \cup {NoFilter},
         NEW needsReply \in BOOLEAN \cup {NoFilter}, ListConversations(a, unread, needsReply)
  PROVE  InboxInv'
  <1> DEFINE items == {t \in AccessibleTalks(a) : PassesFilters(a, t, unread, needsReply)}
  <1>1. items \in SUBSET Talks
    BY DEF AccessibleTalks
  <1>2. inbox' = [NoInbox EXCEPT !.stage = "found", !.actor = a, !.unread = unread,
                                 !.needsReply = needsReply, !.items = items]
    BY DEF ListConversations
  <1>3. unread = TRUE => \A t \in items : UnreadMessageExists(a, t)
    BY InboxAssumption DEF PassesFilters
  <1> HIDE DEF items
  <1>4. /\ inbox' \in Inboxes /\ inbox'.stage = "found" /\ inbox'.actor = a /\ inbox'.unread = unread
        /\ inbox'.items = items
    BY <1>1, <1>2 DEF NoInbox, Inboxes
  <1>5. UNCHANGED <<lastSequence, lastMessageActorType, sent, lastRead>>
    BY DEF ListConversations
  <1>6. \A t : UnreadMessageExists(a, t) => UnreadMessageExists(a, t)'
    BY <1>5 DEF UnreadMessageExists
  <1>7. FoundStays'
    BY <1>3, <1>4, <1>6 DEF FoundStays
  <1>8. InboxAnswersAgree'
    BY <1>4 DEF InboxAnswersAgree
  <1> QED BY <1>4, <1>5, <1>7, <1>8 DEF InboxInv

LEMMA CountKeepsInbox ==
  ASSUME InboxInv, CountUnread
  PROVE  InboxInv'
  <1> DEFINE counts == UnreadCounts(inbox.actor, inbox.items)
  <1>1. counts \in [Talks -> Nat]
    <2>1. \A t \in Talks : counts[t] \in Nat
      BY CountsMeanUnread DEF InboxInv
    <2> QED BY <2>1 DEF UnreadCounts
  <1>2. inbox.unread = TRUE => \A t \in inbox.items \ inbox.marked : counts[t] > 0
    BY CountsMeanUnread DEF CountUnread, InboxInv, FoundStays, Inboxes
  <1>3. inbox' = [inbox EXCEPT !.stage = "answered", !.counts = counts]
    BY DEF CountUnread
  <1> HIDE DEF counts
  <1>4. /\ inbox' \in Inboxes /\ inbox'.stage = "answered" /\ inbox'.unread = inbox.unread
        /\ inbox'.items = inbox.items /\ inbox'.marked = inbox.marked /\ inbox'.counts = counts
    BY <1>1, <1>3 DEF InboxInv, Inboxes
  <1>5. FoundStays' /\ InboxAnswersAgree'
    BY <1>2, <1>4 DEF FoundStays, InboxAnswersAgree
  <1> QED BY <1>4, <1>5 DEF InboxInv, CountUnread

\* The badge counts messages, the list counts them by conversation: each unread
\* message is in one conversation, which its reader may see.
LEMMA BadgeSumsUp == InboxInv => BadgeIsSum
  <1> SUFFICES ASSUME InboxInv, NEW a \in Correspondents
               PROVE  UnreadMessageCount(a) =
                        SumOver(UnreadCounts(a, AccessibleTalks(a)), {t \in Talks : IsAccessible(a, t)})
    BY DEF BadgeIsSum, SumOver
  <1> DEFINE counts == UnreadCounts(a, AccessibleTalks(a))
             talks == {t \in Talks : IsAccessible(a, t)}
             unread == {m \in sent : m.sender = UnreadSenderActorType(a) /\ m.sequence > lastRead[a][m.talk]}
  <1>1. IsFiniteSet(talks) /\ IsFiniteSet(unread)
    BY FS_Subset, InboxAssumption DEF InboxInv
  <1>2. ASSUME NEW t \in talks
        PROVE  counts[t] = Cardinality({m \in unread : m.talk = t})
    <2>1. CASE t \in AccessibleTalks(a)
      <3>1. counts[t] = Cardinality({m \in sent : /\ m.talk = t /\ m.sender = UnreadSenderActorType(a)
                                                   /\ m.sequence > lastRead[a][t]})
        BY <2>1 DEF UnreadCounts
      <3>2. {m \in unread : m.talk = t} = {m \in sent : /\ m.talk = t /\ m.sender = UnreadSenderActorType(a)
                                                         /\ m.sequence > lastRead[a][t]}
        OBVIOUS
      <3> QED BY <3>1, <3>2
    <2>2. CASE t \notin AccessibleTalks(a)
      <3>1. {m \in unread : m.talk = t} = {}
        BY <2>2 DEF InboxInv, AccessibleTalks
      <3>2. counts[t] = 0
        BY <2>2 DEF UnreadCounts
      <3> QED BY <3>1, <3>2, FS_EmptySet
    <2> QED BY <2>1, <2>2
  <1>3. {m \in unread : m.talk \in talks} =
          {m \in sent : /\ m.sender = UnreadSenderActorType(a)
                        /\ m.sequence > lastRead[a][m.talk]
                        /\ a \in Customers => TalkOf[m.talk] = a}
    BY InboxAssumption DEF InboxInv, IsAccessible, Correspondents
  <1> HIDE DEF counts, talks, unread
  <1>4. SumOver(counts, talks) = Cardinality({m \in unread : m.talk \in talks})
    BY <1>1, <1>2, SumOfCounts
  <1> QED BY <1>3, <1>4 DEF UnreadMessageCount, counts, talks, unread

\* The counts, the filters, the badge and the answers mean the same by "unread"
\* and "needs a reply", however many messages come between two statements.
THEOREM InboxAlwaysAgrees == InboxSpec => []InboxAgrees
  <1>1. InboxInv /\ [InboxNext]_inboxVars => InboxInv'
    <2> SUFFICES ASSUME InboxInv, [InboxNext]_inboxVars PROVE InboxInv'
      OBVIOUS
    <2>1. CASE UNCHANGED inboxVars
      BY <2>1 DEF inboxVars, InboxInv, FoundStays, InboxAnswersAgree, UnreadMessageExists
    <2>2. CASE TakeInbox
      <3>1. inbox' \in Inboxes /\ inbox'.stage = "none"
        BY <2>2 DEF TakeInbox, NoInbox, Inboxes
      <3> QED BY <2>2, <3>1 DEF TakeInbox, InboxInv, FoundStays, InboxAnswersAgree
    <2>3. CASE InboxNext /\ ~TakeInbox
      BY <2>3, SendKeepsInbox, MarkKeepsInbox, ListKeepsInbox, CountKeepsInbox DEF InboxNext
    <2> QED BY <2>1, <2>2, <2>3
  <1>2. InboxInv => FiltersAgree
    <2> SUFFICES ASSUME InboxInv, NEW a \in Correspondents
                 PROVE  LET counts == UnreadCounts(a, AccessibleTalks(a)) IN
                        /\ \A t \in Talks : IsAccessible(a, t) => ContextUnreadCount(a, t) = counts[t]
                        /\ \A t \in AccessibleTalks(a) : PassesFilters(a, t, TRUE, NoFilter) <=> counts[t] > 0
                        /\ a \in Users =>
                             NeedsReplyConversationCount =
                               Cardinality({t \in AccessibleTalks(a) : PassesFilters(a, t, NoFilter, TRUE)})
      BY DEF FiltersAgree
    <2>1. ASSUME NEW t \in Talks, IsAccessible(a, t)
          PROVE  ContextUnreadCount(a, t) = UnreadCounts(a, AccessibleTalks(a))[t]
      <3>1. lastSequence[t] \in Nat
        BY DEF InboxInv
      <3>2. CASE lastSequence[t] = 0
        BY <3>2 DEF ContextUnreadCount, UnreadCounts, AccessibleTalks
      <3>3. CASE lastSequence[t] > 0
        BY <2>1, <3>3 DEF ContextUnreadCount, UnreadCounts, AccessibleTalks
      <3> QED BY <3>1, <3>2, <3>3
    <2>2. ASSUME NEW t \in AccessibleTalks(a)
          PROVE  PassesFilters(a, t, TRUE, NoFilter) <=> UnreadCounts(a, AccessibleTalks(a))[t] > 0
      <3>1. t \in Talks
        BY DEF AccessibleTalks
      <3>2. UnreadCounts(a, AccessibleTalks(a))[t] > 0 <=> UnreadMessageExists(a, t)
        BY <3>1, CountsMeanUnread DEF InboxInv
      <3>3. PassesFilters(a, t, TRUE, NoFilter) <=> UnreadMessageExists(a, t)
        BY InboxAssumption DEF PassesFilters
      <3> QED BY <3>2, <3>3
    <2>3. ASSUME a \in Users
          PROVE  {t \in Talks : lastMessageActorType[t] = "customer"}
                   = {t \in AccessibleTalks(a) : PassesFilters(a, t, NoFilter, TRUE)}
      <3>1. \A t : PassesFilters(a, t, NoFilter, TRUE) <=> lastMessageActorType[t] = "customer"
        BY InboxAssumption DEF PassesFilters
      <3> QED BY <2>3, <3>1 DEF AccessibleTalks, IsAccessible, InboxInv
    <2> QED BY <2>1, <2>2, <2>3 DEF NeedsReplyConversationCount
  <1>3. InboxInv => InboxAgrees
    BY <1>2, BadgeSumsUp DEF InboxInv, InboxAgrees
  <1> QED BY <1>1, <1>3, InboxStarts, PTL DEF InboxSpec
=============================================================================
