------------------------ MODULE BookingCreationProofs ------------------------
(***************************************************************************)
(* The promises of createBooking(), proved for any requests, customers and *)
(* limits.  Every step of a request writes only its own stage, view and    *)
(* answer, so the inductive step looks at that one request (LocalStep).    *)
(***************************************************************************)
EXTENDS BookingCreationProperties, FiniteSetTheorems, TLAPS

-----------------------------------------------------------------------------
(* Types *)

\* The row of a request is well formed after it is finished.
LEMMA FinishType ==
  ASSUME TypeOK, NEW r \in Requests, NEW kind \in AnswerKind,
         NEW b \in Requests \union {NoBooking}, Finish(r, kind, b)
  PROVE  /\ stage' \in [Requests -> Stage]
         /\ view' \in [Requests -> [taken : BOOLEAN, rows : [Requests -> Status]]]
         /\ answer' \in [Requests -> [kind : AnswerKind,
                                      booking : Requests \union {NoBooking}]]
         /\ \A q \in Requests : view'[q].taken => stage'[q] \in {"newCustomer"} \union Resolved
  <1>1. NoView \in [taken : BOOLEAN, rows : [Requests -> Status]] /\ ~NoView.taken
    BY DEF NoView, Status
  <1> QED BY <1>1 DEF Finish, TypeOK, Stage

\* The read view of a transaction is a table of bookings.
LEMMA TakenViewType ==
  ASSUME TypeOK, NEW r \in Requests
  PROVE  /\ Rows(r) \in [Requests -> Status]
         /\ TakenView(r) \in [Requests -> [taken : BOOLEAN, rows : [Requests -> Status]]]
         /\ TakenView(r)[r] = [taken |-> TRUE, rows |-> Rows(r)]
         /\ \A q \in Requests \ {r} : TakenView(r)[q] = view[q]
  <1>1. Rows(r) \in [Requests -> Status]
    BY DEF Rows, TypeOK
  <1> QED BY <1>1 DEF TakenView, TypeOK

\* Answering with an existing booking finishes the request.
LEMMA AnswerExistingFinishes ==
  ASSUME NEW r, NEW q, AnswerExisting(r, q)
  PROVE  \/ Hash[q] = Hash[r] /\ Finish(r, "replayed", q)
         \/ Finish(r, "intentConflict", NoBooking)
  BY DEF AnswerExisting

\* Every way a step ends: the request goes on or is finished.
LEMMA HandleCases ==
  ASSUME NEW r \in Requests, Handle(r) \/ Fail(r)
  PROVE  \/ \E kind \in AnswerKind, b \in Requests \union {NoBooking} : Finish(r, kind, b)
         \/ /\ UNCHANGED <<booking, account, answer>>
            /\ \/ stage[r] = "idle" /\ stage' = [stage EXCEPT ![r] = "begun"] /\ UNCHANGED view
               \/ /\ stage[r] \in {"begun", "newCustomer"}
                  /\ stage' = [stage EXCEPT ![r] = "resolved"]
                  /\ view' \in {view, TakenView(r)}
               \/ /\ stage[r] = "begun"
                  /\ stage' = [stage EXCEPT ![r] = "newCustomer"] /\ view' = TakenView(r)
               \/ /\ stage[r] = "resolved"
                  /\ stage' = [stage EXCEPT ![r] = "admitted"] /\ view' = TakenView(r)
               \/ /\ stage[r] = "admitted"
                  /\ stage' = [stage EXCEPT ![r] = "roomLocked"] /\ UNCHANGED view
               \/ /\ stage[r] = "roomLocked"
                  /\ stage' = [stage EXCEPT ![r] = "inserted"] /\ UNCHANGED view
               \/ /\ stage[r] = "roomLocked"
                  /\ stage' = [stage EXCEPT ![r] = "replaying"]
                  /\ view' = [view EXCEPT ![r] = NoView]
  <1> DEFINE ends == \E kind \in AnswerKind, b \in Requests \union {NoBooking} : Finish(r, kind, b)
  <1>0. /\ {"created", "replayed", "intentConflict", "limit", "roomTaken", "phoneInUse",
            "createConflict", "refused", "failed"} \subseteq AnswerKind
        /\ \A rows : Existing(r, rows) \subseteq Requests
    BY DEF AnswerKind, Existing
  <1>00. \A q \in Requests : AnswerExisting(r, q) => ends
    BY <1>0, AnswerExistingFinishes
  <1>1. CASE FindRequestIntentSnapshot(r)
    BY <1>0, <1>00, <1>1 DEF FindRequestIntentSnapshot, Continue
  <1>2. CASE LockCustomer(r)
    BY <1>0, <1>2 DEF LockCustomer, Continue
  <1>3. CASE FindCustomer(r)
    BY <1>0, <1>3 DEF FindCustomer, Continue
  <1>4. CASE CreatePasswordless(r)
    BY <1>0, <1>4 DEF CreatePasswordless, Continue
  <1>5. CASE AssertAdmission(r)
    <2>1. CASE \E q \in Existing(r, Rows(r)) : AnswerExisting(r, q)
      BY <1>0, <1>00, <2>1
    <2> QED BY <1>0, <1>5, <2>1 DEF AssertAdmission, Continue
  <1>6. CASE LockBookableRoom(r)
    BY <1>6 DEF LockBookableRoom, Continue
  <1>7. CASE InsertBooking(r)
    BY <1>7 DEF InsertBooking, Continue
  <1>8. CASE ReserveBookingStay(r)
    BY <1>0, <1>8 DEF ReserveBookingStay
  <1>9. CASE ReplayAfterConflict(r)
    BY <1>0, <1>00, <1>9 DEF ReplayAfterConflict
  <1>10. CASE Fail(r)
    BY <1>0, <1>10 DEF Fail
  <1> QED BY <1>1, <1>2, <1>3, <1>4, <1>5, <1>6, <1>7, <1>8, <1>9, <1>10 DEF Handle

\* Only the commit of a creation writes a booking or a customer.
LEMMA WritesOfHandle ==
  ASSUME TypeOK, NEW r \in Requests, Handle(r) \/ Fail(r)
  PROVE  \/ UNCHANGED <<booking, account>>
         \/ /\ stage[r] = "inserted" /\ NightsFree(r)
            /\ booking' = [booking EXCEPT ![r] = "unpaid"]
            /\ account' = [account EXCEPT ![Customer[r]] = IF @ = "ABSENT" THEN "ACTIVE" ELSE @]
            /\ Finish(r, "created", r)
  BY DEF Handle, Fail, FindRequestIntentSnapshot, LockCustomer, FindCustomer,
         CreatePasswordless, AssertAdmission, LockBookableRoom, InsertBooking,
         ReserveBookingStay, ReplayAfterConflict

\* One step of a request keeps the types.
LEMMA HandleType ==
  ASSUME TypeOK, NEW r \in Requests, Handle(r) \/ Fail(r)
  PROVE  TypeOK'
  <1>1. booking' \in [Requests -> Status] /\ account' \in [Customers -> {"ABSENT", "ACTIVE", "LOCKED"}]
    <2>1. CASE UNCHANGED <<booking, account>>
      BY <2>1 DEF TypeOK
    <2>2. CASE /\ booking' = [booking EXCEPT ![r] = "unpaid"]
               /\ account' = [account EXCEPT ![Customer[r]] = IF @ = "ABSENT" THEN "ACTIVE" ELSE @]
      BY <2>2, RequestAssumption DEF TypeOK, Status
    <2> QED BY <2>1, <2>2, WritesOfHandle
  <1>2. CASE \E kind \in AnswerKind, b \in Requests \union {NoBooking} : Finish(r, kind, b)
    BY <1>1, <1>2, FinishType DEF TypeOK
  <1>3. CASE ~\E kind \in AnswerKind, b \in Requests \union {NoBooking} : Finish(r, kind, b)
    <2>1. NoView \in [taken : BOOLEAN, rows : [Requests -> Status]] /\ ~NoView.taken
      BY DEF NoView, Status
    <2>2. view' \in {view, TakenView(r), [view EXCEPT ![r] = NoView]} /\ UNCHANGED answer
      BY <1>3, HandleCases
    <2>3. view' \in [Requests -> [taken : BOOLEAN, rows : [Requests -> Status]]]
      BY ZenonT(40), <2>1, <2>2, TakenViewType DEF TypeOK
    <2>4. stage' \in [Requests -> Stage]
      BY <1>3, HandleCases DEF TypeOK, Stage
    <2>5. /\ stage' = [stage EXCEPT ![r] = stage'[r]]
          /\ view' = [view EXCEPT ![r] = view'[r]]
      BY <1>3, HandleCases DEF TypeOK, TakenView
    <2>6. \A q \in Requests \ {r} : stage'[q] = stage[q] /\ view'[q] = view[q]
      BY <2>5 DEF TypeOK
    <2>7. view'[r].taken => stage'[r] \in {"newCustomer"} \union Resolved
      <3>1. view'[r] \in {view[r], TakenView(r)[r], NoView}
        BY <2>2 DEF TypeOK
      <3> QED BY SMTT(30), <1>3, <2>1, <3>1, HandleCases DEF TypeOK, Resolved, Stage
    <2>8. \A q \in Requests : view'[q].taken => stage'[q] \in {"newCustomer"} \union Resolved
      BY <2>6, <2>7 DEF TypeOK
    <2> QED BY <1>1, <2>2, <2>3, <2>4, <2>8 DEF TypeOK
  <1> QED BY <1>2, <1>3

\* The initial state has its types.
LEMMA InitType == Init => TypeOK
  BY RequestAssumption DEF Init, TypeOK, NoView, NoAnswer, Status, Stage, AnswerKind

\* Every step keeps the types.
LEMMA NextType == TypeOK /\ [Next]_vars => TypeOK'
  <1> SUFFICES ASSUME TypeOK, [Next]_vars PROVE TypeOK'
    OBVIOUS
  <1>1. ASSUME NEW q \in Requests, NEW next \in {"paid", "cancelled"}, LeaveUnpaid(q, next)
        PROVE  TypeOK'
    BY <1>1 DEF LeaveUnpaid, TypeOK, Status
  <1>2. ASSUME NEW c \in Customers, NEW status \in {"ACTIVE", "LOCKED"}, SaveStatus(c, status)
        PROVE  TypeOK'
    BY <1>2 DEF SaveStatus, TypeOK
  <1>3. CASE UNCHANGED vars
    BY <1>3 DEF vars, TypeOK
  <1> QED BY <1>1, <1>2, <1>3, HandleType DEF Next

\* Every reachable state of createBooking() is well formed, and only open
\* transactions have a read view.
THEOREM CreationTypeCorrect == Spec => []TypeOK
  BY InitType, NextType, PTL DEF Spec

-----------------------------------------------------------------------------
(* The inductive invariant *)

\* What a step of r owes the others when it writes nothing but its own stage
\* and read view.
LEMMA LocalStep ==
  ASSUME CreationInvariant, NEW r \in Requests, UNCHANGED <<booking, account>>,
         \A q \in Requests \ {r} : stage'[q] = stage[q] /\ view'[q] = view[q],
         RequestInOrder(r)',
         \A q \in Requests \ {r} : Compatible(q, r)' /\ Compatible(r, q)'
  PROVE  CreationInvariant'
  <1>1. ASSUME NEW q \in Requests \ {r}
        PROVE  RequestInOrder(q)'
    BY <1>1 DEF CreationInvariant, RequestInOrder, HoldsCustomer
  <1>2. ASSUME NEW q \in Requests \ {r}, NEW s \in Requests \ {r}, q # s
        PROVE  Compatible(q, s)'
    BY <1>2 DEF CreationInvariant, Compatible, HoldsCustomer, SharesCustomer, HoldsIntent
  <1> QED BY <1>1, <1>2 DEF CreationInvariant

\* A step that acquires nothing owes the others nothing.
LEMMA QuietStep ==
  ASSUME CreationInvariant, NEW r \in Requests, UNCHANGED <<booking, account>>,
         \A q \in Requests \ {r} : stage'[q] = stage[q] /\ view'[q] = view[q],
         RequestInOrder(r)',
         HoldsCustomer(r)' => HoldsCustomer(r),
         SharesCustomer(r)' => SharesCustomer(r),
         HoldsIntent(r)' => HoldsIntent(r)
  PROVE  CreationInvariant'
  <1>1. ASSUME NEW q \in Requests \ {r}
        PROVE  Compatible(q, r)' /\ Compatible(r, q)'
    <2>1. Compatible(q, r) /\ Compatible(r, q)
      BY DEF CreationInvariant
    <2>2. /\ HoldsCustomer(q)' <=> HoldsCustomer(q)
          /\ SharesCustomer(q)' <=> SharesCustomer(q)
          /\ HoldsIntent(q)' <=> HoldsIntent(q)
      BY DEF HoldsCustomer, SharesCustomer, HoldsIntent
    <2> QED BY <2>1, <2>2 DEF Compatible
  <1> QED BY <1>1, LocalStep

\* The step of one request leaves the stage and the view of the others alone.
LEMMA OthersUnchanged ==
  ASSUME TypeOK, NEW r \in Requests, Handle(r) \/ Fail(r)
  PROVE  \A q \in Requests \ {r} : stage'[q] = stage[q] /\ view'[q] = view[q]
  BY HandleCases DEF TypeOK, TakenView, Finish

\* Finishing without a booking releases everything.
LEMMA FinishKeeps ==
  ASSUME TypeOK, CreationInvariant, NEW r \in Requests, NEW kind, NEW b,
         Finish(r, kind, b), UNCHANGED <<booking, account>>
  PROVE  CreationInvariant'
  <1>1. stage'[r] = "done" /\ view'[r] = NoView
        /\ \A q \in Requests \ {r} : stage'[q] = stage[q] /\ view'[q] = view[q]
    BY DEF Finish, TypeOK
  <1>2. RequestInOrder(r)'
    BY <1>1 DEF RequestInOrder, HoldsCustomer, NoView, Resolved
  <1> QED BY <1>1, <1>2, QuietStep
       DEF HoldsCustomer, SharesCustomer, HoldsIntent, Resolved

\* A request that is not done has no booking, and staff alone create customers.
LEMMA OpenRequest ==
  ASSUME CreationInvariant, NEW r \in Requests, stage[r] # "done"
  PROVE  RequestInOrder(r) /\ booking[r] = "none"
  BY DEF CreationInvariant, RequestInOrder

\* The customer's own transaction locks the customer when nobody else has it.
LEMMA LockCustomerKeeps ==
  ASSUME TypeOK, CreationInvariant, NEW r \in Requests, LockCustomer(r)
  PROVE  CreationInvariant'
  <1>1. CASE \E kind, b : Finish(r, kind, b)
    BY <1>1, FinishKeeps DEF LockCustomer
  <1>2. CASE account[Customer[r]] = "ACTIVE" /\ Continue(r, "resolved") /\ UNCHANGED view
    <2>1. /\ stage'[r] = "resolved" /\ stage[r] = "begun" /\ r \notin ByStaff
          /\ UNCHANGED <<booking, account, view>>
          /\ \A q \in Requests \ {r} : stage'[q] = stage[q] /\ view'[q] = view[q]
      BY <1>2 DEF LockCustomer, Continue, TypeOK
    <2>2. RequestInOrder(r)'
      BY <1>2, <2>1, OpenRequest DEF RequestInOrder
    <2>3. ASSUME NEW q \in Requests \ {r}
          PROVE  Compatible(q, r)' /\ Compatible(r, q)'
      <3>1. Compatible(q, r) /\ Compatible(r, q)
        BY DEF CreationInvariant
      <3>2. Customer[q] = Customer[r] => ~HoldsCustomer(q) /\ ~SharesCustomer(q)
        BY <2>1 DEF LockCustomer, WaitsFor
      <3> QED BY <2>1, <3>1, <3>2
           DEF Compatible, HoldsCustomer, SharesCustomer, HoldsIntent
    <2> QED BY <2>1, <2>2, <2>3, LocalStep
  <1> QED BY <1>1, <1>2 DEF LockCustomer

\* Staff read the customer without locking anything.
LEMMA StaffReadKeeps ==
  ASSUME TypeOK, CreationInvariant, NEW r \in ByStaff, r \in Requests,
         NEW next \in {"resolved", "newCustomer"}, stage[r] \in {"begun", "newCustomer"},
         UNCHANGED <<booking, account>>,
         Continue(r, next), view' \in {view, TakenView(r)}
  PROVE  CreationInvariant'
  <1>0. stage'[r] = next /\ \A q \in Requests \ {r} : stage'[q] = stage[q]
    BY DEF Continue, TypeOK
  <1>00. \A q \in Requests \ {r} : view'[q] = view[q]
    <2>1. CASE view' = view
      BY <2>1
    <2>2. CASE view' = TakenView(r)
      BY <2>2, TakenViewType
    <2> QED BY <2>1, <2>2
  <1>1. /\ stage'[r] = next
        /\ \A q \in Requests \ {r} : stage'[q] = stage[q] /\ view'[q] = view[q]
    BY <1>0, <1>00
  <1>2. view'[r] \in {view[r], [taken |-> TRUE, rows |-> Rows(r)]}
    BY TakenViewType
  <1>3. RequestInOrder(r)'
    BY <1>1, <1>2, OpenRequest DEF RequestInOrder, Rows
  <1> QED BY <1>1, <1>3, QuietStep DEF HoldsCustomer, SharesCustomer, HoldsIntent

\* What a customer's transaction has read when it is admitted is the truth.
LEMMA AssertAdmissionKeeps ==
  ASSUME TypeOK, CreationInvariant, NEW r \in Requests, AssertAdmission(r)
  PROVE  CreationInvariant'
  <1>0. UNCHANGED <<booking, account>> /\ stage[r] = "resolved"
    BY DEF AssertAdmission
  <1>1. CASE \E kind, b : Finish(r, kind, b)
    BY <1>0, <1>1, FinishKeeps
  <1>2. CASE /\ r \in ByStaff \/ WithinLimits(r, Rows(r))
             /\ Continue(r, "admitted") /\ view' = TakenView(r)
    <2>1. /\ stage'[r] = "admitted" /\ view'[r] = [taken |-> TRUE, rows |-> Rows(r)]
          /\ \A q \in Requests \ {r} : stage'[q] = stage[q] /\ view'[q] = view[q]
      BY <1>2, TakenViewType DEF Continue, TypeOK
    <2>2. RequestInOrder(r) /\ booking[r] = "none"
      BY <1>0, OpenRequest
    <2>3. r \notin ByStaff => Rows(r) = booking
      BY <1>0, <2>2 DEF RequestInOrder, Rows
    <2>4. \A q \in Requests : Rows(r)[q] # "none" => booking[q] # "none"
      BY <2>2 DEF RequestInOrder, Rows
    <2>5. RequestInOrder(r)'
      BY <1>0, <1>2, <2>1, <2>2, <2>3, <2>4 DEF RequestInOrder, HoldsCustomer, Resolved
    <2> QED BY <1>0, <2>1, <2>5, QuietStep
         DEF HoldsCustomer, SharesCustomer, HoldsIntent, Resolved
  <1> QED BY <1>1, <1>2, AnswerExistingFinishes DEF AssertAdmission

\* The insert of a booking shares the customer and holds the request intent.
LEMMA InsertBookingKeeps ==
  ASSUME TypeOK, CreationInvariant, NEW r \in Requests, InsertBooking(r)
  PROVE  CreationInvariant'
  <1>0. /\ UNCHANGED <<booking, account>> /\ stage[r] = "roomLocked"
        /\ RequestInOrder(r) /\ booking[r] = "none"
    BY OpenRequest DEF InsertBooking
  <1>1. CASE /\ Existing(r, booking) = {} /\ Continue(r, "inserted") /\ UNCHANGED view
    <2>1. /\ stage'[r] = "inserted"
          /\ \A q \in Requests \ {r} : stage'[q] = stage[q] /\ view'[q] = view[q]
      BY <1>1 DEF Continue, TypeOK
    <2>2. RequestInOrder(r)'
      BY <1>0, <1>1, <2>1 DEF RequestInOrder, HoldsCustomer, Resolved
    <2>3. ASSUME NEW q \in Requests \ {r}
          PROVE  Compatible(q, r)' /\ Compatible(r, q)'
      <3>1. Compatible(q, r) /\ Compatible(r, q)
        BY DEF CreationInvariant
      <3>2. Customer[q] = Customer[r] => ~HoldsCustomer(q)
        BY <1>0 DEF InsertBooking, WaitsFor
      <3>3. SameIntent(q, r) => ~HoldsIntent(q) /\ booking[q] = "none"
        BY <1>0, <1>1 DEF InsertBooking, WaitsFor, Existing
      <3>4. SameIntent(r, q) <=> SameIntent(q, r)
        BY DEF SameIntent
      <3>5. /\ HoldsCustomer(q)' <=> HoldsCustomer(q)
            /\ SharesCustomer(q)' <=> SharesCustomer(q)
            /\ HoldsIntent(q)' <=> HoldsIntent(q)
            /\ HoldsCustomer(r)' <=> HoldsCustomer(r)
        BY <1>0, <2>1 DEF HoldsCustomer, SharesCustomer, HoldsIntent, Resolved
      <3> QED BY <1>0, <3>1, <3>2, <3>3, <3>4, <3>5 DEF Compatible
    <2> QED BY <1>0, <2>1, <2>2, <2>3, LocalStep
  <1>2. CASE Continue(r, "replaying") /\ view' = [view EXCEPT ![r] = NoView]
    <2>1. /\ stage'[r] = "replaying" /\ view'[r] = NoView
          /\ \A q \in Requests \ {r} : stage'[q] = stage[q] /\ view'[q] = view[q]
      BY <1>2 DEF Continue, TypeOK
    <2>2. RequestInOrder(r)'
      BY <1>0, <2>1 DEF RequestInOrder, HoldsCustomer, Resolved, NoView
    <2> QED BY <1>0, <2>1, <2>2, QuietStep
         DEF HoldsCustomer, SharesCustomer, HoldsIntent, Resolved
  <1> QED BY <1>1, <1>2 DEF InsertBooking

\* A committed booking is one more of its customer, but no other transaction of
\* that customer relies on what it has read, and no other one has its intent.
LEMMA CommitKeeps ==
  ASSUME TypeOK, CreationInvariant, NEW r \in Requests, stage[r] = "inserted",
         booking' = [booking EXCEPT ![r] = "unpaid"],
         account' = [account EXCEPT ![Customer[r]] = IF @ = "ABSENT" THEN "ACTIVE" ELSE @],
         Finish(r, "created", r)
  PROVE  CreationInvariant'
  <1>1. /\ stage'[r] = "done" /\ view'[r] = NoView /\ booking'[r] = "unpaid"
        /\ \A q \in Requests \ {r} : /\ stage'[q] = stage[q] /\ view'[q] = view[q]
                                     /\ booking'[q] = booking[q]
        /\ \A c \in Customers : account[c] = "ACTIVE" => account'[c] = "ACTIVE"
    BY DEF Finish, TypeOK
  <1>2. RequestInOrder(r)'
    BY <1>1 DEF RequestInOrder, HoldsCustomer, NoView, Resolved
  <1>3. ASSUME NEW q \in Requests \ {r}
        PROVE  RequestInOrder(q)'
    <2>1. RequestInOrder(q) /\ Compatible(r, q) /\ Customer[q] \in Customers
      BY RequestAssumption DEF CreationInvariant
    <2>2. q \notin ByStaff /\ view[q].taken => HoldsCustomer(q)
      BY <2>1 DEF RequestInOrder, HoldsCustomer, Resolved
    <2>3. q \notin ByStaff /\ view[q].taken => Customer[q] # Customer[r]
      BY <2>1, <2>2 DEF Compatible, HoldsCustomer, SharesCustomer, Resolved
    <2>4. q \notin ByStaff /\ view[q].taken =>
            ActiveUnpaid(Customer[q], booking') = ActiveUnpaid(Customer[q], booking)
      BY <1>1, <2>3 DEF ActiveUnpaid
    <2>5. HoldsCustomer(q)' <=> HoldsCustomer(q)
      BY <1>1 DEF HoldsCustomer
    <2>6. \A s \in Requests : booking[s] # "none" => booking'[s] # "none"
      BY <1>1
    <2> QED BY <1>1, <2>1, <2>4, <2>5, <2>6 DEF RequestInOrder
  <1>4. ASSUME NEW q \in Requests, NEW s \in Requests, q # s
        PROVE  Compatible(q, s)'
    <2>1. Compatible(q, s) /\ Compatible(s, q)
      BY <1>4 DEF CreationInvariant
    <2>2. /\ HoldsCustomer(q)' => HoldsCustomer(q)
          /\ HoldsCustomer(s)' => HoldsCustomer(s)
          /\ SharesCustomer(q)' => SharesCustomer(q)
          /\ HoldsIntent(q)' => HoldsIntent(q)
          /\ HoldsIntent(s)' => HoldsIntent(s) /\ s # r
      BY <1>1 DEF HoldsCustomer, SharesCustomer, HoldsIntent, Resolved
    <2>3. SameIntent(q, s) <=> SameIntent(s, q)
      BY DEF SameIntent
    <2>4. SameIntent(q, s) /\ q = r => HoldsIntent(q)
      BY DEF SameIntent, HoldsIntent
    <2>5. SameIntent(q, s) /\ s = r => HoldsIntent(s)
      BY DEF SameIntent, HoldsIntent
    <2> QED BY <1>1, <1>4, <2>1, <2>2, <2>3, <2>4, <2>5 DEF Compatible
  <1> QED BY <1>2, <1>3, <1>4 DEF CreationInvariant

\* Every other step of a request acquires nothing, or finishes it.
LEMMA OtherStepsKeep ==
  ASSUME TypeOK, CreationInvariant, NEW r \in Requests,
         \/ FindRequestIntentSnapshot(r) \/ LockBookableRoom(r)
         \/ ReplayAfterConflict(r) \/ Fail(r)
  PROVE  CreationInvariant'
  <1>0. UNCHANGED <<booking, account>>
    BY DEF FindRequestIntentSnapshot, LockBookableRoom, ReplayAfterConflict, Fail
  <1>1. CASE \E kind, b : Finish(r, kind, b)
    BY <1>0, <1>1, FinishKeeps
  <1>2. CASE /\ stage[r] = "idle" /\ Continue(r, "begun") /\ UNCHANGED view
    <2>1. stage'[r] = "begun" /\ \A q \in Requests \ {r} : stage'[q] = stage[q] /\ view'[q] = view[q]
      BY <1>2 DEF Continue, TypeOK
    <2>2. RequestInOrder(r)'
      BY <1>0, <1>2, <2>1, OpenRequest DEF RequestInOrder, HoldsCustomer, Resolved
    <2> QED BY <1>0, <2>1, <2>2, QuietStep
         DEF HoldsCustomer, SharesCustomer, HoldsIntent, Resolved
  <1>3. CASE /\ stage[r] = "admitted" /\ Continue(r, "roomLocked") /\ UNCHANGED view
    <2>1. stage'[r] = "roomLocked" /\ \A q \in Requests \ {r} : stage'[q] = stage[q] /\ view'[q] = view[q]
      BY <1>3 DEF Continue, TypeOK
    <2>2. RequestInOrder(r)'
      BY <1>0, <1>3, <2>1, OpenRequest DEF RequestInOrder, HoldsCustomer, Resolved
    <2> QED BY <1>0, <1>3, <2>1, <2>2, QuietStep
         DEF HoldsCustomer, SharesCustomer, HoldsIntent, Resolved
  <1> QED BY <1>1, <1>2, <1>3, AnswerExistingFinishes
       DEF FindRequestIntentSnapshot, LockBookableRoom, ReplayAfterConflict, Fail

\* One step of a request keeps the invariant.
LEMMA HandleKeeps ==
  ASSUME TypeOK, CreationInvariant, NEW r \in Requests, Handle(r) \/ Fail(r)
  PROVE  CreationInvariant'
  <1>1. CASE FindCustomer(r)
    <2>1. CASE \E kind, b : Finish(r, kind, b)
      BY <1>1, <2>1, FinishKeeps DEF FindCustomer
    <2>2. CASE \E next \in {"resolved", "newCustomer"} : Continue(r, next) /\ view' = TakenView(r)
      BY <1>1, <2>2, StaffReadKeeps DEF FindCustomer
    <2> QED BY <1>1, <2>1, <2>2 DEF FindCustomer
  <1>2. CASE CreatePasswordless(r)
    <2>1. CASE \E kind, b : Finish(r, kind, b)
      BY <1>2, <2>1, FinishKeeps DEF CreatePasswordless
    <2>2. CASE Continue(r, "resolved") /\ UNCHANGED view
      <3>1. r \in ByStaff
        BY <1>2, OpenRequest DEF CreatePasswordless, RequestInOrder
      <3> QED BY <1>2, <2>2, <3>1, StaffReadKeeps DEF CreatePasswordless
    <2> QED BY <1>2, <2>1, <2>2 DEF CreatePasswordless
  <1>3. CASE ReserveBookingStay(r)
    BY <1>3, CommitKeeps, FinishKeeps DEF ReserveBookingStay
  <1> QED BY <1>1, <1>2, <1>3, LockCustomerKeeps, AssertAdmissionKeeps,
             InsertBookingKeeps, OtherStepsKeep DEF Handle

\* Nobody has booked or read anything at the start.
LEMMA InitInOrder == Init => CreationInvariant
  <1> SUFFICES ASSUME Init PROVE CreationInvariant
    OBVIOUS
  <1>1. \A r \in Requests : stage[r] = "idle" /\ booking[r] = "none" /\ ~view[r].taken
    BY DEF Init, NoView
  <1>2. \A r \in Requests : RequestInOrder(r)
    BY <1>1 DEF RequestInOrder, HoldsCustomer, Resolved
  <1>3. \A r \in Requests : \A q \in Requests \ {r} : Compatible(q, r)
    BY <1>1 DEF Compatible, HoldsCustomer, HoldsIntent, Resolved
  <1> QED BY <1>2, <1>3 DEF CreationInvariant

\* A booking that is paid or cancelled only makes room.
LEMMA LeaveUnpaidKeeps ==
  ASSUME TypeOK, CreationInvariant, NEW s \in Requests,
         NEW next \in {"paid", "cancelled"}, LeaveUnpaid(s, next)
  PROVE  CreationInvariant'
  <1>1. \A q \in Requests : booking'[q] # "none" <=> booking[q] # "none"
    BY DEF LeaveUnpaid, TypeOK
  <1>2. \A c : ActiveUnpaid(c, booking') \subseteq ActiveUnpaid(c, booking)
    BY DEF LeaveUnpaid, TypeOK, ActiveUnpaid
  <1>3. UNCHANGED <<account, stage, view>>
    BY DEF LeaveUnpaid
  <1>4. \A r \in Requests : HoldsCustomer(r)' <=> HoldsCustomer(r)
    BY <1>3 DEF HoldsCustomer
  <1>5. \A r \in Requests : RequestInOrder(r)'
    <2> TAKE r \in Requests
    <2>1. RequestInOrder(r)
      BY DEF CreationInvariant
    <2> QED BY <1>1, <1>2, <1>3, <1>4, <2>1 DEF RequestInOrder
  <1>6. \A r \in Requests : \A q \in Requests \ {r} : Compatible(q, r)'
    BY <1>1, <1>3 DEF CreationInvariant, Compatible, HoldsCustomer, SharesCustomer, HoldsIntent
  <1> QED BY <1>5, <1>6 DEF CreationInvariant

\* An administrator waits for whoever has locked the customer.
LEMMA SaveStatusKeeps ==
  ASSUME TypeOK, CreationInvariant, NEW c \in Customers,
         NEW status \in {"ACTIVE", "LOCKED"}, SaveStatus(c, status)
  PROVE  CreationInvariant'
  <1>1. UNCHANGED <<booking, stage, view>> /\ \A d \in Customers \ {c} : account'[d] = account[d]
    BY DEF SaveStatus, TypeOK
  <1>2. \A r \in Requests : RequestInOrder(r)'
    <2> TAKE r \in Requests
    <2>1. RequestInOrder(r) /\ Customer[r] \in Customers
      BY RequestAssumption DEF CreationInvariant
    <2>2. HoldsCustomer(r) => account'[Customer[r]] = account[Customer[r]]
      BY <1>1, <2>1 DEF SaveStatus
    <2> QED BY <1>1, <2>1, <2>2 DEF RequestInOrder, HoldsCustomer
  <1>3. \A r \in Requests : \A q \in Requests \ {r} : Compatible(q, r)'
    BY <1>1 DEF CreationInvariant, Compatible, HoldsCustomer, SharesCustomer, HoldsIntent
  <1> QED BY <1>2, <1>3 DEF CreationInvariant

\* Every step keeps the invariant.
LEMMA NextKeeps == TypeOK /\ CreationInvariant /\ [Next]_vars => CreationInvariant'
  <1> SUFFICES ASSUME TypeOK, CreationInvariant, [Next]_vars PROVE CreationInvariant'
    OBVIOUS
  <1>1. CASE UNCHANGED vars
    BY <1>1 DEF vars, CreationInvariant, RequestInOrder, Compatible, HoldsCustomer,
                SharesCustomer, HoldsIntent, Resolved
  <1> QED BY <1>1, HandleKeeps, LeaveUnpaidKeeps, SaveStatusKeeps DEF Next

\* Locks, read views and request intents are in order in every reachable state.
THEOREM CreationInOrder == Spec => []CreationInvariant
  BY InitType, NextType, InitInOrder, NextKeeps, PTL DEF Spec

-----------------------------------------------------------------------------
(* The promises *)

\* Only a request that has inserted its booking commits one.
LEMMA CommitStep ==
  ASSUME TypeOK, [Next]_vars, NEW r \in Requests, Commits(r)
  PROVE  stage[r] = "inserted" /\ booking' = [booking EXCEPT ![r] = "unpaid"]
  <1>1. CASE UNCHANGED vars
    BY <1>1 DEF vars, Commits
  <1>2. ASSUME NEW q \in Requests, Handle(q) \/ Fail(q)
        PROVE  stage[r] = "inserted" /\ booking' = [booking EXCEPT ![r] = "unpaid"]
    BY <1>2, WritesOfHandle DEF Commits, TypeOK
  <1>3. ASSUME NEW q \in Requests, NEW next \in {"paid", "cancelled"}, LeaveUnpaid(q, next)
        PROVE  FALSE
    BY <1>3 DEF LeaveUnpaid, Commits, TypeOK
  <1>4. ASSUME NEW c \in Customers, NEW status \in {"ACTIVE", "LOCKED"}, SaveStatus(c, status)
        PROVE  FALSE
    BY <1>4 DEF SaveStatus, Commits
  <1> QED BY <1>1, <1>2, <1>3, <1>4 DEF Next

\* One more booking holds at most its own nights more.
LEMMA HeldNightsOfOneMore ==
  ASSUME NEW r \in Requests, NEW V \in SUBSET Requests, NEW S \in SUBSET (V \union {r})
  PROVE  /\ Cardinality(S) \in Nat /\ Cardinality(V) \in Nat
         /\ Cardinality(S) <= Cardinality(V) + 1
         /\ Cardinality(HeldNights(S)) \in Nat /\ Cardinality(HeldNights(V)) \in Nat
         /\ Cardinality(Nights[r]) \in Nat
         /\ Cardinality(HeldNights(S)) <= Cardinality(HeldNights(V)) + Cardinality(Nights[r])
  <1> DEFINE own == {r} \X Nights[r]
  <1>1. IsFiniteSet(V) /\ IsFiniteSet(V \union {r})
    BY RequestAssumption, FS_Subset, FS_AddElement
  <1>2. IsFiniteSet(S) /\ Cardinality(S) <= Cardinality(V) + 1
    BY <1>1, FS_Subset, FS_AddElement, FS_CardinalityType
  <1>3. IsFiniteSet(Nights[r])
    BY RequestAssumption, FS_Subset
  <1>4. IsFiniteSet(own) /\ Cardinality(own) = Cardinality(Nights[r])
    <2>1. IsFiniteSet({r}) /\ Cardinality({r}) = 1
      BY FS_Singleton
    <2>2. IsFiniteSet(own) /\ Cardinality(own) = 1 * Cardinality(Nights[r])
      BY <1>3, <2>1, FS_Product
    <2> QED BY <1>3, <2>2, FS_CardinalityType
  <1>5. IsFiniteSet(HeldNights(V))
    <2>1. IsFiniteSet(Requests \X Dates)
      BY RequestAssumption, FS_Product
    <2>2. HeldNights(V) \in SUBSET (Requests \X Dates)
      BY DEF HeldNights
    <2> QED BY <2>1, <2>2, FS_Subset
  <1>6. HeldNights(S) \in SUBSET (HeldNights(V) \union own)
    BY DEF HeldNights
  <1>7. /\ IsFiniteSet(HeldNights(V) \union own)
        /\ Cardinality(HeldNights(V) \union own) =
             Cardinality(HeldNights(V)) + Cardinality(own) - Cardinality(HeldNights(V) \cap own)
    BY <1>4, <1>5, FS_Union
  <1>8. IsFiniteSet(HeldNights(V) \cap own)
    BY <1>5, FS_Intersection
  <1>9. /\ IsFiniteSet(HeldNights(S))
        /\ Cardinality(HeldNights(S)) <= Cardinality(HeldNights(V) \union own)
    BY <1>6, <1>7, FS_Subset
  <1>10. /\ Cardinality(HeldNights(S)) \in Nat /\ Cardinality(HeldNights(V)) \in Nat
         /\ Cardinality(HeldNights(V) \cap own) \in Nat /\ Cardinality(own) \in Nat
         /\ Cardinality(HeldNights(V) \union own) \in Nat
    BY <1>4, <1>5, <1>7, <1>8, <1>9, FS_CardinalityType
  <1>11. Cardinality(S) \in Nat /\ Cardinality(V) \in Nat
    BY <1>1, <1>2, FS_CardinalityType
  <1> QED BY <1>2, <1>4, <1>7, <1>9, <1>10, <1>11

\* The limits of unpaid bookings and held nights hold whenever a customer's
\* booking is committed: no interleaving books more.
THEOREM LimitsAlwaysHold == Spec => LimitsHoldAtCommit
  <1> DEFINE keeps == \A r \in Requests \ ByStaff : Commits(r) =>
                        LET S == ActiveUnpaid(Customer[r], booking') IN
                        Cardinality(S) <= MaxUnpaid /\ Cardinality(HeldNights(S)) <= MaxNights
  <1>1. TypeOK /\ CreationInvariant /\ [Next]_vars => keeps
    <2> SUFFICES ASSUME TypeOK, CreationInvariant, [Next]_vars,
                        NEW r \in Requests \ ByStaff, Commits(r)
                 PROVE  LET S == ActiveUnpaid(Customer[r], booking') IN
                        Cardinality(S) <= MaxUnpaid /\ Cardinality(HeldNights(S)) <= MaxNights
      OBVIOUS
    <2> DEFINE S == ActiveUnpaid(Customer[r], booking')
               V == ActiveUnpaid(Customer[r], view[r].rows)
    <2>1. stage[r] = "inserted" /\ booking' = [booking EXCEPT ![r] = "unpaid"]
      BY CommitStep
    <2>2. WithinLimits(r, view[r].rows) /\ ActiveUnpaid(Customer[r], booking) \subseteq V
      BY <2>1 DEF CreationInvariant, RequestInOrder
    <2>3. V \in SUBSET Requests /\ S \in SUBSET (V \union {r})
      BY <2>1, <2>2 DEF ActiveUnpaid, TypeOK
    <2>4. /\ Cardinality(S) \in Nat /\ Cardinality(V) \in Nat
          /\ Cardinality(S) <= Cardinality(V) + 1
          /\ Cardinality(HeldNights(S)) \in Nat /\ Cardinality(HeldNights(V)) \in Nat
          /\ Cardinality(Nights[r]) \in Nat
          /\ Cardinality(HeldNights(S)) <= Cardinality(HeldNights(V)) + Cardinality(Nights[r])
      <3> HIDE DEF S, V
      <3> QED BY <2>3, HeldNightsOfOneMore
    <2>5. /\ Cardinality(V) < MaxUnpaid
          /\ Cardinality(HeldNights(V)) + Cardinality(Nights[r]) <= MaxNights
      BY <2>2 DEF WithinLimits
    <2>6. Cardinality(S) <= MaxUnpaid /\ Cardinality(HeldNights(S)) <= MaxNights
      <3> HIDE DEF S, V
      <3> QED BY <2>4, <2>5, LimitAssumption
    <2> QED BY <2>6
  <1>2. Spec => [][keeps]_vars
    BY <1>1, CreationTypeCorrect, CreationInOrder, PTL DEF Spec
  <1> QED BY <1>2 DEF LimitsHoldAtCommit

\* A locked account books nothing: the customer row stays locked from the check
\* of the account to the commit.
THEOREM LockedAccountsBookNothing == Spec => LockedAccountBooksNothing
  <1> DEFINE active == \A r \in Requests \ ByStaff : Commits(r) => account[Customer[r]] = "ACTIVE"
  <1>1. TypeOK /\ CreationInvariant /\ [Next]_vars => active
    <2> SUFFICES ASSUME TypeOK, CreationInvariant, [Next]_vars,
                        NEW r \in Requests \ ByStaff, Commits(r)
                 PROVE  account[Customer[r]] = "ACTIVE"
      OBVIOUS
    <2>1. HoldsCustomer(r)
      BY CommitStep DEF HoldsCustomer, Resolved
    <2> QED BY <2>1 DEF CreationInvariant, RequestInOrder
  <1>2. Spec => [][active]_vars
    BY <1>1, CreationTypeCorrect, CreationInOrder, PTL DEF Spec
  <1> QED BY <1>2 DEF LockedAccountBooksNothing

\* A step of one request answers nobody else.
LEMMA AnswersOfOthers ==
  ASSUME TypeOK, [Next]_vars, NEW r \in Requests, answer'[r] # answer[r]
  PROVE  Handle(r) \/ Fail(r)
  <1>1. ASSUME NEW q \in Requests, q # r, Handle(q) \/ Fail(q)
        PROVE  FALSE
    BY <1>1, HandleCases DEF Finish, TypeOK
  <1> QED BY <1>1 DEF Next, vars, LeaveUnpaid, SaveStatus

\* What a customer, or staff, read before is no more than what is there now.
LEMMA ReadIsCommitted ==
  ASSUME CreationInvariant, NEW r \in Requests, NEW q \in Existing(r, Rows(r))
  PROVE  q \in Existing(r, booking)
  BY DEF CreationInvariant, RequestInOrder, Existing, Rows

\* A retry finds the booking its first attempt has committed: it is not refused
\* for a limit or for nights that are its own.
THEOREM RetriesFindTheirBooking == Spec => RetryFindsItsBooking
  <1> DEFINE found == \A r \in Requests :
                        /\ answer[r].kind = "none"
                        /\ answer'[r].kind \in {"limit", "roomTaken", "createConflict"}
                        => Existing(r, booking) = {}
  <1>1. TypeOK /\ CreationInvariant /\ [Next]_vars => found
    <2> SUFFICES ASSUME TypeOK, CreationInvariant, [Next]_vars, NEW r \in Requests,
                        answer[r].kind = "none",
                        answer'[r].kind \in {"limit", "roomTaken", "createConflict"}
                 PROVE  Existing(r, booking) = {}
      OBVIOUS
    <2>1. Handle(r) \/ Fail(r)
      BY AnswersOfOthers
    <2>2. \A kind, b : Finish(r, kind, b) => kind \in {"limit", "roomTaken", "createConflict"}
      BY DEF Finish, TypeOK
    <2>3. answer' # answer
      OBVIOUS
    <2>4. CASE AssertAdmission(r)
      <3>1. Existing(r, Rows(r)) = {} /\ stage[r] = "resolved" /\ r \notin ByStaff
        BY <2>2, <2>3, <2>4, AnswerExistingFinishes DEF AssertAdmission, Continue
      <3>2. Rows(r) = booking
        BY <3>1 DEF CreationInvariant, RequestInOrder, Rows
      <3> QED BY <3>1, <3>2
    <2>5. CASE ReserveBookingStay(r)
      <3>1. stage[r] = "inserted" /\ booking[r] = "none"
        BY <2>5, OpenRequest DEF ReserveBookingStay
      <3>2. \A q \in Requests \ {r} : SameIntent(q, r) => booking[q] = "none"
        BY <3>1 DEF CreationInvariant, Compatible, SameIntent, HoldsIntent
      <3> QED BY <3>1, <3>2 DEF Existing
    <2>6. CASE ReplayAfterConflict(r)
      BY <2>2, <2>6, AnswerExistingFinishes DEF ReplayAfterConflict
    <2>7. CASE \/ FindRequestIntentSnapshot(r) \/ LockCustomer(r) \/ FindCustomer(r)
               \/ CreatePasswordless(r) \/ LockBookableRoom(r) \/ InsertBooking(r) \/ Fail(r)
      BY <2>2, <2>3, <2>7, AnswerExistingFinishes
         DEF FindRequestIntentSnapshot, LockCustomer, FindCustomer, CreatePasswordless,
             LockBookableRoom, InsertBooking, Fail, Continue
    <2> QED BY <2>1, <2>4, <2>5, <2>6, <2>7 DEF Handle
  <1>2. Spec => [][found]_vars
    BY <1>1, CreationTypeCorrect, CreationInOrder, PTL DEF Spec
  <1> QED BY <1>2 DEF RetryFindsItsBooking

\* Whoever is answered with a booking.
AnswerNamesBooking(r) ==
  LET b == answer[r].booking IN b # NoBooking => booking[b] # "none" /\ Hash[b] = Hash[r]

\* A booking a request finds may be its answer.
LEMMA ExistingMayBeAnswered ==
  ASSUME TypeOK, NEW r \in Requests, NEW q \in Existing(r, booking),
         AnswerExisting(r, q), UNCHANGED booking
  PROVE  AnswerNamesBooking(r)'
  BY DEF AnswerExisting, Finish, TypeOK, AnswerNamesBooking, Existing

\* A request is answered with its own booking or with one it has found.
LEMMA AnswerStep ==
  ASSUME TypeOK, CreationInvariant, NEW r \in Requests, Handle(r) \/ Fail(r),
         AnswerNamesBooking(r)
  PROVE  AnswerNamesBooking(r)'
  <1>1. CASE \E kind : Finish(r, kind, NoBooking)
    BY <1>1 DEF Finish, TypeOK, AnswerNamesBooking
  <1>2. CASE UNCHANGED <<booking, answer>>
    BY <1>2 DEF AnswerNamesBooking
  <1>3. CASE FindRequestIntentSnapshot(r)
    BY <1>1, <1>2, <1>3, ExistingMayBeAnswered DEF FindRequestIntentSnapshot, Continue
  <1>4. CASE AssertAdmission(r)
    <2>1. CASE \E q \in Existing(r, Rows(r)) : AnswerExisting(r, q)
      BY <1>4, <2>1, ReadIsCommitted, ExistingMayBeAnswered DEF AssertAdmission
    <2> QED BY <1>1, <1>2, <1>4, <2>1 DEF AssertAdmission, Continue
  <1>5. CASE ReplayAfterConflict(r)
    BY <1>1, <1>5, ExistingMayBeAnswered DEF ReplayAfterConflict
  <1>6. CASE ReserveBookingStay(r)
    <2>1. CASE booking' = [booking EXCEPT ![r] = "unpaid"] /\ Finish(r, "created", r)
      BY <2>1 DEF Finish, TypeOK, AnswerNamesBooking
    <2> QED BY <1>1, <1>6, <2>1 DEF ReserveBookingStay
  <1> QED BY <1>1, <1>2, <1>3, <1>4, <1>5, <1>6
       DEF Handle, LockCustomer, FindCustomer, CreatePasswordless, LockBookableRoom,
           InsertBooking, Fail, Continue

\* An answer stays true: a booking is never deleted.
LEMMA NextKeepsAnswers ==
  TypeOK /\ CreationInvariant /\ (\A r \in Requests : AnswerNamesBooking(r)) /\ [Next]_vars
  => (\A r \in Requests : AnswerNamesBooking(r))'
  <1> SUFFICES ASSUME TypeOK, CreationInvariant, \A r \in Requests : AnswerNamesBooking(r),
                      [Next]_vars, NEW r \in Requests
               PROVE  AnswerNamesBooking(r)'
    OBVIOUS
  <1>1. CASE answer'[r] # answer[r]
    BY <1>1, AnswersOfOthers, AnswerStep
  <1>2. CASE answer'[r] = answer[r]
    <2>1. \A q \in Requests : booking[q] # "none" => booking'[q] # "none"
      <3>1. ASSUME NEW s \in Requests, Handle(s) \/ Fail(s)
            PROVE  \A q \in Requests : booking[q] # "none" => booking'[q] # "none"
        BY <3>1, WritesOfHandle DEF TypeOK
      <3> QED BY <3>1 DEF Next, vars, LeaveUnpaid, SaveStatus, TypeOK
    <2> QED BY <1>2, <2>1 DEF AnswerNamesBooking, TypeOK
  <1> QED BY <1>1, <1>2

\* One Idempotency-Key books once, and every answer names a booking that asked
\* for the same.
THEOREM AnswersAlwaysAgree == Spec => []AnswersAgree
  <1>1. Init => \A r \in Requests : AnswerNamesBooking(r)
    BY DEF Init, NoAnswer, AnswerNamesBooking
  <1>2. CreationInvariant /\ (\A r \in Requests : AnswerNamesBooking(r)) => AnswersAgree
    <2> SUFFICES ASSUME CreationInvariant, \A r \in Requests : AnswerNamesBooking(r)
                 PROVE  AnswersAgree
      OBVIOUS
    <2>1. ASSUME NEW q \in Requests, NEW r \in Requests, SameIntent(q, r),
                 booking[q] # "none", booking[r] # "none"
          PROVE  q = r
      BY <2>1 DEF CreationInvariant, Compatible
    <2> QED BY <2>1 DEF AnswersAgree, AnswerNamesBooking
  <1> QED BY <1>1, <1>2, NextKeepsAnswers, CreationTypeCorrect, CreationInOrder, PTL DEF Spec

=============================================================================
