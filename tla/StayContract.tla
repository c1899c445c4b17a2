---------------------------- MODULE StayContract ----------------------------
(***************************************************************************)
(* What a booking promises to its guest and to the owner, without          *)
(* payments, gateways, refunds in progress, timeouts or room statuses: the *)
(* nights it holds, how far the stay has come and where its money is.      *)
(* BookingPayment implements this specification.                           *)
(***************************************************************************)
CONSTANTS Stays,     \* the stays that may be agreed on
          Slots,     \* room nights
          NightsOf,  \* the room nights of each stay
          Nobody, Owner

VARIABLES stage,   \* how far each stay has come
          money,   \* where the money of each stay is
          holder   \* who holds each room night: a stay, the owner or nobody

vars == <<stage, money, holder>>

Stages == {"ABSENT", "PENDING_PAYMENT", "CONFIRMED", "CHECKED_IN",
           "CHECKED_OUT", "CANCELLED"}

Init == /\ stage = [s \in Stays |-> "ABSENT"]
        /\ money = [s \in Stays |-> "UNPAID"]
        /\ holder = [n \in Slots |-> Nobody]

GivenBack(S) == [n \in Slots |-> IF holder[n] \in S THEN Nobody ELSE holder[n]]

\* A stay starts by holding all its nights, or not at all.
Hold(s) ==
  /\ stage[s] = "ABSENT"
  /\ \A n \in NightsOf[s] : holder[n] = Nobody
  /\ stage' = [stage EXCEPT ![s] = "PENDING_PAYMENT"]
  /\ holder' = [n \in Slots |-> IF n \in NightsOf[s] THEN s ELSE holder[n]]
  /\ UNCHANGED money

\* The house accepts the stay before it is paid.
Confirm(s) ==
  /\ stage[s] = "PENDING_PAYMENT"
  /\ stage' = [stage EXCEPT ![s] = "CONFIRMED"]
  /\ UNCHANGED <<money, holder>>

\* Paying also confirms.
Pay(s) ==
  /\ stage[s] \in {"PENDING_PAYMENT", "CONFIRMED"}
  /\ money[s] = "UNPAID"
  /\ money' = [money EXCEPT ![s] = "PAID"]
  /\ stage' = [stage EXCEPT ![s] = IF @ = "PENDING_PAYMENT" THEN "CONFIRMED" ELSE @]
  /\ UNCHANGED holder

CheckIn(s) ==
  /\ stage[s] = "CONFIRMED" /\ money[s] = "PAID"
  /\ stage' = [stage EXCEPT ![s] = "CHECKED_IN"]
  /\ UNCHANGED <<money, holder>>

CheckOut(s) ==
  /\ stage[s] = "CHECKED_IN"
  /\ stage' = [stage EXCEPT ![s] = "CHECKED_OUT"]
  /\ UNCHANGED <<money, holder>>

\* Unpaid stays end, several at once when they time out, and give their nights
\* back at the same moment.
Cancel(S) ==
  /\ \A s \in S : /\ stage[s] \in {"PENDING_PAYMENT", "CONFIRMED"}
                  /\ money[s] = "UNPAID"
  /\ stage' = [s \in Stays |-> IF s \in S THEN "CANCELLED" ELSE stage[s]]
  /\ holder' = GivenBack(S)
  /\ UNCHANGED money

\* Money goes back for a paid stay that has not begun, which ends it, or for a
\* stay that had ended unpaid when the money came in.
Refund(s) ==
  /\ \/ stage[s] = "CONFIRMED" /\ money[s] = "PAID"
     \/ stage[s] = "CANCELLED"
  /\ stage' = [stage EXCEPT ![s] = "CANCELLED"]
  /\ money' = [money EXCEPT ![s] = "REFUNDED"]
  /\ holder' = GivenBack({s})

\* The owner takes free nights and returns them; a guest's nights are not his.
OwnerChanges ==
  /\ holder' \in [Slots -> Stays \union {Nobody, Owner}]
  /\ \A n \in Slots : holder'[n] # holder[n] =>
       {holder[n], holder'[n]} = {Nobody, Owner}
  /\ UNCHANGED <<stage, money>>

Next ==
  \/ \E s \in Stays : Hold(s) \/ Confirm(s) \/ Pay(s) \/ CheckIn(s) \/ CheckOut(s)
                      \/ Refund(s)
  \/ \E S \in SUBSET Stays : S # {} /\ Cancel(S)
  \/ OwnerChanges

Spec == Init /\ [][Next]_vars

=============================================================================
