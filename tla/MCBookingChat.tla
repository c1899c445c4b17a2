---------------------------- MODULE MCBookingChat ----------------------------
(***************************************************************************)
(* Small instances of BookingChat for TLC, of two scenarios.  "sending":   *)
(* the customer sends a message twice, staff send one that happens to      *)
(* carry the same clientMessageId, and the customer's two clients move the *)
(* read marker of the customer.  "paging": a reader pages while three      *)
(* messages are stored.                                                    *)
(***************************************************************************)
EXTENDS BookingChatProperties

CONSTANTS
  hello,   \* the customer's message ...
  again,   \* ... sent again ...
  changed, \* ... and sent again with another text
  more,    \* another message of the customer
  reply,   \* a message of a support user
  early,   \* the customer has read the first message
  late     \* the customer has read the second

MCActors == {"customer", "staff"}
MCSender == [s \in Sends |-> IF s = reply THEN "staff" ELSE "customer"]
MCClientId == [s \in Sends |-> IF s = more THEN "c2" ELSE "c1"]
MCContent == [s \in Sends |->
  IF s \in {hello, again} THEN "hello"
  ELSE IF s = reply THEN "reply" ELSE "changed"]
MCReadBy == [r \in Reads |-> "customer"]
MCReadUpTo == [r \in Reads |-> IF r = early THEN 1 ELSE 2]

VARIABLE scenario

MCInit ==
  \/ scenario = "sending" /\ InitWith({hello, again, changed, reply, early, late})
  \/ scenario = "paging" /\ InitWith({hello, more, reply}) /\ ~gapLocks
MCNext ==
  /\ UNCHANGED scenario
  /\ Next
  /\ scenario = "sending" => UNCHANGED readerVars
MCSpec == MCInit /\ [][MCNext]_<<vars, scenario>> /\ WF_vars(Handle)
=============================================================================
