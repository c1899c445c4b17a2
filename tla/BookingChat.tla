----------------------------- MODULE BookingChat -----------------------------
(***************************************************************************)
(* The conversation of one booking: messages sent by its customer and by   *)
(* the support users, read markers, and readers that fetch the messages    *)
(* page by page over REST.  Every write runs in a transaction that starts  *)
(* by locking the conversation row, which the first message creates.       *)
(*                                                                         *)
(* Consistent reads of a transaction come after its locking read, so they  *)
(* see what was committed before the lock was granted.  Neither unique key *)
(* of chat_messages is modelled: what they would reject never happens,     *)
(* which is what ConversationMatchesMessages and ResendsFindTheirMessage   *)
(* say.                                                                    *)
(***************************************************************************)
EXTENDS Integers, FiniteSets

CONSTANTS
  Sends,      \* requests that send a message
  Reads,      \* requests that move a read marker
  Readers,    \* clients that fetch the messages
  Actors,     \* the customer and the support users
  ClientIds,
  Contents,
  Sender,     \* who sends each message ...
  ClientId,   \* ... its clientMessageId ...
  Content,    \* ... and its text
  ReadBy,     \* whose marker each read request moves ...
  ReadUpTo,   \* ... and its lastReadSequence
  PageSize,   \* the limit of a page
  GapLocking, \* whether a locking read of a missing row locks the gap:
              \* TRUE at REPEATABLE READ, FALSE at READ COMMITTED
  Nobody,     \* no request
  Null        \* no value

Requests == Sends \cup Reads

ASSUME ChatAssumption ==
  /\ Sends \cap Reads = {} /\ Nobody \notin Requests
  /\ Null \notin Actors /\ Null \notin Contents
  /\ Sender \in [Sends -> Actors] /\ ClientId \in [Sends -> ClientIds]
  /\ Content \in [Sends -> Contents]
  /\ ReadBy \in [Reads -> Actors] /\ ReadUpTo \in [Reads -> Nat]
  /\ PageSize \in Nat \ {0} /\ GapLocking \subseteq BOOLEAN

VARIABLES
  conversation, \* the committed row of the conversation
  messages,     \* the committed messages
  marker,       \* the committed read marker of each actor, 0 without one
  gapLocks,     \* whether this database locks gaps
  rowHolder,    \* the request whose transaction holds the row locked
  stage,        \* how far the handling of each request has come
  attempt,      \* the attempts of each send that were rolled back for a retry
  seen,         \* the conversation each transaction works on
  outcome,      \* what each send came to
  fetch,        \* what each reader is fetching
  held,         \* the sequences of the messages each reader has
  atStart       \* readers told that nothing is older than what they have

rows == <<conversation, messages, marker>>
requestVars == <<rowHolder, stage, attempt, seen, outcome>>
readerVars == <<fetch, held, atStart>>
vars == <<rows, gapLocks, requestVars, readerVars>>

NoConversation ==
  [exists |-> FALSE, lastSequence |-> 0, lastActor |-> Null, lastContent |-> Null]
NewConversation == [NoConversation EXCEPT !.exists = TRUE]
NoOutcome == [kind |-> "none", sequence |-> 0]
NoFetch == [kind |-> "none", after |-> 0, lastSequence |-> 0]

\* The requests of R have yet to arrive; the others never do.
InitWith(R) ==
  /\ conversation = NoConversation
  /\ messages = {}
  /\ marker = [a \in Actors |-> 0]
  /\ gapLocks \in GapLocking
  /\ rowHolder = Nobody
  /\ stage = [r \in Requests |-> IF r \in R THEN "new" ELSE "done"]
  /\ attempt = [s \in Sends |-> 0]
  /\ seen = [r \in Requests |-> NoConversation]
  /\ outcome = [s \in Sends |-> NoOutcome]
  /\ fetch = [p \in Readers |-> NoFetch]
  /\ held = [p \in Readers |-> {}]
  /\ atStart = [p \in Readers |-> FALSE]

Init == InitWith(Requests)

-----------------------------------------------------------------------------
(* Locks *)

\* Mutant of RowIsFree: the conversation is read without a lock.
RowIsAlwaysFree == TRUE

\* A locking read waits for the transaction that locked the row or that
\* inserted it and has not committed.
RowIsFree == rowHolder = Nobody

\* Sends that found no row and have not inserted one.
Creating == {s \in Sends : stage[s] = "missing"}

\* The transaction of r commits or is rolled back.
Release(r) ==
  /\ rowHolder' = IF rowHolder = r THEN Nobody ELSE rowHolder
  /\ seen' = [seen EXCEPT ![r] = NoConversation]

\* Mutant of End: a transaction that throws keeps its lock.
EndLocked(r) == UNCHANGED <<rowHolder, seen>> /\ stage' = [stage EXCEPT ![r] = "done"]

\* The transaction of r ends, and with it the handling of r.
End(r) == Release(r) /\ stage' = [stage EXCEPT ![r] = "done"]

Outcome(s, k) == outcome' = [outcome EXCEPT ![s].kind = k]

-----------------------------------------------------------------------------
(* Sending a message *)

\* lockConversation() finds the row, or finds none.
LockConversation(r) ==
  /\ stage[r] = "new" /\ RowIsFree
  /\ IF conversation.exists
     THEN /\ stage' = [stage EXCEPT ![r] = "locked"]
          /\ seen' = [seen EXCEPT ![r] = conversation]
          /\ rowHolder' = r
     ELSE /\ stage' = [stage EXCEPT ![r] = "missing"]
          /\ UNCHANGED <<seen, rowHolder>>
  /\ UNCHANGED <<rows, gapLocks, attempt, outcome, readerVars>>

\* The insert of the row waits for the gap locks of all other transactions
\* that found no row, and for one that has inserted it.
InsertConversation(s) ==
  /\ stage[s] = "missing" /\ RowIsFree /\ ~conversation.exists
  /\ gapLocks => Creating = {s}
  /\ stage' = [stage EXCEPT ![s] = "locked"]
  /\ seen' = [seen EXCEPT ![s] = NewConversation]
  /\ rowHolder' = s
  /\ UNCHANGED <<rows, gapLocks, attempt, outcome, readerVars>>

\* Another transaction inserted and committed the row since: the insert is
\* rejected by uq_chat_conversations_booking, and the transaction runs again.
InsertIsDuplicate(s) ==
  /\ stage[s] = "missing" /\ RowIsFree /\ conversation.exists
  /\ IF attempt[s] = 0
     THEN /\ attempt' = [attempt EXCEPT ![s] = 1]
          /\ stage' = [stage EXCEPT ![s] = "new"]
          /\ UNCHANGED <<rowHolder, seen, outcome>>
     ELSE End(s) /\ Outcome(s, "failed") /\ UNCHANGED attempt
  /\ UNCHANGED <<rows, gapLocks, readerVars>>

\* Mutant of InsertDeadlocks: whoever waits for a gap lock gives up.
InsertGivesUp(s) ==
  /\ gapLocks /\ stage[s] = "missing"
  /\ End(s) /\ Outcome(s, "failed")
  /\ UNCHANGED <<rows, gapLocks, attempt, readerVars>>

\* Two inserts wait for each other's gap lock: InnoDB rolls one of them back
\* with an error that sendMessage() does not retry.
InsertDeadlocks(s) ==
  /\ gapLocks /\ stage[s] = "missing" /\ Creating # {s}
  /\ End(s) /\ Outcome(s, "failed")
  /\ UNCHANGED <<rows, gapLocks, attempt, readerVars>>

\* Mutant of Existing: the sender is left out of the search.
ExistingOfAnyone(s) == {m \in messages : m.clientId = ClientId[s]}

\* The message stored for this sender and clientMessageId.
Existing(s) == {m \in messages : m.sender = Sender[s] /\ m.clientId = ClientId[s]}

NewMessage(s) ==
  [sequence |-> seen[s].lastSequence + 1, sender |-> Sender[s],
   clientId |-> ClientId[s], content |-> Content[s]]

\* persistMessage() finds the message of an earlier send, or stores the
\* message and the summary of the conversation; the transaction commits.
StoreMessage(s) ==
  /\ stage[s] = "locked" /\ Existing(s) = {}
  /\ messages' = messages \cup {NewMessage(s)}
  /\ conversation' = [exists |-> TRUE, lastSequence |-> NewMessage(s).sequence,
                      lastActor |-> Sender[s], lastContent |-> Content[s]]
  /\ stage' = [stage EXCEPT ![s] = "stored"]
  /\ outcome' = [outcome EXCEPT ![s].sequence = NewMessage(s).sequence]
  /\ Release(s)
  /\ UNCHANGED <<marker, gapLocks, attempt, readerVars>>

FindMessage(s) ==
  /\ stage[s] = "locked"
  /\ \E m \in Existing(s) :
       /\ m.content = Content[s]
       /\ outcome' = [outcome EXCEPT ![s].sequence = m.sequence]
  /\ stage' = [stage EXCEPT ![s] = "stored"]
  /\ Release(s)
  /\ UNCHANGED <<rows, gapLocks, attempt, readerVars>>

RefuseMessage(s) ==
  /\ stage[s] = "locked"
  /\ \E m \in Existing(s) : m.content # Content[s]
  /\ End(s) /\ Outcome(s, "conflict")
  /\ UNCHANGED <<rows, gapLocks, attempt, readerVars>>

\* The message is read back with the name of its sender, and answered.
AnswerSend(s) ==
  /\ stage[s] = "stored"
  /\ End(s) /\ Outcome(s, "message")
  /\ UNCHANGED <<rows, gapLocks, attempt, readerVars>>

\* The process or its connection to the database is lost: an open transaction
\* is rolled back, and the client hears nothing of a committed one.
LoseSend(s) ==
  /\ stage[s] \in {"missing", "locked", "stored"}
  /\ End(s) /\ Outcome(s, "lost")
  /\ UNCHANGED <<rows, gapLocks, attempt, readerVars>>

-----------------------------------------------------------------------------
(* Moving a read marker *)

\* Mutant of MarkerMoves: a marker is stored whatever it was before.
MarkerAlwaysMoves(r) == TRUE

MarkerMoves(r) == ReadUpTo[r] > marker[ReadBy[r]]

\* persistReadState() without a conversation answers 0, or refuses.
ReadNothing(r) ==
  /\ stage[r] = "new" /\ RowIsFree /\ ~conversation.exists
  /\ End(r)
  /\ UNCHANGED <<rows, gapLocks, attempt, outcome, readerVars>>

LockForRead(r) == conversation.exists /\ LockConversation(r)

\* A marker past the last message is refused.
RefuseRead(r) ==
  /\ stage[r] = "locked" /\ ReadUpTo[r] > seen[r].lastSequence
  /\ End(r)
  /\ UNCHANGED <<rows, gapLocks, attempt, outcome, readerVars>>

StoreMarker(r) ==
  /\ stage[r] = "locked" /\ ReadUpTo[r] <= seen[r].lastSequence
  /\ marker' = IF MarkerMoves(r)
               THEN [marker EXCEPT ![ReadBy[r]] = ReadUpTo[r]] ELSE marker
  /\ End(r)
  /\ UNCHANGED <<conversation, messages, gapLocks, attempt, outcome, readerVars>>

LoseRead(r) ==
  /\ stage[r] = "locked"
  /\ End(r)
  /\ UNCHANGED <<rows, gapLocks, attempt, outcome, readerVars>>

-----------------------------------------------------------------------------
(* Reading the messages, outside any transaction *)

Sequences == {m.sequence : m \in messages}
Smallest(S, n) == {x \in S : Cardinality({y \in S : y < x}) < n}
Largest(S, n) == {x \in S : Cardinality({y \in S : y > x}) < n}

Below(S) == {x \in Sequences : \A y \in S : x < y}

\* Mutant of NewerPage: the newest messages are taken.
NewestPage(p) == Largest({x \in Sequences : x > fetch[p].after}, PageSize)

NewerPage(p) == Smallest({x \in Sequences : x > fetch[p].after}, PageSize)
\* beforeSequence is the oldest message the reader has, or not given.
OlderPage(p) == Largest(Below(held[p]), PageSize)

\* listMessages() reads the conversation; the reader gives the newest message
\* it has as afterSequence, or 0 ...
FindConversation(p, kind) ==
  /\ fetch[p].kind = "none" /\ conversation.exists
  /\ \E after \in held[p] \cup {0} :
       /\ \A x \in held[p] : x <= after
       /\ fetch' = [fetch EXCEPT ![p] = [kind |-> kind, after |-> after,
                                        lastSequence |-> conversation.lastSequence]]
  /\ UNCHANGED <<rows, gapLocks, requestVars, held, atStart>>

\* ... and then its messages: the next ones after those the reader has ...
ListNewer(p) ==
  /\ fetch[p].kind = "newer"
  /\ held' = [held EXCEPT ![p] = @ \cup NewerPage(p)]
  /\ fetch' = [fetch EXCEPT ![p].kind = "listed"]
  /\ UNCHANGED <<rows, gapLocks, requestVars, atStart>>

\* ... or the last ones before them, or of all; hasMoreBefore tells whether
\* there are others before the page.
ListOlder(p) ==
  /\ fetch[p].kind = "older"
  /\ held' = [held EXCEPT ![p] = @ \cup OlderPage(p)]
  /\ atStart' = [atStart EXCEPT ![p] = Below(held[p]) \subseteq OlderPage(p)]
  /\ fetch' = [fetch EXCEPT ![p] = NoFetch]
  /\ UNCHANGED <<rows, gapLocks, requestVars>>

\* The client takes the answer to a fetch of newer messages.
TakeAnswer(p) ==
  /\ fetch[p].kind = "listed"
  /\ fetch' = [fetch EXCEPT ![p] = NoFetch]
  /\ UNCHANGED <<rows, gapLocks, requestVars, held, atStart>>

-----------------------------------------------------------------------------
HandleSend(s) ==
  \/ LockConversation(s) \/ InsertConversation(s)
  \/ InsertIsDuplicate(s) \/ InsertDeadlocks(s)
  \/ StoreMessage(s) \/ FindMessage(s) \/ RefuseMessage(s) \/ AnswerSend(s)

HandleRead(r) == ReadNothing(r) \/ LockForRead(r) \/ RefuseRead(r) \/ StoreMarker(r)

Fetch(p) ==
  \/ \E kind \in {"newer", "older"} : FindConversation(p, kind)
  \/ ListNewer(p) \/ ListOlder(p) \/ TakeAnswer(p)

Handle ==
  \/ \E s \in Sends : HandleSend(s)
  \/ \E r \in Reads : HandleRead(r)

Next ==
  \/ Handle
  \/ \E s \in Sends : LoseSend(s)
  \/ \E r \in Reads : LoseRead(r)
  \/ \E p \in Readers : Fetch(p)

Spec == Init /\ [][Next]_vars

\* As long as the statement of any request can run, one does.
FairSpec == Spec /\ WF_vars(Handle)
=============================================================================
