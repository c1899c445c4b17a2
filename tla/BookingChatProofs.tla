-------------------------- MODULE BookingChatProofs --------------------------
(***************************************************************************)
(* The conversation of a booking, for any number of requests, readers and  *)
(* actors and at either isolation level: its messages are numbered without *)
(* gaps, a resent message is stored once, read markers never go back, and  *)
(* of first messages that deadlock one goes on.                            *)
(*                                                                         *)
(* The argument is mutual exclusion on the conversation row: at most one   *)
(* transaction is past its locking read, and it works on the row as it is. *)
(***************************************************************************)
EXTENDS BookingChatProperties, FiniteSetTheorems, TLAPS

\* A transaction past its locking read holds the row, and what it has seen of
\* the conversation is what is committed, or the row that it has inserted.
RowIsHeld ==
  /\ \A r \in Requests : stage[r] = "locked" =>
       /\ rowHolder = r
       /\ conversation.exists => seen[r] = conversation
       /\ ~conversation.exists => seen[r] = NewConversation
  /\ rowHolder # Nobody => stage[rowHolder] = "locked"
  /\ \A r \in Reads : stage[r] # "missing"
  /\ \A r \in Reads : stage[r] = "locked" => conversation.exists

MarkersBounded == \A a \in Actors : marker[a] <= conversation.lastSequence

\* The message that the send s was, or is about to be, answered with.
HasMessage(s) ==
  \E m \in messages :
    /\ m.sequence = outcome[s].sequence /\ m.sender = Sender[s]
    /\ m.clientId = ClientId[s] /\ m.content = Content[s]

OutcomesInOrder ==
  \A s \in Sends :
    /\ stage[s] # "done" => outcome[s].kind = "none"
    /\ stage[s] = "stored" => HasMessage(s)

Numbered ==
  /\ Sequences = 1 .. conversation.lastSequence
  /\ \A m, n \in messages : m.sequence = n.sequence => m = n

ChatInv ==
  /\ Shape /\ RowIsHeld /\ ConversationMatchesMessages /\ MarkersBounded
  /\ OutcomesInOrder /\ ResendsFindTheirMessage

\* What a reader has is one run of the messages, wherever it is with a fetch.
Contiguous(p) ==
  /\ held[p] \subseteq Sequences
  /\ \A x \in Sequences \ held[p] :
       (\A y \in held[p] : x < y) \/ (\A y \in held[p] : y < x)

\* The newest message that a reader had when it asked for newer ones is still
\* its newest when they are listed.
FetchGoesOn(p) ==
  /\ fetch[p].kind # "none" =>
       conversation.exists /\ fetch[p].lastSequence <= conversation.lastSequence
  /\ fetch[p].kind = "newer" =>
       /\ fetch[p].after \in held[p] \cup {0}
       /\ \A x \in held[p] : x <= fetch[p].after

ListedReaches(p) ==
  fetch[p].kind = "listed" =>
    \A x \in 1 .. fetch[p].lastSequence :
      fetch[p].after < x /\ x <= fetch[p].after + PageSize => x \in held[p]

StartIsHeld(p) == atStart[p] => 1 \in held[p]

ReaderInv(p) == Contiguous(p) /\ FetchGoesOn(p) /\ ListedReaches(p) /\ StartIsHeld(p)
PagesInv == \A p \in Readers : ReaderInv(p)

-----------------------------------------------------------------------------
LEMMA InitChat == Init => ChatInv
  <1> SUFFICES ASSUME Init PROVE ChatInv
    OBVIOUS
  <1> USE ChatAssumption DEF Init, InitWith, NoConversation, NoOutcome, NoFetch
  <1>1. Shape
    BY DEF Shape, Conversation, Message, Stage, OutcomeKind, FetchKind
  <1>2. RowIsHeld /\ MarkersBounded /\ OutcomesInOrder
    BY DEF RowIsHeld, MarkersBounded, OutcomesInOrder, Requests
  <1>3. ConversationMatchesMessages
    BY DEF ConversationMatchesMessages, Sequences
  <1>4. ResendsFindTheirMessage
    BY DEF ResendsFindTheirMessage
  <1> QED BY <1>1, <1>2, <1>3, <1>4 DEF ChatInv

-----------------------------------------------------------------------------
(* Type correctness *)

LEMMA EndTypes ==
  ASSUME Shape, NEW r \in Requests, End(r)
  PROVE  /\ rowHolder' \in Requests \cup {Nobody} /\ stage' \in [Requests -> Stage]
         /\ seen' \in [Requests -> Conversation]
  BY ChatAssumption DEF Shape, End, Release, Stage, Conversation, NoConversation

LEMMA OutcomeTypes ==
  ASSUME Shape, NEW s \in Sends, NEW k \in OutcomeKind, Outcome(s, k)
  PROVE  outcome' \in [Sends -> [kind : OutcomeKind, sequence : Nat]]
  BY DEF Shape, Outcome

LEMMA LockTypes ==
  ASSUME Shape, NEW r \in Requests, LockConversation(r)
  PROVE  Shape'
  <1>1. /\ rowHolder' \in Requests \cup {Nobody} /\ stage' \in [Requests -> Stage]
        /\ seen' \in [Requests -> Conversation]
    <2>1. CASE conversation.exists
      BY <2>1 DEF Shape, LockConversation, Stage
    <2>2. CASE ~conversation.exists
      BY <2>2 DEF Shape, LockConversation, Stage
    <2> QED BY <2>1, <2>2
  <1> QED BY <1>1 DEF Shape, LockConversation, rows, readerVars

LEMMA SendTypes ==
  ASSUME Shape, NEW s \in Sends, HandleSend(s) \/ LoseSend(s)
  PROVE  Shape'
  <1> s \in Requests
    BY DEF Requests
  <1> USE ChatAssumption DEF rows, readerVars
  <1>1. CASE LockConversation(s)
    BY <1>1, LockTypes
  <1>2. CASE InsertConversation(s)
    BY <1>2 DEF Shape, InsertConversation, Stage, NewConversation, NoConversation, Conversation
  <1>3. CASE InsertIsDuplicate(s)
    <2>1. CASE attempt[s] = 0
      BY ZenonT(40), <1>3, <2>1 DEF Shape, InsertIsDuplicate, Stage
    <2>2. CASE attempt[s] # 0
      BY <1>3, <2>2, EndTypes, OutcomeTypes DEF Shape, InsertIsDuplicate, OutcomeKind
    <2> QED BY <2>1, <2>2
  <1>4. CASE InsertDeadlocks(s)
    BY <1>4, EndTypes, OutcomeTypes DEF Shape, InsertDeadlocks, OutcomeKind
  <1>5. CASE StoreMessage(s)
    <2>1. NewMessage(s) \in Message
      BY DEF Shape, NewMessage, Message, Conversation
    <2>2. conversation' \in Conversation
      BY <1>5, <2>1 DEF StoreMessage, Conversation, Message
    <2>3. outcome' \in [Sends -> [kind : OutcomeKind, sequence : Nat]]
      BY SMTT(30), <1>5, <2>1 DEF StoreMessage, Message, Shape
    <2> QED BY <1>5, <2>1, <2>2, <2>3
          DEF Shape, StoreMessage, Stage, Release, Conversation, NoConversation
  <1>6. CASE FindMessage(s)
    <2>1. outcome' \in [Sends -> [kind : OutcomeKind, sequence : Nat]]
      <3>1. PICK m \in Existing(s) :
              outcome' = [outcome EXCEPT ![s].sequence = m.sequence]
        BY <1>6 DEF FindMessage
      <3>2. m.sequence \in Nat
        BY DEF Existing, Message, Shape
      <3> QED BY <3>1, <3>2 DEF Shape
    <2> QED BY <1>6, <2>1
          DEF Shape, FindMessage, Stage, Release, Conversation, NoConversation
  <1>7. CASE RefuseMessage(s)
    BY <1>7, EndTypes, OutcomeTypes DEF Shape, RefuseMessage, OutcomeKind
  <1>8. CASE AnswerSend(s)
    BY <1>8, EndTypes, OutcomeTypes DEF Shape, AnswerSend, OutcomeKind
  <1>9. CASE LoseSend(s)
    BY <1>9, EndTypes, OutcomeTypes DEF Shape, LoseSend, OutcomeKind
  <1> QED BY <1>1, <1>2, <1>3, <1>4, <1>5, <1>6, <1>7, <1>8, <1>9 DEF HandleSend

LEMMA ReadTypes ==
  ASSUME Shape, NEW r \in Reads, HandleRead(r) \/ LoseRead(r)
  PROVE  Shape'
  <1> r \in Requests
    BY DEF Requests
  <1> USE ChatAssumption DEF rows, readerVars
  <1>1. CASE ReadNothing(r)
    BY <1>1, EndTypes DEF Shape, ReadNothing
  <1>2. CASE LockForRead(r)
    BY <1>2, LockTypes DEF LockForRead
  <1>3. CASE RefuseRead(r)
    BY <1>3, EndTypes DEF Shape, RefuseRead
  <1>4. CASE StoreMarker(r)
    <2>1. marker' \in [Actors -> Nat]
      BY <1>4 DEF StoreMarker, Shape
    <2> QED BY <1>4, <2>1, EndTypes DEF Shape, StoreMarker
  <1>5. CASE LoseRead(r)
    BY <1>5, EndTypes DEF Shape, LoseRead
  <1> QED BY <1>1, <1>2, <1>3, <1>4, <1>5 DEF HandleRead

LEMMA FetchTypes ==
  ASSUME Shape, NEW p \in Readers, Fetch(p)
  PROVE  Shape'
  <1> USE ChatAssumption DEF rows, requestVars
  <1>1. Sequences \subseteq Nat \ {0}
    BY DEF Shape, Sequences, Message
  <1>2. ASSUME NEW kind \in {"newer", "older"}, FindConversation(p, kind) PROVE Shape'
    <2>1. PICK after \in held[p] \cup {0} :
            fetch' = [fetch EXCEPT ![p] = [kind |-> kind, after |-> after,
                                           lastSequence |-> conversation.lastSequence]]
      BY <1>2 DEF FindConversation
    <2>2. after \in Nat /\ conversation.lastSequence \in Nat
      BY DEF Shape, Conversation
    <2>3. fetch' \in [Readers -> [kind : FetchKind, after : Nat, lastSequence : Nat]]
      BY <2>1, <2>2 DEF Shape, FetchKind
    <2> QED BY <1>2, <2>3 DEF Shape, FindConversation
  <1>3. CASE ListNewer(p)
    BY <1>1, <1>3 DEF Shape, ListNewer, NewerPage, Smallest, FetchKind
  <1>4. CASE ListOlder(p)
    <2>1. held' \in [Readers -> SUBSET (Nat \ {0})]
      BY <1>1, <1>4 DEF Shape, ListOlder, OlderPage, Largest, Below
    <2>2. atStart' \in [Readers -> BOOLEAN]
      <3>1. (Below(held[p]) \subseteq OlderPage(p)) \in BOOLEAN
        BY Zenon
      <3> QED BY <1>4, <3>1, Zenon DEF Shape, ListOlder
    <2>3. fetch' \in [Readers -> [kind : FetchKind, after : Nat, lastSequence : Nat]]
      BY <1>4 DEF Shape, ListOlder, NoFetch, FetchKind
    <2> QED BY <1>4, <2>1, <2>2, <2>3 DEF Shape, ListOlder
  <1>5. CASE TakeAnswer(p)
    BY <1>5 DEF Shape, TakeAnswer, NoFetch, FetchKind
  <1> QED BY <1>2, <1>3, <1>4, <1>5 DEF Fetch

-----------------------------------------------------------------------------
(* Mutual exclusion on the row *)

\* A transaction that ends leaves the row to the one that holds it.
LEMMA EndKeepsRow ==
  ASSUME Shape, RowIsHeld, NEW r \in Requests, Release(r), UNCHANGED conversation,
         NEW v \in {"new", "stored", "done"}, stage' = [stage EXCEPT ![r] = v]
  PROVE  RowIsHeld'
  BY ChatAssumption DEF Shape, RowIsHeld, Release

\* A transaction that is granted the row finds it as it is.
LEMMA GrantKeepsRow ==
  ASSUME Shape, RowIsHeld, RowIsFree, NEW r \in Requests, UNCHANGED conversation,
         rowHolder' = r, stage' = [stage EXCEPT ![r] = "locked"],
         r \in Reads => conversation.exists,
         NEW row \in Conversation, seen' = [seen EXCEPT ![r] = row],
         IF conversation.exists THEN row = conversation ELSE row = NewConversation
  PROVE  RowIsHeld'
  BY ChatAssumption DEF Shape, RowIsHeld, RowIsFree

LEMMA HolderIsAlone ==
  ASSUME Shape, RowIsHeld, NEW r \in Requests, stage[r] = "locked"
  PROVE  \A q \in Requests : q # r => stage[q] # "locked"
  BY DEF RowIsHeld

LEMMA LockKeepsRow ==
  ASSUME Shape, RowIsHeld, NEW r \in Requests, LockConversation(r),
         r \in Reads => conversation.exists
  PROVE  RowIsHeld'
  <1>1. CASE conversation.exists
    <2>1. conversation \in Conversation
      BY DEF Shape
    <2> QED BY <1>1, <2>1, GrantKeepsRow DEF LockConversation, rows
  <1>2. CASE ~conversation.exists
    <2>1. /\ stage' = [stage EXCEPT ![r] = "missing"] /\ UNCHANGED <<rowHolder, seen, conversation>>
          /\ rowHolder = Nobody
      BY <1>2 DEF LockConversation, RowIsFree, rows
    <2>2. r \notin Reads
      BY <1>2
    <2> QED BY <2>1, <2>2 DEF Shape, RowIsHeld, Requests
  <1> QED BY <1>1, <1>2

LEMMA SendKeepsRow ==
  ASSUME Shape, RowIsHeld, NEW s \in Sends, HandleSend(s) \/ LoseSend(s)
  PROVE  RowIsHeld'
  <1>0. s \in Requests /\ s \notin Reads
    BY ChatAssumption DEF Requests
  <1> USE <1>0 DEF rows
  <1>1. CASE LockConversation(s)
    BY <1>1, LockKeepsRow
  <1>2. CASE InsertConversation(s)
    <2>1. NewConversation \in Conversation
      BY ChatAssumption DEF NewConversation, NoConversation, Conversation
    <2> QED BY <1>2, <2>1, GrantKeepsRow DEF InsertConversation
  <1>3. CASE InsertIsDuplicate(s)
    <2>1. CASE attempt[s] = 0
      <3>1. /\ stage' = [stage EXCEPT ![s] = "new"] /\ UNCHANGED <<rowHolder, seen, conversation>>
            /\ rowHolder = Nobody
        BY <1>3, <2>1 DEF InsertIsDuplicate, RowIsFree
      <3> QED BY <3>1 DEF Shape, RowIsHeld, Requests
    <2>2. CASE attempt[s] # 0
      BY <1>3, <2>2, EndKeepsRow DEF InsertIsDuplicate, End
    <2> QED BY <2>1, <2>2
  <1>4. CASE InsertDeadlocks(s) \/ RefuseMessage(s) \/ AnswerSend(s) \/ LoseSend(s)
    BY <1>4, EndKeepsRow DEF InsertDeadlocks, RefuseMessage, AnswerSend, LoseSend, End
  <1>5. CASE StoreMessage(s)
    <2>1. \A q \in Requests : stage'[q] # "locked"
      BY <1>5, HolderIsAlone DEF StoreMessage, Shape
    <2>2. \A r \in Reads : stage'[r] # "missing"
      BY <1>5 DEF StoreMessage, Shape, RowIsHeld
    <2>3. rowHolder' = Nobody
      BY <1>5 DEF StoreMessage, RowIsHeld, Release
    <2> QED BY <2>1, <2>2, <2>3 DEF RowIsHeld, Requests
  <1>6. CASE FindMessage(s)
    BY <1>6, EndKeepsRow DEF FindMessage
  <1> QED BY <1>1, <1>2, <1>3, <1>4, <1>5, <1>6 DEF HandleSend

LEMMA ReadKeepsRow ==
  ASSUME Shape, RowIsHeld, NEW r \in Reads, HandleRead(r) \/ LoseRead(r)
  PROVE  RowIsHeld'
  <1>0. r \in Requests
    BY DEF Requests
  <1>1. CASE LockForRead(r)
    BY <1>0, <1>1, LockKeepsRow DEF LockForRead
  <1>2. CASE ReadNothing(r) \/ RefuseRead(r) \/ StoreMarker(r) \/ LoseRead(r)
    BY <1>0, <1>2, EndKeepsRow DEF ReadNothing, RefuseRead, StoreMarker, LoseRead, End, rows
  <1> QED BY <1>1, <1>2 DEF HandleRead

-----------------------------------------------------------------------------
(* What a message that is stored does to the others *)

LEMMA NextSequence ==
  ASSUME ChatInv, NEW s \in Sends, stage[s] = "locked"
  PROVE  NewMessage(s).sequence = conversation.lastSequence + 1
  <1>1. s \in Requests
    BY DEF Requests
  <1>2. CASE conversation.exists
    BY <1>1, <1>2 DEF ChatInv, RowIsHeld, NewMessage
  <1>3. CASE ~conversation.exists
    <2>1. Sequences = {} /\ conversation.lastSequence \in Nat
      BY <1>3 DEF ChatInv, ConversationMatchesMessages, Sequences, Shape, Conversation
    <2>2. conversation.lastSequence = 0
      BY <2>1 DEF ChatInv, ConversationMatchesMessages
    <2>3. seen[s].lastSequence = 0
      BY <1>1, <1>3 DEF ChatInv, RowIsHeld, NewConversation, NoConversation
    <2> QED BY <2>2, <2>3 DEF NewMessage
  <1> QED BY <1>2, <1>3

LEMMA StoreMessageNumbers ==
  ASSUME ChatInv, NEW s \in Sends, StoreMessage(s)
  PROVE  ConversationMatchesMessages' /\ MarkersBounded'
  <1> DEFINE last == conversation.lastSequence
             new == NewMessage(s)
  <1>1. last \in Nat /\ new.sequence = last + 1
    BY NextSequence DEF ChatInv, Shape, Conversation, StoreMessage
  <1>2. /\ messages' = messages \cup {new} /\ conversation'.lastSequence = last + 1
        /\ conversation'.exists
        /\ conversation'.lastActor = new.sender /\ conversation'.lastContent = new.content
    BY <1>1 DEF StoreMessage, NewMessage
  <1>3. \A m \in messages : m.sequence \in 1 .. last
    BY DEF ChatInv, ConversationMatchesMessages, Sequences
  <1>4. Sequences' = 1 .. (last + 1)
    <2>1. Sequences' = Sequences \cup {last + 1}
      BY <1>1, <1>2 DEF Sequences
    <2>2. Sequences = 1 .. last
      BY DEF ChatInv, ConversationMatchesMessages
    <2> QED BY <1>1, <2>1, <2>2
  <1>5. \A m, n \in messages' : m.sequence = n.sequence => m = n
    <2> SUFFICES ASSUME NEW m \in messages', NEW n \in messages', m.sequence = n.sequence
                 PROVE  m = n
      OBVIOUS
    <2>1. CASE m \in messages /\ n \in messages
      BY <2>1 DEF ChatInv, ConversationMatchesMessages
    <2>2. CASE m = new \/ n = new
      BY <1>1, <1>2, <1>3, <2>2
    <2> QED BY <1>2, <2>1, <2>2
  <1>6. \A m \in messages' : m.sequence = conversation'.lastSequence => m = new
    BY <1>1, <1>2, <1>3
  <1>7. ConversationMatchesMessages'
    BY <1>2, <1>4, <1>5, <1>6 DEF ConversationMatchesMessages
  <1>8. MarkersBounded'
    BY <1>1, <1>2 DEF ChatInv, Shape, MarkersBounded, StoreMessage
  <1> QED BY <1>7, <1>8

-----------------------------------------------------------------------------
(* What sends are answered *)

LEMMA StoreMessageAnswers ==
  ASSUME ChatInv, NEW s \in Sends, StoreMessage(s)
  PROVE  OutcomesInOrder' /\ ResendsFindTheirMessage'
  <1> DEFINE new == NewMessage(s)
  <1>1. /\ messages' = messages \cup {new} /\ outcome'[s] = [outcome[s] EXCEPT !.sequence = new.sequence]
        /\ stage' = [stage EXCEPT ![s] = "stored"]
        /\ \A q \in Sends \ {s} : outcome'[q] = outcome[q]
    BY DEF StoreMessage, ChatInv, Shape
  <1>2. /\ new.sender = Sender[s] /\ new.clientId = ClientId[s] /\ new.content = Content[s]
        /\ outcome'[s].sequence = new.sequence /\ outcome'[s].kind = "none"
    BY <1>1 DEF NewMessage, StoreMessage, ChatInv, OutcomesInOrder, Shape
  <1>3. \A m \in messages : ~(m.sender = new.sender /\ m.clientId = new.clientId)
    BY <1>2 DEF StoreMessage, Existing
  <1>4. OutcomesInOrder'
    <2> SUFFICES ASSUME NEW q \in Sends
                 PROVE  /\ stage'[q] # "done" => outcome'[q].kind = "none"
                        /\ stage'[q] = "stored" => HasMessage(q)'
      BY DEF OutcomesInOrder
    <2>1. CASE q = s
      BY <1>1, <1>2, <2>1 DEF HasMessage
    <2>2. CASE q # s
      BY <1>1, <2>2 DEF HasMessage, ChatInv, OutcomesInOrder, Shape, Requests
    <2> QED BY <2>1, <2>2
  <1>5. ResendsFindTheirMessage'
    <2>1. \A m, n \in messages' : m.sender = n.sender /\ m.clientId = n.clientId => m = n
      <3> SUFFICES ASSUME NEW m \in messages', NEW n \in messages',
                          m.sender = n.sender, m.clientId = n.clientId
                   PROVE  m = n
        OBVIOUS
      <3>1. CASE m \in messages /\ n \in messages
        BY <3>1 DEF ChatInv, ResendsFindTheirMessage
      <3> QED BY <1>1, <1>3, <3>1
    <2>2. ASSUME NEW q \in Sends, outcome'[q].kind \in {"message", "conflict"}
          PROVE  /\ q # s /\ outcome'[q] = outcome[q]
      BY <1>1, <1>2, <2>2
    <2> QED BY <1>1, <2>1, <2>2 DEF ChatInv, ResendsFindTheirMessage
  <1> QED BY <1>4, <1>5

\* A step that ends the handling of a send answers it with the message that it
\* has, or refuses it where its sender used the clientMessageId otherwise.
LEMMA EndAnswers ==
  ASSUME ChatInv, UNCHANGED messages, NEW s \in Sends,
         stage' = [stage EXCEPT ![s] = "done"],
         NEW k \in OutcomeKind, Outcome(s, k),
         k = "message" => HasMessage(s),
         k = "conflict" => \E m \in Existing(s) : m.content # Content[s]
  PROVE  OutcomesInOrder' /\ ResendsFindTheirMessage'
  <1>1. /\ outcome'[s].kind = k /\ outcome'[s].sequence = outcome[s].sequence
        /\ \A q \in Sends \ {s} : outcome'[q] = outcome[q] /\ stage'[q] = stage[q]
        /\ stage'[s] = "done"
    BY DEF Outcome, ChatInv, Shape, Requests
  <1>2. OutcomesInOrder'
    BY <1>1 DEF ChatInv, OutcomesInOrder, HasMessage
  <1>3. ResendsFindTheirMessage'
    <2>1. ASSUME NEW q \in Sends, outcome'[q].kind \in {"message", "conflict"}
          PROVE  \E m \in messages :
                   /\ m.sender = Sender[q] /\ m.clientId = ClientId[q]
                   /\ IF outcome'[q].kind = "message"
                      THEN m.sequence = outcome'[q].sequence /\ m.content = Content[q]
                      ELSE m.content # Content[q]
      <3>1. CASE q = s
        BY <1>1, <2>1, <3>1 DEF HasMessage, Existing
      <3>2. CASE q # s
        BY <1>1, <2>1, <3>2 DEF ChatInv, ResendsFindTheirMessage
      <3> QED BY <3>1, <3>2
    <2> QED BY <2>1 DEF ChatInv, ResendsFindTheirMessage
  <1> QED BY <1>2, <1>3

\* Any other step leaves sends that are at work without an answer.
LEMMA WorkAnswersNothing ==
  ASSUME ChatInv, UNCHANGED <<messages, outcome>>, NEW r \in Requests,
         NEW v \in Stage, r \in Sends => v \notin {"stored", "done"} /\ stage[r] # "done",
         stage' = [stage EXCEPT ![r] = v]
  PROVE  OutcomesInOrder' /\ ResendsFindTheirMessage'
  <1>1. OutcomesInOrder'
    BY DEF ChatInv, Shape, OutcomesInOrder, HasMessage, Requests
  <1>2. ResendsFindTheirMessage'
    BY DEF ChatInv, ResendsFindTheirMessage
  <1> QED BY <1>1, <1>2

LEMMA FindMessageAnswers ==
  ASSUME ChatInv, NEW s \in Sends, FindMessage(s)
  PROVE  OutcomesInOrder' /\ ResendsFindTheirMessage'
  <1>1. PICK m \in Existing(s) :
          m.content = Content[s] /\ outcome' = [outcome EXCEPT ![s].sequence = m.sequence]
    BY DEF FindMessage
  <1>2. /\ outcome'[s].sequence = m.sequence /\ outcome'[s].kind = "none"
        /\ \A q \in Sends \ {s} : outcome'[q] = outcome[q] /\ stage'[q] = stage[q]
        /\ stage'[s] = "stored" /\ UNCHANGED messages
    BY <1>1 DEF FindMessage, ChatInv, Shape, OutcomesInOrder, Requests, rows
  <1>3. OutcomesInOrder'
    <2> SUFFICES ASSUME NEW q \in Sends
                 PROVE  /\ stage'[q] # "done" => outcome'[q].kind = "none"
                        /\ stage'[q] = "stored" => HasMessage(q)'
      BY DEF OutcomesInOrder
    <2>1. CASE q = s
      BY <1>1, <1>2, <2>1 DEF HasMessage, Existing
    <2>2. CASE q # s
      BY <1>2, <2>2 DEF HasMessage, ChatInv, OutcomesInOrder
    <2> QED BY <2>1, <2>2
  <1>4. ResendsFindTheirMessage'
    <2>1. ASSUME NEW q \in Sends, outcome'[q].kind \in {"message", "conflict"}
          PROVE  outcome'[q] = outcome[q]
      BY <1>2, <2>1
    <2> QED BY <1>2, <2>1 DEF ChatInv, ResendsFindTheirMessage
  <1> QED BY <1>3, <1>4

-----------------------------------------------------------------------------
(* The invariant is inductive *)

Rows == ConversationMatchesMessages /\ MarkersBounded
Answers == OutcomesInOrder /\ ResendsFindTheirMessage

LEMMA RowsUnchanged ==
  ASSUME Rows, UNCHANGED rows
  PROVE  Rows'
  BY DEF rows, Rows, ConversationMatchesMessages, Sequences, MarkersBounded

LEMMA SendKeepsInv ==
  ASSUME ChatInv, NEW s \in Sends, HandleSend(s) \/ LoseSend(s)
  PROVE  ChatInv'
  <1>0. s \in Requests
    BY DEF Requests
  <1>1. Shape' /\ RowIsHeld'
    BY SendTypes, SendKeepsRow DEF ChatInv
  <1>2. Rows
    BY DEF ChatInv, Rows
  <1>3. CASE StoreMessage(s)
    BY <1>1, <1>3, StoreMessageNumbers, StoreMessageAnswers DEF ChatInv
  <1>4. CASE FindMessage(s)
    <2>1. UNCHANGED rows
      BY <1>4 DEF FindMessage
    <2> QED BY <1>1, <1>2, <1>4, <2>1, RowsUnchanged, FindMessageAnswers DEF ChatInv, Rows
  <1>5. CASE LockConversation(s) \/ InsertConversation(s) \/ (InsertIsDuplicate(s) /\ attempt[s] = 0)
    <2>1. /\ UNCHANGED rows /\ UNCHANGED <<messages, outcome>> /\ stage[s] # "done"
          /\ \E v \in {"new", "locked", "missing"} : stage' = [stage EXCEPT ![s] = v]
      BY <1>5 DEF LockConversation, InsertConversation, InsertIsDuplicate, rows
    <2>2. Answers'
      BY <1>0, <2>1, WorkAnswersNothing DEF Answers, Stage
    <2> QED BY <1>1, <1>2, <2>1, <2>2, RowsUnchanged DEF ChatInv, Rows, Answers
  <1>6. CASE \/ InsertIsDuplicate(s) /\ attempt[s] # 0
             \/ InsertDeadlocks(s) \/ RefuseMessage(s) \/ AnswerSend(s) \/ LoseSend(s)
    <2>1. UNCHANGED rows /\ UNCHANGED messages /\ stage' = [stage EXCEPT ![s] = "done"]
      BY <1>6 DEF InsertIsDuplicate, InsertDeadlocks, RefuseMessage, AnswerSend, LoseSend, End, rows
    <2>2. PICK k \in OutcomeKind :
            /\ Outcome(s, k)
            /\ k = "message" => AnswerSend(s)
            /\ k = "conflict" => RefuseMessage(s)
      BY <1>6 DEF InsertIsDuplicate, InsertDeadlocks, RefuseMessage, AnswerSend, LoseSend, OutcomeKind
    <2>3. k = "message" => HasMessage(s)
      BY <2>2 DEF AnswerSend, ChatInv, OutcomesInOrder
    <2>4. k = "conflict" => \E m \in Existing(s) : m.content # Content[s]
      BY <2>2 DEF RefuseMessage
    <2>5. Answers'
      BY <2>1, <2>2, <2>3, <2>4, EndAnswers DEF Answers
    <2> QED BY <1>1, <1>2, <2>1, <2>5, RowsUnchanged DEF ChatInv, Rows, Answers
  <1> QED BY <1>3, <1>4, <1>5, <1>6 DEF HandleSend

LEMMA ReadKeepsInv ==
  ASSUME ChatInv, NEW r \in Reads, HandleRead(r) \/ LoseRead(r)
  PROVE  ChatInv'
  <1>0. r \in Requests /\ r \notin Sends
    BY ChatAssumption DEF Requests
  <1>1. Shape' /\ RowIsHeld'
    BY ReadTypes, ReadKeepsRow DEF ChatInv
  <1>2. /\ UNCHANGED <<messages, outcome>>
        /\ \E v \in {"locked", "missing", "done"} : stage' = [stage EXCEPT ![r] = v]
    BY DEF HandleRead, ReadNothing, LockForRead, LockConversation, RefuseRead, StoreMarker,
           LoseRead, End, rows
  <1>3. Answers'
    BY <1>0, <1>2, WorkAnswersNothing DEF Answers, Stage
  <1>4. Rows'
    <2>0. Rows
      BY DEF ChatInv, Rows
    <2>1. CASE StoreMarker(r)
      <3>1. ConversationMatchesMessages'
        BY <2>0, <2>1 DEF StoreMarker, Rows, ConversationMatchesMessages, Sequences
      <3>2. conversation.exists /\ seen[r] = conversation
        BY <1>0, <2>1 DEF StoreMarker, ChatInv, RowIsHeld
      <3>3. MarkersBounded'
        BY <2>0, <2>1, <3>2, ChatAssumption
           DEF StoreMarker, Rows, MarkersBounded, ChatInv, Shape
      <3> QED BY <3>1, <3>3 DEF Rows
    <2>2. CASE ~StoreMarker(r)
      <3>1. UNCHANGED rows
        BY <2>2 DEF HandleRead, ReadNothing, LockForRead, LockConversation, RefuseRead, LoseRead
      <3> QED BY <2>0, <3>1, RowsUnchanged
    <2> QED BY <2>1, <2>2
  <1> QED BY <1>1, <1>3, <1>4 DEF ChatInv, Rows, Answers

LEMMA FetchKeepsInv ==
  ASSUME ChatInv, NEW p \in Readers, Fetch(p)
  PROVE  ChatInv'
  <1>1. Shape'
    BY FetchTypes DEF ChatInv
  <1>2. UNCHANGED rows /\ UNCHANGED requestVars
    BY DEF Fetch, FindConversation, ListNewer, ListOlder, TakeAnswer
  <1>3. Rows'
    BY <1>2, RowsUnchanged DEF ChatInv, Rows
  <1>4. RowIsHeld' /\ Answers'
    BY <1>2 DEF ChatInv, rows, requestVars, RowIsHeld, Answers, OutcomesInOrder, HasMessage,
                ResendsFindTheirMessage
  <1> QED BY <1>1, <1>3, <1>4 DEF ChatInv, Rows, Answers

LEMMA NextKeepsInv == ChatInv /\ [Next]_vars => ChatInv'
  <1> SUFFICES ASSUME ChatInv, [Next]_vars PROVE ChatInv'
    OBVIOUS
  <1>1. CASE Next
    BY <1>1, SendKeepsInv, ReadKeepsInv, FetchKeepsInv DEF Next, Handle
  <1>2. CASE UNCHANGED vars
    BY <1>2 DEF vars, rows, requestVars, readerVars, ChatInv, Shape, RowIsHeld,
                ConversationMatchesMessages, Sequences, MarkersBounded, OutcomesInOrder,
                HasMessage, ResendsFindTheirMessage
  <1> QED BY <1>1, <1>2

\* No step takes a read marker back: only StoreMarker changes one.
LEMMA MarkersNeverGoBack ==
  ASSUME ChatInv, Next, NEW a \in Actors
  PROVE  marker'[a] >= marker[a]
  <1>1. marker[a] \in Nat
    BY DEF ChatInv, Shape
  <1>2. CASE \E r \in Reads : StoreMarker(r)
    BY <1>1, <1>2, ChatAssumption DEF StoreMarker, MarkerMoves, ChatInv, Shape
  <1>3. CASE ~\E r \in Reads : StoreMarker(r)
    <2>1. UNCHANGED marker
      <3>1. ASSUME NEW s \in Sends, HandleSend(s) \/ LoseSend(s) PROVE UNCHANGED marker
        BY <3>1 DEF HandleSend, LoseSend, LockConversation, InsertConversation,
                    InsertIsDuplicate, InsertDeadlocks, StoreMessage, FindMessage,
                    RefuseMessage, AnswerSend, rows
      <3>2. ASSUME NEW r \in Reads, HandleRead(r) \/ LoseRead(r) PROVE UNCHANGED marker
        BY <1>3, <3>2 DEF HandleRead, LoseRead, ReadNothing, LockForRead, LockConversation,
                          RefuseRead, rows
      <3>3. ASSUME NEW p \in Readers, Fetch(p) PROVE UNCHANGED marker
        BY <3>3 DEF Fetch, FindConversation, ListNewer, ListOlder, TakeAnswer, rows
      <3> QED BY <3>1, <3>2, <3>3 DEF Next, Handle
    <2> QED BY <1>1, <2>1
  <1> QED BY <1>2, <1>3

-----------------------------------------------------------------------------
LEMMA ChatInvariant == Spec => []ChatInv
  BY InitChat, NextKeepsInv, PTL DEF Spec

-----------------------------------------------------------------------------
(* The race to create the conversation *)

\* Whoever leaves these stages leaves a conversation, or another one in them.
LEMMA SendSparesOne ==
  ASSUME ChatInv, CreationRaceSparesOne, NEW s \in Sends, HandleSend(s) \/ LoseSend(s)
  PROVE  CreationRaceSparesOne'
  <1>0. s \in Requests /\ Sends \subseteq Requests
    BY DEF Requests
  <1>1. conversation.exists => conversation'.exists
    BY DEF HandleSend, LoseSend, LockConversation, InsertConversation,
           InsertIsDuplicate, InsertDeadlocks, StoreMessage, FindMessage,
           RefuseMessage, AnswerSend, rows
  <1>2. \A q \in Sends \ {s} : outcome'[q] = outcome[q] /\ stage'[q] = stage[q]
    BY DEF HandleSend, LoseSend, LockConversation, InsertConversation, Outcome, End,
           InsertIsDuplicate, InsertDeadlocks, StoreMessage, FindMessage,
           RefuseMessage, AnswerSend, ChatInv, Shape, Requests
  <1>3. CASE conversation'.exists
    BY <1>3 DEF CreationRaceSparesOne
  <1>4. CASE InsertDeadlocks(s)
    <2>1. PICK t \in Sends : t # s /\ stage[t] = "missing"
      BY <1>4 DEF InsertDeadlocks, Creating
    <2>2. stage'[t] = "missing"
      BY <1>2, <2>1
    <2> QED BY <2>2 DEF CreationRaceSparesOne
  <1>5. CASE LoseSend(s)
    <2>1. outcome'[s].kind = "lost"
      BY <1>5 DEF LoseSend, Outcome, ChatInv, Shape
    <2> QED BY <2>1 DEF CreationRaceSparesOne
  <1>6. CASE ~conversation'.exists /\ ~InsertDeadlocks(s) /\ ~LoseSend(s)
    <2>1. ~conversation.exists /\ messages = {}
      BY <1>1, <1>6 DEF ChatInv, ConversationMatchesMessages
    <2>2. LockConversation(s) \/ InsertConversation(s) \/ AnswerSend(s)
      BY <1>6, <2>1 DEF HandleSend, InsertIsDuplicate, StoreMessage, FindMessage, RefuseMessage,
                        Existing
    <2>3. ~AnswerSend(s)
      BY <2>1 DEF AnswerSend, ChatInv, OutcomesInOrder, HasMessage
    <2>4. stage'[s] \in {"missing", "locked"}
      BY <1>0, <2>2, <2>3 DEF LockConversation, InsertConversation, ChatInv, Shape
    <2> QED BY <2>4 DEF CreationRaceSparesOne
  <1> QED BY <1>3, <1>4, <1>5, <1>6

LEMMA SparesOneAlways == Spec => []CreationRaceSparesOne
  <1>1. Init => CreationRaceSparesOne
    BY DEF Init, InitWith, CreationRaceSparesOne, NoOutcome
  <1>2. ASSUME ChatInv, CreationRaceSparesOne, [Next]_vars PROVE CreationRaceSparesOne'
    <2> USE <1>2
    <2>1. ASSUME NEW s \in Sends, HandleSend(s) \/ LoseSend(s) PROVE CreationRaceSparesOne'
      BY <2>1, SendSparesOne
    <2>2. ASSUME NEW r \in Reads, HandleRead(r) \/ LoseRead(r) PROVE CreationRaceSparesOne'
      <3>1. /\ UNCHANGED <<conversation, outcome>>
            /\ \A q \in Sends : stage'[q] = stage[q]
        BY <2>2, ChatAssumption
           DEF HandleRead, LoseRead, ReadNothing, LockForRead, LockConversation, RefuseRead,
               StoreMarker, End, rows, ChatInv, Shape, Requests
      <3> QED BY <3>1 DEF CreationRaceSparesOne
    <2>3. ASSUME NEW p \in Readers, Fetch(p) PROVE CreationRaceSparesOne'
      BY <2>3 DEF Fetch, FindConversation, ListNewer, ListOlder, TakeAnswer, rows,
                  requestVars, CreationRaceSparesOne
    <2>4. CASE UNCHANGED vars
      BY <2>4 DEF vars, rows, requestVars, CreationRaceSparesOne
    <2> QED BY <2>1, <2>2, <2>3, <2>4 DEF Next, Handle
  <1> QED BY <1>1, <1>2, ChatInvariant, PTL DEF Spec

-----------------------------------------------------------------------------
(* Pages *)

\* The n smallest members of an interval.
LEMMA SmallestOfInterval ==
  ASSUME NEW a \in Nat, NEW b \in Nat, NEW n \in Nat
  PROVE  Smallest((a + 1) .. b, n) = {x \in (a + 1) .. b : x <= a + n}
  <1> SUFFICES ASSUME NEW x \in (a + 1) .. b
               PROVE  Cardinality({y \in (a + 1) .. b : y < x}) = x - (a + 1)
    BY DEF Smallest
  <1>1. {y \in (a + 1) .. b : y < x} = (a + 1) .. (x - 1)
    OBVIOUS
  <1>2. Cardinality((a + 1) .. (x - 1)) = IF a + 1 > x - 1 THEN 0 ELSE (x - 1) - (a + 1) + 1
    BY FS_Interval
  <1>3. (x - 1) - (a + 1) + 1 = x - (a + 1) /\ (a + 1 > x - 1 => x - (a + 1) = 0)
    OBVIOUS
  <1> QED BY <1>1, <1>2, <1>3

\* What is above a member of the n largest members is one of them.
LEMMA LargestIsUpwardClosed ==
  ASSUME NEW S \in SUBSET Nat, IsFiniteSet(S), NEW n \in Nat,
         NEW x \in Largest(S, n), NEW z \in S, x < z
  PROVE  z \in Largest(S, n)
  <1> DEFINE above(u) == {y \in S : y > u}
  <1>1. above(z) \subseteq above(x)
    <2>1. x \in Nat /\ z \in Nat
      BY DEF Largest
    <2>2. ASSUME NEW y \in S, y > z PROVE y > x
      <3>1. y \in Nat
        OBVIOUS
      <3> QED BY <2>1, <2>2, <3>1
    <2> QED BY <2>2
  <1>2. IsFiniteSet(above(x))
    BY FS_Subset
  <1>3. /\ Cardinality(above(z)) <= Cardinality(above(x))
        /\ Cardinality(above(z)) \in Nat /\ Cardinality(above(x)) \in Nat
    BY <1>1, <1>2, FS_Subset, FS_CardinalityType
  <1> QED BY <1>3 DEF Largest

LEMMA SequencesAreAnInterval ==
  ASSUME ChatInv
  PROVE  /\ conversation.lastSequence \in Nat
         /\ Sequences = 1 .. conversation.lastSequence /\ IsFiniteSet(Sequences)
         /\ conversation.exists => 1 \in Sequences
  <1>1. conversation.lastSequence \in Nat /\ Sequences = 1 .. conversation.lastSequence
    BY DEF ChatInv, Shape, Conversation, ConversationMatchesMessages
  <1>2. IsFiniteSet(Sequences)
    BY <1>1, FS_Interval
  <1>3. conversation.exists => Sequences # {}
    BY DEF ChatInv, ConversationMatchesMessages, Sequences
  <1> QED BY <1>1, <1>2, <1>3

\* A page of newer messages is the run that follows what the reader gave as its
\* newest message.
LEMMA NewerPageIsNext ==
  ASSUME ChatInv, NEW p \in Readers
  PROVE  NewerPage(p) = {x \in Sequences :
                          fetch[p].after < x /\ x <= fetch[p].after + PageSize}
  <1> DEFINE a == fetch[p].after
             b == conversation.lastSequence
  <1>1. a \in Nat /\ b \in Nat /\ PageSize \in Nat
    BY SequencesAreAnInterval, ChatAssumption DEF ChatInv, Shape
  <1>2. {x \in Sequences : x > a} = (a + 1) .. b
    BY <1>1, SequencesAreAnInterval
  <1>3. Smallest((a + 1) .. b, PageSize) = {x \in (a + 1) .. b : x <= a + PageSize}
    BY <1>1, SmallestOfInterval
  <1>4. {x \in (a + 1) .. b : x <= a + PageSize} = {x \in Sequences : a < x /\ x <= a + PageSize}
    BY <1>1, SequencesAreAnInterval
  <1> QED BY <1>2, <1>3, <1>4 DEF NewerPage

LEMMA ListNewerKeepsPages ==
  ASSUME ChatInv, NEW p \in Readers, ReaderInv(p), ListNewer(p)
  PROVE  ReaderInv(p)'
  <1> DEFINE a == fetch[p].after
             page == {x \in Sequences : a < x /\ x <= a + PageSize}
  <1>1. /\ fetch[p].kind = "newer" /\ held'[p] = held[p] \cup page
        /\ fetch'[p].kind = "listed" /\ fetch'[p].after = a
        /\ fetch'[p].lastSequence = fetch[p].lastSequence
        /\ atStart'[p] = atStart[p] /\ UNCHANGED conversation /\ Sequences' = Sequences
    BY NewerPageIsNext DEF ListNewer, ChatInv, Shape, rows, Sequences
  <1>2. /\ a \in Nat /\ PageSize \in Nat /\ Sequences \subseteq Nat \ {0}
        /\ fetch[p].lastSequence \in Nat
        /\ conversation.lastSequence \in Nat /\ Sequences = 1 .. conversation.lastSequence
    BY SequencesAreAnInterval, ChatAssumption DEF ChatInv, Shape
  <1>3. /\ held[p] \subseteq Sequences /\ a \in held[p] \cup {0} /\ \A x \in held[p] : x <= a
        /\ conversation.exists /\ fetch[p].lastSequence <= conversation.lastSequence
    BY <1>1 DEF ReaderInv, Contiguous, FetchGoesOn
  <1>4. Contiguous(p)'
    <2> SUFFICES ASSUME NEW x \in Sequences, x \notin held[p], x \notin page
                 PROVE  (\A y \in held[p] \cup page : x < y) \/ (\A y \in held[p] \cup page : y < x)
      BY <1>1, <1>3 DEF Contiguous
    <2>1. CASE x > a
      BY <1>2, <1>3, <2>1
    <2>2. CASE x <= a
      <3>1. a \in held[p] /\ x < a
        BY <1>2, <1>3, <2>2
      <3>2. \A y \in held[p] : x < y
        BY <1>2, <3>1 DEF ReaderInv, Contiguous
      <3> QED BY <1>2, <3>1, <3>2
    <2> QED BY <1>2, <2>1, <2>2
  <1>5. FetchGoesOn(p)'
    BY <1>1, <1>3 DEF FetchGoesOn
  <1>6. ListedReaches(p)'
    BY <1>1, <1>2, <1>3 DEF ListedReaches
  <1>7. StartIsHeld(p)'
    BY <1>1 DEF ReaderInv, StartIsHeld
  <1> QED BY <1>4, <1>5, <1>6, <1>7 DEF ReaderInv

LEMMA ListOlderKeepsPages ==
  ASSUME ChatInv, NEW p \in Readers, ReaderInv(p), ListOlder(p)
  PROVE  ReaderInv(p)'
  <1> DEFINE before == Below(held[p])
             page == OlderPage(p)
  <1>1. /\ fetch[p].kind = "older" /\ held'[p] = held[p] \cup page
        /\ fetch'[p] = NoFetch /\ (atStart'[p] <=> before \subseteq page)
        /\ UNCHANGED conversation /\ Sequences' = Sequences
    BY DEF ListOlder, ChatInv, Shape, rows, Sequences
  <1>2. /\ Sequences \subseteq Nat \ {0} /\ before \subseteq Sequences /\ page \subseteq before
        /\ IsFiniteSet(before) /\ PageSize \in Nat
    <2>1. before \subseteq Sequences /\ page \subseteq before
      BY DEF Below, OlderPage, Largest
    <2>2. IsFiniteSet(before)
      BY <2>1, SequencesAreAnInterval, FS_Subset
    <2> QED BY <2>1, <2>2, SequencesAreAnInterval, ChatAssumption
  <1>3. held[p] \subseteq Sequences /\ 1 \in Sequences
    BY <1>1, SequencesAreAnInterval DEF ReaderInv, Contiguous, FetchGoesOn
  <1>4. Contiguous(p)'
    <2> SUFFICES ASSUME NEW x \in Sequences, x \notin held[p], x \notin page
                 PROVE  (\A y \in held[p] \cup page : x < y) \/ (\A y \in held[p] \cup page : y < x)
      BY <1>1, <1>2, <1>3 DEF Contiguous
    <2>1. CASE x \in before
      <3>1. \A y \in held[p] : x < y
        BY <2>1 DEF Below
      <3>2. ASSUME NEW y \in page, y < x PROVE FALSE
        BY <1>2, <2>1, <3>2, LargestIsUpwardClosed DEF OlderPage
      <3>3. \A y \in page : x < y
        <4> SUFFICES ASSUME NEW y \in page PROVE x < y
          OBVIOUS
        <4>1. y \in Nat /\ x \in Nat /\ x # y /\ ~(y < x)
          BY <1>2, <3>2
        <4> QED BY <4>1
      <3> QED BY <3>1, <3>3
    <2>2. CASE x \notin before
      <3>1. held[p] # {} /\ \A y \in held[p] : y < x
        BY <2>2 DEF ReaderInv, Contiguous, Below
      <3>2. ASSUME NEW y \in page PROVE y < x
        <4>1. PICK h \in held[p] : y < h /\ h < x
          BY <1>2, <3>1 DEF Below
        <4>2. y \in Nat /\ h \in Nat /\ x \in Nat
          BY <1>2, <1>3
        <4> QED BY <4>1, <4>2
      <3> QED BY <3>1, <3>2
    <2> QED BY <2>1, <2>2
  <1>5. FetchGoesOn(p)' /\ ListedReaches(p)'
    BY <1>1 DEF FetchGoesOn, ListedReaches, NoFetch
  <1>6. StartIsHeld(p)'
    <2>1. ASSUME before \subseteq page, 1 \notin held[p] PROVE 1 \in page
      <3>1. \A y \in held[p] : 1 < y
        <4> SUFFICES ASSUME NEW y \in held[p] PROVE 1 < y
          OBVIOUS
        <4>1. y \in Nat /\ y # 0 /\ y # 1
          BY <1>2, <1>3, <2>1
        <4> QED BY <4>1
      <3> QED BY <1>3, <2>1, <3>1 DEF Below
    <2> QED BY <1>1, <2>1 DEF StartIsHeld
  <1> QED BY <1>4, <1>5, <1>6 DEF ReaderInv

\* Storing a message puts it above all that any reader has.
LEMMA StoreKeepsPages ==
  ASSUME ChatInv, NEW s \in Sends, StoreMessage(s), NEW p \in Readers, ReaderInv(p)
  PROVE  ReaderInv(p)'
  <1> DEFINE last == conversation.lastSequence
  <1>1. /\ Sequences' = Sequences \cup {last + 1} /\ conversation'.exists
        /\ conversation'.lastSequence = last + 1 /\ UNCHANGED readerVars
    BY NextSequence DEF StoreMessage, NewMessage, Sequences
  <1>2. last \in Nat /\ Sequences = 1 .. last /\ fetch[p].lastSequence \in Nat
    BY SequencesAreAnInterval DEF ChatInv, Shape
  <1>3. Contiguous(p)'
    <2> SUFFICES ASSUME NEW x \in Sequences \cup {last + 1}, x \notin held[p]
                 PROVE  (\A y \in held[p] : x < y) \/ (\A y \in held[p] : y < x)
      BY <1>1 DEF Contiguous, readerVars, ReaderInv
    <2>1. CASE x = last + 1
      BY <1>2, <2>1 DEF ReaderInv, Contiguous
    <2> QED BY <2>1 DEF ReaderInv, Contiguous
  <1>4. FetchGoesOn(p)'
    BY <1>1, <1>2 DEF ReaderInv, FetchGoesOn, readerVars
  <1>5. ListedReaches(p)' /\ StartIsHeld(p)'
    BY <1>1 DEF ReaderInv, ListedReaches, StartIsHeld, readerVars
  <1> QED BY <1>3, <1>4, <1>5 DEF ReaderInv

LEMMA FetchKeepsPages ==
  ASSUME ChatInv, NEW p \in Readers, Fetch(p), NEW q \in Readers, ReaderInv(q)
  PROVE  ReaderInv(q)'
  <1>1. UNCHANGED conversation /\ Sequences' = Sequences
    BY DEF Fetch, FindConversation, ListNewer, ListOlder, TakeAnswer, rows, Sequences
  <1>2. CASE q # p
    <2>1. fetch'[q] = fetch[q] /\ held'[q] = held[q] /\ atStart'[q] = atStart[q]
      BY <1>2 DEF Fetch, FindConversation, ListNewer, ListOlder, TakeAnswer, ChatInv, Shape
    <2> QED BY <1>1, <2>1 DEF ReaderInv, Contiguous, FetchGoesOn, ListedReaches, StartIsHeld
  <1>3. ASSUME q = p, NEW kind \in {"newer", "older"}, FindConversation(p, kind)
        PROVE  ReaderInv(q)'
    <2>1. PICK after \in held[p] \cup {0} :
            /\ \A x \in held[p] : x <= after
            /\ fetch' = [fetch EXCEPT ![p] = [kind |-> kind, after |-> after,
                                             lastSequence |-> conversation.lastSequence]]
      BY <1>3 DEF FindConversation
    <2>2. /\ fetch'[p].kind = kind /\ fetch'[p].after = after
          /\ fetch'[p].lastSequence = conversation.lastSequence
          /\ conversation.exists /\ UNCHANGED <<held, atStart>>
          /\ conversation.lastSequence \in Nat
      BY <1>3, <2>1 DEF FindConversation, ChatInv, Shape, Conversation
    <2>3. FetchGoesOn(p)'
      BY <1>1, <2>1, <2>2 DEF FetchGoesOn
    <2>4. Contiguous(p)' /\ ListedReaches(p)' /\ StartIsHeld(p)'
      BY <1>1, <1>3, <2>2 DEF ReaderInv, Contiguous, ListedReaches, StartIsHeld
    <2> QED BY <1>3, <2>3, <2>4 DEF ReaderInv
  <1>4. CASE q = p /\ ListNewer(p)
    BY <1>4, ListNewerKeepsPages
  <1>5. CASE q = p /\ ListOlder(p)
    BY <1>5, ListOlderKeepsPages
  <1>6. CASE q = p /\ TakeAnswer(p)
    <2>1. fetch'[p] = NoFetch /\ UNCHANGED <<held, atStart>>
      BY <1>6 DEF TakeAnswer, ChatInv, Shape
    <2> QED BY <1>1, <1>6, <2>1
            DEF ReaderInv, Contiguous, FetchGoesOn, ListedReaches, StartIsHeld, NoFetch
  <1> QED BY <1>2, <1>3, <1>4, <1>5, <1>6 DEF Fetch

LEMMA PagesStayComplete == Spec => []PagesInv
  <1>1. Init => PagesInv
    BY DEF Init, InitWith, PagesInv, ReaderInv, Contiguous, FetchGoesOn, ListedReaches, StartIsHeld, NoFetch
  <1>2. ASSUME ChatInv, PagesInv, [Next]_vars PROVE PagesInv'
    <2> SUFFICES ASSUME NEW p \in Readers, ReaderInv(p) PROVE ReaderInv(p)'
      BY <1>2 DEF PagesInv
    <2>1. CASE \E s \in Sends : StoreMessage(s)
      BY <1>2, <2>1, StoreKeepsPages
    <2>2. CASE \E q \in Readers : Fetch(q)
      BY <1>2, <2>2, FetchKeepsPages
    <2>3. CASE UNCHANGED <<conversation, messages, readerVars>>
      BY <2>3 DEF readerVars, ReaderInv, Contiguous, FetchGoesOn, ListedReaches, StartIsHeld,
                  Sequences
    <2>4. ASSUME NEW s \in Sends, HandleSend(s) \/ LoseSend(s), ~StoreMessage(s)
          PROVE  UNCHANGED <<conversation, messages, readerVars>>
      BY <2>4 DEF HandleSend, LoseSend, LockConversation, InsertConversation,
                  InsertIsDuplicate, InsertDeadlocks, FindMessage, RefuseMessage,
                  AnswerSend, rows
    <2>5. ASSUME NEW r \in Reads, HandleRead(r) \/ LoseRead(r)
          PROVE  UNCHANGED <<conversation, messages, readerVars>>
      BY <2>5 DEF HandleRead, LoseRead, ReadNothing, LockForRead, LockConversation,
                  RefuseRead, StoreMarker, rows
    <2> QED BY <1>2, <2>1, <2>2, <2>3, <2>4, <2>5 DEF Next, Handle, vars, rows
  <1> QED BY <1>1, <1>2, ChatInvariant, PTL DEF Spec

-----------------------------------------------------------------------------
(* The theorems *)

\* Every variable keeps the shape of its rows and of the progress of requests,
\* and every lock is released in the end of its transaction, at either
\* isolation level.
THEOREM ChatTypeCorrect == Spec => []TypeOK
  <1>1. ChatInv => TypeOK
    BY DEF ChatInv, RowIsHeld, TypeOK
  <1> QED BY <1>1, ChatInvariant, PTL

\* However many messages are sent at once, they are numbered without gaps, and
\* the summary of the conversation is that of the last one.
THEOREM ConversationAlwaysMatches == Spec => []ConversationMatchesMessages
  <1>1. ChatInv => ConversationMatchesMessages
    BY DEF ChatInv
  <1> QED BY <1>1, ChatInvariant, PTL

\* However often a message is resent, it is stored once, and no send is
\* answered with the message of another sender or another text.
THEOREM ResendsAlwaysFindTheirMessage == Spec => []ResendsFindTheirMessage
  <1>1. ChatInv => ResendsFindTheirMessage
    BY DEF ChatInv
  <1> QED BY <1>1, ChatInvariant, PTL

\* Read markers only go forward, and never past the last message.
THEOREM MarkersOnlyGoForward == Spec => MarkersFollowMessages
  <1> DEFINE Forward == \A a \in Actors :
               marker'[a] >= marker[a] /\ marker'[a] <= conversation'.lastSequence
  <1>1. ChatInv /\ ChatInv' /\ [Next]_vars => [Forward]_vars
    BY MarkersNeverGoBack DEF ChatInv, MarkersBounded
  <1> QED BY <1>1, ChatInvariant, PTL DEF Spec, MarkersFollowMessages
\* Whatever the number of first messages and the isolation level: as long as one
\* that may create the conversation is not lost, the sends that failed in the race
\* to create it failed for the sake of a conversation that exists, or of a send
\* that is still at it.
THEOREM CreationRaceAlwaysSparesOne == Spec => []CreationRaceSparesOne
  BY SparesOneAlways, PTL

\* What a reader has fetched never has a gap, at any page size and while any
\* number of messages are being stored, and neither lastSequence nor
\* hasMoreBefore tells it that it has more than it has.
THEOREM PagesAreAlwaysComplete == Spec => []PagesAreComplete
  <1>1. PagesInv => PagesAreComplete
    BY DEF PagesInv, ReaderInv, Contiguous, ListedReaches, StartIsHeld, PagesAreComplete
  <1> QED BY <1>1, PagesStayComplete, PTL
=============================================================================
