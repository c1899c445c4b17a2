------------------------ MODULE BookingChatProperties ------------------------
(***************************************************************************)
(* What the conversation of a booking promises.                            *)
(***************************************************************************)
EXTENDS BookingChat

Conversation ==
  [exists : BOOLEAN, lastSequence : Nat,
   lastActor : Actors \cup {Null}, lastContent : Contents \cup {Null}]
Message ==
  [sequence : Nat \ {0}, sender : Actors, clientId : ClientIds, content : Contents]
Stage == {"new", "missing", "locked", "stored", "done"}
OutcomeKind == {"none", "message", "conflict", "failed", "lost"}
FetchKind == {"none", "newer", "older", "listed"}

Shape ==
  /\ conversation \in Conversation
  /\ messages \subseteq Message
  /\ marker \in [Actors -> Nat]
  /\ gapLocks \in BOOLEAN
  /\ rowHolder \in Requests \cup {Nobody}
  /\ stage \in [Requests -> Stage]
  /\ attempt \in [Sends -> {0, 1}]
  /\ seen \in [Requests -> Conversation]
  /\ outcome \in [Sends -> [kind : OutcomeKind, sequence : Nat]]
  /\ fetch \in [Readers -> [kind : FetchKind, after : Nat, lastSequence : Nat]]
  /\ held \in [Readers -> SUBSET (Nat \ {0})]
  /\ atStart \in [Readers -> BOOLEAN]

\* The variables have the shape of their rows and of the requests' progress,
\* and no lock outlives the transaction that took it.
TypeOK == Shape /\ (rowHolder # Nobody => stage[rowHolder] = "locked")

\* Messages are numbered 1, 2, 3, ... without gaps or repetitions however
\* their transactions interleave, and the conversation's cached summary is
\* that of the last one: the data audit's chat-conversation-summary.
ConversationMatchesMessages ==
  /\ Sequences = 1 .. conversation.lastSequence
  /\ \A m, n \in messages : m.sequence = n.sequence => m = n
  /\ conversation.exists <=> messages # {}
  /\ \A m \in messages : m.sequence = conversation.lastSequence =>
       /\ conversation.lastActor = m.sender
       /\ conversation.lastContent = m.content

\* A message resent with its clientMessageId, concurrently or after a lost
\* answer, is stored once.  A send is answered with a message of its own sender
\* and its own text, and refused only where that sender used the
\* clientMessageId for another text.
ResendsFindTheirMessage ==
  /\ \A m, n \in messages :
       m.sender = n.sender /\ m.clientId = n.clientId => m = n
  /\ \A s \in Sends : outcome[s].kind \in {"message", "conflict"} =>
       \E m \in messages :
         /\ m.sender = Sender[s] /\ m.clientId = ClientId[s]
         /\ IF outcome[s].kind = "message"
            THEN m.sequence = outcome[s].sequence /\ m.content = Content[s]
            ELSE m.content # Content[s]

\* Read markers never go back, whichever of an actor's clients is late, and
\* never pass the last message: the data audit's chat-read-state-bound.
MarkersFollowMessages ==
  [][\A a \in Actors :
       marker'[a] >= marker[a] /\ marker'[a] <= conversation'.lastSequence]_vars

\* What a reader has fetched in pages has no gap while messages are being
\* stored; a page of newer messages reaches the lastSequence that is answered
\* with it unless the page is full; and a reader told that there is nothing
\* before a page has the first message.
PagesAreComplete ==
  \A p \in Readers :
    /\ \A x \in Sequences \ held[p] :
         (\A y \in held[p] : x < y) \/ (\A y \in held[p] : y < x)
    /\ atStart[p] => 1 \in held[p]
    /\ fetch[p].kind = "listed" =>
         \A x \in 1 .. fetch[p].lastSequence :
           fetch[p].after < x /\ x <= fetch[p].after + PageSize => x \in held[p]

\* "The unique booking key resolves the only creation race."
\* (chat.service.ts:287): no send fails because another one creates the
\* conversation at the same time.
CreationRaceIsResolved == \A s \in Sends : outcome[s].kind # "failed"

\* What remains of it at REPEATABLE READ, where first messages deadlock and the
\* sends that InnoDB rolls back fail: they fail for the sake of one that creates
\* the conversation, or still can, unless that one is lost.
CreationRaceSparesOne ==
  (\E s \in Sends : outcome[s].kind = "failed") =>
    \/ conversation.exists
    \/ \E t \in Sends : stage[t] \in {"missing", "locked"} \/ outcome[t].kind = "lost"

\* Every request ends: locks are released whatever the transaction came to,
\* and of those that wait for each other one always goes on.
EveryRequestEnds == \A r \in Requests : <>(stage[r] = "done")
=============================================================================
