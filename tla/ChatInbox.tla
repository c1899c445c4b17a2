------------------------------ MODULE ChatInbox ------------------------------
(***************************************************************************)
(* The inbox of a customer or a support user: the conversations, filtered, *)
(* with how many messages are unread and who has to reply.  "Unread" is    *)
(* written as SQL three times: as a count per conversation, as a count     *)
(* over all, and as a filter.  The inbox is read in two statements, the    *)
(* conversations and then their counts, while messages are stored and      *)
(* markers move.                                                           *)
(*                                                                         *)
(* Storing a message and moving a marker are one transaction each; how     *)
(* those interleave is the matter of BookingChat.                          *)
(***************************************************************************)
EXTENDS Integers, FiniteSets, FiniteSetsExt

CONSTANTS
  Talks,        \* the bookings, each with one conversation
  Customers, Users,
  TalkOf,       \* the customer of each booking
  MaxMessages,  \* bound on the stored messages
  NoFilter,     \* a filter that is not given
  NoOne

Correspondents == Customers \cup Users

ASSUME InboxAssumption ==
  /\ IsFiniteSet(Talks)
  /\ TalkOf \in [Talks -> Customers] /\ Customers \cap Users = {}
  /\ NoOne \notin Correspondents \cup {"customer"}
  /\ MaxMessages \in Nat /\ NoFilter \notin BOOLEAN

VARIABLES
  lastSequence,          \* of each conversation, 0 if there is none
  lastMessageActorType,
  sent,                  \* the stored messages
  lastRead,              \* the marker of each actor in each conversation
  inbox                  \* the inbox that some actor is being answered with

inboxVars == <<lastSequence, lastMessageActorType, sent, lastRead, inbox>>

NoInbox == [stage |-> "none", actor |-> NoOne, unread |-> NoFilter, needsReply |-> NoFilter, items |-> {},
            counts |-> [t \in Talks |-> 0], marked |-> {}]

InboxInit ==
  /\ lastSequence = [t \in Talks |-> 0]
  /\ lastMessageActorType = [t \in Talks |-> NoOne]
  /\ sent = {}
  /\ lastRead = [a \in Correspondents |-> [t \in Talks |-> 0]]
  /\ inbox = NoInbox

-----------------------------------------------------------------------------
(* The queries *)

ActorType(a) == IF a \in Customers THEN "customer" ELSE "user"

\* unreadSenderActorType(): what the other side has written can be unread.
UnreadSenderActorType(a) == IF a \in Customers THEN "user" ELSE "customer"

\* findAccessibleBooking(): a customer sees his own bookings only.
IsAccessible(a, t) == a \in Users \/ TalkOf[t] = a

\* createAccessibleConversationQuery()
AccessibleTalks(a) == {t \in Talks : lastSequence[t] > 0 /\ IsAccessible(a, t)}

\* getUnreadCounts(), for the conversations of one page
UnreadCounts(a, page) ==
  [t \in Talks |->
     IF t \in page
     THEN Cardinality({m \in sent : m.talk = t /\ m.sender = UnreadSenderActorType(a) /\ m.sequence > lastRead[a][t]})
     ELSE 0]

\* getUnreadMessageCount(), over all messages
UnreadMessageCount(a) ==
  Cardinality({m \in sent :
    /\ m.sender = UnreadSenderActorType(a)
    /\ m.sequence > lastRead[a][m.talk]
    /\ a \in Customers => TalkOf[m.talk] = a})

\* Mutant of UnreadMessageExists: the message of the marker counts as unread.
UnreadMessageExistsAtMarker(a, t) ==
  \E m \in sent : m.talk = t /\ m.sender = UnreadSenderActorType(a) /\ m.sequence >= lastRead[a][t]

\* unreadMessageExistsExpression(), the filter
UnreadMessageExists(a, t) ==
  \E m \in sent : m.talk = t /\ m.sender = UnreadSenderActorType(a) /\ m.sequence > lastRead[a][t]

\* applyConversationFilters()
PassesFilters(a, t, unread, needsReply) ==
  /\ unread # NoFilter => (unread <=> UnreadMessageExists(a, t))
  /\ needsReply # NoFilter => (needsReply <=> lastMessageActorType[t] = "customer")

\* getSummary(): needsReplyConversationCount, of users
NeedsReplyConversationCount == Cardinality({t \in Talks : lastMessageActorType[t] = "customer"})

\* getBookingContext(): the unread messages of one booking
ContextUnreadCount(a, t) == IF lastSequence[t] = 0 THEN 0 ELSE UnreadCounts(a, {t})[t]

-----------------------------------------------------------------------------
(* The requests *)

\* sendMessage()
SendMessage(a, t) ==
  /\ IsAccessible(a, t) /\ Cardinality(sent) < MaxMessages
  /\ sent' = sent \cup {[talk |-> t, sequence |-> lastSequence[t] + 1, sender |-> ActorType(a)]}
  /\ lastSequence' = [lastSequence EXCEPT ![t] = @ + 1]
  /\ lastMessageActorType' = [lastMessageActorType EXCEPT ![t] = ActorType(a)]
  /\ UNCHANGED <<lastRead, inbox>>

\* markRead(): a marker that would go back or past the last message stays.
MarkRead(a, t, upTo) ==
  /\ IsAccessible(a, t) /\ upTo \in lastRead[a][t] + 1 .. lastSequence[t]
  /\ lastRead' = [lastRead EXCEPT ![a][t] = upTo]
  /\ inbox' = [inbox EXCEPT !.marked = IF inbox.stage = "found" /\ inbox.actor = a THEN @ \cup {t} ELSE @]
  /\ UNCHANGED <<lastSequence, lastMessageActorType, sent>>

\* listConversations(): the conversations; only users may ask for needsReply.
ListConversations(a, unread, needsReply) ==
  /\ inbox.stage = "none" /\ (needsReply # NoFilter => a \in Users)
  /\ inbox' = [NoInbox EXCEPT
       !.stage = "found", !.actor = a, !.unread = unread, !.needsReply = needsReply,
       !.items = {t \in AccessibleTalks(a) : PassesFilters(a, t, unread, needsReply)}]
  /\ UNCHANGED <<lastSequence, lastMessageActorType, sent, lastRead>>

\* ... and their counts.
CountUnread ==
  /\ inbox.stage = "found"
  /\ inbox' = [inbox EXCEPT !.stage = "answered", !.counts = UnreadCounts(inbox.actor, inbox.items)]
  /\ UNCHANGED <<lastSequence, lastMessageActorType, sent, lastRead>>

\* The client has its answer.
TakeInbox ==
  /\ inbox.stage = "answered"
  /\ inbox' = NoInbox
  /\ UNCHANGED <<lastSequence, lastMessageActorType, sent, lastRead>>

InboxNext ==
  \/ \E a \in Correspondents :
       \/ \E t \in Talks : SendMessage(a, t) \/ \E upTo \in 1 .. MaxMessages : MarkRead(a, t, upTo)
       \/ \E unread, needsReply \in BOOLEAN \cup {NoFilter} : ListConversations(a, unread, needsReply)
  \/ CountUnread \/ TakeInbox

InboxSpec == InboxInit /\ [][InboxNext]_inboxVars

-----------------------------------------------------------------------------
(* Properties *)

\* The types of the state.
InboxTypeOK ==
  /\ lastSequence \in [Talks -> 0 .. MaxMessages]
  /\ lastMessageActorType \in [Talks -> {"customer", "user", NoOne}]
  /\ sent \subseteq [talk : Talks, sequence : 1 .. MaxMessages, sender : {"customer", "user"}]
  /\ lastRead \in [Correspondents -> [Talks -> 0 .. MaxMessages]]
  /\ inbox.stage \in {"none", "found", "answered"} /\ inbox.actor \in Correspondents \cup {NoOne}

\* The badge over all conversations is the sum of their counts.
BadgeIsSum ==
  \A a \in Correspondents :
    UnreadMessageCount(a) =
      MapThenSumSet(LAMBDA t : UnreadCounts(a, AccessibleTalks(a))[t], {t \in Talks : IsAccessible(a, t)})

\* What a booking shows is the count of its conversation, and the filters
\* divide the inbox by those counts and by who wrote last.
FiltersAgree ==
  \A a \in Correspondents :
    LET counts == UnreadCounts(a, AccessibleTalks(a)) IN
    /\ \A t \in Talks : IsAccessible(a, t) => ContextUnreadCount(a, t) = counts[t]
    /\ \A t \in AccessibleTalks(a) : PassesFilters(a, t, TRUE, NoFilter) <=> counts[t] > 0
    /\ a \in Users =>
         NeedsReplyConversationCount =
           Cardinality({t \in AccessibleTalks(a) : PassesFilters(a, t, NoFilter, TRUE)})

\* In an answer, a conversation found as unread has unread messages, however
\* many came in between, unless its reader has just marked it.
InboxAnswersAgree ==
  inbox.stage = "answered" /\ inbox.unread = TRUE =>
    \A t \in inbox.items \ inbox.marked : inbox.counts[t] > 0

\* The formulations of "unread" and "needs a reply" agree.
InboxAgrees == BadgeIsSum /\ FiltersAgree /\ InboxAnswersAgree
=============================================================================
