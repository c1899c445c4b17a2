------------------------ MODULE ChatGatewayProperties ------------------------
(***************************************************************************)
(* What the chat gateway promises.                                         *)
(***************************************************************************)
EXTENDS ChatGateway

Transport == {"none", "open", "closing", "closed"}
Phase == {"none", "resolving", "resolved", "admitted", "connected", "ended"}
Checking == {"none", "asked", "valid", "refused"}

Shape ==
  /\ revoked \subseteq Actors
  /\ transport \in [Sockets -> Transport]
  /\ phase \in [Sockets -> Phase]
  /\ principal \in [Sockets -> BOOLEAN]
  /\ watched \subseteq Sockets /\ reserved \subseteq Sockets
  /\ actorSockets \in [Actors -> SUBSET Sockets]
  /\ ticking \subseteq Sockets
  /\ checking \in [Sockets -> Checking]

\* Slots and reservations are the same thing.
SlotsMatchReservations ==
  /\ \A a \in Actors : \A s \in actorSockets[a] : ActorOf[s] = a
  /\ \A s \in Sockets : s \in reserved <=> s \in actorSockets[ActorOf[s]]

\* The gateway's maps hold sockets, under the actor of each, and a socket that
\* has given up its reservation is not counted.
TypeOK == Shape /\ SlotsMatchReservations

Connected(a) == {s \in Sockets : ActorOf[s] = a /\ phase[s] = "connected"}

\* However many handshakes of an actor are authorised at the same time, no
\* more than the limit are connected ("a concurrent handshake cannot bypass
\* the per-actor connection cap", chat.gateway.ts:110).
ConnectionsWithinLimit ==
  \A a \in Actors : Cardinality(Connected(a)) <= ConnectionLimit

\* A slot is held by a socket that is connected or about to be: whenever a
\* transport closes, before, during or after the handshake, its slot is given
\* back, once its close is announced.  A connected socket is always counted,
\* and only a connected socket has a timer.
SlotsAreHeldByLiveSockets ==
  /\ \A a \in Actors : \A s \in actorSockets[a] :
       /\ ActorOf[s] = a
       /\ \/ phase[s] \in {"admitted", "connected"} /\ transport[s] # "closed"
          \/ phase[s] = "ended" /\ transport[s] = "closing" /\ s \in watched
  /\ \A s \in Sockets : phase[s] = "connected" => s \in actorSockets[ActorOf[s]]
  /\ \A s \in ticking : phase[s] = "connected"

\* Once the tokens of an actor are refused, none of its sockets stays
\* connected, also one whose handshake looked the account up before.
RevokedActorsAreDisconnected ==
  \A s \in Sockets : <>[](ActorOf[s] \in revoked => phase[s] # "connected")
=============================================================================
