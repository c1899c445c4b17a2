----------------------------- MODULE ChatGateway -----------------------------
(***************************************************************************)
(* The Socket.IO gateway of the chat.  A socket is authorised while its    *)
(* handshake is in middleware, counted against its actor, connected, and   *)
(* asked for its principal again every 30 seconds.  JavaScript runs each   *)
(* callback to its end, so an action is what runs between two awaits or    *)
(* events; a transport may close between any two of them.                  *)
(***************************************************************************)
EXTENDS Integers, FiniteSets

CONSTANTS
  Sockets,
  Actors,
  ActorOf,         \* whose token each socket presents
  ConnectionLimit  \* ACTOR_CONNECTION_LIMIT

ASSUME GatewayAssumption ==
  /\ IsFiniteSet(Sockets) /\ ActorOf \in [Sockets -> Actors]
  /\ ConnectionLimit \in Nat \ {0}

VARIABLES
  revoked,      \* actors whose tokens are refused: locked, or changed since
  transport,    \* the Engine.IO connection under each socket
  phase,        \* how far each socket has come
  principal,    \* whether the last lookup of its principal succeeded
  watched,      \* sockets with a pending handshake close listener
  reserved,     \* sockets with a chatReservation
  actorSockets, \* actorSockets: the sockets counted against each actor
  ticking,      \* sockets with a revalidation timer
  checking      \* the revalidation each socket is in

timers == <<ticking, checking>>
slots == <<watched, reserved, actorSockets>>
vars == <<revoked, transport, phase, principal, slots, timers>>

Init ==
  /\ revoked = {}
  /\ transport = [s \in Sockets |-> "none"]
  /\ phase = [s \in Sockets |-> "none"]
  /\ principal = [s \in Sockets |-> FALSE]
  /\ watched = {}
  /\ reserved = {}
  /\ actorSockets = [a \in Actors |-> {}]
  /\ ticking = {}
  /\ checking = [s \in Sockets |-> "none"]

IsOpen(s) == transport[s] = "open"

\* releaseSocketReservation()
Release(s) ==
  IF s \in reserved
  THEN /\ actorSockets' = [actorSockets EXCEPT ![ActorOf[s]] = @ \ {s}]
       /\ reserved' = reserved \ {s}
  ELSE UNCHANGED <<actorSockets, reserved>>

\* Mutant of Watch: nothing listens for the close of a pending handshake.
WatchNothing(s) == watched' = watched

\* watchPendingHandshakeClose() and removePendingHandshakeCloseWatcher()
Watch(s) == watched' = watched \cup {s}
Unwatch(s) == watched' = watched \ {s}

-----------------------------------------------------------------------------
(* The handshake *)

\* The middleware starts to authorise the socket; it awaits the principal.
Handshake(s) ==
  /\ phase[s] = "none"
  /\ transport' = [transport EXCEPT ![s] = "open"]
  /\ phase' = [phase EXCEPT ![s] = "resolving"]
  /\ Watch(s)
  /\ UNCHANGED <<revoked, principal, reserved, actorSockets, timers>>

\* The account of the actor is read, or the lookup fails.
ResolvePrincipal(s) ==
  /\ phase[s] = "resolving"
  /\ \E found \in {FALSE, ActorOf[s] \notin revoked} :
       principal' = [principal EXCEPT ![s] = found]
  /\ phase' = [phase EXCEPT ![s] = "resolved"]
  /\ UNCHANGED <<revoked, transport, slots, timers>>

\* Mutant of AtLimit: only connected sockets are counted.
ConnectedAtLimit(s) ==
  Cardinality({q \in actorSockets[ActorOf[s]] : phase[q] = "connected"})
    >= ConnectionLimit

AtLimit(s) == Cardinality(actorSockets[ActorOf[s]]) >= ConnectionLimit

\* authorize() goes on after its await and reserves a slot; next() is called.
Admit(s) ==
  /\ phase[s] = "resolved" /\ principal[s] /\ ~AtLimit(s) /\ IsOpen(s)
  /\ reserved' = reserved \cup {s}
  /\ actorSockets' = [actorSockets EXCEPT ![ActorOf[s]] = @ \cup {s}]
  /\ phase' = [phase EXCEPT ![s] = "admitted"]
  /\ UNCHANGED <<revoked, transport, principal, watched, timers>>

\* authorize() throws: next() is called with an error.
Refuse(s) ==
  /\ phase[s] = "resolved" /\ (~principal[s] \/ AtLimit(s) \/ ~IsOpen(s))
  /\ Release(s) /\ Unwatch(s)
  /\ phase' = [phase EXCEPT ![s] = "ended"]
  /\ UNCHANGED <<revoked, transport, principal, timers>>

\* handleConnection() connects a socket that still holds its slot ...
HandleConnection(s) ==
  /\ phase[s] = "admitted" /\ s \in reserved /\ IsOpen(s)
  /\ Unwatch(s)
  /\ ticking' = ticking \cup {s}
  /\ phase' = [phase EXCEPT ![s] = "connected"]
  /\ UNCHANGED <<revoked, transport, principal, reserved, actorSockets, checking>>

\* ... and disconnects any other ...
RefuseConnection(s) ==
  /\ phase[s] = "admitted" /\ (s \notin reserved \/ ~IsOpen(s))
  /\ Release(s) /\ Unwatch(s)
  /\ phase' = [phase EXCEPT ![s] = "ended"]
  /\ transport' = [transport EXCEPT ![s] = "closed"]
  /\ UNCHANGED <<revoked, principal, timers>>

\* ... unless Socket.IO has found the transport closing and does not call it.
DropConnection(s) ==
  /\ phase[s] = "admitted" /\ ~IsOpen(s)
  /\ phase' = [phase EXCEPT ![s] = "ended"]
  /\ UNCHANGED <<revoked, transport, principal, slots, timers>>

-----------------------------------------------------------------------------
(* Disconnection *)

\* handleDisconnect()
HandleDisconnect(s) ==
  /\ Unwatch(s) /\ Release(s)
  /\ ticking' = ticking \ {s}
  /\ phase' = [phase EXCEPT ![s] = "ended"]

\* socket.disconnect(true): the socket is disconnected at once, its transport
\* closes when it has been drained.
Disconnect(s) ==
  /\ HandleDisconnect(s)
  /\ transport' = [transport EXCEPT ![s] = IF @ = "closed" THEN @ ELSE "closing"]

\* The transport starts to close ...
BeginClose(s) ==
  /\ IsOpen(s)
  /\ transport' = [transport EXCEPT ![s] = "closing"]
  /\ UNCHANGED <<revoked, phase, principal, slots, timers>>

\* ... and emits "close": Socket.IO disconnects a connected socket, and the
\* listener of a pending handshake releases the slot.
Close(s) ==
  /\ transport[s] \in {"open", "closing"}
  /\ transport' = [transport EXCEPT ![s] = "closed"]
  /\ IF phase[s] = "connected" THEN HandleDisconnect(s)
     ELSE /\ Unwatch(s)
          /\ IF s \in watched THEN Release(s) ELSE UNCHANGED <<reserved, actorSockets>>
          /\ UNCHANGED <<ticking, phase>>
  /\ UNCHANGED <<revoked, principal, checking>>

\* The token expires, or the client leaves.
Expire(s) ==
  /\ phase[s] = "connected"
  /\ Disconnect(s)
  /\ UNCHANGED <<revoked, principal, checking>>

-----------------------------------------------------------------------------
(* Revalidation *)

\* Mutant of Tick: the timer fires once.
TickOnce(s) ==
  /\ s \in ticking /\ checking[s] = "none"
  /\ checking' = [checking EXCEPT ![s] = "asked"]
  /\ ticking' = ticking \ {s}
  /\ UNCHANGED <<revoked, transport, phase, principal, slots>>

\* The timer fires; a lookup that takes longer than its interval is left out.
Tick(s) ==
  /\ s \in ticking /\ checking[s] = "none"
  /\ checking' = [checking EXCEPT ![s] = "asked"]
  /\ UNCHANGED <<revoked, transport, phase, principal, slots, ticking>>

CheckPrincipal(s) ==
  /\ checking[s] = "asked"
  /\ \E found \in {FALSE, ActorOf[s] \notin revoked} :
       checking' = [checking EXCEPT ![s] = IF found THEN "valid" ELSE "refused"]
  /\ UNCHANGED <<revoked, transport, phase, principal, slots, ticking>>

\* The lookup is over.  A socket that has been disconnected stays so.
Revalidate(s) ==
  /\ checking[s] \in {"valid", "refused"}
  /\ checking' = [checking EXCEPT ![s] = "none"]
  /\ IF checking[s] = "refused" /\ phase[s] = "connected" THEN Disconnect(s)
     ELSE UNCHANGED <<phase, transport, slots, ticking>>
  /\ UNCHANGED <<revoked, principal>>

\* The account is locked or deleted, or its token version moves on: tokens
\* that are out are refused from now on.
Revoke(a) ==
  /\ a \notin revoked
  /\ revoked' = revoked \cup {a}
  /\ UNCHANGED <<transport, phase, principal, slots, timers>>

-----------------------------------------------------------------------------
Authorize(s) ==
  \/ Handshake(s) \/ ResolvePrincipal(s) \/ Admit(s) \/ Refuse(s)
  \/ HandleConnection(s) \/ RefuseConnection(s) \/ DropConnection(s)

Recheck(s) == Tick(s) \/ CheckPrincipal(s) \/ Revalidate(s)

Leave(s) == BeginClose(s) \/ Close(s) \/ Expire(s)

Next ==
  \/ \E s \in Sockets : Authorize(s) \/ Recheck(s) \/ Leave(s)
  \/ \E a \in Actors : Revoke(a)

Spec == Init /\ [][Next]_vars

\* Timers fire, and lookups end.
FairSpec == Spec /\ \A s \in Sockets : WF_vars(Recheck(s))
=============================================================================
