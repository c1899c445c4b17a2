-------------------------- MODULE ChatGatewayProofs --------------------------
(***************************************************************************)
(* The connection limit of the chat gateway and the return of its slots,   *)
(* for any number of sockets and actors.                                   *)
(*                                                                         *)
(* The slots of an actor never exceed the limit, a slot belongs to a       *)
(* socket with a reservation, and a socket that is admitted and not yet    *)
(* connected is watched, so that the close of its transport is noticed.    *)
(***************************************************************************)
EXTENDS ChatGatewayProperties, FiniteSetTheorems, TLAPS

\* A reservation is watched until its socket is connected, and given up when
\* its transport has closed.
ReservationsAreWatched ==
  \A s \in reserved :
    /\ phase[s] = "connected" \/ s \in watched
    /\ phase[s] \in {"admitted", "connected", "ended"}
    /\ phase[s] = "ended" => transport[s] = "closing"
    /\ transport[s] \in {"open", "closing"}

HandshakesAreWatched ==
  \A s \in Sockets :
    /\ phase[s] \in {"resolving", "resolved", "admitted"} =>
         transport[s] = "closed" \/ s \in watched
    /\ phase[s] = "none" <=> transport[s] = "none"

ConnectedSocketsAreReserved ==
  /\ \A s \in Sockets : phase[s] = "connected" => s \in reserved
  /\ \A s \in ticking : phase[s] = "connected"

SlotsWithinLimit ==
  \A a \in Actors : Cardinality(actorSockets[a]) <= ConnectionLimit

GatewayInv ==
  /\ Shape /\ SlotsMatchReservations /\ ReservationsAreWatched /\ HandshakesAreWatched
  /\ ConnectedSocketsAreReserved /\ SlotsWithinLimit

-----------------------------------------------------------------------------
LEMMA InitGateway == Init => GatewayInv
  <1> SUFFICES ASSUME Init PROVE GatewayInv
    OBVIOUS
  <1>1. Shape
    BY DEF Init, Shape, Transport, Phase, Checking
  <1>2. /\ SlotsMatchReservations /\ ReservationsAreWatched
        /\ HandshakesAreWatched /\ ConnectedSocketsAreReserved
    BY GatewayAssumption DEF Init, SlotsMatchReservations, ReservationsAreWatched,
                             HandshakesAreWatched, ConnectedSocketsAreReserved
  <1>3. SlotsWithinLimit
    BY FS_EmptySet, GatewayAssumption DEF Init, SlotsWithinLimit
  <1> QED BY <1>1, <1>2, <1>3 DEF GatewayInv

LEMMA SlotsAreFinite ==
  ASSUME Shape, NEW a \in Actors
  PROVE  IsFiniteSet(actorSockets[a]) /\ Cardinality(actorSockets[a]) \in Nat
  BY FS_Subset, FS_CardinalityType, GatewayAssumption DEF Shape

\* Slots are only given back: the limit still holds.
LEMMA FewerSlots ==
  ASSUME Shape, SlotsWithinLimit,
         \A a \in Actors : actorSockets'[a] \subseteq actorSockets[a]
  PROVE  SlotsWithinLimit'
  <1> SUFFICES ASSUME NEW a \in Actors
               PROVE  Cardinality(actorSockets'[a]) <= ConnectionLimit
    BY DEF SlotsWithinLimit
  <1>1. IsFiniteSet(actorSockets[a]) /\ Cardinality(actorSockets[a]) \in Nat
    BY SlotsAreFinite
  <1>2. /\ Cardinality(actorSockets'[a]) \in Nat
        /\ Cardinality(actorSockets'[a]) <= Cardinality(actorSockets[a])
    BY <1>1, FS_Subset, FS_CardinalityType
  <1> QED BY <1>1, <1>2, GatewayAssumption DEF SlotsWithinLimit

\* What releaseSocketReservation() leaves.
LEMMA ReleaseKeeps ==
  ASSUME Shape, SlotsMatchReservations, NEW s \in Sockets, Release(s)
  PROVE  /\ reserved' = reserved \ {s}
         /\ actorSockets' \in [Actors -> SUBSET Sockets]
         /\ \A a \in Actors : actorSockets'[a] \subseteq actorSockets[a]
         /\ SlotsMatchReservations'
  <1>1. CASE s \in reserved
    BY <1>1, GatewayAssumption DEF Shape, SlotsMatchReservations, Release
  <1>2. CASE s \notin reserved
    BY <1>2 DEF Shape, SlotsMatchReservations, Release
  <1> QED BY <1>1, <1>2

LEMMA DisconnectKeepsInv ==
  ASSUME GatewayInv, NEW s \in Sockets, phase[s] = "connected",
         HandleDisconnect(s), UNCHANGED <<revoked, principal>>,
         NEW t \in {"closing", "closed"}, transport' = [transport EXCEPT ![s] = t],
         checking' \in [Sockets -> Checking]
  PROVE  GatewayInv'
  <1>1. /\ reserved' = reserved \ {s} /\ SlotsMatchReservations'
        /\ actorSockets' \in [Actors -> SUBSET Sockets]
        /\ \A a \in Actors : actorSockets'[a] \subseteq actorSockets[a]
    BY ReleaseKeeps DEF GatewayInv, HandleDisconnect
  <1>2. Shape'
    BY <1>1 DEF GatewayInv, Shape, HandleDisconnect, Unwatch, Transport, Phase
  <1>3. ReservationsAreWatched' /\ HandshakesAreWatched'
    BY <1>1 DEF GatewayInv, Shape, ReservationsAreWatched, HandshakesAreWatched,
                HandleDisconnect, Unwatch
  <1>4. ConnectedSocketsAreReserved'
    BY <1>1 DEF GatewayInv, Shape, ConnectedSocketsAreReserved, HandleDisconnect
  <1>5. SlotsWithinLimit'
    BY <1>1, FewerSlots DEF GatewayInv
  <1> QED BY <1>1, <1>2, <1>3, <1>4, <1>5 DEF GatewayInv

LEMMA AdmitKeepsInv ==
  ASSUME GatewayInv, NEW s \in Sockets, Admit(s)
  PROVE  GatewayInv'
  <1> DEFINE a == ActorOf[s]
  <1>0. a \in Actors
    BY GatewayAssumption
  <1>1. Shape'
    BY <1>0 DEF GatewayInv, Shape, Admit, Phase, timers
  <1>2. SlotsMatchReservations'
    BY <1>0, GatewayAssumption DEF GatewayInv, Shape, SlotsMatchReservations, Admit
  <1>3. /\ ReservationsAreWatched' /\ HandshakesAreWatched'
        /\ ConnectedSocketsAreReserved'
    BY DEF GatewayInv, Shape, ReservationsAreWatched, HandshakesAreWatched,
           ConnectedSocketsAreReserved, Admit, IsOpen, timers
  <1>4. SlotsWithinLimit'
    <2>1. IsFiniteSet(actorSockets[a]) /\ Cardinality(actorSockets[a]) \in Nat
      BY <1>0, SlotsAreFinite DEF GatewayInv
    <2>2. Cardinality(actorSockets[a]) + 1 <= ConnectionLimit
      BY <2>1, GatewayAssumption DEF Admit, AtLimit
    <2>3. Cardinality(actorSockets[a] \cup {s}) <= ConnectionLimit
      <3>1. \/ Cardinality(actorSockets[a] \cup {s}) = Cardinality(actorSockets[a])
            \/ Cardinality(actorSockets[a] \cup {s}) = Cardinality(actorSockets[a]) + 1
        BY <2>1, FS_AddElement
      <3> QED BY <2>1, <2>2, <3>1, GatewayAssumption
    <2> QED BY <1>0, <2>3 DEF GatewayInv, Shape, SlotsWithinLimit, Admit
  <1> QED BY <1>1, <1>2, <1>3, <1>4 DEF GatewayInv

\* A step that gives back at most the slot of a socket that is not connected,
\* and ends it or leaves it where it is.
LEMMA GiveBackKeepsInv ==
  ASSUME GatewayInv, NEW s \in Sockets, phase[s] # "connected", phase[s] # "none",
         Release(s), Unwatch(s), UNCHANGED <<revoked, principal, timers>>,
         NEW f \in Phase \ {"none", "connected"}, phase' = [phase EXCEPT ![s] = f],
         NEW t \in Transport \ {"none"}, transport' = [transport EXCEPT ![s] = t],
         f = "ended" \/ t = "closed"
  PROVE  GatewayInv'
  <1>1. /\ reserved' = reserved \ {s} /\ SlotsMatchReservations'
        /\ actorSockets' \in [Actors -> SUBSET Sockets]
        /\ \A a \in Actors : actorSockets'[a] \subseteq actorSockets[a]
    BY ReleaseKeeps DEF GatewayInv
  <1>2. Shape'
    BY <1>1 DEF GatewayInv, Shape, Unwatch, Phase, Transport, timers
  <1>3. ReservationsAreWatched' /\ HandshakesAreWatched'
    BY <1>1 DEF GatewayInv, Shape, ReservationsAreWatched, HandshakesAreWatched, Unwatch
  <1>4. ConnectedSocketsAreReserved'
    BY <1>1 DEF GatewayInv, Shape, ConnectedSocketsAreReserved, timers
  <1>5. SlotsWithinLimit'
    BY <1>1, FewerSlots DEF GatewayInv
  <1> QED BY <1>1, <1>2, <1>3, <1>4, <1>5 DEF GatewayInv

\* A step that leaves the slots alone.
LEMMA SlotsUntouched ==
  ASSUME GatewayInv, UNCHANGED <<reserved, actorSockets>>,
         Shape', ReservationsAreWatched', HandshakesAreWatched', ConnectedSocketsAreReserved'
  PROVE  GatewayInv'
  BY DEF GatewayInv, SlotsMatchReservations, SlotsWithinLimit

LEMMA AuthorizeKeepsInv ==
  ASSUME GatewayInv, NEW s \in Sockets, Authorize(s)
  PROVE  GatewayInv'
  <1> USE DEF slots, timers
  <1>1. CASE Handshake(s)
    <2>1. Shape'
      BY <1>1 DEF GatewayInv, Shape, Handshake, Watch, Phase, Transport
    <2>2. ReservationsAreWatched' /\ HandshakesAreWatched' /\ ConnectedSocketsAreReserved'
      BY <1>1 DEF GatewayInv, Shape, ReservationsAreWatched, HandshakesAreWatched,
                  ConnectedSocketsAreReserved, Handshake, Watch
    <2> QED BY <1>1, <2>1, <2>2, SlotsUntouched DEF Handshake
  <1>2. CASE ResolvePrincipal(s)
    <2>1. Shape'
      <3>1. PICK found \in BOOLEAN : principal' = [principal EXCEPT ![s] = found]
        BY <1>2 DEF ResolvePrincipal
      <3> QED BY <1>2, <3>1 DEF GatewayInv, Shape, ResolvePrincipal, Phase
    <2>2. ReservationsAreWatched' /\ HandshakesAreWatched' /\ ConnectedSocketsAreReserved'
      BY <1>2 DEF GatewayInv, Shape, ReservationsAreWatched, HandshakesAreWatched,
                  ConnectedSocketsAreReserved, ResolvePrincipal
    <2> QED BY <1>2, <2>1, <2>2, SlotsUntouched DEF ResolvePrincipal
  <1>3. CASE Admit(s)
    BY <1>3, AdmitKeepsInv
  <1>4. CASE Refuse(s)
    <2>1. transport' = [transport EXCEPT ![s] = transport[s]]
      BY <1>4 DEF Refuse, GatewayInv, Shape
    <2>2. transport[s] \in Transport \ {"none"}
      BY <1>4 DEF Refuse, GatewayInv, Shape, HandshakesAreWatched
    <2> QED BY <1>4, <2>1, <2>2, GiveBackKeepsInv DEF Refuse, Phase
  <1>5. CASE HandleConnection(s)
    <2>1. Shape'
      BY <1>5 DEF GatewayInv, Shape, HandleConnection, Unwatch, Phase
    <2>2. ReservationsAreWatched' /\ HandshakesAreWatched' /\ ConnectedSocketsAreReserved'
      BY <1>5 DEF GatewayInv, Shape, ReservationsAreWatched, HandshakesAreWatched,
                  ConnectedSocketsAreReserved, HandleConnection, Unwatch, IsOpen
    <2> QED BY <1>5, <2>1, <2>2, SlotsUntouched DEF HandleConnection
  <1>6. CASE RefuseConnection(s)
    BY <1>6, GiveBackKeepsInv DEF RefuseConnection, Phase, Transport
  <1>7. CASE DropConnection(s)
    <2>1. Shape'
      BY <1>7 DEF GatewayInv, Shape, DropConnection, Phase
    <2>2. ReservationsAreWatched' /\ HandshakesAreWatched' /\ ConnectedSocketsAreReserved'
      BY <1>7 DEF GatewayInv, Shape, ReservationsAreWatched, HandshakesAreWatched,
                  ConnectedSocketsAreReserved, DropConnection, IsOpen
    <2> QED BY <1>7, <2>1, <2>2, SlotsUntouched DEF DropConnection
  <1> QED BY <1>1, <1>2, <1>3, <1>4, <1>5, <1>6, <1>7 DEF Authorize

LEMMA LeaveKeepsInv ==
  ASSUME GatewayInv, NEW s \in Sockets, Leave(s)
  PROVE  GatewayInv'
  <1> USE DEF slots, timers
  <1>1. CASE BeginClose(s)
    <2>1. Shape'
      BY <1>1 DEF GatewayInv, Shape, BeginClose, Transport
    <2>2. ReservationsAreWatched' /\ HandshakesAreWatched' /\ ConnectedSocketsAreReserved'
      BY <1>1 DEF GatewayInv, Shape, ReservationsAreWatched, HandshakesAreWatched,
                  ConnectedSocketsAreReserved, BeginClose, IsOpen
    <2> QED BY <1>1, <2>1, <2>2, SlotsUntouched DEF BeginClose
  <1>2. CASE Close(s)
    <2>1. CASE phase[s] = "connected"
      <3>1. checking' \in [Sockets -> Checking]
        BY <1>2 DEF Close, GatewayInv, Shape
      <3> QED BY <1>2, <2>1, <3>1, DisconnectKeepsInv DEF Close
    <2>2. CASE phase[s] # "connected"
      <3>1. phase[s] \in Phase \ {"none", "connected"} /\ phase' = [phase EXCEPT ![s] = phase[s]]
        BY <1>2, <2>2 DEF Close, GatewayInv, Shape, HandshakesAreWatched
      <3>2. Release(s)
        BY <1>2, <2>2 DEF Close, GatewayInv, ReservationsAreWatched, Release
      <3> QED BY <1>2, <2>2, <3>1, <3>2, GiveBackKeepsInv DEF Close, Transport
    <2> QED BY <2>1, <2>2
  <1>3. CASE Expire(s)
    <2>1. checking' \in [Sockets -> Checking]
      BY <1>3 DEF Expire, GatewayInv, Shape
    <2>2. transport' = [transport EXCEPT ![s] = "closing"]
      BY <1>3 DEF Expire, Disconnect, GatewayInv, Shape, ReservationsAreWatched,
                  ConnectedSocketsAreReserved
    <2> QED BY <1>3, <2>1, <2>2, DisconnectKeepsInv DEF Expire, Disconnect
  <1> QED BY <1>1, <1>2, <1>3 DEF Leave

LEMMA RecheckKeepsInv ==
  ASSUME GatewayInv, NEW s \in Sockets, Recheck(s)
  PROVE  GatewayInv'
  <1> USE DEF slots
  <1>1. checking' \in [Sockets -> Checking]
    BY DEF Recheck, Tick, CheckPrincipal, Revalidate, GatewayInv, Shape, Checking
  <1>2. CASE Revalidate(s) /\ checking[s] = "refused" /\ phase[s] = "connected"
    <2>1. transport' = [transport EXCEPT ![s] = "closing"]
      BY <1>2 DEF Revalidate, Disconnect, GatewayInv, Shape, ReservationsAreWatched,
                  ConnectedSocketsAreReserved
    <2> QED BY <1>1, <1>2, <2>1, DisconnectKeepsInv DEF Revalidate, Disconnect
  <1>3. CASE ~(Revalidate(s) /\ checking[s] = "refused" /\ phase[s] = "connected")
    <2>1. UNCHANGED <<revoked, transport, phase, principal, slots, ticking>>
      BY <1>3 DEF Recheck, Tick, CheckPrincipal, Revalidate
    <2> QED BY <1>1, <2>1, SlotsUntouched
          DEF GatewayInv, Shape, ReservationsAreWatched, HandshakesAreWatched,
              ConnectedSocketsAreReserved
  <1> QED BY <1>2, <1>3

LEMMA NextKeepsGateway == GatewayInv /\ [Next]_vars => GatewayInv'
  <1> SUFFICES ASSUME GatewayInv, [Next]_vars PROVE GatewayInv'
    OBVIOUS
  <1>1. ASSUME NEW a \in Actors, Revoke(a) PROVE GatewayInv'
    BY <1>1, SlotsUntouched DEF Revoke, slots, timers, GatewayInv, Shape,
       ReservationsAreWatched, HandshakesAreWatched, ConnectedSocketsAreReserved
  <1>2. CASE UNCHANGED vars
    BY <1>2, SlotsUntouched DEF vars, slots, timers, GatewayInv, Shape,
       ReservationsAreWatched, HandshakesAreWatched, ConnectedSocketsAreReserved
  <1> QED BY <1>1, <1>2, AuthorizeKeepsInv, RecheckKeepsInv, LeaveKeepsInv DEF Next

LEMMA GatewayInvariant == Spec => []GatewayInv
  BY InitGateway, NextKeepsGateway, PTL DEF Spec

-----------------------------------------------------------------------------
\* The gateway's maps always hold sockets, under the actor of each, and agree
\* with the reservations.
THEOREM GatewayTypeCorrect == Spec => []TypeOK
  <1>1. GatewayInv => TypeOK
    BY DEF GatewayInv, TypeOK
  <1> QED BY <1>1, GatewayInvariant, PTL

\* However handshakes, lookups and closes interleave, an actor never has more
\* connections than the limit.
THEOREM LimitAlwaysHolds == Spec => []ConnectionsWithinLimit
  <1>1. GatewayInv => ConnectionsWithinLimit
    <2> SUFFICES ASSUME GatewayInv, NEW a \in Actors
                 PROVE  Cardinality(Connected(a)) <= ConnectionLimit
      BY DEF ConnectionsWithinLimit
    <2>1. IsFiniteSet(actorSockets[a]) /\ Cardinality(actorSockets[a]) \in Nat
      BY SlotsAreFinite DEF GatewayInv
    <2>2. Connected(a) \subseteq actorSockets[a]
      BY DEF Connected, GatewayInv, ConnectedSocketsAreReserved, SlotsMatchReservations
    <2>3. /\ Cardinality(Connected(a)) \in Nat
          /\ Cardinality(Connected(a)) <= Cardinality(actorSockets[a])
      BY <2>1, <2>2, FS_Subset, FS_CardinalityType
    <2> QED BY <2>1, <2>3, GatewayAssumption DEF GatewayInv, SlotsWithinLimit
  <1> QED BY <1>1, GatewayInvariant, PTL

\* No slot is lost to a socket whose transport has closed, whenever it closed,
\* and every connected socket is counted.
THEOREM SlotsAlwaysComeBack == Spec => []SlotsAreHeldByLiveSockets
  <1>1. GatewayInv => SlotsAreHeldByLiveSockets
    BY GatewayAssumption
       DEF GatewayInv, Shape, SlotsMatchReservations, ReservationsAreWatched,
           ConnectedSocketsAreReserved, SlotsAreHeldByLiveSockets
  <1> QED BY <1>1, GatewayInvariant, PTL
=============================================================================
