SPECIFICATION FairSpec
CONSTANTS
  s1 = s1
  s2 = s2
  s3 = s3
  customer = customer
  Sockets = {s1, s2, s3}
  Actors = {customer}
  ActorOf <- MCActorOf
  ConnectionLimit = 2
CHECK_DEADLOCK FALSE
INVARIANTS
  ConnectionsWithinLimit
  SlotsAreHeldByLiveSockets
PROPERTIES
  RevokedActorsAreDisconnected
