SPECIFICATION MCSpec
CONSTANTS
  hello = hello
  again = again
  changed = changed
  more = more
  reply = reply
  early = early
  late = late
  Actors <- MCActors
  ClientIds = {"c1", "c2"}
  Contents = {"hello", "changed", "reply"}
  Sender <- MCSender
  ClientId <- MCClientId
  Content <- MCContent
  ReadBy <- MCReadBy
  ReadUpTo <- MCReadUpTo
  PageSize = 2
  Nobody = nobody
  Null = null
  Readers = {r1}
  GapLocking = {TRUE, FALSE}
  Sends = {hello, again, changed, more, reply}
  Reads = {early, late}
CHECK_DEADLOCK FALSE
INVARIANTS
  ConversationMatchesMessages
  ResendsFindTheirMessage
  CreationRaceSparesOne
  PagesAreComplete
PROPERTIES
  MarkersFollowMessages
  EveryRequestEnds
