SPECIFICATION MCSpec
CONSTANTS
  hello = hello
  again = again
  changed = changed
  more = more
  reply = reply
  early = early
  late = late
  Actors <- MCActors
  ClientIds = {"c1", "c2"}
  Contents = {"hello", "changed", "reply"}
  Sender <- MCSender
  ClientId <- MCClientId
  Content <- MCContent
  ReadBy <- MCReadBy
  ReadUpTo <- MCReadUpTo
  PageSize = 1
  Nobody = nobody
  Null = null
  Readers = {}
  GapLocking = {TRUE}
  Sends = {hello, reply}
  Reads = {}
CHECK_DEADLOCK FALSE
INVARIANTS
  CreationRaceIsResolved
