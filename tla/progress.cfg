SPECIFICATION FairSpec
CONSTANTS
  b1 = b1
  b2 = b2
  r1 = r1
  Bookings = {b1, b2}
  Payments = {p1}
  RefundKeys = {}
  Rooms = {r1}
  Dates = {0, 1}
  RoomOf <- MCRoomOf
  StayDates <- MCSeparateStays
  Timeout = 1
  TicksPerDay = 2
  BatchLimit = 1
  MaxTime = 2
  MaxQueries = 0
CHECK_DEADLOCK FALSE
PROPERTIES
  OverdueIsClosed
