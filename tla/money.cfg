SPECIFICATION Spec
CONSTANTS
  b1 = b1
  b2 = b2
  r1 = r1
  Bookings = {b1}
  Payments = {p1, p2}
  RefundKeys = {k1, k2}
  Rooms = {r1}
  Dates = {0}
  RoomOf <- MCRoomOf
  StayDates <- MCStayDates
  Timeout = 1
  TicksPerDay = 2
  BatchLimit = 1
  MaxTime = 2
  MaxQueries = 1
SYMMETRY PaymentSymmetry
INVARIANTS
  BookingAgreesWithPayments
  CapturedMoneyIsNotLost
  OpenAttempts
  RefundMatchesGateway
PROPERTIES
  PaidStayIsHonoured
