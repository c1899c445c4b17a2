SPECIFICATION Spec
CONSTANTS
  web = web
  retry = retry
  second = second
  desk = desk
  counter = counter
  again = again
  other = other
  guest1 = guest1
  phone1 = phone1
  room1 = room1
  room2 = room2
  Requests = {web, retry, second, desk, other}
  Customers <- MCCustomers
  Rooms = {room1, room2}
  Dates = {1, 2, 3}
  Actor <- MCActor
  ByStaff <- MCByStaff
  ByPhone <- MCByPhone
  Key <- MCKey
  NoKey = "no key"
  Hash <- MCHash
  Customer <- MCCustomer
  RoomOf <- MCRoomOf
  Nights <- MCNights
  Registered <- MCRegistered
  MaxUnpaid = 2
  MaxNights = 3
CHECK_DEADLOCK FALSE
PROPERTIES
  LimitsHoldAtCommit
  RetryFindsItsBooking
  LockedAccountBooksNothing
INVARIANTS
  AnswersAgree
