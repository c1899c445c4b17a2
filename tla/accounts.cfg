SPECIFICATION Spec
CONSTANTS
  c1 = c1
  c2 = c2
  c3 = c3
  c4 = c4
  admin = admin
  staff = staff
  Customers = {c1, c2, c3, c4}
  Users = {admin, staff}
  Requests = {"login", "loginAny", "loginUser", "register", "register3", "register4", "google", "google2", "googleFirst", "profile", "profile2", "password", "password2", "initial", "initial2", "lock", "lock2", "unlock", "lockSelf", "lockNew", "reset", "hire", "hire2", "me", "normalize"}
  Ask <- MCAsk
  Arrivals <- MCArrivals
  AtOnce = 3
  Existing <- MCExisting
  Identified <- MCIdentified
  Numbers = {"n1", "n2", "n3", "n4", "n5"}
  Emails = {"e1", "e2", "e3"}
  Passwords = {"p1", "p2"}
  Subjects = {"s1"}
  GapLocking = {TRUE, FALSE}
  Nobody = nobody
  Null = null
CHECK_DEADLOCK FALSE
INVARIANTS
  UsableTokensProveCredentials
  OnePersonPerPhone
  AuditTellsStatus
PROPERTIES
  GoogleNeverAdoptsAccount
