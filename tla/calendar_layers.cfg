\* Two hold requests and a host block compete for one unit while a caller confirms,
\* cancels and checks in; the Redis lock may vanish at any time.
SPECIFICATION Spec
CONSTANTS
  b1 = b1
  b2 = b2
  k1 = k1
  c1 = c1
  c2 = c2
  c3 = c3
  u1 = u1
  sweep = sweep
  NoOne = NoOne
  SweepJob = sweep
  Booking = {b1, b2}
  HostBlock = {k1}
  Caller = {c1}
  Unit = {u1}
  Stays <- MCStays
  Turnarounds = {1}
  Cell <- MCCell
  HoldTicks = 1
  AppSkew = 0
  Ops = {"confirm", "cancel", "checkIn"}
  SweepLimit = 1
  MaxTime = 2
SYMMETRY MCSymmetry
INVARIANTS
  TypeOK
  NoDoubleBooking
  NoStayOverHostBlock
PROPERTIES
  OnlyOwnerReleases
  MapAgrees
  ImplementsCalendar
CHECK_DEADLOCK FALSE
