\* Liveness: no symmetry; the application clock is one tick ahead, so jobs fire early.
SPECIFICATION FairSpec
CONSTANTS
  b1 = b1
  b2 = b2
  k1 = k1
  c1 = c1
  c2 = c2
  c3 = c3
  u1 = u1
  sweep = sweep
  NoOne = NoOne
  SweepJob = sweep
  Booking = {b1}
  HostBlock = {k1}
  Caller = {c1, c2}
  Unit = {u1}
  Stays <- MCStays
  Turnarounds = {1}
  Cell <- MCCell
  HoldTicks = 1
  AppSkew = 1
  Ops = {"confirm", "checkIn"}
  SweepLimit = 1
  MaxTime = 3
PROPERTIES
  LapsedHoldReleased
  EverybodyAnswered
CHECK_DEADLOCK FALSE
