SPECIFICATION Spec
CONSTANTS
  here = here
  near = near
  far = far
  wide = wide
  q1 = q1
  q2 = q2
  h1 = h1
  h2 = h2
  t1 = t1
  t2 = t2
  r1 = r1
  r2 = r2
  p1 = p1
  p2 = p2
  p3 = p3
  u1 = u1
  u2 = u2
  e1 = e1
  e2 = e2
  b1 = b1
  y1 = y1
  guest = guest
  host = host
  admin = admin
  d1 = d1
  d2 = d2
  View = {here, near, far, wide}
  Home = here
  Wide = {wide}
  Margin <- MCMargin
  Query = {q1, q2}
  NoView = NoView
  MaxSearches = 4
  Hold = {h1, h2}
  Tap = {t1, t2}
  NoHold = NoHold
  Request = {r1, r2}
  RouteLimit = 2
  MaxSends = 2
  MaxAttempts = 2
  MaxCodes = 2
  Photo = {p1, p2, p3}
  Unit = {u1, u2}
  UnitOf <- MCUnitOf
  Editor = {e1, e2}
  NoPhoto = NoPhoto
  MaxPhotos = 1
  Booking = {b1}
  Payout = {y1}
  GuestOf <- MCGuestOf
  HostOf <- MCHostOf
  User = {guest, host, admin}
  Admin = {admin}
  Desk = {d1, d2}
  NoRow = NoRow
  MaxEntries = 1
SYMMETRY MCSymmetry
INVARIANTS TypeOK SpinnerEnds SiteShowsItsView ConfirmedIsBooked WindowsOpenAgain RedirectsSettle AdmittedIsNotRefused FilesMatchList 
PROPERTIES AnswersInOrder
CHECK_DEADLOCK FALSE
