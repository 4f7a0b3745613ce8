SPECIFICATION Spec
CONSTANTS
  d1 = d1
  d2 = d2
  h1 = h1
  h2 = h2
  h3 = h3
  s1 = s1
  s2 = s2
  NoDeal = NoDeal
  Nobody = Nobody
  Absent = Absent
  Deal = {d1, d2}
  Hold = {h1, h2}
  Stay = {s1, s2}
  Applicable <- MCApplicable
  Offers <- MCOffers
  Bases <- MCBases
  Percents <- MCPercents
  Quantity = 2
  MaxTime = 2
  MaxWindow = 2
  AppSkew = 0
SYMMETRY MCSymmetry
INVARIANTS TypeOK ClaimsAreBookings StockNeverOversold OneOfferPerUnit StripNeverUnderstates MoneyAddsUp
PROPERTIES ImplementsSale
CHECK_DEADLOCK FALSE
