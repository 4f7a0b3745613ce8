SPECIFICATION Spec
CONSTANTS
  l1 = l1
  c1 = c1
  c2 = c2
  Listing = {l1}
  Caller = {c1, c2}
SYMMETRY MCSymmetry
INVARIANTS TypeOK OnlyClearedIndexed ApprovedHasPapers
PROPERTIES PromotionKeepsSteady
CHECK_DEADLOCK FALSE
