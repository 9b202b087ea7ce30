SPECIFICATION UnevenSpec
CONSTANTS
  s1 = s1
  s2 = s2
  Skus = {s1, s2}
  MaxQty = 2
  InitialStock = {1, 2}
  MaxStock = 2
  Promos = {promo}
  NoPromo = NoPromo
  UsageLimits = {1}
  Calls = {c1, c2}
  Prices = {1, 3}
  Terms <- SmallTerms
  MaxAdded = 2
SYMMETRY CallSymmetry
CHECK_DEADLOCK FALSE
INVARIANTS
  NoUnitOrderedTwice
  OrderAddsUp
PROPERTIES
  OrdersStandingRows
