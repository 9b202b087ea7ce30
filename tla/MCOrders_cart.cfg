SPECIFICATION Spec
CONSTANTS
  s1 = s1
  s2 = s2
  tee = tee
  CartOrders = {c1, c2}
  LinkOrders = {}
  Skus = {s1, s2}
  Products = {tee}
  ProductOf <- OneProduct
  MaxQty = 2
  InitialStock = {1}
  MaxStock = 2
  Promos = {promo}
  NoPromo = NoPromo
  UsageLimits = {1, 2}
  LowStockThreshold = 0
SYMMETRY CartSymmetry
CHECK_DEADLOCK FALSE
INVARIANTS
  TypeOK
  NoOverselling
  OpenEventIsTrue
  PromoLedger
PROPERTIES
  ImplementsIdealStore
