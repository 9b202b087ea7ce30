SPECIFICATION Spec
CONSTANTS
  s1 = s1
  s2 = s2
  tee = tee
  CartOrders = {c1, c2}
  LinkOrders = {}
  Skus = {s1}
  Products = {tee}
  ProductOf <- OneProduct
  MaxQty = 1
  InitialStock = {2}
  MaxStock = 2
  Promos = {}
  NoPromo = NoPromo
  UsageLimits = {1}
  LowStockThreshold = 1
SYMMETRY CartSymmetry
CHECK_DEADLOCK FALSE
INVARIANTS
  NoStuckPayment
