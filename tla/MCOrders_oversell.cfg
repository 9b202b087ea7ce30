SPECIFICATION Spec
CONSTANTS
  s1 = s1
  s2 = s2
  tee = tee
  CartOrders = {c1, c2}
  LinkOrders = {l1}
  Skus = {s1}
  Products = {tee}
  ProductOf <- OneProduct
  MaxQty = 1
  InitialStock = {1}
  MaxStock = 1
  Promos = {}
  NoPromo = NoPromo
  UsageLimits = {1}
  LowStockThreshold = 0
SYMMETRY CartSymmetry
CHECK_DEADLOCK FALSE
INVARIANTS
  NoOverselling
