SPECIFICATION SweepSpec
CONSTANTS
  s1 = s1
  s2 = s2
  tee = tee
  mug = mug
  CartOrders = {c1}
  LinkOrders = {l1}
  Skus = {s1}
  Products = {tee, mug}
  ProductOf <- OneEach
  MaxQty = 1
  InitialStock = {2}
  MaxStock = 2
  Promos = {promo}
  NoPromo = NoPromo
  UsageLimits = {1}
  LowStockThreshold = 0
  Instances = {i1, i2}
CHECK_DEADLOCK FALSE
PROPERTIES
  BehavesLikeOrders
  HealthySweepReleases
