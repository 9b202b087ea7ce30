SPECIFICATION DeskSpec
CONSTANTS
  s1 = s1
  s2 = s2
  tee = tee
  ann = ann
  bob = bob
  boss = boss
  dan = dan
  eve = eve
  Users = {ann, bob, boss, dan, eve}
  RoleOf <- Staff
  System = System
  CartOrders = {c1}
  LinkOrders = {l1}
  Skus = {s1}
  Products = {tee}
  ProductOf <- OneProduct
  MaxQty = 2
  InitialStock = {2}
  MaxStock = 3
  Promos = {}
  NoPromo = NoPromo
  UsageLimits = {1}
  LowStockThreshold = 1
SYMMETRY DeskSymmetry
CHECK_DEADLOCK FALSE
INVARIANTS
  ReservationLedger
  StockLedger
  HandsOnOrder
  ForeignOrdersLookMissing
  SomeoneCanAct
PROPERTIES
  PaidOrdersAreFrozen
  KeepsLifecycle
  SightIsLostToADeliverer
