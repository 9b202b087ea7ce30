SPECIFICATION FairSpec
CONSTANTS
  Products = {tee}
  Product = tee
  Sku = small
  ProductOf <- TheProduct
  LowStockThreshold = 0
  Users = {ann, ben}
  MaxUnits = 2
  MaxEvents = 1
  Attempts = 3
  MaxStalledCount = 1
CHECK_DEADLOCK FALSE
INVARIANTS
  RowTellsOutcome
PROPERTIES
  QueuedIsSettled
