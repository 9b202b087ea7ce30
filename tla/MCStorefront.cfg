SPECIFICATION MCSpec
CONSTANTS
  c1 = c1
  c2 = c2
  c3 = c3
  boss = boss
  ann = ann
  bob = bob
  Calls = {c1, c2, c3}
  Users = {boss, ann, bob}
  RoleOf <- Staff
  Categories = {1, 2, 3}
  Products = {1, 2, 3}
  Skus = {1, 2, 3}
  CategoryNames = {1, 2, 3}
  Codes = {1, 2}
  Variants = {1, 2}
  Prices = {1, 2}
  MaxInt = 2
  PageSize = 1
  Queries <- FewQueries
  Items = {1, 2, 3}
  Promos = {1, 2, 3}
  Letters = {1, 2}
  Terms <- TwoTerms
  Limits = {1}
  Images = {1, 2, 3, 4}
  MaxPosition = 2
  Links = {1, 2, 3}
SYMMETRY MCSymmetry
CHECK_DEADLOCK FALSE
INVARIANTS
  StoreTypeOK
  UnexpectedErrorsAreExcused
  ShoppersNeverMeetAnError
  PageShowsWhatWasVisible
  TotalIsReachable
  ImagesMatchObjects
  LinksMatchStripe
PROPERTIES
  CodesIgnoreCase
  LaterImageComesLater
