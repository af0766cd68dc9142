\* All endpoints, over amounts that do not divide each other.
CONSTANTS
  User = {u1, u2}
  NoUser = NoUser
  Token = {first, second}
  FirstToken = first
  SecondToken = second
  Amount <- MCAmount
  MaxOrders = 2
  MaxEpoch = 3
  MaxMakers = 2
  MAX_ORDERS_PER_USER = 2
  PERCENT_BASE_POINTS = 2
  FEE_PENALTY_INCREASE_EPOCHS = 1
  FEE_PENALTY_INCREASE_PERCENT = 1
  FREE_ORDER_FROM_STORAGE_MIN_PENALTIES = 2
SYMMETRY Symmetry
SPECIFICATION Spec
INVARIANTS
  TypeOK
  IndexOwned
PROPERTIES
  TermsKept
  RoundingKeepsPrice
  ExitJustified
  OrphansStay
  LateOrdersStay
  FillsFunded
