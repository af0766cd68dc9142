\* The pipeline with cancellations, failures and a crash.
CONSTANTS
  MaxOrders = 3
  MaxMakers = 2
  MarketCap = 1
  LauncherCap = 1
  MaxCancels = 1
  MaxFailures = 1
  MaxLosses = 1
  MaxCrashes = 1
CHECK_DEADLOCK FALSE
SPECIFICATION FairSpec
INVARIANTS
  TypeOK
  ArrivalOrder
  MatchOnce
  ConfirmationsBacked
  ShownOrdersOpen
PROPERTIES
  CreditsItsMatch
  OrdersArrive
  MatchesSettle
