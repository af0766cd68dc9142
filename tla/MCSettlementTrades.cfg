\* Trades recorded for a failed transaction.
CONSTANTS
  MaxOrders = 4
  MaxMakers = 1
  MarketCap = 1
  LauncherCap = 1
  MaxCancels = 0
  MaxFailures = 1
  MaxLosses = 0
  MaxCrashes = 0
CHECK_DEADLOCK FALSE
SPECIFICATION Spec
INVARIANT TradesExecuted
