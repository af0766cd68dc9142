\* Cancelled orders in the book.
CONSTANTS
  MaxOrders = 2
  MaxMakers = 1
  MarketCap = 1
  LauncherCap = 1
  MaxCancels = 1
  MaxFailures = 0
  MaxLosses = 0
  MaxCrashes = 0
CHECK_DEADLOCK FALSE
SPECIFICATION FairSpec
PROPERTY CancelledLeaveBook
