\* The book: three ids, two price levels and two quantities.
CONSTANTS
  OrderID = {o1, o2, o3}
  nil = nil
  Price <- MCPrice
  Quantity <- MCQuantity
  MaxArrivals = 3
SPECIFICATION FairSpec
INVARIANTS
  TypeOK
  IndexConsistent
  CountersExact
  LevelVolumeExact
  NotCrossed
  QueueInTimeOrder
  QuantityConserved
  TotalsExact
  WithinTakerLimit
PROPERTIES
  QuoteHolds
  PriceTimePriority
  CallReturns
