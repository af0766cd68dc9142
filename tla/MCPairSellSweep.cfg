\* A selling taker that takes a buyer whole.
CONSTANTS
  User = {u1}
  NoUser = NoUser
  Token = {first, second}
  FirstToken = first
  SecondToken = second
  Amount <- MCFills
  MaxOrders = 2
  MaxEpoch = 0
  MaxMakers = 2
  MAX_ORDERS_PER_USER = 2
  PERCENT_BASE_POINTS = 2
  FEE_PENALTY_INCREASE_EPOCHS = 1
  FEE_PENALTY_INCREASE_PERCENT = 1
  FREE_ORDER_FROM_STORAGE_MIN_PENALTIES = 2
SPECIFICATION Spec
PROPERTY SellSweepFunded
