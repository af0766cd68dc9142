\* Orders typed at one price.
CONSTANTS
  User = {u1}
  NoUser = NoUser
  FirstToken = first
  SecondToken = second
  Amount <- MCAmount
  MaxOrders = 2
  Scale = 100
  Bits = 5
  Grain = 12
  Decimals = 2
  Digits = 3
  TypedAmount <- MCTypedAmount
  TypedPrice <- MCTypedPrice
CHECK_DEADLOCK FALSE
SPECIFICATION TradingSpec
INVARIANT SamePriceMatches
