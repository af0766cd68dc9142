\* Polling, navigation and the wallet.
CONSTANTS
  Market = {"BTC", "ETH"}
  FirstMarket = "BTC"
  NoMarket = "none"
  Symbol = {"USDT"}
  Panel <- MCPanel
  TypedOrder <- MCTypedOrder
  PlacedOrder <- MCPlacedOrder
  MaxInFlight = 2
  MaxVersion = 1
  Bits = 5
  Grain = 12
  Decimals = 2
  Digits = 3
SPECIFICATION FairSpec
INVARIANTS
  OneShotSettle
  SignsWhatWasClicked
  TypedPriceKept
PROPERTIES
  PolledSettle
