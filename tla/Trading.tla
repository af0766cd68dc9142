------------------------------ MODULE Trading ------------------------------
(***************************************************************************)
(* Users who trade through the order form only: the orders of Exchange are *)
(* the ones OrderForm makes of typed amounts and prices, and the module    *)
(* remembers the price each order was typed with.                          *)
(***************************************************************************)
EXTENDS Exchange, OrderForm

CONSTANTS
  TypedAmount,  \* amounts typed into the form, in 10^-Decimals
  TypedPrice    \* prices typed into the form, in 10^-Decimals

VARIABLE typedPrice  \* by order id, the price the order was typed with

tradingVars == <<vars, typedPrice>>

TradingInit == Init /\ typedPrice = <<>>

(* TradeForm.placeOrder, by side; the contract counts ids from zero.       *)
PlaceTyped(u, type, amount, price) ==
  LET terms == IF type = "Buy" THEN BuyTerms(amount, price)
                               ELSE SellTerms(amount, price)
  IN /\ Encodable(amount, price)
     /\ Place(u, type, terms.input, terms.output)
     /\ typedPrice' = Append(typedPrice, price)

TradingNext ==
  \/ \E u \in User, type \in {"Buy", "Sell"},
        amount \in TypedAmount, price \in TypedPrice :
          PlaceTyped(u, type, amount, price)
  \/ /\ Arrive \/ BookStep \/ Submit \/ Execute \/ FillNext \/ Commit \/ Fail
     /\ UNCHANGED typedPrice

TradingSpec == TradingInit /\ [][TradingNext]_tradingVars

----------------------------------------------------------------------------
(* "finding order pairs that match in price and quantity, and executing    *)
(* trades" (README.md:33): once every order has arrived, the book does not *)
(* keep a buy order and a sell order of which the buyer typed at least the *)
(* seller's price.  The form rounds the two sides at different places, so  *)
(* that orders of one price may not cross: see the README.                 *)
SamePriceMatches ==
  Settled /\ arriving = <<>> =>
    \A b, s \in DOMAIN bookOrders :
      orders[b].type = "Buy" /\ orders[s].type = "Sell"
        => typedPrice[b + 1] < typedPrice[s + 1]
=============================================================================
