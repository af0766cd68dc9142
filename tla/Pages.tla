------------------------------- MODULE Pages -------------------------------
(***************************************************************************)
(* The web application (dapp/src): its pages, the panels that show what    *)
(* the servers answer, and the buttons that build a transaction.           *)
(*                                                                         *)
(* A panel asks when it is mounted, when the selected market changes or    *)
(* every second or two, and shows whatever answer arrives, whenever it     *)
(* does: nothing is cancelled and no answer is checked against what is     *)
(* selected now.  An answer is abstracted to the market it is for and the  *)
(* state of the world ("version") it was taken from.                       *)
(*                                                                         *)
(* A button builds its transaction at once, waits for refreshAccount, and  *)
(* then hands it to the wallet.  The side, the text fields and the slider  *)
(* behind one of them are read nowhere else, so a click takes any of what  *)
(* they can hold.                                                          *)
(***************************************************************************)
EXTENDS OrderForm, Sequences, SequencesExt

CONSTANTS
  Market,       \* the markets of config.contract.ts
  FirstMarket,  \* the first of them
  NoMarket,     \* what is asked or shown has no market
  Symbol,       \* tokens the faucet hands out
  Panel,        \* the panels considered, of AllPanels
  TypedOrder,   \* amounts and prices typed into the form, in 10^-Decimals
  PlacedOrder,  \* bound: those of them that are placed in a run
  MaxInFlight,  \* bound: unanswered requests
  MaxVersion    \* bound: changes of the world

AllPanels == {"orderbook", "openOrders", "trades", "balances", "chart",
              "ticker", "faucet", "prices"}

ASSUME PagesAssumption ==
  /\ FirstMarket \in Market
  /\ NoMarket \notin Market
  /\ Panel \subseteq AllPanels
  /\ PlacedOrder \subseteq TypedOrder
  /\ \A t \in TypedOrder : Encodable(t.amount, t.price)
  /\ MaxInFlight \in Nat
  /\ MaxVersion \in Nat

VARIABLES
  page,       \* the route that is rendered
  loggedIn,   \* useGetIsLoggedIn
  market,     \* the store's market
  version,    \* the state of the world: books, rows, balances, prices
  shown,      \* per panel: what its state holds
  inFlight,   \* per panel: its unanswered requests, oldest first
  disturbed,  \* per panel: a request failed, or its answer was overtaken,
              \* since the panel last asked with none unanswered
  building,   \* clicks whose transaction waits for refreshAccount
  toSign      \* the transaction the wallet asks the user to sign

vars == <<page, loggedIn, market, version, shown, inFlight, disturbed,
          building, toSign>>
panelVars == <<shown, inFlight, disturbed>>

----------------------------------------------------------------------------
(* The routes; /farm and unknown routes have no panel.                     *)
Routes == {"home", "exchange", "farm", "faucet"}

PageOf(p) == CASE p = "faucet" -> "faucet"
               [] p = "prices" -> "home"
               [] OTHER -> "exchange"

Mounted(p) == PageOf(p) = page

(* contractAddress.market: the contract and the tokens of a market; both   *)
(* markets trade for the same quote token.                                 *)
MarketCfg(m) == [exchangeAddress |-> m, baseESDT |-> m, quoteESDT |-> "USDT"]

(* What the functions that fill the panels ask for; the answer goes into   *)
(* the panel's state, after it was summed up or laid out.  The tables and  *)
(* the balances also ask for the account, which stays while a page is      *)
(* mounted.                                                                *)
Post(endpoint, m) == [panel |-> endpoint, market |-> m]

FetchOrderbook(m) == Post("orderbook", m)
FetchOrder(m) == Post("openOrders", m)
FetchTrade(m) == Post("trades", m)
FetchBalance(m) == [panel |-> "balances", market |-> m]
FetchKline(m) == [panel |-> "chart", market |-> m]
FetchTicker(m) == [panel |-> "ticker", market |-> m]
FetchFaucet == [panel |-> "faucet", market |-> NoMarket]
GetPrice == [panel |-> "prices", market |-> NoMarket]

(* Mutant: the effects on [market] run at the first render only.           *)
NoEffects(m) == {}

(* useEffect(..., [market]): when the market changes, and at the first     *)
(* render.                                                                 *)
MarketEffects(m) == {FetchBalance(m), FetchKline(m), FetchTicker(m)}

(* useEffect(..., []): at the first render.                                *)
MountEffects(m) == {FetchOrderbook(m), FetchOrder(m), FetchFaucet, GetPrice}

(* useInterval: one set per interval.                                      *)
Intervals(m) ==
  {{FetchOrderbook(m)}, {FetchOrder(m), FetchTrade(m)}, {FetchBalance(m)},
   {FetchFaucet}, {GetPrice}}
PolledPanels == {f.panel : f \in UNION Intervals(NoMarket)}

(* Mutant: the interval keeps the callback of the first render.            *)
FirstCallback == FirstMarket

(* useInterval runs the callback of the latest render, which has the       *)
(* market selected now.                                                    *)
SavedCallback == market

----------------------------------------------------------------------------
NoContent == [market |-> NoMarket, version |-> -1]

(* What the user sees: the rows of the last answer, under the name of the  *)
(* market that is selected now.                                            *)
RenderOrderbook == [label |-> market, rows |-> shown["orderbook"]]
RenderOpenOrders == [label |-> market, rows |-> shown["openOrders"]]
RenderTrades == [label |-> market, rows |-> shown["trades"]]
RenderBalances == [label |-> market, rows |-> shown["balances"]]
RenderChart == [label |-> market, rows |-> shown["chart"]]
RenderTicker == [label |-> market, rows |-> shown["ticker"]]
RenderFaucet == [label |-> NoMarket, rows |-> shown["faucet"]]
RenderPrices == [label |-> NoMarket, rows |-> shown["prices"]]

Rendered(p) ==
  CASE p = "orderbook" -> RenderOrderbook
    [] p = "openOrders" -> RenderOpenOrders
    [] p = "trades" -> RenderTrades
    [] p = "balances" -> RenderBalances
    [] p = "chart" -> RenderChart
    [] p = "ticker" -> RenderTicker
    [] p = "faucet" -> RenderFaucet
    [] p = "prices" -> RenderPrices

----------------------------------------------------------------------------
(* Transactions.  A click remembers the market and the text it was made    *)
(* with next to the transaction built from them.                           *)
NoClick == [kind |-> "none"]

Terms == [t \in PlacedOrder |-> [Buy |-> BuyTerms(t.amount, t.price),
                                Sell |-> SellTerms(t.amount, t.price)]]

OrderTx(m, side, t) ==
  [to |-> MarketCfg(m).exchangeAddress,
   token |-> IF side = "Buy" THEN MarketCfg(m).quoteESDT ELSE MarketCfg(m).baseESDT,
   terms |-> Terms[t][side]]

(* What the form can hold: a side, an amount, which the slider may set, and*)
(* a price, both of digits and at most one point.                          *)
FormInput == {"Buy", "Sell"} \X PlacedOrder

OrderClick(m, side, t) ==
  [kind |-> side, market |-> m, typed |-> t, tx |-> OrderTx(m, side, t)]

(* onMint: a fixed amount of each token, in whole tokens.                  *)
MintAmount(s) == CASE s = "BTC" -> 10
                   [] s = "USDT" -> 10000
                   [] s = "ETH" -> 100
ClaimClick(s) ==
  [kind |-> "Claim", market |-> NoMarket, typed |-> s,
   tx |-> [to |-> "faucet", token |-> s, terms |-> MintAmount(s)]]

----------------------------------------------------------------------------
Init ==
  /\ page = "unlock"
  /\ loggedIn = FALSE
  /\ market = FirstMarket
  /\ version = 0
  /\ shown = [p \in Panel |-> NoContent]
  /\ inFlight = [p \in Panel |-> <<>>]
  /\ disturbed = [p \in Panel |-> FALSE]
  /\ building = <<>>
  /\ toSign = NoClick

----------------------------------------------------------------------------
(* The bound: requests of the panels without answer, and clicks that await *)
(* refreshAccount.                                                         *)
UnderWay(f) == Len(building) + MapThenSumSet(LAMBDA p : Len(f[p]), Panel)

(* The panels of the page q among fs ask, on top of the requests in        *)
(* "before".                                                               *)
Ask(fs, q, before) ==
  LET Asks(p) == \E f \in fs : f.panel = p /\ PageOf(p) = q
      MarketOf(p) == (CHOOSE f \in fs : f.panel = p).market
  IN /\ inFlight' = [p \in Panel |->
           IF Asks(p) THEN Append(before[p], [market |-> MarketOf(p),
                                              version |-> version])
                      ELSE before[p]]
     /\ disturbed' = [p \in Panel |->
           disturbed[p] /\ Mounted(p)' /\ (Asks(p) => before[p] # <<>>)]
     /\ UnderWay(inFlight') <= MaxInFlight

(* The page q is mounted anew: what the former one had asked is shown by   *)
(* nobody.                                                                 *)
Mount(q, m) ==
  /\ page' = q
  /\ shown' = [p \in Panel |-> NoContent]
  /\ Ask(MountEffects(m) \cup MarketEffects(m), q, [p \in Panel |-> <<>>])

----------------------------------------------------------------------------
(* The login page sends home who is logged in; no route asks for a login.  *)
Reachable(q) == q \in Routes \/ (q = "unlock" /\ ~loggedIn)

(* Another route is rendered: the store and what is awaited elsewhere stay.*)
Visit(q) ==
  /\ q # page
  /\ Reachable(q)
  /\ Mount(q, market)
  /\ UNCHANGED <<loggedIn, market, version, building, toSign>>

(* The links of the header, of the home page's own one, and the browser's  *)
(* history from the login page, which has no links.                        *)
HeaderLink(q) == page \in {"exchange", "farm", "faucet"} /\ Visit(q)
HomeHeaderLink(q) == page = "home" /\ Visit(q)
Back(q) == page = "unlock" /\ Visit(q)

(* A full load starts the program again: the store's market is the first   *)
(* one, and what awaits refreshAccount is gone.  What the wallet asks for  *)
(* may outlive it (the wallet's side of it is not in this repository).     *)
Load(q) ==
  /\ market' = FirstMarket
  /\ building' = <<>>
  /\ toSign' \in {toSign, NoClick}
  /\ Mount(q, FirstMarket)

Reload ==
  /\ Load(page)
  /\ UNCHANGED <<loggedIn, version>>

(* Some wallets come back with a full load, others without.                *)
Login ==
  /\ page = "unlock"
  /\ ~loggedIn
  /\ loggedIn' = TRUE
  /\ \/ Load("home")
     \/ Mount("home", market) /\ UNCHANGED <<market, building, toSign>>
  /\ UNCHANGED version

(* Header.handleLogout: the session is cleared and /unlock loaded.         *)
Logout ==
  /\ loggedIn
  /\ page # "unlock"
  /\ loggedIn' = FALSE
  /\ Load("unlock")
  /\ UNCHANGED version

(* MarketSelect: the panels on [market] ask for the new one.  What they    *)
(* show stays until the answer arrives.                                    *)
SelectMarket(m) ==
  /\ page = "exchange"
  /\ m # market
  /\ market' = m
  /\ UNCHANGED page
  /\ Ask(MarketEffects(m), page, inFlight)
  /\ UNCHANGED <<loggedIn, version, shown, building, toSign>>

(* An interval fires.                                                      *)
Tick(interval) ==
  /\ \E f \in interval : f.panel \in Panel /\ Mounted(f.panel)
  /\ UNCHANGED page
  /\ Ask(interval, page, inFlight)
  /\ UNCHANGED <<loggedIn, market, version, shown, building, toSign>>

(* The answer to the i-th request is shown, whatever was shown before and  *)
(* whatever is selected now.  It was taken from the world at some time     *)
(* between the request and now.                                            *)
Arrive(p, i) ==
  /\ \E v \in inFlight[p][i].version..version :
        shown' = [shown EXCEPT ![p] = [market |-> inFlight[p][i].market,
                                       version |-> v]]
  /\ inFlight' = [inFlight EXCEPT ![p] = RemoveAt(@, i)]
  /\ disturbed' = [disturbed EXCEPT ![p] = @ \/ i > 1]
  /\ UNCHANGED <<page, loggedIn, market, version, building, toSign>>

(* An error is logged, and the panel shows what it showed.                 *)
Fail(p, i) ==
  /\ inFlight' = [inFlight EXCEPT ![p] = RemoveAt(@, i)]
  /\ disturbed' = [disturbed EXCEPT ![p] = TRUE]
  /\ UNCHANGED <<page, loggedIn, market, version, shown, building, toSign>>

(* Someone trades, prices move.                                            *)
Advance ==
  /\ version < MaxVersion
  /\ version' = version + 1
  /\ UNCHANGED <<page, loggedIn, market, panelVars, building, toSign>>

----------------------------------------------------------------------------
(* clearAllTransactions, then the transaction is built from what is        *)
(* selected now, then refreshAccount is awaited.                           *)
Click(click) ==
  /\ UnderWay(inFlight) < MaxInFlight
  /\ building' = Append(building, click)
  /\ toSign' = NoClick
  /\ UNCHANGED <<page, loggedIn, market, version, panelVars>>

(* TradeForm.placeOrder.                                                   *)
PlaceOrder(input) ==
  /\ page = "exchange"
  /\ Click(OrderClick(market, input[1], input[2]))

(* Faucet.onMint.                                                          *)
Claim(s) ==
  /\ page = "faucet"
  /\ Click(ClaimClick(s))

(* Mutant: the transaction is built after refreshAccount.                  *)
SentRebuilt(click) ==
  IF click.kind \in {"Buy", "Sell"}
  THEN [click EXCEPT !.tx = OrderTx(market, click.kind, click.typed)]
  ELSE click

(* What sendTransactions is called with: the transaction built at the      *)
(* click.                                                                  *)
Sent(click) == click

(* refreshAccount has answered: the wallet asks the user to sign, in place *)
(* of what it may have asked before.  Whoever is not logged in has no      *)
(* account to refresh.                                                     *)
HandOver(i) ==
  /\ loggedIn
  /\ toSign' = Sent(building[i])
  /\ building' = RemoveAt(building, i)
  /\ UNCHANGED <<page, loggedIn, market, version, panelVars>>

(* refreshAccount throws: the click is lost without a word.                *)
RefreshFails(i) ==
  /\ building' = RemoveAt(building, i)
  /\ UNCHANGED <<page, loggedIn, market, version, panelVars, toSign>>

(* The user signs or cancels.                                              *)
Answer ==
  /\ toSign # NoClick
  /\ toSign' = NoClick
  /\ UNCHANGED <<page, loggedIn, market, version, panelVars, building>>

----------------------------------------------------------------------------
Next ==
  \/ \E q \in Routes \cup {"unlock"} : HeaderLink(q)
  \/ \E q \in Routes \cup {"unlock"} : HomeHeaderLink(q)
  \/ \E q \in Routes \cup {"unlock"} : Back(q)
  \/ Reload
  \/ Login
  \/ Logout
  \/ \E m \in Market : SelectMarket(m)
  \/ \E interval \in Intervals(SavedCallback) : Tick(interval)
  \/ \E p \in Panel : \E i \in DOMAIN inFlight[p] : Arrive(p, i)
  \/ \E p \in Panel : \E i \in DOMAIN inFlight[p] : Fail(p, i)
  \/ Advance
  \/ \E input \in FormInput : PlaceOrder(input)
  \/ \E s \in Symbol : Claim(s)
  \/ \E i \in DOMAIN building : HandOver(i)
  \/ \E i \in DOMAIN building : RefreshFails(i)
  \/ Answer

Spec == Init /\ [][Next]_vars

(* An interval fires again and again (strongly fair: the bound may hold it *)
(* up), and a panel that keeps asking is answered again and again: single  *)
(* requests may fail, or never be answered, not all of them for ever.      *)
(* refreshAccount answers or fails (it has a timeout).                     *)
Poll(p) ==
  \E interval \in Intervals(SavedCallback) :
    /\ \E f \in interval : f.panel = p
    /\ Tick(interval)
Fairness ==
  /\ \A p \in Panel \cap PolledPanels : SF_vars(Poll(p))
  /\ \A p \in Panel : SF_vars(\E i \in DOMAIN inFlight[p] : Arrive(p, i))
  /\ WF_vars(\E i \in DOMAIN building : HandOver(i) \/ RefreshFails(i))

FairSpec == Spec /\ Fairness

----------------------------------------------------------------------------
(***************************************************************************)
(* Properties                                                              *)
(***************************************************************************)

(* The panel shows the present state under its own name.                   *)
Fresh(p) == Mounted(p) => Rendered(p).rows = [market |-> Rendered(p).label,
                                              version |-> version]

(* A polled panel may show another market's rows, or older ones than it    *)
(* showed before, since any answer overwrites what is shown; but once      *)
(* nothing changes, it shows for good the present state of the market it   *)
(* names, whatever was overtaken or failed on the way.                     *)
PolledSettle ==
  \A p \in Panel \cap PolledPanels :
    <>[][UNCHANGED <<page, market, version>> /\ ~Reload]_vars => <>[]Fresh(p)

(* A panel that asks only when the market changes shows the market that is *)
(* selected as soon as nothing is awaited, unless a request failed or an   *)
(* answer was overtaken: nothing would ask again.                          *)
OneShotSettle ==
  \A p \in Panel \ PolledPanels :
    Mounted(p) /\ inFlight[p] = <<>> /\ ~disturbed[p]
      => Rendered(p).rows.market = Rendered(p).label

(* What the wallet asks the user to sign goes to the contract of the market*)
(* that was selected at the click, with the token that pays for it there,  *)
(* whatever was selected or visited while refreshAccount was awaited; a    *)
(* claim is for the token of its row.                                      *)
AsClicked(click) ==
  LET cfg == MarketCfg(click.market)
  IN CASE click.kind = "none" -> TRUE
       [] click.kind = "Buy" -> /\ click.tx.to = cfg.exchangeAddress
                                /\ click.tx.token = cfg.quoteESDT
       [] click.kind = "Sell" -> /\ click.tx.to = cfg.exchangeAddress
                                 /\ click.tx.token = cfg.baseESDT
       [] click.kind = "Claim" -> /\ click.tx.to = "faucet"
                                  /\ click.tx.token = click.typed

SignsWhatWasClicked == AsClicked(toSign)

(* Whatever is typed into the form of the exchange page, the price of the  *)
(* order's terms, quote tokens over base tokens, is the typed price but for*)
(* the rounding of three numbers and of the deposit, on either side.       *)
PriceKept(quoted, base, price) ==
  LET exact == price * base
      off == IF quoted * Unit > exact THEN quoted * Unit - exact
                                      ELSE exact - quoted * Unit
  IN off * 2^Bits <= 3 * exact + Unit * 2^Bits

PricesKept ==
  \A t \in TypedOrder :
    LET buy == BuyTerms(t.amount, t.price)
        sell == SellTerms(t.amount, t.price)
    IN /\ PriceKept(buy.input, buy.output, t.price)
       /\ PriceKept(sell.output, sell.input, t.price)

TypedPriceKept == page = "exchange" => PricesKept
=============================================================================
