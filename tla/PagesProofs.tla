---------------------------- MODULE PagesProofs ----------------------------
(***************************************************************************)
(* Theorems about Pages, for all markets, panels, typed orders and bounds. *)
(*                                                                         *)
(* A click carries its transaction from the press of the button to the     *)
(* wallet.  The inductive invariant says that everything on the way was    *)
(* built by one of the buttons, for some market: whatever market is        *)
(* selected, page visited or program loaded in between does not touch it.  *)
(*                                                                         *)
(* A panel that does not poll shows, or has asked for last, the market that*)
(* is selected: the end of its queue of requests matters, and an answer    *)
(* that arrives in order leaves the end, or is the end.                    *)
(***************************************************************************)
EXTENDS Pages, SequenceTheorems, TLAPS

Clicked ==
  {OrderClick(m, input[1], input[2]) : m \in Market, input \in FormInput}
    \cup {ClaimClick(s) : s \in Symbol}

OnTheWay ==
  /\ market \in Market
  /\ building \in Seq(Clicked)
  /\ toSign \in Clicked \cup {NoClick}

(* What the buttons build is as clicked.                                   *)
LEMMA ClickedAsClicked ==
  ASSUME NEW click \in Clicked \cup {NoClick}
  PROVE  AsClicked(click)
<1>1. CASE click = NoClick
  BY <1>1 DEF AsClicked, NoClick
<1>2. ASSUME NEW m \in Market, NEW input \in FormInput,
             click = OrderClick(m, input[1], input[2])
      PROVE  AsClicked(click)
  <2>1. input[1] \in {"Buy", "Sell"}
    BY DEF FormInput
  <2>2. CASE input[1] = "Buy"
    BY <1>2, <2>2 DEF AsClicked, OrderClick, OrderTx
  <2>3. CASE input[1] = "Sell"
    BY <1>2, <2>3 DEF AsClicked, OrderClick, OrderTx
  <2>4. QED
    BY <2>1, <2>2, <2>3
<1>3. ASSUME NEW s \in Symbol, click = ClaimClick(s)
      PROVE  AsClicked(click)
  BY <1>3 DEF AsClicked, ClaimClick
<1>4. QED
  BY <1>1, <1>2, <1>3 DEF Clicked

(* A click taken out of those on the way leaves clicks.                    *)
LEMMA RemoveAtKeeps ==
  ASSUME NEW S, NEW s \in Seq(S), NEW i \in DOMAIN s
  PROVE  RemoveAt(s, i) \in Seq(S)
<1>1. Len(s) \in Nat /\ i \in 1..Len(s)
  BY LenProperties
<1>2. SubSeq(s, 1, i - 1) \in Seq(S)
  <2>1. \A k \in 1..(i - 1) : s[k] \in S
    BY <1>1, ElementOfSeq
  <2>2. QED
    BY <1>1, <2>1, SubSeqProperties
<1>3. SubSeq(s, i + 1, Len(s)) \in Seq(S)
  <2>1. \A k \in (i + 1)..Len(s) : s[k] \in S
    BY <1>1, ElementOfSeq
  <2>2. QED
    BY <1>1, <2>1, SubSeqProperties
<1>4. QED
  BY <1>2, <1>3, ConcatProperties DEF RemoveAt

----------------------------------------------------------------------------
LEMMA InitOnTheWay == Init => OnTheWay
  BY PagesAssumption, EmptySeq DEF Init, OnTheWay

(* A full load drops what waits, or keeps it as it is.                     *)
LEMMA LoadOnTheWay ==
  ASSUME OnTheWay, NEW q, Load(q)
  PROVE  OnTheWay'
<1>1. market' = FirstMarket /\ building' = <<>> /\ toSign' \in {toSign, NoClick}
  BY DEF Load
<1>2. QED
  BY <1>1, PagesAssumption, EmptySeq DEF OnTheWay

(* Every step keeps what is on the way.                                    *)
LEMMA NextOnTheWay ==
  ASSUME OnTheWay, [Next]_vars
  PROVE  OnTheWay'
<1>1. CASE UNCHANGED <<market, building, toSign>>
  BY <1>1 DEF OnTheWay
<1>2. ASSUME NEW m \in Market, SelectMarket(m)
      PROVE  OnTheWay'
  BY <1>2 DEF OnTheWay, SelectMarket
<1>3. CASE Reload
  BY <1>3, LoadOnTheWay DEF Reload
<1>4. CASE Login
  <2>1. CASE Load("home")
    BY <2>1, LoadOnTheWay
  <2>2. CASE UNCHANGED <<market, building, toSign>>
    BY <2>2, <1>1
  <2>3. QED
    BY <1>4, <2>1, <2>2 DEF Login
<1>5. CASE Logout
  BY <1>5, LoadOnTheWay DEF Logout
<1>6. ASSUME NEW click \in Clicked, Click(click)
      PROVE  OnTheWay'
  BY <1>6, AppendProperties DEF OnTheWay, Click
<1>7. ASSUME NEW input \in FormInput, PlaceOrder(input)
      PROVE  OnTheWay'
  <2>1. OrderClick(market, input[1], input[2]) \in Clicked
    BY DEF OnTheWay, Clicked
  <2>2. QED
    BY <1>6, <1>7, <2>1 DEF PlaceOrder
<1>8. ASSUME NEW s \in Symbol, Claim(s)
      PROVE  OnTheWay'
  <2>1. ClaimClick(s) \in Clicked
    BY DEF Clicked
  <2>2. QED
    BY <1>6, <1>8, <2>1 DEF Claim
<1>9. ASSUME NEW i \in DOMAIN building, HandOver(i)
      PROVE  OnTheWay'
  <2>1. building[i] \in Clicked
    BY ElementOfSeq, LenProperties DEF OnTheWay
  <2>2. building' \in Seq(Clicked)
    BY <1>9, RemoveAtKeeps DEF HandOver, OnTheWay
  <2>3. QED
    BY <1>9, <2>1, <2>2 DEF HandOver, Sent, OnTheWay
<1>10. ASSUME NEW i \in DOMAIN building, RefreshFails(i)
       PROVE  OnTheWay'
  BY <1>10, RemoveAtKeeps DEF RefreshFails, OnTheWay
<1>11. CASE Answer
  BY <1>11 DEF Answer, OnTheWay
<1>12. QED
  BY <1>1, <1>2, <1>3, <1>4, <1>5, <1>7, <1>8, <1>9, <1>10, <1>11
     DEF Next, vars, panelVars, HeaderLink, HomeHeaderLink, Back, Visit, Tick,
         Arrive, Fail, Advance

(* Everything between the button and the wallet was built by a button, for *)
(* one of the markets, whatever happens on the way.                        *)
THEOREM ClicksStay == Spec => []OnTheWay
<1>1. Init => OnTheWay
  BY InitOnTheWay
<1>2. OnTheWay /\ [Next]_vars => OnTheWay'
  BY NextOnTheWay
<1>3. QED
  BY <1>1, <1>2, PTL DEF Spec

(* What the wallet asks the user to sign is what was clicked: the contract *)
(* and the token of the market selected then.                              *)
THEOREM SignsClicked == Spec => []SignsWhatWasClicked
<1>1. OnTheWay => SignsWhatWasClicked
  BY ClickedAsClicked DEF OnTheWay, SignsWhatWasClicked
<1>2. QED
  BY <1>1, ClicksStay, PTL

----------------------------------------------------------------------------
(* Panels.                                                                 *)

Request == [market : Market \cup {NoMarket}, version : Nat]
Content == [market : Market \cup {NoMarket}, version : Int]
PanelsOK ==
  /\ market \in Market /\ version \in Nat
  /\ shown \in [Panel -> Content]
  /\ inFlight \in [Panel -> Seq(Request)]
  /\ disturbed \in [Panel -> BOOLEAN]

(* What a panel that was not disturbed shows, or has asked for last, is the*)
(* selected market.                                                        *)
LastAsked(p) ==
  Mounted(p) /\ ~disturbed[p] =>
    IF inFlight[p] = <<>> THEN shown[p].market = market
    ELSE Last(inFlight[p]).market = market

(* The panels that do not poll.                                            *)
LEMMA OneShots ==
  /\ Panel \ PolledPanels \subseteq {"chart", "ticker"}
  /\ \A p \in {"chart", "ticker"} : PageOf(p) = "exchange"
<1>1. {"orderbook", "openOrders", "trades", "balances", "faucet", "prices"} \subseteq PolledPanels
  <2>1. /\ FetchOrderbook(NoMarket) \in UNION Intervals(NoMarket)
        /\ FetchOrder(NoMarket) \in UNION Intervals(NoMarket)
        /\ FetchTrade(NoMarket) \in UNION Intervals(NoMarket)
        /\ FetchBalance(NoMarket) \in UNION Intervals(NoMarket)
        /\ FetchFaucet \in UNION Intervals(NoMarket)
        /\ GetPrice \in UNION Intervals(NoMarket)
    BY DEF Intervals
  <2>2. /\ FetchOrderbook(NoMarket).panel = "orderbook"
        /\ FetchOrder(NoMarket).panel = "openOrders"
        /\ FetchTrade(NoMarket).panel = "trades"
        /\ FetchBalance(NoMarket).panel = "balances"
        /\ FetchFaucet.panel = "faucet"
        /\ GetPrice.panel = "prices"
    BY DEF FetchOrderbook, FetchOrder, FetchTrade, FetchBalance, FetchFaucet, GetPrice, Post
  <2>3. \A f \in UNION Intervals(NoMarket) : f.panel \in PolledPanels
    BY DEF PolledPanels
  <2> HIDE DEF PolledPanels
  <2> QED BY <2>1, <2>2, <2>3
<1>2. Panel \subseteq AllPanels
  BY PagesAssumption
<1>3. Panel \ PolledPanels \subseteq {"chart", "ticker"}
  BY <1>1, <1>2 DEF AllPanels
<1>4. \A p \in {"chart", "ticker"} : PageOf(p) = "exchange"
  BY DEF PageOf
<1> QED BY <1>3, <1>4

(* The requests of the panels: what they are called, and for which market. *)
Fetches(m) ==
  MarketEffects(m) \cup MountEffects(m) \cup UNION Intervals(m)

LEMMA FetchesKnown ==
  ASSUME NEW m \in Market, NEW f \in Fetches(m)
  PROVE  /\ f.market \in Market \cup {NoMarket}
         /\ f.panel \in {"chart", "ticker"} =>
              f.market = m /\ f \in MarketEffects(m) /\ f \notin UNION Intervals(m)
<1> USE DEF FetchOrderbook, FetchOrder, FetchTrade, FetchBalance, FetchKline, FetchTicker,
            FetchFaucet, GetPrice, Post
<1>1. \A g \in MountEffects(m) \cup UNION Intervals(m) :
        g.market \in {m, NoMarket} /\ g.panel \notin {"chart", "ticker"}
  BY DEF MountEffects, Intervals
<1>2. \A g \in MarketEffects(m) : g.market = m
  BY DEF MarketEffects
<1> QED BY <1>1, <1>2 DEF Fetches

(* What Ask does to the panels, one at a time.                             *)
Asked(fs, q, p) == \E f \in fs : f.panel = p /\ PageOf(p) = q

AskDone(fs, q, before, m) ==
  /\ inFlight' \in [Panel -> Seq(Request)] /\ disturbed' \in [Panel -> BOOLEAN]
  /\ \A p \in Panel :
       /\ disturbed'[p] = (disturbed[p] /\ Mounted(p)' /\ (Asked(fs, q, p) => before[p] # <<>>))
       /\ ~Asked(fs, q, p) => inFlight'[p] = before[p]
       /\ Asked(fs, q, p) => \E r \in Request :
            /\ inFlight'[p] = Append(before[p], r)
            /\ p \in {"chart", "ticker"} => r.market = m

LEMMA AskedOne ==
  ASSUME NEW m \in Market, NEW fs, fs \subseteq Fetches(m), version \in Nat,
         NEW q, NEW before \in [Panel -> Seq(Request)],
         disturbed \in [Panel -> BOOLEAN], Ask(fs, q, before)
  PROVE  AskDone(fs, q, before, m)
<1> DEFINE MarketOf(p) == (CHOOSE f \in fs : f.panel = p).market
           r(p) == [market |-> MarketOf(p), version |-> version]
<1>1. /\ inFlight' = [p \in Panel |-> IF Asked(fs, q, p) THEN Append(before[p], r(p)) ELSE before[p]]
      /\ disturbed' = [p \in Panel |->
           disturbed[p] /\ Mounted(p)' /\ (Asked(fs, q, p) => before[p] # <<>>)]
  BY DEF Ask, Asked
<1>2. ASSUME NEW p \in Panel, Asked(fs, q, p)
      PROVE  r(p) \in Request /\ (p \in {"chart", "ticker"} => r(p).market = m)
  <2>1. PICK g \in fs : g.panel = p
    BY <1>2 DEF Asked
  <2> DEFINE f == CHOOSE f \in fs : f.panel = p
  <2>2. f \in fs /\ f.panel = p
    BY <2>1
  <2>3. MarketOf(p) = f.market
    OBVIOUS
  <2> HIDE DEF f, MarketOf
  <2>4. f.market \in Market \cup {NoMarket} /\ (p \in {"chart", "ticker"} => f.market = m)
    BY <2>2, FetchesKnown
  <2> QED BY <2>3, <2>4 DEF Request
<1> HIDE DEF r
<1>3. \A p \in Panel : before[p] \in Seq(Request)
  OBVIOUS
<1>4. \A p \in Panel : Asked(fs, q, p) => Append(before[p], r(p)) \in Seq(Request)
  BY <1>2, <1>3, AppendProperties
<1>5. inFlight' \in [Panel -> Seq(Request)]
  BY <1>1, <1>3, <1>4
<1>6. disturbed' \in [Panel -> BOOLEAN]
  BY Zenon, <1>1
<1>7. ASSUME NEW p \in Panel
      PROVE  /\ disturbed'[p] = (disturbed[p] /\ Mounted(p)' /\ (Asked(fs, q, p) => before[p] # <<>>))
             /\ inFlight'[p] = IF Asked(fs, q, p) THEN Append(before[p], r(p)) ELSE before[p]
  BY Zenon, <1>1
<1> QED BY <1>2, <1>5, <1>6, <1>7 DEF AskDone

(* The end of a queue after one is asked for, and after its first is gone. *)
LEMMA LastOfAppend ==
  ASSUME NEW S, NEW s \in Seq(S), NEW e \in S
  PROVE  Append(s, e) # <<>> /\ Last(Append(s, e)) = e
<1>1. Len(s) \in Nat /\ Len(Append(s, e)) = Len(s) + 1 /\ Append(s, e)[Len(s) + 1] = e
  BY LenProperties, AppendProperties
<1>2. Len(<<>>) = 0
  OBVIOUS
<1> QED BY <1>1, <1>2 DEF Last

LEMMA LastStays ==
  ASSUME NEW S, NEW s \in Seq(S), s # <<>>
  PROVE  \/ RemoveAt(s, 1) = <<>> /\ Last(s) = s[1]
         \/ RemoveAt(s, 1) # <<>> /\ Last(RemoveAt(s, 1)) = Last(s)
<1>1. Len(s) \in Nat \ {0}
  BY EmptySeq
<1> PICK n \in Nat \ {0} : n = Len(s)
  BY <1>1
<1>2. SubSeq(s, 1, 0) = <<>>
  OBVIOUS
<1> DEFINE t == SubSeq(s, 2, n)
<1>3. /\ t \in Seq(S) /\ Len(t) = n - 1
      /\ \A i \in 1..(n - 1) : t[i] = s[i + 1]
  <2>1. \A k \in 2..n : s[k] \in S
    BY ElementOfSeq
  <2>2. /\ t \in Seq(S)
        /\ Len(t) = IF 2 <= n THEN n - 2 + 1 ELSE 0
        /\ \A i \in 1..(n - 2 + 1) : t[i] = s[2 + i - 1]
    BY <2>1, SubSeqProperties
  <2>3. \A i \in 1..(n - 1) : 2 + i - 1 = i + 1
    OBVIOUS
  <2> HIDE DEF t
  <2>4. (IF 2 <= n THEN n - 2 + 1 ELSE 0) = n - 1 /\ n - 2 + 1 = n - 1
    OBVIOUS
  <2> QED BY <2>2, <2>3, <2>4
<1>4. RemoveAt(s, 1) = t
  <2>1. RemoveAt(s, 1) = <<>> \o t
    BY <1>2 DEF RemoveAt
  <2> HIDE DEF t
  <2> QED BY <1>3, <2>1, ConcatEmptySeq
<1> HIDE DEF t
<1>5. CASE n = 1
  <2>1. t = <<>>
    BY <1>3, <1>5, EmptySeq
  <2> QED BY <1>4, <1>5, <2>1 DEF Last
<1>6. CASE n # 1
  <2>1. t # <<>> /\ t[n - 1] = s[n] /\ Len(t) = n - 1
    <3>1. n - 1 \in 1..(n - 1) /\ n - 1 + 1 = n
      BY <1>6
    <3> QED BY <1>3, <1>6, <3>1, EmptySeq
  <2> QED BY <1>4, <2>1 DEF Last
<1> QED BY <1>5, <1>6

----------------------------------------------------------------------------
LEMMA MountKeeps ==
  ASSUME PanelsOK, NEW q, NEW m \in Market, Mount(q, m), market' = m, version' = version
  PROVE  PanelsOK' /\ \A p \in {"chart", "ticker"} \cap Panel : LastAsked(p)'
<1> DEFINE fs == MountEffects(m) \cup MarketEffects(m)
           before == [p \in Panel |-> <<>>]
<1>1. page' = q /\ shown' = [p \in Panel |-> NoContent] /\ Ask(fs, q, before)
  BY DEF Mount
<1>2. before \in [Panel -> Seq(Request)] /\ fs \subseteq Fetches(m)
  BY EmptySeq DEF Fetches
<1>3. \A p \in {"chart", "ticker"} : PageOf(p) = q => Asked(fs, q, p)
  <2>1. FetchKline(m) \in fs /\ FetchTicker(m) \in fs
    BY DEF MarketEffects
  <2>2. FetchKline(m).panel = "chart" /\ FetchTicker(m).panel = "ticker"
    BY DEF FetchKline, FetchTicker
  <2> HIDE DEF fs
  <2> QED BY <2>1, <2>2 DEF Asked
<1>4. \A p \in Panel : before[p] = <<>>
  OBVIOUS
<1> HIDE DEF fs, before
<1>5. AskDone(fs, q, before, m)
  <2>1. version \in Nat /\ disturbed \in [Panel -> BOOLEAN]
    BY DEF PanelsOK
  <2> QED BY <1>1, <1>2, <2>1, AskedOne
<1>6. NoContent \in Content
  BY DEF NoContent, Content
<1>7. PanelsOK'
  BY <1>1, <1>5, <1>6 DEF PanelsOK, AskDone
<1>8. ASSUME NEW p \in {"chart", "ticker"} \cap Panel, Mounted(p)'
      PROVE  inFlight'[p] # <<>> /\ Last(inFlight'[p]).market = market'
  <2>1. Asked(fs, q, p)
    BY <1>1, <1>3, <1>8 DEF Mounted
  <2>2. PICK r \in Request : inFlight'[p] = Append(before[p], r) /\ r.market = m
    BY <1>5, <2>1 DEF AskDone
  <2>3. before[p] \in Seq(Request)
    BY <1>2
  <2> QED BY <2>2, <2>3, LastOfAppend
<1> QED BY <1>7, <1>8 DEF LastAsked

LEMMA SelectKeeps ==
  ASSUME PanelsOK, NEW m \in Market, SelectMarket(m)
  PROVE  PanelsOK' /\ \A p \in {"chart", "ticker"} \cap Panel : LastAsked(p)'
<1> DEFINE fs == MarketEffects(m)
<1>1. /\ market' = m /\ page' = page /\ UNCHANGED <<version, shown>>
      /\ Ask(fs, page, inFlight) /\ page = "exchange"
  BY DEF SelectMarket
<1>2. inFlight \in [Panel -> Seq(Request)] /\ fs \subseteq Fetches(m) /\ version \in Nat
      /\ disturbed \in [Panel -> BOOLEAN]
  BY DEF Fetches, PanelsOK
<1>3. \A p \in {"chart", "ticker"} : Asked(fs, "exchange", p)
  BY OneShots DEF Asked, MarketEffects, FetchKline, FetchTicker
<1> HIDE DEF fs
<1>4. AskDone(fs, page, inFlight, m)
  BY <1>1, <1>2, AskedOne
<1>5. PanelsOK'
  BY <1>1, <1>4 DEF PanelsOK, AskDone
<1>6. ASSUME NEW p \in {"chart", "ticker"} \cap Panel
      PROVE  inFlight'[p] # <<>> /\ Last(inFlight'[p]).market = market'
  <2>1. Asked(fs, page, p)
    BY <1>1, <1>3
  <2>2. PICK r \in Request : inFlight'[p] = Append(inFlight[p], r) /\ r.market = m
    BY <1>4, <2>1 DEF AskDone
  <2>3. inFlight[p] \in Seq(Request)
    BY <1>2
  <2> QED BY <1>1, <2>2, <2>3, LastOfAppend
<1> QED BY <1>5, <1>6 DEF LastAsked

LEMMA TickKeeps ==
  ASSUME PanelsOK, NEW interval \in Intervals(SavedCallback), Tick(interval)
  PROVE  PanelsOK' /\ \A p \in {"chart", "ticker"} \cap Panel : LastAsked(p) => LastAsked(p)'
<1>1. /\ UNCHANGED <<page, market, version, shown>> /\ Ask(interval, page, inFlight)
      /\ market \in Market
  BY DEF Tick, PanelsOK
<1>2. inFlight \in [Panel -> Seq(Request)] /\ interval \subseteq Fetches(market)
      /\ version \in Nat /\ disturbed \in [Panel -> BOOLEAN]
  BY DEF Fetches, PanelsOK, SavedCallback
<1>3. AskDone(interval, page, inFlight, market)
  BY <1>1, <1>2, AskedOne
<1>4. PanelsOK'
  BY <1>1, <1>3 DEF PanelsOK, AskDone
<1>5. ASSUME NEW p \in {"chart", "ticker"} \cap Panel, LastAsked(p)
      PROVE  LastAsked(p)'
  <2>1. \A f \in interval : f \in UNION Intervals(market) /\ f \in Fetches(market)
    BY <1>2 DEF SavedCallback
  <2>2. \A f \in interval : f.panel # p
    BY <1>1, <2>1, FetchesKnown
  <2>3. ~Asked(interval, page, p)
    BY <2>2 DEF Asked
  <2>4. inFlight'[p] = inFlight[p] /\ disturbed'[p] = (disturbed[p] /\ Mounted(p)')
    BY <1>3, <2>3 DEF AskDone
  <2> QED BY <1>1, <1>5, <2>4 DEF LastAsked, Mounted
<1> QED BY <1>4, <1>5

(* An answer, or an error, takes a request away; in order, it leaves the   *)
(* last one or shows what it asked for.                                    *)
LEMMA ArriveKeeps ==
  ASSUME PanelsOK, NEW k \in Panel, NEW i \in DOMAIN inFlight[k], Arrive(k, i) \/ Fail(k, i)
  PROVE  PanelsOK' /\ \A p \in {"chart", "ticker"} \cap Panel : LastAsked(p) => LastAsked(p)'
<1> DEFINE s == inFlight[k]
<1>1. s \in Seq(Request) /\ Len(s) \in Nat /\ DOMAIN s = 1..Len(s) /\ s[i] \in Request
  <2>1. s \in Seq(Request)
    BY DEF PanelsOK
  <2> QED BY <2>1, LenProperties, ElementOfSeq
<1>2. /\ inFlight' = [inFlight EXCEPT ![k] = RemoveAt(s, i)]
      /\ UNCHANGED <<page, market, version>>
      /\ \A p \in Panel \ {k} : shown'[p] = shown[p] /\ disturbed'[p] = disturbed[p]
      /\ ~disturbed'[k] => ~disturbed[k] /\ i = 1 /\ shown'[k].market = s[i].market
      /\ shown' \in [Panel -> Content] /\ disturbed' \in [Panel -> BOOLEAN]
  <2>1. CASE Fail(k, i)
    BY <2>1 DEF Fail, PanelsOK
  <2>2. CASE Arrive(k, i)
    <3>1. PICK v \in s[i].version..version :
            shown' = [shown EXCEPT ![k] = [market |-> s[i].market, version |-> v]]
      BY <2>2 DEF Arrive
    <3>2. [market |-> s[i].market, version |-> v] \in Content
      BY <1>1, <3>1 DEF Request, Content, PanelsOK
    <3>3. disturbed' = [disturbed EXCEPT ![k] = @ \/ i > 1]
      BY <2>2 DEF Arrive
    <3>4. shown' \in [Panel -> Content] /\ disturbed' \in [Panel -> BOOLEAN]
      BY <3>1, <3>2, <3>3 DEF PanelsOK
    <3>5. ~disturbed'[k] => ~disturbed[k] /\ i = 1
      <4>1. disturbed'[k] = (disturbed[k] \/ i > 1)
        BY <3>3 DEF PanelsOK
      <4>2. ~(i > 1) => i = 1
        BY <1>1
      <4> QED BY <4>1, <4>2
    <3>6. shown'[k].market = s[i].market
      BY <3>1 DEF PanelsOK
    <3> QED BY <2>2, <3>1, <3>3, <3>4, <3>5, <3>6 DEF Arrive, PanelsOK
  <2> QED BY <2>1, <2>2
<1>3. RemoveAt(s, i) \in Seq(Request)
  BY <1>1, RemoveAtKeeps
<1>4. PanelsOK'
  BY <1>2, <1>3 DEF PanelsOK
<1>5. ASSUME NEW p \in {"chart", "ticker"} \cap Panel, LastAsked(p)
      PROVE  LastAsked(p)'
  <2>1. CASE p # k
    BY <1>2, <1>5, <2>1 DEF LastAsked, Mounted, PanelsOK
  <2>2. CASE p = k
    <3> SUFFICES ASSUME Mounted(k)', ~disturbed'[k]
                 PROVE  IF inFlight'[k] = <<>> THEN shown'[k].market = market'
                        ELSE Last(inFlight'[k]).market = market'
      BY <2>2 DEF LastAsked
    <3>1. Mounted(k) /\ ~disturbed[k] /\ i = 1 /\ shown'[k].market = s[1].market
      BY <1>2 DEF Mounted
    <3>2. s # <<>>
      BY <1>1, EmptySeq
    <3>3. Last(s).market = market
      BY <1>5, <2>2, <3>1, <3>2 DEF LastAsked
    <3>4. inFlight'[k] = RemoveAt(s, 1)
      BY <1>2, <3>1 DEF PanelsOK
    <3>5. \/ RemoveAt(s, 1) = <<>> /\ Last(s) = s[1]
          \/ RemoveAt(s, 1) # <<>> /\ Last(RemoveAt(s, 1)) = Last(s)
      BY <1>1, <3>2, LastStays
    <3> QED BY <1>2, <3>1, <3>3, <3>4, <3>5
  <2> QED BY <2>1, <2>2
<1> QED BY <1>4, <1>5

PanelsInv == PanelsOK /\ \A p \in {"chart", "ticker"} \cap Panel : LastAsked(p)

LEMMA PanelsInit == Init => PanelsInv
<1> SUFFICES ASSUME Init PROVE PanelsInv
  OBVIOUS
<1>1. NoContent \in Content /\ <<>> \in Seq(Request)
  BY EmptySeq DEF NoContent, Content
<1>2. PanelsOK
  BY <1>1, PagesAssumption DEF Init, PanelsOK
<1>3. \A p \in {"chart", "ticker"} : ~Mounted(p)
  BY OneShots DEF Init, Mounted
<1> QED BY <1>2, <1>3 DEF PanelsInv, LastAsked

LEMMA PanelsKeep ==
  ASSUME PanelsInv, [Next]_vars
  PROVE  PanelsInv'
<1> USE DEF PanelsInv
<1>1. \A q : Visit(q) => PanelsInv'
  BY MountKeeps DEF Visit, PanelsOK
<1>2. \A q : Load(q) /\ version' = version => PanelsInv'
  BY PagesAssumption, MountKeeps DEF Load
<1>3. CASE Reload \/ Login \/ Logout
  BY <1>2, <1>3, MountKeeps DEF Reload, Login, Logout, PanelsOK
<1>4. ASSUME NEW m \in Market, SelectMarket(m) PROVE PanelsInv'
  BY <1>4, SelectKeeps
<1>5. ASSUME NEW interval \in Intervals(SavedCallback), Tick(interval) PROVE PanelsInv'
  BY <1>5, TickKeeps
<1>6. ASSUME NEW p \in Panel, NEW i \in DOMAIN inFlight[p], Arrive(p, i) \/ Fail(p, i)
      PROVE  PanelsInv'
  BY <1>6, ArriveKeeps
<1>7. CASE Advance
  BY <1>7 DEF Advance, panelVars, PanelsOK, LastAsked, Mounted
<1>8. CASE UNCHANGED <<page, market, version, panelVars>>
  BY <1>8 DEF panelVars, PanelsOK, LastAsked, Mounted
<1> HIDE DEF PanelsInv
<1> QED
  BY <1>1, <1>3, <1>4, <1>5, <1>6, <1>7, <1>8
     DEF Next, vars, HeaderLink, HomeHeaderLink, Back, PlaceOrder, Claim, Click,
         HandOver, RefreshFails, Answer, panelVars

(* The panels keep their types, and a panel that was not disturbed has     *)
(* asked last for the market that is selected, or shows it.                *)
THEOREM PanelsFollow == Spec => []PanelsInv
<1>1. PanelsInv /\ [Next]_vars => PanelsInv'
  BY PanelsKeep
<1> QED BY <1>1, PanelsInit, PTL DEF Spec

(* A panel that asks only when the market changes shows the market that is *)
(* selected as soon as nothing is awaited, unless a request failed or an   *)
(* answer was overtaken.                                                   *)
THEOREM OneShotsSettle == Spec => []OneShotSettle
<1>1. PanelsInv => OneShotSettle
  <2> SUFFICES ASSUME PanelsInv, NEW p \in Panel \ PolledPanels,
                      Mounted(p), inFlight[p] = <<>>, ~disturbed[p]
               PROVE  Rendered(p).rows.market = Rendered(p).label
    BY DEF OneShotSettle
  <2>1. p \in {"chart", "ticker"} \cap Panel
    BY OneShots
  <2>2. shown[p].market = market
    BY <2>1 DEF PanelsInv, LastAsked
  <2>3. CASE p = "chart"
    BY <2>2, <2>3 DEF Rendered, RenderChart
  <2>4. CASE p = "ticker"
    BY <2>2, <2>4 DEF Rendered, RenderTicker
  <2> QED BY <2>1, <2>3, <2>4
<1> QED BY <1>1, PanelsFollow, PTL
=============================================================================
