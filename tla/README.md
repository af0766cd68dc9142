# Multiversx orderbook: specification and verification

A limit order exchange in three parts: a smart contract that holds the deposits
of one trading pair, an off-chain engine that matches orders and sends the
matches to the contract, and a web frontend. This directory models the
contract, the engine's order book, the pipeline between chain and engine and the
stateful parts of the frontend in TLA+, checks the models with TLC on small
instances and proves their central invariants with TLAPS.

All paths below are relative to the repository. `engine/` is Go,
`contract/contract/src` Rust, `dapp/` TypeScript.

## 1. Inventory

| Component | State | Operations | Interacts with |
|---|---|---|---|
| Order book, `engine/orderbook` | index id -> list element; per side a map and a tree of price levels, `numOrders`, `depth`, `volume`; per level a list and its `volume` | `ProcessLimitOrder`, `ProcessMarketOrder`, `CancelOrder`, `CalculateMarketPrice`, JSON both ways | owned by one market goroutine |
| Pair contract, `contract/contract/src` | orders by id, per creator an index of ids, id counter, pause flag, balances | create (buy, sell), `matchOrdersExt`, `cancelOrders`, `cancelAllOrders`, `freeOrders`, start and stop of the global operation | called by users and by the launcher; emits events |
| Notifier, `engine/notifier/mpq` | `waitTxHashList`: transaction -> events to wait for | `run` (contract events), `drainMsg` (list `notifier`) | message queue -> notifier -> redis list `engine` |
| Engine loop, `engine/market/engine.go` | markets by contract address | `drainMsg`, `handleEngineEvent` | redis list `engine` -> `Market.ch` (1000) |
| Market, `engine/market/market.go` | its book | `processLimitOrder`, `confirmMatch` | book, mysql, redis view, `launcher.ch` (100) |
| Launcher, `engine/launcher` | its channel | `sendTransaction` | chain; redis list `notifier`; mysql |
| Database, `engine/db` | `limit_order`, `match_record`, `trade` rows | see Settlement below | market, launcher, API |
| API, `engine/api` | none | reads of the view and the tables | frontend |
| Websocket notifier | as the notifier | the same handlers | not started by `main` |
| Parsers, conversions, configuration, connections | none | | |
| Exchange page, `dapp/src/pages/Exchange`, `components/Layout/Header` | selected market; per panel the last answer; the order form's fields | polls, requests when the market changes, buy, sell, slider | reads the API, hands transactions to the wallet |
| Faucet, home, login, routes, `dapp/src/pages` | list of tokens, polled prices, logged in or not | claim, navigation, login and logout | API, wallet |
| Dashboard widgets, `dapp/src/pages/Dashboard/widgets` | ping-pong: deposit or not, seconds left, intervals; batch: session ids (also in `sessionStorage`), groups, a timer | ping, pong, sign and send batches | a ping-pong contract, the wallet, sdk-dapp's lists of signed and pending transactions |
| Other template widgets, static pages, deployment, tools | none of the exchange | | |

What is hard here:

* *the book*: three structures (index, queues, counters) kept in step by hand
  through partial fills, sweeps over levels and cancellations;
* *the contract*: integer division in every fill, two records and two transfers
  computed separately, an index that is trusted instead of the creator, penalties
  that grow without limit;
* *the pipeline*: five goroutines, two bounded channels, two redis lists read every
  200 ms, confirmations that do not say what they confirm, sends that fail, a
  process that restarts with an empty book;
* *the frontend*: answers shown when they arrive, whatever is selected by then;
  transactions built before an `await` and handed over after it; numbers in floating
  point; effects that depend on part of what they read; intervals nobody ends; a page
  that is loaded again in the middle of it all.

`PROJECT.json` lists every hazard at its line with the properties that cover it.

## 2. Modules

| Module | What it is |
|---|---|
| `OrderBook` | the order book: one step per iteration of the matching loop |
| `PriceTimeBook` | what a price-time priority book promises, without queues, levels and counters |
| `OrderBookProofs` | theorems about `OrderBook`, the last of them that it implements `PriceTimeBook` |
| `Sums` | lemmas about sums over finite sets, for the proofs about volumes and balances |
| `Pair` | the contract: one step per order a transaction processes, with commit and revert |
| `PairProofs` | theorems about `Pair`: the invariant, what endpoints never do, and the arithmetic of a single fill |
| `Settlement` | one market's pipeline: chain, notifier, engine loop, market, launcher, redis, mysql, crash and restart |
| `SettlementProofs` | theorems about `Settlement` |
| `Exchange` | the book and the contract of one market composed: orders placed on the contract, matched by the book, executed by the contract |
| `ExchangeProofs` | theorems about `Exchange`, from those about its two parts: it implements both, and keeps priority and prices |
| `LedgerProofs` | theorems about `Exchange`: quantities and deposits |
| `OrderForm` | what the order form makes of a typed amount and price |
| `Trading` | `Exchange` with the orders `OrderForm` makes |
| `Pages` | the web application's pages, panels, requests and buttons; extends `OrderForm` |
| `PagesProofs` | theorems about `Pages` |
| `PingPong` | the three ping-pong widgets: state, actions, fairness |
| `Dashboard` | `PingPong` beside the batch widget on one page: the next-state relation of both |
| `DashboardProofs` | theorems about `Dashboard` |
| `MCOrderBook`, `MCPair`, `MCSettlement`, `MCExchange`, `MCTrading`, `MCPages`, `MCDashboard` | instances for TLC |

### OrderBook

`orders` is the index with the order its list element holds; `queue[side][price]` is
the list of a level as ids; `levels[side]` the key set that map and tree share;
`levelVolume`, `numOrders`, `depth`, `volume` are the counters. `pc`, `call`, `left`
and the results are the variables of the running call. A call enters with the
argument checks (`ProcessLimitOrder`, `ProcessMarketOrder`), performs one `MatchHead`
(`FillPartially` or `FillWhole`) per iteration of `processQueue`, and ends in
`RestRemainder`, `ReportTaker` or `ReturnMarket`; `Return` is the caller's. The helpers
carry the names of the methods they stand for: `SideAppend`, `QueueAppend`,
`QueueUpdate`, `BookRemove`, `IsBest` (`MinPriceQueue`, `MaxPriceQueue`).

Abstractions: decimals are naturals (only order, sum and product are used; the
average price of a taker stays a fraction); timestamps are the order of arrival
(`clock`), which is what `time.Now()` in a single goroutine gives; the owner of an order
is dropped, no step depends on it. The code's "price levels" are a red-black tree and a
map with the same keys; the model has one set. Overlapping calls are not modelled: only
`Market.run` calls the book. The JSON round trip is modelled, but outside its tests no code stores a book.

### Pair

The chain runs transactions one after the other, so an endpoint could be one step.
Those that loop over orders are modelled as several steps on working copies
(`wOrders`, `wBalance`, `owed`), so that the arithmetic of each order can be
observed, followed by a commit that publishes them or a revert that drops them.
`matchOrdersExt` is `BeginMatch`, a `MatchMaker` per maker (the four branches of
the loop are `SellWhole`, `SellPart`, `BuyWhole`, `BuyPart`), and `CommitMatch`
or `RevertMatch`. Makers are arbitrary: repeated, of the taker's side, or the taker itself.
`cancelOrders`, `cancelAllOrders` and `freeOrders` are `BeginCancel` or `BeginFree`, a
`CancelOrder` or `FreeOrder` per order, and `CommitCancel`, `CommitFree` or `RevertRelease`.
Everything that makes the virtual machine fail (a `require!`, reading an empty order,
dividing by zero, a negative `BigUint`, a transfer beyond the balance) is a revert.
Left out: events, `match_provider` (nothing reads it), and that `startGlobalOperation` is
for the owner (the owner does nothing else).

### Settlement

One market. `events` is the queue of contract events, `engineList` and `notifierList` the
redis lists, `marketCh` and `launcherCh` the channels; `inHand`, `submitting` and `sending`
are what the engine loop, the market and the launcher hold between two operations,
so every blocking point and every point where a crash loses something is a state.
`rows`, `matches` and `view` are what mysql and redis hold for the API. Which orders
a new order matches is left open (any subset of the book): `OrderBook` says which, and
the properties here must hold whatever it is. A transaction is named by its match. Faults
are counted and bounded: cancellations on the chain, failed sends or transactions, failed
calls to redis or mysql (their effect is lost, as the code only logs them), crashes.

`rows` keeps the state of a row and whether `filled` is zero or the order's
quantity. `UpdateOrderPartialFilled` (`db/order.go:97-118`) drops the result of `Filled.Add` and
calls xorm's `Update` without a condition, which writes every row of the table;
`PartialFilled` does exactly this.

Left out: amounts, trades (inserted in the same step that makes a record done), `hash_url`,
nonces, call data, several markets, failures of the calls that update a row's state or the
view, and orders the book refuses (zero price or quantity). A data race on
`waitTxHashList` that the Go runtime notices ends the process: that is `Crash`.

### Exchange

`Exchange` instantiates `Pair` (as `Contract`) and `OrderBook` (as `Book`, its `orders`
renamed `bookOrders`) and adds what lies between them: `Place` is a user's order, paid with the token the
frontend chooses (`Payment`); `Arrive` hands it to the book with the quantity and the price
`handleCreateOrder` computes (`EngineQuantity`, `EnginePrice`); `Submit` names the makers of a match as
`Market.processLimitOrder` collects them (`Makers`); `Execute`, `FillNext`, `Commit` and `Fail` run the
transaction. The book may be several matches ahead of the contract. `Quotient` is `Div` of
`shopspring/decimal`, which rounds to 16 digits after the point; `Scale` is ten to that power. Nobody
cancels here, and nothing gets lost between the two: `Settlement` says what may. Two history variables state
the exceptions: `short` (a fill paid out more than its two orders gave up: finding 2, or a fill of two
orders that cross only because prices are rounded) and `reverted` (a match failed).

### OrderForm, Trading and Pages

`OrderForm` is `useSendPairTransaction`: a number is a binary float with `Bits` significant
digits, typed text becomes the nearest number, products and `* 10 ** 18` are rounded, the
deposit is printed as a decimal and shifted (`parseAmount`). `Encodable` says when `BigUint`
is handed a whole number at all. `Trading` places only such orders on `Exchange`.

`Pages` has one action per thing that can happen to the page: moving about (`Visit`, `HeaderLink`,
`HomeHeaderLink`, `Back`, `Load`, `Reload`), `Login`, `Logout`, `SelectMarket`, a panel's `Poll`, an answer that
arrives or a request that fails, `PlaceOrder`, `Claim`, and `HandOver` and `RefreshFails` for the
`await refreshAccount()`. A panel (order book, open
orders, trades, balances, chart, header prices, faucet list, home page prices) is its rows, the market
and the state of the world they were taken from, and the name it is rendered under. Requests in flight are
answered in any order; an answer carries the state it was taken from. The market is in a store that survives
navigation and not a load. `useInterval` keeps the newest callback in a ref: `SavedCallback`.

### PingPong and Dashboard

The dashboard's widgets are the template's, kept in the repository: neither `Dashboard.tsx` nor any route of `routes/routes.ts` renders one of
them at this commit. They are modelled as they would run side by side on one page.

`PingPong` is a deposit that can be taken back after a deadline, and the widget that says when: `queries` are the
questions for the time left (each answered with what the contract says then, shown whenever the answer arrives),
`running` the intervals that take a second off, `building` the clicks that wait for `refreshAccount`, `toSign`
the wallet's one request, `pending` the tracked transactions. The three variants differ in their hooks and in where the
transaction is made. `misled` remembers what no later answer repairs.

`Dashboard` adds the batch widget. `sessions` are the signatures asked for without sending, `timer` the 500 ms
of the effect in `useSendSignedTransactions`, which is started when the batch id or the status of the signed session
changes and the switch `sendBatchTransactionsOnDemand` is on in that render (`Effect`); when it ends, `NothingSigned`,
`CancelFlow` or `SendTransactions` are the three ways through `sendTransactions`. What it reads then is what the
effect's closure captured: the same, since groups and ids change together. React 18 renders once for several `set...` calls, also after an
`await`, so each of these is one step. A ping-pong click clears the signed transactions of both widgets (`Clears`); so does a batch
that could not be sent (`SendFails`) or was cancelled (`CancelFlow`), and it takes back the wallet's request too, whichever widget made it. `LoadPage` is a reload, or the way to the web wallet and back. One ping-pong variant is on the page at a
time. Assumed of sdk-dapp: it keeps signed sessions over a load, shows one request at a time, and does not itself send what was signed
without sending (`App.tsx:39-42` leaves its default tracker on). Left out: which batch the output shows, and toasts.

## 3. Runs

| Run | Module, cfg | Result | What it shows |
|---|---|---|---|
| `book` | MCOrderBook, `MCOrderBook.cfg` | pass | types, index and queues, counters, level volumes, no crossing, time order, conservation, totals, limit, quotes; the book implements `PriceTimeBook`; every call returns |
| `book_side_volume` | MCOrderBook, `MCOrderBookSideVolume.cfg` | violation | finding 1 |
| `pair` | MCPair, `MCPair.cfg` | pass | all endpoints, two users, two orders, penalties: who may take an order out, what no endpoint changes, what a fill pays |
| `pair_sell_sweep` | MCPair, `MCPairSellSweep.cfg` | violation | finding 2 |
| `pair_max_orders` | MCPair, `MCPairMaxOrders.cfg` | violation | finding 3 |
| `settlement` | MCSettlement, `MCSettlement.cfg` | pass, 142,090 states | order, no duplication, no confirmation made up, what the API shows, under all faults; the channels never block for good; every match settles, but for as many as sends and transactions failed or orders were cancelled |
| `settlement_cancel` | MCSettlement, `MCSettlementCancel.cfg` | violation | finding 4 |
| `settlement_trades` | MCSettlement, `MCSettlementTrades.cfg` | violation | finding 5 |
| `exchange` | MCExchange, `MCExchange.cfg` | pass | book and contract agree on quantities; prices kept; deposits of resting orders covered; matches fail only after an overpaid fill |
| `same_price` | MCTrading, `MCTradingSamePrice.cfg` | violation | finding 6 |
| `pages` | MCPages, `MCPages.cfg` | pass, 63,794 states | what panels show once nothing changes, what the wallet asks to sign, the price of a typed order |
| `dashboard` | MCDashboard, `MCDashboard.cfg` | pass, 580,863 states | pong is offered when, and not before, the contract grants it; a signed batch is sent, once and as asked |

**Bounds.** *Book:* three ids, two price levels, quantities 1 and 2, three
arrivals: two orders in one queue plus a third at another level, a sweep that crosses a level and stops
inside an order, and a partial execution followed by a fill or a cancellation of the same order.
*Contract:* two orders and two makers in a match, so that a repeated maker and a rounded fill after a rounded
fill occur, with amounts that do not divide each other; the constants of the penalty are scaled
(one epoch, 50%, two penalties instead of 5 epochs, 1%, 6 penalties), so that penalties equal to and above the deposit are
reached within three epochs; users are symmetric (only safety is checked). *Pipeline:* three
orders, channels of capacity one (the code's are 1000 and 100: a full channel is what
matters), matches of up to two makers, one fault of each kind. *Composition:* three orders with
amounts from 1 to 4 and prices with one binary digit, so that partial fills round, takers sweep two makers, equal
prices hide different ratios and some prices round to zero (the book refuses these). It was also run with amounts
1 to 5 and whole prices, with `Scale` 100, and with four orders of amounts 1 and 2, with the same result.
*Pages:* two markets, one panel of each kind (polled, asking only on a change, polled on the home page), two requests or clicks in
flight, one change of the world: enough for two answers in the wrong order before and after a change. The form is evaluated for
every encodable amount and price from 0.40 to 1.10, with numbers of 5 binary digits. *Dashboard:* a deadline of two
seconds, two questions in flight, three ping-pong clicks (a deposit, its return, another deposit), or two clicks in both
widgets with the batch widget beside the raw variant (`Beside`, `MaxBeside`): two batches, or a batch and a ping that clears it.

**Fairness.** `OrderBook`: weak fairness of the steps inside a call; nothing in a call
waits. `Settlement`: weak fairness of every goroutine (each is a loop that blocks only on a
channel or polls a list) and of the chain executing what it was sent. No fairness of
users, of faults or of a restart. The `Launcher` loop may take its failing branch, so liveness
properties say what they promise only without the faults in question. `Pages`: intervals fire and requests are
answered (strong, because the bound on requests in flight may hold either up between two times; in a
browser it does not), an awaited `refreshAccount` answers or fails (weak). `Dashboard`: time passes, questions are
answered or fail, sent transactions are executed and tracked, timers end; nobody has to click, sign or stop
signing. That the page is not loaded again for ever is a hypothesis of the properties, not of the specification.

**Deadlock** is checked for the book, the contract and the pages, and not where everything may be done once the bounds are
used up: `Settlement`, `Exchange`, `Trading`, `Dashboard`.

Every property of a passing run is violated by a mutant of a definition it depends on (see
`PROJECT.json`); the mutants stand beside the definitions they change.

## 4. Findings

1. *Volume of a side* (`orderbook.go:179`). `orderside.go:49`: "Volume returns total amount
   of quantity in side". A partial execution goes through `OrderQueue.Update`, which adjusts
   the level only; the side keeps counting what was executed. A book read back from
   JSON starts with a volume of zero.
2. *A selling taker overpays* (`orders.rs:62`). `README.md:22`: the contract transfers "respective
   assets between the trading parties". When the taker has more than the maker wants, the
   maker is paid all the taker has left, while the taker's record loses only what the
   maker wanted: the difference is paid out of other deposits.
3. *The limit of orders per user* (`orders.rs:207`). `validation.rs:101`: "Cannot place more
   orders". `cancel_orders` always stores an empty index, so the creator's other orders
   are not counted (and not cancellable) any more.
4. *Cancelled orders stay in the book* (`mpq/notifier.go:92`). `README.md:37`: the engine updates
   the book "as new orders are placed, executed, or canceled". No handler exists for cancellations.
5. *Confirmations are credited to the oldest pending match* (`market.go:129`). After one failed
   transaction its match is recorded as done, with trades, when the next one is
   confirmed. `README.md:11`: "trade history can be publicly audited and verified".
6. *Orders of one price do not match* (`useSendPairTransaction.ts:48`). `README.md:33`: the engine finds "order
   pairs that match in price and quantity". The form rounds deposit and asked amount at different places: 0.3 at 0.9 bought
   has price 0.9, sold 0.9000000000000001, and the book does not match them.

Seen while modelling, without a document that says otherwise, and so without a run.

*Engine.* The launcher announces a transaction only after it was sent, so its events may reach the notifier first, which
then reads no map entry and dereferences nil (`mpq/notifier.go:191`, `NotifyPanic`). A match record stores for a
partially executed maker what is left of it, not what it traded (`db/match.go:32`). After
any partial fill every row of `limit_order` is `settling` with `filled` zero
(`db/order.go:109`), so executed orders are confirmed back to `open`. The id is the primary key of that table, and every market's
contract counts its ids from zero (`model/order.go:8`). The call data of a match drops every zero byte of the taker's id, 256 becomes 1
(`launcher.go:169`). The book is only in memory: after a restart the orders the database has as open rest nowhere and are never matched
(`market.go:32`). A send that fails is not tried again (`launcher.go:142`): its match, or by finding 5 a later one, stays pending.

*Contract.* An order that a match executed is never cleared
(`orders.rs:69,83,97,112`), so `RestingCovered` is about resting orders only. What such a record may still be cancelled for no property says: `ExitJustified` says who
may take it out, and in `Exchange` nobody cancels.

*Exchange page and faucet.* For a moment, or until the next poll, rows of the market selected before stand under the new one's name; an
older answer overwrites a newer one. Chart and header prices keep such an answer for good (`OneShotSettle` excludes it with `disturbed`).
The slider's amount is computed from the balance and market at the time it was moved (`TradeForm.tsx:112`). The faucet's list ends where a token is
missing (`Faucet/Index.tsx:58`). Some typed prices make `BigUint` receive a fraction (`Encodable`). A second click takes back the first one's request
for a signature. The bars of the order book are scaled to 50 rows while 100 may be shown.

*Ping-pong.* A failed question while the countdown runs, or one answered differently, starts a second interval and time passes twice as fast; an answer that comes
after the countdown's end freezes it; an error shows Ping again; the Abi variant pays 0 while the amount is not known; a pong overlapped by a ping leaves the new
deposit without a countdown until the page is loaded. An interval that still counts when its deposit was taken back (the widget lags behind the contract on a hidden
page, or a pong was asked for earlier) lives on and takes seconds of the next deposit: pong is offered early, or the countdown stops before its end.
`PongNotEarly` and `PongOffered` exclude these (`misled`: `"answer"`, `"crossed"` and `"left"`). The last kind came out of the attempt to prove `PongNotEarly` for
every number of clicks.

*Batches.* The groups are set by Swap & Lock only (`BatchTransactions.tsx:105`): a batch after it is sent as `[[0],[1,2],[3]]` and its fifth transaction never, and
after a load of the page, the web wallet's way included, wrap, swap and lock are sent as one group. The answer of a sending forgets whichever batch is current
(`useSendSignedTransactions.ts:95`): one started meanwhile is signed and not sent. A load between sending and answer sends again. A sending that fails takes away the signatures of
a batch started meanwhile, and the wallet's request (`:99`). "Sign & send batch" turns the switch off, and
a batch signed while it is off stays unsent, also when it is turned on again. `SentAsAsked` and `BatchSent` say what holds besides.

## 5. Proofs

TLAPS proves, for every value of the constants that meets the named assumptions:

*OrderBook* (`OrderBookProofs`): `TypeOK`, `IndexConsistent`, `CountersExact`, `LevelVolumeExact`, `TotalsExact`,
`NotCrossed`, `QueueInTimeOrder`, `QuantityConserved`, `WithinTakerLimit` and the action property `QuoteHolds`. Assumptions: prices and quantities are
positive, and a non-empty set of prices has a lowest and a highest one (`PriceAssumption`; true of
the finitely many levels of a tree).

None of these is inductive alone. The invariant `IInv == BookOK /\ NotCrossed /\ CallOK`
adds: the index is finite (needed for the counts), every resting order arrived before
`clock` (so an append keeps the time order), and for the running call: its arguments
passed the checks, the id of a limit order is not in the index, the fills recorded so far
add up with what is left, and the results are reset between calls. The order of the argument:
`SideAppend` and `BookRemove` preserve `BookOK` (lemmas about positions in a sequence after
`RemoveAt`, and about cardinalities); a fill keeps `NotCrossed` because it only removes; the
remainder rests only when `~CanMatch`, which with `depth` and `numOrders` exact means
that no level of the other side is within the limit, hence nothing crosses. That is why the
counters are part of the invariant: if one were off, the loop would stop early and
leave the book crossed.

*Sums* (`Sums`). The volume of a level, the totals of a call and the deposits a balance covers are sums over a finite set
(`SumFunctionOnSet`). Its defining recursion is one over subsets, so the laws are proved without an induction rule for predicates: the set of subsets for which a
law holds has, if it is not all of them, a complement with a minimal element (`SubsetInduction`, from `WFMin`). On top of that: a sum does not depend on
the order in which its elements are taken (`SumTake`), so adding, removing or changing one element changes the sum by that element.

*The quote* (`OrderBookProofs`): `QuoteHolds`. `CalculateMarketPrice` is a recursion over the levels not yet looked at; that there is such a function and only one
is proved like for sums (`QuotesExist`, `QuotesUnique`). `QuoteAfterTrade` is the step: when `n` units are executed at the best level, and the level closes only if `n` was all it
had, the quote for the rest is smaller by exactly their price, whether the taker ends in that level or beyond it. That a level closes only then is where the invariant comes in: its
volume is the sum of the orders queued at it (`RestingNat`).

*The book's promise* (`OrderBookProofs`): the safety part of `PriceTimePriority`, that initial states map to initial states of
`PriceTimeBook` and steps to its steps or stutters. A `MatchHead` is an execution of the abstract book because the head of the
best level precedes every order of that side that crosses: a better price by `IsBest`, or the same price and an earlier time by
`QueueInTimeOrder`; and the end of the loop is the end of an abstract call because `~CanMatch` leaves nothing that crosses. That the
abstract book's fairness is implemented too is left to TLC.

*The loop* (`OrderBookProofs`): `IterationsEnd`, the variant behind `CallReturns`: a step of the loop that does not leave it takes some of what the
taker still has. It needs the invariant, for a loop over an order with no quantity, or over a level that counts orders it does not hold, would run for nothing.

*Pair* (`PairProofs`): `TypeOK` (no balance and no amount becomes negative), `IndexOwned`, and the action
properties `TermsKept`, `ExitJustified`, `LateOrdersStay`, `OrphansStay`. Assumptions: amounts are
naturals, the penalty period and the base points are positive, the two tokens differ.

The invariant `IInv` relates the working copies to the storage, one conjunct per
kind of transaction: `CopiesAtRest` (no transaction: the copies equal the storage),
`MatchCopies` (the same ids; no order's terms changed but for amounts that shrank; the taker
in memory is one the storage could hold), `ReleaseCopies` (the copy holds a subset of the orders,
unchanged, and whatever has gone had a penalty within its deposit), `CancelCopies` (what has gone
was in the caller's index), `FreeCopies` (what has gone was due and not the caller's). An action property about
a commit then follows from the invariant in the state before it. The arithmetic lemma is
`RuleOfThreeBound`: a rule of three whose value does not exceed its total is at most its part, so no subtraction
in a match is negative.

*Fills* (`PairProofs`): `RoundingKeepsPrice` and `FillsFunded`. `RuleOfThreeLargest` says which way the division rounds: it yields the largest
amount whose share of the total does not exceed the value's. What is taken from the proportional side of an order is therefore never more than
its price allows (`ShareKeepsRatio`), and what a crossing order demands, being such an amount, is no more than the division yields
(`ShareCovers`), whichever of the branches a fill takes.

*Exchange* (`ExchangeProofs`): `RestingPriceKept`, for any users, finitely many positive amounts, any number of orders and any `Scale`. Both proof modules
are instantiated like the modules they are about, and their invariants are conjuncts of this one (`ContractSteps` and `BookSteps`: a step of `Exchange`
is one of the part's or leaves it alone). `RestingPriceKept` is not inductive, for two reasons. The contract keeps prices only in fills of a buyer and a seller,
which `matchOrdersExt` does not check: `DoneOpposed`, `MatchesOpposed` and `MakersOpposed` follow a taker and its makers from the book's results over the
match to the running transaction. And the book's price must be true of the record before it rests, and of the working copy that the next commit
publishes: `Stands`, from the arrival (`ArrivingStand`) over the call (`CallStands`) to the book (`RestingStand`). `QuotientBound` is the half unit of the last
digit by which the engine may round a price up; `PriceCarried` passes the bound through a fill. That the prices have a lowest and a highest one, which `OrderBook` assumes,
follows here from there being finitely many amounts (`PricesOrdered`).

*Refinement* (`ExchangeProofs`): `ContractImplemented` and `BookImplemented`, the composition implements each of its parts (`C!Spec`, `B!Spec`), with the quantities
and prices the engine computes as the inputs of the book. The substitutions are those of `Exchange`; initial states map by `ContractInit` and `BookInit`, steps by `ContractMaps`
and `BookMaps`, to a step of the part or a stutter. With `KeepsPriority` of the book, whose two halves are the lemmas `InitPromised` and `StepKeepsPromise`,
this makes `ExchangeKeepsPriority`: price-time priority holds of orders as the contract creates them and events bring them.

*Ledger* (`LedgerProofs`): `BookAgrees`, `RestingCovered`, `MatchesExecute`, with the assumptions of *Exchange*. Book and contract disagree most of the time: the book
has matched what the contract will execute later, fill by fill. The invariant says that the contract is behind by exactly that. There are four views of what is
left of every order, the contract's records (`g`), these after the running match (`a`), after the queued matches (`b`), and after the match the book is at
(`h`), which is what the book has; each follows from the one before by a chain of fills that take the same amount from a taker and a maker who
both have some. With nothing in flight the four are one, which is `BookAgrees`. A new order, which only the last views know, slips past
the chains because they ignore it (`Ignores`); executing a fill removes the first link. That a match in flight finds its orders with what it needs is `MatchesExecute`: it can fail only
after a fill that was *short* (finding 2). `RestingCovered` follows with sums: a fill takes from the balances no more than from the deposits.

*Settlement* (`SettlementProofs`): `TypeOK`, `ArrivalOrder`, `MatchOnce`, `ConfirmationsBacked`, `ShownOrdersOpen`, `CreditsItsMatch`, for any number of orders,
makers, faults and places in the channels. The properties speak of what travels through several queues in turn. The argument is about the
concatenation of these queues (`Way`, `ToExecute`, `ToAwait`): a hop from one queue to the next leaves it alone, a new order or match is appended
to it with an id above all others, and a loss, a crash or an arrival drops a piece of it, which keeps increasing sequences increasing
(`Within`, `PieceDropped`). The invariant `IInv` adds to the properties: whatever a queue names exists (`MatchesKnown`, `OrdersKnown`); an order that rests has an open row, and
the view holds such orders as long as nothing crashed (`RestingOpen`); and for confirmations (`ConfirmationsSpent`) that records done and updates on their way are no more than the
`Spent` transactions, those executed whose events were all counted and which are never waited for again. Without `Spent` the count
of confirmations could not be kept: the step that makes an update out of the last event must have a transaction of its own to charge it to.
Assumptions: the bounds are naturals and the channels have capacity at least one.

`CreditsItsMatch` says that finding 5 needs a fault: as long as no transaction failed, nothing was lost, cancelled or crashed, `confirmMatch`, which completes the oldest
pending record, completes that of the transaction it hears of. This needs the order on the way back (`Orderly`): the matches executed are the oldest; a match's events are all in
the queue or already counted in `waiting`; the events in the queue come in the order of the matches, after those of every match that is closed; and the updates on
their way are about the matches right after those that are done. Each line carries the next one hop further, and none of them holds after one failure.

*Pages* (`PagesProofs`): `SignsWhatWasClicked` and `OneShotSettle`, for all markets, panels, typed orders and bounds. The invariant (`ClicksStay`) says that every click on its way, and
the wallet's request, was built by one of the buttons for some market; nothing that happens while `refreshAccount` is awaited touches it. The invariant for `OneShotSettle` (`PanelsInv`) is about the end of a panel's queue of
requests: the last one asked is about the market selected now, or there is none and the panel shows it. An answer that arrives in order leaves the end
alone or is the end; an answer out of order, a failure or a request that was not made sets `disturbed`.

*Dashboard* (`DashboardProofs`): `SentAsAsked`, for any number of clicks, sessions and loads of the page. Only the newest session can be sent (`Newest`), and the timer runs only
for a batch that was not forgotten. What keeps a session from being handed over twice is in `SentOnce`: while it is on its way and the timer runs again, its signatures
are gone, for only the loss of them, a new session or a load of the page starts the timer; and once the network has answered, or the sending has failed, its batch is forgotten. `AskedToSign` adds that the wallet is not asked to sign
a session that is on its way, so they do not come back.

*The countdown* (`DashboardProofs`): `PongNotEarly` and `CountdownRuns` (a deposit shown with seconds left has an interval that counts them), for any deadline and any number of clicks, questions and loads. What a widget shows
lags behind the contract most of the time. The invariant (`CountdownInv`) says when it may: only while something is on its way that will tell, a pending
transaction, whose end makes the widget ask, or a question (`Informed`); and unless it was misled, at most one interval counts, and none while no deposit is shown (`OneInterval`), so
that the seconds shown are never fewer than the contract's. For `CountdownRuns` the invariant adds (`Counting`) that without crossed transactions one follows the other, so that what the
widget takes for the deposit is the one there is, or none is and the pending transaction was executed already; a deposit shown with seconds left therefore had its interval started by the answer that showed it.

Model-checked only:

* `TypedPriceKept` is arithmetic with digits and powers of ten, whose laws need induction over data; and its bound, three roundings, is one for the inputs of the run
  and not for every value of the constants;
* liveness (`CallReturns`, `OrdersArrive`, `MatchesSettle`, `PolledSettle`, `PongOffered`, `BatchSent`) is out of the prover's reach.

## 6. Order of the work, and what is not modelled

The modules were written in the order of what the system stands on: the book and its promise; the contract; the pipeline with its faults; the findings;
the composition of book and contract; the frontend's pages and form; the form with book and contract; the dashboard; and the proofs of
each. What is left is the arithmetic behind `TypedPriceKept`, and the liveness properties beyond the instances that were checked.

Not modelled:

* *the API* (`engine/api`): reads only; what it reads is `view` and `rows` in `Settlement`;
* *the websocket notifier*: the same handlers behind another transport, which `main` does not start;
* *trades and the amounts in match records*: written in the step that makes a record done, and read by nothing that decides;
* *event parsers, call data, conversions*: functions on bytes without state. What they would have to agree on is the encoding of the
  contract's virtual machine, which is not in the repository;
* *several markets in one table*: the rows of two markets with equal ids collide at once, as said above;
* *configuration, connections, deployment scripts, generated bindings, tests*: input and output;
* *the remaining template widgets* (SignMessage, NativeAuth, Account, Transactions) *and static pages*: each shows the answer of one call of sdk-dapp or
  the API.
