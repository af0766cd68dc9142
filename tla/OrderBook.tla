----------------------------- MODULE OrderBook -----------------------------
(***************************************************************************)
(* The in-memory limit order book of the matching engine                   *)
(* (engine/orderbook).  Orders rest in one FIFO queue per price level and  *)
(* side; an index maps the id of every resting order to its list element.  *)
(* A call of ProcessLimitOrder or ProcessMarketOrder is a sequence of      *)
(* steps: the entry checks, one step per iteration of the loop of          *)
(* processQueue, and the return.  Calls do not overlap: one goroutine      *)
(* (Market.run) owns the book.                                             *)
(*                                                                         *)
(* Decimals are natural numbers (the code's decimals are exact and have no *)
(* upper limit, only their order, sums and products are used); the quotient*)
(* that prices a fully executed taker is kept as a fraction.               *)
(***************************************************************************)
EXTENDS Integers, Sequences, FiniteSets, SequencesExt

CONSTANTS
  OrderID,      \* ids callers may give to orders
  Price,        \* valid limit prices
  Quantity,     \* valid order quantities
  MaxArrivals,  \* bound: how many orders may ever come to rest in the book
  nil           \* no order

(***************************************************************************)
(* Prices and quantities are positive; a non-empty set of price levels has *)
(* a lowest and a highest one (there are finitely many of them).           *)
(***************************************************************************)
ASSUME PriceAssumption ==
  /\ Price \subseteq Nat \ {0}
  /\ \A L \in SUBSET Price : L # {} =>
        /\ \E p \in L : \A r \in L : p <= r
        /\ \E p \in L : \A r \in L : r <= p
ASSUME QuantityAssumption == Quantity \subseteq Nat \ {0}
ASSUME BoundAssumption == MaxArrivals \in Nat
ASSUME NilAssumption == nil \notin OrderID

VARIABLES
  orders,       \* ob.orders: id -> the order its list element holds
  levels,       \* per side: the prices that have a queue (map and tree)
  queue,        \* per side and price: the list of the level, as ids
  levelVolume,  \* per side and price: OrderQueue.volume
  numOrders,    \* per side: OrderSide.numOrders
  depth,        \* per side: OrderSide.depth
  volume,       \* per side: OrderSide.volume
  clock,        \* arrivals so far: the timestamps of resting orders
  pc,           \* "idle", "matching" (in a call) or "returned"
  call,         \* the arguments of the call
  left,         \* quantityToTrade / quantityLeft
  done,         \* the result "done"
  partial,      \* the result "partial": an order of the book, or nil
  processed,    \* the result "partialQuantityProcessed"
  totalQuantity,\* totalQuantity and totalPrice, which the code sums over
  totalPrice,   \* "done" and the partial order before it returns
  err           \* the result "err"

book == <<orders, levels, queue, levelVolume, numOrders, depth, volume, clock>>
results == <<done, partial, processed, totalQuantity, totalPrice>>
callVars == <<pc, call, left, results, err>>
vars == <<book, callVars>>

----------------------------------------------------------------------------
Side == {"buy", "sell"}
Opposite(s) == IF s = "buy" THEN "sell" ELSE "buy"

Order == [side : Side, quantity : Nat \ {0}, price : Price, time : Nat]

Fill == [id : OrderID, quantity : Nat \ {0}, price : Nat \X Nat]

Call == [kind : {"none", "limit", "market"}, id : OrderID \cup {nil},
         side : Side, quantity : Nat, price : Nat]

NoCall == [kind |-> "none", id |-> nil, side |-> "buy",
           quantity |-> 0, price |-> 0]

(* Mutant: the two trees are read from the wrong end.                      *)
IsWorst(s, p) ==
  /\ depth[s] > 0
  /\ p \in levels[s]
  /\ \A r \in levels[s] : IF s = "sell" THEN p >= r ELSE r >= p

(* The level that MinPriceQueue (asks) or MaxPriceQueue (bids) returns.    *)
IsBest(s, p) ==
  /\ depth[s] > 0
  /\ p \in levels[s]
  /\ \A r \in levels[s] : IF s = "sell" THEN p <= r ELSE r <= p

(* Mutants: a comparator that is strict, and one that lets a seller sell   *)
(* at any price.                                                           *)
StrictlyWithinLimit(p) ==
  \/ call.kind = "market"
  \/ call.side = "buy" /\ call.price > p
  \/ call.side = "sell" /\ call.price < p
BuyWithinLimit(p) ==
  \/ call.kind = "market"
  \/ call.side = "buy" => call.price >= p

(* The comparator of a limit order; a market order takes any price.        *)
WithinLimit(p) ==
  \/ call.kind = "market"
  \/ call.side = "buy" /\ call.price >= p
  \/ call.side = "sell" /\ call.price <= p

(* Mutant: the loop goes on when the taker is used up.                     *)
MatchableWhenUsedUp(p) ==
  /\ numOrders[Opposite(call.side)] > 0
  /\ IsBest(Opposite(call.side), p)
  /\ WithinLimit(p)

(* The loop guard of the two calls, for the level it looks at.             *)
Matchable(p) ==
  /\ left > 0
  /\ numOrders[Opposite(call.side)] > 0
  /\ IsBest(Opposite(call.side), p)
  /\ WithinLimit(p)

CanMatch == \E p \in levels[Opposite(call.side)] : Matchable(p)

Init ==
  /\ orders = [id \in {} |-> 0]
  /\ levels = [s \in Side |-> {}]
  /\ queue = [s \in Side |-> [p \in Price |-> <<>>]]
  /\ levelVolume = [s \in Side |-> [p \in Price |-> 0]]
  /\ numOrders = [s \in Side |-> 0]
  /\ depth = [s \in Side |-> 0]
  /\ volume = [s \in Side |-> 0]
  /\ clock = 0
  /\ pc = "idle"
  /\ call = NoCall
  /\ left = 0
  /\ done = <<>>
  /\ partial = nil
  /\ processed = 0
  /\ totalQuantity = 0
  /\ totalPrice = 0
  /\ err = "none"

----------------------------------------------------------------------------
(* Mutant: a new order goes to the front of its queue.                     *)
QueuePrepend(id, o) ==
  /\ queue' = [queue EXCEPT ![o.side][o.price] = <<id>> \o @]
  /\ levelVolume' = [levelVolume EXCEPT ![o.side][o.price] = @ + o.quantity]

(* OrderQueue.Append: queue the order last.                                *)
QueueAppend(id, o) ==
  /\ queue' = [queue EXCEPT ![o.side][o.price] = Append(@, id)]
  /\ levelVolume' = [levelVolume EXCEPT ![o.side][o.price] = @ + o.quantity]

(* Mutant: the volume gains the new quantity and keeps the old one.        *)
QueueUpdateAdding(id, quantity) ==
  LET o == orders[id]
  IN /\ orders' = [orders EXCEPT ![id].quantity = quantity]
     /\ levelVolume' = [levelVolume EXCEPT ![o.side][o.price] = @ + quantity]

(* OrderQueue.Update: the order keeps its place with another quantity.     *)
QueueUpdate(id, quantity) ==
  LET o == orders[id]
  IN /\ orders' = [orders EXCEPT ![id].quantity = quantity]
     /\ levelVolume' = [levelVolume EXCEPT ![o.side][o.price] =
                          @ - o.quantity + quantity]

(* OrderSide.Append: open the level if it is new and queue the order.      *)
SideAppend(id, o) ==
  /\ orders' = [i \in DOMAIN orders \cup {id} |->
                  IF i = id THEN o ELSE orders[i]]
  /\ levels' = [levels EXCEPT ![o.side] = @ \cup {o.price}]
  /\ depth' = IF o.price \in levels[o.side] THEN depth
              ELSE [depth EXCEPT ![o.side] = @ + 1]
  /\ numOrders' = [numOrders EXCEPT ![o.side] = @ + 1]
  /\ volume' = [volume EXCEPT ![o.side] = @ + o.quantity]
  /\ QueueAppend(id, o)

(* Mutant: a level left empty stays open.                                  *)
BookRemoveKeepingLevel(id, i) ==
  LET o == orders[id]
  IN /\ orders' = [j \in DOMAIN orders \ {id} |-> orders[j]]
     /\ queue' = [queue EXCEPT ![o.side][o.price] = RemoveAt(@, i)]
     /\ levelVolume' = [levelVolume EXCEPT ![o.side][o.price] = @ - o.quantity]
     /\ UNCHANGED <<levels, depth>>
     /\ numOrders' = [numOrders EXCEPT ![o.side] = @ - 1]
     /\ volume' = [volume EXCEPT ![o.side] = @ - o.quantity]

(* CancelOrder and OrderSide.Remove: drop the order from the index and from*)
(* its queue, where it has position i, and close a level left empty.       *)
BookRemove(id, i) ==
  LET o == orders[id]
      rest == RemoveAt(queue[o.side][o.price], i)
  IN /\ orders' = [j \in DOMAIN orders \ {id} |-> orders[j]]
     /\ queue' = [queue EXCEPT ![o.side][o.price] = rest]
     /\ levelVolume' = [levelVolume EXCEPT ![o.side][o.price] = @ - o.quantity]
     /\ levels' = IF rest = <<>>
                  THEN [levels EXCEPT ![o.side] = @ \ {o.price}] ELSE levels
     /\ depth' = IF rest = <<>>
                 THEN [depth EXCEPT ![o.side] = @ - 1] ELSE depth
     /\ numOrders' = [numOrders EXCEPT ![o.side] = @ - 1]
     /\ volume' = [volume EXCEPT ![o.side] = @ - o.quantity]

----------------------------------------------------------------------------
(* Mutants: an order without quantity, an id already in the book.          *)
LimitErrorAnyQuantity(id, q, p) ==
  CASE id \in DOMAIN orders -> "ErrOrderExists"
    [] id \notin DOMAIN orders /\ p = 0 -> "ErrInvalidPrice"
    [] OTHER -> "none"
LimitErrorAnyId(id, q, p) ==
  CASE q = 0 -> "ErrInvalidQuantity"
    [] q # 0 /\ p = 0 -> "ErrInvalidPrice"
    [] OTHER -> "none"

(* Entry of a call: the argument checks, in the code's order.              *)
LimitError(id, q, p) ==
  CASE id \in DOMAIN orders -> "ErrOrderExists"
    [] id \notin DOMAIN orders /\ q = 0 -> "ErrInvalidQuantity"
    [] id \notin DOMAIN orders /\ q # 0 /\ p = 0 -> "ErrInvalidPrice"
    [] OTHER -> "none"

MarketError(q) == IF q = 0 THEN "ErrInvalidQuantity" ELSE "none"

Enter(c, e) ==
  /\ pc = "idle"
  /\ call' = c
  /\ err' = e
  /\ pc' = IF e = "none" THEN "matching" ELSE "returned"
  /\ left' = IF e = "none" THEN c.quantity ELSE 0
  /\ UNCHANGED <<book, results>>

ProcessLimitOrder(id, s, q, p) ==
  /\ clock < MaxArrivals
  /\ Enter([kind |-> "limit", id |-> id, side |-> s,
            quantity |-> q, price |-> p], LimitError(id, q, p))

ProcessMarketOrder(s, q) ==
  Enter([kind |-> "market", id |-> nil, side |-> s,
         quantity |-> q, price |-> 0], MarketError(q))

(* processQueue, the head of the best level is larger than what is left:   *)
(* the head stays, with a smaller quantity.                                *)
FillPartially(id) ==
  LET o == orders[id]
  IN /\ left < o.quantity
     /\ QueueUpdate(id, o.quantity - left)
     /\ partial' = id
     /\ processed' = left
     /\ totalQuantity' = totalQuantity + left
     /\ totalPrice' = totalPrice + o.price * left
     /\ left' = 0
     /\ UNCHANGED <<levels, queue, numOrders, depth, volume, clock,
                    pc, call, done, err>>

(* Mutant: a maker is reported at the price of the taker.                  *)
ExecutedAtTakerPrice(id) ==
  [id |-> id, quantity |-> orders[id].quantity, price |-> <<call.price, 1>>]

(* How a maker that is executed whole is reported.                         *)
Executed(id) ==
  [id |-> id, quantity |-> orders[id].quantity, price |-> <<orders[id].price, 1>>]

(* processQueue, the head of the best level is executed and removed.       *)
FillWhole(id) ==
  /\ left >= orders[id].quantity
  /\ BookRemove(id, 1)
  /\ left' = left - orders[id].quantity
  /\ done' = Append(done, Executed(id))
  /\ partial' = nil
  /\ processed' = 0
  /\ totalQuantity' = totalQuantity + orders[id].quantity
  /\ totalPrice' = totalPrice + orders[id].price * orders[id].quantity
  /\ UNCHANGED <<clock, pc, call, err>>

MatchHead ==
  /\ pc = "matching"
  /\ \E p \in levels[Opposite(call.side)] :
       /\ Matchable(p)
       /\ LET head == Head(queue[Opposite(call.side)][p])
          IN FillPartially(head) \/ FillWhole(head)

----------------------------------------------------------------------------
(* Mutant: the order comes to rest with all the quantity it came with.     *)
WholeOrder == [side |-> call.side, quantity |-> call.quantity,
               price |-> call.price, time |-> clock]

Remainder == [side |-> call.side, quantity |-> left,
              price |-> call.price, time |-> clock]

(* Return of a limit order with quantity left: it comes to rest.           *)
RestRemainder ==
  /\ pc = "matching"
  /\ call.kind = "limit"
  /\ left > 0
  /\ ~CanMatch
  /\ SideAppend(call.id, Remainder)
  /\ clock' = clock + 1
  /\ IF Len(done) > 0
     THEN processed' = call.quantity - left /\ partial' = call.id
     ELSE UNCHANGED <<processed, partial>>
  /\ pc' = "returned"
  /\ UNCHANGED <<call, left, done, totalQuantity, totalPrice, err>>

(* Return of an executed limit order: it joins "done" at its average price.*)
ReportTaker ==
  /\ pc = "matching"
  /\ call.kind = "limit"
  /\ left = 0
  /\ ~CanMatch
  /\ done' = Append(done, [id |-> call.id, quantity |-> call.quantity,
                           price |-> <<totalPrice, totalQuantity>>])
  /\ pc' = "returned"
  /\ UNCHANGED <<book, call, left, partial, processed,
                 totalQuantity, totalPrice, err>>

(* Return of a market order: executed, or the opposite side is empty.      *)
ReturnMarket ==
  /\ pc = "matching"
  /\ call.kind = "market"
  /\ ~CanMatch
  /\ pc' = "returned"
  /\ UNCHANGED <<book, call, left, results, err>>

(* The caller has used the results.                                        *)
Return ==
  /\ pc = "returned"
  /\ pc' = "idle"
  /\ call' = NoCall
  /\ left' = 0
  /\ done' = <<>>
  /\ partial' = nil
  /\ processed' = 0
  /\ totalQuantity' = 0
  /\ totalPrice' = 0
  /\ err' = "none"
  /\ UNCHANGED book

CancelOrder(id) ==
  /\ pc = "idle"
  /\ id \in DOMAIN orders
  /\ \E i \in DOMAIN queue[orders[id].side][orders[id].price] :
        /\ queue[orders[id].side][orders[id].price][i] = id
        /\ BookRemove(id, i)
  /\ UNCHANGED <<clock, callVars>>

(* MarshalJSON followed by UnmarshalJSON: the index is rebuilt from the    *)
(* queues, the volumes of the two sides are not part of the JSON.          *)
Reload ==
  /\ pc = "idle"
  /\ orders' = [id \in {i \in DOMAIN orders :
                          \E s \in Side : \E p \in levels[s] :
                             i \in ToSet(queue[s][p])} |-> orders[id]]
  /\ volume' = [s \in Side |-> 0]
  /\ UNCHANGED <<levels, queue, levelVolume, numOrders, depth, clock, callVars>>

Step == MatchHead \/ RestRemainder \/ ReportTaker \/ ReturnMarket \/ Return

Next ==
  \/ \E id \in OrderID, s \in Side, q \in Quantity \cup {0}, p \in Price \cup {0} :
        ProcessLimitOrder(id, s, q, p)
  \/ \E s \in Side, q \in Quantity \cup {0} : ProcessMarketOrder(s, q)
  \/ \E id \in OrderID : CancelOrder(id)
  \/ Reload
  \/ Step

Spec == Init /\ [][Next]_vars

(* Nothing inside a call waits: the goroutine that made it runs it to its  *)
(* return.                                                                 *)
FairSpec == Spec /\ WF_vars(Step)

----------------------------------------------------------------------------
(***************************************************************************)
(* Properties                                                              *)
(***************************************************************************)

(* Every variable has its type.                                            *)
TypeOK ==
  /\ DOMAIN orders \subseteq OrderID
  /\ orders \in [DOMAIN orders -> Order]
  /\ levels \in [Side -> SUBSET Price]
  /\ queue \in [Side -> [Price -> Seq(OrderID)]]
  /\ levelVolume \in [Side -> [Price -> Int]]
  /\ numOrders \in [Side -> Int]
  /\ depth \in [Side -> Int]
  /\ volume \in [Side -> Int]
  /\ clock \in Nat
  /\ pc \in {"idle", "matching", "returned"}
  /\ call \in Call
  /\ left \in Nat
  /\ done \in Seq(Fill)
  /\ partial \in OrderID \cup {nil}
  /\ processed \in Nat
  /\ totalQuantity \in Nat
  /\ totalPrice \in Nat
  /\ err \in {"none", "ErrOrderExists", "ErrInvalidQuantity", "ErrInvalidPrice"}

(* The index and the queues hold the same orders: an indexed order is in   *)
(* the queue of its own side and price, every queued id is indexed under   *)
(* that side and price, and no id is queued twice (CancelOrder finds an    *)
(* order's queue through the order the index returns).                     *)
IndexConsistent ==
  /\ \A id \in DOMAIN orders :
        \E i \in DOMAIN queue[orders[id].side][orders[id].price] :
           queue[orders[id].side][orders[id].price][i] = id
  /\ \A s \in Side, p \in Price : \A i \in DOMAIN queue[s][p] :
        /\ queue[s][p][i] \in DOMAIN orders
        /\ orders[queue[s][p][i]].side = s
        /\ orders[queue[s][p][i]].price = p
        /\ \A j \in DOMAIN queue[s][p] : queue[s][p][i] = queue[s][p][j] => i = j

(* The price levels are exactly the non-empty queues; Len and Depth of a   *)
(* side, which decide whether the loops run and whether a best level is    *)
(* looked up at all, count its orders and its levels.                      *)
LevelsExact ==
  \A s \in Side : levels[s] = {p \in Price : queue[s][p] # <<>>}
OrderCountExact ==
  \A s \in Side : numOrders[s] = Cardinality({id \in DOMAIN orders : orders[id].side = s})
DepthExact ==
  \A s \in Side : depth[s] = Cardinality(levels[s])
CountersExact == LevelsExact /\ OrderCountExact /\ DepthExact

(* The volume of a level is the sum of the quantities queued at it, after  *)
(* partial executions too: Depth and CalculateMarketPrice read it.         *)
LevelVolumeExact ==
  \A s \in Side, p \in Price :
     levelVolume[s][p] =
        SumFunctionOnSet([id \in DOMAIN orders |-> orders[id].quantity],
                         ToSet(queue[s][p]))

(* No resting bid is at or above a resting ask, in a call or between calls.*)
NotCrossed ==
  \A b \in levels["buy"], a \in levels["sell"] : b < a

(* In every queue the orders stand in the order of their arrival, so the   *)
(* head is the oldest: a partial execution must not cost an order its turn.*)
QueueInTimeOrder ==
  \A s \in Side, p \in Price : \A i, j \in DOMAIN queue[s][p] :
     i < j => orders[queue[s][p][i]].time < orders[queue[s][p][j]].time

(* Nothing is lost or made up in a call: what the makers gave and what is  *)
(* left make up the taker's quantity; a remainder that came to rest is     *)
(* reported as partial, with what it has traded, if and only if it traded. *)
QuantityConserved ==
  /\ pc # "idle" /\ err = "none" => left + totalQuantity = call.quantity
  /\ pc = "returned" /\ err = "none" /\ call.kind = "limit" /\ left > 0 =>
        /\ orders[call.id].quantity = left
        /\ processed = totalQuantity
        /\ partial = IF totalQuantity > 0 THEN call.id ELSE nil

(* The totals are those of the results: the sums over the orders in "done" *)
(* and over what the partial order gave.                                   *)
QuantityOf(d) == SumFunction([i \in DOMAIN d |-> d[i].quantity])
PriceOf(d) == SumFunction([i \in DOMAIN d |-> d[i].price[1] * d[i].quantity])
TotalsExact ==
  pc = "matching" =>
    /\ totalQuantity = QuantityOf(done) + processed
    /\ totalPrice = PriceOf(done)
         + IF processed > 0 THEN orders[partial].price * processed ELSE 0

(* The average price of what a limit order has traded (totalPrice divided  *)
(* by totalQuantity) is no worse than its limit.                           *)
WithinTakerLimit ==
  pc # "idle" /\ call.kind = "limit" =>
     IF call.side = "buy" THEN totalPrice <= call.price * totalQuantity
                          ELSE totalPrice >= call.price * totalQuantity

(* CalculateMarketPrice: walk the levels from the best one, taking from    *)
(* each its volume or what is left to price.                               *)
Best(s, ps) ==
  CHOOSE p \in ps : \A r \in ps : IF s = "sell" THEN p <= r ELSE r <= p
Taken(s, p, q) == IF q >= levelVolume[s][p] THEN levelVolume[s][p] ELSE q

CalculateMarketPrice(s, q) ==
  LET opp == Opposite(s)
      walk[ps \in SUBSET levels[opp]] ==
        [n \in Nat |->
          IF n = 0 \/ ps = {} THEN [price |-> 0, left |-> n]
          ELSE LET p == Best(opp, ps)
                   m == Taken(opp, p, n)
                   rest == walk[ps \ {p}][n - m]
               IN [price |-> p * m + rest.price, left |-> rest.left]]
  IN walk[levels[opp]][q]

(* A market order executes at the price quoted for it: at every step, what *)
(* it has paid and the quote for what is left add up to the same amount,   *)
(* and it returns with exactly the quantity the quote could not price.     *)
QuoteHolds ==
  [][pc = "matching" /\ call.kind = "market" =>
       LET before == CalculateMarketPrice(call.side, left)
           after  == CalculateMarketPrice(call.side, left)'
       IN /\ totalPrice + before.price = totalPrice' + after.price
          /\ pc' = "returned" => left = before.left]_vars

(* A call always returns: every iteration uses up the taker or an order.   *)
CallReturns == pc = "matching" ~> pc = "returned"

(* The book keeps what price-time priority promises.                       *)
Promise == INSTANCE PriceTimeBook WITH
  resting <- orders,
  arrivals <- clock,
  taker <- IF pc = "matching" THEN call ELSE NoCall,
  left <- IF pc = "matching" THEN left ELSE 0
PriceTimePriority == Promise!Spec

(* The comment of OrderSide.Volume: it "returns total amount of quantity   *)
(* in side" (orderside.go:49).  The code does not keep it: see the README. *)
SideVolumeExact ==
  [][pc = "matching" =>
       \A s \in Side :
         volume'[s] - volume[s] =
           MapThenSumSet(LAMBDA p : levelVolume'[s][p], Price)
           - MapThenSumSet(LAMBDA p : levelVolume[s][p], Price)]_vars
=============================================================================
