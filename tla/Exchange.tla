------------------------------ MODULE Exchange ------------------------------
(***************************************************************************)
(* The book and the contract of one market together: the orders that users *)
(* place on the contract arrive at the book (OrderBook) as a quantity and a*)
(* price, and what the book matches is executed by the contract (Pair) on  *)
(* the amounts it holds.  The two never compare notes: the book keeps the  *)
(* quantity of an order in base units and its price rounded to a fixed     *)
(* number of digits, the contract keeps input and output amounts and       *)
(* divides integers.  This module says what they agree on.                 *)
(*                                                                         *)
(* The way between them is reliable and in order here (Settlement says     *)
(* what may happen to it), nobody cancels, and matches are the launcher's. *)
(* Amounts are positive: the notifier cannot divide by an output of zero.  *)
(***************************************************************************)
EXTENDS Integers, Sequences, FiniteSets, Functions

CONSTANTS
  User,                    \* accounts that place orders
  NoUser,                  \* no account
  FirstToken, SecondToken, \* base and quote token
  Amount,                  \* amounts an order may deposit or ask
  MaxOrders,               \* bound: how many orders are placed
  Scale                    \* 10^16, the DivisionPrecision of decimals

(* Amounts are positive and, as the supply of a token, limited.            *)
ASSUME AmountAssumption == Amount \subseteq Nat \ {0} /\ IsFiniteSet(Amount)
ASSUME AccountAssumption == NoUser \notin User /\ FirstToken # SecondToken
ASSUME OrdersAssumption == MaxOrders \in Nat
ASSUME ScaleAssumption == Scale \in Nat \ {0}

VARIABLES
  orders, addressOrderIds, orderIdCounter, globalOpIsOngoing, balance, epoch,
  tx, caller, takerId, taker, rounds, owed, todo, wOrders, wBalance,
  bookOrders, levels, queue, levelVolume, numOrders, depth, volume, clock,
  pc, call, left, done, partial, processed, totalQuantity, totalPrice, err,
  arriving,  \* new orders on their way to the book
  matches,   \* matches on their way to the contract
  makers,    \* makers the running transaction has still to process
  short,     \* some fill paid out more than its two orders gave up
  reverted   \* some match has failed on the contract

contractVars == <<orders, addressOrderIds, orderIdCounter, globalOpIsOngoing,
                  balance, epoch, tx, caller, takerId, taker, rounds, owed,
                  todo, wOrders, wBalance>>
bookVars == <<bookOrders, levels, queue, levelVolume, numOrders, depth, volume,
              clock, pc, call, left, done, partial, processed, totalQuantity,
              totalPrice, err>>
vars == <<contractVars, bookVars, arriving, matches, makers, short, reverted>>

----------------------------------------------------------------------------
(* shopspring/decimal Div: the quotient in units of the last digit, rounded*)
(* half up.                                                                *)
Quotient(a, b) == (2 * Scale * a + b) \div (2 * b)

(* handleCreateOrder: the quantity of an order is its amount of the base   *)
(* token, its price the quote tokens per base token.                       *)
EngineQuantity(o) == IF o.type = "Buy" THEN o.output ELSE o.input
EnginePrice(o) == IF o.type = "Buy" THEN Quotient(o.input, o.output)
                                    ELSE Quotient(o.output, o.input)
EngineSide(o) == IF o.type = "Buy" THEN "buy" ELSE "sell"

(* The prices the book of this market can meet; it refuses zero.           *)
EnginePrices == {Quotient(a, b) : a \in Amount, b \in Amount} \ {0}

(* Mutant: every order pays with the base token.                           *)
PayBase(type) == FirstToken

(* What the frontend pays with: quote tokens to buy, base tokens to sell.  *)
Payment(type) == IF type = "Buy" THEN SecondToken ELSE FirstToken

Contract == INSTANCE Pair WITH
  Token <- {FirstToken, SecondToken},
  MaxEpoch <- 0,
  MaxMakers <- MaxOrders,
  MAX_ORDERS_PER_USER <- MaxOrders,
  PERCENT_BASE_POINTS <- 1,
  FEE_PENALTY_INCREASE_EPOCHS <- 1,
  FEE_PENALTY_INCREASE_PERCENT <- 1,
  FREE_ORDER_FROM_STORAGE_MIN_PENALTIES <- 1

Book == INSTANCE OrderBook WITH
  orders <- bookOrders,
  OrderID <- 0..(MaxOrders - 1),
  Price <- EnginePrices,
  Quantity <- Amount,
  MaxArrivals <- MaxOrders,
  nil <- MaxOrders

Init ==
  /\ Contract!Init
  /\ Book!Init
  /\ arriving = <<>>
  /\ matches = <<>>
  /\ makers = <<>>
  /\ short = FALSE
  /\ reverted = FALSE

----------------------------------------------------------------------------
(* A user places an order; its event becomes a new order for the engine.   *)
Place(u, type, input, output) ==
  LET o == [type |-> type, input |-> input, output |-> output]
  IN /\ Contract!CreateOrder(u, type, Payment(type), input, output)
     /\ arriving' = Append(arriving, [id |-> orderIdCounter, order |-> o])
     /\ UNCHANGED <<bookVars, matches, makers, short, reverted>>

(* Market.processLimitOrder up to the call of the book.                    *)
Arrive ==
  /\ arriving # <<>>
  /\ LET new == Head(arriving)
     IN Book!ProcessLimitOrder(new.id, EngineSide(new.order),
                               EngineQuantity(new.order), EnginePrice(new.order))
  /\ arriving' = Tail(arriving)
  /\ UNCHANGED <<contractVars, matches, makers, short, reverted>>

BookStep ==
  /\ Book!MatchHead \/ Book!RestRemainder \/ Book!ReportTaker
  /\ UNCHANGED <<contractVars, arriving, matches, makers, short, reverted>>

(* The orders in "done" but the taker, which an executed taker is last of. *)
DoneMakers ==
  LET n == Len(done)
  IN [i \in 1..(IF n > 0 /\ done[n].id = call.id THEN n - 1 ELSE n) |-> done[i].id]

(* The partial order, unless it is the taker that came to rest.            *)
PartialMaker == IF partial \in {MaxOrders, call.id} THEN <<>> ELSE <<partial>>

(* Mutant: the order that was executed in part is named first.             *)
MakersPartialFirst == PartialMaker \o DoneMakers

(* The makers of the match: the orders in "done", then the partial one,    *)
(* without the taker.                                                      *)
Makers == DoneMakers \o PartialMaker

(* Market.processLimitOrder after the call: a match, if there is one, goes *)
(* to the launcher.                                                        *)
Submit ==
  /\ Book!Return
  /\ matches' = IF done = <<>> /\ partial = MaxOrders THEN matches
                ELSE Append(matches, [taker |-> call.id, makers |-> Makers])
  /\ UNCHANGED <<contractVars, arriving, makers, short, reverted>>

----------------------------------------------------------------------------
(* The launcher's transactions are executed in the order they were sent.   *)
Execute ==
  /\ matches # <<>>
  /\ Contract!BeginMatch(Head(matches).taker)
  /\ makers' = Head(matches).makers
  /\ matches' = Tail(matches)
  /\ UNCHANGED <<bookVars, arriving, short, reverted>>

FillNext ==
  /\ makers # <<>>
  /\ Contract!MatchMaker(Head(makers))
  /\ makers' = Tail(makers)
  /\ short' = (short \/ ~Contract!Funded(Head(makers)))
  /\ UNCHANGED <<bookVars, arriving, matches, reverted>>

Commit ==
  /\ makers = <<>>
  /\ Contract!CommitMatch
  /\ UNCHANGED <<bookVars, arriving, matches, makers, short, reverted>>

(* A fill divides by zero, or the contract cannot make the transfers.      *)
Fail ==
  /\ tx = "match"
  /\ IF makers = <<>>
     THEN \E t \in {FirstToken, SecondToken} : owed[t] > balance[t]
     ELSE LET maker == wOrders[Head(makers)]
          IN IF taker.type = "Sell" THEN taker.input = 0 /\ maker.output = 0
                                    ELSE taker.output = 0 /\ maker.input = 0
  /\ Contract!RevertMatch
  /\ makers' = <<>>
  /\ reverted' = TRUE
  /\ UNCHANGED <<bookVars, arriving, matches, short>>

Next ==
  \/ \E u \in User, type \in {"Buy", "Sell"}, input, output \in Amount :
        Place(u, type, input, output)
  \/ Arrive
  \/ BookStep
  \/ Submit
  \/ Execute
  \/ FillNext
  \/ Commit
  \/ Fail

Spec == Init /\ [][Next]_vars

----------------------------------------------------------------------------
(***************************************************************************)
(* Properties                                                              *)
(***************************************************************************)

Settled == pc = "idle" /\ matches = <<>> /\ tx = "none"

(* While no match has failed and none is outstanding, an order rests in the*)
(* book with exactly the base amount that its record on the contract still *)
(* has, through any sequence of whole and partial fills of takers and      *)
(* makers: the branches the contract takes on amounts are the ones the book*)
(* took on quantities.                                                     *)
BookAgrees ==
  Settled /\ ~reverted =>
    \A id \in DOMAIN bookOrders :
      /\ EngineQuantity(orders[id]) = bookOrders[id].quantity
      /\ EngineSide(orders[id]) = bookOrders[id].side

(* The record of a resting order never gets worse for its creator than the *)
(* price in the book, but for the last digit of that price: integer        *)
(* division in the fills does not eat into it, and matches that fail do    *)
(* not either.                                                             *)
RestingPriceKept ==
  \A id \in DOMAIN bookOrders \cap DOMAIN orders :
    LET o == orders[id]
        p == bookOrders[id].price
    IN IF o.type = "Buy" THEN 2 * Scale * o.input >= (2 * p - 1) * o.output
                         ELSE 2 * Scale * o.output >= (2 * p - 1) * o.input

(* As long as no fill was short, the contract holds the whole deposit of   *)
(* every order that rests in the book.                                     *)
RestingCovered ==
  Settled /\ ~short =>
    LET deposit == [id \in DOMAIN orders |-> orders[id].input]
    IN /\ SumFunctionOnSet(deposit, {id \in DOMAIN bookOrders : orders[id].type = "Sell"})
            <= balance[FirstToken]
       /\ SumFunctionOnSet(deposit, {id \in DOMAIN bookOrders : orders[id].type = "Buy"})
            <= balance[SecondToken]

(* What the book matches the contract can execute: a match fails only after*)
(* a fill that paid out more than its two orders gave up.                  *)
MatchesExecute == reverted => short
=============================================================================
