-------------------------------- MODULE Pair --------------------------------
(***************************************************************************)
(* The limit order contract of one trading pair (contract/contract/src).   *)
(* A user deposits the input of an order; a match moves the inputs of two  *)
(* orders to the two creators; a creator may cancel, and after enough      *)
(* epochs anyone may free, an order against a growing penalty.             *)
(*                                                                         *)
(* Transactions run one at a time.  An endpoint that loops over orders is  *)
(* a transaction of several steps: its entry checks, one step per order on *)
(* a working copy of the storage (wOrders, wBalance, owed), and a commit   *)
(* or a revert.  A failed require!, a read of an empty order, a division   *)
(* by zero, a negative BigUint and a transfer beyond the contract's        *)
(* balance all revert.  Callers, amounts and the list of makers are        *)
(* arbitrary.  Not modelled: events, and the field match_provider, which   *)
(* nothing reads.                                                          *)
(***************************************************************************)
EXTENDS Integers, FiniteSets

CONSTANTS
  User,          \* accounts that call the endpoints
  NoUser,        \* no account
  Token,         \* tokens a caller may pay with
  FirstToken,    \* first_token_id, sold by sell orders
  SecondToken,   \* second_token_id, what buy orders are meant to pay with
  Amount,        \* amounts a caller may choose
  MaxOrders,     \* bound: how many orders are ever created
  MaxEpoch,      \* bound: the last epoch
  MaxMakers,     \* bound: how many makers one matchOrdersExt names
  MAX_ORDERS_PER_USER,
  PERCENT_BASE_POINTS,
  FEE_PENALTY_INCREASE_EPOCHS,
  FEE_PENALTY_INCREASE_PERCENT,
  FREE_ORDER_FROM_STORAGE_MIN_PENALTIES

ASSUME UserAssumption == NoUser \notin User
ASSUME TokenAssumption ==
  /\ FirstToken \in Token
  /\ SecondToken \in Token
  /\ FirstToken # SecondToken
ASSUME AmountAssumption == Amount \subseteq Nat
ASSUME BoundAssumption ==
  MaxOrders \in Nat /\ MaxEpoch \in Nat /\ MaxMakers \in Nat
ASSUME FeeAssumption ==
  /\ MAX_ORDERS_PER_USER \in Nat
  /\ PERCENT_BASE_POINTS \in Nat \ {0}
  /\ FEE_PENALTY_INCREASE_EPOCHS \in Nat \ {0}
  /\ FEE_PENALTY_INCREASE_PERCENT \in Nat
  /\ FREE_ORDER_FROM_STORAGE_MIN_PENALTIES \in Nat

VARIABLES
  orders,            \* storage: the non-empty orders, by id
  addressOrderIds,   \* storage: per creator, the ids it may cancel
  orderIdCounter,    \* storage: the next id
  globalOpIsOngoing, \* storage: the owner has paused the endpoints
  balance,           \* what the contract holds of every token
  epoch,             \* the chain's epoch
  tx,                \* the kind of the running transaction, or "none"
  caller,            \* its sender
  takerId,           \* match: the taker's id
  taker,             \* match: the taker's record in memory
  rounds,            \* match: makers processed
  owed,              \* match: the transfers collected, per token
  todo,              \* cancel, free: the orders still to process
  wOrders, wBalance  \* the storage and the balance the transaction sees

storage == <<orders, addressOrderIds, orderIdCounter, globalOpIsOngoing, balance>>
txVars == <<tx, caller, takerId, taker, rounds, owed, todo, wOrders, wBalance>>
vars == <<storage, epoch, txVars>>

----------------------------------------------------------------------------
OrderType == {"Buy", "Sell"}

Order == [creator : User, type : OrderType,
          input : Nat, output : Nat, epoch : Nat]

NoOrder == [creator |-> NoUser, type |-> "Buy",
            input |-> 0, output |-> 0, epoch |-> 0]
Nothing == [t \in Token |-> 0]

(* Mutant: the quotient is rounded up.                                     *)
RuleOfThreeUp(part, total, value) == (part * value + total - 1) \div total

RuleOfThree(part, total, value) == (part * value) \div total

(* Mutant: all orders, whoever created them.                               *)
AllOrderIds(u) == DOMAIN orders

(* get_address_order_ids: the ids of the caller whose orders still exist.  *)
GetAddressOrderIds(u) == addressOrderIds[u] \cap DOMAIN orders

(* What an order deposited, by its type: a buy order is taken to have paid *)
(* in the second token whatever it paid in.                                *)
DepositToken(o) == IF o.type = "Buy" THEN SecondToken ELSE FirstToken

PenaltyCount(o) == (epoch - o.epoch) \div FEE_PENALTY_INCREASE_EPOCHS
PenaltyAmount(o) ==
  RuleOfThree(PenaltyCount(o) * FEE_PENALTY_INCREASE_PERCENT,
              PERCENT_BASE_POINTS, o.input)

Init ==
  /\ orders = [id \in {} |-> NoOrder]
  /\ addressOrderIds = [u \in User |-> {}]
  /\ orderIdCounter = 0
  /\ globalOpIsOngoing = FALSE
  /\ balance = Nothing
  /\ epoch = 0
  /\ tx = "none"
  /\ caller = NoUser
  /\ takerId = 0
  /\ taker = NoOrder
  /\ rounds = 0
  /\ owed = Nothing
  /\ todo = {}
  /\ wOrders = [id \in {} |-> NoOrder]
  /\ wBalance = Nothing

----------------------------------------------------------------------------
(* createBuyOrder and createSellOrder.  The token of a sell order is       *)
(* checked, that of a buy order is not.                                    *)
CreateOrder(u, type, token, input, output) ==
  LET id == orderIdCounter
      o == [creator |-> u, type |-> type, input |-> input,
            output |-> output, epoch |-> epoch]
  IN /\ tx = "none"
     /\ ~globalOpIsOngoing
     /\ orderIdCounter < MaxOrders
     /\ type = "Sell" => token = FirstToken
     /\ Cardinality(GetAddressOrderIds(u)) < MAX_ORDERS_PER_USER
     /\ orderIdCounter' = orderIdCounter + 1
     /\ orders' = [i \in DOMAIN orders \cup {id} |->
                     IF i = id THEN o ELSE orders[i]]
     /\ addressOrderIds' =
          [addressOrderIds EXCEPT ![u] = {id} \cup GetAddressOrderIds(u)]
     /\ balance' = [balance EXCEPT ![token] = @ + input]
     /\ wOrders' = orders'
     /\ wBalance' = balance'
     /\ UNCHANGED <<globalOpIsOngoing, epoch, tx, caller, takerId, taker,
                    rounds, owed, todo>>

----------------------------------------------------------------------------
(* The end of a transaction: everything it wrote becomes visible, or none  *)
(* of it.                                                                  *)
TxEnd ==
  /\ tx' = "none"
  /\ caller' = NoUser
  /\ takerId' = 0
  /\ taker' = NoOrder
  /\ rounds' = 0
  /\ owed' = Nothing
  /\ todo' = {}

Commit(newOrders, newBalance) ==
  /\ orders' = newOrders
  /\ balance' = newBalance
  /\ wOrders' = newOrders
  /\ wBalance' = newBalance
  /\ TxEnd
  /\ UNCHANGED <<orderIdCounter, globalOpIsOngoing, epoch>>

Revert ==
  /\ wOrders' = orders
  /\ wBalance' = balance
  /\ TxEnd
  /\ UNCHANGED <<storage, epoch>>

----------------------------------------------------------------------------
(* matchOrdersExt: anyone names a taker and makers.                        *)
BeginMatch(t) ==
  /\ tx = "none"
  /\ ~globalOpIsOngoing
  /\ t \in DOMAIN orders
  /\ tx' = "match"
  /\ takerId' = t
  /\ taker' = orders[t]
  /\ UNCHANGED <<storage, epoch, caller, rounds, owed, todo, wOrders, wBalance>>

(* One maker: the new records and what the two creators are to be paid.    *)
Owe(type, toMaker, toTaker) ==
  LET paysMaker == IF type = "Sell" THEN FirstToken ELSE SecondToken
      paysTaker == IF type = "Sell" THEN SecondToken ELSE FirstToken
  IN owed' = [owed EXCEPT ![paysMaker] = @ + toMaker,
                          ![paysTaker] = @ + toTaker]

(* A selling taker has at least what the maker wants.  The maker is paid   *)
(* all the taker has left; the maker's record stays as it is.              *)
SellWhole(m) ==
  LET maker == wOrders[m]
      out == RuleOfThree(taker.output, taker.input, maker.output)
  IN /\ taker.type = "Sell"
     /\ taker.input >= maker.output
     /\ taker.input > 0
     /\ taker' = [taker EXCEPT !.input = @ - maker.output, !.output = @ - out]
     /\ wOrders' = [wOrders EXCEPT ![takerId] = taker']
     /\ Owe("Sell", taker.input, maker.input)

(* The maker wants more than a selling taker has: only the maker's record  *)
(* is written.                                                             *)
SellPart(m) ==
  LET maker == wOrders[m]
      in == RuleOfThree(maker.input, maker.output, taker.input)
  IN /\ taker.type = "Sell"
     /\ taker.input < maker.output
     /\ wOrders' = [wOrders EXCEPT
                      ![m] = [maker EXCEPT !.input = @ - in,
                                           !.output = @ - taker.input]]
     /\ Owe("Sell", taker.input, taker.output)
     /\ UNCHANGED taker

(* Mutant: the maker is paid all the taker has, as in SellWhole.           *)
BuyWholePaysAll(m) ==
  LET maker == wOrders[m]
      in == RuleOfThree(taker.input, taker.output, maker.input)
  IN /\ taker.type = "Buy"
     /\ taker.output >= maker.input
     /\ taker.output > 0
     /\ taker' = [taker EXCEPT !.input = @ - in, !.output = @ - maker.input]
     /\ wOrders' = [wOrders EXCEPT ![takerId] = taker']
     /\ Owe("Buy", taker.input, maker.input)

(* A buying taker wants at least what the maker has.                       *)
BuyWhole(m) ==
  LET maker == wOrders[m]
      in == RuleOfThree(taker.input, taker.output, maker.input)
  IN /\ taker.type = "Buy"
     /\ taker.output >= maker.input
     /\ taker.output > 0
     /\ taker' = [taker EXCEPT !.input = @ - in, !.output = @ - maker.input]
     /\ wOrders' = [wOrders EXCEPT ![takerId] = taker']
     /\ Owe("Buy", maker.output, maker.input)

(* Mutant: the maker's new amounts are written to the taker's record.      *)
BuyPartToTaker(m) ==
  LET maker == wOrders[m]
      out == RuleOfThree(maker.output, maker.input, taker.output)
  IN /\ taker.type = "Buy"
     /\ taker.output < maker.input
     /\ wOrders' = [wOrders EXCEPT ![takerId] =
                      [maker EXCEPT !.input = @ - taker.output, !.output = @ - out]]
     /\ Owe("Buy", out, taker.output)
     /\ UNCHANGED taker

(* The maker has more than a buying taker wants.                           *)
BuyPart(m) ==
  LET maker == wOrders[m]
      out == RuleOfThree(maker.output, maker.input, taker.output)
  IN /\ taker.type = "Buy"
     /\ taker.output < maker.input
     /\ wOrders' = [wOrders EXCEPT
                      ![m] = [maker EXCEPT !.input = @ - taker.output,
                                           !.output = @ - out]]
     /\ Owe("Buy", out, taker.output)
     /\ UNCHANGED taker

MatchMaker(m) ==
  /\ tx = "match"
  /\ rounds < MaxMakers
  /\ m \in DOMAIN wOrders
  /\ SellWhole(m) \/ SellPart(m) \/ BuyWhole(m) \/ BuyPart(m)
  /\ rounds' = rounds + 1
  /\ UNCHANGED <<storage, epoch, tx, caller, takerId, todo, wBalance>>

(* Mutant: transfers are made whatever the contract holds.                 *)
CommitMatchUnchecked ==
  /\ tx = "match"
  /\ Commit(wOrders, [t \in Token |-> balance[t] - owed[t]])
  /\ UNCHANGED addressOrderIds

(* execute_transfers after the last maker.                                 *)
CommitMatch ==
  /\ tx = "match"
  /\ \A t \in Token : owed[t] <= balance[t]
  /\ Commit(wOrders, [t \in Token |-> balance[t] - owed[t]])
  /\ UNCHANGED addressOrderIds

(* A maker that does not exist, a division by zero, or a transfer the      *)
(* contract cannot make.                                                   *)
RevertMatch ==
  /\ tx = "match"
  /\ \/ rounds < MaxMakers
     \/ \E t \in Token : owed[t] > balance[t]
  /\ Revert

----------------------------------------------------------------------------
(* cancelOrders: the caller names orders of its own, at least one;         *)
(* cancelAllOrders: all of them, possibly none.                            *)
BeginCancel(u, ids) ==
  /\ tx = "none"
  /\ ~globalOpIsOngoing
  /\ ids \subseteq GetAddressOrderIds(u)
  /\ ids # {} \/ GetAddressOrderIds(u) = {}
  /\ tx' = "cancel"
  /\ caller' = u
  /\ todo' = ids
  /\ UNCHANGED <<storage, epoch, takerId, taker, rounds, owed, wOrders, wBalance>>

(* freeOrders: orders that are not the caller's; ids without order are     *)
(* skipped.                                                                *)
BeginFree(u, ids) ==
  /\ tx = "none"
  /\ ~globalOpIsOngoing
  /\ ids # {}
  /\ ids \cap GetAddressOrderIds(u) = {}
  /\ tx' = "free"
  /\ caller' = u
  /\ todo' = ids \cap DOMAIN orders
  /\ UNCHANGED <<storage, epoch, takerId, taker, rounds, owed, wOrders, wBalance>>

(* Mutant: a penalty greater than the deposit does not revert.             *)
ReleaseWhateverPenalty(id, paid) ==
  LET o == wOrders[id]
  IN /\ paid <= wBalance[DepositToken(o)]
     /\ wOrders' = [i \in DOMAIN wOrders \ {id} |-> wOrders[i]]
     /\ wBalance' = [wBalance EXCEPT ![DepositToken(o)] = @ - paid]
     /\ todo' = todo \ {id}
     /\ UNCHANGED <<storage, epoch, tx, caller, takerId, taker, rounds, owed>>

(* The order leaves the storage and its deposit leaves the contract: to    *)
(* the creator, less a penalty that a cancellation keeps in the contract   *)
(* and a free pays to the caller.                                          *)
Release(id, paid) ==
  LET o == wOrders[id]
  IN /\ PenaltyAmount(o) <= o.input
     /\ paid <= wBalance[DepositToken(o)]
     /\ wOrders' = [i \in DOMAIN wOrders \ {id} |-> wOrders[i]]
     /\ wBalance' = [wBalance EXCEPT ![DepositToken(o)] = @ - paid]
     /\ todo' = todo \ {id}
     /\ UNCHANGED <<storage, epoch, tx, caller, takerId, taker, rounds, owed>>

CancelOrder(id) ==
  /\ tx = "cancel"
  /\ id \in todo
  /\ Release(id, wOrders[id].input - PenaltyAmount(wOrders[id]))

(* Mutant: an order is freed before it has collected its penalties.        *)
FreeOrderEarly(id) ==
  /\ tx = "free"
  /\ id \in todo
  /\ Release(id, wOrders[id].input)

FreeOrder(id) ==
  /\ tx = "free"
  /\ id \in todo
  /\ PenaltyCount(wOrders[id]) >= FREE_ORDER_FROM_STORAGE_MIN_PENALTIES
  /\ Release(id, wOrders[id].input)

(* final_caller_orders is always empty: it would only take an id that is   *)
(* not in the caller's index.                                              *)
CommitCancel ==
  /\ tx = "cancel"
  /\ todo = {}
  /\ addressOrderIds' = [addressOrderIds EXCEPT ![caller] = {}]
  /\ Commit(wOrders, wBalance)

(* Mutant: a free rebuilds the caller's index from the storage.            *)
CommitFreeByCreator ==
  /\ tx = "free"
  /\ todo = {}
  /\ addressOrderIds' = [addressOrderIds EXCEPT ![caller] =
                           {id \in DOMAIN wOrders : wOrders[id].creator = caller}]
  /\ Commit(wOrders, wBalance)

CommitFree ==
  /\ tx = "free"
  /\ todo = {}
  /\ Commit(wOrders, wBalance)
  /\ UNCHANGED addressOrderIds

(* An order that is too young to be freed, whose penalty is more than its  *)
(* deposit, or whose deposit the contract no longer has; or an id the      *)
(* caller gave twice (its second read finds no order).                     *)
RevertRelease ==
  /\ \/ /\ tx = "free"
        /\ \E id \in todo :
             PenaltyCount(wOrders[id]) < FREE_ORDER_FROM_STORAGE_MIN_PENALTIES
     \/ /\ tx \in {"cancel", "free"}
        /\ \E id \in todo :
             LET o == wOrders[id]
                 paid == IF tx = "free" THEN o.input ELSE o.input - PenaltyAmount(o)
             IN PenaltyAmount(o) > o.input \/ paid > wBalance[DepositToken(o)]
     \/ tx \in {"cancel", "free"} /\ wOrders # orders
  /\ Revert

----------------------------------------------------------------------------
(* startGlobalOperation and stopGlobalOperation, for the owner only.       *)
SetGlobalOp ==
  /\ tx = "none"
  /\ globalOpIsOngoing' = ~globalOpIsOngoing
  /\ UNCHANGED <<orders, addressOrderIds, orderIdCounter, balance, epoch, txVars>>

(* The chain's clock.                                                      *)
NextEpoch ==
  /\ tx = "none"
  /\ epoch < MaxEpoch
  /\ epoch' = epoch + 1
  /\ UNCHANGED <<storage, txVars>>

Next ==
  \/ \E u \in User, type \in OrderType, token \in Token,
        input \in Amount \ {0}, output \in Amount :
          CreateOrder(u, type, token, input, output)
  \/ \E t \in DOMAIN orders : BeginMatch(t)
  \/ \E m \in DOMAIN wOrders : MatchMaker(m)
  \/ CommitMatch
  \/ RevertMatch
  \/ \E u \in User : \E ids \in SUBSET GetAddressOrderIds(u) : BeginCancel(u, ids)
  \/ \E u \in User : \E ids \in SUBSET (0..MaxOrders) : BeginFree(u, ids)
  \/ \E id \in todo : CancelOrder(id)
  \/ \E id \in todo : FreeOrder(id)
  \/ CommitCancel
  \/ CommitFree
  \/ RevertRelease
  \/ SetGlobalOp
  \/ NextEpoch

Spec == Init /\ [][Next]_vars

----------------------------------------------------------------------------
(***************************************************************************)
(* Properties                                                              *)
(***************************************************************************)

(* Every variable has its type.                                            *)
TypeOK ==
  /\ DOMAIN orders \subseteq Nat /\ orders \in [DOMAIN orders -> Order]
  /\ addressOrderIds \in [User -> SUBSET Nat]
  /\ orderIdCounter \in Nat
  /\ globalOpIsOngoing \in BOOLEAN
  /\ balance \in [Token -> Nat]
  /\ epoch \in Nat
  /\ tx \in {"none", "match", "cancel", "free"}
  /\ caller \in User \cup {NoUser}
  /\ takerId \in Nat
  /\ taker \in Order \cup {NoOrder}
  /\ rounds \in Nat
  /\ owed \in [Token -> Nat]
  /\ todo \in SUBSET Nat
  /\ DOMAIN wOrders \subseteq Nat /\ wOrders \in [DOMAIN wOrders -> Order]
  /\ wBalance \in [Token -> Nat]

(* An id is handed out once, stands in the index of at most one user, and  *)
(* where its order exists that user is its creator: cancelOrders trusts    *)
(* the index alone and pays the caller without looking at the creator.     *)
IndexOwned ==
  /\ \A id \in DOMAIN orders : id < orderIdCounter
  /\ \A u \in User : \A id \in addressOrderIds[u] :
        /\ id < orderIdCounter
        /\ \A v \in User \ {u} : id \notin addressOrderIds[v]
        /\ id \in DOMAIN orders => orders[id].creator = u

(* b would buy at the price s asks.                                        *)
Cross(s, b) == s.output * b.output <= b.input * s.input

(* No endpoint changes whose order it is, its type or its age (which the   *)
(* penalty grows with), and none makes an amount grow, whatever the taker  *)
(* and the makers of a match are.                                          *)
KeepsTerms(o, n) ==
  /\ n.creator = o.creator
  /\ n.type = o.type
  /\ n.epoch = o.epoch
  /\ n.input <= o.input
  /\ n.output <= o.output
TermsKept ==
  [][\A id \in DOMAIN orders \cap DOMAIN orders' :
       KeepsTerms(orders[id], orders'[id])]_vars

(* In a fill of a buyer and a seller, rounding never turns the price       *)
(* against the order it is applied to: a buyer keeps at least the input    *)
(* per unit that it offered, a seller asks at least the output per unit    *)
(* that it asked.                                                          *)
KeepsPrice(o, n) ==
  IF o.type = "Buy" THEN n.input * o.output >= o.input * n.output
                    ELSE n.output * o.input >= o.output * n.input
RoundingKeepsPrice ==
  [][\A m \in DOMAIN wOrders \ {takerId} :
       /\ tx = "match"
       /\ wOrders[m].type # taker.type
       /\ SellWhole(m) \/ SellPart(m) \/ BuyWhole(m) \/ BuyPart(m)
       => KeepsPrice(taker, taker') /\ KeepsPrice(wOrders[m], wOrders'[m])]_vars

(* An order leaves the storage only when its creator cancels it or when    *)
(* someone who may not cancel it frees it after the minimal number of      *)
(* penalties; executing an order does not remove it.                       *)
ExitJustified ==
  [][\A id \in DOMAIN orders \ DOMAIN orders' :
       \/ /\ tx = "cancel"
          /\ caller = orders[id].creator
       \/ /\ tx = "free"
          /\ id \notin addressOrderIds[caller]
          /\ PenaltyCount(orders[id]) >= FREE_ORDER_FROM_STORAGE_MIN_PENALTIES]_vars

(* An id once used is not used again, and an order that has dropped out of *)
(* its creator's index never returns to it: from then on it can only be    *)
(* freed.                                                                  *)
OrphansStay ==
  [][\A id \in 0..(orderIdCounter - 1) :
       /\ id \notin DOMAIN orders => id \notin DOMAIN orders'
       /\ \A u \in User : id \notin GetAddressOrderIds(u)
             => id \notin GetAddressOrderIds(u)']_vars

(* Once the penalty on an order exceeds what it deposited, neither its     *)
(* creator nor anyone else gets it out of the storage (BigUint subtraction *)
(* reverts).                                                               *)
LateOrdersStay ==
  [][\A id \in DOMAIN orders :
       PenaltyAmount(orders[id]) > orders[id].input => id \in DOMAIN orders']_vars

(* What a party of a fill spends: the input its record loses or, when the  *)
(* fill executes the order and leaves its record alone, all its input.     *)
Spent(o, n) == IF n = o THEN o.input ELSE o.input - n.input

(* Each creator is paid no more than the other spends.                     *)
Funded(m) ==
  LET pays == IF taker.type = "Sell" THEN FirstToken ELSE SecondToken
      gets == IF taker.type = "Sell" THEN SecondToken ELSE FirstToken
  IN /\ owed'[pays] - owed[pays] <= Spent(taker, taker')
     /\ owed'[gets] - owed[gets] <= Spent(wOrders[m], wOrders'[m])

(* A fill of two orders that cross is funded.                              *)
FundedFill(m) ==
  LET maker == wOrders[m]
  IN /\ m # takerId
     /\ maker.type # taker.type
     /\ IF taker.type = "Buy" THEN Cross(maker, taker) ELSE Cross(taker, maker)
     => Funded(m)

(* Every fill but the first kind is funded: a buyer that takes a seller    *)
(* whole or in part, and a seller that takes a buyer in part.              *)
FillsFunded ==
  [][\A m \in DOMAIN wOrders :
       tx = "match" /\ (SellPart(m) \/ BuyWhole(m) \/ BuyPart(m)) => FundedFill(m)]_vars

(* The contract "transfer[s] respective assets between the trading         *)
(* parties" (README.md:22): the same for a seller that takes a buyer       *)
(* whole.  The code pays that buyer all the seller has: see the README.    *)
SellSweepFunded ==
  [][\A m \in DOMAIN wOrders : tx = "match" /\ SellWhole(m) => FundedFill(m)]_vars

(* "Cannot place more orders" (validation.rs:101): nobody has more than    *)
(* MAX_ORDERS_PER_USER orders in the storage.  The code forgets the orders *)
(* a cancellation leaves: see the README.                                  *)
MaxOrdersPerUser ==
  \A u \in User :
    Cardinality({id \in DOMAIN orders : orders[id].creator = u}) <= MAX_ORDERS_PER_USER
=============================================================================
