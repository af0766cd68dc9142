--------------------------- MODULE PriceTimeBook ---------------------------
(***************************************************************************)
(* What a limit order book promises, without queues, levels or counters: a *)
(* set of resting orders and at most one incoming order, which trades with *)
(* the crossing order of the other side that has the best price and, among *)
(* those, the earliest arrival, one at a time, until it is used up or      *)
(* nothing crosses; what is left of a limit order then rests.              *)
(***************************************************************************)
EXTENDS Integers

CONSTANTS OrderID, Price, Quantity, MaxArrivals, nil

VARIABLES
  resting,   \* id -> the resting order
  arrivals,  \* how many orders have come to rest
  taker,     \* the incoming order, or NoTaker
  left       \* what is left of it

vars == <<resting, arrivals, taker, left>>

Side == {"buy", "sell"}
NoTaker == [kind |-> "none", id |-> nil, side |-> "buy", quantity |-> 0, price |-> 0]

Crosses(o) ==
  /\ taker.kind # "none"
  /\ o.side # taker.side
  /\ \/ taker.kind = "market"
     \/ taker.side = "buy" /\ o.price <= taker.price
     \/ taker.side = "sell" /\ o.price >= taker.price

Crossing == {id \in DOMAIN resting : Crosses(resting[id])}

(* o has priority over r: a better price, or the same and an earlier time. *)
Precedes(o, r) ==
  \/ IF o.side = "sell" THEN o.price < r.price ELSE o.price > r.price
  \/ o.price = r.price /\ o.time < r.time

Init ==
  /\ resting = [id \in {} |-> 0]
  /\ arrivals = 0
  /\ taker = NoTaker
  /\ left = 0

Arrive(kind, id, s, q, p) ==
  /\ taker = NoTaker
  /\ kind = "limit" => id \notin DOMAIN resting /\ arrivals < MaxArrivals
  /\ taker' = [kind |-> kind, id |-> id, side |-> s, quantity |-> q, price |-> p]
  /\ left' = q
  /\ UNCHANGED <<resting, arrivals>>

Trade ==
  \E id \in Crossing :
    LET o == resting[id]
    IN /\ left > 0
       /\ \A r \in Crossing \ {id} : Precedes(o, resting[r])
       /\ IF left < o.quantity
          THEN /\ resting' = [resting EXCEPT ![id].quantity = @ - left]
               /\ left' = 0
          ELSE /\ resting' = [r \in DOMAIN resting \ {id} |-> resting[r]]
               /\ left' = left - o.quantity
       /\ UNCHANGED <<arrivals, taker>>

Rest ==
  /\ taker.kind = "limit"
  /\ left > 0
  /\ Crossing = {}
  /\ resting' = [id \in DOMAIN resting \cup {taker.id} |->
                   IF id = taker.id
                   THEN [side |-> taker.side, quantity |-> left,
                         price |-> taker.price, time |-> arrivals]
                   ELSE resting[id]]
  /\ arrivals' = arrivals + 1
  /\ taker' = NoTaker
  /\ left' = 0

(* The order is used up, or it is a market order nothing is left for.      *)
Leave ==
  /\ taker # NoTaker
  /\ left = 0 \/ (taker.kind = "market" /\ Crossing = {})
  /\ taker' = NoTaker
  /\ left' = 0
  /\ UNCHANGED <<resting, arrivals>>

Cancel(id) ==
  /\ taker = NoTaker
  /\ resting' = [r \in DOMAIN resting \ {id} |-> resting[r]]
  /\ UNCHANGED <<arrivals, taker, left>>

Next ==
  \/ \E id \in OrderID, s \in Side, q \in Quantity, p \in Price :
        Arrive("limit", id, s, q, p)
  \/ \E s \in Side, q \in Quantity : Arrive("market", nil, s, q, 0)
  \/ Trade
  \/ Rest
  \/ Leave
  \/ \E id \in DOMAIN resting : Cancel(id)

(* The incoming order does not wait for ever.                              *)
Spec == Init /\ [][Next]_vars /\ WF_vars(Trade \/ Rest \/ Leave)
=============================================================================
