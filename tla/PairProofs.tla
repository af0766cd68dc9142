----------------------------- MODULE PairProofs -----------------------------
(***************************************************************************)
(* Theorems about Pair, for all users, tokens, amounts, fees and bounds.   *)
(*                                                                         *)
(* A transaction works on copies and commits them at its end, so what an   *)
(* endpoint does to the storage shows only in the commit.  The inductive   *)
(* invariant therefore says, of every kind of transaction, how its working *)
(* copy may differ from the storage; the action properties follow at the   *)
(* commits.  What one fill does to prices and payments is arithmetic, and  *)
(* the last part of the module.                                            *)
(***************************************************************************)
EXTENDS Pair, TLAPS

----------------------------------------------------------------------------
(* While no transaction runs, the copies are the storage.                  *)
CopiesAtRest ==
  tx = "none" =>
    /\ wOrders = orders /\ wBalance = balance
    /\ owed = Nothing /\ todo = {}

(* A match removes no order and keeps the terms of all, the taker's record *)
(* in memory included (it may differ from the one in the copy when the     *)
(* taker is among its own makers).                                         *)
MatchCopies ==
  tx = "match" =>
    /\ DOMAIN wOrders = DOMAIN orders
    /\ \A id \in DOMAIN orders : KeepsTerms(orders[id], wOrders[id])
    /\ takerId \in DOMAIN orders
    /\ taker \in Order
    /\ KeepsTerms(orders[takerId], taker)

(* A cancellation and a free change no order; what they have removed or    *)
(* have still to remove they may remove.                                   *)
ReleaseCopies ==
  tx \in {"cancel", "free"} =>
    /\ caller \in User
    /\ DOMAIN wOrders \subseteq DOMAIN orders
    /\ todo \subseteq DOMAIN wOrders
    /\ \A id \in DOMAIN wOrders : wOrders[id] = orders[id]
    /\ \A id \in DOMAIN orders \ DOMAIN wOrders :
         PenaltyAmount(orders[id]) <= orders[id].input
CancelCopies ==
  tx = "cancel" =>
    \A id \in todo \cup (DOMAIN orders \ DOMAIN wOrders) : id \in addressOrderIds[caller]
FreeCopies ==
  tx = "free" =>
    /\ \A id \in todo \cup (DOMAIN orders \ DOMAIN wOrders) :
         id \notin addressOrderIds[caller]
    /\ \A id \in DOMAIN orders \ DOMAIN wOrders :
         PenaltyCount(orders[id]) >= FREE_ORDER_FROM_STORAGE_MIN_PENALTIES

IInv ==
  /\ TypeOK
  /\ IndexOwned
  /\ CopiesAtRest
  /\ MatchCopies
  /\ ReleaseCopies
  /\ CancelCopies
  /\ FreeCopies

----------------------------------------------------------------------------
LEMMA ProductMonotone ==
  ASSUME NEW a \in Nat, NEW b \in Nat, NEW n \in Nat, a <= b
  PROVE  a * n \in Nat /\ b * n \in Nat /\ n * a <= n * b
<1>1. PICK d \in Nat : b = a + d
  <2>1. b - a \in Nat /\ b = a + (b - a)
    OBVIOUS
  <2> QED BY <2>1
<1>2. n * (a + d) = n * a + n * d
  OBVIOUS
<1>3. n * a \in Nat /\ n * b \in Nat /\ n * d \in Nat /\ a * n \in Nat /\ b * n \in Nat
  OBVIOUS
<1> QED BY <1>1, <1>2, <1>3

(* rule_of_three with a value no greater than the total yields an amount   *)
(* no greater than the part: no BigUint subtraction of a match underflows. *)
LEMMA RuleOfThreeBound ==
  ASSUME NEW part \in Nat, NEW total \in Nat \ {0}, NEW value \in Nat, value <= total
  PROVE  /\ RuleOfThree(part, total, value) \in Nat
         /\ RuleOfThree(part, total, value) <= part
<1> DEFINE x == part * value
           q == x \div total
<1>1. x \in Nat /\ part * total \in Nat /\ x <= part * total
  BY ProductMonotone
<1> HIDE DEF x
<1>2. q \in Int /\ x = total * q + (x % total) /\ x % total \in 0..(total - 1)
  BY <1>1
<1> HIDE DEF q
<1>3. q >= 0
  <2>1. SUFFICES ASSUME q < 0 PROVE FALSE
    BY <1>2
  <2>2. q + 1 <= 0 /\ -(q + 1) \in Nat
    BY <1>2, <2>1
  <2>3. total * (-(q + 1)) \in Nat
    BY <2>2
  <2>4. total * q + total = -(total * (-(q + 1)))
    BY <1>2
  <2> QED BY <1>1, <1>2, <2>3, <2>4
<1>4. q <= part
  <2>1. SUFFICES ASSUME q > part PROVE FALSE
    BY <1>2
  <2>2. part + 1 <= q /\ q \in Nat /\ part + 1 \in Nat
    BY <1>2, <1>3, <2>1
  <2>3. total * (part + 1) <= total * q
    BY <2>2, ProductMonotone
  <2>4. total * (part + 1) = part * total + total
    OBVIOUS
  <2> QED BY <1>1, <1>2, <2>3, <2>4
<1> QED BY <1>2, <1>3, <1>4 DEF RuleOfThree, q, x

LEMMA Reduced ==
  ASSUME NEW o \in Order, NEW x \in Nat, NEW y \in Nat, x <= o.input, y <= o.output,
         NEW n, n = [o EXCEPT !.input = @ - x, !.output = @ - y]
  PROVE  n \in Order /\ KeepsTerms(o, n)
<1>1. o.input \in Nat /\ o.output \in Nat
  BY DEF Order
<1>2. o.input - x \in Nat /\ o.output - y \in Nat
  BY <1>1
<1>3. n = [o EXCEPT !.input = o.input - x, !.output = o.output - y]
  OBVIOUS
<1>4. n \in Order /\ n.creator = o.creator /\ n.type = o.type /\ n.epoch = o.epoch
  BY <1>2, <1>3 DEF Order
<1>5. n.input = o.input - x /\ n.output = o.output - y
  BY <1>3 DEF Order
<1> QED BY <1>1, <1>4, <1>5 DEF KeepsTerms

LEMMA KeepsTermsTransitive ==
  ASSUME NEW o \in Order, NEW n \in Order, NEW r \in Order,
         KeepsTerms(o, n), KeepsTerms(n, r)
  PROVE  KeepsTerms(o, r)
BY DEF Order, KeepsTerms

(* What the four kinds of fill have in common.                             *)
LEMMA FillFacts ==
  ASSUME IInv, tx = "match", NEW m \in DOMAIN wOrders
  PROVE  /\ wOrders[m] \in Order /\ taker \in Order
         /\ takerId \in DOMAIN orders /\ m \in DOMAIN orders
         /\ orders[m] \in Order /\ orders[takerId] \in Order
         /\ wOrders \in [DOMAIN orders -> Order]
         /\ wOrders[m].input \in Nat /\ wOrders[m].output \in Nat
         /\ taker.input \in Nat /\ taker.output \in Nat
BY DEF IInv, TypeOK, MatchCopies, Order

LEMMA OweType ==
  ASSUME IInv, NEW type, NEW toMaker \in Nat, NEW toTaker \in Nat,
         Owe(type, toMaker, toTaker)
  PROVE  owed' \in [Token -> Nat]
<1> DEFINE a == IF type = "Sell" THEN FirstToken ELSE SecondToken
           b == IF type = "Sell" THEN SecondToken ELSE FirstToken
<1>1. a \in Token /\ b \in Token /\ a # b
  BY TokenAssumption
<1>2. owed \in [Token -> Nat]
  BY DEF IInv, TypeOK
<1>3. owed' = [owed EXCEPT ![a] = @ + toMaker, ![b] = @ + toTaker]
  BY DEF Owe
<1> HIDE DEF a, b
<1> QED BY <1>1, <1>2, <1>3

LEMMA FillKeeps ==
  ASSUME IInv, tx = "match",
         UNCHANGED <<storage, epoch, tx, caller, takerId, todo, wBalance>>,
         rounds' \in Nat, owed' \in [Token -> Nat],
         taker' \in Order, KeepsTerms(orders[takerId], taker'),
         wOrders' \in [DOMAIN orders -> Order],
         \A id \in DOMAIN orders : KeepsTerms(orders[id], wOrders'[id])
  PROVE  IInv'
<1> USE DEF IInv, storage
<1>1. TypeOK'
  BY DEF TypeOK
<1>2. IndexOwned'
  BY DEF IndexOwned
<1>3. CopiesAtRest' /\ ReleaseCopies' /\ CancelCopies' /\ FreeCopies'
  BY DEF CopiesAtRest, ReleaseCopies, CancelCopies, FreeCopies
<1>4. MatchCopies'
  BY DEF MatchCopies
<1> QED BY <1>1, <1>2, <1>3, <1>4

(* The taker's record changes: in memory and, with it, in the copy.        *)
LEMMA TakerReduced ==
  ASSUME IInv, tx = "match", NEW x \in Nat, NEW y \in Nat,
         x <= taker.input, y <= taker.output,
         taker' = [taker EXCEPT !.input = @ - x, !.output = @ - y],
         wOrders' = [wOrders EXCEPT ![takerId] = taker'],
         owed' \in [Token -> Nat], rounds' = rounds + 1,
         UNCHANGED <<storage, epoch, tx, caller, takerId, todo, wBalance>>
  PROVE  IInv'
<1>1. /\ taker \in Order /\ takerId \in DOMAIN orders /\ orders[takerId] \in Order
      /\ wOrders \in [DOMAIN orders -> Order] /\ rounds \in Nat
      /\ KeepsTerms(orders[takerId], taker)
      /\ \A id \in DOMAIN orders : KeepsTerms(orders[id], wOrders[id])
  BY DEF IInv, TypeOK, MatchCopies
<1>2. taker' \in Order /\ KeepsTerms(taker, taker')
  BY <1>1, Reduced
<1>3. KeepsTerms(orders[takerId], taker')
  BY <1>1, <1>2, KeepsTermsTransitive
<1>4. wOrders' \in [DOMAIN orders -> Order]
  BY <1>1, <1>2
<1>5. \A id \in DOMAIN orders : KeepsTerms(orders[id], wOrders'[id])
  <2> SUFFICES ASSUME NEW id \in DOMAIN orders PROVE KeepsTerms(orders[id], wOrders'[id])
    OBVIOUS
  <2>1. CASE id = takerId
    BY <2>1, <1>1, <1>3
  <2>2. CASE id # takerId
    BY <2>2, <1>1
  <2> QED BY <2>1, <2>2
<1> QED BY <1>1, <1>2, <1>3, <1>4, <1>5, FillKeeps

(* The maker's record changes.                                             *)
LEMMA MakerReduced ==
  ASSUME IInv, tx = "match", NEW m \in DOMAIN wOrders, NEW x \in Nat, NEW y \in Nat,
         x <= wOrders[m].input, y <= wOrders[m].output,
         wOrders' = [wOrders EXCEPT ![m] =
                       [wOrders[m] EXCEPT !.input = @ - x, !.output = @ - y]],
         owed' \in [Token -> Nat], rounds' = rounds + 1,
         UNCHANGED <<storage, epoch, tx, caller, takerId, todo, wBalance, taker>>
  PROVE  IInv'
<1> DEFINE n == [wOrders[m] EXCEPT !.input = @ - x, !.output = @ - y]
<1>1. /\ taker \in Order /\ m \in DOMAIN orders /\ orders[m] \in Order
      /\ wOrders \in [DOMAIN orders -> Order] /\ rounds \in Nat /\ wOrders[m] \in Order
      /\ KeepsTerms(orders[takerId], taker)
      /\ \A id \in DOMAIN orders : KeepsTerms(orders[id], wOrders[id])
  BY DEF IInv, TypeOK, MatchCopies
<1>2. n \in Order /\ KeepsTerms(wOrders[m], n)
  BY <1>1, Reduced
<1>3. wOrders' = [wOrders EXCEPT ![m] = n]
  OBVIOUS
<1> HIDE DEF n
<1>4. KeepsTerms(orders[m], n)
  BY <1>1, <1>2, KeepsTermsTransitive
<1>5. wOrders' \in [DOMAIN orders -> Order]
  BY <1>1, <1>2, <1>3
<1>6. \A id \in DOMAIN orders : KeepsTerms(orders[id], wOrders'[id])
  <2> SUFFICES ASSUME NEW id \in DOMAIN orders PROVE KeepsTerms(orders[id], wOrders'[id])
    OBVIOUS
  <2>1. CASE id = m
    BY <2>1, <1>1, <1>3, <1>4
  <2>2. CASE id # m
    BY <2>2, <1>1, <1>3
  <2> QED BY <2>1, <2>2
<1> QED BY <1>1, <1>5, <1>6, FillKeeps

LEMMA MatchMakerKeeps ==
  ASSUME IInv, NEW m \in DOMAIN wOrders, MatchMaker(m)
  PROVE  IInv'
<1> DEFINE maker == wOrders[m]
<1>1. /\ tx = "match" /\ rounds' = rounds + 1
      /\ UNCHANGED <<storage, epoch, tx, caller, takerId, todo, wBalance>>
  BY DEF MatchMaker
<1>2. /\ maker \in Order /\ taker \in Order
      /\ maker.input \in Nat /\ maker.output \in Nat
      /\ taker.input \in Nat /\ taker.output \in Nat
  BY <1>1, FillFacts
<1>3. CASE SellWhole(m)
  <2> DEFINE out == RuleOfThree(taker.output, taker.input, maker.output)
  <2>1. out \in Nat /\ out <= taker.output
    BY <1>2, <1>3, RuleOfThreeBound DEF SellWhole
  <2>2. owed' \in [Token -> Nat]
    BY <1>2, <1>3, OweType DEF SellWhole
  <2>3. /\ maker.output <= taker.input
        /\ taker' = [taker EXCEPT !.input = @ - maker.output, !.output = @ - out]
        /\ wOrders' = [wOrders EXCEPT ![takerId] = taker']
    BY <1>2, <1>3 DEF SellWhole
  <2> HIDE DEF out, maker
  <2> QED BY <1>1, <1>2, <2>1, <2>2, <2>3, TakerReduced
<1>4. CASE SellPart(m)
  <2> DEFINE in == RuleOfThree(maker.input, maker.output, taker.input)
  <2>1. in \in Nat /\ in <= maker.input /\ taker.input <= maker.output
    BY <1>2, <1>4, RuleOfThreeBound DEF SellPart
  <2>2. owed' \in [Token -> Nat]
    BY <1>2, <1>4, OweType DEF SellPart
  <2>3. /\ wOrders' = [wOrders EXCEPT
                         ![m] = [wOrders[m] EXCEPT !.input = @ - in,
                                                   !.output = @ - taker.input]]
        /\ UNCHANGED taker
    BY <1>4 DEF SellPart
  <2> HIDE DEF in
  <2> QED BY <1>1, <1>2, <2>1, <2>2, <2>3, MakerReduced
<1>5. CASE BuyWhole(m)
  <2> DEFINE in == RuleOfThree(taker.input, taker.output, maker.input)
  <2>1. in \in Nat /\ in <= taker.input
    BY <1>2, <1>5, RuleOfThreeBound DEF BuyWhole
  <2>2. owed' \in [Token -> Nat]
    BY <1>2, <1>5, OweType DEF BuyWhole
  <2>3. /\ maker.input <= taker.output
        /\ taker' = [taker EXCEPT !.input = @ - in, !.output = @ - maker.input]
        /\ wOrders' = [wOrders EXCEPT ![takerId] = taker']
    BY <1>2, <1>5 DEF BuyWhole
  <2> HIDE DEF in, maker
  <2> QED BY <1>1, <1>2, <2>1, <2>2, <2>3, TakerReduced
<1>6. CASE BuyPart(m)
  <2> DEFINE out == RuleOfThree(maker.output, maker.input, taker.output)
  <2>1. out \in Nat /\ out <= maker.output /\ taker.output <= maker.input
    <3>1. taker.output < maker.input
      BY <1>6 DEF BuyPart
    <3>2. maker.input \in Nat \ {0} /\ taker.output <= maker.input
      BY <1>2, <3>1
    <3> HIDE DEF maker
    <3> QED BY <1>2, <3>2, RuleOfThreeBound
  <2>2. owed' \in [Token -> Nat]
    BY <1>2, <1>6, <2>1, OweType DEF BuyPart
  <2>3. /\ wOrders' = [wOrders EXCEPT
                         ![m] = [wOrders[m] EXCEPT !.input = @ - taker.output,
                                                   !.output = @ - out]]
        /\ UNCHANGED taker
    BY <1>6 DEF BuyPart
  <2> HIDE DEF out
  <2> QED BY <1>1, <1>2, <2>1, <2>2, <2>3, MakerReduced
<1> QED BY <1>3, <1>4, <1>5, <1>6 DEF MatchMaker

----------------------------------------------------------------------------
(* A state in which no transaction runs.                                   *)
LEMMA AtRest ==
  ASSUME tx' = "none", TypeOK', IndexOwned',
         wOrders' = orders', wBalance' = balance', owed' = Nothing, todo' = {}
  PROVE  IInv'
BY DEF IInv, CopiesAtRest, MatchCopies, ReleaseCopies, CancelCopies, FreeCopies, Nothing

LEMMA CommitKeeps ==
  ASSUME IInv, NEW newOrders, NEW newBalance \in [Token -> Nat],
         Commit(newOrders, newBalance),
         DOMAIN newOrders \subseteq DOMAIN orders, newOrders \in [DOMAIN newOrders -> Order],
         \A id \in DOMAIN newOrders : newOrders[id].creator = orders[id].creator,
         addressOrderIds' \in [User -> SUBSET Nat],
         \A u \in User : addressOrderIds'[u] \subseteq addressOrderIds[u]
  PROVE  IInv'
<1>1. /\ orders' = newOrders /\ balance' = newBalance
      /\ wOrders' = newOrders /\ wBalance' = newBalance
      /\ tx' = "none" /\ caller' = NoUser /\ takerId' = 0 /\ taker' = NoOrder
      /\ rounds' = 0 /\ owed' = Nothing /\ todo' = {}
      /\ UNCHANGED <<orderIdCounter, globalOpIsOngoing, epoch>>
  BY DEF Commit, TxEnd
<1>2. TypeOK'
  <2>1. owed' \in [Token -> Nat]
    BY <1>1 DEF Nothing
  <2>2. DOMAIN orders' \subseteq Nat
    BY <1>1 DEF IInv, TypeOK
  <2> QED BY <1>1, <2>1, <2>2 DEF IInv, TypeOK
<1>3. IndexOwned'
  BY <1>1 DEF IInv, IndexOwned
<1> QED BY <1>1, <1>2, <1>3, AtRest

LEMMA RevertKeeps ==
  ASSUME IInv, Revert
  PROVE  IInv'
<1>1. /\ wOrders' = orders /\ wBalance' = balance
      /\ tx' = "none" /\ caller' = NoUser /\ takerId' = 0 /\ taker' = NoOrder
      /\ rounds' = 0 /\ owed' = Nothing /\ todo' = {}
      /\ UNCHANGED <<orders, addressOrderIds, orderIdCounter, globalOpIsOngoing, balance, epoch>>
  BY DEF Revert, TxEnd, storage
<1>2. TypeOK'
  <2>1. owed' \in [Token -> Nat]
    BY <1>1 DEF Nothing
  <2> QED BY <1>1, <2>1 DEF IInv, TypeOK
<1>3. IndexOwned'
  BY <1>1 DEF IInv, IndexOwned
<1> QED BY <1>1, <1>2, <1>3, AtRest

LEMMA CreateOrderKeeps ==
  ASSUME IInv, NEW u \in User, NEW type \in OrderType, NEW token \in Token,
         NEW input \in Amount \ {0}, NEW output \in Amount,
         CreateOrder(u, type, token, input, output)
  PROVE  IInv'
<1> DEFINE id == orderIdCounter
           o == [creator |-> u, type |-> type, input |-> input,
                 output |-> output, epoch |-> epoch]
<1>1. /\ tx = "none" /\ orderIdCounter' = id + 1
      /\ orders' = [i \in DOMAIN orders \cup {id} |-> IF i = id THEN o ELSE orders[i]]
      /\ addressOrderIds' = [addressOrderIds EXCEPT ![u] = {id} \cup GetAddressOrderIds(u)]
      /\ balance' = [balance EXCEPT ![token] = @ + input]
      /\ wOrders' = orders' /\ wBalance' = balance'
      /\ UNCHANGED <<globalOpIsOngoing, epoch, tx, caller, takerId, taker,
                     rounds, owed, todo>>
  BY DEF CreateOrder
<1>2. id \in Nat /\ input \in Nat /\ output \in Nat /\ epoch \in Nat
  BY AmountAssumption DEF IInv, TypeOK
<1>3. o \in Order
  BY <1>2 DEF Order
<1> HIDE DEF o
<1>4. /\ DOMAIN orders' = DOMAIN orders \cup {id}
      /\ orders'[id] = o
      /\ \A i \in DOMAIN orders : i < id /\ orders'[i] = orders[i]
  BY <1>1, <1>2 DEF IInv, IndexOwned
<1>5. /\ addressOrderIds'[u] = {id} \cup GetAddressOrderIds(u)
      /\ \A v \in User \ {u} : addressOrderIds'[v] = addressOrderIds[v]
      /\ addressOrderIds' \in [User -> SUBSET Nat]
  BY <1>1, <1>2 DEF IInv, TypeOK, GetAddressOrderIds
<1>6. TypeOK'
  <2>1. orders' \in [DOMAIN orders' -> Order] /\ DOMAIN orders' \subseteq Nat
    BY <1>1, <1>2, <1>3, <1>4 DEF IInv, TypeOK
  <2>2. balance' \in [Token -> Nat]
    BY <1>1, <1>2 DEF IInv, TypeOK
  <2> QED BY <1>1, <1>2, <1>5, <2>1, <2>2 DEF IInv, TypeOK
<1>7. IndexOwned'
  <2>1. \A i \in DOMAIN orders' : i < orderIdCounter'
    BY <1>1, <1>2, <1>4 DEF IInv, TypeOK
  <2>2. ASSUME NEW v \in User, NEW i \in addressOrderIds'[v]
        PROVE  /\ i < orderIdCounter'
               /\ \A w \in User \ {v} : i \notin addressOrderIds'[w]
               /\ i \in DOMAIN orders' => orders'[i].creator = v
    <3>1. \A w \in User : \A j \in addressOrderIds[w] : j \in Nat /\ j < id
      BY DEF IInv, TypeOK, IndexOwned
    <3>2. CASE i = id
      <4>1. v = u
        BY <3>1, <3>2, <1>2, <1>5
      <4>2. \A w \in User \ {u} : i \notin addressOrderIds'[w]
        BY <3>1, <3>2, <1>2, <1>5
      <4>3. o.creator = u
        BY DEF o
      <4> QED BY <4>1, <4>2, <4>3, <3>2, <1>1, <1>2, <1>4
    <3>3. CASE i # id
      <4>1. i \in addressOrderIds[v] /\ i \in Nat /\ i < id
        BY <3>1, <3>3, <1>5 DEF GetAddressOrderIds
      <4>2. \A w \in User \ {v} : i \notin addressOrderIds'[w]
        BY <4>1, <3>3, <1>5 DEF GetAddressOrderIds, IInv, IndexOwned
      <4>3. i \in DOMAIN orders' => orders'[i].creator = v
        BY <4>1, <3>3, <1>4 DEF IInv, IndexOwned
      <4> QED BY <4>1, <4>2, <4>3, <1>1, <1>2
    <3> QED BY <3>2, <3>3
  <2> QED BY <2>1, <2>2 DEF IndexOwned
<1>8. owed' = Nothing /\ todo' = {}
  BY <1>1 DEF IInv, CopiesAtRest
<1> QED BY <1>1, <1>6, <1>7, <1>8, AtRest

LEMMA BeginMatchKeeps ==
  ASSUME IInv, NEW t \in DOMAIN orders, BeginMatch(t)
  PROVE  IInv'
<1>1. /\ tx = "none" /\ tx' = "match" /\ takerId' = t /\ taker' = orders[t]
      /\ UNCHANGED <<orders, addressOrderIds, orderIdCounter, globalOpIsOngoing, balance>>
      /\ UNCHANGED <<epoch, caller, rounds, owed, todo, wOrders, wBalance>>
  BY DEF BeginMatch, storage
<1>2. wOrders = orders
  BY <1>1 DEF IInv, CopiesAtRest
<1>3. \A id \in DOMAIN orders : orders[id] \in Order /\ KeepsTerms(orders[id], orders[id])
  BY DEF IInv, TypeOK, Order, KeepsTerms
<1>4. TypeOK' /\ IndexOwned'
  BY <1>1, <1>3 DEF IInv, TypeOK, IndexOwned
<1>5. MatchCopies'
  BY <1>1, <1>2, <1>3 DEF MatchCopies
<1>6. CopiesAtRest' /\ ReleaseCopies' /\ CancelCopies' /\ FreeCopies'
  BY <1>1 DEF CopiesAtRest, ReleaseCopies, CancelCopies, FreeCopies
<1> QED BY <1>4, <1>5, <1>6 DEF IInv

LEMMA CommitMatchKeeps ==
  ASSUME IInv, CommitMatch
  PROVE  IInv'
<1> DEFINE b == [t \in Token |-> balance[t] - owed[t]]
<1>1. /\ tx = "match" /\ \A t \in Token : owed[t] <= balance[t]
      /\ Commit(wOrders, b) /\ UNCHANGED addressOrderIds
  BY DEF CommitMatch
<1>2. b \in [Token -> Nat]
  BY <1>1 DEF IInv, TypeOK
<1>3. /\ DOMAIN wOrders = DOMAIN orders /\ wOrders \in [DOMAIN wOrders -> Order]
      /\ \A id \in DOMAIN wOrders : wOrders[id].creator = orders[id].creator
      /\ addressOrderIds' \in [User -> SUBSET Nat]
  BY <1>1 DEF IInv, TypeOK, MatchCopies, KeepsTerms
<1> HIDE DEF b
<1> QED BY <1>1, <1>2, <1>3, CommitKeeps

LEMMA BeginCancelKeeps ==
  ASSUME IInv, NEW u \in User, NEW ids, BeginCancel(u, ids)
  PROVE  IInv'
<1>1. /\ tx = "none" /\ tx' = "cancel" /\ caller' = u /\ todo' = ids
      /\ ids \subseteq GetAddressOrderIds(u)
      /\ UNCHANGED <<orders, addressOrderIds, orderIdCounter, globalOpIsOngoing, balance>>
      /\ UNCHANGED <<epoch, takerId, taker, rounds, owed, wOrders, wBalance>>
  BY DEF BeginCancel, storage
<1>2. wOrders = orders /\ ids \subseteq DOMAIN orders /\ ids \subseteq addressOrderIds[u]
  BY <1>1 DEF IInv, CopiesAtRest, GetAddressOrderIds
<1>3. TypeOK' /\ IndexOwned'
  BY <1>1, <1>2 DEF IInv, TypeOK, IndexOwned
<1>4. ReleaseCopies' /\ CancelCopies'
  BY <1>1, <1>2 DEF ReleaseCopies, CancelCopies
<1>5. CopiesAtRest' /\ MatchCopies' /\ FreeCopies'
  BY <1>1 DEF CopiesAtRest, MatchCopies, FreeCopies
<1> QED BY <1>3, <1>4, <1>5 DEF IInv

LEMMA BeginFreeKeeps ==
  ASSUME IInv, NEW u \in User, NEW ids, BeginFree(u, ids)
  PROVE  IInv'
<1>1. /\ tx = "none" /\ tx' = "free" /\ caller' = u /\ todo' = ids \cap DOMAIN orders
      /\ ids \cap GetAddressOrderIds(u) = {}
      /\ UNCHANGED <<orders, addressOrderIds, orderIdCounter, globalOpIsOngoing, balance>>
      /\ UNCHANGED <<epoch, takerId, taker, rounds, owed, wOrders, wBalance>>
  BY DEF BeginFree, storage
<1>2. wOrders = orders /\ \A id \in todo' : id \notin addressOrderIds[u]
  BY <1>1 DEF IInv, CopiesAtRest, GetAddressOrderIds
<1>3. TypeOK' /\ IndexOwned'
  BY <1>1, <1>2 DEF IInv, TypeOK, IndexOwned
<1>4. ReleaseCopies' /\ FreeCopies'
  BY <1>1, <1>2 DEF ReleaseCopies, FreeCopies
<1>5. CopiesAtRest' /\ MatchCopies' /\ CancelCopies'
  BY <1>1 DEF CopiesAtRest, MatchCopies, CancelCopies
<1> QED BY <1>3, <1>4, <1>5 DEF IInv

LEMMA PenaltiesStay ==
  ASSUME IInv, epoch' = epoch, orders' = orders, NEW id \in DOMAIN orders
  PROVE  /\ PenaltyCount(orders[id])' = PenaltyCount(orders[id])
         /\ PenaltyAmount(orders[id])' = PenaltyAmount(orders[id])
BY DEF PenaltyCount, PenaltyAmount

LEMMA PenaltyIsInteger ==
  ASSUME IInv, NEW id \in DOMAIN orders
  PROVE  PenaltyAmount(orders[id]) \in Int
<1> DEFINE x == PenaltyCount(orders[id]) * FEE_PENALTY_INCREASE_PERCENT * orders[id].input
<1>1. orders[id].input \in Nat /\ orders[id].epoch \in Nat /\ epoch \in Nat
  BY DEF IInv, TypeOK, Order
<1>2. PenaltyCount(orders[id]) \in Int
  BY <1>1, FeeAssumption DEF PenaltyCount
<1>3. x \in Int
  BY <1>1, <1>2, FeeAssumption
<1> HIDE DEF x
<1>4. x \div PERCENT_BASE_POINTS \in Int
  BY <1>3, FeeAssumption
<1> QED BY <1>4 DEF PenaltyAmount, RuleOfThree, x

(* A removed order: its penalty was no more than its deposit.              *)
LEMMA ReleaseKeeps ==
  ASSUME IInv, NEW id \in todo, NEW paid \in Int, tx \in {"cancel", "free"},
         Release(id, paid),
         tx = "free" => PenaltyCount(orders[id]) >= FREE_ORDER_FROM_STORAGE_MIN_PENALTIES
  PROVE  IInv'
<1> DEFINE t == DepositToken(wOrders[id])
<1>1. /\ PenaltyAmount(wOrders[id]) <= wOrders[id].input
      /\ paid <= wBalance[t]
      /\ wOrders' = [i \in DOMAIN wOrders \ {id} |-> wOrders[i]]
      /\ wBalance' = [wBalance EXCEPT ![t] = @ - paid]
      /\ todo' = todo \ {id}
      /\ UNCHANGED <<orders, addressOrderIds, orderIdCounter, globalOpIsOngoing, balance>>
      /\ UNCHANGED <<epoch, tx, caller, takerId, taker, rounds, owed>>
  BY DEF Release, storage
<1>2. /\ DOMAIN wOrders \subseteq DOMAIN orders /\ id \in DOMAIN wOrders
      /\ wOrders[id] = orders[id] /\ caller \in User
      /\ DOMAIN wOrders' = DOMAIN wOrders \ {id}
      /\ \A i \in DOMAIN wOrders' : wOrders'[i] = wOrders[i]
      /\ DOMAIN orders \ DOMAIN wOrders' = (DOMAIN orders \ DOMAIN wOrders) \cup {id}
  BY <1>1 DEF IInv, ReleaseCopies
<1>3. t \in Token
  BY TokenAssumption DEF DepositToken
<1> HIDE DEF t
<1>4. TypeOK'
  <2>1. wBalance' \in [Token -> Nat]
    BY <1>1, <1>3 DEF IInv, TypeOK
  <2>2. wOrders' \in [DOMAIN wOrders' -> Order] /\ DOMAIN wOrders' \subseteq Nat
    BY <1>1, <1>2 DEF IInv, TypeOK
  <2> QED BY <1>1, <2>1, <2>2 DEF IInv, TypeOK
<1>5. IndexOwned'
  BY <1>1 DEF IInv, IndexOwned
<1>6. ReleaseCopies'
  <2>1. \A i \in DOMAIN orders \ DOMAIN wOrders' :
          (PenaltyAmount(orders[i]) <= orders[i].input)'
    BY <1>1, <1>2, PenaltiesStay DEF IInv, ReleaseCopies
  <2>2. todo' \subseteq DOMAIN wOrders'
    BY <1>1, <1>2 DEF IInv, ReleaseCopies
  <2> QED BY <1>1, <1>2, <2>1, <2>2 DEF IInv, ReleaseCopies
<1>7. CancelCopies'
  BY <1>1, <1>2 DEF IInv, CancelCopies
<1>8. FreeCopies'
  <2>1. tx = "free" => \A i \in DOMAIN orders \ DOMAIN wOrders' :
          (PenaltyCount(orders[i]) >= FREE_ORDER_FROM_STORAGE_MIN_PENALTIES)'
    BY <1>1, <1>2, PenaltiesStay DEF IInv, FreeCopies
  <2> QED BY <1>1, <1>2, <2>1 DEF IInv, FreeCopies
<1>9. CopiesAtRest' /\ MatchCopies'
  BY <1>1 DEF CopiesAtRest, MatchCopies
<1> QED BY <1>4, <1>5, <1>6, <1>7, <1>8, <1>9 DEF IInv

LEMMA CancelOrderKeeps ==
  ASSUME IInv, NEW id \in todo, CancelOrder(id)
  PROVE  IInv'
<1>1. tx = "cancel" /\ Release(id, wOrders[id].input - PenaltyAmount(wOrders[id]))
  BY DEF CancelOrder
<1>2. wOrders[id] \in Order /\ epoch \in Nat
  BY <1>1 DEF IInv, TypeOK, ReleaseCopies
<1>3. wOrders[id].input \in Nat /\ wOrders[id].epoch \in Nat
  BY <1>2 DEF Order
<1>4. PenaltyAmount(wOrders[id]) \in Int
  <2>1. id \in DOMAIN orders /\ wOrders[id] = orders[id]
    BY <1>1 DEF IInv, ReleaseCopies
  <2> QED BY <2>1, PenaltyIsInteger
<1>5. wOrders[id].input - PenaltyAmount(wOrders[id]) \in Int
  BY <1>3, <1>4
<1> QED BY <1>1, <1>5, ReleaseKeeps

LEMMA FreeOrderKeeps ==
  ASSUME IInv, NEW id \in todo, FreeOrder(id)
  PROVE  IInv'
<1>1. /\ tx = "free" /\ Release(id, wOrders[id].input)
      /\ PenaltyCount(wOrders[id]) >= FREE_ORDER_FROM_STORAGE_MIN_PENALTIES
  BY DEF FreeOrder
<1>2. wOrders[id] = orders[id] /\ wOrders[id] \in Order
  BY <1>1 DEF IInv, TypeOK, ReleaseCopies
<1>3. wOrders[id].input \in Int
  BY <1>2 DEF Order
<1> QED BY <1>1, <1>2, <1>3, ReleaseKeeps

LEMMA CommitReleaseKeeps ==
  ASSUME IInv, tx \in {"cancel", "free"}, Commit(wOrders, wBalance),
         addressOrderIds' \in [User -> SUBSET Nat],
         \A u \in User : addressOrderIds'[u] \subseteq addressOrderIds[u]
  PROVE  IInv'
<1>1. /\ DOMAIN wOrders \subseteq DOMAIN orders /\ wOrders \in [DOMAIN wOrders -> Order]
      /\ \A id \in DOMAIN wOrders : wOrders[id].creator = orders[id].creator
      /\ wBalance \in [Token -> Nat]
  BY DEF IInv, TypeOK, ReleaseCopies
<1> QED BY <1>1, CommitKeeps

LEMMA CommitCancelKeeps ==
  ASSUME IInv, CommitCancel
  PROVE  IInv'
<1>1. /\ tx = "cancel" /\ Commit(wOrders, wBalance)
      /\ addressOrderIds' = [addressOrderIds EXCEPT ![caller] = {}]
  BY DEF CommitCancel
<1>2. /\ addressOrderIds' \in [User -> SUBSET Nat]
      /\ \A u \in User : addressOrderIds'[u] \subseteq addressOrderIds[u]
  BY <1>1 DEF IInv, TypeOK
<1> QED BY <1>1, <1>2, CommitReleaseKeeps

LEMMA CommitFreeKeeps ==
  ASSUME IInv, CommitFree
  PROVE  IInv'
<1>1. tx = "free" /\ Commit(wOrders, wBalance) /\ UNCHANGED addressOrderIds
  BY DEF CommitFree
<1>2. /\ addressOrderIds' \in [User -> SUBSET Nat]
      /\ \A u \in User : addressOrderIds'[u] \subseteq addressOrderIds[u]
  BY <1>1 DEF IInv, TypeOK
<1> QED BY <1>1, <1>2, CommitReleaseKeeps

LEMMA EnvironmentKeeps ==
  ASSUME IInv, SetGlobalOp \/ NextEpoch
  PROVE  IInv'
<1>1. /\ tx = "none" /\ tx' = "none" /\ epoch' \in Nat /\ globalOpIsOngoing' \in BOOLEAN
      /\ UNCHANGED <<orders, addressOrderIds, orderIdCounter, balance>>
      /\ UNCHANGED <<caller, takerId, taker, rounds, owed, todo, wOrders, wBalance>>
  <2>1. CASE SetGlobalOp
    <3>1. epoch' \in Nat
      BY <2>1 DEF SetGlobalOp, IInv, TypeOK
    <3>2. globalOpIsOngoing' \in BOOLEAN
      BY <2>1 DEF SetGlobalOp
    <3> QED BY <2>1, <3>1, <3>2, Zenon DEF SetGlobalOp, txVars
  <2>2. CASE NextEpoch
    <3>1. epoch' \in Nat
      BY <2>2 DEF NextEpoch, IInv, TypeOK
    <3>2. globalOpIsOngoing' \in BOOLEAN
      BY <2>2, Zenon DEF NextEpoch, storage, IInv, TypeOK
    <3> QED BY <2>2, <3>1, <3>2, Zenon DEF NextEpoch, storage, txVars
  <2> QED BY <2>1, <2>2
<1>2. TypeOK' /\ IndexOwned'
  BY <1>1 DEF IInv, TypeOK, IndexOwned
<1>3. CopiesAtRest
  BY DEF IInv
<1> QED BY <1>1, <1>2, <1>3, AtRest DEF CopiesAtRest

LEMMA StutterKeeps ==
  ASSUME IInv, UNCHANGED vars
  PROVE  IInv'
<1> USE DEF vars, storage, txVars
<1>1. TypeOK' /\ IndexOwned'
  BY DEF IInv, TypeOK, IndexOwned
<1>2. CopiesAtRest' /\ MatchCopies' /\ CancelCopies'
  BY DEF IInv, CopiesAtRest, MatchCopies, CancelCopies
<1>3. ReleaseCopies' /\ FreeCopies'
  BY PenaltiesStay DEF IInv, ReleaseCopies, FreeCopies
<1> QED BY <1>1, <1>2, <1>3 DEF IInv

LEMMA InitEstablishes ==
  ASSUME Init
  PROVE  IInv
<1> USE DEF Init
<1>1. Nothing \in [Token -> Nat]
  BY DEF Nothing
<1>2. TypeOK
  BY <1>1 DEF TypeOK
<1>3. IndexOwned /\ CopiesAtRest
  BY DEF IndexOwned, CopiesAtRest
<1> QED BY <1>2, <1>3 DEF IInv, MatchCopies, ReleaseCopies, CancelCopies, FreeCopies

(* The inductive invariant of the contract.                                *)
LEMMA StepKeeps ==
  ASSUME IInv, [Next]_vars
  PROVE  IInv'
<1>1. ASSUME NEW u \in User, NEW type \in OrderType, NEW token \in Token,
             NEW input \in Amount \ {0}, NEW output \in Amount,
             CreateOrder(u, type, token, input, output)
      PROVE  IInv'
  BY <1>1, CreateOrderKeeps
<1>2. ASSUME NEW t \in DOMAIN orders, BeginMatch(t)
      PROVE  IInv'
  BY <1>2, BeginMatchKeeps
<1>3. ASSUME NEW m \in DOMAIN wOrders, MatchMaker(m)
      PROVE  IInv'
  BY <1>3, MatchMakerKeeps
<1>4. CASE CommitMatch
  BY <1>4, CommitMatchKeeps
<1>5. CASE RevertMatch
  BY <1>5, RevertKeeps DEF RevertMatch
<1>6. ASSUME NEW u \in User, NEW ids \in SUBSET GetAddressOrderIds(u), BeginCancel(u, ids)
      PROVE  IInv'
  BY <1>6, BeginCancelKeeps
<1>7. ASSUME NEW u \in User, NEW ids \in SUBSET (0..MaxOrders), BeginFree(u, ids)
      PROVE  IInv'
  BY <1>7, BeginFreeKeeps
<1>8. ASSUME NEW id \in todo, CancelOrder(id)
      PROVE  IInv'
  BY <1>8, CancelOrderKeeps
<1>9. ASSUME NEW id \in todo, FreeOrder(id)
      PROVE  IInv'
  BY <1>9, FreeOrderKeeps
<1>10. CASE CommitCancel
  BY <1>10, CommitCancelKeeps
<1>11. CASE CommitFree
  BY <1>11, CommitFreeKeeps
<1>12. CASE RevertRelease
  BY <1>12, RevertKeeps DEF RevertRelease
<1>13. CASE SetGlobalOp \/ NextEpoch
  BY <1>13, EnvironmentKeeps
<1>14. CASE UNCHANGED vars
  BY <1>14, StutterKeeps
<1> QED
  BY <1>1, <1>2, <1>3, <1>4, <1>5, <1>6, <1>7, <1>8, <1>9, <1>10, <1>11, <1>12,
     <1>13, <1>14 DEF Next

THEOREM Invariance == Spec => []IInv
<1>1. Init => IInv
  BY InitEstablishes
<1>2. IInv /\ [Next]_vars => IInv'
  BY StepKeeps
<1> QED BY <1>1, <1>2, PTL DEF Spec

(* Type correctness: no amount, balance or debt is ever negative, so no    *)
(* BigUint subtraction the model does not revert on underflows.            *)
THEOREM TypeCorrect == Spec => []TypeOK
<1>1. IInv => TypeOK
  BY DEF IInv
<1> QED BY <1>1, Invariance, PTL

(* The index of a user holds only ids of its own orders, so cancelOrders   *)
(* pays nobody for somebody else's order although it checks no creator.    *)
THEOREM IndexCorrect == Spec => []IndexOwned
<1>1. IInv => IndexOwned
  BY DEF IInv
<1> QED BY <1>1, Invariance, PTL

----------------------------------------------------------------------------
(* The five things a step can do to the orders and to the index.           *)
OrdersStay == UNCHANGED <<orders, addressOrderIds, orderIdCounter>>
OrderAdded(u) ==
  /\ DOMAIN orders' = DOMAIN orders \cup {orderIdCounter}
  /\ \A id \in DOMAIN orders : orders'[id] = orders[id]
  /\ addressOrderIds' =
       [addressOrderIds EXCEPT ![u] = {orderIdCounter} \cup GetAddressOrderIds(u)]
MatchCommitted ==
  /\ tx = "match" /\ orders' = wOrders
  /\ UNCHANGED <<addressOrderIds, orderIdCounter>>
CancelCommitted ==
  /\ tx = "cancel" /\ orders' = wOrders
  /\ addressOrderIds' = [addressOrderIds EXCEPT ![caller] = {}]
FreeCommitted ==
  /\ tx = "free" /\ orders' = wOrders
  /\ UNCHANGED <<addressOrderIds, orderIdCounter>>

LEMMA OrdersChange ==
  ASSUME IInv, [Next]_vars
  PROVE  \/ OrdersStay
         \/ \E u \in User : OrderAdded(u)
         \/ MatchCommitted
         \/ CancelCommitted
         \/ FreeCommitted
<1>1. ASSUME NEW u \in User, NEW type \in OrderType, NEW token \in Token,
             NEW input \in Amount \ {0}, NEW output \in Amount,
             CreateOrder(u, type, token, input, output)
      PROVE  OrderAdded(u)
  <2>1. orderIdCounter \notin DOMAIN orders
    BY DEF IInv, TypeOK, IndexOwned
  <2> QED BY <1>1, <2>1 DEF CreateOrder, OrderAdded
<1>2. ASSUME NEW t \in DOMAIN orders, BeginMatch(t)
      PROVE  OrdersStay
  BY <1>2 DEF BeginMatch, storage, OrdersStay
<1>3. ASSUME NEW m \in DOMAIN wOrders, MatchMaker(m)
      PROVE  OrdersStay
  BY <1>3 DEF MatchMaker, storage, OrdersStay
<1>4. CASE CommitMatch
  BY <1>4 DEF CommitMatch, Commit, MatchCommitted
<1>5. CASE RevertMatch \/ RevertRelease
  BY <1>5 DEF RevertMatch, RevertRelease, Revert, storage, OrdersStay
<1>6. ASSUME NEW u \in User, NEW ids \in SUBSET GetAddressOrderIds(u), BeginCancel(u, ids)
      PROVE  OrdersStay
  BY <1>6 DEF BeginCancel, storage, OrdersStay
<1>7. ASSUME NEW u \in User, NEW ids \in SUBSET (0..MaxOrders), BeginFree(u, ids)
      PROVE  OrdersStay
  BY <1>7 DEF BeginFree, storage, OrdersStay
<1>8. ASSUME NEW id \in todo, CancelOrder(id) \/ FreeOrder(id)
      PROVE  OrdersStay
  BY <1>8 DEF CancelOrder, FreeOrder, Release, storage, OrdersStay
<1>9. CASE CommitCancel
  BY <1>9 DEF CommitCancel, Commit, CancelCommitted
<1>10. CASE CommitFree
  BY <1>10 DEF CommitFree, Commit, FreeCommitted
<1>11. CASE SetGlobalOp \/ NextEpoch
  BY <1>11 DEF SetGlobalOp, NextEpoch, storage, OrdersStay
<1>12. CASE UNCHANGED vars
  BY <1>12 DEF vars, storage, OrdersStay
<1> QED
  BY <1>1, <1>2, <1>3, <1>4, <1>5, <1>6, <1>7, <1>8, <1>9, <1>10, <1>11, <1>12 DEF Next

(* No transaction changes whose order it is, its type or its age, or makes *)
(* one of its amounts grow.                                                *)
THEOREM TermsNeverChange == Spec => TermsKept
<1>1. ASSUME IInv, [Next]_vars, NEW id \in DOMAIN orders \cap DOMAIN orders'
      PROVE  KeepsTerms(orders[id], orders'[id])
  <2>1. KeepsTerms(orders[id], orders[id])
    BY <1>1 DEF IInv, TypeOK, Order, KeepsTerms
  <2>2. CASE OrdersStay
    BY <2>1, <2>2 DEF OrdersStay
  <2>3. CASE \E u \in User : OrderAdded(u)
    BY <2>1, <2>3 DEF OrderAdded
  <2>4. CASE MatchCommitted
    BY <1>1, <2>4 DEF MatchCommitted, IInv, MatchCopies
  <2>5. CASE CancelCommitted \/ FreeCommitted
    BY <1>1, <2>1, <2>5 DEF CancelCommitted, FreeCommitted, IInv, ReleaseCopies
  <2> QED BY <1>1, <2>2, <2>3, <2>4, <2>5, OrdersChange
<1>2. IInv /\ [Next]_vars =>
        [\A id \in DOMAIN orders \cap DOMAIN orders' :
           KeepsTerms(orders[id], orders'[id])]_vars
  BY <1>1
<1> QED BY <1>2, Invariance, PTL DEF Spec, TermsKept

(* Only its creator's cancellation, or a free that was due, removes an     *)
(* order from the storage.                                                 *)
THEOREM ExitsJustified == Spec => ExitJustified
<1>1. ASSUME IInv, [Next]_vars, NEW id \in DOMAIN orders \ DOMAIN orders'
      PROVE  \/ /\ tx = "cancel"
                /\ caller = orders[id].creator
             \/ /\ tx = "free"
                /\ id \notin addressOrderIds[caller]
                /\ PenaltyCount(orders[id]) >= FREE_ORDER_FROM_STORAGE_MIN_PENALTIES
  <2>1. ~OrdersStay /\ ~MatchCommitted /\ \A u \in User : ~OrderAdded(u)
    BY <1>1 DEF OrdersStay, MatchCommitted, OrderAdded, IInv, MatchCopies
  <2>2. CASE CancelCommitted
    BY <1>1, <2>2 DEF CancelCommitted, IInv, ReleaseCopies, CancelCopies, IndexOwned
  <2>3. CASE FreeCommitted
    BY <1>1, <2>3 DEF FreeCommitted, IInv, FreeCopies
  <2> QED BY <1>1, <2>1, <2>2, <2>3, OrdersChange
<1>2. IInv /\ [Next]_vars =>
        [\A id \in DOMAIN orders \ DOMAIN orders' :
          \/ /\ tx = "cancel"
             /\ caller = orders[id].creator
          \/ /\ tx = "free"
             /\ id \notin addressOrderIds[caller]
             /\ PenaltyCount(orders[id]) >= FREE_ORDER_FROM_STORAGE_MIN_PENALTIES]_vars
  BY <1>1
<1> QED BY <1>2, Invariance, PTL DEF Spec, ExitJustified

(* Once its penalty exceeds its deposit, an order stays for good.          *)
THEOREM LateOrdersNeverLeave == Spec => LateOrdersStay
<1>1. ASSUME IInv, [Next]_vars, NEW id \in DOMAIN orders,
             PenaltyAmount(orders[id]) > orders[id].input
      PROVE  id \in DOMAIN orders'
  <2>1. CASE OrdersStay \/ \E u \in User : OrderAdded(u)
    BY <2>1 DEF OrdersStay, OrderAdded
  <2>2. CASE MatchCommitted
    BY <1>1, <2>2 DEF MatchCommitted, IInv, MatchCopies
  <2>3. CASE CancelCommitted \/ FreeCommitted
    <3>1. SUFFICES ASSUME id \notin DOMAIN wOrders PROVE FALSE
      BY <2>3 DEF CancelCommitted, FreeCommitted
    <3>2. PenaltyAmount(orders[id]) <= orders[id].input
      BY <1>1, <2>3, <3>1 DEF CancelCommitted, FreeCommitted, IInv, ReleaseCopies
    <3>3. orders[id].input \in Nat
      BY <1>1 DEF IInv, TypeOK, Order
    <3>4. PenaltyAmount(orders[id]) \in Int
      BY <1>1, PenaltyIsInteger
    <3> QED BY <1>1, <3>2, <3>3, <3>4
  <2> QED BY <1>1, <2>1, <2>2, <2>3, OrdersChange
<1>2. IInv /\ [Next]_vars =>
        [\A id \in DOMAIN orders :
           PenaltyAmount(orders[id]) > orders[id].input => id \in DOMAIN orders']_vars
  BY <1>1
<1> QED BY <1>2, Invariance, PTL DEF Spec, LateOrdersStay

(* No id is used twice, and an order outside its creator's index never     *)
(* comes back into it.                                                     *)
THEOREM OrphansNeverReturn == Spec => OrphansStay
<1>1. ASSUME IInv, [Next]_vars, NEW id \in 0..(orderIdCounter - 1)
      PROVE  /\ id \notin DOMAIN orders => id \notin DOMAIN orders'
             /\ \A u \in User : id \notin GetAddressOrderIds(u)
                   => id \notin GetAddressOrderIds(u)'
  <2>1. orderIdCounter \in Nat /\ id # orderIdCounter
    BY <1>1 DEF IInv, TypeOK
  <2>2. CASE OrdersStay
    BY <2>2 DEF OrdersStay, GetAddressOrderIds
  <2>3. ASSUME NEW v \in User, OrderAdded(v)
        PROVE  /\ id \notin DOMAIN orders => id \notin DOMAIN orders'
               /\ \A u \in User : id \notin GetAddressOrderIds(u)
                     => id \notin GetAddressOrderIds(u)'
    <3>1. \A u \in User : id \in addressOrderIds'[u] => id \in addressOrderIds[u]
      BY <1>1, <2>1, <2>3 DEF OrderAdded, GetAddressOrderIds, IInv, TypeOK
    <3> QED BY <2>1, <2>3, <3>1 DEF OrderAdded, GetAddressOrderIds
  <2>4. CASE MatchCommitted \/ CancelCommitted \/ FreeCommitted
    <3>1. DOMAIN orders' \subseteq DOMAIN orders
      BY <1>1, <2>4 DEF MatchCommitted, CancelCommitted, FreeCommitted,
         IInv, MatchCopies, ReleaseCopies
    <3>2. \A u \in User : addressOrderIds'[u] \subseteq addressOrderIds[u]
      BY <1>1, <2>4 DEF MatchCommitted, CancelCommitted, FreeCommitted, IInv, TypeOK
    <3> QED BY <3>1, <3>2 DEF GetAddressOrderIds
  <2> QED BY <1>1, <2>2, <2>3, <2>4, OrdersChange
<1>2. IInv /\ [Next]_vars => 
        [\A id \in 0..(orderIdCounter - 1) :
           /\ id \notin DOMAIN orders => id \notin DOMAIN orders'
           /\ \A u \in User : id \notin GetAddressOrderIds(u)
                 => id \notin GetAddressOrderIds(u)']_vars
  BY <1>1
<1> QED BY <1>2, Invariance, PTL DEF Spec, OrphansStay

----------------------------------------------------------------------------
(***************************************************************************)
(* The arithmetic of a single fill, for all amounts: which way             *)
(* rule_of_three rounds, and what that means for the prices of the two     *)
(* orders and for what the two creators are paid.                          *)
(***************************************************************************)
(* rule_of_three rounds down: it yields the largest amount whose share of  *)
(* the total is no more than the value's share of the part.                *)
LEMMA RuleOfThreeLargest ==
  ASSUME NEW part \in Nat, NEW total \in Nat \ {0}, NEW value \in Nat
  PROVE  LET q == RuleOfThree(part, total, value)
         IN /\ q \in Nat
            /\ q * total <= part * value
            /\ \A n \in Nat : n * total <= part * value => n <= q
<1> DEFINE x == part * value
           q == x \div total
<1>1. x \in Nat
  BY ProductMonotone
<1> HIDE DEF x
<1>2. q \in Int /\ x = total * q + (x % total) /\ x % total \in 0..(total - 1)
  BY <1>1
<1> HIDE DEF q
<1>3. total * q = q * total
  BY <1>2
<1>4. q \in Nat
  <2>1. SUFFICES ASSUME q < 0 PROVE FALSE
    BY <1>2
  <2>2. -(q + 1) \in Nat
    BY <1>2, <2>1
  <2>3. total * (-(q + 1)) \in Nat
    BY <2>2
  <2>4. total * q + total = -(total * (-(q + 1)))
    BY <1>2
  <2> QED BY <1>1, <1>2, <2>3, <2>4
<1>5. ASSUME NEW n \in Nat, n * total <= x, n > q PROVE FALSE
  <2>1. q + 1 <= n /\ q + 1 \in Nat
    BY <1>4, <1>5
  <2>2. total * (q + 1) <= total * n
    BY <1>5, <2>1, ProductMonotone
  <2>3. total * (q + 1) = total * q + total /\ total * n = n * total
    BY <1>4, <1>5
  <2>4. total * q \in Nat /\ n * total \in Nat
    BY <1>4, <1>5
  <2> QED BY <1>1, <1>2, <1>5, <2>2, <2>3, <2>4
<1>6. q * total <= x
  <2>1. q * total \in Nat
    BY <1>4
  <2> QED BY <1>1, <1>2, <1>3, <2>1
<1>7. \A n \in Nat : n * total <= x => n <= q
  BY <1>4, <1>5
<1> QED BY <1>4, <1>6, <1>7 DEF RuleOfThree, q, x

(* Taking c from one amount and no more than the proportional share from   *)
(* the other leaves at least the old ratio.                                *)
LEMMA ShareKeepsRatio ==
  ASSUME NEW a \in Nat, NEW b \in Nat, NEW c \in Nat, NEW q \in Nat, q * b <= a * c
  PROVE  (a - q) * b >= a * (b - c)
<1>1. (a - q) * b = a * b - q * b /\ a * (b - c) = a * b - a * c
  OBVIOUS
<1>2. a * b \in Nat /\ q * b \in Nat /\ a * c \in Nat
  OBVIOUS
<1> QED BY <1>1, <1>2

(* What the prices and payments of a fill depend on.                       *)
LEMMA PartiesTyped ==
  ASSUME IInv, tx = "match", NEW m \in DOMAIN wOrders
  PROVE  /\ taker \in Order /\ wOrders[m] \in Order
         /\ taker.input \in Nat /\ taker.output \in Nat
         /\ wOrders[m].input \in Nat /\ wOrders[m].output \in Nat
         /\ takerId \in DOMAIN wOrders
         /\ owed \in [Token -> Nat]
         /\ taker.type \in OrderType /\ wOrders[m].type \in OrderType
BY DEF IInv, TypeOK, MatchCopies, Order

LEMMA Paid ==
  ASSUME owed \in [Token -> Nat], NEW type \in OrderType,
         NEW toMaker \in Nat, NEW toTaker \in Nat, Owe(type, toMaker, toTaker)
  PROVE  LET pays == IF type = "Sell" THEN FirstToken ELSE SecondToken
             gets == IF type = "Sell" THEN SecondToken ELSE FirstToken
         IN owed'[pays] - owed[pays] = toMaker /\ owed'[gets] - owed[gets] = toTaker
<1> DEFINE pays == IF type = "Sell" THEN FirstToken ELSE SecondToken
           gets == IF type = "Sell" THEN SecondToken ELSE FirstToken
<1>1. pays \in Token /\ gets \in Token /\ pays # gets
  BY TokenAssumption
<1>2. owed' = [owed EXCEPT ![pays] = @ + toMaker, ![gets] = @ + toTaker]
  BY DEF Owe
<1> HIDE DEF pays, gets
<1>3. owed'[pays] = owed[pays] + toMaker /\ owed'[gets] = owed[gets] + toTaker
  BY <1>1, <1>2
<1>4. owed[pays] \in Nat /\ owed[gets] \in Nat
  BY <1>1
<1>5. owed'[pays] - owed[pays] = toMaker /\ owed'[gets] - owed[gets] = toTaker
  BY <1>3, <1>4
<1> QED BY <1>5 DEF pays, gets

----------------------------------------------------------------------------
(* The records a fill writes: one party gives c of one amount and q, the   *)
(* rounded share, of the other.                                            *)
LEMMA BuyerKeepsPrice ==
  ASSUME NEW o \in Order, o.type = "Buy", o.output # 0,
         NEW c \in Nat,
         NEW n, n = [o EXCEPT !.input = @ - RuleOfThree(o.input, o.output, c),
                              !.output = @ - c]
  PROVE  KeepsPrice(o, n)
<1> DEFINE q == RuleOfThree(o.input, o.output, c)
<1>1. o.input \in Nat /\ o.output \in Nat \ {0}
  BY DEF Order
<1>2. q \in Nat /\ q * o.output <= o.input * c
  BY <1>1, RuleOfThreeLargest
<1> HIDE DEF q
<1>3. n.input = o.input - q /\ n.output = o.output - c
  BY DEF q, Order
<1>4. (o.input - q) * o.output >= o.input * (o.output - c)
  BY <1>1, <1>2, ShareKeepsRatio
<1> QED BY <1>3, <1>4 DEF KeepsPrice

LEMMA SellerKeepsPrice ==
  ASSUME NEW o \in Order, o.type = "Sell", o.input # 0,
         NEW c \in Nat,
         NEW n, n = [o EXCEPT !.input = @ - c,
                              !.output = @ - RuleOfThree(o.output, o.input, c)]
  PROVE  KeepsPrice(o, n)
<1> DEFINE q == RuleOfThree(o.output, o.input, c)
<1>1. o.output \in Nat /\ o.input \in Nat \ {0}
  BY DEF Order
<1>2. q \in Nat /\ q * o.input <= o.output * c
  BY <1>1, RuleOfThreeLargest
<1> HIDE DEF q
<1>3. n.input = o.input - c /\ n.output = o.output - q
  BY DEF q, Order
<1>4. (o.output - q) * o.input >= o.output * (o.input - c)
  BY <1>1, <1>2, ShareKeepsRatio
<1> QED BY <1>3, <1>4 DEF KeepsPrice

LEMMA UnchangedKeepsPrice ==
  ASSUME NEW o \in Order
  PROVE  KeepsPrice(o, o)
<1>1. o.input * o.output \in Nat /\ o.output * o.input \in Nat
  BY DEF Order
<1> QED BY <1>1 DEF KeepsPrice

(* Whichever branch a fill of a buyer and a seller takes, both orders keep *)
(* their prices.                                                           *)
LEMMA FillKeepsPrice ==
  ASSUME IInv, NEW m \in DOMAIN wOrders \ {takerId},
         tx = "match", wOrders[m].type # taker.type,
         SellWhole(m) \/ SellPart(m) \/ BuyWhole(m) \/ BuyPart(m)
  PROVE  KeepsPrice(taker, taker') /\ KeepsPrice(wOrders[m], wOrders'[m])
<1> DEFINE maker == wOrders[m]
<1>1. /\ taker \in Order /\ maker \in Order
      /\ taker.input \in Nat /\ taker.output \in Nat
      /\ maker.input \in Nat /\ maker.output \in Nat
      /\ takerId \in DOMAIN wOrders /\ m \in DOMAIN wOrders /\ m # takerId
      /\ maker.type \in OrderType
  BY PartiesTyped
<1>2. CASE SellWhole(m)
  <2>1. wOrders'[m] = maker
    BY <1>1, <1>2 DEF SellWhole
  <2>2. /\ taker.type = "Sell" /\ taker.input # 0
        /\ taker' = [taker EXCEPT
                       !.input = @ - maker.output,
                       !.output = @ - RuleOfThree(taker.output, taker.input, maker.output)]
    BY <1>1, <1>2 DEF SellWhole
  <2> HIDE DEF maker
  <2>3. KeepsPrice(taker, taker')
    BY <1>1, <2>2, SellerKeepsPrice
  <2> QED BY <1>1, <2>1, <2>3, UnchangedKeepsPrice DEF maker
<1>3. CASE SellPart(m)
  <2>1. taker' = taker /\ maker.type = "Buy" /\ maker.output # 0
    BY <1>1, <1>3 DEF SellPart, OrderType
  <2>2. wOrders'[m] = [maker EXCEPT
                         !.input = @ - RuleOfThree(maker.input, maker.output, taker.input),
                         !.output = @ - taker.input]
    BY <1>1, <1>3 DEF SellPart
  <2>3. KeepsPrice(maker, wOrders'[m])
    BY <1>1, <2>1, <2>2, BuyerKeepsPrice
  <2> QED BY <1>1, <2>1, <2>3, UnchangedKeepsPrice
<1>4. CASE BuyWhole(m)
  <2>1. wOrders'[m] = maker
    BY <1>1, <1>4 DEF BuyWhole
  <2>2. /\ taker.type = "Buy" /\ taker.output # 0
        /\ taker' = [taker EXCEPT
                       !.input = @ - RuleOfThree(taker.input, taker.output, maker.input),
                       !.output = @ - maker.input]
    BY <1>1, <1>4 DEF BuyWhole
  <2> HIDE DEF maker
  <2>3. KeepsPrice(taker, taker')
    BY <1>1, <2>2, BuyerKeepsPrice
  <2> QED BY <1>1, <2>1, <2>3, UnchangedKeepsPrice DEF maker
<1>5. CASE BuyPart(m)
  <2>1. taker' = taker /\ maker.type = "Sell" /\ maker.input # 0
    BY <1>1, <1>5 DEF BuyPart, OrderType
  <2>2. wOrders'[m] = [maker EXCEPT
                         !.input = @ - taker.output,
                         !.output = @ - RuleOfThree(maker.output, maker.input, taker.output)]
    BY <1>1, <1>5 DEF BuyPart
  <2>3. KeepsPrice(maker, wOrders'[m])
    BY <1>1, <2>1, <2>2, SellerKeepsPrice
  <2> QED BY <1>1, <2>1, <2>3, UnchangedKeepsPrice
<1> QED BY <1>2, <1>3, <1>4, <1>5

(* No fill makes an amount of taker or maker grow.                         *)
LEMMA FillReduces ==
  ASSUME IInv, NEW m \in DOMAIN wOrders \ {takerId}, tx = "match",
         SellWhole(m) \/ SellPart(m) \/ BuyWhole(m) \/ BuyPart(m)
  PROVE  KeepsTerms(taker, taker') /\ KeepsTerms(wOrders[m], wOrders'[m])
<1> DEFINE maker == wOrders[m]
<1>1. /\ taker \in Order /\ maker \in Order
      /\ taker.input \in Nat /\ taker.output \in Nat
      /\ maker.input \in Nat /\ maker.output \in Nat
      /\ takerId \in DOMAIN wOrders /\ m \in DOMAIN wOrders /\ m # takerId
  BY PartiesTyped
<1>2. KeepsTerms(taker, taker) /\ KeepsTerms(maker, maker)
  BY <1>1 DEF KeepsTerms
<1>3. CASE SellWhole(m)
  <2> DEFINE out == RuleOfThree(taker.output, taker.input, maker.output)
  <2>1. /\ wOrders'[m] = maker /\ taker.input \in Nat \ {0} /\ maker.output <= taker.input
        /\ taker' = [taker EXCEPT !.input = @ - maker.output, !.output = @ - out]
    BY <1>1, <1>3 DEF SellWhole
  <2>2. out \in Nat /\ out <= taker.output
    BY <1>1, <2>1, RuleOfThreeBound
  <2> HIDE DEF maker, out
  <2> QED BY <1>1, <1>2, <2>1, <2>2, Reduced DEF maker
<1>4. CASE SellPart(m)
  <2> DEFINE in == RuleOfThree(maker.input, maker.output, taker.input)
  <2>1. /\ taker' = taker /\ maker.output \in Nat \ {0} /\ taker.input <= maker.output
        /\ wOrders'[m] = [maker EXCEPT !.input = @ - in, !.output = @ - taker.input]
    BY <1>1, <1>4 DEF SellPart
  <2>2. in \in Nat /\ in <= maker.input
    BY <1>1, <2>1, RuleOfThreeBound
  <2> HIDE DEF maker, in
  <2> QED BY <1>1, <1>2, <2>1, <2>2, Reduced DEF maker
<1>5. CASE BuyWhole(m)
  <2> DEFINE in == RuleOfThree(taker.input, taker.output, maker.input)
  <2>1. /\ wOrders'[m] = maker /\ taker.output \in Nat \ {0} /\ maker.input <= taker.output
        /\ taker' = [taker EXCEPT !.input = @ - in, !.output = @ - maker.input]
    BY <1>1, <1>5 DEF BuyWhole
  <2>2. in \in Nat /\ in <= taker.input
    BY <1>1, <2>1, RuleOfThreeBound
  <2> HIDE DEF maker, in
  <2> QED BY <1>1, <1>2, <2>1, <2>2, Reduced DEF maker
<1>6. CASE BuyPart(m)
  <2> DEFINE out == RuleOfThree(maker.output, maker.input, taker.output)
  <2>1. /\ taker' = taker /\ maker.input \in Nat \ {0} /\ taker.output <= maker.input
        /\ wOrders'[m] = [maker EXCEPT !.input = @ - taker.output, !.output = @ - out]
    BY <1>1, <1>6 DEF BuyPart
  <2>2. out \in Nat /\ out <= maker.output
    BY <1>1, <2>1, RuleOfThreeBound
  <2> HIDE DEF maker, out
  <2> QED BY <1>1, <1>2, <2>1, <2>2, Reduced DEF maker
<1> QED BY <1>3, <1>4, <1>5, <1>6

(* Rounding never turns a fill against the order it is applied to.         *)
THEOREM PriceKeptByRounding == Spec => RoundingKeepsPrice
<1>1. IInv =>
        [\A m \in DOMAIN wOrders \ {takerId} :
           /\ tx = "match"
           /\ wOrders[m].type # taker.type
           /\ SellWhole(m) \/ SellPart(m) \/ BuyWhole(m) \/ BuyPart(m)
           => KeepsPrice(taker, taker') /\ KeepsPrice(wOrders[m], wOrders'[m])]_vars
  BY FillKeepsPrice
<1> QED BY <1>1, Invariance, PTL DEF RoundingKeepsPrice

----------------------------------------------------------------------------
(* A fill of two orders that cross pays each creator no more than the      *)
(* other party spends: the share that rounding leaves is still worth what  *)
(* the price demands.                                                      *)
LEMMA ShareCovers ==
  ASSUME NEW part \in Nat, NEW total \in Nat \ {0}, NEW value \in Nat,
         NEW price \in Nat, price * total <= part * value
  PROVE  price <= RuleOfThree(part, total, value)
BY RuleOfThreeLargest

THEOREM CrossingFillsFunded == Spec => FillsFunded
<1>1. ASSUME IInv, NEW m \in DOMAIN wOrders,
             tx = "match", SellPart(m) \/ BuyWhole(m) \/ BuyPart(m)
      PROVE  FundedFill(m)
  <2> DEFINE maker == wOrders[m]
             pays == IF taker.type = "Sell" THEN FirstToken ELSE SecondToken
             gets == IF taker.type = "Sell" THEN SecondToken ELSE FirstToken
  <2> SUFFICES ASSUME m # takerId, maker.type # taker.type,
                      IF taker.type = "Buy" THEN Cross(maker, taker) ELSE Cross(taker, maker)
               PROVE  /\ owed'[pays] - owed[pays] <= Spent(taker, taker')
                      /\ owed'[gets] - owed[gets] <= Spent(maker, wOrders'[m])
    BY DEF FundedFill, Funded
  <2>1. /\ taker \in Order /\ maker \in Order
        /\ taker.input \in Nat /\ taker.output \in Nat
        /\ maker.input \in Nat /\ maker.output \in Nat
        /\ takerId \in DOMAIN wOrders /\ m \in DOMAIN wOrders
        /\ owed \in [Token -> Nat]
    BY <1>1, PartiesTyped
  <2>2. CASE SellPart(m)
    <3> DEFINE in == RuleOfThree(maker.input, maker.output, taker.input)
    <3>1. /\ taker.type = "Sell" /\ taker' = taker /\ taker.input < maker.output
          /\ Owe("Sell", taker.input, taker.output)
          /\ wOrders'[m] = [maker EXCEPT !.input = @ - in, !.output = @ - taker.input]
      BY <2>1, <2>2 DEF SellPart
    <3>2. wOrders'[m].input = maker.input - in
      BY <2>1, <3>1 DEF Order
    <3>3. taker.output * maker.output <= maker.input * taker.input
      BY <3>1 DEF Cross
    <3> HIDE DEF maker
    <3>4. maker.output \in Nat \ {0}
      BY <2>1, <3>1
    <3>5. taker.output <= in /\ in \in Nat /\ in <= maker.input
      BY <2>1, <3>1, <3>3, <3>4, ShareCovers, RuleOfThreeBound
    <3>6. /\ owed'[pays] - owed[pays] = taker.input
          /\ owed'[gets] - owed[gets] = taker.output
      BY <2>1, <3>1, Paid DEF OrderType
    <3> HIDE DEF in, pays, gets
    <3> QED BY <2>1, <3>1, <3>2, <3>5, <3>6 DEF Spent
  <2>3. CASE BuyWhole(m)
    <3> DEFINE in == RuleOfThree(taker.input, taker.output, maker.input)
    <3>1. /\ taker.type = "Buy" /\ taker.output \in Nat \ {0} /\ maker.input <= taker.output
          /\ Owe("Buy", maker.output, maker.input)
          /\ taker' = [taker EXCEPT !.input = @ - in, !.output = @ - maker.input]
          /\ wOrders'[m] = maker
      BY <2>1, <2>3 DEF BuyWhole
    <3>2. taker'.input = taker.input - in
      BY <2>1, <3>1 DEF Order
    <3>3. maker.output * taker.output <= taker.input * maker.input
      BY <3>1 DEF Cross
    <3> HIDE DEF maker
    <3>4. maker.output <= in /\ in \in Nat /\ in <= taker.input
      BY <2>1, <3>1, <3>3, ShareCovers, RuleOfThreeBound
    <3>5. /\ owed'[pays] - owed[pays] = maker.output
          /\ owed'[gets] - owed[gets] = maker.input
      BY <2>1, <3>1, Paid DEF OrderType
    <3> HIDE DEF in, pays, gets
    <3> QED BY <2>1, <3>1, <3>2, <3>4, <3>5 DEF Spent
  <2>4. CASE BuyPart(m)
    <3> DEFINE out == RuleOfThree(maker.output, maker.input, taker.output)
    <3>1. /\ taker.type = "Buy" /\ taker' = taker /\ taker.output < maker.input
          /\ Owe("Buy", out, taker.output)
          /\ wOrders'[m] = [maker EXCEPT !.input = @ - taker.output, !.output = @ - out]
      BY <2>1, <2>4 DEF BuyPart
    <3>2. wOrders'[m].input = maker.input - taker.output
      BY <2>1, <3>1 DEF Order
    <3>3. maker.output * taker.output <= taker.input * maker.input
      BY <3>1 DEF Cross
    <3> HIDE DEF maker
    <3>4. maker.input \in Nat \ {0}
      BY <2>1, <3>1
    <3>5. out \in Nat /\ out * maker.input <= maker.output * taker.output
      BY <2>1, <3>4, RuleOfThreeLargest
    <3> HIDE DEF out
    <3>6. out <= taker.input
      <4>1. SUFFICES ASSUME taker.input + 1 <= out PROVE FALSE
        BY <2>1, <3>5
      <4>2. maker.input * (taker.input + 1) <= maker.input * out
        BY <2>1, <3>5, <4>1, ProductMonotone
      <4>3. /\ maker.input * (taker.input + 1) = taker.input * maker.input + maker.input
            /\ maker.input * out = out * maker.input
        BY <2>1, <3>5
      <4>4. /\ taker.input * maker.input \in Nat /\ out * maker.input \in Nat
            /\ maker.output * taker.output \in Nat
        BY <2>1, <3>5
      <4> QED BY <3>3, <3>4, <3>5, <4>2, <4>3, <4>4
    <3>7. /\ owed'[pays] - owed[pays] = out
          /\ owed'[gets] - owed[gets] = taker.output
      BY <2>1, <3>1, <3>5, Paid DEF OrderType
    <3> HIDE DEF pays, gets
    <3> QED BY <2>1, <3>1, <3>2, <3>6, <3>7 DEF Spent
  <2> QED BY <1>1, <2>2, <2>3, <2>4
<1>2. IInv =>
        [\A m \in DOMAIN wOrders :
           tx = "match" /\ (SellPart(m) \/ BuyWhole(m) \/ BuyPart(m)) => FundedFill(m)]_vars
  BY <1>1
<1> QED BY <1>2, Invariance, PTL DEF FillsFunded
=============================================================================
