--------------------------- MODULE ExchangeProofs ---------------------------
(***************************************************************************)
(* Theorems about book and contract together, for all users, amounts and   *)
(* bounds and any number of digits of a price: the composition implements  *)
(* both parts, it keeps price-time priority, and the record of a resting   *)
(* order keeps the price it rests at.                                      *)
(*                                                                         *)
(* What the book and the contract guarantee alone is taken from            *)
(* OrderBookProofs and PairProofs, instantiated like Book and Contract.    *)
(* What has to be added is how they depend on each other: the contract's   *)
(* fills keep prices only if taker and maker are a buyer and a seller,     *)
(* which the book sees to, and the book knows an order only by the         *)
(* quantity and the price that were computed when it arrived.              *)
(***************************************************************************)
EXTENDS Exchange, FiniteSetTheorems, FunctionTheorems, SequenceTheorems,
        WellFoundedInduction, TLAPS

C == INSTANCE PairProofs WITH
  Token <- {FirstToken, SecondToken},
  MaxEpoch <- 0,
  MaxMakers <- MaxOrders,
  MAX_ORDERS_PER_USER <- MaxOrders,
  PERCENT_BASE_POINTS <- 1,
  FEE_PENALTY_INCREASE_EPOCHS <- 1,
  FEE_PENALTY_INCREASE_PERCENT <- 1,
  FREE_ORDER_FROM_STORAGE_MIN_PENALTIES <- 1

B == INSTANCE OrderBookProofs WITH
  orders <- bookOrders,
  OrderID <- 0..(MaxOrders - 1),
  Price <- EnginePrices,
  Quantity <- Amount,
  MaxArrivals <- MaxOrders,
  nil <- MaxOrders

----------------------------------------------------------------------------
(* Only matches run on the contract, and the orders on their way to the    *)
(* book were placed on it.                                                 *)
PlacedOrder == [type : {"Buy", "Sell"}, input : Amount, output : Amount]
Arrival == [id : 0..(MaxOrders - 1), order : PlacedOrder]
Match == [taker : Nat, makers : Seq(Nat)]
OrdersTyped ==
  /\ tx \in {"none", "match"}
  /\ arriving \in Seq(Arrival)
  /\ matches \in Seq(Match)
  /\ makers \in Seq(Nat)

(* o asks for no less than price p, but for its last digit.                *)
PriceKept(o, p) ==
  IF o.type = "Buy" THEN 2 * Scale * o.input >= (2 * p - 1) * o.output
                    ELSE 2 * Scale * o.output >= (2 * p - 1) * o.input

(* What the engine knows of an order, its side and price, is true of its   *)
(* record, and of the copy of it that a transaction works on.              *)
Stands(id, s, p) ==
  /\ id \in DOMAIN orders
  /\ EngineSide(orders[id]) = s
  /\ PriceKept(orders[id], p)
  /\ PriceKept(wOrders[id], p)
ArrivingStand ==
  \A i \in DOMAIN arriving :
    Stands(arriving[i].id, EngineSide(arriving[i].order), EnginePrice(arriving[i].order))
RestingStand ==
  \A id \in DOMAIN bookOrders : Stands(id, bookOrders[id].side, bookOrders[id].price)
CallStands == pc # "idle" => Stands(call.id, call.side, call.price)

(* A taker and its maker are a buyer and a seller, from the book through   *)
(* the results and the match to the transaction.                           *)
Opposed(t, m) ==
  /\ t \in DOMAIN orders
  /\ m \in DOMAIN orders
  /\ orders[t].type # orders[m].type
DoneOpposed ==
  pc # "idle" =>
    /\ \A i \in DOMAIN done :
         \/ Opposed(call.id, done[i].id)
         \/ pc = "returned" /\ i = Len(done) /\ done[i].id = call.id
    /\ \/ partial = MaxOrders
       \/ pc = "returned" /\ partial = call.id
       \/ Opposed(call.id, partial)
MatchesOpposed ==
  \A i \in DOMAIN matches : \A j \in DOMAIN matches[i].makers :
    Opposed(matches[i].taker, matches[i].makers[j])
MakersOpposed ==
  tx = "match" =>
    /\ taker = wOrders[takerId]
    /\ \A j \in DOMAIN makers : Opposed(takerId, makers[j])

IInv ==
  /\ C!IInv
  /\ B!IInv
  /\ OrdersTyped
  /\ ArrivingStand
  /\ RestingStand
  /\ CallStands
  /\ DoneOpposed
  /\ MatchesOpposed
  /\ MakersOpposed

----------------------------------------------------------------------------
(* A finite set of numbers that is not empty has a lowest and a highest    *)
(* element: of the sets of what is below an element, the smallest is empty.*)
LEMMA Lowest ==
  ASSUME NEW L, L \subseteq Nat, IsFiniteSet(L), L # {}
  PROVE  \E x \in L : \A y \in L : x <= y
<1> DEFINE below(x) == {y \in L : y < x}
           F == {T \in SUBSET L : \E x \in L : T = below(x)}
<1>1. IsWellFoundedOn(StrictSubsetOrdering(L), SUBSET L)
  BY FS_StrictSubsetOrderingWellFounded, FS_FiniteSubsetsOfFinite
<1>2. F \subseteq SUBSET L /\ F # {}
  <2>1. PICK x \in L : TRUE
    OBVIOUS
  <2>2. below(x) \in F
    OBVIOUS
  <2> QED BY <2>2
<1>3. PICK T \in F : \A V \in F : ~(<<V, T>> \in StrictSubsetOrdering(L))
  BY <1>1, <1>2, WFMin
<1>4. PICK x \in L : T = below(x)
  OBVIOUS
<1>5. ASSUME NEW y \in L, ~(x <= y) PROVE FALSE
  <2>1. below(y) \in F
    OBVIOUS
  <2>2. below(y) \subseteq T /\ y \in T /\ y \notin below(y)
    <3>1. y < x /\ \A z \in L : z < y => z < x
      BY <1>5
    <3>2. ~(y < y)
      BY <1>5
    <3> QED BY <1>4, <1>5, <3>1, <3>2
  <2>3. <<below(y), T>> \in StrictSubsetOrdering(L)
    BY <2>1, <2>2 DEF StrictSubsetOrdering
  <2> QED BY <1>3, <2>1, <2>3
<1> QED BY <1>5

LEMMA Highest ==
  ASSUME NEW L, L \subseteq Nat, IsFiniteSet(L), L # {}
  PROVE  \E x \in L : \A y \in L : y <= x
<1> DEFINE above(x) == {y \in L : x < y}
           F == {T \in SUBSET L : \E x \in L : T = above(x)}
<1>1. IsWellFoundedOn(StrictSubsetOrdering(L), SUBSET L)
  BY FS_StrictSubsetOrderingWellFounded, FS_FiniteSubsetsOfFinite
<1>2. F \subseteq SUBSET L /\ F # {}
  <2>1. PICK x \in L : TRUE
    OBVIOUS
  <2>2. above(x) \in F
    OBVIOUS
  <2> QED BY <2>2
<1>3. PICK T \in F : \A V \in F : ~(<<V, T>> \in StrictSubsetOrdering(L))
  BY <1>1, <1>2, WFMin
<1>4. PICK x \in L : T = above(x)
  OBVIOUS
<1>5. ASSUME NEW y \in L, ~(y <= x) PROVE FALSE
  <2>1. above(y) \in F
    OBVIOUS
  <2>2. above(y) \subseteq T /\ y \in T /\ y \notin above(y)
    <3>1. x < y /\ \A z \in L : y < z => x < z
      BY <1>5
    <3>2. ~(y < y)
      BY <1>5
    <3> QED BY <1>4, <1>5, <3>1, <3>2
  <2>3. <<above(y), T>> \in StrictSubsetOrdering(L)
    BY <2>1, <2>2 DEF StrictSubsetOrdering
  <2> QED BY <1>3, <2>1, <2>3
<1> QED BY <1>5

(* The price the engine computes is rounded to the nearest: at most half a *)
(* unit of its last digit above the quotient.                              *)
LEMMA QuotientBound ==
  ASSUME NEW a \in Nat, NEW b \in Nat \ {0}
  PROVE  /\ Quotient(a, b) \in Nat
         /\ Quotient(a, b) * (2 * b) <= 2 * Scale * a + b
<1> DEFINE x == 2 * Scale * a + b
           t == 2 * b
<1>1. x \in Nat /\ t \in Nat \ {0}
  BY ScaleAssumption
<1> HIDE DEF x, t
<1>2. C!RuleOfThree(x, t, 1) \in Nat /\ C!RuleOfThree(x, t, 1) * t <= x * 1
  BY <1>1, C!RuleOfThreeLargest, AccountAssumption, AmountAssumption, OrdersAssumption
<1>3. C!RuleOfThree(x, t, 1) = Quotient(a, b)
  BY <1>1 DEF C!RuleOfThree, Quotient, x, t
<1> QED BY <1>1, <1>2, <1>3 DEF x, t

(* The prices of this market meet what OrderBook assumes of prices.        *)
LEMMA PricesOrdered ==
  /\ EnginePrices \subseteq Nat \ {0}
  /\ \A L \in SUBSET EnginePrices : L # {} =>
        /\ \E p \in L : \A r \in L : p <= r
        /\ \E p \in L : \A r \in L : r <= p
<1>1. EnginePrices \subseteq Nat \ {0}
  BY AmountAssumption, QuotientBound DEF EnginePrices
<1>2. IsFiniteSet(EnginePrices)
  <2> DEFINE D == Amount \X Amount
             f == [d \in D |-> Quotient(d[1], d[2])]
             R == {Quotient(a, b) : a \in Amount, b \in Amount}
  <2>1. f \in [D -> R] /\ \A r \in R : \E d \in D : f[d] = r
    <3>1. \A a \in Amount, b \in Amount : <<a, b>> \in D /\ f[<<a, b>>] = Quotient(a, b)
      OBVIOUS
    <3>2. \A d \in D : f[d] \in R
      OBVIOUS
    <3>3. ASSUME NEW r \in R PROVE \E d \in D : f[d] = r
      <4>1. PICK a \in Amount, b \in Amount : r = Quotient(a, b)
        OBVIOUS
      <4>2. <<a, b>> \in D /\ f[<<a, b>>] = r
        BY <3>1, <4>1
      <4> HIDE DEF D, f
      <4> QED BY <4>2
    <3>4. f \in [D -> R]
      BY <3>2
    <3> QED BY <3>3, <3>4
  <2>2. f \in Surjection(D, R)
    BY <2>1, Fun_IsSurj
  <2>3. IsFiniteSet(D)
    BY AmountAssumption, FS_Product
  <2>4. IsFiniteSet(R)
    BY <2>2, <2>3, FS_Surjection
  <2> QED BY <2>4, FS_Subset DEF EnginePrices
<1>3. ASSUME NEW L \in SUBSET EnginePrices, L # {}
      PROVE  /\ \E p \in L : \A r \in L : p <= r
             /\ \E p \in L : \A r \in L : r <= p
  <2>1. IsFiniteSet(L) /\ L \subseteq Nat
    BY <1>1, <1>2, FS_Subset
  <2> QED BY <1>3, <2>1, Lowest, Highest
<1> QED BY <1>1, <1>3

----------------------------------------------------------------------------
(* The steps of Exchange are steps of the contract or leave it alone, and  *)
(* the same for the book.                                                  *)
LEMMA ContractInit ==
  ASSUME Init
  PROVE  C!Init
BY DEF Init, Contract!Init, C!Init, Contract!NoOrder, C!NoOrder,
   Contract!Nothing, C!Nothing

LEMMA ContractStarts ==
  ASSUME Init
  PROVE  C!IInv
BY ContractInit, C!InitEstablishes, AccountAssumption, AmountAssumption, OrdersAssumption

(* A step is one of the contract's, or leaves the contract alone.         *)
LEMMA ContractMaps ==
  ASSUME [Next]_vars
  PROVE  [C!Next]_(C!vars)
<1>1. ASSUME NEW u \in User, NEW type \in {"Buy", "Sell"}, NEW input \in Amount,
             NEW output \in Amount, Place(u, type, input, output)
      PROVE  C!Next
  <2>1. C!CreateOrder(u, type, Payment(type), input, output)
    <3>1. Contract!CreateOrder(u, type, Payment(type), input, output)
      BY <1>1 DEF Place
    <3> QED BY <3>1 DEF Contract!CreateOrder, C!CreateOrder,
            Contract!GetAddressOrderIds, C!GetAddressOrderIds,
            Contract!Cardinality, C!Cardinality
  <2>2. Payment(type) \in {FirstToken, SecondToken} /\ input \in Amount \ {0}
    BY AmountAssumption DEF Payment
  <2> QED BY <2>1, <2>2 DEF C!Next, C!OrderType
<1>2. CASE Execute
  <2>1. PICK t : C!BeginMatch(t)
    BY <1>2 DEF Execute, Contract!BeginMatch, C!BeginMatch, Contract!storage, C!storage
  <2>2. t \in DOMAIN orders
    BY <2>1 DEF C!BeginMatch
  <2> QED BY <2>1, <2>2 DEF C!Next
<1>3. CASE FillNext
  <2>1. PICK m : C!MatchMaker(m)
    BY <1>3 DEF FillNext, Contract!MatchMaker, C!MatchMaker, Contract!storage, C!storage,
       Contract!SellWhole, C!SellWhole, Contract!SellPart, C!SellPart,
       Contract!BuyWhole, C!BuyWhole, Contract!BuyPart, C!BuyPart,
       Contract!Owe, C!Owe, Contract!RuleOfThree, C!RuleOfThree
  <2>2. m \in DOMAIN wOrders
    BY <2>1 DEF C!MatchMaker
  <2> QED BY <2>1, <2>2, SMTT(30) DEF C!Next
<1>4. CASE Commit
  <2>1. C!CommitMatch
    BY <1>4 DEF Commit, Contract!CommitMatch, C!CommitMatch, Contract!Commit, C!Commit,
       Contract!TxEnd, C!TxEnd, Contract!NoOrder, C!NoOrder, Contract!Nothing, C!Nothing
  <2> QED BY <2>1 DEF C!Next
<1>5. CASE Fail
  <2>1. C!RevertMatch
    BY <1>5 DEF Fail, Contract!RevertMatch, C!RevertMatch, Contract!Revert, C!Revert,
       Contract!TxEnd, C!TxEnd, Contract!NoOrder, C!NoOrder, Contract!Nothing, C!Nothing,
       Contract!storage, C!storage
  <2> QED BY <2>1 DEF C!Next
<1>6. CASE Arrive \/ BookStep \/ Submit \/ UNCHANGED vars
  BY <1>6 DEF Arrive, BookStep, Submit, vars, contractVars, C!vars, C!storage, C!txVars
<1> QED BY <1>1, <1>2, <1>3, <1>4, <1>5, <1>6 DEF Next

LEMMA ContractSteps ==
  ASSUME C!IInv, [Next]_vars
  PROVE  C!IInv'
BY ContractMaps, C!StepKeeps, AccountAssumption, AmountAssumption, OrdersAssumption

(* What OrderBook assumes of its constants holds of those of this market.  *)
LEMMA BookAssumptions ==
  /\ EnginePrices \subseteq Nat \ {0}
  /\ \A L \in SUBSET EnginePrices : L # {} =>
        /\ \E p \in L : \A r \in L : p <= r
        /\ \E p \in L : \A r \in L : r <= p
  /\ Amount \subseteq Nat \ {0}
  /\ MaxOrders \in Nat
  /\ MaxOrders \notin 0..(MaxOrders - 1)
<1>1. MaxOrders \notin 0..(MaxOrders - 1)
  BY OrdersAssumption
<1> QED BY <1>1, PricesOrdered, AmountAssumption, OrdersAssumption

LEMMA BookInit ==
  ASSUME Init
  PROVE  B!Init
BY DEF Init, Book!Init, B!Init, Book!Side, B!Side, Book!NoCall, B!NoCall

LEMMA BookStarts ==
  ASSUME Init
  PROVE  B!IInv
BY BookInit, B!InitEstablishes, BookAssumptions

(* A step is one of the book's, or leaves the book alone.                  *)
LEMMA BookMaps ==
  ASSUME [Next]_vars, OrdersTyped
  PROVE  [B!Next]_(B!vars)
<1>1. CASE Arrive
  <2> DEFINE new == Head(arriving)
             s == EngineSide(new.order)
             q == EngineQuantity(new.order)
             p == EnginePrice(new.order)
  <2>1. Book!ProcessLimitOrder(new.id, s, q, p)
    BY <1>1 DEF Arrive
  <2>2. B!ProcessLimitOrder(new.id, s, q, p)
    BY <2>1 DEF Book!ProcessLimitOrder, B!ProcessLimitOrder, Book!Enter, B!Enter,
       Book!LimitError, B!LimitError, Book!book, B!book, Book!results, B!results
  <2>3. new \in Arrival
    BY <1>1, HeadTailProperties DEF Arrive, OrdersTyped
  <2>4. /\ new.id \in 0..(MaxOrders - 1) /\ s \in B!Side /\ q \in Amount
        /\ p \in EnginePrices \cup {0}
    <3>1. /\ new.id \in 0..(MaxOrders - 1)
          /\ new.order.input \in Amount /\ new.order.output \in Amount
      BY <2>3 DEF Arrival, PlacedOrder
    <3>2. p = Quotient(new.order.input, new.order.output)
          \/ p = Quotient(new.order.output, new.order.input)
      BY DEF EnginePrice
    <3>3. q \in {new.order.input, new.order.output}
      BY DEF EngineQuantity
    <3>4. s \in B!Side
      BY DEF EngineSide, B!Side
    <3> HIDE DEF new, s, q, p
    <3> QED BY <3>1, <3>2, <3>3, <3>4 DEF EnginePrices
  <2> HIDE DEF new, s, q, p
  <2> QED BY <2>2, <2>4 DEF B!Next
<1>2. CASE BookStep
  <2>1. CASE Book!MatchHead
    <3>1. B!MatchHead
      BY <2>1 DEF Book!MatchHead, B!MatchHead, Book!Matchable, B!Matchable,
         Book!Opposite, B!Opposite, Book!IsBest, B!IsBest, Book!WithinLimit, B!WithinLimit,
         Book!FillPartially, B!FillPartially, Book!FillWhole, B!FillWhole,
         Book!QueueUpdate, B!QueueUpdate, Book!BookRemove, B!BookRemove,
         Book!Executed, B!Executed, Book!RemoveAt, B!RemoveAt
    <3> QED BY <3>1, SMTT(30) DEF B!Next, B!Step
  <2>2. CASE Book!RestRemainder
    <3>1. B!RestRemainder
      BY <2>2 DEF Book!RestRemainder, B!RestRemainder, Book!CanMatch, B!CanMatch,
         Book!Matchable, B!Matchable, Book!Opposite, B!Opposite, Book!IsBest, B!IsBest,
         Book!WithinLimit, B!WithinLimit, Book!SideAppend, B!SideAppend,
         Book!QueueAppend, B!QueueAppend, Book!Remainder, B!Remainder
    <3> QED BY <3>1 DEF B!Next, B!Step
  <2>3. CASE Book!ReportTaker
    <3>1. B!ReportTaker
      BY <2>3 DEF Book!ReportTaker, B!ReportTaker, Book!CanMatch, B!CanMatch,
         Book!Matchable, B!Matchable, Book!Opposite, B!Opposite, Book!IsBest, B!IsBest,
         Book!WithinLimit, B!WithinLimit, Book!book, B!book
    <3> QED BY <3>1 DEF B!Next, B!Step
  <2> QED BY <1>2, <2>1, <2>2, <2>3 DEF BookStep
<1>3. CASE Submit
  <2>1. B!Return
    BY <1>3 DEF Submit, Book!Return, B!Return, Book!NoCall, B!NoCall, Book!book, B!book
  <2> QED BY <2>1 DEF B!Next, B!Step
<1>4. ASSUME NEW u \in User, NEW type \in {"Buy", "Sell"}, NEW input \in Amount,
             NEW output \in Amount, Place(u, type, input, output)
      PROVE  UNCHANGED B!vars
  BY <1>4 DEF Place, bookVars, B!vars, B!book, B!callVars, B!results
<1>5. CASE Execute \/ FillNext \/ Commit \/ Fail \/ UNCHANGED vars
  BY <1>5 DEF Execute, FillNext, Commit, Fail, vars, bookVars,
     B!vars, B!book, B!callVars, B!results
<1> QED BY <1>1, <1>2, <1>3, <1>4, <1>5 DEF Next

LEMMA BookSteps ==
  ASSUME B!IInv, [Next]_vars, OrdersTyped
  PROVE  B!IInv'
BY BookMaps, B!StepKeeps, BookAssumptions
----------------------------------------------------------------------------
(* A fill that keeps the ratio of two amounts keeps every bound on it.     *)
LEMMA RatioCarried ==
  ASSUME NEW S \in Nat, NEW k \in Int, NEW a \in Nat, NEW b \in Nat,
         NEW c \in Nat, NEW d \in Nat,
         d <= b, c * b >= a * d, S * a >= k * b
  PROVE  S * c >= k * d
<1>1. S * c \in Nat /\ k * d \in Int
  OBVIOUS
<1>2. CASE k <= 0
  <2>1. (-k) * d \in Nat /\ k * d = -((-k) * d)
    BY <1>2
  <2> QED BY <1>1, <2>1
<1>3. CASE k > 0 /\ b = 0
  <2>1. d = 0
    BY <1>3
  <2>2. k * d = 0
    BY <2>1
  <2> QED BY <1>1, <2>2
<1>4. CASE k > 0 /\ b > 0
  <2>1. SUFFICES ASSUME S * c + 1 <= k * d PROVE FALSE
    BY <1>1
  <2>2. (S * c + 1) * b <= (k * d) * b
    BY <1>1, <1>4, <2>1, B!ProductMonotone, BookAssumptions
  <2>3. (k * b) * d <= (S * a) * d
    <3>1. k * b \in Nat /\ S * a \in Nat
      BY <1>4
    <3> QED BY <3>1, B!ProductMonotone, BookAssumptions
  <2>4. (a * d) * S <= (c * b) * S
    <3>1. a * d \in Nat /\ c * b \in Nat
      OBVIOUS
    <3> QED BY <3>1, B!ProductMonotone, BookAssumptions
  <2>5. /\ (S * c + 1) * b = (c * b) * S + b
        /\ (k * d) * b = (k * b) * d
        /\ (S * a) * d = (a * d) * S
    OBVIOUS
  <2>6. (c * b) * S \in Nat /\ (k * b) * d \in Int /\ (a * d) * S \in Nat
    OBVIOUS
  <2> QED BY <1>4, <2>2, <2>3, <2>4, <2>5, <2>6
<1> QED BY <1>2, <1>3, <1>4

LEMMA PriceCarried ==
  ASSUME NEW o, NEW n, NEW p \in Nat,
         o.input \in Nat, o.output \in Nat, n.input \in Nat, n.output \in Nat,
         n.type = o.type, n.input <= o.input, n.output <= o.output,
         C!KeepsPrice(o, n), PriceKept(o, p)
  PROVE  PriceKept(n, p)
<1>1. 2 * Scale \in Nat /\ 2 * p - 1 \in Int
  BY ScaleAssumption
<1>2. CASE o.type = "Buy"
  BY <1>1, <1>2, RatioCarried DEF PriceKept, C!KeepsPrice
<1>3. CASE o.type # "Buy"
  BY <1>1, <1>3, RatioCarried DEF PriceKept, C!KeepsPrice
<1> QED BY <1>2, <1>3

(* An order is placed at no worse than the price the engine computes.      *)
LEMMA PlacedAtPrice ==
  ASSUME NEW o \in PlacedOrder
  PROVE  EnginePrice(o) \in Nat /\ PriceKept(o, EnginePrice(o))
<1>1. o.input \in Nat \ {0} /\ o.output \in Nat \ {0}
  BY AmountAssumption DEF PlacedOrder
<1>2. ASSUME NEW a \in Nat, NEW b \in Nat \ {0}, NEW p \in Nat,
             p * (2 * b) <= 2 * Scale * a + b
      PROVE  2 * Scale * a >= (2 * p - 1) * b
  <2>1. (2 * p - 1) * b = p * (2 * b) - b
    OBVIOUS
  <2>2. p * (2 * b) \in Nat /\ 2 * Scale * a \in Nat
    BY ScaleAssumption
  <2> QED BY <1>2, <2>1, <2>2
<1>3. CASE o.type = "Buy"
  BY <1>1, <1>2, <1>3, QuotientBound DEF PriceKept, EnginePrice
<1>4. CASE o.type # "Buy"
  BY <1>1, <1>2, <1>4, QuotientBound DEF PriceKept, EnginePrice
<1> QED BY <1>3, <1>4

----------------------------------------------------------------------------
(* What a step does to the records of the orders that are there.           *)
LEMMA Parties ==
  ASSUME C!IInv, tx = "match"
  PROVE  /\ DOMAIN wOrders = DOMAIN orders /\ takerId \in DOMAIN orders
         /\ taker.type = orders[takerId].type
         /\ \A id \in DOMAIN orders :
              /\ wOrders[id].type = orders[id].type
              /\ wOrders[id].input \in Nat /\ wOrders[id].output \in Nat
BY DEF C!IInv, C!TypeOK, C!MatchCopies, C!KeepsTerms, C!Order

LEMMA FillCarries ==
  ASSUME C!IInv, OrdersTyped, MakersOpposed, FillNext
  PROVE  /\ tx = "match" /\ UNCHANGED <<orders, tx, takerId>>
         /\ taker' = wOrders'[takerId]
         /\ \A id \in DOMAIN orders : \A p \in Nat :
              PriceKept(wOrders[id], p) => PriceKept(wOrders'[id], p)
<1> DEFINE m == Head(makers)
<1>1. C!MatchMaker(m)
  BY DEF FillNext, Contract!MatchMaker, C!MatchMaker, Contract!storage, C!storage,
     Contract!SellWhole, C!SellWhole, Contract!SellPart, C!SellPart,
     Contract!BuyWhole, C!BuyWhole, Contract!BuyPart, C!BuyPart,
     Contract!Owe, C!Owe, Contract!RuleOfThree, C!RuleOfThree
<1>2. 1 \in DOMAIN makers /\ m = makers[1]
  BY DEF FillNext, OrdersTyped
<1> HIDE DEF m
<1>3. /\ tx = "match" /\ UNCHANGED <<orders, tx, takerId>> /\ m \in DOMAIN wOrders
      /\ C!SellWhole(m) \/ C!SellPart(m) \/ C!BuyWhole(m) \/ C!BuyPart(m)
  BY <1>1 DEF C!MatchMaker, C!storage
<1>4. taker = wOrders[takerId] /\ Opposed(takerId, m)
  BY <1>2, <1>3 DEF MakersOpposed
<1>5. m \in DOMAIN wOrders \ {takerId} /\ wOrders[m].type # taker.type
  BY <1>3, <1>4, Parties DEF Opposed
<1>6. C!KeepsPrice(taker, taker') /\ C!KeepsPrice(wOrders[m], wOrders'[m])
  BY <1>3, <1>5, C!FillKeepsPrice, AccountAssumption, AmountAssumption, OrdersAssumption
<1>7. C!KeepsTerms(taker, taker') /\ C!KeepsTerms(wOrders[m], wOrders'[m])
  BY <1>3, <1>5, C!FillReduces, AccountAssumption, AmountAssumption, OrdersAssumption
<1>8. /\ taker' = wOrders'[takerId]
      /\ \A id \in DOMAIN orders \ {takerId, m} : wOrders'[id] = wOrders[id]
  <2>1. takerId \in DOMAIN wOrders /\ DOMAIN wOrders = DOMAIN orders
    BY <1>3, Parties
  <2>2. CASE C!SellWhole(m) \/ C!BuyWhole(m)
    <3>1. wOrders' = [wOrders EXCEPT ![takerId] = taker']
      BY <2>2 DEF C!SellWhole, C!BuyWhole
    <3> QED BY <2>1, <3>1
  <2>3. CASE C!SellPart(m) \/ C!BuyPart(m)
    <3>1. taker' = taker /\ \E n : wOrders' = [wOrders EXCEPT ![m] = n]
      BY <2>3 DEF C!SellPart, C!BuyPart
    <3> QED BY <1>4, <1>5, <2>1, <3>1
  <2> QED BY <1>3, <2>2, <2>3
<1>9. \A id \in DOMAIN orders : wOrders'[id].input \in Nat /\ wOrders'[id].output \in Nat
  <2>1. C!IInv'
    BY ContractSteps DEF Next
  <2> QED BY <1>3, <2>1 DEF C!IInv, C!TypeOK, C!MatchCopies, C!Order
<1>10. ASSUME NEW id \in DOMAIN orders, NEW p \in Nat, PriceKept(wOrders[id], p)
       PROVE  PriceKept(wOrders'[id], p)
  <2>1. CASE id \in {takerId, m}
    <3>1. C!KeepsPrice(wOrders[id], wOrders'[id]) /\ C!KeepsTerms(wOrders[id], wOrders'[id])
      BY <1>4, <1>6, <1>7, <1>8, <2>1
    <3>2. /\ wOrders'[id].type = wOrders[id].type
          /\ wOrders'[id].input <= wOrders[id].input
          /\ wOrders'[id].output <= wOrders[id].output
      BY <3>1 DEF C!KeepsTerms
    <3> QED BY <1>3, <1>9, <1>10, <3>1, <3>2, Parties, PriceCarried
  <2>2. CASE id \notin {takerId, m}
    BY <1>8, <1>10, <2>2
  <2> QED BY <2>1, <2>2
<1> QED BY <1>3, <1>8, <1>10

LEMMA RecordsCarried ==
  ASSUME C!IInv, OrdersTyped, MakersOpposed, [Next]_vars, NEW id \in DOMAIN orders
  PROVE  /\ id \in DOMAIN orders' /\ orders'[id].type = orders[id].type
         /\ \A p \in Nat :
              PriceKept(orders[id], p) /\ PriceKept(wOrders[id], p)
                => PriceKept(orders'[id], p) /\ PriceKept(wOrders'[id], p)
<1>1. ASSUME NEW u \in User, NEW type \in {"Buy", "Sell"}, NEW input \in Amount,
             NEW output \in Amount, Place(u, type, input, output)
      PROVE  orders'[id] = orders[id] /\ wOrders'[id] = orders[id] /\ id \in DOMAIN orders'
  <2>1. id # orderIdCounter
    BY DEF C!IInv, C!TypeOK, C!IndexOwned
  <2> QED BY <1>1, <2>1 DEF Place, Contract!CreateOrder
<1>2. CASE FillNext
  BY <1>2, FillCarries
<1>3. CASE Commit
  <2>1. tx = "match" /\ orders' = wOrders /\ wOrders' = wOrders
    BY <1>3 DEF Commit, Contract!CommitMatch, Contract!Commit
  <2> QED BY <2>1, Parties
<1>4. CASE Fail
  BY <1>4 DEF Fail, Contract!RevertMatch, Contract!Revert, Contract!storage
<1>5. CASE Arrive \/ BookStep \/ Submit \/ Execute \/ UNCHANGED vars
  BY <1>5 DEF Arrive, BookStep, Submit, Execute, vars, contractVars,
     Contract!BeginMatch, Contract!storage
<1> QED BY <1>1, <1>2, <1>3, <1>4, <1>5 DEF Next

(* So what the engine knows of an order stays true.                        *)
LEMMA StandsCarried ==
  ASSUME C!IInv, OrdersTyped, MakersOpposed, [Next]_vars
  PROVE  \A id, s : \A p \in Nat : Stands(id, s, p) => Stands(id, s, p)'
BY RecordsCarried DEF Stands, EngineSide

LEMMA OpposedCarried ==
  ASSUME C!IInv, OrdersTyped, MakersOpposed, [Next]_vars
  PROVE  \A t, m : Opposed(t, m) => Opposed(t, m)'
BY RecordsCarried DEF Opposed

----------------------------------------------------------------------------
(* The makers of a match are on the other side than its taker.             *)
LEMMA MakersOfMatch ==
  ASSUME B!IInv, DoneOpposed, pc # "idle"
  PROVE  /\ call.id \in Nat /\ Makers \in Seq(Nat)
         /\ \A j \in DOMAIN Makers : Opposed(call.id, Makers[j])
<1>1. /\ call.id \in Nat /\ done \in Seq(B!Fill)
      /\ partial \in 0..MaxOrders
      /\ Len(done) \in Nat /\ DOMAIN done = 1..Len(done)
      /\ \A i \in 1..Len(done) : done[i].id \in Nat
  <2>1. call \in B!Call /\ done \in Seq(B!Fill) /\ partial \in 0..(MaxOrders - 1) \cup {MaxOrders}
    BY DEF B!IInv, B!CallOK, B!CallTypeOK
  <2>2. call.id \in Nat /\ partial \in 0..MaxOrders
    BY <2>1, OrdersAssumption DEF B!Call
  <2>3. Len(done) \in Nat /\ DOMAIN done = 1..Len(done)
    BY <2>1, LenProperties
  <2>4. \A i \in 1..Len(done) : done[i].id \in Nat
    <3>1. \A f \in B!Fill : f.id \in Nat
      BY OrdersAssumption DEF B!Fill
    <3>2. \A i \in 1..Len(done) : done[i] \in B!Fill
      BY <2>1, <2>3
    <3> QED BY <3>1, <3>2
  <2> QED BY <2>1, <2>2, <2>3, <2>4
<1>2. DoneMakers \in Seq(Nat) /\ \A i \in DOMAIN DoneMakers : Opposed(call.id, DoneMakers[i])
  <2> DEFINE n == Len(done)
             k == IF n > 0 /\ done[n].id = call.id THEN n - 1 ELSE n
  <2>1. k \in 0..n /\ DoneMakers = [i \in 1..k |-> done[i].id]
    BY <1>1 DEF DoneMakers
  <2>2. \A i \in 1..k : i \in 1..n /\ Opposed(call.id, done[i].id)
    BY <1>1 DEF DoneOpposed
  <2> HIDE DEF k
  <2> QED BY <1>1, <2>1, <2>2
<1>3. PartialMaker \in Seq(Nat) /\ \A i \in DOMAIN PartialMaker : Opposed(call.id, PartialMaker[i])
  BY <1>1 DEF PartialMaker, DoneOpposed
<1> QED BY <1>1, <1>2, <1>3, ConcatProperties DEF Makers

LEMMA TypedCarried ==
  ASSUME C!IInv, B!IInv, DoneOpposed, OrdersTyped, [Next]_vars
  PROVE  OrdersTyped'
<1>1. ASSUME NEW u \in User, NEW type \in {"Buy", "Sell"}, NEW input \in Amount,
             NEW output \in Amount, Place(u, type, input, output)
      PROVE  OrdersTyped'
  <2> DEFINE a == [id |-> orderIdCounter,
                   order |-> [type |-> type, input |-> input, output |-> output]]
  <2>1. a \in Arrival
    BY <1>1, OrdersAssumption DEF Place, Contract!CreateOrder, Arrival, PlacedOrder,
       C!IInv, C!TypeOK
  <2>2. arriving' = Append(arriving, a) /\ UNCHANGED <<tx, matches, makers>>
    BY <1>1 DEF Place, Contract!CreateOrder
  <2> QED BY <2>1, <2>2 DEF OrdersTyped
<1>2. CASE Arrive
  BY <1>2, HeadTailProperties DEF Arrive, contractVars, OrdersTyped
<1>3. CASE BookStep \/ UNCHANGED vars
  BY <1>3 DEF BookStep, vars, contractVars, OrdersTyped
<1>4. CASE Submit
  <2>1. pc # "idle" /\ UNCHANGED <<tx, arriving, makers>>
        /\ \/ matches' = matches
           \/ matches' = Append(matches, [taker |-> call.id, makers |-> Makers])
    BY <1>4 DEF Submit, Book!Return, contractVars
  <2>2. [taker |-> call.id, makers |-> Makers] \in Match
    BY <2>1, MakersOfMatch DEF Match
  <2>3. matches' \in Seq(Match)
    <3> DEFINE e == [taker |-> call.id, makers |-> Makers]
    <3>1. e \in Match /\ matches \in Seq(Match)
      BY <2>2 DEF OrdersTyped
    <3>2. matches' = matches \/ matches' = Append(matches, e)
      BY <2>1
    <3> HIDE DEF e
    <3> QED BY <3>1, <3>2
  <2> QED BY <2>1, <2>3 DEF OrdersTyped
<1>5. CASE Execute
  <2>1. tx' = "match" /\ UNCHANGED arriving /\ matches # <<>>
        /\ makers' = Head(matches).makers /\ matches' = Tail(matches)
    BY <1>5 DEF Execute, Contract!BeginMatch
  <2>2. Head(matches) \in Match /\ Tail(matches) \in Seq(Match)
    BY <2>1, HeadTailProperties DEF OrdersTyped
  <2> QED BY <2>1, <2>2 DEF OrdersTyped, Match
<1>6. CASE FillNext
  BY <1>6, HeadTailProperties DEF FillNext, Contract!MatchMaker, OrdersTyped
<1>7. CASE Commit \/ Fail
  <2>1. tx' = "none" /\ UNCHANGED <<arriving, matches>> /\ makers' \in {makers, <<>>}
    BY <1>7 DEF Commit, Fail, Contract!CommitMatch, Contract!Commit, Contract!RevertMatch,
       Contract!Revert, Contract!TxEnd
  <2>2. makers' \in Seq(Nat)
    <3>1. makers \in Seq(Nat) /\ <<>> \in Seq(Nat)
      BY DEF OrdersTyped
    <3> QED BY <2>1, <3>1
  <2> QED BY <2>1, <2>2 DEF OrdersTyped
<1> QED BY <1>1, <1>2, <1>3, <1>4, <1>5, <1>6, <1>7 DEF Next

----------------------------------------------------------------------------
(* What the engine knows of the orders on their way, in the book and in the*)
(* call stays true.                                                        *)
LEMMA ArrivingCarried ==
  ASSUME C!IInv, OrdersTyped, MakersOpposed, ArrivingStand, [Next]_vars
  PROVE  ArrivingStand'
<1>1. ASSUME NEW a \in Arrival, Stands(a.id, EngineSide(a.order), EnginePrice(a.order))
      PROVE  Stands(a.id, EngineSide(a.order), EnginePrice(a.order))'
  <2> DEFINE s == EngineSide(a.order)
             p == EnginePrice(a.order)
  <2>1. p \in Nat
    BY PlacedAtPrice DEF Arrival
  <2> HIDE DEF s, p
  <2>2. Stands(a.id, s, p)
    BY <1>1 DEF s, p
  <2>3. Stands(a.id, s, p)'
    BY <2>1, <2>2, StandsCarried
  <2> QED BY <2>3 DEF s, p
<1>2. \A i \in DOMAIN arriving :
        /\ arriving[i] \in Arrival
        /\ Stands(arriving[i].id, EngineSide(arriving[i].order), EnginePrice(arriving[i].order))
  BY DEF OrdersTyped, ArrivingStand
<1>3. ASSUME NEW u \in User, NEW type \in {"Buy", "Sell"}, NEW input \in Amount,
             NEW output \in Amount, Place(u, type, input, output)
      PROVE  ArrivingStand'
  <2> DEFINE o == [type |-> type, input |-> input, output |-> output]
  <2>1. PICK a : a = [id |-> orderIdCounter, order |-> o]
    OBVIOUS
  <2>2. /\ a.order = o
        /\ arriving' = Append(arriving, a)
        /\ a.id \in DOMAIN orders'
        /\ orders'[a.id].type = type
        /\ orders'[a.id].input = input /\ orders'[a.id].output = output
        /\ wOrders' = orders'
    BY <1>3, <2>1 DEF Place, Contract!CreateOrder
  <2>3. PriceKept(o, EnginePrice(o))
    BY PlacedAtPrice DEF PlacedOrder
  <2>4. PriceKept(orders'[a.id], EnginePrice(o)) /\ PriceKept(wOrders'[a.id], EnginePrice(o))
    BY <2>2, <2>3 DEF PriceKept
  <2>5. EngineSide(orders'[a.id]) = EngineSide(o)
    BY <2>2 DEF EngineSide
  <2>6. Stands(a.id, EngineSide(a.order), EnginePrice(a.order))'
    <3> HIDE DEF o
    <3> QED BY <2>2, <2>4, <2>5 DEF Stands
  <2>7. ASSUME NEW i \in DOMAIN arriving'
        PROVE  \/ i \in DOMAIN arriving /\ arriving'[i] = arriving[i]
               \/ arriving'[i] = a
    BY <2>2 DEF OrdersTyped
  <2> QED BY <1>1, <1>2, <2>6, <2>7 DEF ArrivingStand
<1>4. CASE Arrive
  <2>1. arriving # <<>> /\ arriving' = Tail(arriving)
    BY <1>4 DEF Arrive
  <2>2. \A i \in DOMAIN arriving' : i + 1 \in DOMAIN arriving /\ arriving'[i] = arriving[i + 1]
    BY <2>1 DEF OrdersTyped
  <2> QED BY <1>1, <1>2, <2>2 DEF ArrivingStand
<1>5. CASE BookStep \/ Submit \/ Execute \/ FillNext \/ Commit \/ Fail \/ UNCHANGED vars
  <2>1. arriving' = arriving
    BY <1>5 DEF BookStep, Submit, Execute, FillNext, Commit, Fail, vars
  <2> QED BY <1>1, <1>2, <2>1 DEF ArrivingStand
<1> QED BY <1>3, <1>4, <1>5 DEF Next

(* The head that a call takes is an order on the other side than the one   *)
(* that arrived, and the orders that stay keep their sides and prices.     *)
LEMMA HeadOpposed ==
  ASSUME B!IInv, RestingStand, CallStands, Book!MatchHead
  PROVE  /\ pc = "matching" /\ UNCHANGED <<pc, call>>
         /\ \E h \in DOMAIN bookOrders :
              /\ Opposed(call.id, h)
              /\ \/ done' = done /\ partial' = h
                 \/ \E f : f.id = h /\ done' = Append(done, f) /\ partial' = MaxOrders
         /\ \A id \in DOMAIN bookOrders' :
              /\ id \in DOMAIN bookOrders
              /\ bookOrders'[id].side = bookOrders[id].side
              /\ bookOrders'[id].price = bookOrders[id].price
<1> DEFINE s == Book!Opposite(call.side)
<1>1. PICK p \in levels[s] :
        Book!FillPartially(Head(queue[s][p])) \/ Book!FillWhole(Head(queue[s][p]))
  BY DEF Book!MatchHead
<1> DEFINE h == Head(queue[s][p])
<1>2. pc = "matching" /\ UNCHANGED <<pc, call>>
  BY <1>1 DEF Book!MatchHead, Book!FillPartially, Book!FillWhole
<1>3. s \in B!Side /\ s # call.side
  <2>1. call.side \in B!Side
    BY DEF B!IInv, B!CallOK, B!CallTypeOK, B!Call
  <2> QED BY <2>1 DEF Book!Opposite, B!Side
<1>4. h \in DOMAIN bookOrders /\ bookOrders[h] \in B!Order /\ bookOrders[h].side = s
  <2>1. B!BookTypeOK /\ B!IndexConsistent /\ B!LevelsExact
    BY DEF B!IInv, B!BookOK, B!CountersExact
  <2> HIDE DEF s
  <2> QED BY <1>1, <1>3, <2>1, B!LevelHead, BookAssumptions
<1> HIDE DEF h, s
<1>5. Opposed(call.id, h)
  BY <1>2, <1>3, <1>4 DEF RestingStand, CallStands, Stands, Opposed, EngineSide
<1>6. CASE Book!FillPartially(h)
  <2>1. /\ \E q : bookOrders' = [bookOrders EXCEPT ![h].quantity = q]
        /\ done' = done /\ partial' = h
    BY <1>6 DEF Book!FillPartially, Book!QueueUpdate
  <2>2. \A id \in DOMAIN bookOrders' :
          /\ id \in DOMAIN bookOrders
          /\ bookOrders'[id].side = bookOrders[id].side
          /\ bookOrders'[id].price = bookOrders[id].price
    BY <1>4, <2>1 DEF B!Order
  <2> QED BY <1>2, <1>4, <1>5, <2>1, <2>2
<1>7. CASE Book!FillWhole(h)
  <2>1. /\ bookOrders' = [j \in DOMAIN bookOrders \ {h} |-> bookOrders[j]]
        /\ done' = Append(done, Book!Executed(h)) /\ partial' = MaxOrders
    BY <1>7 DEF Book!FillWhole, Book!BookRemove
  <2>2. Book!Executed(h).id = h
    BY DEF Book!Executed
  <2> QED BY <1>2, <1>4, <1>5, <2>1, <2>2
<1> QED BY <1>1, <1>6, <1>7 DEF h

LEMMA RestingCarried ==
  ASSUME C!IInv, B!IInv, OrdersTyped, MakersOpposed, RestingStand, CallStands, [Next]_vars
  PROVE  RestingStand'
<1>1. \A id, s : \A p \in Nat : Stands(id, s, p) => Stands(id, s, p)'
  BY StandsCarried
<1>2. \A id \in DOMAIN bookOrders : bookOrders[id].price \in Nat
  BY BookAssumptions DEF B!IInv, B!BookOK, B!BookTypeOK, B!Order
<1>3. CASE \A id \in DOMAIN bookOrders' :
             /\ id \in DOMAIN bookOrders
             /\ bookOrders'[id].side = bookOrders[id].side
             /\ bookOrders'[id].price = bookOrders[id].price
  <2>1. ASSUME NEW id \in DOMAIN bookOrders'
        PROVE  Stands(id, bookOrders[id].side, bookOrders[id].price)
    BY <1>3, <2>1 DEF RestingStand
  <2>2. ASSUME NEW id \in DOMAIN bookOrders', NEW s, NEW p,
               s = bookOrders[id].side, p = bookOrders[id].price
        PROVE  Stands(id, s, p)'
    BY <1>1, <1>2, <1>3, <2>1, <2>2
  <2> QED BY <1>3, <2>2 DEF RestingStand
<1>4. CASE Book!RestRemainder
  <2>1. /\ pc # "idle" /\ call.price \in Nat
        /\ bookOrders' = [i \in DOMAIN bookOrders \cup {call.id} |->
                            IF i = call.id THEN Book!Remainder ELSE bookOrders[i]]
    BY <1>4 DEF Book!RestRemainder, Book!SideAppend, B!IInv, B!CallOK, B!CallTypeOK, B!Call
  <2>2. Book!Remainder.side = call.side /\ Book!Remainder.price = call.price
    BY DEF Book!Remainder
  <2>3. Stands(call.id, call.side, call.price)
    BY <2>1 DEF CallStands
  <2>4. ASSUME NEW id \in DOMAIN bookOrders', NEW s, NEW p,
               s = bookOrders'[id].side, p = bookOrders'[id].price
        PROVE  Stands(id, s, p)'
    <3>1. CASE id = call.id
      BY <1>1, <2>1, <2>2, <2>3, <2>4, <3>1
    <3>2. CASE id # call.id
      <4>1. id \in DOMAIN bookOrders /\ s = bookOrders[id].side /\ p = bookOrders[id].price
        BY <2>1, <2>4, <3>2
      <4> QED BY <1>1, <1>2, <4>1 DEF RestingStand
    <3> QED BY <3>1, <3>2
  <2> QED BY <2>4 DEF RestingStand
<1>5. CASE bookOrders' = bookOrders
  BY <1>3, <1>5
<1>6. CASE BookStep
  <2>1. CASE Book!MatchHead
    BY <1>3, <2>1, HeadOpposed
  <2>2. CASE Book!ReportTaker
    BY <1>5, <2>2 DEF Book!ReportTaker, Book!book
  <2> QED BY <1>4, <1>6, <2>1, <2>2 DEF BookStep
<1>7. CASE Arrive \/ Submit
  BY <1>5, <1>7 DEF Arrive, Submit, Book!ProcessLimitOrder, Book!Enter, Book!Return, Book!book
<1>8. ASSUME NEW u \in User, NEW type \in {"Buy", "Sell"}, NEW input \in Amount,
             NEW output \in Amount, Place(u, type, input, output)
      PROVE  RestingStand'
  BY <1>5, <1>8 DEF Place, bookVars
<1>9. CASE Execute \/ FillNext \/ Commit \/ Fail \/ UNCHANGED vars
  BY <1>5, <1>9 DEF Execute, FillNext, Commit, Fail, vars, bookVars
<1> QED BY <1>6, <1>7, <1>8, <1>9 DEF Next

LEMMA CallCarried ==
  ASSUME C!IInv, B!IInv, OrdersTyped, MakersOpposed, ArrivingStand, RestingStand,
         CallStands, [Next]_vars
  PROVE  CallStands'
<1>1. \A id, s : \A p \in Nat : Stands(id, s, p) => Stands(id, s, p)'
  BY StandsCarried
<1>2. call.price \in Nat
  BY DEF B!IInv, B!CallOK, B!CallTypeOK, B!Call
<1>3. CASE Arrive
  <2>1. PICK a : a = arriving[1]
    OBVIOUS
  <2>2. /\ 1 \in DOMAIN arriving /\ a = Head(arriving) /\ a \in Arrival
    BY <1>3, <2>1 DEF Arrive, OrdersTyped
  <2>3. PICK s, p : s = EngineSide(a.order) /\ p = EnginePrice(a.order)
    OBVIOUS
  <2>4. Stands(a.id, s, p) /\ p \in Nat
    BY <2>1, <2>2, <2>3, PlacedAtPrice DEF ArrivingStand, Arrival
  <2>5. call'.id = a.id /\ call'.side = s /\ call'.price = p
    BY <1>3, <2>2, <2>3 DEF Arrive, Book!ProcessLimitOrder, Book!Enter
  <2>6. Stands(a.id, s, p)'
    BY <1>1, <2>4
  <2> QED BY <2>5, <2>6 DEF CallStands
<1>4. CASE call' = call /\ (pc' # "idle" => pc # "idle")
  <2>1. ASSUME NEW id, NEW s, NEW p,
               id = call.id, s = call.side, p = call.price, pc' # "idle"
        PROVE  Stands(id, s, p)'
    BY <1>1, <1>2, <1>4, <2>1 DEF CallStands
  <2> QED BY <1>4, <2>1 DEF CallStands
<1>5. CASE BookStep
  <2>1. CASE Book!MatchHead
    BY <1>4, <2>1, HeadOpposed
  <2>2. CASE Book!RestRemainder \/ Book!ReportTaker
    BY <1>4, <2>2 DEF Book!RestRemainder, Book!ReportTaker
  <2> QED BY <1>5, <2>1, <2>2 DEF BookStep
<1>6. CASE Submit
  BY <1>6 DEF Submit, Book!Return, CallStands
<1>7. ASSUME NEW u \in User, NEW type \in {"Buy", "Sell"}, NEW input \in Amount,
             NEW output \in Amount, Place(u, type, input, output)
      PROVE  CallStands'
  BY <1>4, <1>7 DEF Place, bookVars
<1>8. CASE Execute \/ FillNext \/ Commit \/ Fail \/ UNCHANGED vars
  BY <1>4, <1>8 DEF Execute, FillNext, Commit, Fail, vars, bookVars
<1> QED BY <1>3, <1>5, <1>6, <1>7, <1>8 DEF Next

(* The makers of a taker stay on the other side.                           *)
LEMMA DoneCarried ==
  ASSUME C!IInv, B!IInv, OrdersTyped, MakersOpposed, RestingStand, CallStands,
         DoneOpposed, [Next]_vars
  PROVE  DoneOpposed'
<1>1. \A t, m : Opposed(t, m) => Opposed(t, m)'
  BY OpposedCarried
<1>2. done \in Seq(B!Fill) /\ Len(done) \in Nat /\ DOMAIN done = 1..Len(done)
  BY DEF B!IInv, B!CallOK, B!CallTypeOK
<1>3. CASE UNCHANGED bookVars
  <2>1. ASSUME NEW t, t = call.id, NEW m, Opposed(call.id, m)
        PROVE  Opposed(t, m)'
    BY <1>1, <2>1
  <2>2. \A m : Opposed(call.id, m) => Opposed(call.id, m)'
    BY <1>3, <2>1 DEF bookVars
  <2> QED BY <1>3, <2>2 DEF DoneOpposed, bookVars
<1>4. CASE Arrive
  <2>1. pc = "idle" /\ UNCHANGED <<done, partial>>
    BY <1>4 DEF Arrive, Book!ProcessLimitOrder, Book!Enter, Book!results
  <2>2. done = <<>> /\ partial = MaxOrders
    BY <2>1 DEF B!IInv, B!CallOK, B!IdleReset
  <2> QED BY <2>1, <2>2 DEF DoneOpposed
<1>5. CASE Book!MatchHead
  <2>1. PICK h \in DOMAIN bookOrders :
          /\ Opposed(call.id, h)
          /\ \/ done' = done /\ partial' = h
             \/ \E f : f.id = h /\ done' = Append(done, f) /\ partial' = MaxOrders
    BY <1>5, HeadOpposed
  <2>2. pc = "matching" /\ pc' = "matching" /\ call' = call
    BY <1>5, HeadOpposed
  <2>3. \A m : Opposed(call.id, m) => Opposed(call.id, m)'
    <3>1. ASSUME NEW t, t = call.id, NEW m, Opposed(call.id, m)
          PROVE  Opposed(t, m)'
      BY <1>1, <3>1
    <3> QED BY <2>2, <3>1
  <2>4. ASSUME NEW i \in DOMAIN done'
        PROVE  \/ i \in DOMAIN done /\ done'[i].id = done[i].id
               \/ done'[i].id = h
    BY <1>2, <2>1
  <2>5. \A i \in DOMAIN done' : Opposed(call.id, done'[i].id)
    BY <2>1, <2>2, <2>4 DEF DoneOpposed
  <2>6. partial' = MaxOrders \/ Opposed(call.id, partial')
    BY <2>1
  <2> QED BY <2>2, <2>3, <2>5, <2>6 DEF DoneOpposed
<1>6. CASE Book!RestRemainder \/ Book!ReportTaker
  <2>1. /\ pc = "matching" /\ pc' = "returned" /\ call' = call
        /\ partial' \in {partial, call.id}
        /\ done' = done \/ \E f : f.id = call.id /\ done' = Append(done, f)
    BY <1>6 DEF Book!RestRemainder, Book!ReportTaker
  <2>2. \A m : Opposed(call.id, m) => Opposed(call.id, m)'
    <3>1. ASSUME NEW t, t = call.id, NEW m, Opposed(call.id, m)
          PROVE  Opposed(t, m)'
      BY <1>1, <3>1
    <3> QED BY <2>1, <3>1
  <2>3. ASSUME NEW i \in DOMAIN done'
        PROVE  \/ i \in DOMAIN done /\ done'[i].id = done[i].id
               \/ i = Len(done') /\ done'[i].id = call.id
    BY <1>2, <2>1
  <2> QED BY <2>1, <2>2, <2>3 DEF DoneOpposed
<1>7. CASE Submit
  BY <1>7 DEF Submit, Book!Return, DoneOpposed
<1>8. ASSUME NEW u \in User, NEW type \in {"Buy", "Sell"}, NEW input \in Amount,
             NEW output \in Amount, Place(u, type, input, output)
      PROVE  DoneOpposed'
  BY <1>3, <1>8 DEF Place
<1>9. CASE Execute \/ FillNext \/ Commit \/ Fail \/ UNCHANGED vars
  BY <1>3, <1>9 DEF Execute, FillNext, Commit, Fail, vars
<1> QED BY <1>4, <1>5, <1>6, <1>7, <1>8, <1>9 DEF Next, BookStep

LEMMA MatchesCarried ==
  ASSUME C!IInv, B!IInv, OrdersTyped, MakersOpposed, DoneOpposed, MatchesOpposed, [Next]_vars
  PROVE  MatchesOpposed'
<1> DEFINE Good(match) == \A j \in DOMAIN match.makers : Opposed(match.taker, match.makers[j])
<1>1. ASSUME NEW match, Good(match)
      PROVE  Good(match)'
  <2>1. ASSUME NEW j \in DOMAIN match.makers
        PROVE  Opposed(match.taker, match.makers[j])'
    <3>1. Opposed(match.taker, match.makers[j])
      BY <1>1
    <3>2. \A t, m : Opposed(t, m) => Opposed(t, m)'
      BY OpposedCarried
    <3> QED BY <3>1, <3>2
  <2> QED BY <2>1
<1>2. \A i \in DOMAIN matches : Good(matches[i])
  BY DEF MatchesOpposed
<1>3. CASE UNCHANGED matches
  <2>1. ASSUME NEW i \in DOMAIN matches', NEW match, match = matches[i]
        PROVE  Good(match)'
    BY <1>1, <1>2, <1>3, <2>1
  <2> HIDE DEF Good
  <2>2. ASSUME NEW i \in DOMAIN matches', NEW match, match = matches'[i]
        PROVE  Good(match)'
    BY <1>3, <2>1, <2>2
  <2> USE DEF Good
  <2> QED BY <2>2 DEF MatchesOpposed
<1>4. CASE Submit
  <2>1. PICK e : e = [taker |-> call.id, makers |-> Makers]
    OBVIOUS
  <2>2. pc # "idle" /\ matches' \in {matches, Append(matches, e)}
    BY <1>4, <2>1 DEF Submit, Book!Return
  <2>3. Good(e)
    BY <2>1, <2>2, MakersOfMatch
  <2>4. ASSUME NEW i \in DOMAIN matches', NEW match, match = matches'[i]
        PROVE  \/ match = e
               \/ i \in DOMAIN matches /\ match = matches[i]
    <3>1. e \in Match /\ matches \in Seq(Match)
      BY <2>1, <2>2, MakersOfMatch DEF OrdersTyped, Match
    <3>2. matches' = matches \/ matches' = Append(matches, e)
      BY <2>2
    <3>3. CASE matches' = matches
      BY <2>4, <3>3
    <3>4. CASE matches' = Append(matches, e)
      <4>1. /\ Len(matches) \in Nat /\ DOMAIN matches = 1..Len(matches)
            /\ i \in 1..(Len(matches) + 1)
            /\ matches'[i] = IF i = Len(matches) + 1 THEN e ELSE matches[i]
        BY <3>1, <3>4, AppendProperties, LenProperties
      <4> QED BY <2>4, <4>1
    <3> QED BY <3>2, <3>3, <3>4
  <2>5. ASSUME NEW i \in DOMAIN matches', NEW match, match = matches'[i]
        PROVE  Good(match)'
    <3>1. Good(match)
      BY <1>2, <2>3, <2>4, <2>5
    <3> QED BY <1>1, <3>1
  <2> QED BY <2>5 DEF MatchesOpposed
<1>5. CASE Execute
  <2>1. matches # <<>> /\ matches' = Tail(matches)
    BY <1>5 DEF Execute
  <2>2. ASSUME NEW i \in DOMAIN matches', NEW match, match = matches'[i]
        PROVE  Good(match)'
    <3>1. i + 1 \in DOMAIN matches /\ match = matches[i + 1]
      BY <2>1, <2>2 DEF OrdersTyped
    <3> QED BY <1>1, <1>2, <3>1
  <2> QED BY <2>2 DEF MatchesOpposed
<1>6. ASSUME NEW u \in User, NEW type \in {"Buy", "Sell"}, NEW input \in Amount,
             NEW output \in Amount, Place(u, type, input, output)
      PROVE  MatchesOpposed'
  BY <1>3, <1>6 DEF Place
<1>7. CASE Arrive \/ BookStep \/ FillNext \/ Commit \/ Fail \/ UNCHANGED vars
  BY <1>3, <1>7 DEF Arrive, BookStep, FillNext, Commit, Fail, vars
<1> QED BY <1>4, <1>5, <1>6, <1>7 DEF Next

LEMMA MakersCarried ==
  ASSUME C!IInv, OrdersTyped, MatchesOpposed, MakersOpposed, [Next]_vars
  PROVE  MakersOpposed'
<1>1. \A t, m : Opposed(t, m) => Opposed(t, m)'
  BY OpposedCarried
<1>2. CASE UNCHANGED contractVars /\ UNCHANGED makers
  <2>1. ASSUME NEW t, t = takerId, NEW m, Opposed(t, m)
        PROVE  Opposed(t, m)'
    BY <1>1, <2>1
  <2>2. \A m : Opposed(takerId, m) => Opposed(takerId, m)'
    BY <1>2, <2>1 DEF contractVars
  <2> QED BY <1>2, <2>2 DEF MakersOpposed, contractVars
<1>3. CASE Execute
  <2>1. PICK e : e = matches[1]
    OBVIOUS
  <2>2. /\ 1 \in DOMAIN matches /\ e = Head(matches)
    BY <1>3, <2>1 DEF Execute, OrdersTyped
  <2>3. /\ tx = "none" /\ makers' = e.makers /\ takerId' = e.taker
        /\ taker' = orders[e.taker] /\ wOrders' = wOrders
    BY <1>3, <2>2 DEF Execute, Contract!BeginMatch
  <2>4. wOrders = orders
    BY <2>3 DEF C!IInv, C!CopiesAtRest
  <2>5. ASSUME NEW j \in DOMAIN e.makers
        PROVE  Opposed(e.taker, e.makers[j])'
    BY <1>1, <2>1, <2>2 DEF MatchesOpposed
  <2> QED BY <2>3, <2>4, <2>5 DEF MakersOpposed
<1>4. CASE FillNext
  <2>1. tx = "match" /\ takerId' = takerId /\ taker' = wOrders'[takerId]
    BY <1>4, FillCarries
  <2>2. \A j \in DOMAIN makers' : j + 1 \in DOMAIN makers /\ makers'[j] = makers[j + 1]
    BY <1>4 DEF FillNext, OrdersTyped
  <2>3. ASSUME NEW j \in DOMAIN makers', NEW t, NEW m, t = takerId, m = makers'[j]
        PROVE  Opposed(t, m)'
    BY <1>1, <2>1, <2>2, <2>3 DEF MakersOpposed
  <2> QED BY <2>1, <2>3 DEF MakersOpposed
<1>5. CASE Commit \/ Fail
  BY <1>5 DEF Commit, Fail, Contract!CommitMatch, Contract!Commit, Contract!RevertMatch,
     Contract!Revert, Contract!TxEnd, MakersOpposed
<1>6. ASSUME NEW u \in User, NEW type \in {"Buy", "Sell"}, NEW input \in Amount,
             NEW output \in Amount, Place(u, type, input, output)
      PROVE  MakersOpposed'
  BY <1>6 DEF Place, Contract!CreateOrder, MakersOpposed
<1>7. CASE Arrive \/ BookStep \/ Submit \/ UNCHANGED vars
  BY <1>2, <1>7 DEF Arrive, BookStep, Submit, vars
<1> QED BY <1>3, <1>4, <1>5, <1>6, <1>7 DEF Next

----------------------------------------------------------------------------
LEMMA InitEstablishes == Init => IInv
<1> SUFFICES ASSUME Init PROVE IInv
  OBVIOUS
<1>1. C!IInv /\ B!IInv
  BY ContractStarts, BookStarts
<1>2. /\ tx = "none" /\ arriving = <<>> /\ matches = <<>> /\ makers = <<>>
      /\ pc = "idle" /\ DOMAIN bookOrders = {}
  BY DEF Init, Contract!Init, Book!Init
<1>3. OrdersTyped
  BY <1>2 DEF OrdersTyped
<1>4. ArrivingStand /\ RestingStand /\ CallStands
  BY <1>2 DEF ArrivingStand, RestingStand, CallStands
<1>5. DoneOpposed /\ MatchesOpposed /\ MakersOpposed
  BY <1>2 DEF DoneOpposed, MatchesOpposed, MakersOpposed
<1> QED BY <1>1, <1>3, <1>4, <1>5 DEF IInv

(* The inductive invariant holds in every reachable state.                 *)
THEOREM Invariance == Spec => []IInv
<1>1. IInv /\ [Next]_vars => IInv'
  <2> SUFFICES ASSUME IInv, [Next]_vars PROVE IInv'
    OBVIOUS
  <2> USE DEF IInv
  <2>1. C!IInv' /\ B!IInv'
    BY ContractSteps, BookSteps
  <2>2. OrdersTyped' /\ ArrivingStand' /\ RestingStand' /\ CallStands'
    BY TypedCarried, ArrivingCarried, RestingCarried, CallCarried
  <2>3. DoneOpposed' /\ MatchesOpposed' /\ MakersOpposed'
    BY DoneCarried, MatchesCarried, MakersCarried
  <2> QED BY <2>1, <2>2, <2>3
<1> QED BY <1>1, InitEstablishes, PTL DEF Spec

(* What the engine and the contract do together is a behaviour of the      *)
(* contract alone: its guarantees hold here too.                           *)
THEOREM ContractImplemented == Spec => C!Spec
<1>1. Init => C!Init
  BY ContractInit
<1>2. [Next]_vars => [C!Next]_(C!vars)
  BY ContractMaps
<1> QED BY <1>1, <1>2, PTL DEF Spec, C!Spec

(* And a behaviour of the book alone.                                      *)
THEOREM BookImplemented == Spec => B!Spec
<1>1. Init => B!Init
  BY BookInit
<1>2. IInv /\ [Next]_vars => [B!Next]_(B!vars)
  BY BookMaps DEF IInv
<1> QED BY <1>1, <1>2, Invariance, PTL DEF Spec, B!Spec

(* The orders that users place on the contract are matched by price-time   *)
(* priority of the prices the engine computes for them.                    *)
THEOREM ExchangeKeepsPriority ==
  Spec => B!Promise!Init /\ [][B!Promise!Next]_(B!Promise!vars)
<1>1. Init => B!Promise!Init
  BY BookInit, B!InitPromised, BookAssumptions
<1>2. IInv /\ [Next]_vars => [B!Promise!Next]_(B!Promise!vars)
  BY BookMaps, B!StepKeepsPromise, BookAssumptions DEF IInv
<1> QED BY <1>1, <1>2, Invariance, PTL DEF Spec

(* The record of a resting order never gets worse for its creator than the *)
(* price it rests at, but for the last digit of that price.                *)
THEOREM RestingPricesKept == Spec => []RestingPriceKept
<1>1. IInv => RestingPriceKept
  BY DEF IInv, RestingStand, Stands, PriceKept, RestingPriceKept
<1> QED BY <1>1, Invariance, PTL

=============================================================================
