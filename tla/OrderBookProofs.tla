-------------------------- MODULE OrderBookProofs --------------------------
(***************************************************************************)
(* Theorems about OrderBook, for all sets of ids, prices and quantities.   *)
(*                                                                         *)
(* The inductive invariant is the conjunction of BookOK, what the indexes, *)
(* queues and counters of the book have to do with each other, NotCrossed  *)
(* and CallOK, what the variables of a running call satisfy.  BookOK is    *)
(* preserved by the three ways in which the code changes the book          *)
(* (OrderSide.Append, CancelOrder, the partial execution of a head): one   *)
(* lemma each.  The theorems read the invariants off it; the last one is   *)
(* that the book implements PriceTimeBook.                                 *)
(***************************************************************************)
EXTENDS OrderBook, Sums, SequenceTheorems, FiniteSetTheorems, TLAPS

----------------------------------------------------------------------------
(* The book's part of TypeOK.                                              *)
BookTypeOK ==
  /\ DOMAIN orders \subseteq OrderID
  /\ orders \in [DOMAIN orders -> Order]
  /\ levels \in [Side -> SUBSET Price]
  /\ queue \in [Side -> [Price -> Seq(OrderID)]]
  /\ levelVolume \in [Side -> [Price -> Int]]
  /\ numOrders \in [Side -> Int]
  /\ depth \in [Side -> Int]
  /\ volume \in [Side -> Int]
  /\ clock \in Nat

(* The sets that the counters count are finite; no order is from the future*)
BookFinite ==
  /\ IsFiniteSet(DOMAIN orders)
  /\ \A s \in Side : IsFiniteSet(levels[s])
TimesPast == \A id \in DOMAIN orders : orders[id].time < clock

(* What rests in a book "o" at a level of a side, and the volumes of the   *)
(* levels of this book.                                                    *)
RestingAt(o, s, p) ==
  SumFunctionOnSet([id \in DOMAIN o |-> o[id].quantity],
                   {id \in DOMAIN o : o[id].side = s /\ o[id].price = p})
VolumesOfResting ==
  \A s \in Side, p \in Price : levelVolume[s][p] = RestingAt(orders, s, p)

BookOK ==
  /\ BookTypeOK
  /\ IndexConsistent
  /\ CountersExact
  /\ BookFinite
  /\ QueueInTimeOrder
  /\ TimesPast
  /\ VolumesOfResting

----------------------------------------------------------------------------
(* What is left of a sequence when element i is removed (container/list's  *)
(* Remove keeps the order of the other elements).                          *)
LEMMA RemoveAtProperties ==
  ASSUME NEW S, NEW s \in Seq(S), NEW i \in 1..Len(s)
  PROVE  /\ RemoveAt(s, i) \in Seq(S)
         /\ Len(RemoveAt(s, i)) = Len(s) - 1
         /\ \A j \in 1..(Len(s) - 1) :
              RemoveAt(s, i)[j] = IF j < i THEN s[j] ELSE s[j + 1]
<1> DEFINE a == SubSeq(s, 1, i - 1)
           b == SubSeq(s, i + 1, Len(s))
<1>1. Len(s) \in Nat /\ i \in Nat /\ \A k \in 1..Len(s) : s[k] \in S
  BY LenProperties, ElementOfSeq
<1>2. /\ a \in Seq(S)
      /\ Len(a) = i - 1
      /\ \A k \in 1..(i - 1) : a[k] = s[k]
  <2>1. 1 \in Int /\ i - 1 \in Int /\ \A k \in 1..(i - 1) : s[k] \in S
    BY <1>1
  <2>2. /\ a \in Seq(S)
        /\ Len(a) = IF 1 <= i - 1 THEN (i - 1) - 1 + 1 ELSE 0
        /\ \A k \in 1..((i - 1) - 1 + 1) : a[k] = s[1 + k - 1]
    BY <2>1, SubSeqProperties
  <2> QED BY <2>2, <1>1
<1>3. /\ b \in Seq(S)
      /\ Len(b) = Len(s) - i
      /\ \A k \in 1..(Len(s) - i) : b[k] = s[i + k]
  <2>1. i + 1 \in Int /\ Len(s) \in Int /\ \A k \in (i + 1)..Len(s) : s[k] \in S
    BY <1>1
  <2>2. /\ b \in Seq(S)
        /\ Len(b) = IF i + 1 <= Len(s) THEN Len(s) - (i + 1) + 1 ELSE 0
        /\ \A k \in 1..(Len(s) - (i + 1) + 1) : b[k] = s[(i + 1) + k - 1]
    BY <2>1, SubSeqProperties
  <2> QED BY <2>2, <1>1
<1>4. RemoveAt(s, i) = a \o b
  BY DEF RemoveAt
<1>5. /\ a \o b \in Seq(S)
      /\ Len(a \o b) = Len(a) + Len(b)
      /\ \A j \in 1..(Len(a) + Len(b)) :
           (a \o b)[j] = IF j <= Len(a) THEN a[j] ELSE b[j - Len(a)]
  BY <1>2, <1>3, ConcatProperties
<1> HIDE DEF a, b
<1>6. ASSUME NEW j \in 1..(Len(s) - 1)
      PROVE  (a \o b)[j] = IF j < i THEN s[j] ELSE s[j + 1]
  <2>1. CASE j < i
    BY <2>1, <1>1, <1>2, <1>3, <1>5
  <2>2. CASE ~(j < i)
    <3>1. j - Len(a) \in 1..(Len(s) - i) /\ i + (j - Len(a)) = j + 1
      BY <2>2, <1>1, <1>2
    <3>2. (a \o b)[j] = b[j - Len(a)]
      BY <2>2, <1>1, <1>2, <1>3, <1>5
    <3>3. b[j - Len(a)] = s[i + (j - Len(a))]
      BY <3>1, <1>3
    <3> QED BY <2>2, <3>1, <3>2, <3>3
  <2> QED BY <2>1, <2>2
<1> QED BY <1>1, <1>2, <1>3, <1>4, <1>5, <1>6

(* The queued orders of a consistent book are indexed and belong to one    *)
(* queue; the head of a level is an order of that side and price.          *)
LEMMA QueuedIndexed ==
  ASSUME BookTypeOK, IndexConsistent, NEW s \in Side, NEW p \in Price,
         NEW i \in DOMAIN queue[s][p]
  PROVE  /\ queue[s][p][i] \in DOMAIN orders
         /\ orders[queue[s][p][i]] \in Order
         /\ orders[queue[s][p][i]].side = s
         /\ orders[queue[s][p][i]].price = p
BY DEF BookTypeOK, IndexConsistent

LEMMA LevelHead ==
  ASSUME BookTypeOK, IndexConsistent, LevelsExact,
         NEW s \in Side, NEW p \in levels[s]
  PROVE  /\ p \in Price
         /\ queue[s][p] \in Seq(OrderID)
         /\ 1 \in DOMAIN queue[s][p]
         /\ Head(queue[s][p]) = queue[s][p][1]
         /\ Head(queue[s][p]) \in DOMAIN orders
         /\ orders[Head(queue[s][p])] \in Order
         /\ orders[Head(queue[s][p])].side = s
         /\ orders[Head(queue[s][p])].price = p
<1>1. p \in Price /\ queue[s][p] \in Seq(OrderID) /\ queue[s][p] # <<>>
  BY DEF BookTypeOK, LevelsExact
<1>2. Len(queue[s][p]) \in Nat \ {0} /\ DOMAIN queue[s][p] = 1..Len(queue[s][p])
  BY <1>1, EmptySeq, LenProperties
<1>3. 1 \in DOMAIN queue[s][p] /\ Head(queue[s][p]) = queue[s][p][1]
  BY <1>1, <1>2
<1> QED BY <1>1, <1>3, QueuedIndexed

----------------------------------------------------------------------------
(* What rests at a level when an order joins, leaves, or trades in part.   *)
OrdersOK(o) ==
  /\ IsFiniteSet(DOMAIN o)
  /\ \A id \in DOMAIN o : o[id].quantity \in Int
Joins(o, id, m) ==
  /\ id \notin DOMAIN o
  /\ DOMAIN m = DOMAIN o \cup {id}
  /\ \A i \in DOMAIN o : m[i] = o[i]

LEMMA RestingAdd ==
  ASSUME NEW o, NEW id, NEW m, OrdersOK(o), OrdersOK(m), Joins(o, id, m),
         NEW s, NEW p
  PROVE  /\ RestingAt(o, s, p) \in Int
         /\ RestingAt(m, s, p) =
              RestingAt(o, s, p)
                + IF m[id].side = s /\ m[id].price = p THEN m[id].quantity ELSE 0
<1> DEFINE A == {i \in DOMAIN o : o[i].side = s /\ o[i].price = p}
           B == {i \in DOMAIN m : m[i].side = s /\ m[i].price = p}
           f == [i \in DOMAIN o |-> o[i].quantity]
           g == [i \in DOMAIN m |-> m[i].quantity]
<1> USE DEF OrdersOK, Joins
<1>1. IsFiniteSet(A) /\ id \notin A /\ \A i \in A : f[i] \in Int /\ g[i] = f[i]
  BY FS_Subset
<1>2. g[id] = m[id].quantity /\ g[id] \in Int
  OBVIOUS
<1>3. RestingAt(o, s, p) = SumFunctionOnSet(f, A) /\ RestingAt(m, s, p) = SumFunctionOnSet(g, B)
  BY DEF RestingAt
<1>4. B = IF m[id].side = s /\ m[id].price = p THEN A \cup {id} ELSE A
  OBVIOUS
<1> HIDE DEF f, g, A, B
<1>5. SumFunctionOnSet(f, A) \in Int /\ SumFunctionOnSet(g, A) = SumFunctionOnSet(f, A)
  BY <1>1, SumType, SumSame
<1>6. SumFunctionOnSet(g, A \cup {id}) = m[id].quantity + SumFunctionOnSet(f, A)
  BY <1>1, <1>2, <1>5, SumAdd
<1> QED BY <1>2, <1>3, <1>4, <1>5, <1>6

LEMMA RestingDrop ==
  ASSUME NEW o, NEW id, NEW m, OrdersOK(o), OrdersOK(m), Joins(m, id, o),
         NEW s, NEW p
  PROVE  /\ RestingAt(m, s, p) \in Int
         /\ RestingAt(m, s, p) =
              RestingAt(o, s, p)
                - IF o[id].side = s /\ o[id].price = p THEN o[id].quantity ELSE 0
<1>1. /\ RestingAt(m, s, p) \in Int
      /\ RestingAt(o, s, p) = RestingAt(m, s, p)
           + IF o[id].side = s /\ o[id].price = p THEN o[id].quantity ELSE 0
  BY RestingAdd
<1>2. o[id].quantity \in Int
  BY DEF OrdersOK, Joins
<1> QED BY <1>1, <1>2

LEMMA RestingChange ==
  ASSUME NEW o, NEW id \in DOMAIN o, NEW m, OrdersOK(o), OrdersOK(m),
         DOMAIN m = DOMAIN o, \A i \in DOMAIN o \ {id} : m[i] = o[i],
         m[id].side = o[id].side, m[id].price = o[id].price,
         NEW s, NEW p
  PROVE  /\ RestingAt(o, s, p) \in Int
         /\ RestingAt(m, s, p) =
              RestingAt(o, s, p)
                + IF o[id].side = s /\ o[id].price = p
                  THEN m[id].quantity - o[id].quantity ELSE 0
<1> DEFINE d == [i \in DOMAIN o \ {id} |-> o[i]]
<1>1. OrdersOK(d) /\ Joins(d, id, o) /\ Joins(d, id, m)
  BY FS_RemoveElement DEF OrdersOK, Joins
<1> HIDE DEF d
<1>2. /\ RestingAt(d, s, p) \in Int
      /\ RestingAt(o, s, p) = RestingAt(d, s, p)
           + IF o[id].side = s /\ o[id].price = p THEN o[id].quantity ELSE 0
  BY <1>1, RestingAdd
<1>3. RestingAt(m, s, p) = RestingAt(d, s, p)
        + IF m[id].side = s /\ m[id].price = p THEN m[id].quantity ELSE 0
  BY <1>1, RestingAdd
<1>4. o[id].quantity \in Int /\ m[id].quantity \in Int
  BY DEF OrdersOK
<1> QED BY <1>2, <1>3, <1>4

----------------------------------------------------------------------------
(* CancelOrder, called for an order at position i of its queue, keeps the  *)
(* book consistent and opens no level.                                     *)
LEMMA RemoveKeepsBook ==
  ASSUME BookOK, NEW id \in DOMAIN orders,
         NEW i \in DOMAIN queue[orders[id].side][orders[id].price],
         queue[orders[id].side][orders[id].price][i] = id,
         BookRemove(id, i), clock' = clock
  PROVE  /\ BookOK'
         /\ DOMAIN orders' = DOMAIN orders \ {id}
         /\ \A j \in DOMAIN orders' : orders'[j] = orders[j]
         /\ \A t \in Side : levels'[t] \subseteq levels[t]
<1> DEFINE s == orders[id].side
           p == orders[id].price
           rest == RemoveAt(queue[s][p], i)
           g(t, r, k) == IF t = s /\ r = p /\ k >= i THEN k + 1 ELSE k
<1> USE DEF BookOK
<1>1. orders[id] \in Order /\ s \in Side /\ p \in Price /\ id \in OrderID
  BY DEF BookTypeOK, Order
<1>2. \A t \in Side, r \in Price :
        /\ queue[t][r] \in Seq(OrderID)
        /\ Len(queue[t][r]) \in Nat
        /\ DOMAIN queue[t][r] = 1..Len(queue[t][r])
  BY LenProperties DEF BookTypeOK
<1>3. i \in 1..Len(queue[s][p]) /\ queue[s][p][i] = id
  BY <1>1, <1>2
<1>4. /\ rest \in Seq(OrderID)
      /\ Len(rest) = Len(queue[s][p]) - 1
      /\ \A j \in 1..(Len(queue[s][p]) - 1) :
           rest[j] = IF j < i THEN queue[s][p][j] ELSE queue[s][p][j + 1]
  BY <1>1, <1>2, <1>3, RemoveAtProperties
<1>5. /\ orders' = [j \in DOMAIN orders \ {id} |-> orders[j]]
      /\ queue' = [queue EXCEPT ![s][p] = rest]
      /\ levelVolume' = [levelVolume EXCEPT ![s][p] = @ - orders[id].quantity]
      /\ levels' = IF rest = <<>> THEN [levels EXCEPT ![s] = @ \ {p}] ELSE levels
      /\ depth' = IF rest = <<>> THEN [depth EXCEPT ![s] = @ - 1] ELSE depth
      /\ numOrders' = [numOrders EXCEPT ![s] = @ - 1]
      /\ volume' = [volume EXCEPT ![s] = @ - orders[id].quantity]
  BY DEF BookRemove
<1> HIDE DEF rest
<1>6. /\ DOMAIN orders' = DOMAIN orders \ {id}
      /\ \A j \in DOMAIN orders' : orders'[j] = orders[j]
  BY <1>5
<1>7. \A t \in Side, r \in Price :
        queue'[t][r] = IF t = s /\ r = p THEN rest ELSE queue[t][r]
  BY <1>1, <1>5 DEF BookTypeOK
<1>8. BookTypeOK'
  <2>1. queue' \in [Side -> [Price -> Seq(OrderID)]]
    BY <1>1, <1>4, <1>5 DEF BookTypeOK
  <2>2. levelVolume' \in [Side -> [Price -> Int]] /\ volume' \in [Side -> Int]
    BY <1>1, <1>5 DEF BookTypeOK, Order
  <2>3. levels' \in [Side -> SUBSET Price] /\ depth' \in [Side -> Int]
        /\ numOrders' \in [Side -> Int]
    BY <1>1, <1>5 DEF BookTypeOK
  <2>4. orders' \in [DOMAIN orders' -> Order] /\ DOMAIN orders' \subseteq OrderID
    BY <1>5, <1>6 DEF BookTypeOK
  <2> QED BY <2>1, <2>2, <2>3, <2>4 DEF BookTypeOK
<1>9. \A t \in Side, r \in Price :
        /\ queue'[t][r] \in Seq(OrderID)
        /\ DOMAIN queue'[t][r] = 1..Len(queue'[t][r])
        /\ Len(queue'[t][r]) = IF t = s /\ r = p THEN Len(queue[t][r]) - 1
                               ELSE Len(queue[t][r])
  BY <1>2, <1>4, <1>7, LenProperties, ZenonT(30)
<1>10. ASSUME NEW t \in Side, NEW r \in Price, NEW k \in DOMAIN queue'[t][r]
       PROVE  /\ k \in Nat
              /\ g(t, r, k) \in DOMAIN queue[t][r]
              /\ queue'[t][r][k] = queue[t][r][g(t, r, k)]
              /\ queue'[t][r][k] # id
  <2>1. CASE t = s /\ r = p
    <3>1. k \in 1..(Len(queue[s][p]) - 1) /\ queue'[t][r][k] = rest[k]
      BY <2>1, <1>7, <1>9
    <3>2. g(t, r, k) \in 1..Len(queue[s][p]) /\ g(t, r, k) # i
      BY <2>1, <3>1, <1>3
    <3>3. rest[k] = queue[s][p][g(t, r, k)]
      BY <2>1, <3>1, <1>3, <1>4
    <3>4. queue[s][p][g(t, r, k)] # id
      BY <3>2, <1>1, <1>2, <1>3 DEF IndexConsistent
    <3> QED BY <2>1, <3>1, <3>2, <3>3, <3>4, <1>2
  <2>2. CASE ~(t = s /\ r = p)
    <3>1. k \in DOMAIN queue[t][r] /\ queue'[t][r][k] = queue[t][r][k]
      BY <2>2, <1>7
    <3>2. queue[t][r][k] # id
      BY <2>2, <3>1 DEF IndexConsistent
    <3> QED BY <2>2, <3>1, <3>2, <1>2
  <2> QED BY <2>1, <2>2
<1>11. \A t \in Side, r \in Price : \A j, k \in DOMAIN queue'[t][r] :
         (j < k <=> g(t, r, j) < g(t, r, k)) /\ (g(t, r, j) = g(t, r, k) => j = k)
  BY <1>3, <1>10
<1> HIDE DEF g
<1>12. IndexConsistent'
  <2>1. ASSUME NEW j \in DOMAIN orders'
        PROVE  \E k \in DOMAIN queue'[orders'[j].side][orders'[j].price] :
                  queue'[orders'[j].side][orders'[j].price][k] = j
    <3> DEFINE t == orders[j].side
               r == orders[j].price
    <3>1. j \in DOMAIN orders /\ j # id /\ orders'[j] = orders[j]
      BY <1>6
    <3>2. t \in Side /\ r \in Price
      BY <3>1 DEF BookTypeOK, Order
    <3>3. PICK k \in DOMAIN queue[t][r] : queue[t][r][k] = j
      BY <3>1 DEF IndexConsistent
    <3>4. CASE t = s /\ r = p
      <4>1. k # i /\ k \in 1..Len(queue[s][p])
        BY <3>1, <3>3, <3>4, <1>2, <1>1, <1>3
      <4> DEFINE n == IF k < i THEN k ELSE k - 1
      <4>2. n \in 1..(Len(queue[s][p]) - 1) /\ (IF n < i THEN n ELSE n + 1) = k
        BY <4>1, <1>3, SMTT(30)
      <4>3. n \in DOMAIN queue'[t][r] /\ queue'[t][r][n] = j
        BY <4>2, <3>2, <3>3, <3>4, <1>4, <1>7, <1>9, ZenonT(30)
      <4> QED BY <4>3, <3>1
    <3>5. CASE ~(t = s /\ r = p)
      BY <3>1, <3>2, <3>3, <3>5, <1>7
    <3> QED BY <3>4, <3>5
  <2>2. ASSUME NEW t \in Side, NEW r \in Price, NEW k \in DOMAIN queue'[t][r]
        PROVE  /\ queue'[t][r][k] \in DOMAIN orders'
               /\ orders'[queue'[t][r][k]].side = t
               /\ orders'[queue'[t][r][k]].price = r
               /\ \A j \in DOMAIN queue'[t][r] :
                     queue'[t][r][k] = queue'[t][r][j] => k = j
    <3>1. queue'[t][r][k] \in DOMAIN orders'
      BY <1>6, <1>10 DEF IndexConsistent
    <3>2. /\ orders'[queue'[t][r][k]].side = t
          /\ orders'[queue'[t][r][k]].price = r
      BY <3>1, <1>6, <1>10 DEF IndexConsistent
    <3>3. ASSUME NEW j \in DOMAIN queue'[t][r], queue'[t][r][k] = queue'[t][r][j]
          PROVE  k = j
      <4>1. g(t, r, k) = g(t, r, j)
        BY <3>3, <1>10 DEF IndexConsistent
      <4> QED BY <4>1, <1>11
    <3> QED BY <3>1, <3>2, <3>3
  <2> QED BY <2>1, <2>2 DEF IndexConsistent
<1>13. LevelsExact'
  <2>1. ASSUME NEW t \in Side
        PROVE  levels'[t] = {r \in Price : queue'[t][r] # <<>>}
    <3>1. levels[t] = {r \in Price : queue[t][r] # <<>>}
      BY DEF CountersExact, LevelsExact
    <3>2. queue[s][p] # <<>>
      BY <1>1, <1>2, <1>3, EmptySeq
    <3>3. levels'[t] = IF rest = <<>> /\ t = s THEN levels[t] \ {p} ELSE levels[t]
      BY <1>1, <1>5 DEF BookTypeOK
    <3> QED BY <3>1, <3>2, <3>3, <1>1, <1>7
  <2> QED BY <2>1 DEF LevelsExact
<1>14. BookFinite' /\ OrderCountExact'
  <2>1. IsFiniteSet(DOMAIN orders')
    BY <1>6, FS_RemoveElement DEF BookFinite
  <2>2. \A t \in Side : IsFiniteSet(levels'[t])
    <3> SUFFICES ASSUME NEW t \in Side PROVE IsFiniteSet(levels'[t])
      OBVIOUS
    <3>1. levels'[t] = levels[t] \/ levels'[t] = levels[t] \ {p}
      BY <1>1, <1>5 DEF BookTypeOK
    <3> QED BY <3>1, FS_RemoveElement DEF BookFinite
  <2>3. ASSUME NEW t \in Side
        PROVE  numOrders'[t] = Cardinality({j \in DOMAIN orders' : orders'[j].side = t})
    <3> DEFINE A == {j \in DOMAIN orders : orders[j].side = t}
    <3>1. IsFiniteSet(A) /\ numOrders[t] = Cardinality(A)
      BY FS_Subset DEF BookFinite, CountersExact, OrderCountExact
    <3>2. {j \in DOMAIN orders' : orders'[j].side = t} = A \ {id}
      BY <1>6
    <3>3. Cardinality(A \ {id}) = IF id \in A THEN Cardinality(A) - 1 ELSE Cardinality(A)
      BY <3>1, FS_RemoveElement
    <3>4. id \in A <=> t = s
      OBVIOUS
    <3>5. numOrders'[t] = IF t = s THEN numOrders[t] - 1 ELSE numOrders[t]
      BY <1>1, <1>5 DEF BookTypeOK
    <3> QED BY <3>1, <3>2, <3>3, <3>4, <3>5
  <2> QED BY <2>1, <2>2, <2>3 DEF BookFinite, OrderCountExact
<1>15. DepthExact'
  <2>1. ASSUME NEW t \in Side
        PROVE  depth'[t] = Cardinality(levels'[t])
    <3>1. IsFiniteSet(levels[t]) /\ depth[t] = Cardinality(levels[t])
      BY DEF BookFinite, CountersExact, DepthExact
    <3>2. p \in levels[s]
      BY <1>1, <1>2, <1>3, EmptySeq DEF CountersExact, LevelsExact
    <3>3. CASE rest = <<>> /\ t = s
      <4>1. levels'[t] = levels[t] \ {p} /\ depth'[t] = depth[t] - 1
        BY <3>3, <1>1, <1>5 DEF BookTypeOK
      <4> QED BY <4>1, <3>1, <3>2, <3>3, FS_RemoveElement
    <3>4. CASE ~(rest = <<>> /\ t = s)
      <4>1. levels'[t] = levels[t] /\ depth'[t] = depth[t]
        BY <3>4, <1>1, <1>5 DEF BookTypeOK
      <4> QED BY <4>1, <3>1
    <3> QED BY <3>3, <3>4
  <2> QED BY <2>1 DEF DepthExact
<1>16. QueueInTimeOrder'
  <2>1. ASSUME NEW t \in Side, NEW r \in Price,
               NEW j \in DOMAIN queue'[t][r], NEW k \in DOMAIN queue'[t][r], j < k
        PROVE  orders'[queue'[t][r][j]].time < orders'[queue'[t][r][k]].time
    <3>1. g(t, r, j) < g(t, r, k)
      BY <2>1, <1>11
    <3>2. orders[queue[t][r][g(t, r, j)]].time < orders[queue[t][r][g(t, r, k)]].time
      BY <3>1, <1>10 DEF QueueInTimeOrder
    <3>3. queue'[t][r][j] \in DOMAIN orders' /\ queue'[t][r][k] \in DOMAIN orders'
      BY <1>12 DEF IndexConsistent
    <3> QED BY <3>2, <3>3, <1>6, <1>10
  <2> QED BY <2>1 DEF QueueInTimeOrder
<1>17. TimesPast'
  BY <1>6 DEF TimesPast
<1>18. \A t \in Side : levels'[t] \subseteq levels[t]
  BY <1>1, <1>5 DEF BookTypeOK
<1>19. OrdersOK(orders) /\ OrdersOK(orders') /\ Joins(orders', id, orders)
  <2>1. IsFiniteSet(DOMAIN orders) /\ \A j \in DOMAIN orders : orders[j].quantity \in Int
    BY DEF BookTypeOK, BookFinite, Order
  <2>2. IsFiniteSet(DOMAIN orders')
    BY <1>6, <2>1, FS_RemoveElement
  <2> QED BY <1>6, <2>1, <2>2 DEF OrdersOK, Joins
<1>20. VolumesOfResting'
  <2>1. ASSUME NEW t \in Side, NEW r \in Price
        PROVE  levelVolume'[t][r] = RestingAt(orders', t, r)
    <3>1. RestingAt(orders', t, r) =
            RestingAt(orders, t, r) - IF s = t /\ p = r THEN orders[id].quantity ELSE 0
      BY <1>19, RestingDrop
    <3>2. levelVolume'[t][r] =
            levelVolume[t][r] - IF s = t /\ p = r THEN orders[id].quantity ELSE 0
      BY <1>1, <1>5, SMTT(30) DEF BookTypeOK
    <3> QED BY <3>1, <3>2 DEF VolumesOfResting
  <2> QED BY <2>1 DEF VolumesOfResting
<1> QED
  BY <1>6, <1>8, <1>12, <1>13, <1>14, <1>15, <1>16, <1>17, <1>18, <1>20
  DEF CountersExact

(* OrderSide.Append of an order that is not in the book, with the next     *)
(* timestamp, keeps the book consistent and opens at most its own level.   *)
LEMMA AppendKeepsBook ==
  ASSUME BookOK, NEW id \in OrderID, id \notin DOMAIN orders,
         NEW o \in Order, o.time = clock,
         SideAppend(id, o), clock' = clock + 1
  PROVE  /\ BookOK'
         /\ DOMAIN orders' = DOMAIN orders \cup {id}
         /\ orders'[id] = o
         /\ \A t \in Side :
              levels'[t] = IF t = o.side THEN levels[t] \cup {o.price} ELSE levels[t]
<1> DEFINE s == o.side
           p == o.price
           q == queue[s][p]
           n == Len(q) + 1
           qa == Append(q, id)
<1> HIDE DEF qa
<1> USE DEF BookOK
<1>1. s \in Side /\ p \in Price /\ o.quantity \in Nat
  BY DEF Order
<1>2. \A t \in Side, r \in Price :
        /\ queue[t][r] \in Seq(OrderID)
        /\ Len(queue[t][r]) \in Nat
        /\ DOMAIN queue[t][r] = 1..Len(queue[t][r])
  BY LenProperties DEF BookTypeOK
<1>3. /\ q \in Seq(OrderID)
      /\ Len(q) \in Nat
      /\ DOMAIN q = 1..Len(q)
      /\ qa \in Seq(OrderID)
      /\ DOMAIN qa = 1..n
      /\ \A k \in 1..Len(q) : qa[k] = q[k]
      /\ qa[n] = id
  BY <1>1, <1>2, AppendProperties, LenProperties, SMTT(30) DEF qa
<1>4. /\ orders' = [j \in DOMAIN orders \cup {id} |-> IF j = id THEN o ELSE orders[j]]
      /\ levels' = [levels EXCEPT ![s] = @ \cup {p}]
      /\ depth' = IF p \in levels[s] THEN depth ELSE [depth EXCEPT ![s] = @ + 1]
      /\ numOrders' = [numOrders EXCEPT ![s] = @ + 1]
      /\ volume' = [volume EXCEPT ![s] = @ + o.quantity]
      /\ levelVolume' = [levelVolume EXCEPT ![s][p] = @ + o.quantity]
      /\ queue' = [queue EXCEPT ![s][p] = qa]
  BY DEF SideAppend, QueueAppend, qa
<1>5. /\ DOMAIN orders' = DOMAIN orders \cup {id}
      /\ orders'[id] = o
      /\ \A j \in DOMAIN orders : j # id /\ orders'[j] = orders[j]
  BY <1>4
<1>6. \A t \in Side, r \in Price :
        queue'[t][r] = IF t = s /\ r = p THEN qa ELSE queue[t][r]
  BY <1>1, <1>4 DEF BookTypeOK
<1>7. \A t \in Side :
        levels'[t] = IF t = s THEN levels[t] \cup {p} ELSE levels[t]
  BY <1>1, <1>4 DEF BookTypeOK
<1>8. BookTypeOK'
  <2>1. queue' \in [Side -> [Price -> Seq(OrderID)]]
    BY <1>1, <1>3, <1>4 DEF BookTypeOK
  <2>2. levelVolume' \in [Side -> [Price -> Int]] /\ volume' \in [Side -> Int]
    BY <1>1, <1>4 DEF BookTypeOK
  <2>3. levels' \in [Side -> SUBSET Price] /\ depth' \in [Side -> Int]
        /\ numOrders' \in [Side -> Int]
    BY <1>1, <1>4, SMTT(30) DEF BookTypeOK
  <2>4. orders' \in [DOMAIN orders' -> Order] /\ DOMAIN orders' \subseteq OrderID
    BY <1>4, <1>5 DEF BookTypeOK
  <2>5. clock' \in Nat
    BY DEF BookTypeOK
  <2> QED BY <2>1, <2>2, <2>3, <2>4, <2>5 DEF BookTypeOK
<1>9. ASSUME NEW t \in Side, NEW r \in Price, NEW k \in DOMAIN queue'[t][r]
      PROVE  \/ /\ k \in DOMAIN queue[t][r]
                /\ queue'[t][r][k] = queue[t][r][k]
                /\ queue'[t][r][k] # id
             \/ /\ t = s /\ r = p
                /\ k = n
                /\ k \notin DOMAIN queue[t][r]
                /\ queue'[t][r][k] = id
  <2>1. CASE t = s /\ r = p
    <3>1. k \in 1..n /\ queue'[t][r][k] = qa[k]
      BY <2>1, <1>3, <1>6
    <3>2. CASE k = n
      <4>1. n \notin DOMAIN q /\ qa[n] = id
        BY <1>3, SMTT(30)
      <4> QED BY <2>1, <3>1, <3>2, <4>1
    <3>3. CASE k \in 1..Len(q)
      <4>1. k \in DOMAIN queue[t][r] /\ queue'[t][r][k] = queue[t][r][k]
        BY <2>1, <3>1, <3>3, <1>3
      <4> QED BY <4>1 DEF IndexConsistent
    <3> QED BY <3>1, <3>2, <3>3, <1>3
  <2>2. CASE ~(t = s /\ r = p)
    BY <2>2, <1>6 DEF IndexConsistent
  <2> QED BY <2>1, <2>2
<1>10. ASSUME NEW t \in Side, NEW r \in Price, NEW k \in DOMAIN queue[t][r]
       PROVE  k \in DOMAIN queue'[t][r] /\ queue'[t][r][k] = queue[t][r][k]
  <2>1. CASE t = s /\ r = p
    <3>1. k \in 1..Len(q) /\ k \in 1..n
      BY <2>1, <1>3
    <3> QED BY <2>1, <3>1, <1>3, <1>6
  <2>2. CASE ~(t = s /\ r = p)
    BY <2>2, <1>6
  <2> QED BY <2>1, <2>2
<1>11. IndexConsistent'
  <2>1. ASSUME NEW j \in DOMAIN orders'
        PROVE  \E k \in DOMAIN queue'[orders'[j].side][orders'[j].price] :
                  queue'[orders'[j].side][orders'[j].price][k] = j
    <3>1. CASE j = id
      <4>1. queue'[s][p] = qa
        BY <1>1, <1>6
      <4>2. n \in DOMAIN qa /\ qa[n] = id
        BY <1>3
      <4> QED BY <3>1, <4>1, <4>2, <1>5
    <3>2. CASE j # id
      <4>1. j \in DOMAIN orders /\ orders'[j] = orders[j]
        BY <3>2, <1>5
      <4>2. orders[j].side \in Side /\ orders[j].price \in Price
        BY <4>1 DEF BookTypeOK, Order
      <4> QED BY <4>1, <4>2, <1>10 DEF IndexConsistent
    <3> QED BY <3>1, <3>2
  <2>2. ASSUME NEW t \in Side, NEW r \in Price, NEW k \in DOMAIN queue'[t][r]
        PROVE  /\ queue'[t][r][k] \in DOMAIN orders'
               /\ orders'[queue'[t][r][k]].side = t
               /\ orders'[queue'[t][r][k]].price = r
               /\ \A j \in DOMAIN queue'[t][r] :
                     queue'[t][r][k] = queue'[t][r][j] => k = j
    <3>1. /\ queue'[t][r][k] \in DOMAIN orders'
          /\ orders'[queue'[t][r][k]].side = t
          /\ orders'[queue'[t][r][k]].price = r
      BY <1>5, <1>9 DEF IndexConsistent
    <3>2. \A j \in DOMAIN queue'[t][r] : queue'[t][r][k] = queue'[t][r][j] => k = j
      BY <1>9 DEF IndexConsistent
    <3> QED BY <3>1, <3>2
  <2> QED BY <2>1, <2>2 DEF IndexConsistent
<1>12. LevelsExact'
  <2>1. ASSUME NEW t \in Side
        PROVE  levels'[t] = {r \in Price : queue'[t][r] # <<>>}
    <3>1. levels[t] = {r \in Price : queue[t][r] # <<>>}
      BY DEF CountersExact, LevelsExact
    <3>2. qa # <<>>
      BY <1>1, <1>2, AppendProperties DEF qa
    <3>3. ASSUME NEW r \in Price
          PROVE  r \in levels'[t] <=> queue'[t][r] # <<>>
      <4>1. CASE t = s /\ r = p
        BY <4>1, <3>2, <1>6, <1>7
      <4>2. CASE ~(t = s /\ r = p)
        <5>1. queue'[t][r] = queue[t][r]
          BY <4>2, <1>6
        <5>2. r \in levels'[t] <=> r \in levels[t]
          BY <4>2, <1>7
        <5> QED BY <3>1, <5>1, <5>2
      <4> QED BY <4>1, <4>2
    <3>4. levels'[t] \subseteq Price
      BY <1>8 DEF BookTypeOK
    <3> QED BY <3>3, <3>4
  <2> QED BY <2>1 DEF LevelsExact
<1>13. BookFinite'
  <2>1. IsFiniteSet(DOMAIN orders')
    BY <1>5, FS_AddElement DEF BookFinite
  <2>2. ASSUME NEW t \in Side PROVE IsFiniteSet(levels'[t])
    <3>1. levels'[t] = levels[t] \/ levels'[t] = levels[t] \cup {p}
      BY <1>7
    <3> QED BY <3>1, FS_AddElement, SMTT(30) DEF BookFinite
  <2> QED BY <2>1, <2>2 DEF BookFinite
<1>14. OrderCountExact'
  <2>1. ASSUME NEW t \in Side
        PROVE  numOrders'[t] = Cardinality({j \in DOMAIN orders' : orders'[j].side = t})
    <3> DEFINE A == {j \in DOMAIN orders : orders[j].side = t}
    <3>1. IsFiniteSet(A) /\ numOrders[t] = Cardinality(A) /\ id \notin A
      BY FS_Subset DEF BookFinite, CountersExact, OrderCountExact
    <3>2. {j \in DOMAIN orders' : orders'[j].side = t}
            = IF t = s THEN A \cup {id} ELSE A
      BY <1>5
    <3>3. Cardinality(A \cup {id}) = Cardinality(A) + 1
      BY <3>1, FS_AddElement
    <3>4. numOrders'[t] = IF t = s THEN numOrders[t] + 1 ELSE numOrders[t]
      BY <1>1, <1>4 DEF BookTypeOK
    <3> QED BY <3>1, <3>2, <3>3, <3>4
  <2> QED BY <2>1 DEF OrderCountExact
<1>15. DepthExact'
  <2>1. ASSUME NEW t \in Side
        PROVE  depth'[t] = Cardinality(levels'[t])
    <3>1. IsFiniteSet(levels[t]) /\ depth[t] = Cardinality(levels[t])
      BY DEF BookFinite, CountersExact, DepthExact
    <3>2. Cardinality(levels[t] \cup {p})
            = IF p \in levels[t] THEN Cardinality(levels[t]) ELSE Cardinality(levels[t]) + 1
      BY <3>1, FS_AddElement
    <3>3. depth'[t] = IF t = s /\ p \notin levels[t] THEN depth[t] + 1 ELSE depth[t]
      BY <1>1, <1>4 DEF BookTypeOK
    <3>4. p \in levels[t] => levels[t] \cup {p} = levels[t]
      OBVIOUS
    <3> QED BY <3>1, <3>2, <3>3, <3>4, <1>7
  <2> QED BY <2>1 DEF DepthExact
<1>16. QueueInTimeOrder'
  <2>1. ASSUME NEW t \in Side, NEW r \in Price,
               NEW j \in DOMAIN queue'[t][r], NEW k \in DOMAIN queue'[t][r], j < k
        PROVE  orders'[queue'[t][r][j]].time < orders'[queue'[t][r][k]].time
    <3>1. j \in DOMAIN queue[t][r] /\ queue'[t][r][j] = queue[t][r][j]
      <4>1. j # n \/ ~(t = s /\ r = p)
        BY <2>1, <1>3, <1>6
      <4> QED BY <4>1, <1>9
    <3>2. queue[t][r][j] \in DOMAIN orders
      BY <3>1 DEF IndexConsistent
    <3>3. CASE k \in DOMAIN queue[t][r]
      <4>1. orders[queue[t][r][j]].time < orders[queue[t][r][k]].time
        BY <2>1, <3>1, <3>3 DEF QueueInTimeOrder
      <4>2. queue[t][r][k] \in DOMAIN orders
        BY <3>3 DEF IndexConsistent
      <4> QED BY <4>1, <4>2, <3>1, <3>2, <3>3, <1>5, <1>10
    <3>4. CASE k \notin DOMAIN queue[t][r]
      BY <3>1, <3>2, <3>4, <1>5, <1>9 DEF TimesPast
    <3> QED BY <3>3, <3>4
  <2> QED BY <2>1 DEF QueueInTimeOrder
<1>17. TimesPast'
  <2>1. ASSUME NEW j \in DOMAIN orders' PROVE orders'[j].time < clock'
    BY <1>5 DEF TimesPast, BookTypeOK, Order
  <2> QED BY <2>1 DEF TimesPast
<1>18. OrdersOK(orders) /\ OrdersOK(orders') /\ Joins(orders, id, orders')
  <2>1. IsFiniteSet(DOMAIN orders) /\ \A j \in DOMAIN orders : orders[j].quantity \in Int
    BY DEF BookTypeOK, BookFinite, Order
  <2>2. IsFiniteSet(DOMAIN orders')
    BY <1>5, <2>1, FS_AddElement
  <2> QED BY <1>1, <1>5, <2>1, <2>2 DEF OrdersOK, Joins
<1>19. VolumesOfResting'
  <2>1. ASSUME NEW t \in Side, NEW r \in Price
        PROVE  levelVolume'[t][r] = RestingAt(orders', t, r)
    <3>1. RestingAt(orders', t, r) =
            RestingAt(orders, t, r) + IF s = t /\ p = r THEN o.quantity ELSE 0
      BY <1>5, <1>18, RestingAdd
    <3>2. levelVolume'[t][r] =
            levelVolume[t][r] + IF s = t /\ p = r THEN o.quantity ELSE 0
      BY <1>1, <1>4, SMTT(60) DEF BookTypeOK
    <3> QED BY <3>1, <3>2 DEF VolumesOfResting
  <2> QED BY <2>1 DEF VolumesOfResting
<1> QED
  BY <1>5, <1>7, <1>8, <1>11, <1>12, <1>13, <1>14, <1>15, <1>16, <1>17, <1>19
  DEF CountersExact

(* A partial execution of a resting order, which changes its quantity in   *)
(* place, keeps the book consistent and leaves the levels as they are.     *)
LEMMA PartialFillKeepsBook ==
  ASSUME BookOK, NEW id \in DOMAIN orders, left \in Nat \ {0}, FillPartially(id)
  PROVE  /\ BookOK'
         /\ DOMAIN orders' = DOMAIN orders
         /\ UNCHANGED <<levels, queue>>
<1> USE DEF BookOK
<1>1. orders[id] \in Order /\ left \in Nat /\ left # 0 /\ left < orders[id].quantity
  BY DEF FillPartially, BookTypeOK
<1>2. orders[id].side \in Side /\ orders[id].price \in Price
      /\ orders[id].quantity \in Nat /\ orders[id].quantity - left \in Nat \ {0}
  BY <1>1 DEF Order
<1>3. /\ orders' = [orders EXCEPT ![id].quantity = orders[id].quantity - left]
      /\ levelVolume' =
           [levelVolume EXCEPT ![orders[id].side][orders[id].price] =
              @ - orders[id].quantity + (orders[id].quantity - left)]
      /\ UNCHANGED <<levels, queue, numOrders, depth, volume, clock>>
  BY DEF FillPartially, QueueUpdate
<1>4. DOMAIN orders' = DOMAIN orders
  BY <1>3
<1>5. \A j \in DOMAIN orders :
        /\ orders'[j] \in Order
        /\ orders'[j].side = orders[j].side
        /\ orders'[j].price = orders[j].price
        /\ orders'[j].time = orders[j].time
  <2> SUFFICES ASSUME NEW j \in DOMAIN orders
               PROVE  /\ orders'[j] \in Order
                      /\ orders'[j].side = orders[j].side
                      /\ orders'[j].price = orders[j].price
                      /\ orders'[j].time = orders[j].time
    OBVIOUS
  <2>1. orders[j] \in Order
    BY DEF BookTypeOK
  <2>2. orders'[j] = IF j = id
                     THEN [orders[j] EXCEPT !.quantity = orders[id].quantity - left]
                     ELSE orders[j]
    BY <1>3
  <2> QED BY <2>1, <2>2, <1>2 DEF Order
<1>6. BookTypeOK'
  <2>1. levelVolume' \in [Side -> [Price -> Int]]
    <3> DEFINE s == orders[id].side
               r == orders[id].price
               v == levelVolume[s][r] - orders[id].quantity + (orders[id].quantity - left)
    <3>1. s \in Side /\ r \in Price /\ v \in Int
      BY <1>1, <1>2 DEF BookTypeOK
    <3>2. levelVolume' = [levelVolume EXCEPT ![s][r] = v]
      BY <1>3
    <3> HIDE DEF s, r, v
    <3> QED BY <3>1, <3>2 DEF BookTypeOK
  <2>2. orders' \in [DOMAIN orders' -> Order]
    BY <1>3, <1>4, <1>5
  <2> QED BY <2>1, <2>2, <1>3, <1>4 DEF BookTypeOK
<1>7. IndexConsistent'
  <2>1. ASSUME NEW j \in DOMAIN orders'
        PROVE  \E k \in DOMAIN queue'[orders'[j].side][orders'[j].price] :
                  queue'[orders'[j].side][orders'[j].price][k] = j
    BY <1>3, <1>4, <1>5 DEF IndexConsistent
  <2>2. ASSUME NEW t \in Side, NEW r \in Price, NEW k \in DOMAIN queue'[t][r]
        PROVE  /\ queue'[t][r][k] \in DOMAIN orders'
               /\ orders'[queue'[t][r][k]].side = t
               /\ orders'[queue'[t][r][k]].price = r
               /\ \A j \in DOMAIN queue'[t][r] :
                     queue'[t][r][k] = queue'[t][r][j] => k = j
    BY <1>3, <1>4, <1>5 DEF IndexConsistent
  <2> QED BY <2>1, <2>2 DEF IndexConsistent
<1>8. CountersExact'
  <2>1. LevelsExact' /\ DepthExact'
    BY <1>3 DEF CountersExact, LevelsExact, DepthExact
  <2>2. ASSUME NEW t \in Side
        PROVE  numOrders'[t] = Cardinality({j \in DOMAIN orders' : orders'[j].side = t})
    <3>1. {j \in DOMAIN orders' : orders'[j].side = t}
            = {j \in DOMAIN orders : orders[j].side = t}
      BY <1>4, <1>5
    <3> QED BY <3>1, <1>3 DEF CountersExact, OrderCountExact
  <2> QED BY <2>1, <2>2 DEF CountersExact, OrderCountExact
<1>9. QueueInTimeOrder'
  <2>1. ASSUME NEW t \in Side, NEW r \in Price,
               NEW j \in DOMAIN queue'[t][r], NEW k \in DOMAIN queue'[t][r], j < k
        PROVE  orders'[queue'[t][r][j]].time < orders'[queue'[t][r][k]].time
    <3>1. /\ orders[queue[t][r][j]].time < orders[queue[t][r][k]].time
          /\ queue[t][r][j] \in DOMAIN orders /\ queue[t][r][k] \in DOMAIN orders
      BY <2>1, <1>3 DEF QueueInTimeOrder, IndexConsistent
    <3> QED BY <3>1, <1>3, <1>5
  <2> QED BY <2>1 DEF QueueInTimeOrder
<1>10. BookFinite' /\ TimesPast'
  BY <1>3, <1>4, <1>5 DEF BookFinite, TimesPast
<1>11. VolumesOfResting'
  <2>1. ASSUME NEW t \in Side, NEW r \in Price
        PROVE  levelVolume'[t][r] = RestingAt(orders', t, r)
    <3> DEFINE here == orders[id].side = t /\ orders[id].price = r
               q == orders[id].quantity - left
    <3>1. /\ q \in Int /\ orders'[id].quantity = q
          /\ \A j \in DOMAIN orders \ {id} : orders'[j] = orders[j]
      <4>1. orders' = [orders EXCEPT ![id].quantity = q]
        BY <1>3
      <4>2. q \in Int
        BY <1>2
      <4> HIDE DEF q
      <4>3. orders'[id] = [orders[id] EXCEPT !.quantity = q]
        BY <4>1 DEF BookTypeOK
      <4> QED BY <1>1, <4>1, <4>2, <4>3 DEF BookTypeOK, Order
    <3>2. OrdersOK(orders) /\ OrdersOK(orders')
      <4>1. IsFiniteSet(DOMAIN orders)
        BY DEF BookFinite
      <4>2. \A j \in DOMAIN orders : orders[j].quantity \in Int
        BY DEF BookTypeOK, Order
      <4>3. \A j \in DOMAIN orders : orders'[j].quantity \in Int
        BY <1>5 DEF Order
      <4> QED BY <1>4, <4>1, <4>2, <4>3 DEF OrdersOK
    <3>3. /\ RestingAt(orders, t, r) \in Int
          /\ RestingAt(orders', t, r) =
               RestingAt(orders, t, r) + IF here THEN q - orders[id].quantity ELSE 0
      <4> HIDE DEF q
      <4> QED BY <1>4, <1>5, <3>1, <3>2, RestingChange
    <3>4. levelVolume'[t][r] =
            levelVolume[t][r] + IF here THEN q - orders[id].quantity ELSE 0
      BY <1>2, <1>3, SMTT(90) DEF BookTypeOK
    <3> QED BY <3>3, <3>4 DEF VolumesOfResting
  <2> QED BY <2>1 DEF VolumesOfResting
<1> QED BY <1>3, <1>4, <1>6, <1>7, <1>8, <1>9, <1>10, <1>11

----------------------------------------------------------------------------
(* The call's part of TypeOK.                                              *)
CallTypeOK ==
  /\ pc \in {"idle", "matching", "returned"}
  /\ call \in Call
  /\ left \in Nat
  /\ done \in Seq(Fill)
  /\ partial \in OrderID \cup {nil}
  /\ processed \in Nat
  /\ totalQuantity \in Nat
  /\ totalPrice \in Nat
  /\ err \in {"none", "ErrOrderExists", "ErrInvalidQuantity", "ErrInvalidPrice"}

(* A running call has valid arguments (the entry checks hold on to the end *)
(* of the call), and has results when and only when it has traded.         *)
ArgumentsValid ==
  pc = "matching" =>
    /\ err = "none"
    /\ call.kind \in {"limit", "market"}
    /\ call.quantity # 0
    /\ call.kind = "limit" => call.id \in OrderID \ DOMAIN orders /\ call.price \in Price
ResultsSoFar ==
  pc = "matching" /\ left > 0 =>
    /\ processed = 0
    /\ partial = nil
    /\ totalQuantity = 0 <=> done = <<>>
IdleReset ==
  pc = "idle" =>
    /\ call = NoCall /\ left = 0 /\ done = <<>> /\ partial = nil
    /\ processed = 0 /\ totalQuantity = 0 /\ totalPrice = 0 /\ err = "none"

CallOK ==
  /\ CallTypeOK
  /\ ArgumentsValid
  /\ ResultsSoFar
  /\ IdleReset
  /\ QuantityConserved
  /\ WithinTakerLimit
  /\ TotalsExact

IInv == BookOK /\ NotCrossed /\ CallOK

----------------------------------------------------------------------------
LEMMA OppositeSide ==
  /\ \A s \in Side : Opposite(s) \in Side /\ Opposite(s) # s
  /\ \A s, t \in Side : t # s => t = Opposite(s)
BY DEF Side, Opposite

LEMMA ProductMonotone ==
  ASSUME NEW a \in Nat, NEW b \in Nat, NEW n \in Nat, a <= b
  PROVE  /\ a * n \in Nat /\ b * n \in Nat
         /\ a * n <= b * n
<1>1. PICK d \in Nat : b = a + d
  <2>1. b - a \in Nat /\ b = a + (b - a)
    OBVIOUS
  <2> QED BY <2>1
<1>2. (a + d) * n = a * n + d * n
  OBVIOUS
<1>3. a * n \in Nat /\ b * n \in Nat /\ d * n \in Nat
  OBVIOUS
<1> QED BY <1>1, <1>2, <1>3

(* A side with a level has a best level, and says that it has orders: the  *)
(* counters the loop guards look at never hide a level.                    *)
LEMMA BestExists ==
  ASSUME BookOK, NEW s \in Side, levels[s] # {}
  PROVE  numOrders[s] > 0 /\ \E p \in levels[s] : IsBest(s, p)
<1> USE DEF BookOK, CountersExact
<1>1. depth[s] > 0
  <2>1. IsFiniteSet(levels[s]) /\ depth[s] = Cardinality(levels[s])
    BY DEF BookFinite, DepthExact
  <2>2. Cardinality(levels[s]) \in Nat /\ Cardinality(levels[s]) # 0
    BY <2>1, FS_CardinalityType, FS_EmptySet
  <2> QED BY <2>1, <2>2
<1>2. numOrders[s] > 0
  <2> DEFINE A == {id \in DOMAIN orders : orders[id].side = s}
  <2>1. IsFiniteSet(A) /\ numOrders[s] = Cardinality(A)
    BY FS_Subset DEF BookFinite, OrderCountExact
  <2>2. PICK p \in levels[s] : TRUE
    OBVIOUS
  <2>3. Head(queue[s][p]) \in A
    BY <2>2, LevelHead
  <2>4. Cardinality(A) \in Nat /\ Cardinality(A) # 0
    BY <2>1, <2>3, FS_CardinalityType, FS_EmptySet
  <2> QED BY <2>1, <2>4
<1>3. \E p \in levels[s] : \A r \in levels[s] : IF s = "sell" THEN p <= r ELSE r <= p
  <2>1. levels[s] \in SUBSET Price
    BY DEF BookTypeOK
  <2> QED BY <2>1, PriceAssumption
<1> QED BY <1>1, <1>2, <1>3 DEF IsBest

(* When the loop of a limit order ends with quantity left, no level of the *)
(* other side is within its limit: it may come to rest.                    *)
LEMMA LoopEnd ==
  ASSUME BookOK, CallOK, pc = "matching", call.kind = "limit", left > 0, ~CanMatch,
         NEW r \in levels[Opposite(call.side)]
  PROVE  r \in Price /\ (IF call.side = "buy" THEN call.price < r ELSE r < call.price)
<1> DEFINE opp == Opposite(call.side)
<1>1. call.side \in Side /\ opp \in Side /\ call.price \in Price
  BY OppositeSide DEF CallOK, CallTypeOK, Call, ArgumentsValid
<1>2. levels[opp] \subseteq Price /\ Price \subseteq Nat
  BY <1>1, PriceAssumption DEF BookOK, BookTypeOK
<1>3. PICK p \in levels[opp] : IsBest(opp, p)
  BY <1>1, BestExists
<1>4. ~WithinLimit(p)
  BY <1>1, <1>3, BestExists DEF CanMatch, Matchable
<1>5. call.side \in {"buy", "sell"} /\ opp = IF call.side = "buy" THEN "sell" ELSE "buy"
  BY <1>1 DEF Side, Opposite
<1>6. p \in Nat /\ r \in Nat /\ r \in Price /\ call.price \in Nat
  BY <1>1, <1>2, PriceAssumption
<1>7. CASE call.side = "buy"
  <2>1. p <= r
    BY <1>3, <1>5, <1>7 DEF IsBest
  <2>2. ~(call.price >= p)
    BY <1>4, <1>7 DEF WithinLimit
  <2> QED BY <1>6, <1>7, <2>1, <2>2
<1>8. CASE call.side = "sell"
  <2>1. r <= p
    BY <1>3, <1>5, <1>8 DEF IsBest
  <2>2. ~(call.price <= p)
    BY <1>4, <1>8 DEF WithinLimit
  <2> QED BY <1>6, <1>8, <2>1, <2>2
<1> QED BY <1>5, <1>7, <1>8

(* The maker of an iteration: the head of the best level of the other side,*)
(* which is within the taker's limit.                                      *)
LEMMA MakerFacts ==
  ASSUME BookOK, CallOK, pc = "matching",
         NEW p \in levels[Opposite(call.side)], WithinLimit(p)
  PROVE  LET id == Head(queue[Opposite(call.side)][p])
         IN /\ id \in DOMAIN orders
            /\ id \in OrderID
            /\ 1 \in DOMAIN queue[orders[id].side][orders[id].price]
            /\ queue[orders[id].side][orders[id].price][1] = id
            /\ orders[id] \in Order
            /\ orders[id].side = Opposite(call.side)
            /\ orders[id].price = p
            /\ p \in Nat /\ orders[id].quantity \in Nat \ {0}
            /\ call.kind = "limit" =>
                 IF call.side = "buy" THEN p <= call.price ELSE call.price <= p
<1> DEFINE opp == Opposite(call.side)
           id == Head(queue[opp][p])
<1>1. call.side \in Side /\ opp \in Side /\ call.price \in Nat
  BY OppositeSide DEF CallOK, CallTypeOK, Call
<1>2. /\ p \in Price
      /\ 1 \in DOMAIN queue[opp][p]
      /\ id = queue[opp][p][1]
      /\ id \in DOMAIN orders
      /\ orders[id] \in Order
      /\ orders[id].side = opp
      /\ orders[id].price = p
  BY <1>1, LevelHead DEF BookOK, CountersExact
<1>3. id \in OrderID /\ p \in Nat /\ orders[id].quantity \in Nat \ {0}
  BY <1>2, PriceAssumption DEF BookOK, BookTypeOK, Order
<1>4. call.kind = "limit" => IF call.side = "buy" THEN p <= call.price ELSE call.price <= p
  BY <1>1, <1>3 DEF WithinLimit, Side
<1> QED BY <1>2, <1>3, <1>4

(* A fill of n units at price p keeps the average price of the taker       *)
(* within its limit.                                                       *)
LEMMA FillWithinLimit ==
  ASSUME CallOK, pc = "matching", NEW p \in Nat, NEW n \in Nat,
         call.kind = "limit" =>
           IF call.side = "buy" THEN p <= call.price ELSE call.price <= p,
         totalPrice' = totalPrice + p * n,
         totalQuantity' = totalQuantity + n,
         call' = call
  PROVE  /\ WithinTakerLimit'
         /\ totalPrice' \in Nat
<1>1. call.price \in Nat /\ totalPrice \in Nat /\ totalQuantity \in Nat
  BY DEF CallOK, CallTypeOK, Call
<1>2. p * n \in Nat /\ call.price * n \in Nat /\ call.price * totalQuantity \in Nat
  BY <1>1, ProductMonotone
<1>3. call.price * (totalQuantity + n) = call.price * totalQuantity + call.price * n
  BY <1>1
<1>4. CASE call.kind = "limit" /\ call.side = "buy"
  <2>1. p * n <= call.price * n
    BY <1>1, <1>4, ProductMonotone
  <2>2. totalPrice <= call.price * totalQuantity
    BY <1>4 DEF CallOK, WithinTakerLimit
  <2> QED BY <1>1, <1>2, <1>3, <1>4, <2>1, <2>2 DEF WithinTakerLimit
<1>5. CASE call.kind = "limit" /\ call.side # "buy"
  <2>1. call.price * n <= p * n
    BY <1>1, <1>5, ProductMonotone
  <2>2. call.price * totalQuantity <= totalPrice
    BY <1>1, <1>2, <1>5 DEF CallOK, WithinTakerLimit
  <2> QED BY <1>1, <1>2, <1>3, <1>5, <2>1, <2>2 DEF WithinTakerLimit
<1>6. CASE call.kind # "limit"
  BY <1>1, <1>2, <1>6 DEF WithinTakerLimit
<1> QED BY <1>4, <1>5, <1>6

(* What the results sum up to before the first maker, and with one more.   *)
LEMMA NothingDone ==
  QuantityOf(<<>>) = 0 /\ PriceOf(<<>>) = 0
<1>1. \A f : DOMAIN f = {} => SumFunction(f) = 0
  BY SumEmpty DEF SumFunction
<1>2. DOMAIN <<>> = {}
  OBVIOUS
<1> QED BY <1>1, <1>2 DEF QuantityOf, PriceOf

LEMMA OneMoreDone ==
  ASSUME NEW d \in Seq(Fill), NEW f \in Fill
  PROVE  /\ QuantityOf(d) \in Int /\ PriceOf(d) \in Int
         /\ QuantityOf(Append(d, f)) = QuantityOf(d) + f.quantity
         /\ PriceOf(Append(d, f)) = PriceOf(d) + f.price[1] * f.quantity
<1> DEFINE n == Len(d)
           e == Append(d, f)
<1>1. /\ n \in Nat /\ DOMAIN d = 1..n /\ e \in Seq(Fill) /\ DOMAIN e = 1..(n + 1)
      /\ e[n + 1] = f /\ \A i \in 1..n : d[i] \in Fill /\ e[i] = d[i]
  BY AppendProperties, LenProperties, ElementOfSeq
<1>2. \A g \in Fill : g.quantity \in Int /\ g.price[1] * g.quantity \in Int
  <2> TAKE g \in Fill
  <2>1. g.quantity \in Nat /\ g.price \in Nat \X Nat
    BY DEF Fill
  <2>2. g.price[1] \in Nat
    BY <2>1
  <2>3. \A a, b \in Nat : a * b \in Nat
    OBVIOUS
  <2> QED BY <2>1, <2>2, <2>3
<1> HIDE DEF n, e
<1>3. QuantityOf(d) \in Int /\ QuantityOf(e) = QuantityOf(d) + f.quantity
  <2> DEFINE a == [i \in DOMAIN d |-> d[i].quantity]
             b == [i \in DOMAIN e |-> e[i].quantity]
  <2>1. /\ DOMAIN a = 1..n /\ DOMAIN b = 1..(n + 1)
        /\ \A i \in 1..n : a[i] \in Int /\ b[i] = a[i]
        /\ b[n + 1] = f.quantity /\ b[n + 1] \in Int
    <3>1. n + 1 \in 1..(n + 1) /\ \A i \in 1..n : i \in 1..(n + 1)
      BY <1>1
    <3> QED BY <1>1, <1>2, <3>1
  <2> HIDE DEF a, b
  <2>2. SumFunction(a) \in Int /\ SumFunction(b) = SumFunction(a) + b[n + 1]
    BY <1>1, <2>1, SumAppended
  <2> QED BY <2>1, <2>2 DEF a, b, QuantityOf
<1>4. PriceOf(d) \in Int /\ PriceOf(e) = PriceOf(d) + f.price[1] * f.quantity
  <2> DEFINE a == [i \in DOMAIN d |-> d[i].price[1] * d[i].quantity]
             b == [i \in DOMAIN e |-> e[i].price[1] * e[i].quantity]
  <2>1. /\ DOMAIN a = 1..n /\ DOMAIN b = 1..(n + 1)
        /\ \A i \in 1..n : a[i] \in Int /\ b[i] = a[i]
        /\ b[n + 1] = f.price[1] * f.quantity /\ b[n + 1] \in Int
    <3>1. n + 1 \in 1..(n + 1) /\ \A i \in 1..n : i \in 1..(n + 1)
      BY <1>1
    <3> QED BY <1>1, <1>2, <3>1
  <2> HIDE DEF a, b
  <2>2. SumFunction(a) \in Int /\ SumFunction(b) = SumFunction(a) + b[n + 1]
    BY <1>1, <2>1, SumAppended
  <2> QED BY <2>1, <2>2 DEF a, b, PriceOf
<1> QED BY <1>3, <1>4 DEF e

----------------------------------------------------------------------------
(* Each action keeps the invariant.                                        *)
LEMMA BookUnchanged ==
  ASSUME BookOK, NotCrossed, UNCHANGED book
  PROVE  BookOK' /\ NotCrossed'
BY DEF book, BookOK, BookTypeOK, IndexConsistent, CountersExact, LevelsExact,
       OrderCountExact, DepthExact, BookFinite, QueueInTimeOrder, TimesPast,
     VolumesOfResting, NotCrossed

LEMMA FewerLevelsNotCrossed ==
  ASSUME NotCrossed, \A t \in Side : levels'[t] \subseteq levels[t]
  PROVE  NotCrossed'
BY DEF NotCrossed, Side

LEMMA EnterKeeps ==
  ASSUME IInv, NEW c \in Call,
         NEW e \in {"none", "ErrOrderExists", "ErrInvalidQuantity", "ErrInvalidPrice"},
         Enter(c, e), c.kind \in {"limit", "market"},
         e = "none" => /\ c.quantity # 0
                       /\ c.kind = "limit" => /\ c.id \in OrderID \ DOMAIN orders
                                              /\ c.price \in Price
  PROVE  IInv'
<1> USE DEF IInv
<1>1. /\ pc = "idle" /\ call' = c /\ err' = e
      /\ pc' = IF e = "none" THEN "matching" ELSE "returned"
      /\ left' = IF e = "none" THEN c.quantity ELSE 0
      /\ UNCHANGED book
      /\ UNCHANGED <<done, partial, processed, totalQuantity, totalPrice>>
      /\ UNCHANGED orders
  BY DEF Enter, results, book
<1>2. /\ done = <<>> /\ partial = nil /\ processed = 0
      /\ totalQuantity = 0 /\ totalPrice = 0
  BY <1>1 DEF CallOK, IdleReset
<1>3. BookOK' /\ NotCrossed'
  BY <1>1, BookUnchanged
<1>4. c.quantity \in Nat /\ c.price \in Nat
  BY DEF Call
<1>5. CallTypeOK'
  BY <1>1, <1>4 DEF CallOK, CallTypeOK
<1>6. ArgumentsValid' /\ ResultsSoFar' /\ IdleReset'
  BY <1>1, <1>2 DEF ArgumentsValid, ResultsSoFar, IdleReset
<1>7. QuantityConserved' /\ WithinTakerLimit'
  BY <1>1, <1>2, <1>4 DEF QuantityConserved, WithinTakerLimit
<1>8. TotalsExact'
  BY <1>1, <1>2, NothingDone DEF TotalsExact
<1> QED BY <1>3, <1>5, <1>6, <1>7, <1>8 DEF CallOK

LEMMA ProcessLimitOrderKeeps ==
  ASSUME IInv, NEW id \in OrderID, NEW s \in Side, NEW q \in Quantity \cup {0},
         NEW p \in Price \cup {0}, ProcessLimitOrder(id, s, q, p)
  PROVE  IInv'
<1> DEFINE c == [kind |-> "limit", id |-> id, side |-> s, quantity |-> q, price |-> p]
           e == LimitError(id, q, p)
<1>1. q \in Nat /\ p \in Nat
  BY QuantityAssumption, PriceAssumption
<1>2. c \in Call
  BY <1>1 DEF Call
<1>3. e \in {"none", "ErrOrderExists", "ErrInvalidQuantity", "ErrInvalidPrice"}
  BY DEF LimitError
<1>4. e = "none" => c.quantity # 0 /\ c.id \in OrderID \ DOMAIN orders /\ c.price \in Price
  BY DEF LimitError
<1>5. Enter(c, e)
  BY DEF ProcessLimitOrder
<1> QED BY <1>2, <1>3, <1>4, <1>5, EnterKeeps

LEMMA ProcessMarketOrderKeeps ==
  ASSUME IInv, NEW s \in Side, NEW q \in Quantity \cup {0}, ProcessMarketOrder(s, q)
  PROVE  IInv'
<1> DEFINE c == [kind |-> "market", id |-> nil, side |-> s, quantity |-> q, price |-> 0]
           e == MarketError(q)
<1>1. q \in Nat
  BY QuantityAssumption
<1>2. c \in Call
  BY <1>1 DEF Call
<1>3. e \in {"none", "ErrInvalidQuantity"} /\ (e = "none" => c.quantity # 0)
  BY DEF MarketError
<1>4. Enter(c, e)
  BY DEF ProcessMarketOrder
<1> QED BY <1>2, <1>3, <1>4, EnterKeeps

LEMMA FillPartiallyKeeps ==
  ASSUME IInv, pc = "matching", left > 0,
         NEW p \in levels[Opposite(call.side)], WithinLimit(p),
         FillPartially(Head(queue[Opposite(call.side)][p]))
  PROVE  IInv'
<1> DEFINE id == Head(queue[Opposite(call.side)][p])
<1> USE DEF IInv
<1>1. /\ id \in DOMAIN orders /\ id \in OrderID
      /\ orders[id] \in Order /\ orders[id].price = p /\ p \in Nat
      /\ call.kind = "limit" =>
           IF call.side = "buy" THEN p <= call.price ELSE call.price <= p
  BY MakerFacts
<1> HIDE DEF id
<1>2. FillPartially(id)
  BY DEF id
<1>3. /\ left \in Nat \ {0} /\ totalQuantity \in Nat /\ totalPrice \in Nat
      /\ call \in Call
  BY DEF CallOK, CallTypeOK
<1>4. BookOK' /\ DOMAIN orders' = DOMAIN orders /\ UNCHANGED <<levels, queue>>
  BY <1>1, <1>2, <1>3, PartialFillKeepsBook
<1>5. /\ partial' = id /\ processed' = left /\ left' = 0
      /\ totalQuantity' = totalQuantity + left
      /\ totalPrice' = totalPrice + p * left
      /\ UNCHANGED <<pc, call, done, err>>
  BY <1>1, <1>2 DEF FillPartially
<1>6. NotCrossed'
  BY <1>4 DEF NotCrossed
<1>7. WithinTakerLimit' /\ totalPrice' \in Nat
  BY <1>1, <1>3, <1>5, FillWithinLimit
<1>8. CallTypeOK'
  BY <1>1, <1>3, <1>5, <1>7 DEF CallOK, CallTypeOK
<1>9. ArgumentsValid' /\ ResultsSoFar' /\ IdleReset'
  BY <1>4, <1>5 DEF CallOK, ArgumentsValid, ResultsSoFar, IdleReset
<1>10. QuantityConserved'
  BY <1>3, <1>5 DEF CallOK, QuantityConserved
<1>11. TotalsExact'
  <2>1. /\ totalQuantity = QuantityOf(done) /\ totalPrice = PriceOf(done)
        /\ QuantityOf(done) \in Int /\ PriceOf(done) \in Int
    <3>1. [id |-> id, quantity |-> left, price |-> <<p, 1>>] \in Fill
      BY <1>1, <1>3 DEF Fill
    <3>2. done \in Seq(Fill)
      BY DEF CallOK, CallTypeOK
    <3>3. QuantityOf(done) \in Int /\ PriceOf(done) \in Int
      BY <3>1, <3>2, OneMoreDone
    <3> QED BY <1>3, <3>3 DEF CallOK, ResultsSoFar, TotalsExact
  <2>2. QuantityOf(done') = QuantityOf(done) /\ PriceOf(done') = PriceOf(done)
    BY <1>5
  <2>3. orders'[partial'].price = p /\ processed' > 0
    <3>1. orders' = [orders EXCEPT ![id].quantity = orders[id].quantity - left]
      BY <1>2 DEF FillPartially, QueueUpdate
    <3>2. orders'[id] = [orders[id] EXCEPT !.quantity = orders[id].quantity - left]
      BY <1>1, <3>1 DEF BookOK, BookTypeOK
    <3> QED BY <1>1, <1>3, <1>5, <3>2, SMTT(30) DEF Order
  <2> QED BY <1>5, <2>1, <2>2, <2>3 DEF TotalsExact
<1> QED BY <1>4, <1>6, <1>7, <1>8, <1>9, <1>10, <1>11, SMTT(30) DEF CallOK

LEMMA FillWholeKeeps ==
  ASSUME IInv, pc = "matching", left > 0,
         NEW p \in levels[Opposite(call.side)], WithinLimit(p),
         FillWhole(Head(queue[Opposite(call.side)][p]))
  PROVE  IInv'
<1> DEFINE id == Head(queue[Opposite(call.side)][p])
           n == orders[id].quantity
<1> USE DEF IInv
<1>1. /\ id \in DOMAIN orders /\ id \in OrderID
      /\ 1 \in DOMAIN queue[orders[id].side][orders[id].price]
      /\ queue[orders[id].side][orders[id].price][1] = id
      /\ orders[id].price = p /\ p \in Nat /\ n \in Nat \ {0}
      /\ call.kind = "limit" =>
           IF call.side = "buy" THEN p <= call.price ELSE call.price <= p
  BY MakerFacts
<1> HIDE DEF id
<1>2. FillWhole(id)
  BY DEF id
<1>3. /\ left \in Nat /\ totalQuantity \in Nat /\ totalPrice \in Nat
      /\ call \in Call /\ done \in Seq(Fill)
  BY DEF CallOK, CallTypeOK
<1>4. /\ n <= left /\ BookRemove(id, 1) /\ clock' = clock
      /\ left' = left - n
      /\ done' = Append(done, [id |-> id, quantity |-> n, price |-> <<p, 1>>])
      /\ partial' = nil /\ processed' = 0
      /\ totalQuantity' = totalQuantity + n
      /\ totalPrice' = totalPrice + p * n
      /\ UNCHANGED <<pc, call, err>>
  BY <1>1, <1>2, <1>3 DEF FillWhole, Executed
<1>5. /\ BookOK' /\ DOMAIN orders' = DOMAIN orders \ {id}
      /\ \A t \in Side : levels'[t] \subseteq levels[t]
  BY <1>1, <1>4, RemoveKeepsBook
<1> HIDE DEF n
<1>6. NotCrossed'
  BY <1>5, FewerLevelsNotCrossed
<1>7. WithinTakerLimit' /\ totalPrice' \in Nat
  BY <1>1, <1>3, <1>4, FillWithinLimit
<1>8. done' \in Seq(Fill) /\ done' # <<>>
  <2>1. [id |-> id, quantity |-> n, price |-> <<p, 1>>] \in Fill
    BY <1>1 DEF Fill
  <2> QED BY <2>1, <1>3, <1>4, AppendProperties
<1>9. CallTypeOK'
  BY <1>1, <1>3, <1>4, <1>7, <1>8, SMTT(30) DEF CallOK, CallTypeOK
<1>10. ArgumentsValid' /\ ResultsSoFar' /\ IdleReset'
  BY <1>1, <1>3, <1>4, <1>5, <1>8 DEF CallOK, ArgumentsValid, ResultsSoFar, IdleReset
<1>11. QuantityConserved'
  BY <1>1, <1>3, <1>4 DEF CallOK, QuantityConserved
<1>12. TotalsExact'
  <2> DEFINE f == [id |-> id, quantity |-> n, price |-> <<p, 1>>]
  <2>1. f \in Fill /\ f.quantity = n /\ f.price[1] = p
    BY <1>1 DEF Fill
  <2> HIDE DEF f
  <2>2. /\ QuantityOf(done) \in Int /\ PriceOf(done) \in Int
        /\ QuantityOf(Append(done, f)) = QuantityOf(done) + n
        /\ PriceOf(Append(done, f)) = PriceOf(done) + p * n
    BY <1>3, <2>1, OneMoreDone
  <2>3. done' = Append(done, f)
    BY <1>4 DEF f
  <2>4. totalQuantity = QuantityOf(done) /\ totalPrice = PriceOf(done)
    BY <1>3, <2>2 DEF CallOK, ResultsSoFar, TotalsExact
  <2>5. QuantityOf(done') = QuantityOf(done) + n /\ PriceOf(done') = PriceOf(done) + p * n
    BY <2>2, <2>3
  <2>6. p * n \in Int
    BY <1>1
  <2> QED BY <1>1, <1>4, <2>2, <2>4, <2>5, <2>6 DEF TotalsExact
<1> QED BY <1>5, <1>6, <1>7, <1>9, <1>10, <1>11, <1>12, SMTT(30) DEF CallOK

LEMMA MatchHeadKeeps ==
  ASSUME IInv, MatchHead
  PROVE  IInv'
<1>1. PICK p \in levels[Opposite(call.side)] :
        /\ pc = "matching" /\ left > 0 /\ WithinLimit(p)
        /\ \/ FillPartially(Head(queue[Opposite(call.side)][p]))
           \/ FillWhole(Head(queue[Opposite(call.side)][p]))
  BY DEF MatchHead, Matchable
<1> QED BY <1>1, FillPartiallyKeeps, FillWholeKeeps

LEMMA RestRemainderKeeps ==
  ASSUME IInv, RestRemainder
  PROVE  IInv'
<1> DEFINE id == call.id
           o == Remainder
<1> USE DEF IInv
<1>1. /\ pc = "matching" /\ call.kind = "limit" /\ left > 0 /\ ~CanMatch
      /\ SideAppend(id, o) /\ clock' = clock + 1
      /\ IF Len(done) > 0
         THEN processed' = call.quantity - left /\ partial' = call.id
         ELSE UNCHANGED <<processed, partial>>
      /\ pc' = "returned"
      /\ UNCHANGED <<call, left, done, totalQuantity, totalPrice, err>>
  BY DEF RestRemainder
<1>2. /\ call \in Call /\ left \in Nat /\ left # 0 /\ done \in Seq(Fill)
      /\ totalQuantity \in Nat /\ clock \in Nat /\ err = "none"
      /\ id \in OrderID /\ id \notin DOMAIN orders /\ call.price \in Price
      /\ call.side \in Side /\ call.quantity \in Nat
  BY <1>1 DEF CallOK, CallTypeOK, ArgumentsValid, BookOK, BookTypeOK, Call
<1>3. /\ o \in Order
      /\ o.side = call.side /\ o.price = call.price
      /\ o.quantity = left /\ o.time = clock
  BY <1>2 DEF Order, Remainder
<1> HIDE DEF o, id
<1>4. /\ BookOK' /\ orders'[id] = o
      /\ \A t \in Side :
           levels'[t] = IF t = call.side THEN levels[t] \cup {call.price} ELSE levels[t]
  <2>1. BookOK /\ SideAppend(id, o) /\ clock' = clock + 1
    BY <1>1
  <2>2. /\ BookOK' /\ orders'[id] = o
        /\ \A t \in Side :
             levels'[t] = IF t = o.side THEN levels[t] \cup {o.price} ELSE levels[t]
    BY <2>1, <1>2, <1>3, AppendKeepsBook
  <2> QED BY <2>2, <1>3
<1> USE DEF id
<1>5. NotCrossed'
  <2>1. \A r \in levels[Opposite(call.side)] :
          r \in Price /\ (IF call.side = "buy" THEN call.price < r ELSE r < call.price)
    BY <1>1, LoopEnd
  <2>2. CASE call.side = "buy"
    BY <2>1, <2>2, <1>4 DEF NotCrossed, Side, Opposite
  <2>3. CASE call.side = "sell"
    BY <2>1, <2>3, <1>4 DEF NotCrossed, Side, Opposite
  <2> QED BY <2>2, <2>3, <1>2 DEF Side
<1>6. left + totalQuantity = call.quantity
  BY <1>1, <1>2 DEF CallOK, QuantityConserved
<1>7. processed = 0 /\ partial = nil /\ (totalQuantity = 0 <=> done = <<>>)
  BY <1>1, <1>2 DEF CallOK, ResultsSoFar
<1>8. Len(done) > 0 <=> totalQuantity > 0
  BY <1>2, <1>7, EmptySeq
<1>9. processed' = totalQuantity /\ partial' = IF totalQuantity > 0 THEN id ELSE nil
  BY <1>1, <1>2, <1>6, <1>7, <1>8
<1>10. CallTypeOK'
  BY <1>1, <1>2, <1>9 DEF CallOK, CallTypeOK
<1>11. ArgumentsValid' /\ ResultsSoFar' /\ IdleReset'
  BY <1>1 DEF ArgumentsValid, ResultsSoFar, IdleReset
<1>12. QuantityConserved'
  BY <1>1, <1>2, <1>3, <1>4, <1>6, <1>9 DEF QuantityConserved
<1>13. WithinTakerLimit'
  BY <1>1 DEF CallOK, WithinTakerLimit
<1>14. TotalsExact'
  BY <1>1 DEF TotalsExact
<1> QED BY <1>4, <1>5, <1>10, <1>11, <1>12, <1>13, <1>14 DEF CallOK

LEMMA ReportTakerKeeps ==
  ASSUME IInv, ReportTaker
  PROVE  IInv'
<1> USE DEF IInv
<1> DEFINE f == [id |-> call.id, quantity |-> call.quantity,
                 price |-> <<totalPrice, totalQuantity>>]
<1>1. /\ pc = "matching" /\ call.kind = "limit" /\ left = 0
      /\ done' = Append(done, f)
      /\ pc' = "returned"
      /\ UNCHANGED book
      /\ UNCHANGED <<call, left, partial, processed, totalQuantity, totalPrice, err>>
  BY DEF ReportTaker
<1>2. BookOK' /\ NotCrossed'
  BY <1>1, BookUnchanged
<1>3. done' \in Seq(Fill)
  <2>1. f \in Fill
    BY <1>1 DEF CallOK, CallTypeOK, ArgumentsValid, Call, Fill
  <2> HIDE DEF f
  <2> QED BY <2>1, <1>1, AppendProperties DEF CallOK, CallTypeOK
<1> HIDE DEF f
<1>4. CallTypeOK'
  BY <1>1, <1>3 DEF CallOK, CallTypeOK
<1>5. ArgumentsValid' /\ ResultsSoFar' /\ IdleReset'
  BY <1>1 DEF ArgumentsValid, ResultsSoFar, IdleReset
<1>6. QuantityConserved' /\ WithinTakerLimit' /\ TotalsExact'
  BY <1>1 DEF CallOK, QuantityConserved, WithinTakerLimit, TotalsExact
<1> QED BY <1>2, <1>4, <1>5, <1>6 DEF CallOK

LEMMA ReturnMarketKeeps ==
  ASSUME IInv, ReturnMarket
  PROVE  IInv'
<1> USE DEF IInv
<1>1. /\ pc = "matching" /\ call.kind = "market" /\ pc' = "returned"
      /\ UNCHANGED book
      /\ UNCHANGED <<call, left, done, partial, processed, totalQuantity, totalPrice, err>>
  BY DEF ReturnMarket, results
<1>2. BookOK' /\ NotCrossed'
  BY <1>1, BookUnchanged
<1>3. CallTypeOK'
  BY <1>1 DEF CallOK, CallTypeOK
<1>4. ArgumentsValid' /\ ResultsSoFar' /\ IdleReset'
  BY <1>1 DEF ArgumentsValid, ResultsSoFar, IdleReset
<1>5. QuantityConserved' /\ WithinTakerLimit' /\ TotalsExact'
  BY <1>1 DEF CallOK, QuantityConserved, WithinTakerLimit, TotalsExact
<1> QED BY <1>2, <1>3, <1>4, <1>5 DEF CallOK

LEMMA ReturnKeeps ==
  ASSUME IInv, Return
  PROVE  IInv'
<1> USE DEF IInv
<1>1. /\ pc' = "idle" /\ call' = NoCall /\ left' = 0 /\ done' = <<>>
      /\ partial' = nil /\ processed' = 0 /\ totalQuantity' = 0
      /\ totalPrice' = 0 /\ err' = "none" /\ UNCHANGED book
  BY DEF Return
<1>2. BookOK' /\ NotCrossed'
  BY <1>1, BookUnchanged
<1>3. NoCall \in Call /\ <<>> \in Seq(Fill)
  BY EmptySeq DEF NoCall, Call, Side
<1>4. CallTypeOK'
  BY <1>1, <1>3 DEF CallTypeOK
<1>5. ArgumentsValid' /\ ResultsSoFar' /\ IdleReset'
  BY <1>1 DEF ArgumentsValid, ResultsSoFar, IdleReset
<1>6. QuantityConserved' /\ WithinTakerLimit' /\ TotalsExact'
  BY <1>1 DEF QuantityConserved, WithinTakerLimit, TotalsExact
<1> QED BY <1>2, <1>4, <1>5, <1>6 DEF CallOK

LEMMA CallUnchanged ==
  ASSUME CallOK, pc = "idle", UNCHANGED callVars
  PROVE  CallOK'
BY DEF callVars, results, CallOK, CallTypeOK, ArgumentsValid, ResultsSoFar, IdleReset,
       QuantityConserved, WithinTakerLimit, TotalsExact

LEMMA CancelOrderKeeps ==
  ASSUME IInv, NEW id \in OrderID, CancelOrder(id)
  PROVE  IInv'
<1> USE DEF IInv
<1>1. PICK i \in DOMAIN queue[orders[id].side][orders[id].price] :
        /\ queue[orders[id].side][orders[id].price][i] = id
        /\ BookRemove(id, i)
  BY DEF CancelOrder
<1>2. pc = "idle" /\ id \in DOMAIN orders /\ clock' = clock /\ UNCHANGED callVars
  BY DEF CancelOrder
<1>3. BookOK' /\ \A t \in Side : levels'[t] \subseteq levels[t]
  BY <1>1, <1>2, RemoveKeepsBook
<1> QED BY <1>2, <1>3, FewerLevelsNotCrossed, CallUnchanged

(* The JSON round trip rebuilds the very index it was made from.           *)
LEMMA ReloadKeepsOrders ==
  ASSUME BookOK, Reload
  PROVE  orders' = orders
<1> DEFINE queued == {i \in DOMAIN orders :
                        \E s \in Side : \E p \in levels[s] : i \in ToSet(queue[s][p])}
<1> USE DEF BookOK
<1>1. ASSUME NEW i \in DOMAIN orders
      PROVE  \E s \in Side : \E p \in levels[s] : i \in ToSet(queue[s][p])
  <2> DEFINE s == orders[i].side
             p == orders[i].price
  <2>1. s \in Side /\ p \in Price /\ queue[s][p] \in Seq(OrderID)
    BY DEF BookTypeOK, Order
  <2>2. PICK k \in DOMAIN queue[s][p] : queue[s][p][k] = i
    BY DEF IndexConsistent
  <2>3. i \in ToSet(queue[s][p])
    BY <2>2 DEF ToSet
  <2>4. queue[s][p] # <<>>
    BY <2>1, <2>2, EmptySeq, LenProperties
  <2>5. p \in levels[s]
    BY <2>1, <2>4 DEF CountersExact, LevelsExact
  <2> QED BY <2>1, <2>3, <2>5
<1>2. queued = DOMAIN orders
  BY <1>1
<1>3. orders' = [id \in queued |-> orders[id]]
  BY DEF Reload
<1> HIDE DEF queued
<1> QED BY <1>2, <1>3 DEF BookTypeOK

LEMMA ReloadKeeps ==
  ASSUME IInv, Reload
  PROVE  IInv'
<1> USE DEF IInv
<1>1. /\ pc = "idle" /\ volume' = [s \in Side |-> 0]
      /\ UNCHANGED <<levels, queue, levelVolume, numOrders, depth, clock>>
      /\ UNCHANGED callVars
  BY DEF Reload
<1>2. orders' = orders
  BY ReloadKeepsOrders
<1>3. BookOK' /\ NotCrossed'
  BY <1>1, <1>2 DEF BookOK, BookTypeOK, IndexConsistent, CountersExact, LevelsExact,
     OrderCountExact, DepthExact, BookFinite, QueueInTimeOrder, TimesPast,
     VolumesOfResting, NotCrossed
<1> QED BY <1>1, <1>3, CallUnchanged

LEMMA StutterKeeps ==
  ASSUME IInv, UNCHANGED vars
  PROVE  IInv'
<1> USE DEF IInv
<1>1. UNCHANGED book /\ UNCHANGED callVars /\ UNCHANGED orders
  BY DEF vars, book
<1>2. BookOK' /\ NotCrossed'
  BY <1>1, BookUnchanged
<1>3. CallOK'
  BY <1>1 DEF callVars, results, CallOK, CallTypeOK, ArgumentsValid, ResultsSoFar,
     IdleReset, QuantityConserved, WithinTakerLimit, TotalsExact
<1> QED BY <1>2, <1>3

----------------------------------------------------------------------------
LEMMA InitEstablishes ==
  ASSUME Init
  PROVE  IInv
<1> USE DEF Init
<1>1. DOMAIN orders = {} /\ <<>> \in Seq(OrderID) /\ <<>> \in Seq(Fill)
  BY EmptySeq
<1>2. BookTypeOK
  BY <1>1 DEF BookTypeOK, Side
<1>3. IndexConsistent /\ QueueInTimeOrder
  BY <1>1 DEF IndexConsistent, QueueInTimeOrder
<1>4. CountersExact
  <2>1. \A s \in Side : {id \in DOMAIN orders : orders[id].side = s} = {}
    BY <1>1
  <2>2. \A s \in Side : levels[s] = {} /\ numOrders[s] = 0 /\ depth[s] = 0
    OBVIOUS
  <2>3. \A s \in Side : {p \in Price : queue[s][p] # <<>>} = {}
    OBVIOUS
  <2> QED BY <2>1, <2>2, <2>3, FS_EmptySet
          DEF CountersExact, LevelsExact, OrderCountExact, DepthExact
<1>5. BookFinite /\ TimesPast
  BY <1>1, FS_EmptySet DEF BookFinite, TimesPast
<1>6. NotCrossed
  BY DEF NotCrossed, Side
<1>7. CallOK
  BY <1>1 DEF CallOK, CallTypeOK, ArgumentsValid, ResultsSoFar, IdleReset,
     QuantityConserved, WithinTakerLimit, TotalsExact, NoCall, Call, Side
<1>8. VolumesOfResting
  <2>1. \A s \in Side, p \in Price :
          {id \in DOMAIN orders : orders[id].side = s /\ orders[id].price = p} = {}
    BY <1>1
  <2>2. \A s \in Side, p \in Price : levelVolume[s][p] = 0
    OBVIOUS
  <2> QED BY <2>1, <2>2, SumEmpty DEF VolumesOfResting, RestingAt
<1> QED BY <1>2, <1>3, <1>4, <1>5, <1>6, <1>7, <1>8 DEF IInv, BookOK

(* Every step keeps the inductive invariant.                               *)
LEMMA StepKeeps ==
  ASSUME IInv, [Next]_vars
  PROVE  IInv'
<1>1. ASSUME NEW id \in OrderID, NEW s \in Side, NEW q \in Quantity \cup {0},
             NEW p \in Price \cup {0}, ProcessLimitOrder(id, s, q, p)
      PROVE  IInv'
  BY <1>1, ProcessLimitOrderKeeps
<1>2. ASSUME NEW s \in Side, NEW q \in Quantity \cup {0}, ProcessMarketOrder(s, q)
      PROVE  IInv'
  BY <1>2, ProcessMarketOrderKeeps
<1>3. ASSUME NEW id \in OrderID, CancelOrder(id)
      PROVE  IInv'
  BY <1>3, CancelOrderKeeps
<1>4. CASE Reload
  BY <1>4, ReloadKeeps
<1>5. CASE MatchHead
  BY <1>5, MatchHeadKeeps
<1>6. CASE RestRemainder
  BY <1>6, RestRemainderKeeps
<1>7. CASE ReportTaker
  BY <1>7, ReportTakerKeeps
<1>8. CASE ReturnMarket
  BY <1>8, ReturnMarketKeeps
<1>9. CASE Return
  BY <1>9, ReturnKeeps
<1>10. CASE UNCHANGED vars
  BY <1>10, StutterKeeps
<1> QED
  BY <1>1, <1>2, <1>3, <1>4, <1>5, <1>6, <1>7, <1>8, <1>9, <1>10 DEF Next, Step

(* The inductive invariant of the book: every reachable state satisfies it.*)
THEOREM Invariance == Spec => []IInv
BY InitEstablishes, StepKeeps, PTL DEF Spec

(* Type correctness: in particular every order in the book has a positive  *)
(* quantity, and no field of the results ever turns negative.              *)
THEOREM TypeCorrect == Spec => []TypeOK
<1>1. IInv => TypeOK
  BY DEF IInv, BookOK, BookTypeOK, CallOK, CallTypeOK, TypeOK
<1> QED BY <1>1, Invariance, PTL

(* The index of the book and its queues hold the same orders.              *)
THEOREM IndexCorrect == Spec => []IndexConsistent
<1>1. IInv => IndexConsistent
  BY DEF IInv, BookOK
<1> QED BY <1>1, Invariance, PTL

(* Len and Depth of the sides and the set of levels are exact, so the      *)
(* guards of the matching loops see the orders there are.                  *)
THEOREM CountersCorrect == Spec => []CountersExact
<1>1. IInv => CountersExact
  BY DEF IInv, BookOK
<1> QED BY <1>1, Invariance, PTL

(* The book is never crossed.                                              *)
THEOREM NeverCrossed == Spec => []NotCrossed
<1>1. IInv => NotCrossed
  BY DEF IInv
<1> QED BY <1>1, Invariance, PTL

(* Time priority within a level survives partial fills and cancellations.  *)
THEOREM TimePriority == Spec => []QueueInTimeOrder
<1>1. IInv => QueueInTimeOrder
  BY DEF IInv, BookOK
<1> QED BY <1>1, Invariance, PTL

(* A call neither loses nor makes up quantity, and reports what it traded. *)
THEOREM Conservation == Spec => []QuantityConserved
<1>1. IInv => QuantityConserved
  BY DEF IInv, CallOK
<1> QED BY <1>1, Invariance, PTL

(* No limit order trades at an average price worse than its limit.         *)
THEOREM LimitRespected == Spec => []WithinTakerLimit
<1>1. IInv => WithinTakerLimit
  BY DEF IInv, CallOK
<1> QED BY <1>1, Invariance, PTL

(* The volume of every level is what its queue holds, after partial fills, *)
(* cancellations and a JSON round trip.                                    *)
THEOREM LevelVolumesCorrect == Spec => []LevelVolumeExact
<1>1. ASSUME IInv PROVE LevelVolumeExact
  <2>1. ASSUME NEW s \in Side, NEW p \in Price
        PROVE  {id \in DOMAIN orders : orders[id].side = s /\ orders[id].price = p}
                 = ToSet(queue[s][p])
    BY <1>1 DEF IInv, BookOK, IndexConsistent, ToSet
  <2> QED BY <1>1, <2>1 DEF IInv, BookOK, VolumesOfResting, RestingAt, LevelVolumeExact
<1> QED BY <1>1, Invariance, PTL

(* The totals a call sums up, whose quotient prices the taker, are the sums*)
(* of what it reports.                                                     *)
THEOREM TotalsCorrect == Spec => []TotalsExact
<1>1. IInv => TotalsExact
  BY DEF IInv, CallOK
<1> QED BY <1>1, Invariance, PTL

----------------------------------------------------------------------------
(* What CalculateMarketPrice yields for the levels S of side s, which have *)
(* volumes V; and the recursive function behind it.                        *)
Quote(s, S, V, q) ==
  LET walk[ps \in SUBSET S] ==
        [n \in Nat |->
          IF n = 0 \/ ps = {} THEN [price |-> 0, left |-> n]
          ELSE LET p == Best(s, ps)
                   m == IF n >= V[p] THEN V[p] ELSE n
                   rest == walk[ps \ {p}][n - m]
               IN [price |-> p * m + rest.price, left |-> rest.left]]
  IN walk[S][q]

Part(V, p, n) == IF n >= V[p] THEN V[p] ELSE n
QuoteStep(g, s, V, T) ==
  [n \in Nat |->
    IF n = 0 \/ T = {} THEN [price |-> 0, left |-> n]
    ELSE [price |-> Best(s, T) * Part(V, Best(s, T), n)
                      + g[T \ {Best(s, T)}][n - Part(V, Best(s, T), n)].price,
          left |-> g[T \ {Best(s, T)}][n - Part(V, Best(s, T), n)].left]]
Quotes(g, s, V, S) == g = [T \in SUBSET S |-> QuoteStep(g, s, V, T)]

LEMMA BestIn ==
  ASSUME NEW s, NEW T \in SUBSET Price, T # {}
  PROVE  /\ Best(s, T) \in T
         /\ \A r \in T : IF s = "sell" THEN Best(s, T) <= r ELSE r <= Best(s, T)
<1>1. \E p \in T : \A r \in T : IF s = "sell" THEN p <= r ELSE r <= p
  BY PriceAssumption
<1> QED BY <1>1 DEF Best

(* A step depends on the volumes and the recursion below only.             *)
LEMMA QuoteStepSame ==
  ASSUME NEW s, NEW T \in SUBSET Price, NEW g, NEW h, NEW V, NEW W,
         \A p \in T : V[p] = W[p],
         T # {} => g[T \ {Best(s, T)}] = h[T \ {Best(s, T)}]
  PROVE  QuoteStep(g, s, V, T) = QuoteStep(h, s, W, T)
<1>1. CASE T = {}
  BY <1>1 DEF QuoteStep
<1>2. CASE T # {}
  <2>1. V[Best(s, T)] = W[Best(s, T)]
    BY <1>2, BestIn
  <2> QED BY <1>2, <2>1 DEF QuoteStep, Part
<1> QED BY <1>1, <1>2

LEMMA QuotesUnique ==
  ASSUME NEW s, NEW S, NEW R, NEW V, NEW W, NEW g, NEW h,
         Quotes(g, s, V, S), Quotes(h, s, W, R),
         NEW T, T \subseteq S, T \subseteq R, IsFiniteSet(T), T \subseteq Price,
         \A p \in T : V[p] = W[p]
  PROVE  g[T] = h[T]
<1> DEFINE F == {U \in SUBSET T : g[U] = h[U]}
<1>1. ASSUME NEW U \in SUBSET T, \A Z \in SUBSET U : Z # U => Z \in F
      PROVE  U \in F
  <2>1. g[U] = QuoteStep(g, s, V, U) /\ h[U] = QuoteStep(h, s, W, U)
    BY DEF Quotes
  <2>2. U # {} => g[U \ {Best(s, U)}] = h[U \ {Best(s, U)}]
    <3> SUFFICES ASSUME U # {} PROVE U \ {Best(s, U)} \in F
      OBVIOUS
    <3> HIDE DEF F
    <3> QED BY <1>1, BestIn
  <2>3. QuoteStep(g, s, V, U) = QuoteStep(h, s, W, U)
    BY <2>2, QuoteStepSame
  <2> QED BY <2>1, <2>3
<1> HIDE DEF F
<1>2. T \in F
  BY <1>1, SubsetInduction
<1> QED BY <1>2 DEF F

LEMMA QuotesExist ==
  ASSUME NEW s, NEW V, NEW S, IsFiniteSet(S), S \subseteq Price
  PROVE  \E g : Quotes(g, s, V, S)
<1> DEFINE F == {T \in SUBSET S : \E g : Quotes(g, s, V, T)}
<1>1. ASSUME NEW T \in SUBSET S, \A U \in SUBSET T : U # T => U \in F
      PROVE  T \in F
  <2> DEFINE of(U) == CHOOSE g : Quotes(g, s, V, U)
             below == [U \in SUBSET T |-> IF U = T THEN 0 ELSE of(U)[U]]
             g == [U \in SUBSET T |-> QuoteStep(below, s, V, U)]
  <2>1. \A U \in SUBSET T : U # T => Quotes(of(U), s, V, U)
    BY <1>1
  <2>2. \A U \in SUBSET T : IsFiniteSet(U) /\ U \in SUBSET Price
    BY FS_Subset
  <2>3. ASSUME NEW U \in SUBSET T, U # T
        PROVE  g[U] = below[U]
    <3>1. g[U] = QuoteStep(below, s, V, U) /\ below[U] = of(U)[U]
      BY <2>3
    <3>2. of(U)[U] = QuoteStep(of(U), s, V, U)
      BY <2>1, <2>3 DEF Quotes
    <3>3. ASSUME U # {}
          PROVE  below[U \ {Best(s, U)}] = of(U)[U \ {Best(s, U)}]
      <4> DEFINE Z == U \ {Best(s, U)}
      <4>1. Z \in SUBSET U /\ Z # T /\ Z \in SUBSET T
        BY <2>2, <2>3, <3>3, BestIn
      <4>2. Quotes(of(U), s, V, U) /\ Quotes(of(Z), s, V, Z) /\ IsFiniteSet(Z)
            /\ Z \subseteq Price
        BY <2>1, <2>2, <2>3, <4>1
      <4> HIDE DEF Z, of
      <4>3. of(U)[Z] = of(Z)[Z]
        BY <4>1, <4>2, QuotesUnique
      <4>4. below[Z] = of(Z)[Z]
        BY <4>1
      <4> QED BY <4>3, <4>4 DEF Z
    <3> HIDE DEF of, below, g
    <3>4. QuoteStep(below, s, V, U) = QuoteStep(of(U), s, V, U)
      BY <2>2, <3>3, QuoteStepSame
    <3> QED BY <3>1, <3>2, <3>4
  <2>4. ASSUME NEW U \in SUBSET T
        PROVE  QuoteStep(below, s, V, U) = QuoteStep(g, s, V, U)
    <3> HIDE DEF g, below
    <3>1. U # {} => below[U \ {Best(s, U)}] = g[U \ {Best(s, U)}]
      <4> SUFFICES ASSUME U # {} PROVE U \ {Best(s, U)} \in SUBSET T /\ U \ {Best(s, U)} # T
        BY <2>3
      <4> QED BY <2>2, BestIn
    <3> QED BY <2>2, <3>1, QuoteStepSame
  <2>5. Quotes(g, s, V, T)
    <3> HIDE DEF below
    <3>1. g = [U \in SUBSET T |-> QuoteStep(below, s, V, U)]
      OBVIOUS
    <3> HIDE DEF g
    <3> QED BY <2>4, <3>1 DEF Quotes
  <2> HIDE DEF g
  <2> QED BY <2>5
<1> HIDE DEF F
<1>2. S \in F
  BY <1>1, SubsetInduction
<1> QED BY <1>2 DEF F

LEMMA QuoteIs ==
  ASSUME NEW s, NEW V, NEW S, IsFiniteSet(S), S \subseteq Price
  PROVE  \E g : Quotes(g, s, V, S) /\ \A q : Quote(s, S, V, q) = g[S][q]
<1> DEFINE is(h) ==
             h = [ps \in SUBSET S |->
               [n \in Nat |->
                 IF n = 0 \/ ps = {} THEN [price |-> 0, left |-> n]
                 ELSE LET p == Best(s, ps)
                          m == IF n >= V[p] THEN V[p] ELSE n
                          rest == h[ps \ {p}][n - m]
                      IN [price |-> p * m + rest.price, left |-> rest.left]]]
           g == CHOOSE h : is(h)
<1>1. \A h : is(h) <=> Quotes(h, s, V, S)
  BY DEF Quotes, QuoteStep, Part
<1>2. \E h : is(h)
  <2>1. PICK h : Quotes(h, s, V, S)
    BY QuotesExist, SMTT(30)
  <2> HIDE DEF is
  <2> QED BY <1>1, <2>1
<1>3. is(g)
  BY <1>2
<1>4. \A q : Quote(s, S, V, q) = g[S][q]
  BY DEF Quote
<1> HIDE DEF g, is
<1> QED BY <1>1, <1>3, <1>4

(* Nothing to price, or the best level first and then the others.          *)
LEMMA QuoteNothing ==
  ASSUME NEW s, NEW V, NEW S, IsFiniteSet(S), S \subseteq Price,
         NEW q \in Nat, q = 0 \/ S = {}
  PROVE  Quote(s, S, V, q) = [price |-> 0, left |-> q]
<1>1. PICK g : Quotes(g, s, V, S) /\ \A n : Quote(s, S, V, n) = g[S][n]
  BY QuoteIs
<1>2. g[S] = QuoteStep(g, s, V, S)
  BY <1>1 DEF Quotes
<1>3. QuoteStep(g, s, V, S)[q] = [price |-> 0, left |-> q]
  BY DEF QuoteStep
<1> QED BY <1>1, <1>2, <1>3

LEMMA QuoteBest ==
  ASSUME NEW s, NEW V, NEW S, IsFiniteSet(S), S \subseteq Price,
         NEW q \in Nat, q # 0, S # {}
  PROVE  LET p == Best(s, S)
             m == Part(V, p, q)
         IN Quote(s, S, V, q) = [price |-> p * m + Quote(s, S \ {p}, V, q - m).price,
                                 left |-> Quote(s, S \ {p}, V, q - m).left]
<1> DEFINE p == Best(s, S)
           m == Part(V, p, q)
           R == S \ {p}
<1>1. IsFiniteSet(R) /\ R \subseteq S /\ R \subseteq Price
  BY FS_Subset
<1>2. PICK g : Quotes(g, s, V, S) /\ \A n : Quote(s, S, V, n) = g[S][n]
  BY QuoteIs
<1> HIDE DEF R
<1>3. PICK h : Quotes(h, s, V, R) /\ \A n : Quote(s, R, V, n) = h[R][n]
  BY <1>1, QuoteIs
<1>4. g[R] = h[R]
  BY <1>1, <1>2, <1>3, QuotesUnique
<1>5. g[S][q] = [price |-> p * m + g[R][q - m].price, left |-> g[R][q - m].left]
  <2>1. g[S] = QuoteStep(g, s, V, S)
    BY <1>2 DEF Quotes
  <2>2. QuoteStep(g, s, V, S)[q] =
          [price |-> p * m + g[R][q - m].price, left |-> g[R][q - m].left]
    BY DEF QuoteStep, R
  <2> QED BY <2>1, <2>2
<1> QED BY <1>2, <1>3, <1>4, <1>5 DEF R

LEMMA QuoteSame ==
  ASSUME NEW s, NEW V, NEW W, NEW S, IsFiniteSet(S), S \subseteq Price, NEW q,
         \A p \in S : V[p] = W[p]
  PROVE  Quote(s, S, V, q) = Quote(s, S, W, q)
<1>1. PICK g : Quotes(g, s, V, S) /\ \A n : Quote(s, S, V, n) = g[S][n]
  BY QuoteIs
<1>2. PICK h : Quotes(h, s, W, S) /\ \A n : Quote(s, S, W, n) = h[S][n]
  BY QuoteIs
<1>3. g[S] = h[S]
  BY <1>1, <1>2, QuotesUnique
<1> QED BY <1>1, <1>2, <1>3

LEMMA QuoteType ==
  ASSUME NEW s, NEW V, NEW S, IsFiniteSet(S), S \subseteq Price,
         \A p \in S : V[p] \in Nat, NEW q \in Nat
  PROVE  Quote(s, S, V, q) \in [price : Nat, left : Nat]
<1> DEFINE F == {T \in SUBSET S : \A n \in Nat : Quote(s, T, V, n) \in [price : Nat, left : Nat]}
<1>1. ASSUME NEW T \in SUBSET S, \A U \in SUBSET T : U # T => U \in F, NEW n \in Nat
      PROVE  Quote(s, T, V, n) \in [price : Nat, left : Nat]
  <2>1. IsFiniteSet(T) /\ T \in SUBSET Price
    BY FS_Subset
  <2>2. CASE n = 0 \/ T = {}
    BY <2>1, <2>2, QuoteNothing
  <2>3. CASE n # 0 /\ T # {}
    <3> DEFINE p == Best(s, T)
               m == Part(V, p, n)
               R == T \ {p}
    <3>1. p \in T /\ p \in Nat /\ V[p] \in Nat
      BY <2>1, <2>3, BestIn, PriceAssumption
    <3>2. m \in Nat /\ n - m \in Nat
      BY <3>1 DEF Part
    <3>3. R \in F
      BY <1>1, <3>1
    <3>4. Quote(s, T, V, n) = [price |-> p * m + Quote(s, R, V, n - m).price,
                               left |-> Quote(s, R, V, n - m).left]
      BY <2>1, <2>3, QuoteBest
    <3> HIDE DEF p, m, R
    <3>5. Quote(s, R, V, n - m) \in [price : Nat, left : Nat]
      BY <3>2, <3>3
    <3>6. p * m \in Nat
      BY <3>1, <3>2
    <3> QED BY <3>4, <3>5, <3>6
  <2> QED BY <2>2, <2>3
<1>2. \A T \in SUBSET S : (\A U \in SUBSET T : U # T => U \in F) => T \in F
  BY <1>1
<1> HIDE DEF F
<1>3. S \in F
  BY <1>2, SubsetInduction
<1> QED BY <1>3 DEF F

(* The levels S with volumes V become R with volumes W when n units are    *)
(* executed at p, the best of them.                                        *)
Executes(s, S, V, R, W, p, n) ==
  /\ IsFiniteSet(S) /\ S \subseteq Price /\ p \in S /\ p = Best(s, S)
  /\ \A r \in S : V[r] \in Nat /\ W[r] \in Nat
  /\ \A r \in S : W[r] = IF r = p THEN V[p] - n ELSE V[r]
  /\ R = S \/ (R = S \ {p} /\ V[p] = n)

(* Executing n units at the best level makes the quote smaller by exactly  *)
(* what they cost.                                                         *)
LEMMA QuoteAfterTrade ==
  ASSUME NEW s, NEW S, NEW V, NEW R, NEW W, NEW p, NEW n \in Nat, NEW q \in Nat,
         Executes(s, S, V, R, W, p, n), n <= q, q # 0
  PROVE  Quote(s, S, V, q).price = p * n + Quote(s, R, W, q - n).price
<1> DEFINE S1 == S \ {p}
           m == Part(V, p, q)
<1> USE DEF Executes
<1>1. IsFiniteSet(S1) /\ S1 \subseteq Price /\ S1 \subseteq S
  BY FS_Subset
<1>2. /\ p \in Nat /\ V[p] \in Nat /\ W[p] \in Nat /\ W[p] = V[p] - n /\ n <= V[p]
      /\ m \in Nat /\ q - m \in Nat /\ q - n \in Nat
  BY PriceAssumption DEF Part
<1>3. Quote(s, S, V, q) = [price |-> p * m + Quote(s, S1, V, q - m).price,
                           left |-> Quote(s, S1, V, q - m).left]
  <2>1. S # {}
    OBVIOUS
  <2> PICK b : b = Best(s, S)
    OBVIOUS
  <2>2. Quote(s, S, V, q) =
          [price |-> b * Part(V, b, q) + Quote(s, S \ {b}, V, q - Part(V, b, q)).price,
           left |-> Quote(s, S \ {b}, V, q - Part(V, b, q)).left]
    BY <2>1, QuoteBest
  <2> QED BY <2>2
<1>4. \A k : Quote(s, S1, V, k) = Quote(s, S1, W, k)
  BY <1>1, QuoteSame
<1>5. \A k \in Nat : /\ Quote(s, S1, W, k).price \in Nat
                     /\ k = 0 => Quote(s, S1, W, k).price = 0
  <2> SUFFICES ASSUME NEW k \in Nat
               PROVE  /\ Quote(s, S1, W, k).price \in Nat
                      /\ k = 0 => Quote(s, S1, W, k).price = 0
    OBVIOUS
  <2>1. Quote(s, S1, W, k) \in [price : Nat, left : Nat]
    BY <1>1, QuoteType
  <2>2. k = 0 => Quote(s, S1, W, k) = [price |-> 0, left |-> k]
    BY <1>1, QuoteNothing
  <2> QED BY <2>1, <2>2
<1>6. CASE R = S1 /\ V[p] = n
  <2>1. m = n
    BY <1>2, <1>6 DEF Part
  <2> HIDE DEF S1, m
  <2>2. Quote(s, S1, V, q - m) = Quote(s, S1, W, q - n)
    BY <1>4, <2>1
  <2>3. Quote(s, S, V, q).price = p * m + Quote(s, S1, V, q - m).price
    BY <1>3
  <2> QED BY <1>6, <2>1, <2>2, <2>3
<1>7. CASE R = S
  <2> DEFINE k == Part(W, p, q - n)
  <2>1. k \in Nat /\ m = n + k /\ (q - n) - k = q - m
    BY <1>2 DEF Part
  <2>2. p * m = p * n + p * k
    BY <1>2, <2>1
  <2> HIDE DEF S1, m, k
  <2>3. CASE q - n = 0
    <3>1. Quote(s, S, W, q - n).price = 0
      <4>1. Quote(s, S, W, 0) = [price |-> 0, left |-> 0]
        BY QuoteNothing
      <4> QED BY <2>3, <4>1
    <3>2. q - m = 0 /\ m = n
      BY <1>2, <2>1, <2>3
    <3>3. p * n \in Nat
      BY <1>2
    <3> QED BY <1>2, <1>3, <1>4, <1>5, <1>7, <3>1, <3>2, <3>3
  <2>4. CASE q - n # 0
    <3>1. Quote(s, R, W, q - n).price = p * k + Quote(s, S1, W, (q - n) - k).price
      BY <1>2, <1>7, <2>4, QuoteBest DEF S1, k
    <3>2. p * n \in Nat /\ p * k \in Nat /\ Quote(s, S1, W, q - m).price \in Nat
      BY <1>2, <1>5, <2>1
    <3> QED BY <1>3, <1>4, <2>1, <2>2, <3>1, <3>2
  <2> QED BY <2>3, <2>4
<1> QED BY <1>6, <1>7 DEF S1

(* What rests at a level is not negative, and nothing without orders.      *)
LEMMA RestingNat ==
  ASSUME NEW o, IsFiniteSet(DOMAIN o), \A id \in DOMAIN o : o[id].quantity \in Nat,
         NEW s, NEW p
  PROVE  /\ RestingAt(o, s, p) \in Nat
         /\ (\A id \in DOMAIN o : ~(o[id].side = s /\ o[id].price = p))
              => RestingAt(o, s, p) = 0
<1> DEFINE A == {id \in DOMAIN o : o[id].side = s /\ o[id].price = p}
           f == [id \in DOMAIN o |-> o[id].quantity]
<1>1. IsFiniteSet(A) /\ \A x \in A : f[x] \in Nat
  BY FS_Subset
<1>2. RestingAt(o, s, p) = SumFunctionOnSet(f, A)
  BY DEF RestingAt
<1>3. (\A id \in DOMAIN o : ~(o[id].side = s /\ o[id].price = p)) => A = {}
  OBVIOUS
<1> HIDE DEF A, f
<1>4. SumFunctionOnSet(f, A) \in Int
  BY <1>1, SumType
<1>5. {} \subseteq A
  OBVIOUS
<1>6. SumFunctionOnSet(f, {}) <= SumFunctionOnSet(f, A)
  BY <1>1, <1>5, SumSubset
<1>7. SumFunctionOnSet(f, {}) = 0
  BY SumEmpty
<1> QED BY <1>2, <1>3, <1>4, <1>6, <1>7

(* An iteration takes from the best level what it takes from the taker.    *)
LEMMA IterationTakes ==
  ASSUME IInv, NEW p \in levels[Opposite(call.side)], pc = "matching", WithinLimit(p), left > 0,
         LET id == Head(queue[Opposite(call.side)][p])
         IN FillPartially(id) \/ FillWhole(id)
  PROVE  LET opp == Opposite(call.side)
             n == left - left'
         IN /\ p \in Price /\ opp \in Side /\ n \in Nat /\ n <= left /\ call' = call
            /\ totalPrice' = totalPrice + p * n
            /\ \A r \in Price :
                 levelVolume'[opp][r] = IF r = p THEN levelVolume[opp][r] - n
                                        ELSE levelVolume[opp][r]
            /\ levels'[opp] = levels[opp] \/ levels'[opp] = levels[opp] \ {p}
<1> DEFINE opp == Opposite(call.side)
           id == Head(queue[opp][p])
           n == left - left'
           Takes == /\ p \in Price /\ opp \in Side /\ n \in Nat /\ n <= left /\ call' = call
                    /\ totalPrice' = totalPrice + p * n
                    /\ \A r \in Price :
                         levelVolume'[opp][r] = IF r = p THEN levelVolume[opp][r] - n
                                                ELSE levelVolume[opp][r]
                    /\ levels'[opp] = levels[opp] \/ levels'[opp] = levels[opp] \ {p}
<1> SUFFICES Takes
  OBVIOUS
<1> HIDE DEF Takes
<1>1. /\ call.side \in Side /\ opp \in Side /\ left \in Nat
      /\ levels[opp] \subseteq Price /\ p \in Price
      /\ levels \in [Side -> SUBSET Price]
      /\ levelVolume \in [Side -> [Price -> Int]]
  BY OppositeSide, ZenonT(30) DEF IInv, CallOK, CallTypeOK, Call, BookOK, BookTypeOK
<1>2. /\ orders[id] \in Order /\ orders[id].side = opp /\ orders[id].price = p
      /\ orders[id].quantity \in Nat \ {0}
  BY MakerFacts DEF IInv
<1> HIDE DEF id, opp
<1>3. CASE FillPartially(id)
  <2>1. /\ left' = 0 /\ call' = call /\ levels' = levels
        /\ totalPrice' = totalPrice + p * left
        /\ levelVolume' = [levelVolume EXCEPT ![opp][p] =
                             @ - orders[id].quantity + (orders[id].quantity - left)]
    BY <1>2, <1>3 DEF FillPartially, QueueUpdate
  <2>2. n = left
    BY <1>1, <2>1
  <2>3. \A r \in Price :
          levelVolume'[opp][r] = IF r = p THEN levelVolume[opp][r] - n ELSE levelVolume[opp][r]
    BY <1>1, <1>2, <2>1, <2>2
  <2>4. n \in Nat /\ n <= left /\ totalPrice' = totalPrice + p * n
    BY <1>1, <2>1, <2>2
  <2> HIDE DEF n
  <2> QED BY <1>1, <2>1, <2>3, <2>4, ZenonT(30) DEF Takes
<1>4. CASE FillWhole(id)
  <2>1. /\ left >= orders[id].quantity /\ left' = left - orders[id].quantity /\ call' = call
        /\ totalPrice' = totalPrice + p * orders[id].quantity
        /\ levelVolume' = [levelVolume EXCEPT ![opp][p] = @ - orders[id].quantity]
        /\ \/ levels' = levels
           \/ levels' = [levels EXCEPT ![opp] = @ \ {p}]
    BY <1>2, <1>4 DEF FillWhole, BookRemove
  <2>2. n = orders[id].quantity
    BY <1>1, <1>2, <2>1
  <2>3. \A r \in Price :
          levelVolume'[opp][r] = IF r = p THEN levelVolume[opp][r] - n ELSE levelVolume[opp][r]
    BY <1>1, <1>2, <2>1, <2>2
  <2>4. levels'[opp] = levels[opp] \/ levels'[opp] = levels[opp] \ {p}
    BY <1>1, <2>1
  <2>5. n \in Nat /\ n <= left /\ totalPrice' = totalPrice + p * n
    BY <1>1, <1>2, <2>1, <2>2
  <2> HIDE DEF n
  <2> QED BY <1>1, <2>1, <2>3, <2>4, <2>5, ZenonT(30) DEF Takes
<1> QED BY <1>3, <1>4 DEF id, opp

LEMMA QuotingTrade ==
  ASSUME IInv, IInv', MatchHead
  PROVE  totalPrice + CalculateMarketPrice(call.side, left).price
           = totalPrice' + CalculateMarketPrice(call.side, left)'.price
<1> DEFINE opp == Opposite(call.side)
           n == left - left'
           S == levels[opp]
           R == levels'[opp]
           V == levelVolume[opp]
           W == levelVolume'[opp]
<1>1. PICK p \in levels[opp] :
        /\ pc = "matching" /\ left > 0 /\ IsBest(opp, p) /\ WithinLimit(p)
        /\ FillPartially(Head(queue[opp][p])) \/ FillWhole(Head(queue[opp][p]))
  BY DEF MatchHead, Matchable
<1>2. /\ p \in Price /\ opp \in Side /\ n \in Nat /\ n <= left /\ call' = call
      /\ totalPrice' = totalPrice + p * n
      /\ \A r \in Price : W[r] = IF r = p THEN V[r] - n ELSE V[r]
      /\ R = S \/ R = S \ {p}
  BY <1>1, IterationTakes
<1>3. /\ S \in SUBSET Price /\ IsFiniteSet(S) /\ left \in Nat /\ left # 0 /\ p \in S
      /\ totalPrice \in Nat /\ totalPrice' \in Nat /\ left' \in Nat
  <2>1. S \in SUBSET Price /\ IsFiniteSet(S)
    BY <1>2 DEF IInv, BookOK, BookTypeOK, BookFinite
  <2>2. left \in Nat /\ totalPrice \in Nat /\ totalPrice' \in Nat /\ left' \in Nat
    BY DEF IInv, CallOK, CallTypeOK
  <2> QED BY <1>1, <2>1, <2>2
<1>4. p = Best(opp, S)
  <2>1. Best(opp, S) \in S
        /\ \A r \in S : IF opp = "sell" THEN Best(opp, S) <= r ELSE r <= Best(opp, S)
    BY <1>3, BestIn
  <2>2. \A r \in S : IF opp = "sell" THEN p <= r ELSE r <= p
    BY <1>1 DEF IsBest
  <2>3. p \in Nat /\ Best(opp, S) \in Nat
    BY <1>3, <2>1, PriceAssumption
  <2> QED BY <1>3, <2>1, <2>2, <2>3
<1>5. PICK o : o = orders'
  OBVIOUS
<1>6. \A r \in Price : V[r] \in Nat /\ W[r] \in Nat
  <2>1. IsFiniteSet(DOMAIN orders) /\ \A id \in DOMAIN orders : orders[id].quantity \in Nat
    BY DEF IInv, BookOK, BookFinite, BookTypeOK, Order
  <2>2. IsFiniteSet(DOMAIN o) /\ \A id \in DOMAIN o : o[id].quantity \in Nat
    BY <1>5 DEF IInv, BookOK, BookFinite, BookTypeOK, Order
  <2>3. \A r \in Price : RestingAt(orders, opp, r) \in Nat /\ RestingAt(o, opp, r) \in Nat
    BY <2>1, <2>2, RestingNat
  <2>4. \A r \in Price : V[r] = RestingAt(orders, opp, r) /\ W[r] = RestingAt(o, opp, r)
    BY <1>2, <1>5 DEF IInv, BookOK, VolumesOfResting, RestingAt
  <2> QED BY <2>3, <2>4
<1>7. R = S \ {p} => V[p] = n
  <2> SUFFICES ASSUME p \notin R PROVE W[p] = 0
    BY <1>2, <1>6
  <2>1. queue'[opp][p] = <<>>
    BY <1>2 DEF IInv, BookOK, CountersExact, LevelsExact
  <2>2. \A id \in DOMAIN o : ~(o[id].side = opp /\ o[id].price = p)
    BY <1>5, <2>1 DEF IInv, BookOK, IndexConsistent
  <2>3. IsFiniteSet(DOMAIN o) /\ \A id \in DOMAIN o : o[id].quantity \in Nat
    BY <1>5 DEF IInv, BookOK, BookFinite, BookTypeOK, Order
  <2>4. RestingAt(o, opp, p) = 0
    BY <2>2, <2>3, RestingNat
  <2> QED BY <1>2, <1>5, <2>4 DEF IInv, BookOK, VolumesOfResting, RestingAt
<1>8. CalculateMarketPrice(call.side, left) = Quote(opp, S, V, left)
  BY DEF CalculateMarketPrice, Quote, Taken
<1>9. CalculateMarketPrice(call.side, left)' = Quote(opp, R, W, left - n)
  <2>1. \A x, y \in Nat : x - (x - y) = y
    OBVIOUS
  <2>2. left - n = left'
    BY <1>3, <2>1
  <2>3. CalculateMarketPrice(call.side, left)' = Quote(opp, R, W, left')
    BY <1>2 DEF CalculateMarketPrice, Quote, Taken
  <2> QED BY <2>2, <2>3
<1>10. PICK a, b, v, w : a = S /\ b = R /\ v = V /\ w = W
  OBVIOUS
<1> HIDE DEF opp, n, S, R, V, W
<1>11. Quote(opp, a, v, left).price = p * n + Quote(opp, b, w, left - n).price
  <2> PICK x, y, s : x = left /\ y = n /\ s = opp
    OBVIOUS
  <2>1. \A r \in a : v[r] \in Nat /\ w[r] \in Nat
    BY <1>3, <1>6, <1>10
  <2>2. \A r \in a : w[r] = IF r = p THEN v[p] - y ELSE v[r]
    BY <1>2, <1>3, <1>10
  <2>3. IsFiniteSet(a) /\ a \subseteq Price /\ p \in a /\ p = Best(s, a)
    BY <1>3, <1>4, <1>10
  <2>4. Executes(s, a, v, b, w, p, y)
    BY <1>2, <1>7, <1>10, <2>1, <2>2, <2>3 DEF Executes
  <2>5. x \in Nat /\ y \in Nat /\ y <= x /\ x # 0
    BY <1>2, <1>3
  <2>6. Quote(s, a, v, x).price = p * y + Quote(s, b, w, x - y).price
    BY <2>4, <2>5, QuoteAfterTrade
  <2> QED BY <2>6
<1>12. Quote(opp, b, w, left - n).price \in Nat
  <2>1. IsFiniteSet(b) /\ b \subseteq Price
    BY <1>2, <1>3, <1>10, FS_Subset
  <2>2. \A r \in b : w[r] \in Nat
    BY <1>6, <1>10, <2>1
  <2>3. left - n \in Nat
    BY <1>2, <1>3
  <2>4. Quote(opp, b, w, left - n) \in [price : Nat, left : Nat]
    BY <2>1, <2>2, <2>3, QuoteType
  <2> QED BY <2>4
<1>13. p * n \in Nat
  BY <1>2, PriceAssumption
<1> QED BY <1>2, <1>3, <1>8, <1>9, <1>10, <1>11, <1>12, <1>13

(* A market order returns when it is used up or the other side is empty.   *)
LEMMA QuotingReturn ==
  ASSUME IInv, ReturnMarket
  PROVE  CalculateMarketPrice(call.side, left).left = left
<1> DEFINE opp == Opposite(call.side)
<1>1. /\ opp \in Side /\ left \in Nat
      /\ levels[opp] \in SUBSET Price /\ IsFiniteSet(levels[opp])
  BY OppositeSide DEF IInv, BookOK, BookTypeOK, BookFinite, CallOK, CallTypeOK, Call
<1>2. left = 0 \/ levels[opp] = {}
  <2> SUFFICES ASSUME left # 0, levels[opp] # {} PROVE CanMatch
    BY DEF ReturnMarket
  <2>1. numOrders[opp] > 0 /\ \E p \in levels[opp] : IsBest(opp, p)
    BY <1>1, BestExists DEF IInv
  <2> QED BY <1>1, <2>1 DEF CanMatch, Matchable, WithinLimit, ReturnMarket
<1>3. CalculateMarketPrice(call.side, left) = Quote(opp, levels[opp], levelVolume[opp], left)
  BY DEF CalculateMarketPrice, Quote, Taken
<1>4. Quote(opp, levels[opp], levelVolume[opp], left) = [price |-> 0, left |-> left]
  BY <1>1, <1>2, QuoteNothing
<1> QED BY <1>3, <1>4

(* A market order pays what CalculateMarketPrice quotes for it when it     *)
(* comes, which walks the volumes of levels and not their orders, and      *)
(* returns with what the quote could not price: every step keeps what is   *)
(* paid and the quote for the rest together.                               *)
THEOREM QuotesHold == Spec => QuoteHolds
<1> DEFINE Quoted ==
             pc = "matching" /\ call.kind = "market" =>
               /\ totalPrice + CalculateMarketPrice(call.side, left).price
                    = totalPrice' + CalculateMarketPrice(call.side, left)'.price
               /\ pc' = "returned" => left = CalculateMarketPrice(call.side, left).left
<1>1. ASSUME IInv, IInv', [Next]_vars, pc = "matching", call.kind = "market"
      PROVE  Quoted
  <2>1. CASE MatchHead
    <3>1. pc' = pc
      BY <2>1 DEF MatchHead, FillPartially, FillWhole
    <3> QED BY <1>1, <2>1, <3>1, QuotingTrade
  <2>2. CASE ReturnMarket
    <3>1. UNCHANGED <<levels, levelVolume, call, left, totalPrice>>
      BY <2>2 DEF ReturnMarket, book, results
    <3>2. CalculateMarketPrice(call.side, left)' = CalculateMarketPrice(call.side, left)
      BY <3>1 DEF CalculateMarketPrice, Taken
    <3> QED BY <1>1, <2>2, <3>1, <3>2, QuotingReturn
  <2>3. CASE UNCHANGED vars
    <3>1. UNCHANGED <<levels, levelVolume, call, left, totalPrice, pc>>
      BY <2>3 DEF vars, book, callVars, results
    <3>2. CalculateMarketPrice(call.side, left)' = CalculateMarketPrice(call.side, left)
      BY <3>1 DEF CalculateMarketPrice, Taken
    <3> QED BY <1>1, <3>1, <3>2
  <2>4. MatchHead \/ ReturnMarket \/ UNCHANGED vars
    <3>1. /\ ~\E id \in OrderID, s \in Side, q \in Quantity \cup {0}, p \in Price \cup {0} :
               ProcessLimitOrder(id, s, q, p)
          /\ ~\E s \in Side, q \in Quantity \cup {0} : ProcessMarketOrder(s, q)
          /\ ~\E id \in OrderID : CancelOrder(id)
      BY <1>1 DEF ProcessLimitOrder, ProcessMarketOrder, Enter, CancelOrder
    <3>2. ~Reload /\ ~RestRemainder /\ ~ReportTaker /\ ~Return
      BY <1>1 DEF Reload, RestRemainder, ReportTaker, Return
    <3> QED BY <1>1, <3>1, <3>2 DEF Next, Step
  <2> QED BY <2>1, <2>2, <2>3, <2>4
<1>2. IInv /\ IInv' /\ [Next]_vars => [Quoted]_vars
  BY <1>1
<1>3. QED
  BY <1>2, Invariance, PTL DEF Spec, QuoteHolds

(* Every step that leaves a call in its loop executes something of the     *)
(* incoming order, so a call iterates at most as often as it has units: no *)
(* queue, level or order can keep the loop running for nothing (why        *)
(* CallReturns holds for books of any size).                               *)
THEOREM IterationsEnd ==
  Spec => [][pc = "matching" /\ pc' = "matching" => left' \in Nat /\ left' < left]_vars
<1> DEFINE Shrinks == pc = "matching" /\ pc' = "matching" => left' \in Nat /\ left' < left
<1>1. ASSUME IInv, IInv', Next, pc = "matching", pc' = "matching"
      PROVE  left' \in Nat /\ left' < left
  <2>1. MatchHead
    BY <1>1 DEF Next, Step, ProcessLimitOrder, ProcessMarketOrder, Enter, CancelOrder, Reload,
       RestRemainder, ReportTaker, ReturnMarket, Return
  <2>2. PICK p \in levels[Opposite(call.side)] :
          /\ left > 0 /\ WithinLimit(p)
          /\ LET id == Head(queue[Opposite(call.side)][p])
             IN FillPartially(id) \/ FillWhole(id)
    BY <2>1, SMTT(30) DEF MatchHead, Matchable
  <2> DEFINE id == Head(queue[Opposite(call.side)][p])
  <2>3. orders[id].quantity \in Nat \ {0}
    BY <1>1, <2>2, MakerFacts DEF IInv
  <2>4. left \in Nat /\ left' \in Nat
    BY <1>1 DEF IInv, CallOK, CallTypeOK
  <2> HIDE DEF id
  <2>5. left' = 0 \/ left' = left - orders[id].quantity
    BY <2>2 DEF FillPartially, FillWhole, id
  <2> QED BY <2>2, <2>3, <2>4, <2>5
<1>2. IInv /\ IInv' /\ [Next]_vars => [Shrinks]_vars
  BY <1>1
<1> QED BY <1>2, Invariance, PTL DEF Spec

----------------------------------------------------------------------------
(***************************************************************************)
(* The book implements PriceTimeBook, step by step and for all sets of     *)
(* ids, prices and quantities.  The queues, levels and counters that make  *)
(* up the book are not visible in PriceTimeBook: that the loop looks at    *)
(* the right order, and stops at the right time, follows from the          *)
(* invariant above.                                                        *)
(***************************************************************************)

(* What the promise sees of a book that is in the middle of a call.        *)
LEMMA CrossingOrders ==
  ASSUME IInv, pc = "matching"
  PROVE  Promise!Crossing = {id \in DOMAIN orders :
                               /\ orders[id].side = Opposite(call.side)
                               /\ WithinLimit(orders[id].price)}
<1>1. call.kind # "none" /\ call.side \in Side
  BY DEF IInv, CallOK, CallTypeOK, Call, ArgumentsValid
<1>2. ASSUME NEW id \in DOMAIN orders
      PROVE  Promise!Crosses(orders[id]) <=>
               /\ orders[id].side = Opposite(call.side)
               /\ WithinLimit(orders[id].price)
  <2>1. orders[id].side \in Side
    BY <1>2 DEF IInv, BookOK, BookTypeOK, Order
  <2>2. orders[id].side # call.side <=> orders[id].side = Opposite(call.side)
    BY <1>1, <2>1 DEF Side, Opposite
  <2>3. /\ call.price >= orders[id].price <=> orders[id].price <= call.price
        /\ call.price <= orders[id].price <=> orders[id].price >= call.price
    OBVIOUS
  <2> QED BY <1>1, <2>2, <2>3 DEF Promise!Crosses, WithinLimit
<1> QED BY <1>2 DEF Promise!Crossing

(* A crossing order has a place in the queue of its price, at an open level*)
LEMMA CrossingQueued ==
  ASSUME IInv, pc = "matching", NEW id \in Promise!Crossing
  PROVE  LET opp == Opposite(call.side)
             p == orders[id].price
         IN /\ id \in DOMAIN orders
            /\ p \in levels[opp]
            /\ p \in Price
            /\ WithinLimit(p)
            /\ \E j \in DOMAIN queue[opp][p] : queue[opp][p][j] = id
<1> DEFINE opp == Opposite(call.side)
           p == orders[id].price
<1>1. id \in DOMAIN orders /\ orders[id].side = opp /\ WithinLimit(p)
  BY CrossingOrders
<1>2. call.side \in Side /\ opp \in Side /\ p \in Price
  BY <1>1, OppositeSide DEF IInv, BookOK, BookTypeOK, Order, CallOK, CallTypeOK, Call
<1>3. PICK j \in DOMAIN queue[opp][p] : queue[opp][p][j] = id
  BY <1>1 DEF IInv, BookOK, IndexConsistent
<1>4. queue[opp][p] # <<>>
  BY <1>3
<1>5. p \in levels[opp]
  BY <1>2, <1>4 DEF IInv, BookOK, CountersExact, LevelsExact
<1> QED BY <1>1, <1>2, <1>3, <1>5

(* The head of the level the loop looks at is the crossing order that      *)
(* precedes all others: no level is better, and in its own level every     *)
(* other order came later.                                                 *)
LEMMA HeadPrecedes ==
  ASSUME IInv, pc = "matching",
         NEW p \in levels[Opposite(call.side)], Matchable(p)
  PROVE  LET id == Head(queue[Opposite(call.side)][p])
         IN /\ id \in Promise!Crossing
            /\ \A r \in Promise!Crossing \ {id} :
                  Promise!Precedes(orders[id], orders[r])
<1> DEFINE opp == Opposite(call.side)
           id == Head(queue[opp][p])
<1>1. call.side \in Side /\ opp \in Side
  BY OppositeSide DEF IInv, CallOK, CallTypeOK, Call
<1>2. /\ p \in Price
      /\ queue[opp][p] \in Seq(OrderID)
      /\ 1 \in DOMAIN queue[opp][p]
      /\ id = queue[opp][p][1]
      /\ id \in DOMAIN orders
      /\ orders[id].side = opp
      /\ orders[id].price = p
  BY <1>1, LevelHead DEF IInv, BookOK, CountersExact
<1>3. id \in Promise!Crossing
  BY <1>2, CrossingOrders DEF Matchable
<1>4. ASSUME NEW r \in Promise!Crossing \ {id}
      PROVE  Promise!Precedes(orders[id], orders[r])
  <2> DEFINE v == orders[r].price
  <2>1. v \in levels[opp] /\ v \in Price
    BY <1>4, CrossingQueued
  <2>2. p \in Nat /\ v \in Nat
    BY <1>2, <2>1, PriceAssumption
  <2>3. IF opp = "sell" THEN p <= v ELSE v <= p
    BY <2>1 DEF Matchable, IsBest
  <2>4. CASE p # v
    BY <1>2, <2>2, <2>3, <2>4 DEF Promise!Precedes
  <2>5. CASE p = v
    <3>1. PICK j \in DOMAIN queue[opp][p] : queue[opp][p][j] = r
      BY <1>4, <2>5, CrossingQueued
    <3>2. j # 1
      BY <1>2, <1>4, <3>1
    <3>3. 1 < j
      BY <1>2, <3>1, <3>2, LenProperties
    <3>4. orders[id].time < orders[r].time
      BY <1>1, <1>2, <3>1, <3>3 DEF IInv, BookOK, QueueInTimeOrder
    <3> QED BY <1>2, <2>5, <3>4 DEF Promise!Precedes
  <2> QED BY <2>4, <2>5
<1> QED BY <1>3, <1>4

(* The loop does not end early: when it ends with something left, nothing  *)
(* crosses.  If an order did, its level would be open, and the best level  *)
(* of that side, at least as good, would be within the limit.              *)
LEMMA NothingCrosses ==
  ASSUME IInv, pc = "matching", left > 0, ~CanMatch
  PROVE  Promise!Crossing = {}
<1> SUFFICES ASSUME NEW r \in Promise!Crossing PROVE FALSE
  OBVIOUS
<1> DEFINE opp == Opposite(call.side)
           v == orders[r].price
<1>1. /\ call.side \in Side /\ opp \in Side /\ call.price \in Nat
      /\ opp = IF call.side = "buy" THEN "sell" ELSE "buy"
  BY OppositeSide DEF IInv, CallOK, CallTypeOK, Call, Opposite
<1>2. v \in levels[opp] /\ v \in Price /\ WithinLimit(v)
  BY CrossingQueued
<1>3. numOrders[opp] > 0
  BY <1>1, <1>2, BestExists DEF IInv
<1>4. PICK p \in levels[opp] : IsBest(opp, p)
  BY <1>1, <1>2, BestExists DEF IInv
<1>5. p \in Nat /\ v \in Nat
  BY <1>1, <1>2, PriceAssumption DEF IInv, BookOK, BookTypeOK
<1>6. IF opp = "sell" THEN p <= v ELSE v <= p
  BY <1>2, <1>4 DEF IsBest
<1>7. WithinLimit(p)
  BY <1>1, <1>2, <1>5, <1>6 DEF WithinLimit, Side
<1>8. Matchable(p)
  BY <1>3, <1>4, <1>7 DEF Matchable
<1> QED BY <1>4, <1>8 DEF CanMatch

----------------------------------------------------------------------------
(* The steps of the book as steps of the promise.                          *)
LEMMA LimitOrderArrives ==
  ASSUME IInv, NEW id \in OrderID, NEW s \in Side, NEW q \in Quantity \cup {0},
         NEW p \in Price \cup {0}, ProcessLimitOrder(id, s, q, p)
  PROVE  [Promise!Next]_(Promise!vars)
<1> DEFINE c == [kind |-> "limit", id |-> id, side |-> s, quantity |-> q, price |-> p]
           e == LimitError(id, q, p)
<1>1. /\ pc = "idle" /\ call' = c /\ clock < MaxArrivals
      /\ pc' = IF e = "none" THEN "matching" ELSE "returned"
      /\ left' = IF e = "none" THEN c.quantity ELSE 0
      /\ orders' = orders /\ clock' = clock
  BY DEF ProcessLimitOrder, Enter, book
<1>2. CASE e = "none"
  <2>1. id \notin DOMAIN orders /\ q \in Quantity /\ p \in Price
    BY <1>2 DEF LimitError
  <2>2. Promise!Arrive("limit", id, s, q, p)
    BY <1>1, <1>2, <2>1 DEF Promise!Arrive, Promise!NoTaker, NoCall
  <2> QED BY <2>1, <2>2 DEF Promise!Next, Promise!Side, Side
<1>3. CASE e # "none"
  BY <1>1, <1>3 DEF Promise!vars
<1> QED BY <1>2, <1>3

LEMMA MarketOrderArrives ==
  ASSUME IInv, NEW s \in Side, NEW q \in Quantity \cup {0}, ProcessMarketOrder(s, q)
  PROVE  [Promise!Next]_(Promise!vars)
<1> DEFINE c == [kind |-> "market", id |-> nil, side |-> s, quantity |-> q, price |-> 0]
           e == MarketError(q)
<1>1. /\ pc = "idle" /\ call' = c
      /\ pc' = IF e = "none" THEN "matching" ELSE "returned"
      /\ left' = IF e = "none" THEN c.quantity ELSE 0
      /\ orders' = orders /\ clock' = clock
  BY DEF ProcessMarketOrder, Enter, book
<1>2. CASE e = "none"
  <2>1. q \in Quantity
    BY <1>2 DEF MarketError
  <2>2. Promise!Arrive("market", nil, s, q, 0)
    BY <1>1, <1>2 DEF Promise!Arrive, Promise!NoTaker, NoCall
  <2> QED BY <2>1, <2>2 DEF Promise!Next, Promise!Side, Side
<1>3. CASE e # "none"
  BY <1>1, <1>3 DEF Promise!vars
<1> QED BY <1>2, <1>3

(* An iteration is a trade with the order that has priority.               *)
LEMMA IterationTrades ==
  ASSUME IInv, MatchHead
  PROVE  Promise!Trade
<1>1. pc = "matching"
  BY DEF MatchHead
<1>2. PICK p \in levels[Opposite(call.side)] :
        /\ Matchable(p)
        /\ \/ FillPartially(Head(queue[Opposite(call.side)][p]))
           \/ FillWhole(Head(queue[Opposite(call.side)][p]))
  BY DEF MatchHead
<1> DEFINE id == Head(queue[Opposite(call.side)][p])
<1>3. /\ id \in Promise!Crossing
      /\ \A r \in Promise!Crossing \ {id} : Promise!Precedes(orders[id], orders[r])
  BY <1>1, <1>2, HeadPrecedes
<1>4. left \in Nat /\ left > 0
  BY <1>2, SMTT(30) DEF Matchable, IInv, CallOK, CallTypeOK
<1>5. id \in DOMAIN orders /\ orders[id].quantity \in Nat
  BY <1>1, <1>2, MakerFacts DEF Matchable, IInv
<1> HIDE DEF id
<1>6. CASE FillPartially(id)
  <2>1. /\ left < orders[id].quantity
        /\ orders' = [orders EXCEPT ![id].quantity = orders[id].quantity - left]
        /\ left' = 0 /\ pc' = pc /\ call' = call /\ clock' = clock
    BY <1>6 DEF FillPartially, QueueUpdate
  <2>2. orders' = [orders EXCEPT ![id].quantity = @ - left]
    BY <2>1
  <2> QED BY <1>1, <1>3, <1>4, <2>1, <2>2 DEF Promise!Trade
<1>7. CASE FillWhole(id)
  <2>1. /\ left >= orders[id].quantity
        /\ orders' = [j \in DOMAIN orders \ {id} |-> orders[j]]
        /\ left' = left - orders[id].quantity
        /\ pc' = pc /\ call' = call /\ clock' = clock
    BY <1>7 DEF FillWhole, BookRemove
  <2>2. ~(left < orders[id].quantity)
    BY <1>4, <1>5, <2>1
  <2> QED BY <1>1, <1>3, <1>4, <2>1, <2>2 DEF Promise!Trade
<1> QED BY <1>2, <1>6, <1>7 DEF id

LEMMA RemainderRests ==
  ASSUME IInv, RestRemainder
  PROVE  Promise!Rest
<1>1. /\ pc = "matching" /\ call.kind = "limit" /\ left > 0 /\ ~CanMatch
      /\ SideAppend(call.id, Remainder)
      /\ clock' = clock + 1 /\ pc' = "returned"
  BY DEF RestRemainder
<1>2. Promise!Crossing = {}
  BY <1>1, NothingCrosses
<1>3. orders' = [id \in DOMAIN orders \cup {call.id} |->
                   IF id = call.id
                   THEN [side |-> call.side, quantity |-> left,
                         price |-> call.price, time |-> clock]
                   ELSE orders[id]]
  BY <1>1 DEF SideAppend, Remainder
<1> QED BY <1>1, <1>2, <1>3 DEF Promise!Rest, Promise!NoTaker, NoCall

(* An executed limit order leaves; a market order leaves when it is        *)
(* executed or nothing is left on the other side.                          *)
LEMMA TakerLeaves ==
  ASSUME IInv, ReportTaker \/ ReturnMarket
  PROVE  Promise!Leave
<1>1. /\ pc = "matching" /\ pc' = "returned" /\ ~CanMatch
      /\ orders' = orders /\ clock' = clock
      /\ left = 0 \/ call.kind = "market"
  BY DEF ReportTaker, ReturnMarket, book
<1>2. call # NoCall
  BY <1>1 DEF IInv, CallOK, ArgumentsValid, NoCall
<1>3. left = 0 \/ left > 0
  BY DEF IInv, CallOK, CallTypeOK
<1>4. left = 0 \/ (call.kind = "market" /\ Promise!Crossing = {})
  BY <1>1, <1>3, NothingCrosses
<1> QED BY <1>1, <1>2, <1>4 DEF Promise!Leave, Promise!NoTaker, NoCall

LEMMA CancelCancels ==
  ASSUME IInv, NEW id \in OrderID, CancelOrder(id)
  PROVE  Promise!Next
<1>1. /\ pc = "idle" /\ pc' = pc /\ id \in DOMAIN orders
      /\ orders' = [j \in DOMAIN orders \ {id} |-> orders[j]]
      /\ UNCHANGED <<clock, call, left>>
  BY DEF CancelOrder, BookRemove, callVars
<1>2. Promise!Cancel(id)
  BY <1>1 DEF Promise!Cancel, Promise!NoTaker, NoCall
<1> QED BY <1>1, <1>2 DEF Promise!Next

LEMMA InitPromised ==
  ASSUME Init
  PROVE  Promise!Init
BY DEF Init, Promise!Init, Promise!NoTaker, NoCall

(* A step of the book is one of the promised book, or none.                *)
LEMMA StepKeepsPromise ==
  ASSUME IInv, [Next]_vars
  PROVE  [Promise!Next]_(Promise!vars)
<1>1. ASSUME NEW id \in OrderID, NEW s \in Side, NEW q \in Quantity \cup {0},
             NEW p \in Price \cup {0}, ProcessLimitOrder(id, s, q, p)
      PROVE  [Promise!Next]_(Promise!vars)
  BY <1>1, LimitOrderArrives
<1>2. ASSUME NEW s \in Side, NEW q \in Quantity \cup {0}, ProcessMarketOrder(s, q)
      PROVE  [Promise!Next]_(Promise!vars)
  BY <1>2, MarketOrderArrives
<1>3. ASSUME NEW id \in OrderID, CancelOrder(id)
      PROVE  [Promise!Next]_(Promise!vars)
  BY <1>3, CancelCancels
<1>4. CASE Reload
  <2>1. orders' = orders
    BY <1>4, ReloadKeepsOrders DEF IInv
  <2>2. UNCHANGED <<clock, pc, call, left>>
    BY <1>4 DEF Reload, callVars
  <2> QED BY <2>1, <2>2 DEF Promise!vars
<1>5. CASE MatchHead
  BY <1>5, IterationTrades DEF Promise!Next
<1>6. CASE RestRemainder
  BY <1>6, RemainderRests DEF Promise!Next
<1>7. CASE ReportTaker \/ ReturnMarket
  BY <1>7, TakerLeaves DEF Promise!Next
<1>8. CASE Return
  BY <1>8 DEF Return, book, Promise!vars
<1>9. CASE UNCHANGED vars
  BY <1>9 DEF vars, book, callVars, Promise!vars
<1> QED BY <1>1, <1>2, <1>3, <1>4, <1>5, <1>6, <1>7, <1>8, <1>9 DEF Next, Step

(* Whatever the book does keeps the promise of price-time priority: an     *)
(* order trades with the crossing order of the best price and, at that     *)
(* price, the earliest, trades on until it is used up or nothing crosses,  *)
(* and only then rests (the safety part of PriceTimePriority).             *)
THEOREM KeepsPriority == Spec => Promise!Init /\ [][Promise!Next]_(Promise!vars)
<1>1. Init => Promise!Init
  BY InitPromised
<1>2. IInv /\ [Next]_vars => [Promise!Next]_(Promise!vars)
  BY StepKeepsPromise
<1> QED BY <1>1, <1>2, Invariance, PTL DEF Spec
=============================================================================
