-------------------------- MODULE SettlementProofs --------------------------
(***************************************************************************)
(* Theorems about Settlement, for any number of orders, makers, faults and *)
(* any capacity of the channels.                                           *)
(*                                                                         *)
(* What a property says of several queues is said here of their            *)
(* concatenation: a step of the pipeline leaves that as it is, appends to  *)
(* it or drops a piece of it, and none of the three disturbs an order.     *)
(***************************************************************************)
EXTENDS Settlement, SequenceTheorems, FiniteSetTheorems, TLAPS

----------------------------------------------------------------------------
(* Sequences.                                                              *)

LEMMA ConcatThree ==
  ASSUME NEW S, NEW a \in Seq(S), NEW b \in Seq(S), NEW c \in Seq(S)
  PROVE  /\ Len(a) \in Nat /\ Len(b) \in Nat /\ Len(c) \in Nat
         /\ a \o b \o c \in Seq(S)
         /\ Len(a \o b \o c) = Len(a) + Len(b) + Len(c)
         /\ DOMAIN (a \o b \o c) = 1..(Len(a) + Len(b) + Len(c))
         /\ \A i \in 1..(Len(a) + Len(b) + Len(c)) : (a \o b \o c)[i] =
              IF i <= Len(a) THEN a[i]
              ELSE IF i <= Len(a) + Len(b) THEN b[i - Len(a)]
              ELSE c[i - (Len(a) + Len(b))]
<1>1. Len(a) \in Nat /\ Len(b) \in Nat /\ Len(c) \in Nat
  BY LenProperties
<1>2. /\ a \o b \in Seq(S)
      /\ Len(a \o b) = Len(a) + Len(b)
      /\ \A i \in 1..(Len(a) + Len(b)) :
           (a \o b)[i] = IF i <= Len(a) THEN a[i] ELSE b[i - Len(a)]
  BY ConcatProperties
<1>3. /\ a \o b \o c \in Seq(S)
      /\ Len(a \o b \o c) = Len(a \o b) + Len(c)
      /\ \A i \in 1..(Len(a \o b) + Len(c)) : (a \o b \o c)[i] =
           IF i <= Len(a \o b) THEN (a \o b)[i] ELSE c[i - Len(a \o b)]
  BY <1>2, ConcatProperties
<1>4. DOMAIN (a \o b \o c) = 1..Len(a \o b \o c)
  BY <1>3, LenProperties
<1>5. QED
  BY <1>1, <1>2, <1>3, <1>4

(* A sequence without a piece of it has the same elements, in the same     *)
(* order.                                                                  *)
Within(f, t, s) ==
  /\ f \in [DOMAIN t -> DOMAIN s]
  /\ \A i \in DOMAIN t : t[i] = s[f[i]]
  /\ \A i, j \in DOMAIN t : i < j => f[i] < f[j]

LEMMA PieceDropped ==
  ASSUME NEW S, NEW a \in Seq(S), NEW b \in Seq(S), NEW c \in Seq(S)
  PROVE  \E f : Within(f, a \o c, a \o b \o c)
<1> DEFINE s == a \o b \o c
           t == a \o c
           At(i) == IF i <= Len(a) THEN i ELSE i + Len(b)
<1>1. /\ Len(a) \in Nat /\ Len(b) \in Nat /\ Len(c) \in Nat
      /\ DOMAIN s = 1..(Len(a) + Len(b) + Len(c))
      /\ \A i \in 1..(Len(a) + Len(b) + Len(c)) : s[i] =
              IF i <= Len(a) THEN a[i]
              ELSE IF i <= Len(a) + Len(b) THEN b[i - Len(a)]
              ELSE c[i - (Len(a) + Len(b))]
  BY ConcatThree
<1>2. /\ DOMAIN t = 1..(Len(a) + Len(c))
      /\ \A i \in 1..(Len(a) + Len(c)) :
           t[i] = IF i <= Len(a) THEN a[i] ELSE c[i - Len(a)]
  BY <1>1, ConcatProperties, LenProperties
<1> HIDE DEF s, t
<1>3. ASSUME NEW i \in DOMAIN t
      PROVE  At(i) \in DOMAIN s /\ t[i] = s[At(i)]
  <2>1. CASE i <= Len(a)
    BY <1>1, <1>2, <2>1
  <2>2. CASE i > Len(a)
    <3>1. /\ i \in Nat /\ ~(i <= Len(a))
          /\ i + Len(b) \in DOMAIN s
          /\ i + Len(b) \in 1..(Len(a) + Len(b) + Len(c))
          /\ ~(i + Len(b) <= Len(a)) /\ ~(i + Len(b) <= Len(a) + Len(b))
      BY <1>1, <1>2, <2>2
    <3>2. i + Len(b) - (Len(a) + Len(b)) = i - Len(a)
      BY <1>1, <1>2
    <3>3. s[i + Len(b)] = c[i + Len(b) - (Len(a) + Len(b))]
      BY <1>1, <3>1
    <3>4. t[i] = c[i - Len(a)]
      BY <1>2, <3>1
    <3>5. QED
      BY <3>1, <3>2, <3>3, <3>4
  <2>3. QED
    BY <1>1, <1>2, <2>1, <2>2
<1>4. \A i, j \in DOMAIN t : i < j => At(i) < At(j)
  BY <1>1, <1>2
<1> HIDE DEF At
<1>5. Within([i \in DOMAIN t |-> At(i)], t, s)
  BY <1>3, <1>4 DEF Within
<1>6. QED
  BY <1>5 DEF s, t

(* What follows does so without a piece of the queue, without its head once*)
(* that has passed, and with a new end.                                    *)
LEMMA MatchesDropped ==
  ASSUME NEW S, S \subseteq Nat, NEW a \in Seq(S), NEW b \in Seq(S), NEW c \in Seq(S),
         NEW passed, MatchesFollow(passed, a \o b \o c)
  PROVE  MatchesFollow(passed, a \o c)
<1> DEFINE s == a \o b \o c
           t == a \o c
<1>1. PICK f : Within(f, t, s)
  BY PieceDropped
<1> HIDE DEF s, t
<1>2. MatchesFollow(passed, s)
  BY DEF s
<1>3. /\ \A i, j \in DOMAIN t : i < j => t[i] < t[j]
      /\ \A m \in passed, i \in DOMAIN t : m < t[i]
  BY <1>1, <1>2 DEF MatchesFollow, Within
<1>4. QED
  BY <1>3 DEF MatchesFollow, t

LEMMA OneThenMany ==
  ASSUME NEW S, NEW h \in S, NEW t \in Seq(S)
  PROVE  /\ <<h>> \o t \in Seq(S)
         /\ Len(t) \in Nat /\ DOMAIN t = 1..Len(t)
         /\ DOMAIN (<<h>> \o t) = 1..(Len(t) + 1)
         /\ (<<h>> \o t)[1] = h
         /\ \A i \in 1..Len(t) : (<<h>> \o t)[i + 1] = t[i]
<1>1. <<h>> \in Seq(S) /\ Len(<<h>>) = 1 /\ <<h>>[1] = h
  OBVIOUS
<1>2. Len(t) \in Nat /\ DOMAIN t = 1..Len(t)
  BY LenProperties
<1>3. /\ <<h>> \o t \in Seq(S)
      /\ Len(<<h>> \o t) = 1 + Len(t)
      /\ \A i \in 1..(1 + Len(t)) :
           (<<h>> \o t)[i] = IF i <= 1 THEN <<h>>[i] ELSE t[i - 1]
  BY <1>1, ConcatProperties
<1>4. DOMAIN (<<h>> \o t) = 1..(Len(t) + 1)
  BY <1>2, <1>3, LenProperties
<1>5. \A i \in 1..Len(t) : i + 1 \in 1..(1 + Len(t)) /\ ~(i + 1 <= 1) /\ i + 1 - 1 = i
  BY <1>2
<1>6. QED
  BY <1>1, <1>2, <1>3, <1>4, <1>5

LEMMA MatchesHeadPasses ==
  ASSUME NEW S, S \subseteq Nat, NEW h \in S, NEW t \in Seq(S),
         NEW passed, MatchesFollow(passed, <<h>> \o t)
  PROVE  MatchesFollow(passed \cup {h}, t)
<1> DEFINE s == <<h>> \o t
<1>1. /\ Len(t) \in Nat /\ DOMAIN t = 1..Len(t) /\ DOMAIN s = 1..(Len(t) + 1)
      /\ s[1] = h /\ \A i \in 1..Len(t) : s[i + 1] = t[i]
  BY OneThenMany
<1> HIDE DEF s
<1>2. /\ \A i, j \in DOMAIN s : i < j => s[i] < s[j]
      /\ \A m \in passed, i \in DOMAIN s : m < s[i]
  BY DEF MatchesFollow, s
<1>3. \A i \in DOMAIN t : 1 \in DOMAIN s /\ i + 1 \in DOMAIN s /\ 1 < i + 1
  BY <1>1
<1>4. \A i, j \in DOMAIN t : i < j => t[i] < t[j]
  <2> SUFFICES ASSUME NEW i \in DOMAIN t, NEW j \in DOMAIN t, i < j
               PROVE  t[i] < t[j]
    OBVIOUS
  <2>1. i + 1 < j + 1
    BY <1>1
  <2>2. s[i + 1] < s[j + 1]
    BY <1>2, <1>3, <2>1
  <2>3. QED
    BY <1>1, <2>2
<1>5. \A m \in passed \cup {h}, i \in DOMAIN t : m < t[i]
  <2> SUFFICES ASSUME NEW m \in passed \cup {h}, NEW i \in DOMAIN t
               PROVE  m < s[i + 1]
    BY <1>1
  <2>1. CASE m \in passed
    BY <1>2, <1>3, <2>1
  <2>2. CASE m = h
    BY <1>1, <1>2, <1>3, <2>2
  <2>3. QED
    BY <2>1, <2>2
<1>6. QED
  BY <1>4, <1>5 DEF MatchesFollow

LEMMA MatchesEnd ==
  ASSUME NEW S, S \subseteq Nat, NEW s \in Seq(S), NEW e \in Nat, NEW passed,
         MatchesFollow(passed, s),
         \A m \in S : m < e, passed \subseteq S
  PROVE  MatchesFollow(passed, s \o <<e>>)
<1>1. s \in Seq(Nat) /\ Len(s) \in Nat /\ DOMAIN s = 1..Len(s)
  BY SeqMonotonic, LenProperties
<1>2. s \o <<e>> = Append(s, e)
  BY <1>1, AppendIsConcat
<1>3. /\ DOMAIN Append(s, e) = 1..(Len(s) + 1)
      /\ \A i \in 1..Len(s) : Append(s, e)[i] = s[i]
      /\ Append(s, e)[Len(s) + 1] = e
  BY <1>1, AppendProperties, LenProperties
<1>4. \A i \in DOMAIN s : s[i] < e
  BY <1>1, ElementOfSeq
<1>5. QED
  BY <1>1, <1>2, <1>3, <1>4 DEF MatchesFollow

LEMMA HeadThenTail ==
  ASSUME NEW S, NEW s \in Seq(S), s # <<>>
  PROVE  /\ Head(s) \in S /\ Tail(s) \in Seq(S)
         /\ s = <<Head(s)>> \o Tail(s)
<1>1. /\ Head(s) \in S /\ Tail(s) \in Seq(S)
      /\ Len(Tail(s)) = Len(s) - 1
      /\ \A i \in 1..Len(Tail(s)) : Tail(s)[i] = s[i + 1]
  BY HeadTailProperties
<1>2. Len(s) \in Nat \ {0}
  BY EmptySeq
<1> DEFINE t == Tail(s)
           r == <<Head(s)>> \o t
<1>3. /\ r \in Seq(S) /\ DOMAIN r = 1..(Len(t) + 1)
      /\ r[1] = Head(s) /\ \A i \in 1..Len(t) : r[i + 1] = t[i]
  BY <1>1, OneThenMany
<1> HIDE DEF r, t
<1>4. Len(r) = Len(s)
  <2>1. Len(r) \in Nat /\ DOMAIN r = 1..Len(r)
    BY <1>3, LenProperties
  <2>2. Len(t) + 1 = Len(s) /\ Len(t) \in Nat
    BY <1>1, <1>2 DEF t
  <2>3. QED
    BY <1>3, <2>1, <2>2
<1>5. ASSUME NEW i \in 1..Len(s)
      PROVE  s[i] = r[i]
  <2>1. CASE i = 1
    BY <1>3, <2>1
  <2>2. CASE i # 1
    <3>1. i - 1 \in 1..Len(t) /\ i - 1 + 1 = i
      BY <1>1, <1>2, <2>2 DEF t
    <3>2. r[i - 1 + 1] = t[i - 1]
      BY <1>3, <3>1
    <3>3. t[i - 1] = s[i - 1 + 1]
      BY <1>1, <3>1 DEF t
    <3>4. QED
      BY <3>1, <3>2, <3>3
  <2>3. QED
    BY <2>1, <2>2
<1>6. s = r
  BY <1>3, <1>4, <1>5, SeqEqual
<1>7. QED
  BY <1>1, <1>6 DEF r, t

(* The same for orders: those of the queue go on where the arrived ones end*)
(* and none is newer than the newest order created.                        *)
OrdersGoOn(arrived, n, q) ==
  /\ OrdersFollow(arrived, q)
  /\ \A i \in DOMAIN q : IsOrder(q[i]) => q[i].id <= n

LEMMA OrdersDropped ==
  ASSUME NEW S, NEW a \in Seq(S), NEW b \in Seq(S), NEW c \in Seq(S),
         NEW arrived, NEW n, OrdersGoOn(arrived, n, a \o b \o c)
  PROVE  OrdersGoOn(arrived, n, a \o c)
<1> DEFINE s == a \o b \o c
           t == a \o c
<1>1. PICK f : Within(f, t, s)
  BY PieceDropped
<1> HIDE DEF s, t
<1>2. OrdersGoOn(arrived, n, s)
  BY DEF s
<1>3. OrdersFollow(arrived, t)
  BY <1>1, <1>2 DEF OrdersGoOn, OrdersFollow, Within
<1>4. \A i \in DOMAIN t : IsOrder(t[i]) => t[i].id <= n
  BY <1>1, <1>2 DEF OrdersGoOn, Within
<1>5. QED
  BY <1>3, <1>4 DEF OrdersGoOn, t

LEMMA OrdersHeadPasses ==
  ASSUME NEW S, NEW h \in S, NEW t \in Seq(S), NEW arrived, NEW n,
         OrdersGoOn(arrived, n, <<h>> \o t)
  PROVE  /\ OrdersGoOn(arrived, n, t)
         /\ IsOrder(h) => OrdersGoOn(arrived \cup {h.id}, n, t) /\ h.id <= n
<1> DEFINE s == <<h>> \o t
<1>1. /\ Len(t) \in Nat /\ DOMAIN t = 1..Len(t) /\ DOMAIN s = 1..(Len(t) + 1)
      /\ s[1] = h /\ \A i \in 1..Len(t) : s[i + 1] = t[i]
  BY OneThenMany
<1> HIDE DEF s
<1>2. OrdersGoOn(arrived, n, s)
  BY DEF s
<1>3. /\ \A i \in DOMAIN t : 1 \in DOMAIN s /\ i + 1 \in DOMAIN s /\ 1 < i + 1
      /\ 1 \in DOMAIN s
      /\ \A i, j \in DOMAIN t : i < j => i + 1 < j + 1
  BY <1>1
<1>4. ASSUME NEW i \in DOMAIN t, IsOrder(t[i])
      PROVE  /\ t[i] = s[i + 1] /\ i + 1 \in DOMAIN s
             /\ \A id \in arrived : id < t[i].id
             /\ \A j \in DOMAIN t : i < j /\ IsOrder(t[j]) => t[i].id < t[j].id
             /\ IsOrder(h) => h.id < t[i].id
             /\ t[i].id <= n
  <2>1. t[i] = s[i + 1] /\ i + 1 \in DOMAIN s
    BY <1>1, <1>3
  <2>2. \A j \in DOMAIN t : t[j] = s[j + 1] /\ j + 1 \in DOMAIN s
    BY <1>1, <1>3
  <2>3. \A id \in arrived : id < s[i + 1].id
    BY <1>2, <1>4, <2>1 DEF OrdersGoOn, OrdersFollow
  <2>4. \A k \in DOMAIN s : i + 1 < k /\ IsOrder(s[k]) => s[i + 1].id < s[k].id
    BY <1>2, <1>4, <2>1 DEF OrdersGoOn, OrdersFollow
  <2>5. s[i + 1].id <= n
    BY <1>2, <1>4, <2>1 DEF OrdersGoOn
  <2>6. IsOrder(s[1]) => s[1].id < s[i + 1].id
    BY <1>2, <1>3, <1>4, <2>1 DEF OrdersGoOn, OrdersFollow
  <2>7. QED
    BY <1>1, <1>3, <2>1, <2>2, <2>3, <2>4, <2>5, <2>6
<1>5. IsOrder(h) => h.id <= n
  BY <1>1, <1>2, <1>3 DEF OrdersGoOn
<1>6. QED
  BY <1>4, <1>5 DEF OrdersGoOn, OrdersFollow

(* One element replaced by another that says no more about orders.         *)
LEMMA OrdersReplaced ==
  ASSUME NEW S, NEW a \in Seq(S), NEW h \in S, NEW x \in S, NEW c \in Seq(S),
         IsOrder(x) => IsOrder(h) /\ h.id = x.id,
         NEW arrived, NEW n, OrdersGoOn(arrived, n, a \o <<h>> \o c)
  PROVE  OrdersGoOn(arrived, n, a \o <<x>> \o c)
<1> DEFINE s == a \o <<h>> \o c
           t == a \o <<x>> \o c
<1>1. <<h>> \in Seq(S) /\ <<x>> \in Seq(S) /\ Len(<<h>>) = 1 /\ Len(<<x>>) = 1
      /\ <<h>>[1] = h /\ <<x>>[1] = x
  OBVIOUS
<1>2. /\ Len(a) \in Nat /\ Len(c) \in Nat
      /\ DOMAIN s = 1..(Len(a) + 1 + Len(c))
      /\ DOMAIN t = 1..(Len(a) + 1 + Len(c))
      /\ \A i \in 1..(Len(a) + 1 + Len(c)) : s[i] =
              IF i <= Len(a) THEN a[i]
              ELSE IF i <= Len(a) + 1 THEN <<h>>[i - Len(a)]
              ELSE c[i - (Len(a) + 1)]
      /\ \A i \in 1..(Len(a) + 1 + Len(c)) : t[i] =
              IF i <= Len(a) THEN a[i]
              ELSE IF i <= Len(a) + 1 THEN <<x>>[i - Len(a)]
              ELSE c[i - (Len(a) + 1)]
  BY <1>1, ConcatThree
<1>3. ASSUME NEW i \in DOMAIN t, IsOrder(t[i])
      PROVE  IsOrder(s[i]) /\ s[i].id = t[i].id
  <2>1. CASE i = Len(a) + 1
    <3>1. i \in 1..(Len(a) + 1 + Len(c)) /\ ~(i <= Len(a)) /\ i <= Len(a) + 1 /\ i - Len(a) = 1
      BY <1>2, <2>1
    <3>2. s[i] = h /\ t[i] = x
      BY <1>1, <1>2, <3>1
    <3>3. QED
      BY <1>3, <3>2
  <2>2. CASE i # Len(a) + 1
    <3>1. i <= Len(a) \/ ~(i <= Len(a) + 1)
      BY <1>2, <2>2
    <3>2. s[i] = t[i]
      BY <1>2, <3>1
    <3>3. QED
      BY <1>3, <3>2
  <2>3. QED
    BY <2>1, <2>2
<1> HIDE DEF s, t
<1>4. OrdersGoOn(arrived, n, s) /\ DOMAIN s = DOMAIN t
  BY <1>2 DEF s
<1>5. OrdersGoOn(arrived, n, t)
  BY <1>3, <1>4 DEF OrdersGoOn, OrdersFollow
<1>6. QED
  BY <1>5 DEF t

(* A new end: elements that are no orders, or the next order.              *)
LEMMA OrdersEnd ==
  ASSUME NEW S, NEW q \in Seq(S), NEW r \in Seq(S), NEW arrived, NEW n \in Nat,
         OrdersGoOn(arrived, n, q), arrived \subseteq 1..n,
         \A i \in DOMAIN q : IsOrder(q[i]) => q[i].id \in Nat,
         \/ \A i \in DOMAIN r : ~IsOrder(r[i])
         \/ Len(r) = 1 /\ r[1].id = n + 1
  PROVE  OrdersGoOn(arrived, n + (IF \A i \in DOMAIN r : ~IsOrder(r[i]) THEN 0 ELSE 1), q \o r)
<1> DEFINE t == q \o r
           N == n + (IF \A i \in DOMAIN r : ~IsOrder(r[i]) THEN 0 ELSE 1)
<1>1. /\ Len(q) \in Nat /\ Len(r) \in Nat /\ DOMAIN q = 1..Len(q) /\ DOMAIN r = 1..Len(r)
      /\ DOMAIN t = 1..(Len(q) + Len(r))
      /\ \A i \in 1..(Len(q) + Len(r)) : t[i] = IF i <= Len(q) THEN q[i] ELSE r[i - Len(q)]
  BY ConcatProperties, LenProperties
<1> HIDE DEF t
<1>2. N \in Nat /\ n <= N /\ N <= n + 1
  OBVIOUS
<1>3. ASSUME NEW i \in DOMAIN t, IsOrder(t[i]), i > Len(q)
      PROVE  N = n + 1 /\ t[i].id = n + 1 /\ i = Len(q) + 1 /\ Len(r) = 1
  <2>1. i - Len(q) \in DOMAIN r /\ t[i] = r[i - Len(q)]
    BY <1>1, <1>3
  <2>2. Len(r) = 1 /\ r[1].id = n + 1
    BY <1>3, <2>1
  <2>3. i - Len(q) = 1
    BY <1>1, <2>1, <2>2
  <2>4. QED
    BY <1>1, <1>3, <2>1, <2>2, <2>3
<1>4. ASSUME NEW i \in DOMAIN t, i <= Len(q)
      PROVE  i \in DOMAIN q /\ t[i] = q[i]
  BY <1>1, <1>4
<1> HIDE DEF N
<1>5. ASSUME NEW i \in DOMAIN t, IsOrder(t[i])
      PROVE  /\ \A id \in arrived : id < t[i].id
             /\ \A j \in DOMAIN t : i < j /\ IsOrder(t[j]) => t[i].id < t[j].id
             /\ t[i].id <= N
  <2>1. CASE i <= Len(q)
    <3>1. i \in DOMAIN q /\ t[i] = q[i]
      BY <1>4, <2>1
    <3>2. /\ \A id \in arrived : id < q[i].id
          /\ \A j \in DOMAIN q : i < j /\ IsOrder(q[j]) => q[i].id < q[j].id
          /\ q[i].id <= n /\ q[i].id \in Nat
      BY <1>5, <3>1 DEF OrdersGoOn, OrdersFollow
    <3>3. ASSUME NEW j \in DOMAIN t, i < j, IsOrder(t[j])
          PROVE  t[i].id < t[j].id
      <4>1. CASE j <= Len(q)
        BY <1>4, <3>1, <3>2, <3>3, <4>1
      <4>2. CASE j > Len(q)
        BY <1>3, <3>1, <3>2, <3>3, <4>2
      <4>3. QED
        BY <1>1, <4>1, <4>2
    <3>4. t[i].id <= N
      BY <1>2, <3>1, <3>2
    <3>5. QED
      BY <3>1, <3>2, <3>3, <3>4
  <2>2. CASE i > Len(q)
    <3>1. N = n + 1 /\ t[i].id = n + 1 /\ i = Len(q) + 1 /\ Len(r) = 1
      BY <1>3, <1>5, <2>2
    <3>2. ~\E j \in DOMAIN t : i < j
      BY <1>1, <3>1
    <3>3. \A id \in arrived : id < n + 1
      OBVIOUS
    <3>4. QED
      BY <1>2, <3>1, <3>2, <3>3
  <2>3. QED
    BY <1>1, <2>1, <2>2
<1>6. OrdersGoOn(arrived, N, t)
  BY <1>5 DEF OrdersGoOn, OrdersFollow
<1>7. QED
  BY <1>6 DEF N, t

----------------------------------------------------------------------------
(* The inductive invariant, in parts.                                      *)

(* Matches on their way exist; an event of a match is of one that was      *)
(* executed.                                                               *)
MatchesKnown ==
  /\ sent \in Seq(MatchId) /\ launcherCh \in Seq(MatchId)
  /\ notifierList \in Seq(MatchId)
  /\ submitting \in MatchId \cup {0}
  /\ sending.phase # "idle" => sending.match \in MatchId
  /\ executed \subseteq MatchId /\ DOMAIN waiting \subseteq MatchId
  /\ \A i \in DOMAIN events : events[i].kind = "match" => events[i].id \in executed

(* Orders on their way were created, and so were those with a row; what    *)
(* rests, or is shown to rest, has a row.                                  *)
OrdersKnown ==
  /\ \A i \in DOMAIN Way : IsOrder(Way[i]) => Way[i].id <= created
  /\ DOMAIN rows \subseteq 1..created
  /\ resting \subseteq DOMAIN rows /\ view \subseteq DOMAIN rows

LEMMA NumOfEventsType ==
  ASSUME TypeOK, NEW m \in MatchId
  PROVE  NumOfEvents(m) \in Nat \ {0}
<1>1. matches[m] \in MatchRecord
  BY ElementOfSeq DEF TypeOK, MatchId
<1>2. matches[m].makers \subseteq 1..MaxOrders
  BY <1>1 DEF MatchRecord, Id
<1>3. IsFiniteSet(1..MaxOrders)
  BY BoundAssumption, FS_Interval
<1>4. Cardinality(matches[m].makers) \in Nat
  BY <1>2, <1>3, FS_Subset, FS_CardinalityType
<1>5. QED
  BY <1>4 DEF NumOfEvents

LEMMA MatchIdGrows ==
  ASSUME TypeOK, NEW r \in MatchRecord
  PROVE  /\ Append(matches, r) \in Seq(MatchRecord)
         /\ Len(Append(matches, r)) = Len(matches) + 1
         /\ MatchId \subseteq 1..(Len(matches) + 1)
         /\ Len(matches) \in Nat
<1>1. matches \in Seq(MatchRecord)
  BY DEF TypeOK
<1>2. Len(matches) \in Nat
  BY <1>1, LenProperties
<1>3. Append(matches, r) \in Seq(MatchRecord) /\ Len(Append(matches, r)) = Len(matches) + 1
  BY <1>1, AppendProperties
<1>4. QED
  BY <1>2, <1>3 DEF MatchId

----------------------------------------------------------------------------
(* Types.                                                                  *)
LEMMA HeadTailType ==
  ASSUME NEW S, NEW q \in Seq(S), q # <<>>
  PROVE  Head(q) \in S /\ Tail(q) \in Seq(S)
  BY HeadTailProperties

(* The counters of the environment stay natural numbers.                   *)
LEMMA CountersType ==
  ASSUME TypeOK
  PROVE  /\ created + 1 \in Nat /\ cancels + 1 \in Nat /\ failures + 1 \in Nat
         /\ losses + 1 \in Nat /\ crashes + 1 \in Nat
         /\ created \in Nat
         /\ created < MaxOrders => created + 1 \in 1..MaxOrders
<1>1. created \in 0..MaxOrders
  BY DEF TypeOK
<1>2. cancels \in Nat /\ failures \in Nat /\ losses \in Nat /\ crashes \in Nat
  BY DEF TypeOK
<1>3. QED
  BY <1>1, <1>2, BoundAssumption

LEMMA DieType ==
  ASSUME TypeOK, NEW lost \in 0..Len(events), Die(lost),
         UNCHANGED <<created, cancelled, sent, executed, durable, cancels, failures,
                     losses>>
  PROVE  TypeOK'
<1>1. events \in Seq(Event) /\ Len(events) \in Nat
  BY LenProperties DEF TypeOK
<1>2. events' \in Seq(Event)
  <2>1. \A i \in (lost + 1)..Len(events) : events[i] \in Event
    BY <1>1, ElementOfSeq
  <2>2. SubSeq(events, lost + 1, Len(events)) \in Seq(Event)
    BY <1>1, <2>1, SubSeqProperties
  <2>3. QED
    BY <2>2 DEF Die
<1>3. /\ inHand' \in Seq(Message) /\ Len(inHand') = 0
      /\ marketCh' \in Seq(Message) /\ Len(marketCh') = 0
      /\ launcherCh' \in Seq(Nat \ {0}) /\ Len(launcherCh') = 0
  BY EmptySeq DEF Die
<1>4. /\ DOMAIN waiting' = {} /\ waiting' \in [{} -> Nat]
      /\ resting' = {} /\ submitting' = 0 /\ up' = FALSE
      /\ sending' \in [phase : {"idle", "send", "tell"}, match : Nat]
      /\ crashes' = crashes + 1
  BY DEF Die, NotSending
<1>5. crashes' \in Nat
  BY <1>4, CountersType
<1>6. Len(marketCh') <= MarketCap /\ Len(launcherCh') <= LauncherCap /\ Len(inHand') <= 1
  BY <1>3, CapAssumption
<1>7. QED
  BY <1>2, <1>3, <1>4, <1>5, <1>6 DEF TypeOK, durable

LEMMA ChainType ==
  ASSUME TypeOK, MatchesKnown,
         CreateOrder \/ (\E id \in Id : CancelOrder(id)) \/ Chain
  PROVE  TypeOK'
<1>1. CASE CreateOrder
  <2>1. created + 1 \in Id /\ created' \in 0..MaxOrders
    BY <1>1, BoundAssumption, CountersType DEF CreateOrder, Id
  <2>2. Created(created + 1) \in Event
    BY <2>1 DEF Created, Event
  <2>3. events' \in Seq(Event)
    BY <1>1, <2>2, AppendProperties DEF CreateOrder, TypeOK
  <2>4. QED
    BY <1>1, <2>1, <2>3 DEF CreateOrder, TypeOK, durable, volatile, faults
<1>2. ASSUME NEW id \in Id, CancelOrder(id)
      PROVE  TypeOK'
  BY <1>2, CountersType DEF CancelOrder, TypeOK, durable, volatile
<1>3. CASE ExecuteSuccess
  <2> DEFINE m == Head(sent)
  <2>1. m \in MatchId /\ Tail(sent) \in Seq(Nat \ {0})
    BY <1>3, HeadTailType DEF ExecuteSuccess, MatchesKnown, TypeOK
  <2>2. NumOfEvents(m) \in Nat /\ m \in Nat \ {0}
    BY <2>1, NumOfEventsType DEF MatchId
  <2>3. Matched(m) \in Event
    BY <2>2 DEF Matched, Event
  <2> HIDE DEF m
  <2>4. [i \in 1..NumOfEvents(m) |-> Matched(m)] \in Seq(Event)
    BY <2>2, <2>3
  <2>5. events' \in Seq(Event)
    BY <1>3, <2>4, ConcatProperties DEF ExecuteSuccess, TypeOK, m
  <2>6. executed' \subseteq Nat \ {0}
    BY <1>3, <2>2 DEF ExecuteSuccess, TypeOK, m
  <2>7. sent' \in Seq(Nat \ {0})
    BY <1>3, <2>1 DEF ExecuteSuccess
  <2>8. QED
    BY <1>3, <2>5, <2>6, <2>7 DEF ExecuteSuccess, TypeOK, durable, volatile, faults
<1>4. CASE ExecuteFailure
  <2>1. sent \in Seq(Nat \ {0}) /\ sent # <<>> /\ sent' = Tail(sent)
    BY <1>4 DEF ExecuteFailure, TypeOK
  <2>2. sent' \in Seq(Nat \ {0})
    <3>1. Tail(sent) \in Seq(Nat \ {0})
      BY <2>1, HeadTailType
    <3>2. QED
      BY <2>1, <3>1
  <2>3. failures' = failures \/ failures' = failures + 1
    BY <1>4 DEF ExecuteFailure
  <2>4. failures' \in Nat
    <3>1. failures \in Nat
      BY DEF TypeOK
    <3>2. QED
      BY <2>3, <3>1
  <2>5. QED
    BY <1>4, <2>2, <2>4 DEF ExecuteFailure, TypeOK, durable, volatile
<1>5. QED
  BY <1>1, <1>2, <1>3, <1>4 DEF Chain

LEMMA NotifierType ==
  ASSUME TypeOK, MatchesKnown, NotifyCreate \/ NotifyMatch \/ DrainNotifier
  PROVE  TypeOK'
<1> USE DEF TypeOK
<1>1. CASE NotifyCreate
  <2>1. Head(events) \in Event /\ events' \in Seq(Event)
    BY <1>1, HeadTailType DEF NotifyCreate
  <2>2. NewOrder(Head(events).id) \in Message
    BY <1>1, <2>1 DEF NotifyCreate, Event, NewOrder, Message
  <2>3. engineList' \in Seq(Message) /\ losses' \in Nat
    <3>1. Append(engineList, NewOrder(Head(events).id)) \in Seq(Message)
      BY <2>2, AppendProperties
    <3>2. losses' \in {losses, losses + 1}
      BY <1>1 DEF NotifyCreate, Lose
    <3>3. QED
      BY <1>1, <3>1, <3>2, CountersType DEF NotifyCreate
  <2>4. QED
    BY <1>1, <2>1, <2>3 DEF NotifyCreate, volatile
<1>2. CASE NotifyMatch
  <2> DEFINE m == Head(events).id
  <2>1. Head(events) \in Event /\ events' \in Seq(Event)
    BY <1>2, HeadTailType DEF NotifyMatch
  <2>2. m \in Nat \ {0} /\ m \in DOMAIN waiting
    BY <1>2, <2>1 DEF NotifyMatch, Event
  <2>3. Update(m) \in Message
    BY <2>2 DEF Update, Message
  <2>4. engineList' \in Seq(Message) /\ losses' \in Nat
    <3>1. Append(engineList, Update(m)) \in Seq(Message)
      BY <2>3, AppendProperties
    <3>2. losses' \in {losses, losses + 1}
      BY <1>2 DEF NotifyMatch, Lose
    <3>3. engineList' \in {engineList, Append(engineList, Update(m))}
      BY <1>2 DEF NotifyMatch
    <3>4. QED
      BY <3>1, <3>2, <3>3, CountersType
  <2>5. DOMAIN waiting' = DOMAIN waiting /\ waiting' \in [DOMAIN waiting -> Nat]
    <3>1. waiting' = [waiting EXCEPT ![m] = waiting[m] + 1]
      BY <1>2 DEF NotifyMatch
    <3>2. waiting[m] + 1 \in Nat
      BY SMTT(60), <2>2
    <3>3. QED
      BY <3>1, <3>2
  <2>6. QED
    BY <1>2, <2>1, <2>4, <2>5 DEF NotifyMatch
<1>3. CASE DrainNotifier
  <2>1. Head(notifierList) \in Nat \ {0} /\ notifierList' \in Seq(Nat \ {0})
    BY <1>3, HeadTailType DEF DrainNotifier
  <2>2. DOMAIN waiting' = DOMAIN waiting \cup {Head(notifierList)}
    BY <1>3 DEF DrainNotifier
  <2>3. \A m \in DOMAIN waiting' : waiting'[m] \in Nat
    BY <1>3, <2>2 DEF DrainNotifier
  <2>4. waiting' \in [DOMAIN waiting' -> Nat]
    BY <1>3, <2>3 DEF DrainNotifier
  <2>5. QED
    BY <1>3, <2>1, <2>2, <2>4 DEF DrainNotifier, chainVars, faults
<1>4. QED
  BY <1>1, <1>2, <1>3

LEMMA EngineLoopType ==
  ASSUME TypeOK, EngineLoop
  PROVE  TypeOK'
<1> USE DEF TypeOK
<1>1. CASE DrainEngine
  <2>1. Head(engineList) \in Message /\ engineList' \in Seq(Message)
    BY <1>1, HeadTailType DEF DrainEngine
  <2>2. inHand' \in Seq(Message) /\ Len(inHand') <= 1
    BY <1>1, <2>1 DEF DrainEngine
  <2>3. QED
    BY <1>1, <2>1, <2>2 DEF DrainEngine, chainVars, faults
<1>2. CASE PushMarket
  <2>1. inHand[1] \in Message
    BY <1>2, HeadTailType DEF PushMarket
  <2>2. marketCh' \in Seq(Message) /\ Len(marketCh') = Len(marketCh) + 1
    BY <1>2, <2>1, AppendProperties DEF PushMarket
  <2>3. Len(marketCh') <= MarketCap
    BY SMTT(60), <1>2, <2>2, CapAssumption, LenProperties DEF PushMarket
  <2>4. inHand' \in Seq(Message) /\ Len(inHand') = 0
    BY <1>2, EmptySeq DEF PushMarket
  <2>5. QED
    BY SMTT(60), <1>2, <2>2, <2>3, <2>4 DEF PushMarket, chainVars, durable, faults
<1>3. QED
  BY <1>1, <1>2 DEF EngineLoop

(* A message is taken out of the market's channel.                         *)
LEMMA MarketTakes ==
  ASSUME TypeOK, marketCh # <<>>, marketCh' = Tail(marketCh)
  PROVE  /\ Head(marketCh) \in Message
         /\ marketCh' \in Seq(Message) /\ Len(marketCh') <= MarketCap
<1>1. marketCh \in Seq(Message) /\ Len(marketCh) <= MarketCap
  BY DEF TypeOK
<1>2. /\ Head(marketCh) \in Message /\ Tail(marketCh) \in Seq(Message)
      /\ Len(Tail(marketCh)) = Len(marketCh) - 1
  BY <1>1, HeadTailProperties
<1>3. Len(marketCh) \in Nat
  BY <1>1, LenProperties
<1>4. QED
  BY <1>1, <1>2, <1>3, CapAssumption

(* The tables that processLimitOrder writes.                               *)
LEMMA RowsType ==
  ASSUME NEW table, DOMAIN table \subseteq Id, table \in [DOMAIN table -> Row],
         NEW ids, NEW p \in DOMAIN table
  PROVE  /\ DOMAIN Filled(table, ids) = DOMAIN table
         /\ Filled(table, ids) \in [DOMAIN table -> Row]
         /\ DOMAIN PartialFilled(table, p) = DOMAIN table
         /\ PartialFilled(table, p) \in [DOMAIN table -> Row]
  BY DEF Filled, PartialFilled, Row

LEMMA ProcessLimitOrderType ==
  ASSUME TypeOK, MatchesKnown, OrdersKnown,
         NEW makers \in SUBSET resting, NEW stays \in SUBSET makers, NEW rests \in BOOLEAN,
         ProcessLimitOrder(makers, stays, rests)
  PROVE  TypeOK'
<1> DEFINE id == Head(marketCh).id
           partial == IF rests /\ makers # {} THEN {id} ELSE stays
           table == [i \in DOMAIN rows \cup {id} |->
                      IF i = id THEN [state |-> "open", filled |-> "zero"] ELSE rows[i]]
           afterFills == Filled(table, (makers \ stays) \cup (IF rests THEN {} ELSE {id}))
           p == CHOOSE p \in partial : TRUE
<1>1. /\ Head(marketCh) \in Message
      /\ marketCh' \in Seq(Message) /\ Len(marketCh') <= MarketCap
  BY MarketTakes DEF ProcessLimitOrder
<1>2. id \in Id
  BY <1>1 DEF ProcessLimitOrder, Message
<1>3. DOMAIN table \subseteq Id /\ table \in [DOMAIN table -> Row]
  BY <1>2 DEF TypeOK, Row
<1>4. DOMAIN table = DOMAIN rows \cup {id}
  OBVIOUS
<1>5. partial # {} => p \in DOMAIN table
  <2>1. partial # {} => p \in partial
    OBVIOUS
  <2>2. partial \subseteq DOMAIN table
    BY <1>4 DEF OrdersKnown
  <2>3. QED
    BY <2>1, <2>2
<1>6. DOMAIN rows' = DOMAIN table /\ rows' \in [DOMAIN table -> Row]
  <2>1. rows' = IF partial = {} THEN afterFills ELSE PartialFilled(afterFills, p)
    BY DEF ProcessLimitOrder
  <2> HIDE DEF id, partial, table, p
  <2>2. id \in DOMAIN table
    BY <1>4
  <2>3. DOMAIN afterFills = DOMAIN table /\ afterFills \in [DOMAIN table -> Row]
    BY <1>3, <2>2, RowsType
  <2> HIDE DEF afterFills
  <2>4. CASE partial = {}
    BY <2>1, <2>3, <2>4
  <2>5. CASE partial # {}
    <3>1. p \in DOMAIN afterFills /\ DOMAIN afterFills \subseteq Id
      BY <1>3, <1>5, <2>3, <2>5
    <3>2. QED
      BY <2>1, <2>3, <2>5, <3>1, RowsType
  <2>6. QED
    BY <2>4, <2>5
<1>7. resting' \in SUBSET Id /\ view' \in SUBSET Id
  <2>1. resting' = (resting \ (makers \ stays)) \cup (IF rests THEN {id} ELSE {})
    BY DEF ProcessLimitOrder
  <2>2. view' \in {view, resting'}
    BY DEF ProcessLimitOrder
  <2>3. QED
    BY <1>2, <2>1, <2>2 DEF TypeOK
<1>8. matches' \in Seq(MatchRecord) /\ submitting' \in Nat /\ losses' \in Nat
  <2>1. CASE makers = {}
    BY <2>1 DEF ProcessLimitOrder, TypeOK
  <2>2. CASE makers # {}
    <3>1. PICK state \in {"pending", "unsaved"} :
            /\ matches' = Append(matches, [taker |-> id, makers |-> makers, state |-> state])
            /\ IF state = "pending" THEN UNCHANGED losses ELSE Lose
      BY <2>2 DEF ProcessLimitOrder
    <3>2. [taker |-> id, makers |-> makers, state |-> state] \in MatchRecord
      BY <1>2 DEF MatchRecord, TypeOK
    <3>3. submitting' = Len(matches) + 1
      BY <2>2 DEF ProcessLimitOrder
    <3>4. matches' \in Seq(MatchRecord) /\ Len(matches) \in Nat
      BY <3>1, <3>2, MatchIdGrows
    <3>5. losses' \in Nat
      BY SMTT(60), <3>1 DEF Lose, TypeOK
    <3>6. QED
      BY <3>3, <3>4, <3>5
  <2>3. QED
    BY <2>1, <2>2
<1>9. UNCHANGED <<chainVars, engineList, notifierList, up, waiting, inHand,
                  launcherCh, sending, cancels, failures, crashes>>
  BY DEF ProcessLimitOrder
<1> HIDE DEF id, partial, table, afterFills, p
<1>10. QED
  BY <1>1, <1>3, <1>6, <1>7, <1>8, <1>9 DEF TypeOK, chainVars

LEMMA ConfirmMatchType ==
  ASSUME TypeOK, ConfirmMatch
  PROVE  TypeOK' /\ Len(matches') = Len(matches)
<1>1. marketCh' \in Seq(Message) /\ Len(marketCh') <= MarketCap
  BY MarketTakes DEF ConfirmMatch
<1>2. losses' \in Nat
  BY SMTT(60) DEF ConfirmMatch, Lose, TypeOK
<1>3. /\ matches' \in Seq(MatchRecord) /\ Len(matches') = Len(matches)
      /\ DOMAIN rows' = DOMAIN rows /\ rows' \in [DOMAIN rows -> Row]
  <2>1. CASE UNCHANGED <<matches, rows>>
    BY <2>1 DEF TypeOK
  <2>2. ASSUME NEW m \in MatchId,
               matches' = [matches EXCEPT ![m].state = "done"],
               rows' = [id \in DOMAIN rows |->
                          IF id \in Involved(m) THEN Confirmed(rows[id]) ELSE rows[id]]
        PROVE  /\ matches' \in Seq(MatchRecord) /\ Len(matches') = Len(matches)
               /\ DOMAIN rows' = DOMAIN rows /\ rows' \in [DOMAIN rows -> Row]
    <3>1. matches[m] \in MatchRecord
      BY ElementOfSeq DEF TypeOK, MatchId
    <3>2. [matches[m] EXCEPT !.state = "done"] \in MatchRecord
      BY <3>1 DEF MatchRecord
    <3>3. matches' = [matches EXCEPT ![m] = [matches[m] EXCEPT !.state = "done"]]
      BY <2>2
    <3>4. matches' \in Seq(MatchRecord) /\ Len(matches') = Len(matches)
      BY SMTT(60), <3>2, <3>3, ExceptSeq DEF TypeOK, MatchId
    <3>5. \A id \in DOMAIN rows : Confirmed(rows[id]) \in Row /\ rows[id] \in Row
      BY DEF TypeOK, Confirmed, Row
    <3>6. QED
      BY <2>2, <3>4, <3>5
  <2>3. QED
    BY <2>1, <2>2 DEF ConfirmMatch
<1>4. QED
  BY <1>1, <1>2, <1>3 DEF ConfirmMatch, TypeOK, chainVars

LEMMA MarketType ==
  ASSUME TypeOK, MatchesKnown, OrdersKnown, Market
  PROVE  TypeOK'
<1>1. CASE NewOrderStep
  BY <1>1, ProcessLimitOrderType DEF NewOrderStep
<1>2. CASE DropOrder
  <2>1. marketCh' \in Seq(Message) /\ Len(marketCh') <= MarketCap
    BY <1>2, MarketTakes DEF DropOrder
  <2>2. QED
    BY <1>2, <2>1, CountersType DEF DropOrder, Lose, TypeOK, chainVars, durable
<1>3. CASE SubmitMatch
  <2>1. submitting \in Nat \ {0}
    BY <1>3 DEF SubmitMatch, TypeOK
  <2>2. launcherCh' \in Seq(Nat \ {0}) /\ Len(launcherCh') = Len(launcherCh) + 1
    BY <1>3, <2>1, AppendProperties DEF SubmitMatch, TypeOK
  <2>3. Len(launcherCh') <= LauncherCap
    BY <1>3, <2>2, CapAssumption, LenProperties DEF SubmitMatch, TypeOK
  <2>4. QED
    BY <1>3, <2>2, <2>3 DEF SubmitMatch, TypeOK, chainVars, faults
<1>4. CASE ConfirmMatch
  BY <1>4, ConfirmMatchType
<1>5. QED
  BY <1>1, <1>2, <1>3, <1>4 DEF Market

LEMMA LauncherType ==
  ASSUME TypeOK, MatchesKnown, Launcher
  PROVE  TypeOK'
<1>1. CASE TakeRequest
  <2>1. launcherCh \in Seq(Nat \ {0}) /\ Len(launcherCh) <= LauncherCap
    BY DEF TypeOK
  <2>2. /\ Head(launcherCh) \in Nat \ {0} /\ launcherCh' \in Seq(Nat \ {0})
        /\ Len(launcherCh') = Len(launcherCh) - 1
    BY <1>1, <2>1, HeadTailProperties DEF TakeRequest
  <2>3. Len(launcherCh) \in Nat
    BY <2>1, LenProperties
  <2>4. Len(launcherCh') <= LauncherCap
    BY <2>1, <2>2, <2>3, CapAssumption
  <2>5. sending' \in [phase : {"idle", "send", "tell"}, match : Nat]
    BY <1>1, <2>2 DEF TakeRequest
  <2>6. QED
    BY <1>1, <2>2, <2>4, <2>5 DEF TakeRequest, TypeOK, chainVars, durable, faults
<1>2. CASE SendTransaction
  <2>1. sending.match \in Nat \ {0}
    BY <1>2 DEF SendTransaction, MatchesKnown, MatchId
  <2>2. sent' \in Seq(Nat \ {0})
    BY <1>2, <2>1, AppendProperties DEF SendTransaction, TypeOK
  <2>3. sending' \in [phase : {"idle", "send", "tell"}, match : Nat]
    BY <1>2 DEF SendTransaction, TypeOK
  <2>4. QED
    BY <1>2, <2>2, <2>3 DEF SendTransaction, TypeOK, durable, faults
<1>3. CASE SendFails
  BY <1>3, CountersType DEF SendFails, NotSending, TypeOK, chainVars, durable
<1>4. CASE PushWaitEvent
  <2>1. sending.match \in Nat \ {0}
    BY <1>4 DEF PushWaitEvent, MatchesKnown, MatchId
  <2>2. notifierList' \in Seq(Nat \ {0}) /\ losses' \in Nat
    <3>1. Append(notifierList, sending.match) \in Seq(Nat \ {0})
      BY <2>1, AppendProperties DEF TypeOK
    <3>2. losses' \in {losses, losses + 1} /\ losses \in Nat
      BY <1>4 DEF PushWaitEvent, Lose, TypeOK
    <3>3. notifierList' \in {notifierList, Append(notifierList, sending.match)}
      BY <1>4 DEF PushWaitEvent
    <3>4. QED
      BY <3>1, <3>2, <3>3, CountersType DEF TypeOK
  <2>3. QED
    BY <1>4, <2>2 DEF PushWaitEvent, NotSending, TypeOK, chainVars
<1>5. QED
  BY <1>1, <1>2, <1>3, <1>4 DEF Launcher

(* Every step keeps the types.                                             *)
LEMMA TypeKeeps ==
  ASSUME TypeOK, MatchesKnown, OrdersKnown, [Next]_vars
  PROVE  TypeOK'
<1>1. CASE UNCHANGED vars
  BY <1>1 DEF vars, chainVars, durable, volatile, faults, TypeOK
<1>2. CASE Crash
  BY <1>2, DieType DEF Crash
<1>3. CASE NotifyPanic
  <2>1. Len(events) \in Nat
    BY LenProperties DEF TypeOK
  <2>2. QED
    BY <1>3, <2>1, DieType DEF NotifyPanic
<1>4. CASE Restart
  BY <1>4 DEF Restart, TypeOK, chainVars, durable, volatile, faults
<1>5. QED
  BY <1>1, <1>2, <1>3, <1>4, ChainType, NotifierType, EngineLoopType, MarketType,
     LauncherType DEF Next, Notifier

----------------------------------------------------------------------------
(* Matches exist.                                                          *)

(* What is left of a sequence without its first elements.                  *)
LEMMA SuffixProperties ==
  ASSUME NEW S, NEW s \in Seq(S), NEW n \in Nat, n <= Len(s)
  PROVE  /\ SubSeq(s, n + 1, Len(s)) \in Seq(S)
         /\ Len(SubSeq(s, n + 1, Len(s))) = Len(s) - n
         /\ \A i \in 1..(Len(s) - n) : SubSeq(s, n + 1, Len(s))[i] = s[n + i]
<1>1. Len(s) \in Nat
  BY LenProperties
<1>2. \A i \in (n + 1)..Len(s) : s[i] \in S
  BY <1>1, ElementOfSeq
<1>3. n + 1 \in Int /\ Len(s) \in Int
  BY <1>1
<1>4. /\ SubSeq(s, n + 1, Len(s)) \in Seq(S)
      /\ Len(SubSeq(s, n + 1, Len(s))) = IF n + 1 <= Len(s) THEN Len(s) - (n + 1) + 1 ELSE 0
      /\ \A i \in 1..(Len(s) - (n + 1) + 1) : SubSeq(s, n + 1, Len(s))[i] = s[n + 1 + i - 1]
  BY <1>2, <1>3, SubSeqProperties
<1>5. \A i \in 1..(Len(s) - n) : n + 1 + i - 1 = n + i /\ i \in 1..(Len(s) - (n + 1) + 1)
  BY <1>1
<1>6. (IF n + 1 <= Len(s) THEN Len(s) - (n + 1) + 1 ELSE 0) = Len(s) - n
  BY <1>1
<1>7. QED
  BY <1>4, <1>5, <1>6

(* The events that are left when some are handled or lost.                 *)
LEMMA EventsLeft ==
  ASSUME TypeOK, MatchesKnown, NEW lost \in 0..Len(events),
         events' = SubSeq(events, lost + 1, Len(events)), executed' = executed
  PROVE  /\ \A i \in DOMAIN events' : events'[i].kind = "match" => events'[i].id \in executed'
         /\ Len(events') = Len(events) - lost
         /\ events' \in Seq(Event)
         /\ \A i \in 1..Len(events') : events'[i] = events[lost + i]
<1>1. events \in Seq(Event) /\ Len(events) \in Nat /\ DOMAIN events = 1..Len(events)
  BY LenProperties DEF TypeOK
<1>2. lost \in Nat /\ lost <= Len(events)
  BY <1>1
<1>3. /\ events' \in Seq(Event)
      /\ Len(events') = Len(events) - lost
      /\ \A i \in 1..(Len(events) - lost) : events'[i] = events[lost + i]
  BY <1>1, <1>2, SuffixProperties
<1>4. DOMAIN events' = 1..(Len(events) - lost)
  BY <1>3, LenProperties
<1>5. \A i \in 1..(Len(events) - lost) : lost + i \in DOMAIN events
  BY <1>1, <1>2
<1>6. QED
  BY <1>3, <1>4, <1>5 DEF MatchesKnown

LEMMA TailLeft ==
  ASSUME TypeOK, events # <<>>, events' = Tail(events)
  PROVE  1 \in 0..Len(events) /\ events' = SubSeq(events, 1 + 1, Len(events))
<1>1. events \in Seq(Event)
  BY DEF TypeOK
<1>2. Len(events) \in Nat \ {0}
  BY <1>1, EmptySeq
<1>3. QED
  BY <1>1, <1>2, TailIsSubSeq

LEMMA MatchIdSame ==
  ASSUME TypeOK, [Next]_vars, ~NewOrderStep
  PROVE  MatchId' = MatchId
<1>1. CASE ConfirmMatch
  BY <1>1, ConfirmMatchType DEF MatchId
<1>2. CASE matches' = matches
  BY <1>2 DEF MatchId
<1>3. QED
  BY <1>1, <1>2 DEF Next, vars, durable, Chain, CreateOrder, CancelOrder, ExecuteSuccess,
     ExecuteFailure, Crash, Restart, Notifier, NotifyCreate, NotifyMatch, NotifyPanic,
     DrainNotifier, EngineLoop, DrainEngine, PushMarket, Market, DropOrder, SubmitMatch,
     Launcher, TakeRequest, SendTransaction, SendFails, PushWaitEvent

LEMMA MatchesKnownNewOrder ==
  ASSUME TypeOK, MatchesKnown, OrdersKnown,
         NEW makers \in SUBSET resting, NEW stays \in SUBSET makers, NEW rests \in BOOLEAN,
         ProcessLimitOrder(makers, stays, rests)
  PROVE  MatchesKnown' /\ MatchId \subseteq MatchId'
<1>1. UNCHANGED <<chainVars, notifierList, waiting, launcherCh, sending>>
  BY DEF ProcessLimitOrder
<1>2. matches \in Seq(MatchRecord) /\ Len(matches) \in Nat
  BY LenProperties DEF TypeOK
<1>3. MatchId \subseteq MatchId' /\ submitting' \in MatchId' \cup {0}
  <2>1. CASE makers = {}
    BY <2>1 DEF ProcessLimitOrder, MatchId
  <2>2. CASE makers # {}
    <3>1. PICK r : matches' = Append(matches, r)
      BY <2>2 DEF ProcessLimitOrder
    <3>2. submitting' = Len(matches) + 1
      BY <2>2 DEF ProcessLimitOrder
    <3>3. TypeOK'
      BY ProcessLimitOrderType
    <3>4. Len(matches') = Len(matches) + 1
      BY <1>2, <3>1
    <3>5. QED
      BY <1>2, <3>2, <3>4 DEF MatchId
  <2>3. QED
    BY <2>1, <2>2
<1>4. /\ sent' \in Seq(MatchId') /\ launcherCh' \in Seq(MatchId')
      /\ notifierList' \in Seq(MatchId')
  BY <1>1, <1>3, SeqMonotonic DEF MatchesKnown, chainVars
<1>5. QED
  BY <1>1, <1>3, <1>4 DEF MatchesKnown, chainVars

LEMMA MatchesKnownKeeps ==
  ASSUME TypeOK, MatchesKnown, OrdersKnown, [Next]_vars
  PROVE  MatchesKnown'
<1>1. CASE NewOrderStep
  BY <1>1, MatchesKnownNewOrder DEF NewOrderStep
<1> SUFFICES ASSUME ~NewOrderStep, MatchId' = MatchId
             PROVE  MatchesKnown'
  BY <1>1, MatchIdSame
<1>2. CASE UNCHANGED <<sent, executed, events, notifierList, waiting, launcherCh,
                       submitting, sending>>
  BY <1>2 DEF MatchesKnown
<1>3. CASE CreateOrder
  <2>1. events \in Seq(Event) /\ events' \in Seq(Event) /\ Len(events) \in Nat
    BY <1>3, TypeKeeps, LenProperties DEF TypeOK
  <2>2. /\ DOMAIN events = 1..Len(events) /\ DOMAIN events' = 1..(Len(events) + 1)
        /\ \A i \in 1..Len(events) : events'[i] = events[i]
        /\ events'[Len(events) + 1] = Created(created + 1)
    BY <1>3, <2>1 DEF CreateOrder
  <2>3. \A i \in DOMAIN events' : events'[i].kind = "match" => events'[i].id \in executed
    BY SMTT(60), <2>1, <2>2 DEF MatchesKnown, Created
  <2>4. QED
    BY <1>3, <2>3 DEF MatchesKnown, CreateOrder, durable, volatile
<1>4. CASE ExecuteSuccess
  <2> DEFINE m == Head(sent)
             new == [i \in 1..NumOfEvents(m) |-> Matched(m)]
  <2>1. m \in MatchId /\ sent' \in Seq(MatchId)
    BY <1>4, HeadTailType DEF ExecuteSuccess, MatchesKnown
  <2>2. NumOfEvents(m) \in Nat
    BY <2>1, NumOfEventsType
  <2>3. m \in Nat \ {0}
    BY <2>1 DEF MatchId
  <2> HIDE DEF m
  <2>4. new \in Seq(Event)
    BY <2>2, <2>3 DEF Matched, Event
  <2>5. \A i \in DOMAIN new : new[i].id = m
    BY DEF Matched
  <2>6. Len(new) \in Nat /\ DOMAIN new = 1..Len(new)
    BY <2>4, LenProperties
  <2> HIDE DEF new
  <2>7. events \in Seq(Event) /\ Len(events) \in Nat /\ DOMAIN events = 1..Len(events)
    BY LenProperties DEF TypeOK
  <2>8. events' = events \o new
    BY <1>4 DEF ExecuteSuccess, new, m
  <2>9. /\ DOMAIN events' = 1..(Len(events) + Len(new))
        /\ \A i \in 1..(Len(events) + Len(new)) : events'[i] =
             IF i <= Len(events) THEN events[i] ELSE new[i - Len(events)]
    BY <2>4, <2>6, <2>7, <2>8, ConcatProperties, LenProperties
  <2>10. executed' = executed \cup {m}
    BY <1>4 DEF ExecuteSuccess, m
  <2>11. \A i \in DOMAIN events' : events'[i].kind = "match" => events'[i].id \in executed'
    <3> SUFFICES ASSUME NEW i \in DOMAIN events', events'[i].kind = "match"
                 PROVE  events'[i].id \in executed'
      OBVIOUS
    <3>1. CASE i <= Len(events)
      BY <2>7, <2>9, <2>10, <3>1 DEF MatchesKnown
    <3>2. CASE i > Len(events)
      <4>1. i - Len(events) \in DOMAIN new
        BY <2>6, <2>7, <2>9, <3>2
      <4>2. events'[i] = new[i - Len(events)]
        BY <2>7, <2>9, <3>2
      <4>3. QED
        BY <2>5, <2>10, <4>1, <4>2
    <3>3. QED
      BY <2>7, <2>9, <3>1, <3>2
  <2>12. QED
    BY <1>4, <2>1, <2>10, <2>11 DEF ExecuteSuccess, MatchesKnown, durable, volatile
<1>5. CASE ExecuteFailure
  BY <1>5, HeadTailType DEF ExecuteFailure, MatchesKnown, durable, volatile
<1>6. ASSUME NEW lost \in 0..Len(events), Die(lost), Crash \/ NotifyPanic
      PROVE  MatchesKnown'
  <2>1. \A i \in DOMAIN events' : events'[i].kind = "match" => events'[i].id \in executed'
    BY <1>6, EventsLeft DEF Die, Crash, NotifyPanic
  <2>2. launcherCh' \in Seq(MatchId) /\ submitting' = 0
        /\ sending'.phase = "idle" /\ DOMAIN waiting' = {}
    BY <1>6 DEF Die, NotSending
  <2>3. QED
    BY <1>6, <2>1, <2>2 DEF Crash, NotifyPanic, MatchesKnown, durable
<1>7. CASE Crash \/ NotifyPanic
  <2>1. Len(events) \in Nat
    BY LenProperties DEF TypeOK
  <2>2. QED
    BY <1>6, <1>7, <2>1 DEF Crash, NotifyPanic
<1>8. CASE NotifyCreate \/ NotifyMatch
  <2>1. events # <<>> /\ events' = Tail(events) /\ executed' = executed
    BY <1>8 DEF NotifyCreate, NotifyMatch
  <2>2. \A i \in DOMAIN events' : events'[i].kind = "match" => events'[i].id \in executed'
    BY <2>1, TailLeft, EventsLeft
  <2>3. DOMAIN waiting' = DOMAIN waiting
    BY <1>8 DEF NotifyCreate, NotifyMatch, volatile
  <2>4. QED
    BY <1>8, <2>1, <2>2, <2>3 DEF NotifyCreate, NotifyMatch, MatchesKnown, volatile
<1>9. CASE DrainNotifier
  <2>1. Head(notifierList) \in MatchId /\ notifierList' \in Seq(MatchId)
    BY <1>9, HeadTailType DEF DrainNotifier, MatchesKnown
  <2>2. DOMAIN waiting' = DOMAIN waiting \cup {Head(notifierList)}
    BY <1>9 DEF DrainNotifier
  <2>3. QED
    BY <1>9, <2>1, <2>2 DEF DrainNotifier, MatchesKnown, chainVars
<1>10. CASE SubmitMatch
  <2>1. launcherCh' \in Seq(MatchId)
    BY <1>10, AppendProperties DEF SubmitMatch, MatchesKnown
  <2>2. QED
    BY <1>10, <2>1 DEF SubmitMatch, MatchesKnown, chainVars
<1>11. CASE TakeRequest
  <2>1. Head(launcherCh) \in MatchId /\ launcherCh' \in Seq(MatchId)
    BY <1>11, HeadTailType DEF TakeRequest, MatchesKnown
  <2>2. QED
    BY <1>11, <2>1 DEF TakeRequest, MatchesKnown, chainVars, durable
<1>12. CASE SendTransaction
  <2>1. sent' \in Seq(MatchId)
    BY <1>12, AppendProperties DEF SendTransaction, MatchesKnown
  <2>2. sending'.match = sending.match
    BY <1>12 DEF SendTransaction
  <2>3. QED
    BY <1>12, <2>1, <2>2 DEF SendTransaction, MatchesKnown, durable
<1>13. CASE SendFails
  BY <1>13 DEF SendFails, NotSending, MatchesKnown, chainVars, durable
<1>14. CASE PushWaitEvent
  <2>1. notifierList' \in Seq(MatchId)
    BY SMTT(60), <1>14, AppendProperties DEF PushWaitEvent, MatchesKnown
  <2>2. QED
    BY <1>14, <2>1 DEF PushWaitEvent, NotSending, MatchesKnown, chainVars
<1>15. QED
  BY <1>2, <1>3, <1>4, <1>5, <1>7, <1>8, <1>9, <1>10, <1>11, <1>12, <1>13, <1>14
     DEF Next, vars, chainVars, durable, volatile, Chain, CancelOrder, Restart, Notifier,
         EngineLoop, DrainEngine, PushMarket, Market, DropOrder, ConfirmMatch, Launcher

----------------------------------------------------------------------------
(* Matches are sent, executed and awaited once, and in order.              *)
LEMMA PipeTypes ==
  ASSUME TypeOK, MatchesKnown
  PROVE  /\ MatchId \subseteq Nat
         /\ Submitting \in Seq(MatchId) /\ Requests \in Seq(MatchId)
         /\ InPhase({"send"}) \in Seq(MatchId)
         /\ InPhase({"send", "tell"}) \in Seq(MatchId)
         /\ sent \in Seq(MatchId) /\ notifierList \in Seq(MatchId)
         /\ launcherCh \in Seq(MatchId)
         /\ ToExecute \in Seq(MatchId) /\ ToAwait \in Seq(MatchId)
<1>1. /\ sent \in Seq(MatchId) /\ launcherCh \in Seq(MatchId)
      /\ notifierList \in Seq(MatchId)
      /\ submitting \in MatchId \cup {0}
      /\ sending.phase # "idle" => sending.match \in MatchId
  BY DEF MatchesKnown
<1>2. Submitting \in Seq(MatchId)
  BY <1>1, EmptySeq DEF Submitting
<1>3. Requests \in Seq(MatchId)
  BY <1>1, <1>2, ConcatProperties DEF Requests
<1>4. ASSUME NEW P \in {{"send"}, {"send", "tell"}}
      PROVE  InPhase(P) \in Seq(MatchId)
  <2>1. CASE sending.phase \in P
    BY <1>1, <2>1 DEF InPhase
  <2>2. CASE sending.phase \notin P
    BY <2>2, EmptySeq DEF InPhase
  <2>3. QED
    BY <2>1, <2>2
<1>5. ToExecute \in Seq(MatchId)
  BY <1>1, <1>3, <1>4, ConcatThree DEF ToExecute
<1>6. ToAwait \in Seq(MatchId)
  BY <1>1, <1>3, <1>4, ConcatThree DEF ToAwait
<1>7. QED
  BY <1>1, <1>2, <1>3, <1>4, <1>5, <1>6 DEF MatchId

LEMMA MatchOnceNewOrder ==
  ASSUME TypeOK, MatchesKnown, MatchOnce,
         NEW makers \in SUBSET resting, NEW stays \in SUBSET makers, NEW rests \in BOOLEAN,
         ProcessLimitOrder(makers, stays, rests)
  PROVE  MatchOnce'
<1>1. UNCHANGED <<sent, executed, notifierList, waiting, launcherCh, sending>>
  BY DEF ProcessLimitOrder, chainVars
<1>2. InPhase({"send"})' = InPhase({"send"}) /\ InPhase({"send", "tell"})' = InPhase({"send", "tell"})
  BY <1>1 DEF InPhase
<1>3. CASE makers = {}
  <2>1. submitting' = submitting
    BY <1>3 DEF ProcessLimitOrder
  <2>2. Requests' = Requests
    BY <1>1, <2>1 DEF Requests, Submitting
  <2>3. QED
    BY <1>1, <1>2, <2>2 DEF MatchOnce, ToExecute, ToAwait
<1>4. CASE makers # {}
  <2> DEFINE n == Len(matches) + 1
  <2>1. submitting = 0 /\ submitting' = n
    BY <1>4 DEF ProcessLimitOrder
  <2>2. Len(matches) \in Nat
    BY LenProperties DEF TypeOK
  <2>3. n \in Nat /\ n # 0 /\ \A m \in MatchId : m < n
    BY <2>2 DEF MatchId
  <2> HIDE DEF n
  <2>4. Requests = launcherCh /\ Requests' = launcherCh \o <<n>>
    <3>1. Requests = launcherCh \o <<>>
      BY <2>1 DEF Requests, Submitting
    <3>2. Requests' = launcherCh \o <<n>>
      BY <1>1, <2>1, <2>3 DEF Requests, Submitting
    <3>3. QED
      BY <3>1, <3>2, PipeTypes, ConcatEmptySeq
  <2>5. <<n>> \in Seq(Nat) /\ launcherCh \in Seq(Nat)
        /\ sent \o InPhase({"send"}) \in Seq(Nat)
        /\ notifierList \o InPhase({"send", "tell"}) \in Seq(Nat)
    <3>1. <<n>> \in Seq(Nat)
      BY <2>3
    <3>2. launcherCh \in Seq(Nat)
      BY PipeTypes, SeqMonotonic
    <3>3. sent \o InPhase({"send"}) \in Seq(MatchId)
          /\ notifierList \o InPhase({"send", "tell"}) \in Seq(MatchId)
      BY PipeTypes, ConcatProperties
    <3>4. QED
      BY <3>1, <3>2, <3>3, PipeTypes, SeqMonotonic
  <2>6. ToExecute' = ToExecute \o <<n>> /\ ToAwait' = ToAwait \o <<n>>
    <3>1. ToExecute = (sent \o InPhase({"send"})) \o launcherCh
          /\ ToExecute' = (sent \o InPhase({"send"})) \o (launcherCh \o <<n>>)
      BY <1>1, <1>2, <2>4 DEF ToExecute
    <3>2. ToAwait = (notifierList \o InPhase({"send", "tell"})) \o launcherCh
          /\ ToAwait' = (notifierList \o InPhase({"send", "tell"})) \o (launcherCh \o <<n>>)
      BY <1>1, <1>2, <2>4 DEF ToAwait
    <3>3. \A s \in Seq(Nat) : s \o (launcherCh \o <<n>>) = (s \o launcherCh) \o <<n>>
      BY SMTT(60), <2>5, ConcatAssociative
    <3>4. QED
      BY <2>5, <3>1, <3>2, <3>3
  <2>7. executed \subseteq MatchId /\ DOMAIN waiting \subseteq MatchId
    BY DEF MatchesKnown
  <2>8. MatchesFollow(executed, ToExecute \o <<n>>)
    BY <2>3, <2>7, PipeTypes, MatchesEnd DEF MatchOnce
  <2>9. MatchesFollow(DOMAIN waiting, ToAwait \o <<n>>)
    BY <2>3, <2>7, PipeTypes, MatchesEnd DEF MatchOnce
  <2>10. QED
    BY <1>1, <2>6, <2>8, <2>9 DEF MatchOnce
<1>5. QED
  BY <1>3, <1>4

LEMMA MatchOnceChain ==
  ASSUME TypeOK, MatchesKnown, MatchOnce, ExecuteSuccess \/ ExecuteFailure
  PROVE  MatchOnce'
<1> DEFINE h == Head(sent)
           t == Tail(sent)
<1>1. UNCHANGED <<notifierList, waiting, launcherCh, submitting, sending>>
  BY DEF ExecuteSuccess, ExecuteFailure, durable, volatile
<1>2. /\ InPhase({"send"})' = InPhase({"send"}) /\ Requests' = Requests
      /\ ToAwait' = ToAwait
  BY <1>1 DEF InPhase, Requests, Submitting, ToAwait
<1>3. sent # <<>> /\ sent' = t /\ executed' \subseteq executed \cup {h}
  BY DEF ExecuteSuccess, ExecuteFailure
<1>4. h \in MatchId /\ t \in Seq(MatchId) /\ sent = <<h>> \o t
  BY <1>3, PipeTypes, HeadThenTail
<1> HIDE DEF h, t
<1>5. ToExecute = <<h>> \o ToExecute' /\ ToExecute' \in Seq(MatchId)
  <2> DEFINE I == InPhase({"send"})
  <2>1. I \in Seq(MatchId) /\ Requests \in Seq(MatchId) /\ <<h>> \in Seq(MatchId)
    BY <1>4, PipeTypes
  <2>2. ToExecute = ((<<h>> \o t) \o I) \o Requests
    BY <1>4 DEF ToExecute
  <2>3. ToExecute' = (t \o I) \o Requests
    BY <1>2, <1>3 DEF ToExecute
  <2> HIDE DEF I
  <2>4. (<<h>> \o t) \o I = <<h>> \o (t \o I) /\ t \o I \in Seq(MatchId)
    BY <1>4, <2>1, ConcatAssociative, ConcatProperties
  <2>5. (<<h>> \o (t \o I)) \o Requests = <<h>> \o ((t \o I) \o Requests)
        /\ (t \o I) \o Requests \in Seq(MatchId)
    BY <2>1, <2>4, ConcatAssociative, ConcatProperties
  <2>6. QED
    BY <2>2, <2>3, <2>4, <2>5
<1>6. MatchesFollow(executed \cup {h}, ToExecute')
  BY <1>4, <1>5, PipeTypes, MatchesHeadPasses DEF MatchOnce
<1>7. MatchesFollow(executed', ToExecute')
  BY <1>3, <1>6 DEF MatchesFollow
<1>8. QED
  BY <1>1, <1>2, <1>7 DEF MatchOnce

LEMMA MatchOnceDrainNotifier ==
  ASSUME TypeOK, MatchesKnown, MatchOnce, DrainNotifier
  PROVE  MatchOnce'
<1> DEFINE h == Head(notifierList)
           t == Tail(notifierList)
<1>1. UNCHANGED <<sent, executed, launcherCh, submitting, sending>>
  BY DEF DrainNotifier, chainVars
<1>2. /\ InPhase({"send", "tell"})' = InPhase({"send", "tell"}) /\ Requests' = Requests
      /\ ToExecute' = ToExecute
  BY <1>1 DEF InPhase, Requests, Submitting, ToExecute
<1>3. notifierList # <<>> /\ notifierList' = t /\ DOMAIN waiting' = DOMAIN waiting \cup {h}
  BY DEF DrainNotifier
<1>4. h \in MatchId /\ t \in Seq(MatchId) /\ notifierList = <<h>> \o t
  BY <1>3, PipeTypes, HeadThenTail
<1> HIDE DEF h, t
<1>5. ToAwait = <<h>> \o ToAwait' /\ ToAwait' \in Seq(MatchId)
  <2> DEFINE I == InPhase({"send", "tell"})
  <2>1. I \in Seq(MatchId) /\ Requests \in Seq(MatchId) /\ <<h>> \in Seq(MatchId)
    BY <1>4, PipeTypes
  <2>2. ToAwait = ((<<h>> \o t) \o I) \o Requests
    BY <1>4 DEF ToAwait
  <2>3. ToAwait' = (t \o I) \o Requests
    BY <1>2, <1>3 DEF ToAwait
  <2> HIDE DEF I
  <2>4. (<<h>> \o t) \o I = <<h>> \o (t \o I) /\ t \o I \in Seq(MatchId)
    BY <1>4, <2>1, ConcatAssociative, ConcatProperties
  <2>5. (<<h>> \o (t \o I)) \o Requests = <<h>> \o ((t \o I) \o Requests)
        /\ (t \o I) \o Requests \in Seq(MatchId)
    BY <2>1, <2>4, ConcatAssociative, ConcatProperties
  <2>6. QED
    BY <2>2, <2>3, <2>4, <2>5
<1>6. MatchesFollow(DOMAIN waiting \cup {h}, ToAwait')
  BY <1>4, <1>5, PipeTypes, MatchesHeadPasses DEF MatchOnce
<1>7. QED
  BY <1>1, <1>2, <1>3, <1>6 DEF MatchOnce

LEMMA MatchOnceSubmit ==
  ASSUME TypeOK, MatchesKnown, MatchOnce, SubmitMatch
  PROVE  MatchOnce'
<1>1. UNCHANGED <<sent, executed, notifierList, waiting, sending>>
  BY DEF SubmitMatch, chainVars
<1>2. submitting \in MatchId /\ submitting # 0 /\ submitting' = 0
      /\ launcherCh' = Append(launcherCh, submitting)
  BY DEF SubmitMatch, MatchesKnown
<1>3. launcherCh' = launcherCh \o <<submitting>> /\ launcherCh' \in Seq(MatchId)
  BY <1>2, PipeTypes, AppendIsConcat, AppendProperties
<1>4. Requests' = launcherCh' \o <<>> /\ Requests = launcherCh \o <<submitting>>
  BY <1>2 DEF Requests, Submitting
<1>5. Requests' = Requests
  BY <1>3, <1>4, ConcatEmptySeq
<1>6. QED
  BY <1>1, <1>5 DEF MatchOnce, ToExecute, ToAwait, InPhase

LEMMA MatchOnceTakeRequest ==
  ASSUME TypeOK, MatchesKnown, MatchOnce, TakeRequest
  PROVE  MatchOnce'
<1> DEFINE h == Head(launcherCh)
           t == Tail(launcherCh)
<1>1. UNCHANGED <<sent, executed, notifierList, waiting, submitting>>
  BY DEF TakeRequest, chainVars, durable
<1>2. launcherCh # <<>> /\ launcherCh' = t
  BY DEF TakeRequest
<1>3. h \in MatchId /\ t \in Seq(MatchId) /\ launcherCh = <<h>> \o t
  BY <1>2, PipeTypes, HeadThenTail
<1>4. ASSUME NEW P \in {{"send"}, {"send", "tell"}}
      PROVE  InPhase(P) = <<>> /\ InPhase(P)' = <<h>>
  BY DEF InPhase, TakeRequest
<1> HIDE DEF h, t
<1>5. /\ <<h>> \in Seq(MatchId) /\ Submitting \in Seq(MatchId) /\ Submitting' = Submitting
      /\ t \o Submitting \in Seq(MatchId)
  BY <1>1, <1>3, PipeTypes, ConcatProperties DEF Submitting
<1>6. Requests = <<h>> \o Requests' /\ Requests' \in Seq(MatchId)
  <2>1. Requests = (<<h>> \o t) \o Submitting /\ Requests' = t \o Submitting
    BY <1>2, <1>3, <1>5 DEF Requests
  <2>2. QED
    BY <1>3, <1>5, <2>1, ConcatAssociative
<1>7. ASSUME NEW q \in Seq(MatchId)
      PROVE  (q \o <<>>) \o Requests = (q \o <<h>>) \o Requests'
  <2>1. q \o <<>> = q
    BY ConcatEmptySeq
  <2>2. (q \o <<h>>) \o Requests' = q \o (<<h>> \o Requests')
    BY <1>5, <1>6, ConcatAssociative
  <2>3. QED
    BY <1>6, <2>1, <2>2
<1>8. ToExecute' = ToExecute
  BY <1>1, <1>4, <1>7, PipeTypes DEF ToExecute
<1>9. ToAwait' = ToAwait
  BY <1>1, <1>4, <1>7, PipeTypes DEF ToAwait
<1>10. QED
  BY <1>1, <1>8, <1>9 DEF MatchOnce

LEMMA MatchOnceSendTransaction ==
  ASSUME TypeOK, MatchesKnown, MatchOnce, SendTransaction
  PROVE  MatchOnce'
<1> DEFINE m == sending.match
<1>1. UNCHANGED <<executed, notifierList, waiting, launcherCh, submitting>>
  BY DEF SendTransaction, durable
<1>2. sent' = Append(sent, m) /\ m \in MatchId
  BY DEF SendTransaction, MatchesKnown
<1>3. /\ InPhase({"send"}) = <<m>> /\ InPhase({"send"})' = <<>>
      /\ InPhase({"send", "tell"})' = InPhase({"send", "tell"})
  BY DEF InPhase, SendTransaction, TypeOK
<1>4. Requests' = Requests
  BY <1>1 DEF Requests, Submitting
<1> HIDE DEF m
<1>5. sent' = sent \o <<m>> /\ sent' \in Seq(MatchId)
  BY <1>2, PipeTypes, AppendIsConcat, AppendProperties
<1>6. sent' \o <<>> = sent'
  BY <1>5, ConcatEmptySeq
<1>7. ToExecute' = ToExecute /\ ToAwait' = ToAwait
  BY <1>1, <1>3, <1>4, <1>5, <1>6 DEF ToExecute, ToAwait
<1>8. QED
  BY <1>1, <1>7 DEF MatchOnce

(* Whatever the launcher holds and does not pass on is dropped.            *)
LEMMA MatchOnceDropped ==
  ASSUME TypeOK, MatchesKnown, MatchOnce,
         NEW q \in Seq(MatchId), NEW P \in {{"send"}, {"send", "tell"}}, NEW passed,
         MatchesFollow(passed, q \o InPhase(P) \o Requests)
  PROVE  MatchesFollow(passed, q \o <<>> \o Requests)
<1>1. InPhase(P) \in Seq(MatchId) /\ Requests \in Seq(MatchId) /\ MatchId \subseteq Nat
  BY PipeTypes
<1>2. MatchesFollow(passed, q \o Requests)
  BY <1>1, MatchesDropped
<1>3. q \o <<>> = q
  BY ConcatEmptySeq
<1>4. QED
  BY <1>2, <1>3

LEMMA MatchOnceSendFails ==
  ASSUME TypeOK, MatchesKnown, MatchOnce, SendFails
  PROVE  MatchOnce'
<1>1. UNCHANGED <<sent, executed, notifierList, waiting, launcherCh, submitting>>
  BY DEF SendFails, chainVars, durable
<1>2. InPhase({"send"})' = <<>> /\ InPhase({"send", "tell"})' = <<>>
  BY DEF InPhase, SendFails, NotSending
<1>3. Requests' = Requests
  BY <1>1 DEF Requests, Submitting
<1>4. MatchesFollow(executed, sent \o <<>> \o Requests)
  BY MatchOnceDropped, PipeTypes DEF MatchOnce, ToExecute
<1>5. MatchesFollow(DOMAIN waiting, notifierList \o <<>> \o Requests)
  BY MatchOnceDropped, PipeTypes DEF MatchOnce, ToAwait
<1>6. ToExecute' = sent \o <<>> \o Requests /\ ToAwait' = notifierList \o <<>> \o Requests
  BY <1>1, <1>2, <1>3 DEF ToExecute, ToAwait
<1>7. QED
  BY <1>1, <1>4, <1>5, <1>6 DEF MatchOnce

LEMMA MatchOncePushWaitEvent ==
  ASSUME TypeOK, MatchesKnown, MatchOnce, PushWaitEvent
  PROVE  MatchOnce'
<1> DEFINE m == sending.match
<1>1. UNCHANGED <<sent, executed, waiting, launcherCh, submitting>>
  BY DEF PushWaitEvent, chainVars
<1>2. m \in MatchId
  BY DEF PushWaitEvent, MatchesKnown
<1>3. /\ InPhase({"send"}) = <<>> /\ InPhase({"send"})' = <<>>
      /\ InPhase({"send", "tell"}) = <<m>> /\ InPhase({"send", "tell"})' = <<>>
  BY DEF InPhase, PushWaitEvent, NotSending
<1>4. Requests' = Requests
  BY <1>1 DEF Requests, Submitting
<1>5. ToExecute' = ToExecute
  BY <1>1, <1>3, <1>4 DEF ToExecute
<1>6. MatchesFollow(DOMAIN waiting, ToAwait')
  <2>1. CASE notifierList' = notifierList
    <3>1. ToAwait' = notifierList \o <<>> \o Requests
      BY <1>3, <1>4, <2>1 DEF ToAwait
    <3>2. MatchesFollow(DOMAIN waiting, notifierList \o <<>> \o Requests)
      BY MatchOnceDropped, PipeTypes DEF MatchOnce, ToAwait
    <3>3. QED
      BY <3>1, <3>2
  <2>2. CASE notifierList' = Append(notifierList, m)
    <3> HIDE DEF m
    <3>1. notifierList' = notifierList \o <<m>> /\ notifierList' \in Seq(MatchId)
      BY <1>2, <2>2, PipeTypes, AppendIsConcat, AppendProperties
    <3>2. notifierList' \o <<>> = notifierList'
      BY <3>1, ConcatEmptySeq
    <3>3. ToAwait' = ToAwait
      BY <1>3, <1>4, <3>1, <3>2 DEF ToAwait
    <3>4. QED
      BY <3>3 DEF MatchOnce
  <2>3. QED
    BY <2>1, <2>2 DEF PushWaitEvent
<1>7. QED
  BY <1>1, <1>5, <1>6 DEF MatchOnce

LEMMA MatchOnceDie ==
  ASSUME TypeOK, MatchesKnown, MatchOnce, Crash \/ NotifyPanic
  PROVE  MatchOnce'
<1>1. PICK lost : Die(lost)
  BY DEF Crash, NotifyPanic
<1>2. /\ UNCHANGED <<sent, executed, notifierList>> /\ waiting' = [m \in {} |-> 0]
      /\ launcherCh' = <<>> /\ submitting' = 0 /\ sending' = NotSending
  BY <1>1 DEF Die, Crash, NotifyPanic, durable
<1>3. /\ InPhase({"send"})' = <<>> /\ InPhase({"send", "tell"})' = <<>>
      /\ Requests' = <<>> \o <<>>
  BY <1>2 DEF InPhase, NotSending, Requests, Submitting
<1>4. <<>> \o <<>> = <<>>
  BY EmptySeq, ConcatEmptySeq
<1>5. ASSUME NEW q \in Seq(MatchId), NEW P \in {{"send"}, {"send", "tell"}}, NEW passed,
             MatchesFollow(passed, q \o InPhase(P) \o Requests)
      PROVE  MatchesFollow(passed, q)
  <2>1. InPhase(P) \in Seq(MatchId) /\ Requests \in Seq(MatchId) /\ MatchId \subseteq Nat
        /\ <<>> \in Seq(MatchId) /\ InPhase(P) \o Requests \in Seq(MatchId)
    BY PipeTypes, EmptySeq, ConcatProperties
  <2>2. q \o InPhase(P) \o Requests = q \o (InPhase(P) \o Requests) \o <<>>
    BY <2>1, ConcatAssociative, ConcatEmptySeq
  <2>3. MatchesFollow(passed, q \o <<>>)
    BY <1>5, <2>1, <2>2, MatchesDropped
  <2>4. QED
    BY <2>3, ConcatEmptySeq
<1>6. ToExecute' = sent /\ ToAwait' = notifierList
  <2>1. (sent \o <<>>) \o <<>> = sent /\ (notifierList \o <<>>) \o <<>> = notifierList
    BY PipeTypes, ConcatEmptySeq
  <2>2. QED
    BY <1>2, <1>3, <1>4, <2>1 DEF ToExecute, ToAwait
<1>7. MatchesFollow(executed, sent) /\ MatchesFollow(DOMAIN waiting, notifierList)
  BY <1>5, PipeTypes DEF MatchOnce, ToExecute, ToAwait
<1>8. QED
  BY <1>2, <1>6, <1>7 DEF MatchOnce, MatchesFollow

LEMMA MatchOnceKeeps ==
  ASSUME TypeOK, MatchesKnown, MatchOnce, [Next]_vars
  PROVE  MatchOnce'
<1>1. CASE UNCHANGED <<sent, executed, notifierList, waiting, launcherCh, submitting, sending>>
  BY <1>1 DEF MatchOnce, ToExecute, ToAwait, InPhase, Requests, Submitting
<1>2. CASE NewOrderStep
  BY <1>2, MatchOnceNewOrder DEF NewOrderStep
<1>3. CASE NotifyMatch
  <2>1. DOMAIN waiting' = DOMAIN waiting
    BY <1>3 DEF NotifyMatch
  <2>2. QED
    BY <1>3, <2>1 DEF NotifyMatch, MatchOnce, ToExecute, ToAwait, InPhase, Requests,
                      Submitting
<1>4. QED
  BY <1>1, <1>2, <1>3, MatchOnceChain, MatchOnceDrainNotifier, MatchOnceSubmit,
     MatchOnceTakeRequest, MatchOnceSendTransaction, MatchOnceSendFails,
     MatchOncePushWaitEvent, MatchOnceDie
     DEF Next, vars, chainVars, durable, volatile, Chain, CreateOrder, CancelOrder, Restart,
         Notifier, NotifyCreate, EngineLoop, DrainEngine, PushMarket, Market, DropOrder,
         ConfirmMatch, Launcher

----------------------------------------------------------------------------
(* Orders on their way.                                                    *)

Parcel == Message \cup Event

LEMMA WayTypes ==
  ASSUME TypeOK
  PROVE  /\ marketCh \in Seq(Parcel) /\ inHand \in Seq(Parcel)
         /\ engineList \in Seq(Parcel) /\ events \in Seq(Parcel)
         /\ marketCh \o inHand \in Seq(Parcel)
         /\ Mail \in Seq(Parcel) /\ Way \in Seq(Parcel)
         /\ \A i \in DOMAIN Way : IsOrder(Way[i]) => Way[i].id \in Nat
         /\ created \in Nat
<1>1. /\ marketCh \in Seq(Parcel) /\ inHand \in Seq(Parcel)
      /\ engineList \in Seq(Parcel) /\ events \in Seq(Parcel)
  <2>1. Message \subseteq Parcel /\ Event \subseteq Parcel
    BY DEF Parcel
  <2>2. QED
    BY <2>1, SeqMonotonic DEF TypeOK
<1>2. marketCh \o inHand \in Seq(Parcel)
  BY <1>1, ConcatProperties
<1>3. Mail \in Seq(Parcel)
  BY <1>1, <1>2, ConcatProperties DEF Mail
<1>4. Way \in Seq(Parcel)
  BY <1>1, <1>3, ConcatProperties DEF Way
<1>5. \A e \in Parcel : IsOrder(e) => e.id \in Nat
  BY BoundAssumption DEF Parcel, Message, Event, Id, IsOrder
<1>6. \A i \in DOMAIN Way : Way[i] \in Parcel
  BY <1>4, ElementOfSeq, LenProperties
<1>7. QED
  BY <1>1, <1>2, <1>3, <1>4, <1>5, <1>6, CountersType

OrdersFine == OrdersGoOn(DOMAIN rows, created, Way)

LEMMA OrdersFineIs ==
  OrdersKnown /\ ArrivalOrder
    <=> /\ OrdersFine /\ DOMAIN rows \subseteq 1..created
        /\ resting \subseteq DOMAIN rows /\ view \subseteq DOMAIN rows
  BY DEF OrdersKnown, ArrivalOrder, OrdersFine, OrdersGoOn

LEMMA OrdersCreated ==
  ASSUME TypeOK, OrdersKnown, ArrivalOrder, CreateOrder
  PROVE  OrdersFine'
<1> DEFINE e == Created(created + 1)
<1>1. /\ UNCHANGED <<marketCh, inHand, engineList, rows>> /\ created' = created + 1
      /\ events' = Append(events, e) /\ created < MaxOrders
  BY DEF CreateOrder, durable, volatile
<1>2. created + 1 \in Id /\ created \in Nat
  BY <1>1, CountersType DEF Id
<1>3. e \in Parcel /\ IsOrder(e) /\ e.id = created + 1
  BY <1>2 DEF Created, Parcel, Event, IsOrder
<1> HIDE DEF e
<1>4. Way' = Way \o <<e>> /\ <<e>> \in Seq(Parcel) /\ Len(<<e>>) = 1 /\ <<e>>[1] = e
      /\ DOMAIN <<e>> = {1}
  <2>1. <<e>> \in Seq(Parcel) /\ Len(<<e>>) = 1 /\ <<e>>[1] = e /\ DOMAIN <<e>> = {1}
    BY <1>3
  <2>2. events' = events \o <<e>>
    BY <1>1, <1>3, WayTypes, AppendIsConcat
  <2>3. Mail' = Mail
    BY <1>1 DEF Mail
  <2>4. QED
    BY SMTT(60), <2>1, <2>2, <2>3, WayTypes, ConcatAssociative DEF Way
<1>5. OrdersGoOn(DOMAIN rows, created, Way) /\ DOMAIN rows \subseteq 1..created
  BY OrdersFineIs DEF OrdersFine
<1>6. ~\A i \in DOMAIN <<e>> : ~IsOrder(<<e>>[i])
  BY <1>3, <1>4
<1>7. OrdersGoOn(DOMAIN rows, created + (IF \A i \in DOMAIN <<e>> : ~IsOrder(<<e>>[i]) THEN 0 ELSE 1),
                 Way \o <<e>>)
  BY <1>3, <1>4, <1>5, WayTypes, OrdersEnd
<1>8. OrdersGoOn(DOMAIN rows, created + 1, Way \o <<e>>)
  BY <1>6, <1>7
<1>9. QED
  BY <1>1, <1>4, <1>8 DEF OrdersFine

LEMMA OrdersExecuted ==
  ASSUME TypeOK, MatchesKnown, OrdersKnown, ArrivalOrder, ExecuteSuccess
  PROVE  OrdersFine'
<1> DEFINE m == Head(sent)
           r == [i \in 1..NumOfEvents(m) |-> Matched(m)]
<1>1. /\ UNCHANGED <<marketCh, inHand, engineList, rows, created>>
      /\ sent # <<>> /\ events' = events \o r
  BY DEF ExecuteSuccess, durable, volatile
<1>2. m \in MatchId
  BY <1>1, HeadTailType DEF MatchesKnown
<1>3. NumOfEvents(m) \in Nat /\ Matched(m) \in Parcel /\ ~IsOrder(Matched(m))
  BY <1>2, NumOfEventsType DEF MatchId, Matched, Parcel, Event, IsOrder
<1> HIDE DEF m
<1>4. r \in Seq(Parcel) /\ \A i \in DOMAIN r : ~IsOrder(r[i])
  BY <1>3
<1> HIDE DEF r
<1>5. Way' = Way \o r
  <2>1. Mail' = Mail
    BY <1>1 DEF Mail
  <2>2. events' = events \o r
    BY <1>1 DEF r
  <2>3. (Mail \o events) \o r = Mail \o (events \o r)
    <3>1. Mail \in Seq(Parcel) /\ events \in Seq(Parcel) /\ r \in Seq(Parcel)
      BY <1>4, WayTypes
    <3>2. QED
      BY <3>1, ConcatAssociative
  <2>4. QED
    BY <2>1, <2>2, <2>3 DEF Way
<1>6. OrdersGoOn(DOMAIN rows, created, Way) /\ DOMAIN rows \subseteq 1..created
  BY OrdersFineIs DEF OrdersFine
<1>7. OrdersGoOn(DOMAIN rows, created + (IF \A i \in DOMAIN r : ~IsOrder(r[i]) THEN 0 ELSE 1),
                 Way \o r)
  BY <1>4, <1>6, WayTypes, OrdersEnd
<1>8. OrdersGoOn(DOMAIN rows, created, Way \o r)
  BY <1>4, <1>7, WayTypes
<1>9. QED
  BY <1>1, <1>5, <1>8 DEF OrdersFine

(* The notifier moves an order from the events to the list.                *)
LEMMA OrdersNotified ==
  ASSUME TypeOK, MatchesKnown, OrdersKnown, ArrivalOrder, NotifyCreate \/ NotifyMatch
  PROVE  OrdersFine'
<1> DEFINE h == Head(events)
           t == Tail(events)
<1>1. /\ UNCHANGED <<marketCh, inHand, rows, created>> /\ events # <<>> /\ events' = t
  BY DEF NotifyCreate, NotifyMatch, volatile
<1>2. h \in Event /\ h \in Parcel /\ t \in Seq(Parcel) /\ events = <<h>> \o t
  <2>1. h \in Event
    BY <1>1, HeadTailType DEF TypeOK
  <2>2. QED
    BY <1>1, <2>1, WayTypes, HeadThenTail DEF Parcel
<1>3. \/ engineList' = engineList
      \/ \E x \in Parcel : /\ engineList' = Append(engineList, x)
                           /\ IsOrder(x) => IsOrder(h) /\ h.id = x.id
  <2>1. CASE NotifyCreate
    <3>1. NewOrder(h.id) \in Parcel /\ NewOrder(h.id).id = h.id /\ IsOrder(h)
      BY <1>2, <2>1 DEF NotifyCreate, Event, NewOrder, Message, Parcel, IsOrder
    <3>2. QED
      BY <2>1, <3>1 DEF NotifyCreate
  <2>2. CASE NotifyMatch
    <3>1. Update(h.id) \in Parcel /\ ~IsOrder(Update(h.id))
      BY <1>2, <2>2 DEF NotifyMatch, Event, Update, Message, Parcel, IsOrder
    <3>2. QED
      BY <2>2, <3>1 DEF NotifyMatch
  <2>3. QED
    BY <2>1, <2>2
<1> HIDE DEF h, t
<1>4. <<h>> \in Seq(Parcel) /\ Mail \in Seq(Parcel)
  BY <1>2, WayTypes
<1>5. Way = Mail \o <<h>> \o t
  BY <1>2, <1>4, ConcatAssociative DEF Way
<1>6. OrdersGoOn(DOMAIN rows, created, Mail \o <<h>> \o t)
  BY <1>5, OrdersFineIs DEF OrdersFine
<1>7. CASE engineList' = engineList
  <2>1. Way' = Mail \o t
    BY <1>1, <1>7 DEF Way, Mail
  <2>2. QED
    BY <1>1, <1>2, <1>4, <1>6, <2>1, OrdersDropped DEF OrdersFine
<1>8. ASSUME NEW x \in Parcel, engineList' = Append(engineList, x),
             IsOrder(x) => IsOrder(h) /\ h.id = x.id
      PROVE  OrdersFine'
  <2>1. <<x>> \in Seq(Parcel) /\ engineList' = engineList \o <<x>>
    BY <1>8, WayTypes, AppendIsConcat
  <2>2. Mail' = (marketCh \o inHand) \o (engineList \o <<x>>)
    BY <1>1, <2>1 DEF Mail
  <2>3. Mail' = Mail \o <<x>>
    <3>1. (marketCh \o inHand) \o (engineList \o <<x>>)
            = ((marketCh \o inHand) \o engineList) \o <<x>>
      <4>1. /\ marketCh \o inHand \in Seq(Parcel) /\ engineList \in Seq(Parcel)
            /\ <<x>> \in Seq(Parcel)
        BY <2>1, WayTypes
      <4>2. QED
        BY <4>1, ConcatAssociative
    <3>2. QED
      BY <2>2, <3>1 DEF Mail
  <2>4. Way' = Mail \o <<x>> \o t
    BY <1>1, <2>3 DEF Way
  <2>5. QED
    BY <1>1, <1>2, <1>4, <1>6, <1>8, <2>4, OrdersReplaced DEF OrdersFine
<1>9. QED
  BY <1>3, <1>7, <1>8

(* The engine loop moves a message on.                                     *)
LEMMA WayMoved ==
  ASSUME TypeOK, EngineLoop
  PROVE  Mail' = Mail /\ Way' = Way
<1>1. CASE DrainEngine
  <2> DEFINE h == Head(engineList)
             t == Tail(engineList)
  <2>1. /\ inHand = <<>> /\ inHand' = <<h>> /\ engineList # <<>> /\ engineList' = t
        /\ UNCHANGED <<marketCh, events>>
    BY <1>1 DEF DrainEngine, chainVars
  <2>2. h \in Parcel /\ t \in Seq(Parcel) /\ engineList = <<h>> \o t
    BY <2>1, WayTypes, HeadThenTail
  <2> HIDE DEF h, t
  <2>3. <<h>> \in Seq(Parcel) /\ marketCh \in Seq(Parcel) /\ marketCh \o <<>> = marketCh
    BY <2>2, WayTypes, ConcatEmptySeq
  <2>4. Mail = marketCh \o (<<h>> \o t) /\ Mail' = (marketCh \o <<h>>) \o t
    BY <2>1, <2>2, <2>3 DEF Mail
  <2>5. Mail' = Mail
    BY <2>2, <2>3, <2>4, ConcatAssociative
  <2>6. QED
    BY <2>1, <2>5 DEF Way
<1>2. CASE PushMarket
  <2> DEFINE h == inHand[1]
  <2>1. /\ inHand # <<>> /\ inHand' = <<>> /\ marketCh' = Append(marketCh, h)
        /\ UNCHANGED <<engineList, events>>
    BY <1>2 DEF PushMarket, chainVars, durable
  <2>2. inHand = <<h>> /\ h \in Parcel
    <3>1. inHand \in Seq(Parcel) /\ Len(inHand) \in Nat /\ Len(inHand) <= 1
      BY WayTypes, LenProperties DEF TypeOK
    <3>2. Len(inHand) = 1 /\ Len(<<h>>) = 1
      <4>1. Len(inHand) # 0
        BY <2>1, <3>1, EmptySeq
      <4>2. QED
        BY <3>1, <4>1
    <3>3. h \in Parcel /\ <<h>> \in Seq(Parcel)
      BY <3>1, <3>2, ElementOfSeq
    <3>4. \A i \in 1..Len(inHand) : inHand[i] = <<h>>[i]
      BY <3>2
    <3>5. inHand = <<h>>
      BY <3>1, <3>2, <3>3, <3>4, SeqEqual
    <3>6. QED
      BY <3>3, <3>5
  <2> HIDE DEF h
  <2>3. marketCh' = marketCh \o inHand /\ marketCh \o inHand \in Seq(Parcel)
    BY <2>1, <2>2, WayTypes, AppendIsConcat
  <2>4. marketCh' \o inHand' = marketCh \o inHand
    BY <2>1, <2>3, ConcatEmptySeq
  <2>5. Mail' = Mail
    BY <2>1, <2>4 DEF Mail
  <2>6. QED
    BY <2>1, <2>5 DEF Way
<1>3. QED
  BY <1>1, <1>2 DEF EngineLoop

(* The market takes the head of its channel.                               *)
LEMMA WayTaken ==
  ASSUME TypeOK, marketCh # <<>>, marketCh' = Tail(marketCh),
         UNCHANGED <<inHand, engineList, events>>
  PROVE  /\ Head(marketCh) \in Parcel
         /\ Mail' \in Seq(Parcel) /\ Way' \in Seq(Parcel)
         /\ Mail = <<Head(marketCh)>> \o Mail' /\ Way = <<Head(marketCh)>> \o Way'
<1> DEFINE h == Head(marketCh)
           t == Tail(marketCh)
<1>1. h \in Parcel /\ t \in Seq(Parcel) /\ marketCh = <<h>> \o t
  BY WayTypes, HeadThenTail
<1>2. marketCh' = t
  OBVIOUS
<1> HIDE DEF h, t
<1>3. <<h>> \in Seq(Parcel) /\ t \o inHand \in Seq(Parcel)
  BY <1>1, WayTypes, ConcatProperties
<1>4. Mail' = t \o inHand \o engineList /\ Mail' \in Seq(Parcel)
  BY <1>2, <1>3, WayTypes, ConcatProperties DEF Mail
<1>5. Mail = <<h>> \o Mail'
  <2>1. marketCh \o inHand = <<h>> \o (t \o inHand)
    BY SMTT(60), <1>1, <1>3, WayTypes, ConcatAssociative
  <2>2. (<<h>> \o (t \o inHand)) \o engineList = <<h>> \o ((t \o inHand) \o engineList)
    <3>1. engineList \in Seq(Parcel)
      BY WayTypes
    <3>2. QED
      BY <1>3, <3>1, ConcatAssociative
  <2>3. QED
    BY <1>4, <2>1, <2>2 DEF Mail
<1>6. Way' \in Seq(Parcel) /\ Way = <<h>> \o Way'
  <2>1. Way' = Mail' \o events
    BY DEF Way
  <2>2. Mail' \o events \in Seq(Parcel)
    BY <1>4, WayTypes, ConcatProperties
  <2>3. (<<h>> \o Mail') \o events = <<h>> \o (Mail' \o events)
    <3>1. events \in Seq(Parcel) /\ <<h>> \in Seq(Parcel) /\ Mail' \in Seq(Parcel)
      BY <1>3, <1>4, WayTypes
    <3>2. QED
      BY <3>1, ConcatAssociative
  <2>4. QED
    BY <1>5, <2>1, <2>2, <2>3 DEF Way
<1>7. QED
  BY <1>1, <1>4, <1>5, <1>6 DEF h

LEMMA OrdersTaken ==
  ASSUME TypeOK, OrdersKnown, ArrivalOrder, NewOrderStep \/ DropOrder \/ ConfirmMatch
  PROVE  OrdersFine' /\ DOMAIN rows' \subseteq 1..created'
<1> DEFINE h == Head(marketCh)
<1>1. /\ marketCh # <<>> /\ marketCh' = Tail(marketCh)
      /\ UNCHANGED <<inHand, engineList, events, created>>
  BY ZenonT(60) DEF NewOrderStep, ProcessLimitOrder, DropOrder, ConfirmMatch, chainVars, durable
<1>2. h \in Parcel /\ Way' \in Seq(Parcel) /\ Way = <<h>> \o Way'
  BY <1>1, WayTaken
<1>3. OrdersGoOn(DOMAIN rows, created, <<h>> \o Way') /\ DOMAIN rows \subseteq 1..created
  BY <1>2, OrdersFineIs DEF OrdersFine
<1>4. /\ OrdersGoOn(DOMAIN rows, created, Way')
      /\ IsOrder(h) => OrdersGoOn(DOMAIN rows \cup {h.id}, created, Way') /\ h.id <= created
  BY <1>2, <1>3, OrdersHeadPasses
<1>5. CASE DOMAIN rows' = DOMAIN rows
  BY <1>1, <1>3, <1>4, <1>5 DEF OrdersFine
<1>6. CASE IsOrder(h) /\ DOMAIN rows' = DOMAIN rows \cup {h.id}
  <2>1. h \in Message /\ h.id \in Id
    <3>1. h \in Message
      BY <1>1, HeadTailType DEF TypeOK
    <3>2. QED
      BY <1>6, <3>1 DEF Message, IsOrder
  <2>2. h.id \in 1..created
    BY <1>4, <1>6, <2>1, WayTypes, BoundAssumption DEF Id
  <2>3. QED
    BY <1>1, <1>3, <1>4, <1>6, <2>2 DEF OrdersFine
<1>7. ASSUME NEW makers, NEW stays, NEW rests, ProcessLimitOrder(makers, stays, rests)
      PROVE  IsOrder(h) /\ DOMAIN rows' = DOMAIN rows \cup {h.id}
  BY <1>7 DEF ProcessLimitOrder, IsOrder, Filled, PartialFilled
<1>8. CASE DropOrder \/ ConfirmMatch
  BY <1>5, <1>8 DEF DropOrder, ConfirmMatch, durable
<1>9. QED
  BY <1>6, <1>7, <1>8 DEF NewOrderStep

(* A crash loses what the process holds and the oldest events.             *)
LEMMA OrdersDie ==
  ASSUME TypeOK, OrdersKnown, ArrivalOrder, Crash \/ NotifyPanic
  PROVE  OrdersFine'
<1>1. PICK lost \in 0..Len(events) : Die(lost)
  <2>1. Len(events) \in Nat
    BY WayTypes, LenProperties
  <2>2. QED
    BY <2>1 DEF Crash, NotifyPanic
<1>2. /\ UNCHANGED <<created, engineList, rows>> /\ inHand' = <<>> /\ marketCh' = <<>>
      /\ events' = SubSeq(events, lost + 1, Len(events))
  BY <1>1 DEF Die, Crash, NotifyPanic, durable
<1> DEFINE held == marketCh \o inHand
           gone == SubSeq(events, 1, lost)
           left == SubSeq(events, lost + 1, Len(events))
<1>3. held \in Seq(Parcel) /\ engineList \in Seq(Parcel) /\ events \in Seq(Parcel)
      /\ <<>> \in Seq(Parcel)
  BY WayTypes, EmptySeq
<1>4. gone \in Seq(Parcel) /\ left \in Seq(Parcel) /\ events = gone \o left
  <2>1. Len(events) \in Nat /\ lost \in Nat /\ lost <= Len(events)
    BY <1>3, LenProperties
  <2>2. SubSeq(events, 1, Len(events)) = events
    BY <1>3, SubSeqFull
  <2>3. 1 \in 1..(Len(events) + 1) /\ lost \in (1 - 1)..Len(events)
        /\ Len(events) \in lost..Len(events)
    BY <2>1
  <2>4. gone \o left = SubSeq(events, 1, Len(events))
    BY <1>3, <2>3, ConcatAdjacentSubSeq
  <2>5. left \in Seq(Parcel)
    BY <1>3, <2>1, SuffixProperties
  <2>6. gone \in Seq(Parcel)
    <3>1. \A i \in 1..lost : events[i] \in Parcel
      BY <1>3, <2>1, ElementOfSeq
    <3>2. QED
      BY <2>1, <3>1, SubSeqProperties
  <2>7. QED
    BY <2>2, <2>4, <2>5, <2>6
<1>5. Way' = engineList \o left
  <2>1. Mail' = (<<>> \o <<>>) \o engineList
    BY <1>2 DEF Mail
  <2>2. Mail' = engineList
    BY <1>3, <2>1, ConcatEmptySeq
  <2>3. QED
    BY <1>2, <2>2 DEF Way
<1>6. Way = held \o engineList \o (gone \o left)
  BY <1>4 DEF Way, Mail
<1> HIDE DEF held, gone, left
<1>7. engineList \o (gone \o left) \in Seq(Parcel) /\ gone \o left \in Seq(Parcel)
  BY <1>3, <1>4, ConcatProperties
<1>8. Way = <<>> \o held \o (engineList \o (gone \o left))
  <2>1. <<>> \o held = held
    BY <1>3, ConcatEmptySeq
  <2>2. (held \o engineList) \o (gone \o left) = held \o (engineList \o (gone \o left))
    <3>1. \A q \in Seq(Parcel) : (held \o engineList) \o q = held \o (engineList \o q)
      BY SMTT(60), <1>3, ConcatAssociative
    <3>2. QED
      BY <1>7, <3>1
  <2>3. QED
    BY <1>6, <2>1, <2>2
<1>9. OrdersGoOn(DOMAIN rows, created, Way)
  BY OrdersFineIs DEF OrdersFine
<1>10. OrdersGoOn(DOMAIN rows, created, engineList \o (gone \o left))
  <2>1. OrdersGoOn(DOMAIN rows, created, <<>> \o (engineList \o (gone \o left)))
    BY <1>3, <1>7, <1>8, <1>9, OrdersDropped
  <2>2. QED
    BY <1>7, <2>1, ConcatEmptySeq
<1>11. OrdersGoOn(DOMAIN rows, created, engineList \o gone \o left)
  <2>1. (engineList \o gone) \o left = engineList \o (gone \o left)
    BY SMTT(60), <1>3, <1>4, ConcatAssociative
  <2>2. QED
    BY <1>10, <2>1
<1>12. OrdersGoOn(DOMAIN rows, created, engineList \o left)
  BY <1>3, <1>4, <1>11, OrdersDropped
<1>13. QED
  BY <1>2, <1>5, <1>12 DEF OrdersFine

(* What rests, or is shown to rest, has a row.                             *)
LEMMA RestingKeeps ==
  ASSUME TypeOK, OrdersKnown, [Next]_vars
  PROVE  resting' \subseteq DOMAIN rows' /\ view' \subseteq DOMAIN rows'
<1>1. ASSUME NEW makers \in SUBSET resting, NEW stays, NEW rests,
             ProcessLimitOrder(makers, stays, rests)
      PROVE  resting' \subseteq DOMAIN rows' /\ view' \subseteq DOMAIN rows'
  <2>1. DOMAIN rows' = DOMAIN rows \cup {Head(marketCh).id}
    BY <1>1 DEF ProcessLimitOrder, Filled, PartialFilled
  <2>2. resting' \subseteq resting \cup {Head(marketCh).id} /\ view' \in {view, resting'}
    BY <1>1 DEF ProcessLimitOrder
  <2>3. QED
    BY <2>1, <2>2 DEF OrdersKnown
<1>2. CASE SubmitMatch
  BY <1>2 DEF SubmitMatch, OrdersKnown
<1>3. CASE ConfirmMatch
  <2>1. DOMAIN rows' = DOMAIN rows /\ UNCHANGED <<resting, view>>
    BY <1>3 DEF ConfirmMatch
  <2>2. QED
    BY <2>1 DEF OrdersKnown
<1>4. CASE Crash \/ NotifyPanic
  BY <1>4 DEF Crash, NotifyPanic, Die, durable, OrdersKnown
<1>5. CASE UNCHANGED <<rows, resting, view>>
  BY <1>5 DEF OrdersKnown
<1>6. QED
  BY <1>1, <1>2, <1>3, <1>4, <1>5
     DEF Next, vars, durable, volatile, Chain, CreateOrder, CancelOrder, ExecuteSuccess,
         ExecuteFailure, Restart, Notifier, NotifyCreate, NotifyMatch, DrainNotifier,
         EngineLoop, DrainEngine, PushMarket, Market, NewOrderStep, DropOrder, Launcher,
         TakeRequest, SendTransaction, SendFails, PushWaitEvent

LEMMA OrdersKeep ==
  ASSUME TypeOK, MatchesKnown, OrdersKnown, ArrivalOrder, [Next]_vars
  PROVE  OrdersKnown' /\ ArrivalOrder'
<1>1. OrdersFine /\ DOMAIN rows \subseteq 1..created
  BY OrdersFineIs
<1>2. OrdersFine' /\ DOMAIN rows' \subseteq 1..created'
  <2>1. CASE UNCHANGED <<marketCh, inHand, engineList, events, rows, created>>
    BY <1>1, <2>1 DEF OrdersFine, Way, Mail
  <2>2. CASE CreateOrder
    BY <1>1, <2>2, OrdersCreated, CountersType DEF CreateOrder, durable
  <2>3. CASE ExecuteSuccess
    BY <1>1, <2>3, OrdersExecuted DEF ExecuteSuccess, durable
  <2>4. CASE NotifyCreate \/ NotifyMatch
    BY <1>1, <2>4, OrdersNotified DEF NotifyCreate, NotifyMatch
  <2>5. CASE EngineLoop
    <3>1. UNCHANGED <<rows, created>>
      BY <2>5 DEF EngineLoop, DrainEngine, PushMarket, chainVars, durable
    <3>2. QED
      BY <1>1, <2>5, <3>1, WayMoved DEF OrdersFine
  <2>6. CASE NewOrderStep \/ DropOrder \/ ConfirmMatch
    BY <2>6, OrdersTaken
  <2>7. CASE Crash \/ NotifyPanic
    BY <1>1, <2>7, OrdersDie DEF Crash, NotifyPanic, durable
  <2>8. QED
    BY <2>1, <2>2, <2>3, <2>4, <2>5, <2>6, <2>7
       DEF Next, vars, chainVars, durable, volatile, Chain, CancelOrder, ExecuteFailure,
           Restart, Notifier, DrainNotifier, Market, SubmitMatch, Launcher, TakeRequest,
           SendTransaction, SendFails, PushWaitEvent
<1>3. QED
  <2>1. resting' \subseteq DOMAIN rows' /\ view' \subseteq DOMAIN rows'
    BY RestingKeeps
  <2>2. QED
    BY <1>2, <2>1, OrdersFineIs DEF OrdersKnown, ArrivalOrder, OrdersFine, OrdersGoOn

----------------------------------------------------------------------------
(* What is shown of an order.                                              *)

(* An order that rests has executed nothing as far as its row knows, so a  *)
(* confirmation leaves it open; the view is behind the book only while a   *)
(* match is being handed over, when no confirmation is handled.            *)
RestingOpen ==
  /\ \A id \in resting : rows[id].state # "done" /\ rows[id].filled = "zero"
  /\ crashes = 0 => /\ \A id \in view : rows[id].state # "done"
                    /\ submitting = 0 => view = resting

LEMMA NewOrderIsNew ==
  ASSUME TypeOK, OrdersKnown, ArrivalOrder, marketCh # <<>>, IsOrder(Head(marketCh)),
         marketCh' = Tail(marketCh), UNCHANGED <<inHand, engineList, events>>
  PROVE  Head(marketCh).id \notin DOMAIN rows
<1> DEFINE h == Head(marketCh)
<1>1. h \in Parcel /\ Way' \in Seq(Parcel) /\ Way = <<h>> \o Way'
  BY WayTaken
<1>2. 1 \in DOMAIN Way /\ Way[1] = h
  <2>1. /\ Len(Way') \in Nat /\ DOMAIN (<<h>> \o Way') = 1..(Len(Way') + 1)
        /\ (<<h>> \o Way')[1] = h
    BY <1>1, OneThenMany
  <2>2. QED
    BY <1>1, <2>1
<1>3. \A id \in DOMAIN rows : id < h.id
  BY <1>2 DEF ArrivalOrder, OrdersFollow
<1>4. DOMAIN rows \subseteq Int
  BY CountersType DEF OrdersKnown
<1>5. h.id \notin DOMAIN rows
  BY <1>3, <1>4
<1>6. QED
  BY <1>5

LEMMA RestingOpenNewOrder ==
  ASSUME TypeOK, OrdersKnown, ArrivalOrder, RestingOpen,
         NEW makers \in SUBSET resting, NEW stays \in SUBSET makers, NEW rests \in BOOLEAN,
         ProcessLimitOrder(makers, stays, rests)
  PROVE  RestingOpen'
<1> DEFINE id == Head(marketCh).id
           partial == IF rests /\ makers # {} THEN {id} ELSE stays
           table == [i \in DOMAIN rows \cup {id} |->
                      IF i = id THEN [state |-> "open", filled |-> "zero"] ELSE rows[i]]
           full == (makers \ stays) \cup (IF rests THEN {} ELSE {id})
           afterFills == Filled(table, full)
           p == CHOOSE p \in partial : TRUE
<1>1. id \notin DOMAIN rows
  BY NewOrderIsNew DEF ProcessLimitOrder, IsOrder, chainVars
<1>2. /\ rests => stays = {}
      /\ makers = {} => rests
      /\ rows' = IF partial = {} THEN afterFills ELSE PartialFilled(afterFills, p)
      /\ resting' = (resting \ (makers \ stays)) \cup (IF rests THEN {id} ELSE {})
      /\ crashes' = crashes /\ submitting = 0
      /\ makers = {} => view' = resting' /\ submitting' = submitting
      /\ makers # {} => view' = view /\ submitting' = Len(matches) + 1
  BY DEF ProcessLimitOrder
<1>3. resting \subseteq DOMAIN rows /\ view \subseteq DOMAIN rows
  BY DEF OrdersKnown
<1>4. /\ DOMAIN table = DOMAIN rows \cup {id}
      /\ \A i \in DOMAIN rows : table[i] = rows[i]
      /\ table[id].state = "open" /\ table[id].filled = "zero"
  BY <1>1
<1> HIDE DEF table
<1>5. /\ DOMAIN afterFills = DOMAIN table
      /\ \A i \in DOMAIN table \ full : afterFills[i] = table[i]
      /\ \A i \in DOMAIN table : afterFills[i].state # "done" \/ afterFills[i] = table[i]
  BY DEF Filled
<1>6. /\ resting' \subseteq DOMAIN table \ full
      /\ \A i \in resting' : table[i].state # "done" /\ table[i].filled = "zero"
  BY <1>1, <1>2, <1>3, <1>4 DEF RestingOpen
<1>7. partial # {} => p \in partial /\ partial \subseteq resting'
  BY <1>2
<1> HIDE DEF full, afterFills, partial, p
<1>8. /\ \A i \in resting' : rows'[i].state # "done" /\ rows'[i].filled = "zero"
      /\ \A i \in DOMAIN table : rows'[i].state # "done" \/ rows'[i] = table[i]
  <2>1. CASE partial = {}
    BY <1>2, <1>5, <1>6, <2>1
  <2>2. CASE partial # {}
    <3>1. p \in resting' /\ afterFills[p].filled = "zero"
      BY <1>5, <1>6, <1>7, <2>2
    <3>2. \A i \in DOMAIN table : /\ rows'[i].state = "settling"
                                  /\ rows'[i].filled = afterFills[p].filled
      BY <1>2, <1>5, <2>2 DEF PartialFilled
    <3>3. QED
      BY <1>6, <3>1, <3>2
  <2>3. QED
    BY <2>1, <2>2
<1>9. ASSUME crashes' = 0
      PROVE  /\ \A i \in view' : rows'[i].state # "done"
             /\ submitting' = 0 => view' = resting'
  <2>1. crashes = 0 /\ \A i \in view : rows[i].state # "done"
    BY <1>2, <1>9 DEF RestingOpen
  <2>2. CASE makers = {}
    BY <1>2, <1>8, <2>2
  <2>3. CASE makers # {}
    <3>1. Len(matches) + 1 # 0
      BY LenProperties DEF TypeOK
    <3>2. \A i \in view : rows'[i].state # "done"
      BY <1>3, <1>4, <1>8, <2>1
    <3>3. QED
      BY <1>2, <2>3, <3>1, <3>2
  <2>4. QED
    BY <2>2, <2>3
<1>10. QED
  BY <1>8, <1>9 DEF RestingOpen

LEMMA RestingOpenKeeps ==
  ASSUME TypeOK, OrdersKnown, ArrivalOrder, RestingOpen, [Next]_vars
  PROVE  RestingOpen'
<1>1. CASE NewOrderStep
  BY <1>1, RestingOpenNewOrder DEF NewOrderStep
<1>2. CASE ConfirmMatch
  <2>1. /\ UNCHANGED <<resting, view, submitting, crashes>> /\ submitting = 0
        /\ \A id \in DOMAIN rows : rows'[id] \in {rows[id], Confirmed(rows[id])}
    BY <1>2 DEF ConfirmMatch
  <2>2. resting \subseteq DOMAIN rows /\ rows \in [DOMAIN rows -> Row]
    BY DEF OrdersKnown, TypeOK
  <2>3. ASSUME NEW id \in resting
        PROVE  rows'[id].state # "done" /\ rows'[id].filled = "zero"
    <3>1. rows[id] \in Row /\ rows[id].state # "done" /\ rows[id].filled = "zero"
      BY <2>2, <2>3 DEF RestingOpen
    <3>2. Confirmed(rows[id]).state = "open" /\ Confirmed(rows[id]).filled = "zero"
      BY <3>1 DEF Confirmed, Row
    <3>3. QED
      BY <2>1, <2>2, <3>1, <3>2
  <2>4. QED
    BY <2>1, <2>3 DEF RestingOpen
<1>3. CASE SubmitMatch
  BY <1>3 DEF SubmitMatch, RestingOpen, faults
<1>4. CASE Crash \/ NotifyPanic
  <2>1. resting' = {} /\ crashes' = crashes + 1
    BY <1>4 DEF Crash, NotifyPanic, Die
  <2>2. crashes' # 0
    BY SMTT(60), <2>1 DEF TypeOK
  <2>3. QED
    BY <2>1, <2>2 DEF RestingOpen
<1>5. CASE UNCHANGED <<rows, resting, view, submitting, crashes>>
  BY <1>5 DEF RestingOpen
<1>6. QED
  BY <1>1, <1>2, <1>3, <1>4, <1>5
     DEF Next, vars, durable, volatile, faults, Chain, CreateOrder, CancelOrder, ExecuteSuccess,
         ExecuteFailure, Restart, Notifier, NotifyCreate, NotifyMatch, DrainNotifier,
         EngineLoop, DrainEngine, PushMarket, Market, DropOrder, Launcher,
         TakeRequest, SendTransaction, SendFails, PushWaitEvent

----------------------------------------------------------------------------
(* Confirmations.                                                          *)

(* A transaction is spent once the events it is waited for have been       *)
(* counted, and then it is never waited for again: each update on its way  *)
(* and each match that is done has a spent transaction of its own.         *)
Awaited(m) ==
  \/ \E i \in DOMAIN notifierList : notifierList[i] = m
  \/ sending.phase \in {"send", "tell"} /\ sending.match = m
  \/ \E i \in DOMAIN launcherCh : launcherCh[i] = m
  \/ submitting = m
Spent ==
  {m \in executed : /\ ~Awaited(m)
                    /\ m \in DOMAIN waiting => waiting[m] >= NumOfEvents(m)}
DoneMatches == {m \in MatchId : matches[m].state = "done"}
UpdatesIn(q) == {i \in DOMAIN q : q[i].kind = "update"}
ConfirmationsSpent == Cardinality(DoneMatches) + Cardinality(Updates) <= Cardinality(Spent)

LEMMA UpdatesFinite ==
  ASSUME NEW S, NEW q \in Seq(S)
  PROVE  IsFiniteSet(UpdatesIn(q)) /\ Cardinality(UpdatesIn(q)) \in Nat
<1>1. Len(q) \in Nat /\ DOMAIN q = 1..Len(q)
  BY LenProperties
<1>2. IsFiniteSet(DOMAIN q)
  BY <1>1, FS_Interval
<1>3. UpdatesIn(q) \subseteq DOMAIN q
  BY DEF UpdatesIn
<1>4. QED
  BY <1>2, <1>3, FS_Subset, FS_CardinalityType

LEMMA UpdatesWithin ==
  ASSUME NEW S, NEW s \in Seq(S), NEW t \in Seq(S), NEW f, Within(f, t, s)
  PROVE  /\ Cardinality(UpdatesIn(t)) <= Cardinality(UpdatesIn(s))
         /\ \A k \in UpdatesIn(s) : (\A i \in DOMAIN t : f[i] # k)
              => Cardinality(UpdatesIn(t)) + 1 <= Cardinality(UpdatesIn(s))
<1> DEFINE U == UpdatesIn(t)
           V == UpdatesIn(s)
           g == [i \in U |-> f[i]]
<1>1. IsFiniteSet(U) /\ IsFiniteSet(V) /\ Cardinality(U) \in Nat /\ Cardinality(V) \in Nat
  BY UpdatesFinite
<1>2. U \subseteq DOMAIN t /\ \A i \in U : f[i] \in V
  BY DEF Within, UpdatesIn
<1>3. ASSUME NEW i \in U, NEW j \in U, f[i] = f[j]
      PROVE  i = j
  <2>1. /\ DOMAIN t = 1..Len(t) /\ DOMAIN s = 1..Len(s)
        /\ Len(t) \in Nat /\ Len(s) \in Nat
    BY LenProperties
  <2>2. i \in Nat /\ j \in Nat /\ f[i] \in Nat /\ f[j] \in Nat
    BY <1>2, <2>1 DEF Within
  <2>3. (i < j => f[i] < f[j]) /\ (j < i => f[j] < f[i])
    BY <1>2 DEF Within
  <2>4. QED
    BY <1>3, <2>2, <2>3
<1>4. ASSUME NEW W, W \subseteq V, \A i \in U : f[i] \in W
      PROVE  Cardinality(U) <= Cardinality(W)
  <2>1. IsFiniteSet(W)
    BY <1>1, <1>4, FS_Subset
  <2>2. g \in Injection(U, W)
    BY <1>3, <1>4 DEF Injection, IsInjective
  <2>3. QED
    BY <2>1, <2>2, FS_Injection
<1>5. ASSUME NEW k \in V, \A i \in DOMAIN t : f[i] # k
      PROVE  Cardinality(U) + 1 <= Cardinality(V)
  <2>1. Cardinality(V \ {k}) = Cardinality(V) - 1
    BY <1>1, FS_RemoveElement
  <2>2. V \ {k} \subseteq V /\ \A i \in U : f[i] \in V \ {k}
    BY <1>2, <1>5
  <2>3. Cardinality(U) <= Cardinality(V \ {k})
    BY <1>4, <2>2
  <2>4. QED
    BY <1>1, <2>1, <2>3
<1>6. QED
  BY <1>2, <1>4, <1>5

LEMMA UpdatesHeadPasses ==
  ASSUME NEW S, NEW h \in S, NEW t \in Seq(S)
  PROVE  /\ Cardinality(UpdatesIn(t)) <= Cardinality(UpdatesIn(<<h>> \o t))
         /\ h.kind = "update"
              => Cardinality(UpdatesIn(t)) + 1 <= Cardinality(UpdatesIn(<<h>> \o t))
<1> DEFINE s == <<h>> \o t
           f == [i \in DOMAIN t |-> i + 1]
<1>1. /\ s \in Seq(S)
      /\ Len(t) \in Nat /\ DOMAIN t = 1..Len(t) /\ DOMAIN s = 1..(Len(t) + 1)
      /\ s[1] = h /\ \A i \in 1..Len(t) : s[i + 1] = t[i]
  BY OneThenMany
<1> HIDE DEF s
<1>2. Within(f, t, s)
  <2>1. \A i \in DOMAIN t : f[i] = i + 1 /\ i + 1 \in DOMAIN s /\ i \in Nat
    BY <1>1
  <2>2. \A i, j \in DOMAIN t : i < j => f[i] < f[j]
    BY <2>1
  <2>3. f \in [DOMAIN t -> DOMAIN s]
    BY <2>1
  <2>4. QED
    BY <1>1, <2>1, <2>2, <2>3 DEF Within
<1>3. \A i \in DOMAIN t : f[i] # 1
  BY <1>1
<1> HIDE DEF f
<1>4. h.kind = "update" => 1 \in UpdatesIn(s)
  BY <1>1 DEF UpdatesIn
<1>5. QED
  BY ZenonT(60), <1>1, <1>2, <1>3, <1>4, UpdatesWithin DEF s

LEMMA UpdatesEnd ==
  ASSUME NEW S, NEW q \in Seq(S), NEW e \in S
  PROVE  Cardinality(UpdatesIn(q \o <<e>>))
           = Cardinality(UpdatesIn(q)) + (IF e.kind = "update" THEN 1 ELSE 0)
<1> DEFINE n == Len(q) + 1
<1>1. q \o <<e>> = Append(q, e) /\ Len(q) \in Nat /\ DOMAIN q = 1..Len(q)
  BY AppendIsConcat, LenProperties
<1>2. /\ Append(q, e) \in Seq(S) /\ Len(Append(q, e)) = Len(q) + 1
      /\ \A i \in 1..Len(q) : Append(q, e)[i] = q[i]
      /\ Append(q, e)[n] = e
  BY AppendProperties
<1>3. DOMAIN Append(q, e) = (DOMAIN q) \cup {n} /\ n \notin DOMAIN q
  BY <1>1, <1>2, LenProperties
<1>4. UpdatesIn(Append(q, e)) = IF e.kind = "update" THEN UpdatesIn(q) \cup {n} ELSE UpdatesIn(q)
  BY <1>1, <1>2, <1>3 DEF UpdatesIn
<1>5. n \notin UpdatesIn(q)
  BY <1>3 DEF UpdatesIn
<1> HIDE DEF n
<1>6. Cardinality(UpdatesIn(q) \cup {n}) = Cardinality(UpdatesIn(q)) + 1
  BY <1>5, UpdatesFinite, FS_AddElement
<1>7. Cardinality(UpdatesIn(q)) \in Nat
  BY UpdatesFinite
<1>8. CASE e.kind = "update"
  BY <1>1, <1>4, <1>6, <1>8
<1>9. CASE e.kind # "update"
  <2>1. UpdatesIn(q \o <<e>>) = UpdatesIn(q)
    BY <1>1, <1>4, <1>9
  <2> DEFINE c == Cardinality(UpdatesIn(q))
  <2>2. c = c + 0
    BY <1>7
  <2>3. QED
    BY <1>9, <2>1, <2>2
<1>10. QED
  BY <1>8, <1>9

Countable ==
  /\ IsFiniteSet(DoneMatches) /\ Cardinality(DoneMatches) \in Nat
  /\ IsFiniteSet(Spent) /\ Cardinality(Spent) \in Nat
  /\ IsFiniteSet(executed) /\ Cardinality(executed) \in Nat
  /\ Cardinality(Updates) \in Nat
  /\ Cardinality(Spent) <= Cardinality(executed)

LEMMA CountsFinite == TypeOK /\ MatchesKnown => Countable
<1> SUFFICES ASSUME TypeOK, MatchesKnown PROVE Countable
  OBVIOUS
<1> USE DEF Countable
<1>1. Len(matches) \in Nat
  BY LenProperties DEF TypeOK
<1>2. IsFiniteSet(MatchId)
  BY <1>1, FS_Interval DEF MatchId
<1>3. executed \subseteq MatchId /\ Spent \subseteq executed /\ DoneMatches \subseteq MatchId
  BY DEF MatchesKnown, Spent, DoneMatches
<1>4. Updates = UpdatesIn(Mail)
  BY DEF Updates, UpdatesIn
<1>5. Cardinality(UpdatesIn(Mail)) \in Nat
  BY WayTypes, UpdatesFinite
<1>6. IsFiniteSet(executed)
  BY <1>2, <1>3, FS_Subset
<1>7. QED
  BY <1>2, <1>3, <1>4, <1>5, <1>6, FS_Subset, FS_CardinalityType

LEMMA NumOfEventsKeeps ==
  ASSUME TypeOK, [Next]_vars, NEW m \in MatchId
  PROVE  NumOfEvents(m)' = NumOfEvents(m)
<1>1. Len(matches) \in Nat /\ m \in 1..Len(matches) /\ matches \in Seq(MatchRecord)
  BY LenProperties DEF TypeOK, MatchId
<1>2. CASE matches' = matches
  BY <1>2 DEF NumOfEvents
<1>3. ASSUME NEW r, matches' = Append(matches, r)
      PROVE  NumOfEvents(m)' = NumOfEvents(m)
  <2>1. matches'[m] = matches[m]
    BY <1>1, <1>3
  <2>2. QED
    BY <2>1 DEF NumOfEvents
<1>4. ASSUME NEW n \in MatchId, matches' = [matches EXCEPT ![n].state = "done"]
      PROVE  NumOfEvents(m)' = NumOfEvents(m)
  <2>1. matches[m] \in MatchRecord
    BY <1>1, ElementOfSeq
  <2>2. matches'[m].makers = matches[m].makers
    BY <1>1, <1>4, <2>1 DEF MatchRecord
  <2>3. QED
    BY <2>2 DEF NumOfEvents
<1>5. CASE NewOrderStep
  <2>1. (\E r : matches' = Append(matches, r)) \/ matches' = matches
    BY <1>5 DEF NewOrderStep, ProcessLimitOrder
  <2>2. QED
    BY <1>2, <1>3, <2>1
<1>6. CASE ConfirmMatch
  BY <1>2, <1>4, <1>6 DEF ConfirmMatch
<1>7. QED
  BY <1>2, <1>5, <1>6
     DEF Next, vars, durable, Chain, CreateOrder, CancelOrder, ExecuteSuccess,
     ExecuteFailure, Crash, Restart, Notifier, NotifyCreate, NotifyMatch, NotifyPanic,
     DrainNotifier, EngineLoop, DrainEngine, PushMarket, Market, DropOrder, SubmitMatch,
     Launcher, TakeRequest, SendTransaction, SendFails, PushWaitEvent

LEMMA ElementsOfTail ==
  ASSUME NEW S, NEW q \in Seq(S), q # <<>>
  PROVE  /\ \E i \in DOMAIN q : q[i] = Head(q)
         /\ \A i \in DOMAIN Tail(q) : \E j \in DOMAIN q : q[j] = Tail(q)[i]
<1> DEFINE h == Head(q)
           t == Tail(q)
<1>1. h \in S /\ t \in Seq(S) /\ q = <<h>> \o t
  BY HeadThenTail
<1> HIDE DEF h, t
<1>2. /\ Len(t) \in Nat /\ DOMAIN t = 1..Len(t)
      /\ DOMAIN (<<h>> \o t) = 1..(Len(t) + 1)
      /\ (<<h>> \o t)[1] = h
      /\ \A i \in 1..Len(t) : (<<h>> \o t)[i + 1] = t[i]
  BY <1>1, OneThenMany
<1>3. 1 \in DOMAIN q /\ q[1] = h
  BY <1>1, <1>2
<1>4. \A i \in DOMAIN t : i + 1 \in DOMAIN q /\ q[i + 1] = t[i]
  BY <1>1, <1>2
<1>5. QED
  BY <1>3, <1>4 DEF h, t

LEMMA ElementsOfAppend ==
  ASSUME NEW S, NEW q \in Seq(S), NEW e \in S
  PROVE  \A i \in DOMAIN Append(q, e) : Append(q, e)[i] = e \/ \E j \in DOMAIN q : q[j] = Append(q, e)[i]
<1>1. /\ Append(q, e) \in Seq(S) /\ Len(Append(q, e)) = Len(q) + 1
      /\ \A i \in 1..Len(q) : Append(q, e)[i] = q[i]
      /\ Append(q, e)[Len(q) + 1] = e
  BY AppendProperties
<1>2. Len(q) \in Nat /\ DOMAIN q = 1..Len(q) /\ DOMAIN Append(q, e) = 1..(Len(q) + 1)
  BY <1>1, LenProperties
<1>3. QED
  BY <1>1, <1>2

(* Nothing old comes to be waited for anew.                                *)
LEMMA AwaitedShrinks ==
  ASSUME TypeOK, MatchesKnown, [Next]_vars, NEW m \in MatchId, Awaited(m)'
  PROVE  Awaited(m)
<1> USE DEF Awaited
<1>1. CASE UNCHANGED <<notifierList, sending, launcherCh, submitting>>
  BY <1>1
<1>2. /\ notifierList \in Seq(MatchId) /\ launcherCh \in Seq(MatchId)
      /\ sending.phase # "idle" => sending.match \in MatchId
      /\ submitting \in MatchId \cup {0}
      /\ m # 0 /\ Len(matches) \in Nat /\ m # Len(matches) + 1
  BY SMTT(60), LenProperties DEF MatchesKnown, MatchId, TypeOK
<1>3. CASE NewOrderStep
  <2>1. /\ UNCHANGED <<notifierList, sending, launcherCh>>
        /\ submitting' \in {submitting, Len(matches) + 1}
    BY <1>3 DEF NewOrderStep, ProcessLimitOrder
  <2>2. QED
    BY <1>2, <2>1
<1>4. CASE SubmitMatch
  <2>1. /\ UNCHANGED <<notifierList, sending>> /\ submitting # 0 /\ submitting' = 0
        /\ launcherCh' = Append(launcherCh, submitting)
    BY <1>4 DEF SubmitMatch
  <2>2. \A i \in DOMAIN launcherCh' : launcherCh'[i] = submitting
          \/ \E j \in DOMAIN launcherCh : launcherCh[j] = launcherCh'[i]
    BY <1>2, <2>1, ElementsOfAppend
  <2>3. QED
    BY <1>2, <2>1, <2>2
<1>5. CASE TakeRequest
  <2>1. /\ UNCHANGED <<notifierList, submitting>> /\ launcherCh # <<>>
        /\ launcherCh' = Tail(launcherCh) /\ sending'.match = Head(launcherCh)
    BY <1>5 DEF TakeRequest, durable
  <2>2. /\ \E i \in DOMAIN launcherCh : launcherCh[i] = Head(launcherCh)
        /\ \A i \in DOMAIN launcherCh' : \E j \in DOMAIN launcherCh : launcherCh[j] = launcherCh'[i]
    BY <1>2, <2>1, ElementsOfTail
  <2>3. QED
    BY <2>1, <2>2
<1>6. CASE SendTransaction
  <2>1. /\ UNCHANGED <<notifierList, submitting, launcherCh>> /\ sending.phase = "send"
        /\ sending'.match = sending.match
    BY <1>6 DEF SendTransaction, durable, TypeOK
  <2>2. QED
    BY <2>1
<1>7. CASE SendFails
  BY <1>7 DEF SendFails, durable, NotSending
<1>8. CASE PushWaitEvent
  <2>1. /\ UNCHANGED <<submitting, launcherCh>> /\ sending.phase = "tell"
        /\ sending'.phase = "idle"
        /\ notifierList' \in {notifierList, Append(notifierList, sending.match)}
    BY <1>8 DEF PushWaitEvent, NotSending
  <2>2. sending.match \in MatchId
    BY <1>2, <2>1
  <2>3. \A i \in DOMAIN Append(notifierList, sending.match) :
          \/ Append(notifierList, sending.match)[i] = sending.match
          \/ \E j \in DOMAIN notifierList : notifierList[j] = Append(notifierList, sending.match)[i]
    BY <1>2, <2>2, ElementsOfAppend
  <2>4. QED
    BY <2>1, <2>3
<1>9. CASE DrainNotifier
  <2>1. /\ UNCHANGED <<submitting, launcherCh, sending>> /\ notifierList # <<>>
        /\ notifierList' = Tail(notifierList)
    BY <1>9 DEF DrainNotifier
  <2>2. \A i \in DOMAIN notifierList' : \E j \in DOMAIN notifierList : notifierList[j] = notifierList'[i]
    BY <1>2, <2>1, ElementsOfTail
  <2>3. QED
    BY <2>1, <2>2
<1>10. CASE Crash \/ NotifyPanic
  <2>1. /\ notifierList' = notifierList /\ sending' = NotSending /\ submitting' = 0
        /\ launcherCh' = <<>>
    BY <1>10 DEF Crash, NotifyPanic, Die, durable
  <2>2. DOMAIN launcherCh' = {}
    BY <2>1
  <2>3. QED
    BY <1>2, <2>1, <2>2 DEF NotSending
<1>11. QED
  BY <1>1, <1>3, <1>4, <1>5, <1>6, <1>7, <1>8, <1>9, <1>10
     DEF Next, vars, durable, volatile, Chain, CreateOrder, CancelOrder, ExecuteSuccess,
     ExecuteFailure, Restart, Notifier, NotifyCreate, NotifyMatch,
     EngineLoop, DrainEngine, PushMarket, Market, DropOrder, ConfirmMatch, Launcher

(* What is waited for is not on its way to be waited for.                  *)
LEMMA WaitingNotAwaited ==
  ASSUME TypeOK, MatchesKnown, MatchOnce, NEW m \in DOMAIN waiting
  PROVE  ~Awaited(m)
<1> SUFFICES ASSUME Awaited(m) PROVE FALSE
  OBVIOUS
<1> DEFINE I == InPhase({"send", "tell"})
           s == notifierList \o I \o Requests
<1>1. /\ notifierList \in Seq(MatchId) /\ I \in Seq(MatchId) /\ Requests \in Seq(MatchId)
      /\ launcherCh \in Seq(MatchId) /\ Submitting \in Seq(MatchId)
  BY PipeTypes
<1>2. m \in Nat /\ m # 0
  BY DEF TypeOK
<1>3. \A i \in DOMAIN s : m < s[i] /\ s[i] \in MatchId
  <2>1. \A i \in DOMAIN ToAwait : m < ToAwait[i]
    BY DEF MatchOnce, MatchesFollow
  <2>2. s = ToAwait /\ s \in Seq(MatchId)
    BY PipeTypes DEF ToAwait
  <2>3. QED
    BY <2>1, <2>2, ElementOfSeq, LenProperties
<1>4. /\ Len(notifierList) \in Nat /\ Len(I) \in Nat /\ Len(Requests) \in Nat
      /\ DOMAIN s = 1..(Len(notifierList) + Len(I) + Len(Requests))
      /\ \A i \in 1..(Len(notifierList) + Len(I) + Len(Requests)) : s[i] =
              IF i <= Len(notifierList) THEN notifierList[i]
              ELSE IF i <= Len(notifierList) + Len(I) THEN I[i - Len(notifierList)]
              ELSE Requests[i - (Len(notifierList) + Len(I))]
  BY <1>1, ConcatThree
<1>5. /\ Len(launcherCh) \in Nat /\ Len(Submitting) \in Nat
      /\ Len(Requests) = Len(launcherCh) + Len(Submitting)
      /\ \A i \in 1..(Len(launcherCh) + Len(Submitting)) : Requests[i] =
           IF i <= Len(launcherCh) THEN launcherCh[i] ELSE Submitting[i - Len(launcherCh)]
  BY <1>1, ConcatProperties, LenProperties DEF Requests
<1> HIDE DEF s
<1>6. ASSUME NEW k \in 1..Len(Requests), Requests[k] = m
      PROVE  FALSE
  <2> DEFINE i == Len(notifierList) + Len(I) + k
  <2>1. /\ i \in 1..(Len(notifierList) + Len(I) + Len(Requests)) /\ i \in DOMAIN s
        /\ ~(i <= Len(notifierList)) /\ ~(i <= Len(notifierList) + Len(I))
        /\ i - (Len(notifierList) + Len(I)) = k
    BY <1>4
  <2> HIDE DEF i
  <2>2. s[i] = m
    BY <1>4, <1>6, <2>1
  <2>3. QED
    BY <1>2, <1>3, <2>1, <2>2
<1>7. CASE \E i \in DOMAIN notifierList : notifierList[i] = m
  <2>1. PICK i \in DOMAIN notifierList : notifierList[i] = m
    BY <1>7
  <2>2. DOMAIN notifierList = 1..Len(notifierList)
    BY <1>1, LenProperties
  <2>3. i \in DOMAIN s /\ s[i] = m
    BY <1>4, <2>1, <2>2
  <2>4. QED
    BY <1>2, <1>3, <2>3
<1>8. CASE sending.phase \in {"send", "tell"} /\ sending.match = m
  <2>1. I = <<m>>
    BY <1>8 DEF InPhase
  <2>2. Len(I) = 1 /\ I[1] = m
    BY <2>1
  <2> HIDE DEF I
  <2> DEFINE i == Len(notifierList) + 1
  <2>3. /\ i \in 1..(Len(notifierList) + Len(I) + Len(Requests)) /\ i \in DOMAIN s
        /\ ~(i <= Len(notifierList)) /\ i <= Len(notifierList) + Len(I)
        /\ i - Len(notifierList) = 1
    BY <1>4, <2>2
  <2> HIDE DEF i
  <2>4. s[i] = m
    BY <1>4, <2>2, <2>3
  <2>5. QED
    BY <1>2, <1>3, <2>3, <2>4
<1>9. CASE \E i \in DOMAIN launcherCh : launcherCh[i] = m
  <2>1. PICK i \in DOMAIN launcherCh : launcherCh[i] = m
    BY <1>9
  <2>2. DOMAIN launcherCh = 1..Len(launcherCh)
    BY <1>1, LenProperties
  <2>3. i \in 1..Len(Requests) /\ Requests[i] = m
    BY <1>5, <2>1, <2>2
  <2>4. QED
    BY <1>6, <2>3
<1>10. CASE submitting = m
  <2>1. Submitting = <<m>>
    BY <1>2, <1>10 DEF Submitting
  <2>2. Len(Submitting) = 1 /\ Submitting[1] = m
    BY <2>1
  <2> DEFINE i == Len(launcherCh) + 1
  <2>3. /\ i \in 1..Len(Requests) /\ i \in 1..(Len(launcherCh) + Len(Submitting))
        /\ ~(i <= Len(launcherCh)) /\ i - Len(launcherCh) = 1
    BY <1>5, <2>2
  <2> HIDE DEF i
  <2>4. Requests[i] = m
    BY <1>5, <2>2, <2>3
  <2>5. QED
    BY <1>6, <2>3, <2>4
<1>11. QED
  BY <1>7, <1>8, <1>9, <1>10 DEF Awaited

LEMMA SpentKeeps ==
  ASSUME TypeOK, MatchesKnown, [Next]_vars
  PROVE  Spent \subseteq Spent'
<1> SUFFICES ASSUME NEW m \in Spent PROVE m \in Spent'
  OBVIOUS
<1>1. /\ m \in executed /\ m \in MatchId /\ ~Awaited(m)
      /\ m \in DOMAIN waiting => waiting[m] >= NumOfEvents(m)
  BY DEF Spent, MatchesKnown
<1>2. ~Awaited(m)' /\ NumOfEvents(m)' = NumOfEvents(m)
  BY <1>1, AwaitedShrinks, NumOfEventsKeeps
<1>3. m \in executed'
  <2>1. CASE ExecuteSuccess
    BY <1>1, <2>1 DEF ExecuteSuccess
  <2>2. CASE executed' = executed
    BY <1>1, <2>2
  <2>3. QED
    BY ZenonT(60), <2>1, <2>2
       DEF Next, vars, chainVars, Chain, CreateOrder, CancelOrder, ExecuteFailure, Crash, Restart,
           Notifier, NotifyCreate, NotifyMatch, NotifyPanic, DrainNotifier, EngineLoop,
           DrainEngine, PushMarket, Market, NewOrderStep, ProcessLimitOrder, DropOrder,
           SubmitMatch, ConfirmMatch, Launcher, TakeRequest, SendTransaction, SendFails,
           PushWaitEvent
<1>4. m \in DOMAIN waiting'
        => m \in DOMAIN waiting /\ waiting'[m] \in Nat /\ waiting'[m] >= waiting[m]
  <2>1. m \in DOMAIN waiting => waiting[m] \in Nat
    BY DEF TypeOK
  <2>2. CASE NotifyMatch
    BY <2>1, <2>2 DEF NotifyMatch
  <2>3. CASE DrainNotifier
    <3>1. notifierList # <<>> /\ notifierList \in Seq(MatchId)
      BY <2>3 DEF DrainNotifier, MatchesKnown
    <3>2. m # Head(notifierList)
      BY <1>1, <3>1, ElementsOfTail DEF Awaited
    <3>3. QED
      BY <2>1, <2>3, <3>2 DEF DrainNotifier
  <2>4. CASE Crash \/ NotifyPanic
    BY <2>4 DEF Crash, NotifyPanic, Die
  <2>5. CASE waiting' = waiting
    BY <2>1, <2>5
  <2>6. QED
    BY ZenonT(60), <2>2, <2>3, <2>4, <2>5
       DEF Next, vars, volatile, Chain, CreateOrder, CancelOrder, ExecuteSuccess,
           ExecuteFailure, Restart, Notifier, NotifyCreate, EngineLoop,
           DrainEngine, PushMarket, Market, NewOrderStep, ProcessLimitOrder, DropOrder,
           SubmitMatch, ConfirmMatch, Launcher, TakeRequest, SendTransaction, SendFails,
           PushWaitEvent
<1>5. m \in DOMAIN waiting' => waiting'[m] >= NumOfEvents(m)'
  <2>1. NumOfEvents(m) \in Nat
    BY <1>1, NumOfEventsType
  <2>2. m \in DOMAIN waiting => waiting[m] \in Nat
    BY DEF TypeOK
  <2>3. QED
    BY <1>1, <1>2, <1>4, <2>1, <2>2
<1>6. QED
  BY <1>2, <1>3, <1>5 DEF Spent

LEMMA DoneKeeps ==
  ASSUME TypeOK, [Next]_vars
  PROVE  /\ ~ConfirmMatch => DoneMatches' = DoneMatches
         /\ \E m : DoneMatches' \subseteq DoneMatches \cup {m}
<1> USE DEF DoneMatches, MatchId
<1>1. Len(matches) \in Nat /\ matches \in Seq(MatchRecord)
  BY LenProperties DEF TypeOK
<1>2. CASE matches' = matches
  BY <1>2
<1>3. ASSUME NEW r, matches' = Append(matches, r), r.state # "done"
      PROVE  DoneMatches' = DoneMatches
  <2>1. /\ Len(matches') = Len(matches) + 1
        /\ \A n \in 1..Len(matches) : matches'[n] = matches[n]
        /\ matches'[Len(matches) + 1] = r
    BY <1>1, <1>3
  <2>2. QED
    BY <1>1, <1>3, <2>1
<1>4. CASE NewOrderStep
  <2>1. (\E r : matches' = Append(matches, r) /\ r.state # "done") \/ matches' = matches
    BY <1>4 DEF NewOrderStep, ProcessLimitOrder
  <2>2. QED
    BY <1>2, <1>3, <2>1
<1>5. CASE ConfirmMatch
  <2>1. ASSUME NEW m \in MatchId, matches' = [matches EXCEPT ![m].state = "done"]
        PROVE  DoneMatches' \subseteq DoneMatches \cup {m}
    <3>1. /\ Len(matches') = Len(matches)
          /\ \A n \in 1..Len(matches) : n # m => matches'[n] = matches[n]
      BY <1>1, <2>1
    <3>2. QED
      BY <3>1
  <2>2. QED
    BY <1>2, <1>5, <2>1 DEF ConfirmMatch
<1>6. QED
  BY <1>2, <1>4, <1>5
     DEF Next, vars, durable, Chain, CreateOrder, CancelOrder, ExecuteSuccess,
     ExecuteFailure, Crash, Restart, Notifier, NotifyCreate, NotifyMatch, NotifyPanic,
     DrainNotifier, EngineLoop, DrainEngine, PushMarket, Market, DropOrder, SubmitMatch,
     Launcher, TakeRequest, SendTransaction, SendFails, PushWaitEvent

(* The last event of a transaction makes it spent.                         *)
LEMMA SpentByCompletion ==
  ASSUME TypeOK, MatchesKnown, MatchOnce, [Next]_vars, NotifyMatch,
         NEW m, m = Head(events).id, Completes(m)
  PROVE  Cardinality(Spent) + 1 <= Cardinality(Spent')
<1>1. /\ events # <<>> /\ Head(events).kind = "match" /\ m \in DOMAIN waiting
      /\ waiting' = [waiting EXCEPT ![m] = @ + 1] /\ executed' = executed
      /\ waiting[m] + 1 = NumOfEvents(m)
  BY DEF NotifyMatch, Completes
<1>2. m \in executed /\ m \in MatchId /\ waiting[m] \in Nat
  <2>1. 1 \in DOMAIN events /\ events[1] = Head(events)
    <3>1. events \in Seq(Event)
      BY DEF TypeOK
    <3>2. Len(events) \in Nat \ {0} /\ DOMAIN events = 1..Len(events)
      BY <1>1, <3>1, EmptySeq, LenProperties
    <3>3. QED
      BY <3>1, <3>2
  <2>2. m \in executed
    BY <1>1, <2>1 DEF MatchesKnown
  <2>3. QED
    BY <1>1, <2>2 DEF MatchesKnown, TypeOK
<1>3. m \notin Spent
  <2>1. ~(waiting[m] >= NumOfEvents(m))
    BY <1>1, <1>2
  <2>2. QED
    BY <1>1, <2>1 DEF Spent
<1>4. m \in Spent'
  <2>1. ~Awaited(m)'
    BY <1>1, <1>2, AwaitedShrinks, WaitingNotAwaited
  <2>2. waiting'[m] = NumOfEvents(m)' /\ NumOfEvents(m)' \in Nat
    <3>1. waiting'[m] = waiting[m] + 1
      BY <1>1
    <3>2. NumOfEvents(m)' = NumOfEvents(m) /\ NumOfEvents(m) \in Nat
      BY <1>2, NumOfEventsKeeps, NumOfEventsType
    <3>3. QED
      BY <1>1, <3>1, <3>2
  <2>3. waiting'[m] >= NumOfEvents(m)'
    BY <2>2
  <2>4. QED
    BY <1>1, <1>2, <2>1, <2>3 DEF Spent
<1>5. Spent \cup {m} \subseteq Spent'
  BY <1>4, SpentKeeps
<1>6. IsFiniteSet(Spent) /\ Cardinality(Spent \cup {m}) = Cardinality(Spent) + 1
  BY <1>3, CountsFinite, FS_AddElement DEF Countable
<1>7. IsFiniteSet(Spent')
  <2>1. Spent' \subseteq executed
    BY <1>1 DEF Spent
  <2>2. QED
    BY <2>1, CountsFinite, FS_Subset DEF Countable
<1>8. QED
  BY <1>5, <1>6, <1>7, FS_Subset

(* A message appended to the engine's list is the last of the mail.         *)
LEMMA MailAppended ==
  ASSUME TypeOK, NEW e \in Parcel, engineList' = Append(engineList, e),
         UNCHANGED <<marketCh, inHand>>
  PROVE  Mail' = Mail \o <<e>>
<1>1. <<e>> \in Seq(Parcel) /\ engineList' = engineList \o <<e>>
  BY WayTypes, AppendIsConcat
<1>2. (marketCh \o inHand) \o (engineList \o <<e>>) = ((marketCh \o inHand) \o engineList) \o <<e>>
  <2>1. /\ marketCh \o inHand \in Seq(Parcel) /\ engineList \in Seq(Parcel)
        /\ <<e>> \in Seq(Parcel)
    BY <1>1, WayTypes
  <2>2. QED
    BY <2>1, ConcatAssociative
<1>3. QED
  BY <1>1, <1>2 DEF Mail

(* The updates on their way after a message is appended, one is taken, or  *)
(* the process dies.                                                       *)
LEMMA UpdatesAppended ==
  ASSUME TypeOK, NEW e \in Parcel, engineList' = Append(engineList, e),
         UNCHANGED <<marketCh, inHand>>
  PROVE  Cardinality(Updates') = Cardinality(Updates) + (IF e.kind = "update" THEN 1 ELSE 0)
<1>1. Updates = UpdatesIn(Mail) /\ Updates' = UpdatesIn(Mail') /\ Mail \in Seq(Parcel)
  BY WayTypes DEF Updates, UpdatesIn
<1>2. Mail' = Mail \o <<e>>
  BY MailAppended
<1>3. QED
  BY <1>1, <1>2, UpdatesEnd

LEMMA UpdatesTaken ==
  ASSUME TypeOK, marketCh # <<>>, marketCh' = Tail(marketCh),
         UNCHANGED <<inHand, engineList, events>>
  PROVE  /\ Cardinality(Updates') <= Cardinality(Updates)
         /\ Head(marketCh).kind = "update" => Cardinality(Updates') + 1 <= Cardinality(Updates)
<1>1. Updates = UpdatesIn(Mail) /\ Updates' = UpdatesIn(Mail')
  BY DEF Updates, UpdatesIn
<1>2. /\ Head(marketCh) \in Parcel /\ Mail' \in Seq(Parcel)
      /\ Mail = <<Head(marketCh)>> \o Mail'
  BY WayTaken
<1>3. QED
  BY <1>1, <1>2, UpdatesHeadPasses

LEMMA UpdatesDie ==
  ASSUME TypeOK, Crash \/ NotifyPanic
  PROVE  Cardinality(Updates') <= Cardinality(Updates)
<1>1. engineList' = engineList /\ inHand' = <<>> /\ marketCh' = <<>>
  BY DEF Crash, NotifyPanic, Die, durable
<1>2. /\ marketCh \o inHand \in Seq(Parcel) /\ engineList \in Seq(Parcel)
      /\ <<>> \in Seq(Parcel) /\ Mail \in Seq(Parcel)
  BY WayTypes, EmptySeq
<1>3. Mail' = engineList
  <2>1. Mail' = (<<>> \o <<>>) \o engineList
    BY <1>1 DEF Mail
  <2>2. QED
    BY <1>2, <2>1, ConcatEmptySeq
<1>4. Mail = <<>> \o (marketCh \o inHand) \o engineList /\ engineList = <<>> \o engineList
  BY <1>2, ConcatEmptySeq DEF Mail
<1>5. PICK f : Within(f, <<>> \o engineList, <<>> \o (marketCh \o inHand) \o engineList)
  BY <1>2, PieceDropped
<1>6. Within(f, engineList, Mail)
  BY <1>4, <1>5
<1>7. Cardinality(UpdatesIn(engineList)) <= Cardinality(UpdatesIn(Mail))
  BY <1>2, <1>6, UpdatesWithin
<1>8. QED
  BY <1>3, <1>7 DEF Updates, UpdatesIn

LEMMA SumsStay ==
  \A d, u, p, dd, uu, pp \in Nat :
    d + u <= p /\ p <= pp
    => /\ dd <= d /\ uu <= u => dd + uu <= pp
       /\ dd <= d + 1 /\ uu + 1 <= u => dd + uu <= pp
  OBVIOUS

LEMMA ConfirmationsKeep ==
  ASSUME TypeOK, MatchesKnown, OrdersKnown, MatchOnce, ConfirmationsSpent, [Next]_vars
  PROVE  ConfirmationsSpent'
<1> DEFINE D == Cardinality(DoneMatches)
           U == Cardinality(Updates)
           P == Cardinality(Spent)
<1>1. TypeOK' /\ MatchesKnown'
  BY TypeKeeps, MatchesKnownKeeps
<1>2. /\ D \in Nat /\ U \in Nat /\ P \in Nat
      /\ IsFiniteSet(DoneMatches) /\ D + U <= P
  BY CountsFinite DEF ConfirmationsSpent, Countable
<1>3. /\ D' \in Nat /\ U' \in Nat /\ P' \in Nat /\ IsFiniteSet(Spent')
      /\ IsFiniteSet(DoneMatches')
  <2>1. Countable'
    BY <1>1, CountsFinite, PTL
  <2>2. QED
    BY <2>1 DEF Countable
<1>4. P <= P'
  BY <1>3, SpentKeeps, FS_Subset
<1>5. ~ConfirmMatch => D' = D
  BY DoneKeeps
<1>6. ConfirmationsSpent' <=> D' + U' <= P'
  BY DEF ConfirmationsSpent
<1> HIDE DEF D, U, P
<1>7. CASE ConfirmMatch
  <2>1. U' + 1 <= U
    BY <1>7, UpdatesTaken DEF ConfirmMatch, chainVars, U
  <2>2. D' <= D + 1
    <3>1. PICK m : DoneMatches' \subseteq DoneMatches \cup {m}
      BY DoneKeeps
    <3>2. /\ IsFiniteSet(DoneMatches \cup {m})
          /\ Cardinality(DoneMatches \cup {m}) <= D + 1
      BY <1>2, FS_AddElement DEF D
    <3>3. Cardinality(DoneMatches') <= Cardinality(DoneMatches \cup {m})
      BY <3>1, <3>2, FS_Subset
    <3>4. Cardinality(DoneMatches \cup {m}) \in Nat
      BY <3>2, FS_CardinalityType
    <3>5. QED
      BY <1>2, <1>3, <3>2, <3>3, <3>4 DEF D
  <2>3. D' + U' <= P'
    <3>1. D \in Nat /\ U \in Nat /\ P \in Nat /\ D' \in Nat /\ U' \in Nat /\ P' \in Nat
      BY <1>2, <1>3
    <3>2. D + U <= P /\ P <= P' /\ U' + 1 <= U /\ D' <= D + 1
      BY <1>2, <1>4, <2>1, <2>2
    <3>3. QED
      BY <3>1, <3>2, SumsStay
  <2>4. QED
    BY <1>6, <2>3
<1>8. ASSUME D' = D, U' <= U
      PROVE  ConfirmationsSpent'
  <2>1. D \in Nat /\ U \in Nat /\ P \in Nat /\ D' \in Nat /\ U' \in Nat /\ P' \in Nat
    BY <1>2, <1>3
  <2>2. D + U <= P /\ P <= P' /\ U' <= U /\ D' <= D
    BY <1>2, <1>4, <1>8, <2>1
  <2>3. D' + U' <= P'
    BY <2>1, <2>2, SumsStay
  <2>4. QED
    BY <1>6, <2>3
<1>9. CASE NotifyMatch
  <2>1. D' = D
    BY <1>5, <1>9 DEF NotifyMatch, ConfirmMatch
  <2>2. UNCHANGED <<marketCh, inHand>>
    BY <1>9 DEF NotifyMatch
  <2>3. CASE engineList' = engineList
    <3>1. Updates' = Updates
      BY <2>2, <2>3 DEF Updates, Mail
    <3>2. QED
      BY <1>2, <1>8, <2>1, <3>1 DEF U
  <2>4. CASE Completes(Head(events).id) /\ engineList' = Append(engineList, Update(Head(events).id))
    <3>1. Head(events) \in Event /\ Head(events).kind = "match"
      BY <1>9, HeadTailType DEF NotifyMatch, TypeOK
    <3>2. Update(Head(events).id) \in Parcel /\ Update(Head(events).id).kind = "update"
      BY <3>1 DEF Event, Update, Message, Parcel
    <3>3. U' = U + 1
      BY <2>2, <2>4, <3>2, UpdatesAppended DEF U
    <3>4. P + 1 <= P'
      BY <1>9, <2>4, SpentByCompletion DEF P
    <3>5. QED
      BY <1>2, <1>3, <1>6, <2>1, <3>3, <3>4
  <2>5. QED
    BY <1>9, <2>3, <2>4 DEF NotifyMatch
<1>10. CASE NotifyCreate
  <2>1. D' = D
    BY <1>5, <1>10 DEF NotifyCreate, ConfirmMatch, volatile
  <2>2. UNCHANGED <<marketCh, inHand>>
    BY <1>10 DEF NotifyCreate, volatile
  <2>3. CASE engineList' = engineList
    <3>1. Updates' = Updates
      BY <2>2, <2>3 DEF Updates, Mail
    <3>2. QED
      BY <1>2, <1>8, <2>1, <3>1 DEF U
  <2>4. CASE engineList' = Append(engineList, NewOrder(Head(events).id))
    <3>1. Head(events) \in Event /\ Head(events).kind = "create"
      BY <1>10, HeadTailType DEF NotifyCreate, TypeOK
    <3>2. NewOrder(Head(events).id) \in Parcel /\ NewOrder(Head(events).id).kind # "update"
      BY <3>1 DEF Event, NewOrder, Message, Parcel
    <3>3. U' = U + 0
      BY <2>2, <2>4, <3>2, UpdatesAppended DEF U
    <3>4. QED
      BY <1>2, <1>3, <1>8, <2>1, <3>3
  <2>5. QED
    BY <1>10, <2>3, <2>4 DEF NotifyCreate
<1>11. CASE NewOrderStep \/ DropOrder
  <2>1. /\ marketCh # <<>> /\ marketCh' = Tail(marketCh) /\ Head(marketCh).kind = "new"
        /\ UNCHANGED <<inHand, engineList, events>>
    BY ZenonT(60), <1>11 DEF NewOrderStep, ProcessLimitOrder, DropOrder, chainVars, durable
  <2>2. D' = D
    BY <1>5, <2>1 DEF ConfirmMatch
  <2>3. U' <= U
    BY <2>1, UpdatesTaken DEF U
  <2>4. QED
    BY <1>8, <2>2, <2>3
<1>12. CASE Crash \/ NotifyPanic
  <2>1. DoneMatches' = DoneMatches
    BY <1>12 DEF Crash, NotifyPanic, durable, DoneMatches, MatchId
  <2>2. QED
    BY <1>8, <1>12, <2>1, UpdatesDie DEF D, U
<1>13. CASE EngineLoop
  <2>1. matches' = matches
    BY <1>13 DEF EngineLoop, DrainEngine, PushMarket, durable
  <2>2. DoneMatches' = DoneMatches /\ Updates' = Updates
    BY <1>13, <2>1, WayMoved DEF DoneMatches, MatchId, Updates
  <2>3. QED
    BY <1>2, <1>8, <2>2 DEF D, U
<1>14. CASE UNCHANGED <<marketCh, inHand, engineList, matches>>
  <2>1. DoneMatches' = DoneMatches /\ Updates' = Updates
    BY <1>14 DEF DoneMatches, MatchId, Updates, Mail
  <2>2. QED
    BY <1>2, <1>8, <2>1 DEF D, U
<1>15. QED
  BY <1>7, <1>9, <1>10, <1>11, <1>12, <1>13, <1>14
     DEF Next, vars, durable, volatile, Chain, CreateOrder, CancelOrder, ExecuteSuccess,
         ExecuteFailure, Restart, Notifier, DrainNotifier, Market, SubmitMatch, Launcher,
         TakeRequest, SendTransaction, SendFails, PushWaitEvent

----------------------------------------------------------------------------
(* Without faults, what is confirmed is in the order of the matches.       *)

Holds(q, x) == \E i \in DOMAIN q : q[i] = x

(* A match that is still to be executed.                                   *)
Going(m) ==
  \/ Holds(sent, m)
  \/ sending.phase = "send" /\ sending.match = m
  \/ Holds(launcherCh, m)
  \/ submitting = m

(* The events of a match in q; those of the matches in closed have all been*)
(* counted, and those in q come in the order of the matches.               *)
EventsOf(q, m) == {i \in DOMAIN q : q[i].kind = "match" /\ q[i].id = m}
Count(q, m) == Cardinality(EventsOf(q, m))
EventsGoOn(closed, q) ==
  \A i \in DOMAIN q : q[i].kind = "match" =>
    /\ \A m \in closed : m < q[i].id
    /\ \A j \in DOMAIN q : i < j /\ q[j].kind = "match" => q[i].id <= q[j].id
Heard(m) == IF m \in DOMAIN waiting THEN waiting[m] ELSE 0

(* The updates in q are about the matches after those that are done.       *)
IdsIn(q) == {q[i].id : i \in UpdatesIn(q)}
UpdatesGoOn(done, q) ==
  \A i \in UpdatesIn(q) :
    /\ \A m \in done : m < q[i].id
    /\ \A j \in UpdatesIn(q) : i < j => q[i].id < q[j].id

Closed == DoneMatches \cup IdsIn(Mail)

AllSaved == \A m \in MatchId : matches[m].state \in {"pending", "done"}
AllGoing == \A m \in MatchId : m \in executed \/ Going(m)
AllHeard ==
  \A m \in MatchId :
    Count(events, m) + Heard(m) = IF m \in executed THEN NumOfEvents(m) ELSE 0
ClosedHeard ==
  /\ Closed \subseteq executed
  /\ \A m \in executed : m \in Closed <=> Count(events, m) = 0
Orderly ==
  /\ AllSaved
  /\ AllGoing
  /\ AllHeard
  /\ ClosedHeard
  /\ EventsGoOn(Closed, events)
  /\ UpdatesGoOn(DoneMatches, Mail)

----------------------------------------------------------------------------
LEMMA HoldsOne ==
  ASSUME NEW S, NEW x \in S
  PROVE  Holds(<<x>>, x)
BY DEF Holds

LEMMA HoldsTwo ==
  ASSUME NEW S, NEW a \in Seq(S), NEW b \in Seq(S), NEW x
  PROVE  Holds(a, x) \/ Holds(b, x) => Holds(a \o b, x)
<1> DEFINE s == a \o b
<1>1. /\ Len(a) \in Nat /\ Len(b) \in Nat
      /\ DOMAIN a = 1..Len(a) /\ DOMAIN b = 1..Len(b)
  BY LenProperties
<1>2. /\ DOMAIN s = 1..(Len(a) + Len(b))
      /\ \A i \in 1..(Len(a) + Len(b)) :
           s[i] = IF i <= Len(a) THEN a[i] ELSE b[i - Len(a)]
  BY <1>1, ConcatProperties, LenProperties
<1> HIDE DEF s
<1>3. ASSUME NEW i \in DOMAIN a, a[i] = x PROVE i \in DOMAIN s /\ s[i] = x
  BY <1>1, <1>2, <1>3
<1>4. ASSUME NEW i \in DOMAIN b, b[i] = x
      PROVE  Len(a) + i \in DOMAIN s /\ s[Len(a) + i] = x
  <2>1. /\ i \in Nat /\ Len(a) + i \in 1..(Len(a) + Len(b))
        /\ ~(Len(a) + i <= Len(a)) /\ (Len(a) + i) - Len(a) = i
    BY <1>1
  <2> QED BY <1>2, <1>4, <2>1
<1> QED BY <1>3, <1>4 DEF s, Holds

(* What was executed comes before what is still to be executed.            *)
LEMMA ExecutedFirst ==
  ASSUME TypeOK, MatchesKnown, MatchOnce, NEW m \in executed, NEW n \in MatchId, Going(n)
  PROVE  m < n
<1> DEFINE I == InPhase({"send"})
<1>1. /\ sent \in Seq(MatchId) /\ I \in Seq(MatchId) /\ Requests \in Seq(MatchId)
      /\ launcherCh \in Seq(MatchId) /\ Submitting \in Seq(MatchId) /\ n # 0
  BY PipeTypes DEF MatchId
<1>2. sending.phase = "send" /\ sending.match = n => Holds(I, n)
  BY HoldsOne DEF InPhase
<1>3. submitting = n => Holds(Submitting, n)
  BY <1>1, HoldsOne DEF Submitting
<1> HIDE DEF I
<1>4. Holds(launcherCh, n) \/ submitting = n => Holds(Requests, n)
  BY <1>1, <1>3, HoldsTwo DEF Requests
<1>5. Holds(sent, n) \/ Holds(I, n) \/ Holds(Requests, n)
  BY <1>2, <1>4 DEF Going
<1>6. sent \o I \in Seq(MatchId)
  BY <1>1, ConcatProperties
<1>7. Holds(sent \o I, n) \/ Holds(Requests, n)
  BY <1>1, <1>5, HoldsTwo
<1>8. Holds(ToExecute, n)
  BY <1>1, <1>6, <1>7, HoldsTwo DEF ToExecute, I
<1> QED BY <1>8 DEF MatchOnce, MatchesFollow, Holds

(* What a queue holds is its head or in its tail, and an append adds to it.*)
LEMMA HoldsTail ==
  ASSUME NEW S, NEW q \in Seq(S), q # <<>>, NEW x, Holds(q, x)
  PROVE  x = Head(q) \/ Holds(Tail(q), x)
<1> DEFINE h == Head(q)
           t == Tail(q)
<1>1. h \in S /\ t \in Seq(S) /\ q = <<h>> \o t
  BY HeadThenTail
<1> HIDE DEF h, t
<1>2. /\ Len(t) \in Nat /\ DOMAIN t = 1..Len(t)
      /\ DOMAIN q = 1..(Len(t) + 1) /\ q[1] = h
      /\ \A i \in 1..Len(t) : q[i + 1] = t[i]
  BY <1>1, OneThenMany
<1>3. PICK i \in DOMAIN q : q[i] = x
  BY DEF Holds
<1>4. CASE i = 1
  BY <1>2, <1>3, <1>4 DEF h
<1>5. CASE i # 1
  <2>1. i - 1 \in DOMAIN t /\ (i - 1) + 1 = i
    BY <1>2, <1>5
  <2>2. t[i - 1] = x
    BY <1>2, <1>3, <2>1
  <2> QED BY <2>1, <2>2 DEF Holds, t
<1> QED BY <1>4, <1>5

LEMMA HoldsEnd ==
  ASSUME NEW S, NEW q \in Seq(S), NEW e \in S, NEW x, Holds(q, x) \/ x = e
  PROVE  Holds(Append(q, e), x)
<1>1. Append(q, e) = q \o <<e>> /\ <<e>> \in Seq(S)
  BY AppendIsConcat
<1>2. Holds(q, x) \/ Holds(<<e>>, x)
  BY HoldsOne
<1> QED BY <1>1, <1>2, HoldsTwo

----------------------------------------------------------------------------
(* Events.                                                                 *)
LEMMA CountType ==
  ASSUME NEW S, NEW q \in Seq(S), NEW m
  PROVE  /\ IsFiniteSet(EventsOf(q, m)) /\ Count(q, m) \in Nat
         /\ Count(q, m) = 0 <=> EventsOf(q, m) = {}
<1>1. Len(q) \in Nat /\ DOMAIN q = 1..Len(q)
  BY LenProperties
<1>2. IsFiniteSet(DOMAIN q)
  BY <1>1, FS_Interval
<1>3. EventsOf(q, m) \subseteq DOMAIN q
  BY DEF EventsOf
<1> QED BY <1>2, <1>3, FS_Subset, FS_CardinalityType, FS_EmptySet DEF Count

IsEvent(e, m) == e.kind = "match" /\ e.id = m

LEMMA CountHead ==
  ASSUME NEW S, NEW h \in S, NEW t \in Seq(S), NEW m
  PROVE  Count(<<h>> \o t, m) = Count(t, m) + (IF IsEvent(h, m) THEN 1 ELSE 0)
<1> DEFINE s == <<h>> \o t
           E == EventsOf(s, m)
           F == EventsOf(t, m)
           G == {i + 1 : i \in F}
<1>1. /\ s \in Seq(S)
      /\ Len(t) \in Nat /\ DOMAIN t = 1..Len(t) /\ DOMAIN s = 1..(Len(t) + 1)
      /\ s[1] = h /\ \A i \in 1..Len(t) : s[i + 1] = t[i]
  BY OneThenMany
<1>2. IsFiniteSet(F) /\ Count(t, m) \in Nat /\ Count(t, m) = Cardinality(F)
  BY CountType DEF Count
<1> HIDE DEF s
<1>3. F \subseteq 1..Len(t)
  BY <1>1 DEF EventsOf
<1>4. IsFiniteSet(G) /\ Cardinality(G) = Cardinality(F)
  <2> DEFINE f == [i \in F |-> i + 1]
  <2>1. \A i, j \in F : i + 1 = j + 1 => i = j
    BY <1>1, <1>3
  <2>2. f \in Bijection(F, G)
    <3>1. f \in [F -> G] /\ \A y \in G : \E i \in F : f[i] = y
      OBVIOUS
    <3>2. \A i, j \in F : f[i] = f[j] => i = j
      BY <2>1
    <3> HIDE DEF f, G
    <3> QED BY <3>1, <3>2 DEF Bijection, Injection, IsInjective, Surjection
  <2>3. ExistsBijection(F, G)
    BY <2>2 DEF ExistsBijection
  <2> QED BY <1>2, <2>3, FS_Bijection
<1>5. E = G \cup (IF IsEvent(h, m) THEN {1} ELSE {})
  <2>1. \A i \in 1..Len(t) : i + 1 \in E <=> i \in F
    BY <1>1 DEF EventsOf
  <2>2. 1 \in E <=> IsEvent(h, m)
    BY <1>1 DEF EventsOf, IsEvent
  <2>3. \A k \in E : k = 1 \/ (k - 1 \in 1..Len(t) /\ k = (k - 1) + 1)
    BY <1>1 DEF EventsOf
  <2>4. \A k \in E : k = 1 \/ k \in G
    BY <2>1, <2>3
  <2>5. \A k \in G : k \in E
    BY <1>3, <2>1
  <2> HIDE DEF E, G
  <2> QED BY <2>2, <2>4, <2>5
<1>6. 1 \notin G
  BY <1>1, <1>3
<1> HIDE DEF E, F, G
<1>7. CASE IsEvent(h, m)
  <2>1. E = G \cup {1}
    BY <1>5, <1>7
  <2> QED BY <1>2, <1>4, <1>6, <1>7, <2>1, FS_AddElement DEF Count, E, s
<1>8. CASE ~IsEvent(h, m)
  <2>1. E = G
    BY <1>5, <1>8
  <2> QED BY <1>2, <1>4, <1>8, <2>1 DEF Count, E, s
<1> QED BY <1>7, <1>8

LEMMA ConcatTwo ==
  ASSUME NEW S, NEW a \in Seq(S), NEW b \in Seq(S)
  PROVE  /\ Len(a) \in Nat /\ Len(b) \in Nat
         /\ DOMAIN a = 1..Len(a) /\ DOMAIN b = 1..Len(b)
         /\ DOMAIN (a \o b) = 1..(Len(a) + Len(b))
         /\ \A i \in 1..(Len(a) + Len(b)) :
              (a \o b)[i] = IF i <= Len(a) THEN a[i] ELSE b[i - Len(a)]
<1>1. /\ Len(a) \in Nat /\ Len(b) \in Nat
      /\ DOMAIN a = 1..Len(a) /\ DOMAIN b = 1..Len(b)
  BY LenProperties
<1> QED BY <1>1, ConcatProperties, LenProperties

Repeats(r, n, e) == Len(r) = n /\ \A i \in 1..n : r[i] = e

(* The events of a match come all at once, when none came before.          *)
LEMMA CountMany ==
  ASSUME NEW S, NEW q \in Seq(S), NEW n \in Nat, NEW r \in Seq(S),
         NEW e, Repeats(r, n, e), NEW m
  PROVE  /\ ~IsEvent(e, m) => Count(q \o r, m) = Count(q, m)
         /\ IsEvent(e, m) /\ Count(q, m) = 0 => Count(q \o r, m) = n
<1> DEFINE s == q \o r
           N == Len(q)
<1>1. /\ N \in Nat /\ DOMAIN q = 1..N
      /\ DOMAIN s = 1..(N + n)
      /\ \A i \in 1..N : s[i] = q[i]
      /\ \A i \in (N + 1)..(N + n) : s[i] = e
  <2>0. /\ N \in Nat /\ DOMAIN q = 1..N /\ DOMAIN s = 1..(N + Len(r))
        /\ \A i \in 1..(N + Len(r)) : s[i] = IF i <= N THEN q[i] ELSE r[i - N]
    BY ConcatTwo
  <2> HIDE DEF s, N
  <2>1. /\ N \in Nat /\ DOMAIN q = 1..N /\ DOMAIN s = 1..(N + n)
        /\ \A i \in 1..(N + n) : s[i] = IF i <= N THEN q[i] ELSE r[i - N]
    BY <2>0 DEF Repeats
  <2>2. \A i \in (N + 1)..(N + n) : i \in 1..(N + n) /\ ~(i <= N) /\ i - N \in 1..n /\ r[i - N] = e
    BY <2>1 DEF Repeats
  <2>3. \A i \in 1..N : i \in 1..(N + n) /\ i <= N
    BY <2>1
  <2> QED BY <2>1, <2>2, <2>3
<1> HIDE DEF s, N
<1>2. \A i \in 1..(N + n) : i \in 1..N \/ i \in (N + 1)..(N + n)
  BY <1>1
<1>3. CASE ~IsEvent(e, m)
  <2>1. EventsOf(s, m) = EventsOf(q, m)
    BY <1>1, <1>2, <1>3 DEF EventsOf, IsEvent
  <2> QED BY <1>3, <2>1 DEF Count, s
<1>4. CASE IsEvent(e, m) /\ Count(q, m) = 0
  <2>1. EventsOf(q, m) = {}
    BY <1>4, CountType
  <2>2. EventsOf(s, m) = (N + 1)..(N + n)
    BY <1>1, <1>2, <1>4, <2>1 DEF EventsOf, IsEvent
  <2>3. N + 1 \in Int /\ N + n \in Int
    BY <1>1
  <2>4. Cardinality((N + 1)..(N + n)) = IF N + 1 > N + n THEN 0 ELSE (N + n) - (N + 1) + 1
    BY <2>3, FS_Interval
  <2>5. Cardinality((N + 1)..(N + n)) = n
    BY <1>1, <2>4
  <2> QED BY <1>4, <2>2, <2>5 DEF Count, s
<1> QED BY <1>3, <1>4

LEMMA CountEnd ==
  ASSUME NEW S, NEW q \in Seq(S), NEW e \in S, NEW m, ~IsEvent(e, m)
  PROVE  Count(Append(q, e), m) = Count(q, m)
<1>1. Append(q, e) = q \o <<e>> /\ <<e>> \in Seq(S)
  BY AppendIsConcat
<1>2. Repeats(<<e>>, 1, e) /\ 1 \in Nat
  BY DEF Repeats
<1> DEFINE r == <<e>>
<1>3. r \in Seq(S) /\ Repeats(r, 1, e)
  BY <1>1, <1>2
<1> HIDE DEF r
<1>4. ~IsEvent(e, m) => Count(q \o r, m) = Count(q, m)
  BY <1>2, <1>3, CountMany
<1> QED BY <1>1, <1>4 DEF r

(* One more event that is not of a match, or all those of the next one.    *)
LEMMA EventsMore ==
  ASSUME NEW S, NEW q \in Seq(S), NEW n \in Nat, NEW r \in Seq(S),
         NEW e, Repeats(r, n, e), NEW closed, EventsGoOn(closed, q),
         e.kind = "match" =>
           /\ e.id \in Nat
           /\ \A m \in closed : m < e.id
           /\ \A i \in DOMAIN q : q[i].kind = "match" => q[i].id <= e.id
  PROVE  EventsGoOn(closed, q \o r)
<1> DEFINE s == q \o r
           N == Len(q)
<1>1. /\ N \in Nat /\ DOMAIN q = 1..N
      /\ DOMAIN s = 1..(N + n)
      /\ \A i \in 1..N : s[i] = q[i]
      /\ \A i \in (N + 1)..(N + n) : s[i] = e
  <2>0. /\ N \in Nat /\ DOMAIN q = 1..N /\ DOMAIN s = 1..(N + Len(r))
        /\ \A i \in 1..(N + Len(r)) : s[i] = IF i <= N THEN q[i] ELSE r[i - N]
    BY ConcatTwo
  <2> HIDE DEF s, N
  <2>1. /\ N \in Nat /\ DOMAIN q = 1..N /\ DOMAIN s = 1..(N + n)
        /\ \A i \in 1..(N + n) : s[i] = IF i <= N THEN q[i] ELSE r[i - N]
    BY <2>0 DEF Repeats
  <2>2. \A i \in (N + 1)..(N + n) : i \in 1..(N + n) /\ ~(i <= N) /\ i - N \in 1..n /\ r[i - N] = e
    BY <2>1 DEF Repeats
  <2>3. \A i \in 1..N : i \in 1..(N + n) /\ i <= N
    BY <2>1
  <2> QED BY <2>1, <2>2, <2>3
<1> HIDE DEF s, N
<1>2. \A i \in DOMAIN s :
         \/ i \in DOMAIN q /\ s[i] = q[i]
         \/ i \in (N + 1)..(N + n) /\ s[i] = e
  BY <1>1
<1>3. ASSUME NEW i \in DOMAIN s, s[i].kind = "match"
      PROVE  \A m \in closed : m < s[i].id
  BY <1>2, <1>3 DEF EventsGoOn
<1>4. ASSUME NEW i \in DOMAIN s, NEW j \in DOMAIN s, i < j,
             s[i].kind = "match", s[j].kind = "match"
      PROVE  s[i].id <= s[j].id
  <2>1. CASE j \in DOMAIN q /\ s[j] = q[j]
    <3>1. i \in DOMAIN q /\ s[i] = q[i]
      BY <1>1, <1>4, <2>1
    <3> QED BY <1>4, <2>1, <3>1 DEF EventsGoOn
  <2>2. CASE s[j] = e
    BY <1>2, <1>4, <2>2
  <2> QED BY <1>2, <2>1, <2>2
<1> QED BY <1>3, <1>4 DEF EventsGoOn, s

(* An event is handled; with its last one a match is closed.               *)
LEMMA EventsHandled ==
  ASSUME NEW S, NEW h \in S, NEW t \in Seq(S), NEW closed, EventsGoOn(closed, <<h>> \o t)
  PROVE  /\ EventsGoOn(closed, t)
         /\ \A m : IsEvent(h, m) =>
              /\ \A k \in closed : k < m
              /\ Count(t, m) = 0 /\ m \in Nat /\ (\A i \in DOMAIN t : t[i].kind = "match" => t[i].id \in Nat)
                   => EventsGoOn(closed \cup {m}, t)
<1> DEFINE s == <<h>> \o t
<1>1. /\ Len(t) \in Nat /\ DOMAIN t = 1..Len(t) /\ DOMAIN s = 1..(Len(t) + 1)
      /\ s[1] = h /\ \A i \in 1..Len(t) : s[i + 1] = t[i]
  BY OneThenMany
<1>2. EventsGoOn(closed, s)
  OBVIOUS
<1> HIDE DEF s
<1>3. \A i \in DOMAIN t : i + 1 \in DOMAIN s /\ s[i + 1] = t[i] /\ i \in Nat /\ 1 < i + 1
  BY <1>1
<1>4. 1 \in DOMAIN s
  BY <1>1
<1>5. EventsGoOn(closed, t)
  <2>1. ASSUME NEW i \in DOMAIN t, t[i].kind = "match"
        PROVE  \A m \in closed : m < t[i].id
    BY <1>2, <1>3, <2>1 DEF EventsGoOn
  <2>2. ASSUME NEW i \in DOMAIN t, NEW j \in DOMAIN t, i < j,
               t[i].kind = "match", t[j].kind = "match"
        PROVE  t[i].id <= t[j].id
    <3>1. i + 1 < j + 1
      BY <1>3, <2>2
    <3> QED BY <1>2, <1>3, <2>2, <3>1 DEF EventsGoOn
  <2> QED BY <2>1, <2>2 DEF EventsGoOn
<1>6. ASSUME NEW m, IsEvent(h, m) PROVE \A k \in closed : k < m
  BY <1>1, <1>2, <1>4, <1>6 DEF EventsGoOn, IsEvent
<1>7. ASSUME NEW m, IsEvent(h, m), Count(t, m) = 0, m \in Nat,
             \A i \in DOMAIN t : t[i].kind = "match" => t[i].id \in Nat
      PROVE  EventsGoOn(closed \cup {m}, t)
  <2>1. EventsOf(t, m) = {}
    BY <1>7, CountType
  <2>2. ASSUME NEW i \in DOMAIN t, t[i].kind = "match" PROVE m < t[i].id
    <3>1. m <= t[i].id
      BY <1>1, <1>2, <1>3, <1>4, <1>7, <2>2 DEF EventsGoOn, IsEvent
    <3>2. t[i].id # m
      BY <2>1, <2>2 DEF EventsOf
    <3> QED BY <1>7, <2>2, <3>1, <3>2
  <2> QED BY <1>5, <2>2 DEF EventsGoOn
<1> QED BY <1>5, <1>6, <1>7

----------------------------------------------------------------------------
(* Updates.                                                                *)
LEMMA IdsEnd ==
  ASSUME NEW S, NEW q \in Seq(S), NEW e \in S, NEW done, UpdatesGoOn(done, q),
         e.kind = "update" => \A m \in done \cup IdsIn(q) : m < e.id
  PROVE  /\ IdsIn(q \o <<e>>) = IdsIn(q) \cup (IF e.kind = "update" THEN {e.id} ELSE {})
         /\ UpdatesGoOn(done, q \o <<e>>)
<1> DEFINE s == Append(q, e)
           n == Len(q) + 1
<1>1. s = q \o <<e>> /\ Len(q) \in Nat /\ DOMAIN q = 1..Len(q)
  BY AppendIsConcat, LenProperties
<1>2. /\ DOMAIN s = 1..n /\ s[n] = e
      /\ \A i \in 1..Len(q) : s[i] = q[i]
  BY AppendProperties, LenProperties
<1> HIDE DEF s
<1>3. \A i : i \in UpdatesIn(s) <=> i \in UpdatesIn(q) \/ (i = n /\ e.kind = "update")
  BY <1>1, <1>2 DEF UpdatesIn
<1>4. \A i \in UpdatesIn(q) : s[i] = q[i] /\ i < n /\ i \in Nat /\ q[i].id \in IdsIn(q)
  BY <1>1, <1>2 DEF UpdatesIn, IdsIn
<1>5. n \in Nat
  BY <1>1
<1> HIDE DEF n
<1>6. IdsIn(s) = IdsIn(q) \cup (IF e.kind = "update" THEN {e.id} ELSE {})
  BY <1>2, <1>3, <1>4 DEF IdsIn
<1>7. ASSUME NEW i \in UpdatesIn(s)
      PROVE  /\ \A m \in done : m < s[i].id
             /\ \A j \in UpdatesIn(s) : i < j => s[i].id < s[j].id
  <2>1. CASE i \in UpdatesIn(q)
    BY <1>2, <1>3, <1>4, <2>1 DEF UpdatesGoOn
  <2>2. CASE i = n /\ e.kind = "update"
    <3>1. \A j \in UpdatesIn(s) : ~(i < j)
      BY <1>3, <1>4, <1>5, <2>2
    <3> QED BY <1>2, <2>2, <3>1
  <2> QED BY <1>3, <2>1, <2>2
<1>8. UpdatesGoOn(done, s)
  BY <1>7 DEF UpdatesGoOn
<1> QED BY <1>1, <1>6, <1>8

LEMMA IdsHead ==
  ASSUME NEW S, NEW h \in S, NEW t \in Seq(S), NEW done, UpdatesGoOn(done, <<h>> \o t)
  PROVE  /\ IdsIn(<<h>> \o t) = IdsIn(t) \cup (IF h.kind = "update" THEN {h.id} ELSE {})
         /\ UpdatesGoOn(done, t)
         /\ h.kind = "update" =>
              /\ \A m \in done : m < h.id
              /\ \A n \in IdsIn(t) : h.id < n
              /\ UpdatesGoOn(done \cup {h.id}, t)
<1> DEFINE s == <<h>> \o t
<1>1. /\ Len(t) \in Nat /\ DOMAIN t = 1..Len(t) /\ DOMAIN s = 1..(Len(t) + 1)
      /\ s[1] = h /\ \A i \in 1..Len(t) : s[i + 1] = t[i]
  BY OneThenMany
<1>2. UpdatesGoOn(done, s)
  OBVIOUS
<1> HIDE DEF s
<1>3. \A i \in UpdatesIn(t) : i + 1 \in UpdatesIn(s) /\ s[i + 1] = t[i] /\ i \in Nat /\ 1 < i + 1
  BY <1>1 DEF UpdatesIn
<1>4. \A k \in UpdatesIn(s) : k = 1 \/ (k - 1 \in UpdatesIn(t) /\ s[k] = t[k - 1])
  <2> SUFFICES ASSUME NEW k \in UpdatesIn(s), k # 1
               PROVE  k - 1 \in UpdatesIn(t) /\ s[k] = t[k - 1]
    OBVIOUS
  <2>1. k - 1 \in 1..Len(t) /\ (k - 1) + 1 = k
    BY <1>1 DEF UpdatesIn
  <2> QED BY <1>1, <2>1 DEF UpdatesIn
<1>5. 1 \in UpdatesIn(s) <=> h.kind = "update"
  BY <1>1 DEF UpdatesIn
<1>6. IdsIn(s) = IdsIn(t) \cup (IF h.kind = "update" THEN {h.id} ELSE {})
  <2>1. \A i \in UpdatesIn(t) : t[i].id \in IdsIn(s)
    BY <1>3 DEF IdsIn
  <2>2. \A k \in UpdatesIn(s) :
           \/ s[k].id \in {t[i].id : i \in UpdatesIn(t)}
           \/ h.kind = "update" /\ s[k].id = h.id
    BY <1>1, <1>4, <1>5
  <2>3. h.kind = "update" => h.id \in IdsIn(s)
    BY <1>1, <1>5 DEF IdsIn
  <2> QED BY <2>1, <2>2, <2>3 DEF IdsIn
<1>7. UpdatesGoOn(done, t)
  <2>1. ASSUME NEW i \in UpdatesIn(t), NEW j \in UpdatesIn(t), i < j
        PROVE  t[i].id < t[j].id
    <3>1. i + 1 < j + 1
      BY <1>3, <2>1
    <3> QED BY <1>2, <1>3, <3>1 DEF UpdatesGoOn
  <2> QED BY <1>2, <1>3, <2>1 DEF UpdatesGoOn
<1>8. ASSUME h.kind = "update"
      PROVE  /\ \A m \in done : m < h.id
             /\ \A n \in IdsIn(t) : h.id < n
  BY <1>1, <1>2, <1>3, <1>5, <1>8 DEF UpdatesGoOn, IdsIn
<1>9. h.kind = "update" => UpdatesGoOn(done \cup {h.id}, t)
  BY <1>7, <1>8 DEF UpdatesGoOn, IdsIn
<1> QED BY <1>6, <1>7, <1>8, <1>9 DEF s

LEMMA EventsEnd ==
  ASSUME NEW S, NEW q \in Seq(S), NEW e \in S, e.kind # "match", NEW closed,
         EventsGoOn(closed, q)
  PROVE  EventsGoOn(closed, Append(q, e))
<1> DEFINE r == <<e>>
<1>1. Append(q, e) = q \o r /\ r \in Seq(S) /\ Repeats(r, 1, e)
  BY AppendIsConcat DEF Repeats
<1> HIDE DEF r
<1>2. EventsGoOn(closed, q \o r)
  BY <1>1, EventsMore
<1> QED BY <1>1, <1>2

----------------------------------------------------------------------------
(* What each event, match and update is.                                   *)
LEMMA OrderlyTypes ==
  ASSUME TypeOK, MatchesKnown
  PROVE  /\ events \in Seq(Event) /\ Mail \in Seq(Parcel)
         /\ MatchId \subseteq Nat /\ executed \subseteq MatchId
         /\ \A i \in DOMAIN events : events[i].kind = "match" =>
              events[i].id \in executed /\ events[i].id \in Nat
         /\ \A m : Count(events, m) \in Nat /\ Heard(m) \in Nat
         /\ \A m \in MatchId : NumOfEvents(m) \in Nat \ {0}
         /\ DoneMatches \subseteq MatchId
<1>1. events \in Seq(Event) /\ Mail \in Seq(Parcel)
  BY WayTypes DEF TypeOK
<1>2. MatchId \subseteq Nat /\ executed \subseteq MatchId /\ DoneMatches \subseteq MatchId
  BY DEF MatchesKnown, MatchId, DoneMatches
<1>3. \A i \in DOMAIN events : events[i].kind = "match" =>
         events[i].id \in executed /\ events[i].id \in Nat
  BY <1>2 DEF MatchesKnown
<1>4. \A m : Count(events, m) \in Nat
  BY <1>1, CountType
<1>5. \A m : Heard(m) \in Nat
  BY DEF Heard, TypeOK
<1>6. \A m \in MatchId : NumOfEvents(m) \in Nat \ {0}
  BY NumOfEventsType
<1> QED BY <1>1, <1>2, <1>3, <1>4, <1>5, <1>6

(* The update that the market receives next is about the oldest match that *)
(* is pending.                                                             *)
LEMMA NextIsOldest ==
  ASSUME TypeOK, MatchesKnown, MatchOnce, Orderly,
         NEW h, NEW t \in Seq(Parcel), h \in Parcel, Mail = <<h>> \o t, h.kind = "update"
  PROVE  IsOldestPending(h.id) /\ h.id \in MatchId
<1>1. /\ IdsIn(Mail) = IdsIn(t) \cup {h.id}
      /\ \A m \in DoneMatches : m < h.id
      /\ \A n \in IdsIn(t) : h.id < n
  BY IdsHead DEF Orderly
<1>2. h.id \in executed /\ h.id \in MatchId
  BY <1>1, OrderlyTypes DEF Orderly, ClosedHeard, Closed
<1>3. matches[h.id].state = "pending"
  <2>1. h.id \in Nat
    BY <1>2, OrderlyTypes
  <2>2. h.id \notin DoneMatches
    BY <1>1, <2>1
  <2> QED BY <1>2, <2>2 DEF DoneMatches, Orderly, AllSaved
<1>4. ASSUME NEW n \in 1..(h.id - 1), matches[n].state = "pending"
      PROVE  FALSE
  <2>1. n \in MatchId /\ n \in Nat /\ n < h.id /\ h.id \in Nat
    BY <1>2 DEF MatchId
  <2>2. n \in executed
    <3>1. n \in executed \/ Going(n)
      BY <2>1 DEF Orderly, AllGoing
    <3> QED BY <1>2, <2>1, <3>1, ExecutedFirst
  <2>3. n \notin Closed
    <3>1. n \notin DoneMatches
      BY <1>4 DEF DoneMatches
    <3>2. n \notin IdsIn(t)
      BY <1>1, <2>1
    <3> QED BY <1>1, <2>1, <3>1, <3>2 DEF Closed
  <2>4. EventsOf(events, n) # {}
    <3>1. Count(events, n) # 0
      BY <2>2, <2>3 DEF Orderly, ClosedHeard
    <3> QED BY <3>1, OrderlyTypes, CountType
  <2>5. h.id < n
    BY <1>1, <2>4 DEF EventsOf, Orderly, EventsGoOn, Closed
  <2> QED BY <2>1, <2>5
<1> QED BY <1>2, <1>3, <1>4 DEF IsOldestPending

----------------------------------------------------------------------------
(* Every step without a fault keeps the order.                             *)
LEMMA OrderlyMoves ==
  ASSUME TypeOK, MatchesKnown, Orderly, [Next]_vars,
         UNCHANGED <<matches, executed, events, waiting>>, Mail' = Mail,
         \A m \in MatchId : Going(m) => Going(m)'
  PROVE  Orderly'
<1>1. /\ MatchId' = MatchId /\ DoneMatches' = DoneMatches /\ Closed' = Closed
      /\ \A m : Heard(m)' = Heard(m)
      /\ \A m : NumOfEvents(m)' = NumOfEvents(m)
  BY DEF MatchId, DoneMatches, Closed, Heard, NumOfEvents
<1>2. AllSaved' /\ AllGoing' /\ AllHeard' /\ ClosedHeard'
  BY <1>1 DEF Orderly, AllSaved, AllGoing, AllHeard, ClosedHeard
<1> QED BY <1>1, <1>2 DEF Orderly

LEMMA GoingMoves ==
  ASSUME TypeOK, MatchesKnown, SubmitMatch \/ TakeRequest \/ SendTransaction \/ PushWaitEvent,
         NEW m \in MatchId, Going(m)
  PROVE  Going(m)'
<1>1. /\ sent \in Seq(MatchId) /\ launcherCh \in Seq(MatchId)
      /\ submitting # 0 => submitting \in MatchId
      /\ sending.phase # "idle" => sending.match \in MatchId
      /\ m # 0
  BY DEF MatchesKnown, MatchId
<1>2. CASE SubmitMatch
  <2>1. /\ UNCHANGED <<sent, sending>> /\ submitting # 0
        /\ launcherCh' = Append(launcherCh, submitting)
    BY <1>2 DEF SubmitMatch, chainVars
  <2>2. Holds(launcherCh, m) \/ submitting = m => Holds(launcherCh', m)
    BY <1>1, <2>1, HoldsEnd
  <2> QED BY <2>1, <2>2 DEF Going
<1>3. CASE TakeRequest
  <2>1. /\ UNCHANGED <<sent, submitting>> /\ sending.phase = "idle" /\ launcherCh # <<>>
        /\ sending' = [phase |-> "send", match |-> Head(launcherCh)]
        /\ launcherCh' = Tail(launcherCh)
    BY <1>3 DEF TakeRequest, chainVars
  <2>2. Holds(launcherCh, m) => m = Head(launcherCh) \/ Holds(launcherCh', m)
    BY <1>1, <2>1, HoldsTail
  <2> QED BY <2>1, <2>2 DEF Going
<1>4. CASE SendTransaction
  <2>1. /\ UNCHANGED <<launcherCh, submitting>> /\ sending.phase = "send"
        /\ sent' = Append(sent, sending.match)
    BY <1>4 DEF SendTransaction
  <2>2. Holds(sent, m) \/ sending.match = m => Holds(sent', m)
    BY <1>1, <2>1, HoldsEnd
  <2> QED BY <2>1, <2>2 DEF Going
<1>5. CASE PushWaitEvent
  BY <1>5 DEF PushWaitEvent, chainVars, Going
<1> QED BY <1>2, <1>3, <1>4, <1>5

LEMMA OrderlyDrain ==
  ASSUME TypeOK, MatchesKnown, MatchOnce, Orderly, [Next]_vars, DrainNotifier
  PROVE  Orderly'
<1> DEFINE h == Head(notifierList)
<1>1. /\ notifierList # <<>> /\ UNCHANGED <<matches, executed, events>>
      /\ UNCHANGED <<marketCh, inHand, engineList, sent, sending, launcherCh, submitting>>
      /\ waiting' = [m \in DOMAIN waiting \cup {h} |-> IF m = h THEN 0 ELSE waiting[m]]
  BY DEF DrainNotifier, chainVars
<1>2. h \notin DOMAIN waiting
  <2>1. \E i \in DOMAIN notifierList : notifierList[i] = h
    BY <1>1, ElementsOfTail DEF MatchesKnown
  <2>2. Awaited(h)
    BY <2>1 DEF Awaited
  <2> QED BY <2>2, WaitingNotAwaited
<1> HIDE DEF h
<1>3. \A m : Heard(m)' = Heard(m)
  BY <1>1, <1>2 DEF Heard
<1>4. /\ MatchId' = MatchId /\ DoneMatches' = DoneMatches /\ Mail' = Mail /\ Closed' = Closed
      /\ \A m : NumOfEvents(m)' = NumOfEvents(m)
      /\ \A m : Going(m)' <=> Going(m)
  BY <1>1 DEF MatchId, DoneMatches, Closed, Mail, NumOfEvents, Going
<1>5. AllSaved' /\ AllGoing' /\ AllHeard' /\ ClosedHeard'
  BY <1>1, <1>3, <1>4 DEF Orderly, AllSaved, AllGoing, AllHeard, ClosedHeard
<1> QED BY <1>1, <1>4, <1>5 DEF Orderly

(* An order is created: one more event, which is about no match.           *)
LEMMA OrderlyCreate ==
  ASSUME TypeOK, MatchesKnown, Orderly, CreateOrder
  PROVE  Orderly'
<1> DEFINE e == Created(created + 1)
<1>1. /\ events' = Append(events, e) /\ created < MaxOrders
      /\ UNCHANGED <<matches, executed, waiting, marketCh, inHand, engineList>>
      /\ UNCHANGED <<sent, sending, launcherCh, submitting>>
  BY DEF CreateOrder, durable, volatile
<1>2. e \in Event /\ e.kind # "match"
  BY <1>1, CountersType DEF Created, Event, Id
<1> HIDE DEF e
<1>3. events \in Seq(Event)
  BY DEF TypeOK
<1>4. \A m : Count(events', m) = Count(events, m)
  BY <1>1, <1>2, <1>3, CountEnd DEF IsEvent
<1>5. /\ MatchId' = MatchId /\ DoneMatches' = DoneMatches /\ Mail' = Mail /\ Closed' = Closed
      /\ \A m : NumOfEvents(m)' = NumOfEvents(m)
      /\ \A m : Going(m)' <=> Going(m)
      /\ \A m : Heard(m)' = Heard(m)
  BY <1>1 DEF MatchId, DoneMatches, Closed, Mail, NumOfEvents, Going, Heard
<1>6. EventsGoOn(Closed, events')
  BY <1>1, <1>2, <1>3, EventsEnd DEF Orderly
<1>7. AllSaved' /\ AllGoing' /\ AllHeard' /\ ClosedHeard'
  BY <1>1, <1>4, <1>5 DEF Orderly, AllSaved, AllGoing, AllHeard, ClosedHeard
<1> QED BY <1>1, <1>5, <1>6, <1>7 DEF Orderly

(* A transaction is executed: the events of its match, the newest executed.*)
LEMMA OrderlyExecute ==
  ASSUME TypeOK, MatchesKnown, MatchOnce, Orderly, ExecuteSuccess
  PROVE  Orderly'
<1> DEFINE m == Head(sent)
           n == NumOfEvents(m)
           e == Matched(m)
           r == [i \in 1..n |-> e]
<1>1. /\ sent # <<>> /\ sent' = Tail(sent)
      /\ executed' = executed \cup {m} /\ events' = events \o r
      /\ UNCHANGED <<matches, waiting, marketCh, inHand, engineList>>
      /\ UNCHANGED <<sending, launcherCh, submitting>>
  BY DEF ExecuteSuccess, durable, volatile
<1>2. sent \in Seq(MatchId)
  BY DEF MatchesKnown
<1>3. m \in MatchId /\ (\E i \in DOMAIN sent : sent[i] = m)
  BY <1>1, <1>2, HeadThenTail, ElementsOfTail
<1>4. Going(m)
  BY <1>3 DEF Going, Holds
<1>5. \A k \in executed : k < m /\ k \in Nat /\ m \in Nat /\ k \in MatchId
  BY <1>3, <1>4, ExecutedFirst, OrderlyTypes
<1>6. m \notin executed
  BY <1>5
<1>7. n \in Nat \ {0} /\ e.kind = "match" /\ e.id = m /\ m \in Nat /\ m # 0 /\ e \in Event
  BY <1>3, OrderlyTypes DEF Matched, Event, MatchId
<1>8. \A x \in MatchId : Holds(sent, x) => x = m \/ Holds(Tail(sent), x)
  BY <1>1, <1>2, HoldsTail
<1> HIDE DEF m, n, e
<1>9. r \in Seq(Event) /\ Repeats(r, n, e)
  <2>1. r \in [1..n -> Event] /\ n \in Nat
    BY <1>7
  <2>2. r \in Seq(Event) /\ Len(r) = n
    BY <2>1, SeqDef, LenProperties
  <2> QED BY <2>2 DEF Repeats
<1> HIDE DEF r
<1>10. /\ MatchId' = MatchId /\ DoneMatches' = DoneMatches /\ Mail' = Mail /\ Closed' = Closed
       /\ \A x : NumOfEvents(x)' = NumOfEvents(x)
       /\ \A x : Heard(x)' = Heard(x)
  BY <1>1 DEF MatchId, DoneMatches, Closed, Mail, NumOfEvents, Heard
<1>11. events \in Seq(Event) /\ n \in Nat
  BY <1>7 DEF TypeOK
<1>12. Count(events, m) = 0 /\ Heard(m) = 0
  <2>1. Count(events, m) + Heard(m) = 0
    BY <1>3, <1>6 DEF Orderly, AllHeard
  <2>2. Count(events, m) \in Nat /\ Heard(m) \in Nat
    BY OrderlyTypes
  <2> QED BY <2>1, <2>2
<1>13. Count(events', m) = n
  <2>1. IsEvent(e, m)
    BY <1>7 DEF IsEvent
  <2> QED BY <1>1, <1>9, <1>11, <1>12, <2>1, CountMany
<1>14. ASSUME NEW x, x # m PROVE Count(events', x) = Count(events, x)
  <2>1. ~IsEvent(e, x)
    BY <1>7, <1>14 DEF IsEvent
  <2> QED BY <1>1, <1>9, <1>11, <2>1, CountMany
<1>15. EventsGoOn(Closed, events')
  <2>1. \A k \in Closed : k < m
    BY <1>5 DEF Orderly, ClosedHeard
  <2>2. \A i \in DOMAIN events : events[i].kind = "match" => events[i].id <= m
    BY <1>5, OrderlyTypes
  <2>3. EventsGoOn(Closed, events)
    BY DEF Orderly
  <2>4. \A k \in Closed : k < e.id
    BY <1>7, <2>1
  <2>5. \A i \in DOMAIN events : events[i].kind = "match" => events[i].id <= e.id
    BY <1>7, <2>2
  <2>6. EventsGoOn(Closed, events \o r)
    BY <1>7, <1>9, <1>11, <2>3, <2>4, <2>5, EventsMore
  <2> QED BY <1>1, <2>6
<1>16. AllSaved'
  BY <1>1, <1>10 DEF Orderly, AllSaved
<1>17. AllGoing'
  <2>1. \A x \in MatchId : Going(x) => x = m \/ Going(x)'
    BY <1>1, <1>8 DEF Going
  <2> QED BY <1>1, <1>10, <2>1 DEF Orderly, AllGoing
<1>18. AllHeard'
  <2>1. ASSUME NEW x \in MatchId
        PROVE  Count(events', x) + Heard(x)' = IF x \in executed' THEN NumOfEvents(x)' ELSE 0
    <3>1. CASE x = m
      BY <1>1, <1>7, <1>10, <1>12, <1>13, <3>1 DEF n
    <3>2. CASE x # m
      <4>1. Count(events, x) + Heard(x) = IF x \in executed THEN NumOfEvents(x) ELSE 0
        BY DEF Orderly, AllHeard
      <4>2. x \in executed' <=> x \in executed
        BY <1>1, <3>2
      <4>3. Count(events', x) = Count(events, x)
        BY <1>14, <3>2
      <4> QED BY <1>10, <4>1, <4>2, <4>3
    <3> QED BY <3>1, <3>2
  <2> QED BY <1>10, <2>1 DEF AllHeard
<1>19. ClosedHeard'
  <2>1. Closed \subseteq executed'
    BY <1>1 DEF Orderly, ClosedHeard
  <2>2. ASSUME NEW x \in executed' PROVE x \in Closed <=> Count(events', x) = 0
    <3>1. CASE x = m
      <4>1. m \notin Closed
        BY <1>6 DEF Orderly, ClosedHeard
      <4> QED BY <1>7, <1>13, <3>1, <4>1
    <3>2. CASE x # m
      <4>1. x \in executed
        BY <1>1, <3>2
      <4> QED BY <1>14, <3>2, <4>1 DEF Orderly, ClosedHeard
    <3> QED BY <3>1, <3>2
  <2> QED BY <1>10, <2>1, <2>2 DEF ClosedHeard
<1>20. UpdatesGoOn(DoneMatches, Mail)
  BY DEF Orderly
<1> QED BY <1>10, <1>15, <1>16, <1>17, <1>18, <1>19, <1>20 DEF Orderly

(* No call fails where nothing is lost.                                    *)
LEMMA NoLoss == TypeOK /\ NoFault' => ~Lose
  BY DEF TypeOK, NoFault, Lose

(* The event of an order is passed on.                                     *)
LEMMA OrderlyNotifyCreate ==
  ASSUME TypeOK, MatchesKnown, Orderly, NotifyCreate, NoFault'
  PROVE  Orderly'
<1> DEFINE h == Head(events)
           t == Tail(events)
           e == NewOrder(h.id)
<1>1. /\ events # <<>> /\ h.kind = "create" /\ events' = t
      /\ engineList' = Append(engineList, e)
      /\ UNCHANGED <<matches, executed, waiting, marketCh, inHand>>
      /\ UNCHANGED <<sent, sending, launcherCh, submitting>>
  BY NoLoss DEF NotifyCreate, volatile
<1>2. h \in Event /\ t \in Seq(Event) /\ events = <<h>> \o t
  BY <1>1, HeadThenTail DEF TypeOK
<1>3. e \in Parcel /\ e.kind # "update"
  BY <1>1, <1>2 DEF Event, NewOrder, Message, Parcel
<1> HIDE DEF h, t, e
<1>4. \A m : ~IsEvent(h, m)
  BY <1>1 DEF IsEvent
<1>5. \A m : Count(t, m) = Count(events, m)
  <2> SUFFICES ASSUME NEW m PROVE Count(t, m) = Count(events, m)
    OBVIOUS
  <2>1. Count(events, m) = Count(t, m) + (IF IsEvent(h, m) THEN 1 ELSE 0)
    BY <1>2, CountHead
  <2>2. Count(t, m) \in Nat
    BY <1>2, CountType
  <2> QED BY <1>4, <2>1, <2>2
<1>6. Mail' = Mail \o <<e>> /\ Mail \in Seq(Parcel)
  BY <1>1, <1>3, MailAppended, WayTypes
<1>7. IdsIn(Mail') = IdsIn(Mail) /\ UpdatesGoOn(DoneMatches, Mail')
  <2>1. UpdatesGoOn(DoneMatches, Mail)
    BY DEF Orderly
  <2>2. /\ IdsIn(Mail \o <<e>>) = IdsIn(Mail) \cup (IF e.kind = "update" THEN {e.id} ELSE {})
        /\ UpdatesGoOn(DoneMatches, Mail \o <<e>>)
    BY <1>3, <1>6, <2>1, IdsEnd
  <2> QED BY <1>3, <1>6, <2>2
<1>8. /\ MatchId' = MatchId /\ DoneMatches' = DoneMatches /\ Closed' = Closed
      /\ \A m : NumOfEvents(m)' = NumOfEvents(m)
      /\ \A m : Going(m)' <=> Going(m)
      /\ \A m : Heard(m)' = Heard(m)
  BY <1>1, <1>7 DEF MatchId, DoneMatches, Closed, NumOfEvents, Going, Heard
<1>9. EventsGoOn(Closed, t)
  BY <1>2, EventsHandled DEF Orderly
<1>10. AllSaved' /\ AllGoing' /\ AllHeard' /\ ClosedHeard'
  BY <1>1, <1>5, <1>8 DEF Orderly, AllSaved, AllGoing, AllHeard, ClosedHeard
<1> QED BY <1>1, <1>7, <1>8, <1>9, <1>10 DEF Orderly

(* An event of a match is counted, and its last one closes it.             *)
LEMMA OrderlyNotifyMatch ==
  ASSUME TypeOK, MatchesKnown, Orderly, NotifyMatch, NoFault'
  PROVE  Orderly'
<1> DEFINE h == Head(events)
           t == Tail(events)
           e == Update(h.id)
<1> PICK m : m = h.id
  OBVIOUS
<1>1. /\ events # <<>> /\ h.kind = "match" /\ events' = t
      /\ m \in DOMAIN waiting /\ waiting' = [waiting EXCEPT ![m] = @ + 1]
      /\ engineList' = IF Completes(m) THEN Append(engineList, e) ELSE engineList
      /\ UNCHANGED <<matches, executed, marketCh, inHand>>
      /\ UNCHANGED <<sent, sending, launcherCh, submitting>>
  BY NoLoss DEF NotifyMatch
<1>2. h \in Event /\ t \in Seq(Event) /\ events = <<h>> \o t
  BY <1>1, HeadThenTail DEF TypeOK
<1>3. m \in MatchId /\ m \in executed /\ m \in Nat
  <2>1. \E i \in DOMAIN events : events[i] = h
    BY <1>1, <1>2, ElementsOfTail DEF TypeOK
  <2> QED BY <1>1, <2>1, OrderlyTypes
<1>4. e \in Parcel /\ e.kind = "update" /\ e.id = m
  BY <1>1, <1>2 DEF Event, Update, Message, Parcel
<1> HIDE DEF h, t, e
<1>5. \A x : IsEvent(h, x) <=> x = m
  BY <1>1 DEF IsEvent, h
<1>6. \A x : Count(events, x) = Count(t, x) + (IF x = m THEN 1 ELSE 0)
  <2> SUFFICES ASSUME NEW x PROVE Count(events, x) = Count(t, x) + (IF x = m THEN 1 ELSE 0)
    OBVIOUS
  <2>1. Count(events, x) = Count(t, x) + (IF IsEvent(h, x) THEN 1 ELSE 0)
    BY <1>2, CountHead
  <2> QED BY <1>5, <2>1
<1>7. \A x : Count(t, x) \in Nat
  BY <1>2, CountType
<1>8. waiting[m] \in Nat /\ waiting'[m] = waiting[m] + 1
      /\ \A x \in DOMAIN waiting : x # m => waiting'[x] = waiting[x]
  BY <1>1 DEF TypeOK
<1>9. \A x : Heard(x)' = Heard(x) + (IF x = m THEN 1 ELSE 0)
  <2>1. DOMAIN waiting' = DOMAIN waiting
    BY <1>1
  <2>2. \A x : Heard(x) \in Nat
    BY OrderlyTypes
  <2> QED BY <1>1, <1>8, <2>1, <2>2 DEF Heard
<1>10. NumOfEvents(m) \in Nat /\ Count(events, m) + Heard(m) = NumOfEvents(m)
  BY <1>3, OrderlyTypes DEF Orderly, AllHeard
<1>11. Completes(m) <=> Count(t, m) = 0
  <2>1. Heard(m) = waiting[m]
    BY <1>1 DEF Heard
  <2> QED BY <1>6, <1>7, <1>8, <1>10, <2>1 DEF Completes
<1>12. /\ MatchId' = MatchId /\ DoneMatches' = DoneMatches
       /\ \A x : NumOfEvents(x)' = NumOfEvents(x)
       /\ \A x : Going(x)' <=> Going(x)
  BY <1>1 DEF MatchId, DoneMatches, NumOfEvents, Going
<1>13. AllSaved' /\ AllGoing'
  BY <1>1, <1>12 DEF Orderly, AllSaved, AllGoing
<1>14. AllHeard'
  <2>1. ASSUME NEW x \in MatchId
        PROVE  Count(t, x) + Heard(x)' = IF x \in executed THEN NumOfEvents(x) ELSE 0
    <3>1. Count(events, x) + Heard(x) = IF x \in executed THEN NumOfEvents(x) ELSE 0
      BY DEF Orderly, AllHeard
    <3>2. Count(t, x) \in Nat /\ Heard(x) \in Nat
      BY <1>7, OrderlyTypes
    <3> QED BY <1>6, <1>9, <3>1, <3>2
  <2> QED BY <1>1, <1>12, <2>1 DEF AllHeard
<1>15. m \notin Closed
  <2>1. Count(events, m) # 0
    BY <1>6, <1>7
  <2> QED BY <1>3, <2>1 DEF Orderly, ClosedHeard
<1>16. /\ EventsGoOn(Closed, t)
       /\ \A k \in Closed : k < m
       /\ Count(t, m) = 0 => EventsGoOn(Closed \cup {m}, t)
  <2>1. EventsGoOn(Closed, <<h>> \o t)
    BY <1>2 DEF Orderly
  <2>2. \A i \in DOMAIN t : t[i].kind = "match" => t[i].id \in Nat
    <3>1. \A i \in DOMAIN t : \E j \in DOMAIN events : events[j] = t[i]
      BY <1>1, ElementsOfTail DEF t, TypeOK
    <3> QED BY <3>1, OrderlyTypes
  <2>3. IsEvent(h, m)
    BY <1>5
  <2> QED BY <1>2, <1>3, <2>1, <2>2, <2>3, EventsHandled
<1>17. UpdatesGoOn(DoneMatches, Mail) /\ Closed = DoneMatches \cup IdsIn(Mail)
  BY DEF Orderly, Closed
<1>18. CASE ~Completes(m)
  <2>1. Mail' = Mail /\ Closed' = Closed
    BY <1>1, <1>12, <1>18 DEF Mail, Closed
  <2>2. ClosedHeard'
    <3>1. \A x \in executed : x \in Closed <=> Count(t, x) = 0
      BY <1>6, <1>7, <1>11, <1>15, <1>18 DEF Orderly, ClosedHeard
    <3> QED BY <1>1, <2>1, <3>1 DEF Orderly, ClosedHeard
  <2> QED BY <1>1, <1>12, <1>13, <1>14, <1>16, <1>17, <2>1, <2>2 DEF Orderly
<1>19. CASE Completes(m)
  <2>1. engineList' = Append(engineList, e)
    BY <1>1, <1>19
  <2>2. Mail' = Mail \o <<e>> /\ Mail \in Seq(Parcel)
    BY <1>1, <1>4, <2>1, MailAppended, WayTypes
  <2>3. \A k \in DoneMatches \cup IdsIn(Mail) : k < e.id
    BY <1>4, <1>16, <1>17
  <2>4. IdsIn(Mail') = IdsIn(Mail) \cup {m} /\ UpdatesGoOn(DoneMatches, Mail')
    <3>1. /\ IdsIn(Mail \o <<e>>) = IdsIn(Mail) \cup (IF e.kind = "update" THEN {e.id} ELSE {})
          /\ UpdatesGoOn(DoneMatches, Mail \o <<e>>)
      BY <1>4, <1>17, <2>2, <2>3, IdsEnd
    <3> QED BY <1>4, <2>2, <3>1
  <2>5. Closed' = Closed \cup {m}
    BY <1>12, <2>4 DEF Closed
  <2>6. ClosedHeard'
    <3>1. \A x \in executed : x \in Closed \cup {m} <=> Count(t, x) = 0
      BY <1>6, <1>7, <1>11, <1>19 DEF Orderly, ClosedHeard
    <3> QED BY <1>1, <1>3, <2>5, <3>1 DEF Orderly, ClosedHeard
  <2>7. EventsGoOn(Closed', events')
    BY <1>1, <1>11, <1>16, <1>19, <2>5
  <2> QED BY <1>12, <1>13, <1>14, <2>4, <2>6, <2>7 DEF Orderly
<1> QED BY <1>18, <1>19

(* The head of the mail is taken.                                          *)
LEMMA MailTaken ==
  ASSUME Orderly, NEW h \in Parcel, NEW q \in Seq(Parcel), Mail = <<h>> \o q
  PROVE  /\ h.kind # "update" => IdsIn(q) = IdsIn(Mail) /\ UpdatesGoOn(DoneMatches, q)
         /\ h.kind = "update" =>
              IdsIn(Mail) = IdsIn(q) \cup {h.id} /\ UpdatesGoOn(DoneMatches \cup {h.id}, q)
<1>1. UpdatesGoOn(DoneMatches, <<h>> \o q)
  BY DEF Orderly
<1>2. /\ IdsIn(<<h>> \o q) = IdsIn(q) \cup (IF h.kind = "update" THEN {h.id} ELSE {})
      /\ UpdatesGoOn(DoneMatches, q)
      /\ h.kind = "update" => UpdatesGoOn(DoneMatches \cup {h.id}, q)
  BY <1>1, IdsHead
<1>3. QED
  BY <1>2

(* A new order: the match it makes, if any, is pending and is going.       *)
LEMMA OrderlyNewOrder ==
  ASSUME TypeOK, MatchesKnown, Orderly, [Next]_vars, NewOrderStep, NoFault'
  PROVE  Orderly'
<1> DEFINE h == Head(marketCh)
<1> PICK n : n = Len(matches) + 1
  OBVIOUS
<1>1. /\ marketCh # <<>> /\ marketCh' = Tail(marketCh) /\ h.kind = "new"
      /\ UNCHANGED <<inHand, engineList, events, executed, waiting>>
      /\ UNCHANGED <<sent, sending, launcherCh>> /\ submitting = 0
  BY ZenonT(60) DEF NewOrderStep, ProcessLimitOrder, chainVars
<1>2. \/ UNCHANGED <<matches, submitting>>
      \/ /\ \E r : matches' = Append(matches, r) /\ r.state = "pending"
         /\ submitting' = n
  <2>1. PICK makers, stays, rests : ProcessLimitOrder(makers, stays, rests)
    BY DEF NewOrderStep
  <2>2. CASE makers = {}
    BY <2>1, <2>2 DEF ProcessLimitOrder
  <2>3. CASE makers # {}
    <3>1. PICK state \in {"pending", "unsaved"} :
            /\ matches' = Append(matches, [taker |-> h.id, makers |-> makers, state |-> state])
            /\ IF state = "pending" THEN UNCHANGED losses ELSE Lose
      BY <2>1, <2>3 DEF ProcessLimitOrder
    <3>2. state = "pending"
      BY <3>1, NoLoss
    <3>3. submitting' = n
      BY <2>1, <2>3 DEF ProcessLimitOrder
    <3>4. [taker |-> h.id, makers |-> makers, state |-> state].state = "pending"
      BY <3>2
    <3> QED BY <3>1, <3>3, <3>4
  <2> QED BY <2>2, <2>3
<1>3. h \in Parcel /\ Mail' \in Seq(Parcel) /\ Mail = <<h>> \o Mail'
  BY <1>1, WayTaken
<1>4. DoneMatches' = DoneMatches
  <2>1. ~ConfirmMatch
    BY <1>1 DEF ConfirmMatch
  <2> QED BY <2>1, DoneKeeps
<1> HIDE DEF h
<1>5. IdsIn(Mail') = IdsIn(Mail) /\ UpdatesGoOn(DoneMatches, Mail')
  <2> PICK q : q = Mail'
    OBVIOUS
  <2>1. q \in Seq(Parcel) /\ Mail = <<h>> \o q
    BY <1>3
  <2> QED BY <1>1, <1>3, <2>1, MailTaken
<1>6. Closed' = Closed
  BY <1>4, <1>5 DEF Closed
<1>7. /\ Len(matches) \in Nat /\ matches \in Seq(MatchRecord)
      /\ n \in Nat /\ n \notin MatchId
  BY LenProperties DEF TypeOK, MatchId
<1>8. \A m \in MatchId : NumOfEvents(m)' = NumOfEvents(m)
  BY NumOfEventsKeeps
<1>9. ClosedHeard' /\ EventsGoOn(Closed', events')
  BY <1>1, <1>6 DEF Orderly, ClosedHeard
<1>10. \A m : Heard(m)' = Heard(m)
  BY <1>1 DEF Heard
<1>11. CASE UNCHANGED <<matches, submitting>>
  <2>1. MatchId' = MatchId /\ (\A m : Going(m)' <=> Going(m))
    BY <1>1, <1>11 DEF MatchId, Going
  <2>2. AllSaved' /\ AllGoing' /\ AllHeard'
    BY <1>1, <1>8, <1>10, <1>11, <2>1 DEF Orderly, AllSaved, AllGoing, AllHeard
  <2> QED BY <1>4, <1>5, <1>9, <2>2 DEF Orderly
<1>12. CASE /\ \E r : matches' = Append(matches, r) /\ r.state = "pending"
            /\ submitting' = n
  <2>1. PICK r : matches' = Append(matches, r) /\ r.state = "pending"
    BY <1>12
  <2>2. /\ Len(matches') = n /\ matches'[n] = r
        /\ \A m \in 1..Len(matches) : matches'[m] = matches[m]
    BY <1>7, <2>1
  <2>3. /\ MatchId' = MatchId \cup {n}
        /\ \A m \in MatchId : matches'[m] = matches[m]
    BY <1>7, <2>2 DEF MatchId
  <2>4. AllSaved'
    BY <2>1, <2>2, <2>3 DEF Orderly, AllSaved
  <2>5. AllGoing'
    <3>1. \A m \in MatchId : m # 0
      BY DEF MatchId
    <3>2. \A m \in MatchId : Going(m) => Going(m)'
      BY <1>1, <3>1 DEF Going
    <3>3. Going(n)'
      BY <1>12 DEF Going
    <3> QED BY <1>1, <2>3, <3>2, <3>3 DEF Orderly, AllGoing
  <2>6. AllHeard'
    <3>1. ASSUME NEW m \in MatchId
          PROVE  Count(events, m) + Heard(m) = IF m \in executed THEN NumOfEvents(m)' ELSE 0
      BY <1>8 DEF Orderly, AllHeard
    <3>2. n \notin executed /\ Count(events, n) + Heard(n) = 0
      <4>1. n \notin executed /\ n \notin DOMAIN waiting
        BY <1>7 DEF MatchesKnown
      <4>2. EventsOf(events, n) = {}
        BY <4>1, OrderlyTypes DEF EventsOf
      <4>3. Count(events, n) = 0
        BY <4>2, OrderlyTypes, CountType
      <4>4. Heard(n) = 0
        BY <4>1 DEF Heard
      <4> QED BY <4>1, <4>3, <4>4
    <3> QED BY <1>1, <1>10, <2>3, <3>1, <3>2 DEF AllHeard
  <2> QED BY <1>4, <1>5, <1>9, <2>4, <2>5, <2>6 DEF Orderly
<1> QED BY <1>2, <1>11, <1>12

(* What is confirmed is the match of the transaction the update is about.  *)
LEMMA ConfirmsItsOwn ==
  ASSUME TypeOK, MatchesKnown, MatchOnce, Orderly, ConfirmMatch
  PROVE  \/ UNCHANGED matches /\ Lose
         \/ /\ Head(marketCh).id \in MatchId
            /\ matches[Head(marketCh).id].state = "pending"
            /\ matches' = [matches EXCEPT ![Head(marketCh).id].state = "done"]
<1> DEFINE h == Head(marketCh)
<1>1. /\ marketCh # <<>> /\ marketCh' = Tail(marketCh) /\ h.kind = "update"
      /\ UNCHANGED <<inHand, engineList, events>>
  BY DEF ConfirmMatch, chainVars
<1>2. h \in Parcel /\ Mail' \in Seq(Parcel) /\ Mail = <<h>> \o Mail'
  BY <1>1, WayTaken
<1>3. IsOldestPending(h.id) /\ h.id \in MatchId
  <2> PICK q : q = Mail'
    OBVIOUS
  <2>1. q \in Seq(Parcel) /\ Mail = <<h>> \o q
    BY <1>2
  <2> HIDE DEF h
  <2> QED BY <1>1, <1>2, <2>1, NextIsOldest
<1>4. \A m \in MatchId : IsOldestPending(m) => m = h.id
  <2> SUFFICES ASSUME NEW m \in MatchId, IsOldestPending(m), m # h.id
               PROVE  FALSE
    OBVIOUS
  <2> HIDE DEF h
  <2>1. m \in Nat /\ h.id \in Nat /\ 1 <= m /\ 1 <= h.id
    BY <1>3 DEF MatchId
  <2>2. m \in 1..(h.id - 1) \/ h.id \in 1..(m - 1)
    BY <2>1
  <2> QED BY <1>3, <2>2 DEF IsOldestPending
<1>5. matches[h.id].state = "pending"
  BY <1>3 DEF IsOldestPending
<1>6. \/ \E m \in MatchId : IsOldestPending(m) /\ matches' = [matches EXCEPT ![m].state = "done"]
      \/ \A m \in MatchId : ~IsOldestPending(m)
      \/ UNCHANGED matches /\ Lose
  BY DEF ConfirmMatch
<1> QED BY <1>3, <1>4, <1>5, <1>6

LEMMA OrderlyConfirm ==
  ASSUME TypeOK, MatchesKnown, MatchOnce, Orderly, [Next]_vars, ConfirmMatch, NoFault'
  PROVE  Orderly'
<1> DEFINE h == Head(marketCh)
<1> PICK m : m = h.id
  OBVIOUS
<1>1. /\ marketCh # <<>> /\ marketCh' = Tail(marketCh) /\ h.kind = "update"
      /\ UNCHANGED <<inHand, engineList, events, executed, waiting>>
      /\ UNCHANGED <<sent, sending, launcherCh, submitting>>
  BY DEF ConfirmMatch, chainVars
<1>2. m \in MatchId /\ matches[m].state = "pending"
      /\ matches' = [matches EXCEPT ![m].state = "done"]
  BY NoLoss, ConfirmsItsOwn
<1>3. h \in Parcel /\ Mail' \in Seq(Parcel) /\ Mail = <<h>> \o Mail'
  BY <1>1, WayTaken
<1> HIDE DEF h
<1>4. /\ MatchId' = MatchId /\ matches'[m].state = "done"
      /\ \A k \in MatchId : k # m => matches'[k] = matches[k]
  <2>1. matches \in Seq(MatchRecord)
    BY DEF TypeOK
  <2>2. /\ Len(matches') = Len(matches) /\ DOMAIN matches = MatchId
        /\ matches[m] \in MatchRecord
    BY <1>2, <2>1, LenProperties, ElementOfSeq DEF MatchId
  <2> QED BY <1>2, <2>2 DEF MatchId, MatchRecord
<1>5. DoneMatches' = DoneMatches \cup {m}
  BY <1>2, <1>4 DEF DoneMatches
<1>6. IdsIn(Mail) = IdsIn(Mail') \cup {m} /\ UpdatesGoOn(DoneMatches \cup {m}, Mail')
  <2> PICK q : q = Mail'
    OBVIOUS
  <2>1. q \in Seq(Parcel) /\ Mail = <<h>> \o q /\ m = h.id
    BY <1>3 DEF h
  <2> QED BY <1>1, <1>3, <2>1, MailTaken
<1>7. Closed' = Closed
  BY <1>5, <1>6 DEF Closed
<1>8. AllSaved'
  BY <1>4 DEF Orderly, AllSaved
<1>9. AllGoing'
  BY <1>1, <1>4 DEF Orderly, AllGoing, Going
<1>10. AllHeard'
  <2>1. \A k \in MatchId : NumOfEvents(k)' = NumOfEvents(k)
    BY NumOfEventsKeeps
  <2>2. \A k : Heard(k)' = Heard(k)
    BY <1>1 DEF Heard
  <2> QED BY <1>1, <1>4, <2>1, <2>2 DEF Orderly, AllHeard
<1>11. ClosedHeard' /\ EventsGoOn(Closed', events')
  BY <1>1, <1>7 DEF Orderly, ClosedHeard
<1> QED BY <1>5, <1>6, <1>8, <1>9, <1>10, <1>11 DEF Orderly

(* A fault stays one: no step takes it back.                               *)
LEMMA FaultsStay ==
  ASSUME TypeOK, [Next]_vars, NoFault'
  PROVE  /\ NoFault
         /\ ~(\E id \in Id : CancelOrder(id)) /\ ~ExecuteFailure /\ ~Crash /\ ~NotifyPanic
         /\ ~SendFails /\ ~DropOrder
<1>1. /\ failures \in Nat /\ losses \in Nat /\ crashes \in Nat
      /\ failures' = 0 /\ losses' = 0 /\ crashes' = 0 /\ cancelled' = {}
  BY DEF TypeOK, NoFault
<1>2. ~(\E id \in Id : CancelOrder(id))
  BY <1>1 DEF CancelOrder
<1>3. ~Crash /\ ~NotifyPanic
  BY <1>1 DEF Crash, NotifyPanic, Die
<1>4. ~SendFails /\ ~DropOrder
  BY <1>1 DEF SendFails, DropOrder, Lose
<1>5. /\ failures' \in {failures, failures + 1} /\ losses' \in {losses, losses + 1}
      /\ crashes' \in {crashes, crashes + 1} /\ cancelled \subseteq cancelled'
  <2>1. CASE \/ CreateOrder \/ Chain \/ Restart \/ UNCHANGED vars
    BY <2>1 DEF CreateOrder, Chain, ExecuteSuccess, ExecuteFailure, Restart, vars,
                chainVars, faults
  <2>2. CASE Notifier \/ DrainNotifier \/ EngineLoop
    BY <1>3, <2>2 DEF Notifier, NotifyCreate, NotifyMatch, DrainNotifier, EngineLoop,
                DrainEngine, PushMarket, Lose, chainVars, faults
  <2>3. CASE NewOrderStep
    <3>1. PICK makers, stays, rests : ProcessLimitOrder(makers, stays, rests)
      BY <2>3 DEF NewOrderStep
    <3>2. UNCHANGED <<cancelled, failures, crashes>>
      BY <3>1 DEF ProcessLimitOrder, chainVars
    <3>3. losses' = losses \/ Lose
      BY <3>1 DEF ProcessLimitOrder
    <3> QED BY <3>2, <3>3 DEF Lose
  <2>4. CASE SubmitMatch \/ ConfirmMatch
    BY <2>4 DEF SubmitMatch, ConfirmMatch, Lose, chainVars, faults
  <2>5. CASE Launcher
    BY <1>4, <2>5 DEF Launcher, TakeRequest, SendTransaction, PushWaitEvent, Lose,
                      chainVars, faults
  <2> QED BY <1>2, <1>3, <1>4, <2>1, <2>2, <2>3, <2>4, <2>5 DEF Next, Market, Notifier
<1>6. NoFault
  BY <1>1, <1>5 DEF NoFault
<1>7. ~ExecuteFailure
  BY <1>1, <1>6 DEF ExecuteFailure, NoFault
<1>8. QED
  BY <1>2, <1>3, <1>4, <1>6, <1>7

LEMMA OrderlyKeeps ==
  ASSUME TypeOK, MatchesKnown, MatchOnce, NoFault => Orderly, [Next]_vars
  PROVE  (NoFault => Orderly)'
<1> SUFFICES ASSUME NoFault' PROVE Orderly'
  OBVIOUS
<1>1. NoFault /\ Orderly
  BY FaultsStay
<1>2. CASE CreateOrder
  BY <1>1, <1>2, OrderlyCreate
<1>3. CASE ExecuteSuccess
  BY <1>1, <1>3, OrderlyExecute
<1>4. CASE NotifyCreate
  BY <1>1, <1>4, OrderlyNotifyCreate
<1>5. CASE NotifyMatch
  BY <1>1, <1>5, OrderlyNotifyMatch
<1>6. CASE DrainNotifier
  BY <1>1, <1>6, OrderlyDrain
<1>7. CASE NewOrderStep
  BY <1>1, <1>7, OrderlyNewOrder
<1>8. CASE ConfirmMatch
  BY <1>1, <1>8, OrderlyConfirm
<1>9. CASE SubmitMatch \/ TakeRequest \/ SendTransaction \/ PushWaitEvent
  <2>1. UNCHANGED <<matches, executed, events, waiting>>
    BY <1>9 DEF SubmitMatch, TakeRequest, SendTransaction, PushWaitEvent, chainVars, durable
  <2>2. UNCHANGED <<marketCh, inHand, engineList>>
    BY <1>9 DEF SubmitMatch, TakeRequest, SendTransaction, PushWaitEvent, durable
  <2>3. Mail' = Mail
    BY <2>2 DEF Mail
  <2>4. \A m \in MatchId : Going(m) => Going(m)'
    BY <1>9, GoingMoves
  <2> QED BY <1>1, <2>1, <2>3, <2>4, OrderlyMoves
<1>10. CASE EngineLoop
  <2>1. UNCHANGED <<matches, executed, events, waiting>>
    BY <1>10 DEF EngineLoop, DrainEngine, PushMarket, chainVars, durable
  <2>2. UNCHANGED <<sent, sending, launcherCh, submitting>>
    BY <1>10 DEF EngineLoop, DrainEngine, PushMarket, chainVars
  <2>3. Mail' = Mail
    BY <1>10, WayMoved
  <2>4. \A m \in MatchId : Going(m) => Going(m)'
    BY <2>2 DEF Going
  <2> QED BY <1>1, <2>1, <2>3, <2>4, OrderlyMoves
<1>11. CASE Restart \/ UNCHANGED vars
  <2>1. UNCHANGED <<matches, executed, events, waiting>>
    BY <1>11 DEF Restart, vars, chainVars, durable, volatile
  <2>2. UNCHANGED <<sent, sending, launcherCh, submitting, marketCh, inHand, engineList>>
    BY <1>11 DEF Restart, vars, chainVars, durable, volatile
  <2>3. Mail' = Mail /\ (\A m \in MatchId : Going(m) => Going(m)')
    BY <2>2 DEF Mail, Going
  <2> QED BY <1>1, <2>1, <2>3, OrderlyMoves
<1>12. QED
  BY <1>2, <1>3, <1>4, <1>5, <1>6, <1>7, <1>8, <1>9, <1>10, <1>11, FaultsStay
     DEF Next, Chain, Notifier, Market, Launcher

LEMMA OrderlyInit == Init => Orderly
<1> SUFFICES ASSUME Init PROVE Orderly
  OBVIOUS
<1>1. /\ matches = <<>> /\ executed = {} /\ events = <<>>
      /\ marketCh = <<>> /\ inHand = <<>> /\ engineList = <<>>
  BY DEF Init
<1>2. Len(<<>>) = 0 /\ DOMAIN <<>> = {} /\ <<>> \o <<>> = <<>>
  BY EmptySeq, ConcatEmptySeq
<1>3. MatchId = {} /\ Mail = <<>>
  BY <1>1, <1>2 DEF MatchId, Mail
<1>4. DoneMatches = {} /\ IdsIn(Mail) = {} /\ Closed = {}
  BY <1>2, <1>3 DEF DoneMatches, IdsIn, UpdatesIn, Closed
<1>5. AllSaved /\ AllGoing /\ AllHeard /\ ClosedHeard
  BY <1>1, <1>3, <1>4 DEF AllSaved, AllGoing, AllHeard, ClosedHeard
<1>6. EventsGoOn(Closed, events) /\ UpdatesGoOn(DoneMatches, Mail)
  BY <1>1, <1>2, <1>3 DEF EventsGoOn, UpdatesGoOn, UpdatesIn
<1>7. QED
  BY <1>5, <1>6 DEF Orderly

----------------------------------------------------------------------------
(* The theorems.                                                           *)

IInv ==
  /\ TypeOK
  /\ MatchesKnown
  /\ MatchOnce
  /\ OrdersKnown
  /\ ArrivalOrder
  /\ RestingOpen
  /\ ConfirmationsSpent

LEMMA IInvInit == Init => IInv
<1> SUFFICES ASSUME Init PROVE IInv
  OBVIOUS
<1>1. /\ created = 0 /\ cancelled = {} /\ sent = <<>> /\ executed = {} /\ events = <<>>
      /\ engineList = <<>> /\ notifierList = <<>> /\ rows = [id \in {} |-> 0]
      /\ matches = <<>> /\ view = {} /\ up = TRUE /\ waiting = [m \in {} |-> 0]
      /\ inHand = <<>> /\ marketCh = <<>> /\ resting = {} /\ submitting = 0
      /\ launcherCh = <<>> /\ sending = [phase |-> "idle", match |-> 0]
      /\ cancels = 0 /\ failures = 0 /\ losses = 0 /\ crashes = 0
  BY DEF Init, NotSending
<1>2. \A S : <<>> \in Seq(S)
  BY EmptySeq
<1>3. Len(<<>>) = 0 /\ DOMAIN <<>> = {} /\ <<>> \o <<>> = <<>>
  BY <1>2, ConcatEmptySeq
<1>4. TypeOK
  BY <1>1, <1>2, <1>3, BoundAssumption, CapAssumption DEF TypeOK
<1>5. MatchesKnown
  BY <1>1, <1>2, <1>3 DEF MatchesKnown
<1>6. MatchOnce
  <2>1. InPhase({"send"}) = <<>> /\ InPhase({"send", "tell"}) = <<>> /\ Submitting = <<>>
    BY <1>1 DEF InPhase, Submitting
  <2>2. ToExecute = <<>> /\ ToAwait = <<>>
    BY <1>1, <1>3, <2>1 DEF ToExecute, ToAwait, Requests
  <2>3. QED
    BY <1>3, <2>2 DEF MatchOnce, MatchesFollow
<1>7. Mail = <<>> /\ Way = <<>>
  BY <1>1, <1>3 DEF Mail, Way
<1>8. OrdersKnown /\ ArrivalOrder
  BY <1>1, <1>3, <1>7 DEF OrdersKnown, ArrivalOrder, OrdersFollow
<1>9. RestingOpen
  BY <1>1 DEF RestingOpen
<1>10. ConfirmationsSpent
  <2>1. DoneMatches = {} /\ Updates = {} /\ Spent = {}
    BY <1>1, <1>3, <1>7 DEF DoneMatches, MatchId, Updates, Spent
  <2>2. Cardinality({}) = 0
    BY FS_EmptySet
  <2>3. QED
    BY <2>1, <2>2 DEF ConfirmationsSpent
<1>11. QED
  BY <1>4, <1>5, <1>6, <1>8, <1>9, <1>10 DEF IInv

LEMMA IInvKeeps == IInv /\ [Next]_vars => IInv'
  BY TypeKeeps, MatchesKnownKeeps, MatchOnceKeeps, OrdersKeep, RestingOpenKeeps,
     ConfirmationsKeep DEF IInv

(* The invariant the theorems rest on.                                     *)
THEOREM InvariantHolds == Spec => []IInv
<1>1. QED
  BY IInvInit, IInvKeeps, PTL DEF Spec

(* Every variable keeps its type, and the channels their capacity.         *)
THEOREM TypeCorrect == Spec => []TypeOK
<1>1. IInv => TypeOK
  BY DEF IInv
<1>2. QED
  BY <1>1, InvariantHolds, PTL

(* No match is sent, executed or waited for twice, or before an older one, *)
(* whatever fails, is lost or crashes.                                     *)
THEOREM MatchesGoOnce == Spec => []MatchOnce
<1>1. IInv => MatchOnce
  BY DEF IInv
<1>2. QED
  BY <1>1, InvariantHolds, PTL

(* Orders reach the book in the order of their creation on the chain and   *)
(* at most once.                                                           *)
THEOREM OrdersInOrder == Spec => []ArrivalOrder
<1>1. IInv => ArrivalOrder
  BY DEF IInv
<1>2. QED
  BY <1>1, InvariantHolds, PTL

(* Trades are inserted for no more matches than transactions succeeded.    *)
THEOREM ConfirmationsAreBacked == Spec => []ConfirmationsBacked
<1>1. IInv => ConfirmationsBacked
  <2> SUFFICES ASSUME IInv PROVE ConfirmationsBacked
    OBVIOUS
  <2>1. Countable /\ ConfirmationsSpent
    BY CountsFinite DEF IInv
  <2>2. /\ Cardinality(DoneMatches) \in Nat /\ Cardinality(Updates) \in Nat
        /\ Cardinality(Spent) \in Nat /\ Cardinality(executed) \in Nat
        /\ Cardinality(DoneMatches) + Cardinality(Updates) <= Cardinality(Spent)
        /\ Cardinality(Spent) <= Cardinality(executed)
    BY <2>1 DEF Countable, ConfirmationsSpent
  <2>3. Cardinality(DoneMatches) + Cardinality(Updates) <= Cardinality(executed)
    BY <2>2
  <2>4. QED
    BY <2>3 DEF ConfirmationsBacked, DoneMatches
<1>2. QED
  BY <1>1, InvariantHolds, PTL

(* An order in the book or in the view of it is listed among the open      *)
(* orders of its creator, however confirmations are credited.              *)
THEOREM ShownOrdersAreOpen == Spec => []ShownOrdersOpen
<1>1. IInv => ShownOrdersOpen
  BY DEF IInv, RestingOpen, ShownOrdersOpen
<1>2. QED
  BY <1>1, InvariantHolds, PTL

(* Without faults confirmations are in the order of the matches: executed  *)
(* matches are the oldest, the events of a match come after those of every *)
(* match that is closed, and the updates on their way to the market are    *)
(* about the matches right after those that are done.                      *)
THEOREM ConfirmationsInOrder == Spec => [](NoFault => Orderly)
<1>1. Init => (NoFault => Orderly)
  BY OrderlyInit
<1>2. IInv /\ (NoFault => Orderly) /\ [Next]_vars => (NoFault => Orderly)'
  BY OrderlyKeeps DEF IInv
<1>3. QED
  BY <1>1, <1>2, InvariantHolds, PTL DEF Spec

(* Without faults the oldest pending match, which confirmMatch completes,  *)
(* is the match of the transaction the update is about.                    *)
THEOREM ConfirmationsCreditTheirMatch == Spec => CreditsItsMatch
<1> DEFINE Credits ==
      NoFault /\ matches' # matches /\ Len(matches') = Len(matches) =>
        matches'[Head(marketCh).id].state # matches[Head(marketCh).id].state
<1>1. ASSUME IInv, NoFault => Orderly, [Next]_vars
      PROVE  Credits
  <2> SUFFICES ASSUME NoFault, matches' # matches, Len(matches') = Len(matches)
               PROVE  matches'[Head(marketCh).id].state # matches[Head(marketCh).id].state
    OBVIOUS
  <2>1. TypeOK /\ MatchesKnown /\ MatchOnce /\ Orderly
    BY <1>1 DEF IInv
  <2>2. matches \in Seq(MatchRecord) /\ Len(matches) \in Nat
    BY <2>1, LenProperties DEF TypeOK
  <2>3. ConfirmMatch
    <3>1. ~NewOrderStep
      <4> SUFFICES ASSUME NewOrderStep PROVE FALSE
        OBVIOUS
      <4>1. PICK makers, stays, rests : ProcessLimitOrder(makers, stays, rests)
        BY DEF NewOrderStep
      <4>2. \E r : matches' = Append(matches, r)
        BY <4>1 DEF ProcessLimitOrder
      <4>3. Len(matches') = Len(matches) + 1
        BY <2>2, <4>2
      <4> QED BY <2>2, <4>3
    <3>2. \/ matches' = matches \/ NewOrderStep \/ ConfirmMatch
      BY <1>1 DEF Next, vars, durable, Chain, CreateOrder, CancelOrder, ExecuteSuccess,
         ExecuteFailure, Crash, Restart, Notifier, NotifyCreate, NotifyMatch, NotifyPanic,
         DrainNotifier, EngineLoop, DrainEngine, PushMarket, Market, DropOrder,
         SubmitMatch, Launcher, TakeRequest, SendTransaction, SendFails, PushWaitEvent
    <3> QED BY <3>1, <3>2
  <2> PICK m : m = Head(marketCh).id
    OBVIOUS
  <2>4. /\ m \in MatchId /\ matches[m].state = "pending"
        /\ matches' = [matches EXCEPT ![m].state = "done"]
    BY <2>1, <2>3, ConfirmsItsOwn
  <2>5. m \in DOMAIN matches /\ matches[m] \in MatchRecord
    BY <2>2, <2>4, LenProperties, ElementOfSeq DEF MatchId
  <2>6. matches'[m].state = "done"
    BY <2>4, <2>5 DEF MatchRecord
  <2> QED BY <2>4, <2>6
<1>2. IInv /\ (NoFault => Orderly) /\ [Next]_vars => [Credits]_vars
  BY <1>1
<1> HIDE DEF Credits
<1>3. Spec => [][Credits]_vars
  BY <1>2, InvariantHolds, ConfirmationsInOrder, PTL DEF Spec
<1>4. QED
  BY <1>3 DEF CreditsItsMatch, Credits
=============================================================================
