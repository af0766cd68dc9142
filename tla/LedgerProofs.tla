---------------------------- MODULE LedgerProofs ----------------------------
(***************************************************************************)
(* Theorems about the quantities that the book and the contract of         *)
(* Exchange have for the same order, for all users, amounts and bounds:    *)
(* they agree once every match is executed, the contract then holds the    *)
(* deposits of all resting orders, and a match only fails after a fill     *)
(* that was short.                                                         *)
(*                                                                         *)
(* The contract is behind the book: the matches in flight are the          *)
(* difference.  The inductive invariant says that, whatever is in flight,  *)
(* there are four views of what is left of every order, each reached from  *)
(* the one before: what the contract's records have (g), what they will    *)
(* have after the running match (a), after the queued matches (b), and     *)
(* after the match the book is at (h), which is what the book has.  A view *)
(* reaches the next by a chain of fills, each taking the same amount from  *)
(* a taker and a maker who both still have some.                           *)
(***************************************************************************)
EXTENDS ExchangeProofs, Sums

----------------------------------------------------------------------------
(* What the book does to the quantities of orders and the contract repeats *)
(* later is a chain of relations on them.  A state of the quantities gives *)
(* every id what is left of its order.                                     *)
Amounts == [Nat -> Nat]
Change == SUBSET (Amounts \X Amounts)
Walk(f, R, n) ==
  /\ f \in [1..(n + 1) -> Amounts]
  /\ \A i \in 1..n : <<f[i], f[i + 1]>> \in R[i]
Chained(R) ==
  {d \in Amounts \X Amounts :
     \E f : Walk(f, R, Len(R)) /\ f[1] = d[1] /\ f[Len(R) + 1] = d[2]}

(* A change says nothing about x: it is the same whatever x has.           *)
Ignores(r, x) ==
  \A g, h \in Amounts : \A n \in Nat :
    <<g, h>> \in r => <<[g EXCEPT ![x] = n], [h EXCEPT ![x] = n]>> \in r

LEMMA ChainedPair ==
  ASSUME NEW R, NEW g, NEW h, <<g, h>> \in Chained(R)
  PROVE  \E f : Walk(f, R, Len(R)) /\ f[1] = g /\ f[Len(R) + 1] = h
BY DEF Chained

LEMMA ChainedBy ==
  ASSUME NEW R, NEW n \in Nat, Len(R) = n, NEW f, Walk(f, R, n)
  PROVE  <<f[1], f[n + 1]>> \in Chained(R)
<1> HIDE DEF Amounts
<1>1. f[1] \in Amounts /\ f[n + 1] \in Amounts
  BY DEF Walk
<1> QED BY <1>1 DEF Chained

LEMMA ChainedTyped ==
  ASSUME NEW R, NEW g, NEW h, <<g, h>> \in Chained(R)
  PROVE  g \in Amounts /\ h \in Amounts
BY DEF Chained

LEMMA ChainedEmpty ==
  ASSUME NEW g \in Amounts, NEW h \in Amounts
  PROVE  <<g, h>> \in Chained(<<>>) <=> g = h
<1> HIDE DEF Amounts
<1>1. Len(<<>>) = 0 /\ 1..0 = {} /\ 1..1 = {1}
  OBVIOUS
<1>2. ASSUME g = h PROVE <<g, h>> \in Chained(<<>>)
  <2> DEFINE f == [i \in 1..1 |-> g]
  <2>1. f \in [1..1 -> Amounts] /\ f[1] = g
    OBVIOUS
  <2> HIDE DEF f
  <2>2. <<f[1], f[0 + 1]>> \in Chained(<<>>)
    <3>1. Walk(f, <<>>, 0)
      BY <1>1, <2>1 DEF Walk
    <3> QED BY <1>1, <3>1, ChainedBy
  <2> QED BY <1>2, <2>1, <2>2
<1>3. ASSUME <<g, h>> \in Chained(<<>>) PROVE g = h
  BY <1>1, <1>3, ChainedPair
<1> QED BY <1>2, <1>3

LEMMA ChainedHead ==
  ASSUME NEW R \in Seq(Change), R # <<>>, NEW g, NEW h, <<g, h>> \in Chained(R)
  PROVE  \E k \in Amounts : <<g, k>> \in Head(R) /\ <<k, h>> \in Chained(Tail(R))
<1> HIDE DEF Amounts, Change
<1> DEFINE n == Len(R)
<1>1. g \in Amounts /\ h \in Amounts
  BY ChainedTyped
<1>2. /\ n \in Nat \ {0} /\ Head(R) = R[1] /\ Len(Tail(R)) = n - 1
      /\ \A i \in 1..(n - 1) : Tail(R)[i] = R[i + 1]
  BY HeadTailProperties, LenProperties, EmptySeq
<1>3. PICK f :
        /\ f \in [1..(n + 1) -> Amounts]
        /\ f[1] = g
        /\ f[n + 1] = h
        /\ \A i \in 1..n : <<f[i], f[i + 1]>> \in R[i]
  BY ChainedPair DEF Walk
<1> HIDE DEF n
<1> DEFINE e == [i \in 1..n |-> f[i + 1]]
<1>4. e \in [1..n -> Amounts]
  BY <1>2, <1>3
<1>5. e[1] = f[2] /\ e[n] = h /\ f[2] \in Amounts
  BY <1>2, <1>3
<1>6. \A i \in 1..(n - 1) : <<e[i], e[i + 1]>> \in Tail(R)[i]
  <2> SUFFICES ASSUME NEW i \in 1..(n - 1) PROVE <<e[i], e[i + 1]>> \in Tail(R)[i]
    OBVIOUS
  <2>1. i + 1 \in 1..n /\ i \in 1..n
    BY <1>2
  <2> QED BY <1>2, <1>3, <2>1
<1> HIDE DEF e
<1>7. <<f[2], h>> \in Chained(Tail(R))
  <2>1. (n - 1) + 1 = n
    BY <1>2
  <2>2. <<e[1], e[(n - 1) + 1]>> \in Chained(Tail(R))
    <3>1. Walk(e, Tail(R), n - 1) /\ n - 1 \in Nat
      BY <1>2, <1>4, <1>6, <2>1 DEF Walk
    <3> QED BY <1>2, <3>1, ChainedBy
  <2> QED BY <1>5, <2>1, <2>2
<1>8. <<g, f[2]>> \in Head(R)
  BY <1>2, <1>3
<1> QED BY <1>5, <1>7, <1>8

LEMMA ChainedAppend ==
  ASSUME NEW R \in Seq(Change), NEW r \in Change,
         NEW g, NEW k, NEW h, <<g, k>> \in Chained(R), <<k, h>> \in r
  PROVE  <<g, h>> \in Chained(Append(R, r))
<1> DEFINE n == Len(R)
           S == Append(R, r)
<1>1. g \in Amounts /\ k \in Amounts /\ h \in Amounts
  BY ChainedTyped DEF Change
<1> HIDE DEF Amounts, Change
<1>2. /\ n \in Nat /\ Len(S) = n + 1 /\ S[n + 1] = r
      /\ \A i \in 1..n : S[i] = R[i]
  BY AppendProperties, LenProperties
<1>3. PICK f :
        /\ f \in [1..(n + 1) -> Amounts]
        /\ f[1] = g
        /\ f[n + 1] = k
        /\ \A i \in 1..n : <<f[i], f[i + 1]>> \in R[i]
  BY ChainedPair DEF Walk
<1> HIDE DEF n, S
<1> DEFINE e == [i \in 1..(n + 2) |-> IF i = n + 2 THEN h ELSE f[i]]
<1>4. e \in [1..(n + 2) -> Amounts]
  BY <1>1, <1>2, <1>3
<1>5. e[1] = g /\ e[n + 1] = k /\ e[n + 2] = h
  BY <1>2, <1>3
<1>6. \A i \in 1..(n + 1) : <<e[i], e[i + 1]>> \in S[i]
  <2> SUFFICES ASSUME NEW i \in 1..(n + 1) PROVE <<e[i], e[i + 1]>> \in S[i]
    OBVIOUS
  <2>1. CASE i = n + 1
    <3>1. (n + 1) + 1 = n + 2
      BY <1>2
    <3> HIDE DEF e
    <3> QED BY <1>2, <1>5, <2>1, <3>1
  <2>2. CASE i # n + 1
    <3>1. i \in 1..n /\ e[i] = f[i] /\ e[i + 1] = f[i + 1]
      BY <1>2, <2>2
    <3> HIDE DEF e
    <3> QED BY <1>2, <1>3, <3>1
  <2> QED BY <2>1, <2>2
<1> HIDE DEF e
<1>7. <<g, h>> \in Chained(S)
  <2>1. (n + 1) + 1 = n + 2
    BY <1>2
  <2>2. <<e[1], e[(n + 1) + 1]>> \in Chained(S)
    <3>1. Walk(e, S, n + 1)
      BY <1>4, <1>6, <2>1 DEF Walk
    <3> QED BY <1>2, <3>1, ChainedBy
  <2> QED BY <1>5, <2>1, <2>2
<1> QED BY <1>7 DEF S

LEMMA ChainedIgnores ==
  ASSUME NEW R \in Seq(Change), NEW x \in Nat,
         \A i \in DOMAIN R : Ignores(R[i], x)
  PROVE  Ignores(Chained(R), x)
<1> SUFFICES ASSUME NEW g \in Amounts, NEW h \in Amounts, NEW v \in Nat,
                    <<g, h>> \in Chained(R)
             PROVE  <<[g EXCEPT ![x] = v], [h EXCEPT ![x] = v]>> \in Chained(R)
  BY DEF Ignores
<1> DEFINE n == Len(R)
           with(k) == [k EXCEPT ![x] = v]
<1>1. n \in Nat /\ DOMAIN R = 1..n
  BY LenProperties
<1>2. \A k \in Amounts : with(k) \in Amounts
  BY DEF Amounts
<1>3. \A i \in 1..n : \A k, l \in Amounts :
        <<k, l>> \in R[i] => <<with(k), with(l)>> \in R[i]
  BY <1>1 DEF Ignores
<1> HIDE DEF Amounts, Change, with
<1>4. PICK f :
        /\ f \in [1..(n + 1) -> Amounts]
        /\ f[1] = g
        /\ f[n + 1] = h
        /\ \A i \in 1..n : <<f[i], f[i + 1]>> \in R[i]
  BY ChainedPair DEF Walk
<1> HIDE DEF n
<1> DEFINE e == [i \in 1..(n + 1) |-> with(f[i])]
<1>5. e \in [1..(n + 1) -> Amounts]
  BY <1>2, <1>4
<1>6. e[1] = with(g) /\ e[n + 1] = with(h)
  BY <1>1, <1>4
<1>7. \A i \in 1..n : <<e[i], e[i + 1]>> \in R[i]
  <2> SUFFICES ASSUME NEW i \in 1..n PROVE <<e[i], e[i + 1]>> \in R[i]
    OBVIOUS
  <2>1. i \in 1..(n + 1) /\ i + 1 \in 1..(n + 1)
    BY <1>1
  <2>2. e[i] = with(f[i]) /\ e[i + 1] = with(f[i + 1])
    BY <2>1
  <2>3. f[i] \in Amounts /\ f[i + 1] \in Amounts
    BY <1>4, <2>1
  <2> HIDE DEF e
  <2> QED BY <1>3, <1>4, <2>2, <2>3
<1> HIDE DEF e
<1>8. <<with(g), with(h)>> \in Chained(R)
  <2>1. Walk(e, R, n)
    BY <1>5, <1>7 DEF Walk
  <2>2. <<e[1], e[n + 1]>> \in Chained(R)
    BY <1>1, <2>1, ChainedBy DEF n
  <2> QED BY <1>6, <2>2
<1> QED BY <1>8 DEF with

----------------------------------------------------------------------------
(* A fill takes the lesser of two quantities from both; a match fills its  *)
(* taker from one maker after the other; matches follow each other.        *)
Lesser(a, b) == IF a <= b THEN a ELSE b
FillOf(t, m) ==
  {d \in Amounts \X Amounts :
     /\ t # m
     /\ d[1][t] > 0
     /\ d[1][m] > 0
     /\ d[2] = [i \in Nat |-> IF i \in {t, m} THEN d[1][i] - Lesser(d[1][t], d[1][m])
                                              ELSE d[1][i]]}
FillsOf(t, ms) == [j \in 1..Len(ms) |-> FillOf(t, ms[j])]
MatchOf(t, ms) == Chained(FillsOf(t, ms))
MatchesOf(qs) == [i \in 1..Len(qs) |-> MatchOf(qs[i].taker, qs[i].makers)]
QueueOf(qs) == Chained(MatchesOf(qs))

LEMMA FillPair ==
  ASSUME NEW t \in Nat, NEW m \in Nat, NEW g \in Amounts, NEW h
  PROVE  <<g, h>> \in FillOf(t, m) <=>
           /\ t # m
           /\ g[t] > 0
           /\ g[m] > 0
           /\ h \in Amounts
           /\ h[t] = g[t] - Lesser(g[t], g[m])
           /\ h[m] = g[m] - Lesser(g[t], g[m])
           /\ \A i \in Nat \ {t, m} : h[i] = g[i]
<1> DEFINE after == [i \in Nat |-> IF i \in {t, m} THEN g[i] - Lesser(g[t], g[m]) ELSE g[i]]
<1>1. <<g, h>> \in FillOf(t, m) <=>
        t # m /\ g[t] > 0 /\ g[m] > 0 /\ h \in Amounts /\ h = after
  BY DEF FillOf
<1>2. ASSUME h \in Amounts,
             h[t] = g[t] - Lesser(g[t], g[m]), h[m] = g[m] - Lesser(g[t], g[m]),
             \A i \in Nat \ {t, m} : h[i] = g[i]
      PROVE  h = after
  <2>1. \A i \in Nat : h[i] = after[i]
    BY <1>2
  <2> QED BY <1>2, <2>1 DEF Amounts
<1>3. ASSUME h = after
      PROVE  /\ h[t] = g[t] - Lesser(g[t], g[m])
             /\ h[m] = g[m] - Lesser(g[t], g[m])
             /\ \A i \in Nat \ {t, m} : h[i] = g[i]
  BY <1>3
<1> HIDE DEF after
<1> QED BY <1>1, <1>2, <1>3

LEMMA FillsTyped ==
  ASSUME NEW t, NEW ms \in Seq(Nat)
  PROVE  FillsOf(t, ms) \in Seq(Change) /\ Len(FillsOf(t, ms)) = Len(ms)
<1>1. Len(ms) \in Nat /\ \A m : FillOf(t, m) \in Change
  BY LenProperties DEF FillOf, Change
<1> QED BY <1>1 DEF FillsOf

LEMMA MatchesTyped ==
  ASSUME NEW qs \in Seq(Match)
  PROVE  MatchesOf(qs) \in Seq(Change) /\ Len(MatchesOf(qs)) = Len(qs)
<1>1. Len(qs) \in Nat /\ \A t, ms : MatchOf(t, ms) \in Change
  BY LenProperties DEF MatchOf, Chained, Change
<1> QED BY <1>1 DEF MatchesOf

LEMMA TailIs ==
  ASSUME NEW D, NEW R \in Seq(D), R # <<>>, NEW S \in Seq(D), Len(S) = Len(R) - 1,
         \A i \in 1..Len(S) : S[i] = R[i + 1]
  PROVE  S = Tail(R)
<1>1. /\ Tail(R) \in Seq(D) /\ Len(Tail(R)) = Len(R) - 1
      /\ \A i \in 1..Len(Tail(R)) : Tail(R)[i] = R[i + 1]
  BY HeadTailProperties
<1> QED BY <1>1, SeqEqual

LEMMA AppendIs ==
  ASSUME NEW D, NEW R \in Seq(D), NEW S \in Seq(D), NEW d \in D, Len(S) = Len(R) + 1,
         \A i \in 1..Len(R) : S[i] = R[i], S[Len(R) + 1] = d
  PROVE  S = Append(R, d)
<1>1. /\ Append(R, d) \in Seq(D) /\ Len(Append(R, d)) = Len(R) + 1
      /\ \A i \in 1..Len(R) : Append(R, d)[i] = R[i]
      /\ Append(R, d)[Len(R) + 1] = d
      /\ Len(R) \in Nat
  BY AppendProperties, LenProperties
<1> QED BY <1>1, SeqEqual

LEMMA MatchEmpty ==
  ASSUME NEW t, NEW g \in Amounts, NEW h \in Amounts
  PROVE  <<g, h>> \in MatchOf(t, <<>>) <=> g = h
<1>1. FillsOf(t, <<>>) = <<>>
  BY DEF FillsOf
<1> QED BY <1>1, ChainedEmpty DEF MatchOf

LEMMA QueueEmpty ==
  ASSUME NEW g \in Amounts, NEW h \in Amounts
  PROVE  <<g, h>> \in QueueOf(<<>>) <=> g = h
<1>1. MatchesOf(<<>>) = <<>>
  BY DEF MatchesOf
<1> QED BY <1>1, ChainedEmpty DEF QueueOf

LEMMA MatchHead ==
  ASSUME NEW t, NEW ms \in Seq(Nat), ms # <<>>, NEW g, NEW h, <<g, h>> \in MatchOf(t, ms)
  PROVE  \E k \in Amounts : <<g, k>> \in FillOf(t, Head(ms)) /\ <<k, h>> \in MatchOf(t, Tail(ms))
<1> DEFINE R == FillsOf(t, ms)
           S == FillsOf(t, Tail(ms))
<1>1. /\ Len(ms) \in Nat \ {0} /\ Head(ms) = ms[1]
      /\ Tail(ms) \in Seq(Nat) /\ Len(Tail(ms)) = Len(ms) - 1
      /\ \A i \in 1..Len(Tail(ms)) : Tail(ms)[i] = ms[i + 1]
  BY HeadTailProperties, LenProperties, EmptySeq
<1>2. R \in Seq(Change) /\ Len(R) = Len(ms) /\ S \in Seq(Change) /\ Len(S) = Len(ms) - 1
  BY <1>1, FillsTyped
<1>3. R # <<>> /\ Head(R) = FillOf(t, Head(ms))
  <2>1. R[1] = FillOf(t, ms[1])
    BY <1>1 DEF FillsOf
  <2> HIDE DEF R
  <2>2. R # <<>> /\ Head(R) = R[1]
    BY <1>1, <1>2, HeadTailProperties, EmptySeq
  <2> QED BY <1>1, <2>1, <2>2
<1>4. \A i \in 1..Len(S) : S[i] = R[i + 1]
  <2> SUFFICES ASSUME NEW i \in 1..Len(S) PROVE S[i] = R[i + 1]
    OBVIOUS
  <2>1. i \in 1..Len(Tail(ms)) /\ i + 1 \in 1..Len(ms)
    BY <1>1, <1>2
  <2>2. S[i] = FillOf(t, Tail(ms)[i]) /\ R[i + 1] = FillOf(t, ms[i + 1])
    BY <2>1 DEF FillsOf
  <2> QED BY <1>1, <2>1, <2>2
<1> HIDE DEF R, S
<1>5. S = Tail(R)
  BY <1>2, <1>3, <1>4, TailIs
<1>6. PICK k \in Amounts : <<g, k>> \in Head(R) /\ <<k, h>> \in Chained(Tail(R))
  BY <1>2, <1>3, ChainedHead DEF MatchOf, R
<1> QED BY <1>3, <1>5, <1>6 DEF MatchOf, S

LEMMA QueueHead ==
  ASSUME NEW qs \in Seq(Match), qs # <<>>, NEW g, NEW h, <<g, h>> \in QueueOf(qs)
  PROVE  \E k \in Amounts :
            /\ <<g, k>> \in MatchOf(Head(qs).taker, Head(qs).makers)
            /\ <<k, h>> \in QueueOf(Tail(qs))
<1> DEFINE R == MatchesOf(qs)
           S == MatchesOf(Tail(qs))
<1>1. /\ Len(qs) \in Nat \ {0} /\ Head(qs) = qs[1]
      /\ Tail(qs) \in Seq(Match) /\ Len(Tail(qs)) = Len(qs) - 1
      /\ \A i \in 1..Len(Tail(qs)) : Tail(qs)[i] = qs[i + 1]
  BY HeadTailProperties, LenProperties, EmptySeq, SMTT(30)
<1>2. R \in Seq(Change) /\ Len(R) = Len(qs) /\ S \in Seq(Change) /\ Len(S) = Len(qs) - 1
  BY <1>1, MatchesTyped
<1>3. R # <<>> /\ Head(R) = MatchOf(Head(qs).taker, Head(qs).makers)
  <2>1. R[1] = MatchOf(qs[1].taker, qs[1].makers)
    BY <1>1 DEF MatchesOf
  <2> HIDE DEF R
  <2>2. R # <<>> /\ Head(R) = R[1]
    BY <1>1, <1>2, HeadTailProperties, EmptySeq
  <2> QED BY <1>1, <2>1, <2>2
<1>4. \A i \in 1..Len(S) : S[i] = R[i + 1]
  <2> SUFFICES ASSUME NEW i \in 1..Len(S) PROVE S[i] = R[i + 1]
    OBVIOUS
  <2>1. i \in 1..Len(Tail(qs)) /\ i + 1 \in 1..Len(qs)
    BY <1>1, <1>2
  <2>2. /\ S[i] = MatchOf(Tail(qs)[i].taker, Tail(qs)[i].makers)
        /\ R[i + 1] = MatchOf(qs[i + 1].taker, qs[i + 1].makers)
    BY <2>1 DEF MatchesOf
  <2> QED BY <1>1, <2>1, <2>2
<1> HIDE DEF R, S
<1>5. S = Tail(R)
  BY <1>2, <1>3, <1>4, TailIs
<1>6. PICK k \in Amounts : <<g, k>> \in Head(R) /\ <<k, h>> \in Chained(Tail(R))
  BY <1>2, <1>3, ChainedHead DEF QueueOf, R
<1> QED BY <1>3, <1>5, <1>6 DEF QueueOf, S

LEMMA MatchAppend ==
  ASSUME NEW t, NEW ms \in Seq(Nat), NEW m \in Nat, NEW g, NEW k, NEW h,
         <<g, k>> \in MatchOf(t, ms), <<k, h>> \in FillOf(t, m)
  PROVE  <<g, h>> \in MatchOf(t, Append(ms, m))
<1> DEFINE ns == Append(ms, m)
<1>1. /\ Len(ms) \in Nat /\ ns \in Seq(Nat) /\ Len(ns) = Len(ms) + 1
      /\ \A i \in 1..Len(ms) : ns[i] = ms[i]
      /\ ns[Len(ms) + 1] = m
  BY AppendProperties, LenProperties
<1> HIDE DEF ns
<1> DEFINE R == FillsOf(t, ms)
           S == FillsOf(t, ns)
<1>2. R \in Seq(Change) /\ Len(R) = Len(ms) /\ S \in Seq(Change) /\ Len(S) = Len(ms) + 1
  BY <1>1, FillsTyped
<1>3. FillOf(t, m) \in Change
  BY DEF FillOf, Change
<1>4. /\ \A i \in 1..Len(R) : S[i] = R[i]
      /\ S[Len(R) + 1] = FillOf(t, m)
  BY <1>1, <1>2 DEF FillsOf
<1> HIDE DEF R, S
<1>5. S = Append(R, FillOf(t, m))
  BY <1>2, <1>3, <1>4, AppendIs
<1>6. <<g, h>> \in Chained(Append(R, FillOf(t, m)))
  BY <1>2, <1>3, ChainedAppend DEF MatchOf, R
<1> QED BY <1>5, <1>6 DEF MatchOf, S, ns

LEMMA QueueAppend ==
  ASSUME NEW qs \in Seq(Match), NEW q \in Match, NEW g, NEW k, NEW h,
         <<g, k>> \in QueueOf(qs), <<k, h>> \in MatchOf(q.taker, q.makers)
  PROVE  <<g, h>> \in QueueOf(Append(qs, q))
<1> DEFINE ps == Append(qs, q)
           r == MatchOf(q.taker, q.makers)
<1>1. /\ Len(qs) \in Nat /\ ps \in Seq(Match) /\ Len(ps) = Len(qs) + 1
      /\ \A i \in 1..Len(qs) : ps[i] = qs[i]
      /\ ps[Len(qs) + 1] = q
  BY AppendProperties, LenProperties
<1> HIDE DEF ps
<1> DEFINE R == MatchesOf(qs)
           S == MatchesOf(ps)
<1>2. R \in Seq(Change) /\ Len(R) = Len(qs) /\ S \in Seq(Change) /\ Len(S) = Len(qs) + 1
  BY <1>1, MatchesTyped
<1>3. r \in Change
  BY DEF MatchOf, Chained, Change
<1>4. /\ \A i \in 1..Len(R) : S[i] = R[i]
      /\ S[Len(R) + 1] = r
  BY <1>1, <1>2 DEF MatchesOf
<1> HIDE DEF R, S, r
<1>5. S = Append(R, r)
  BY <1>2, <1>3, <1>4, AppendIs
<1>6. <<g, h>> \in Chained(Append(R, r))
  BY <1>2, <1>3, ChainedAppend DEF QueueOf, R, r
<1> QED BY <1>5, <1>6 DEF QueueOf, S, ps

(* An order that no match names is not touched.                            *)
LEMMA FillIgnores ==
  ASSUME NEW t \in Nat, NEW m \in Nat, NEW x \in Nat, x # t, x # m
  PROVE  Ignores(FillOf(t, m), x)
<1> SUFFICES ASSUME NEW g \in Amounts, NEW h \in Amounts, NEW n \in Nat,
                    <<g, h>> \in FillOf(t, m)
             PROVE  <<[g EXCEPT ![x] = n], [h EXCEPT ![x] = n]>> \in FillOf(t, m)
  BY DEF Ignores
<1> DEFINE k == [g EXCEPT ![x] = n]
           l == [h EXCEPT ![x] = n]
<1>1. /\ k \in Amounts /\ l \in Amounts
      /\ k[x] = n /\ l[x] = n
      /\ \A i \in Nat \ {x} : k[i] = g[i] /\ l[i] = h[i]
  BY DEF Amounts
<1> HIDE DEF k, l
<1>2. /\ t # m /\ g[t] > 0 /\ g[m] > 0
      /\ h[t] = g[t] - Lesser(g[t], g[m])
      /\ h[m] = g[m] - Lesser(g[t], g[m])
      /\ \A i \in Nat \ {t, m} : h[i] = g[i]
  BY FillPair
<1>3. k[t] = g[t] /\ k[m] = g[m] /\ l[t] = h[t] /\ l[m] = h[m]
  BY <1>1
<1>4. \A i \in Nat \ {t, m} : l[i] = k[i]
  BY <1>1, <1>2
<1>5. <<k, l>> \in FillOf(t, m)
  <2>1. /\ t # m /\ k[t] > 0 /\ k[m] > 0 /\ l \in Amounts
        /\ l[t] = k[t] - Lesser(k[t], k[m])
        /\ l[m] = k[m] - Lesser(k[t], k[m])
    BY <1>1, <1>2, <1>3
  <2> QED BY <1>1, <1>4, <2>1, FillPair
<1> QED BY <1>5 DEF k, l

LEMMA EmptyIgnores ==
  ASSUME NEW t, NEW x \in Nat
  PROVE  Ignores(MatchOf(t, <<>>), x)
<1> SUFFICES ASSUME NEW g \in Amounts, NEW h \in Amounts, NEW n \in Nat, g = h
             PROVE  <<[g EXCEPT ![x] = n], [h EXCEPT ![x] = n]>> \in MatchOf(t, <<>>)
  BY MatchEmpty DEF Ignores
<1>1. [g EXCEPT ![x] = n] \in Amounts
  BY DEF Amounts
<1> QED BY <1>1, MatchEmpty

LEMMA MatchIgnores ==
  ASSUME NEW t, NEW ms \in Seq(Nat), NEW x \in Nat,
         \A j \in DOMAIN ms : t \in Nat \ {x} /\ ms[j] # x
  PROVE  Ignores(MatchOf(t, ms), x)
<1> DEFINE R == FillsOf(t, ms)
<1>1. R \in Seq(Change) /\ DOMAIN R = DOMAIN ms
  BY FillsTyped, LenProperties
<1>2. ASSUME NEW j \in DOMAIN R PROVE Ignores(R[j], x)
  <2>1. j \in 1..Len(ms) /\ ms[j] \in Nat /\ ms[j] # x /\ t \in Nat \ {x}
    BY <1>1, LenProperties, ElementOfSeq
  <2>2. R[j] = FillOf(t, ms[j])
    BY <2>1 DEF FillsOf
  <2> QED BY <2>1, <2>2, FillIgnores
<1> HIDE DEF R
<1> QED BY <1>1, <1>2, ChainedIgnores DEF MatchOf, R

LEMMA QueueIgnores ==
  ASSUME NEW qs \in Seq(Match), NEW x \in Nat,
         \A i \in DOMAIN qs : Ignores(MatchOf(qs[i].taker, qs[i].makers), x)
  PROVE  Ignores(QueueOf(qs), x)
<1> DEFINE R == MatchesOf(qs)
<1>1. R \in Seq(Change) /\ DOMAIN R = DOMAIN qs
  BY MatchesTyped, LenProperties
<1>2. ASSUME NEW j \in DOMAIN R PROVE Ignores(R[j], x)
  <2>1. j \in 1..Len(qs) /\ j \in DOMAIN qs
    BY <1>1, LenProperties
  <2>2. R[j] = MatchOf(qs[j].taker, qs[j].makers)
    BY <2>1 DEF MatchesOf
  <2> QED BY <2>1, <2>2
<1> HIDE DEF R
<1> QED BY <1>1, <1>2, ChainedIgnores DEF QueueOf, R

----------------------------------------------------------------------------
(* What the orders of a type that have a quantity left have deposited.     *)
Deposits(w, g) == [id \in DOMAIN w |-> IF g[id] > 0 THEN w[id].input ELSE 0]
OfType(w, type) == {id \in DOMAIN w : w[id].type = type}
Held(w, g, type) == SumFunctionOnSet(Deposits(w, g), OfType(w, type))

RecordsOK(w) ==
  /\ IsFiniteSet(DOMAIN w)
  /\ DOMAIN w \subseteq Nat
  /\ \A id \in DOMAIN w : w[id].input \in Nat

LEMMA DepositsTyped ==
  ASSUME NEW w, RecordsOK(w), NEW g, NEW type
  PROVE  /\ IsFiniteSet(OfType(w, type)) /\ OfType(w, type) \subseteq DOMAIN w
         /\ \A id \in DOMAIN w : Deposits(w, g)[id] \in Nat
<1>1. OfType(w, type) \subseteq DOMAIN w
  BY DEF OfType
<1>2. IsFiniteSet(OfType(w, type))
  BY <1>1, FS_Subset DEF RecordsOK
<1> QED BY <1>1, <1>2 DEF RecordsOK, Deposits

LEMMA HeldTyped ==
  ASSUME NEW w, RecordsOK(w), NEW g, NEW type
  PROVE  Held(w, g, type) \in Nat
<1> DEFINE f == Deposits(w, g)
           S == OfType(w, type)
<1>1. IsFiniteSet(S) /\ \A id \in S : f[id] \in Nat
  BY DepositsTyped
<1> HIDE DEF f, S
<1>2. SumFunctionOnSet(f, S) \in Int
  BY <1>1, SumType
<1>3. SumFunctionOnSet(f, {}) <= SumFunctionOnSet(f, S)
  BY <1>1, SumSubset
<1> QED BY <1>2, <1>3, SumEmpty DEF Held, f, S

(* A new order adds what it deposits.                                      *)
LEMMA HeldAdd ==
  ASSUME NEW w, RecordsOK(w), NEW x \in Nat, x \notin DOMAIN w,
         NEW v, RecordsOK(v), DOMAIN v = DOMAIN w \cup {x},
         \A id \in DOMAIN w : v[id] = w[id],
         NEW g \in Amounts, NEW n \in Nat \ {0}, NEW type
  PROVE  Held(v, [g EXCEPT ![x] = n], type)
           = Held(w, g, type) + IF v[x].type = type THEN v[x].input ELSE 0
<1> DEFINE k == [g EXCEPT ![x] = n]
           f == Deposits(w, g)
           e == Deposits(v, k)
           S == OfType(w, type)
           T == OfType(v, type)
<1>1. /\ IsFiniteSet(S) /\ S \subseteq DOMAIN w /\ (\A id \in DOMAIN w : f[id] \in Nat)
      /\ IsFiniteSet(T) /\ T \subseteq DOMAIN v /\ (\A id \in DOMAIN v : e[id] \in Nat)
  BY DepositsTyped
<1>2. k[x] = n /\ \A id \in DOMAIN w : k[id] = g[id]
  BY DEF Amounts, RecordsOK
<1> HIDE DEF k
<1>3. e[x] = v[x].input /\ \A id \in DOMAIN w : e[id] = f[id]
  BY <1>2 DEF Deposits
<1>4. T = IF v[x].type = type THEN S \cup {x} ELSE S
  BY DEF OfType
<1>5. x \notin S
  BY <1>1
<1> HIDE DEF e, f, S, T
<1>6. SumFunctionOnSet(e, S) = SumFunctionOnSet(f, S)
  BY <1>1, <1>3, SumSame
<1>7. SumFunctionOnSet(f, S) \in Int
  BY <1>1, SumType
<1>8. CASE v[x].type = type
  <2>1. \A y \in S \cup {x} : e[y] \in Int
    BY <1>1
  <2>2. SumFunctionOnSet(e, S \cup {x}) = e[x] + SumFunctionOnSet(e, S)
    BY <1>1, <1>5, <2>1, SumAdd
  <2>3. e[x] \in Nat
    BY <1>1
  <2> QED BY <1>3, <1>4, <1>6, <1>7, <1>8, <2>2, <2>3 DEF Held, e, f, S, T, k
<1>9. CASE v[x].type # type
  BY <1>4, <1>6, <1>7, <1>9 DEF Held, e, f, S, T, k
<1> QED BY <1>8, <1>9

(* When of the orders of a type one changes, the sum changes by as much.   *)
OneOfType(w, v, g, k, x) ==
  /\ DOMAIN v = DOMAIN w
  /\ \A id \in DOMAIN w : v[id].type = w[id].type
  /\ \A id \in DOMAIN w \ {x} :
        w[id].type = w[x].type => Deposits(v, k)[id] = Deposits(w, g)[id]
LEMMA HeldChange ==
  ASSUME NEW w, RecordsOK(w), NEW v, RecordsOK(v),
         NEW g, NEW k, NEW x \in DOMAIN w, OneOfType(w, v, g, k, x)
  PROVE  Held(v, k, w[x].type)
           = Held(w, g, w[x].type) + Deposits(v, k)[x] - Deposits(w, g)[x]
<1> DEFINE f == Deposits(w, g)
           e == Deposits(v, k)
           S == OfType(w, w[x].type)
<1>1. /\ IsFiniteSet(S) /\ S \subseteq DOMAIN w
      /\ \A id \in DOMAIN w : f[id] \in Nat /\ e[id] \in Nat
  BY DepositsTyped DEF OneOfType
<1>2. OfType(v, w[x].type) = S /\ x \in S
  BY DEF OfType, OneOfType
<1>3. \A id \in S \ {x} : e[id] = f[id]
  BY DEF OfType, OneOfType
<1> HIDE DEF e, f, S
<1>4. SumFunctionOnSet(e, S) = SumFunctionOnSet(f, S) + e[x] - f[x]
  BY <1>1, <1>2, <1>3, SumChange
<1> QED BY <1>2, <1>4 DEF Held, e, f, S

----------------------------------------------------------------------------
(* The contract's view g of the quantities: an order that has some left has*)
(* it in its record, and, as long as no fill was short, the deposits of    *)
(* these orders and what is to be paid out are covered.                    *)
ContractHolds(g) ==
  \A id \in DOMAIN wOrders : g[id] > 0 => EngineQuantity(wOrders[id]) = g[id]
Covered(g) ==
  ~short =>
    /\ Held(wOrders, g, "Sell") + owed[FirstToken] <= balance[FirstToken]
    /\ Held(wOrders, g, "Buy") + owed[SecondToken] <= balance[SecondToken]

(* The book's view h: what rests, arrives and is left in the call.         *)
BookHolds(h) ==
  /\ \A id \in DOMAIN bookOrders : h[id] = bookOrders[id].quantity
  /\ \A i \in DOMAIN arriving : h[arriving[i].id] = EngineQuantity(arriving[i].order)
  /\ pc = "matching" => h[call.id] = left

(* The contract is behind the book by the rest of the match that it        *)
(* executes (g to a), the matches on their way (a to b) and the one that   *)
(* the book is making (b to h).                                            *)
Behind(g, a, b, h) ==
  /\ ContractHolds(g)
  /\ Covered(g)
  /\ <<g, a>> \in MatchOf(takerId, makers)
  /\ <<a, b>> \in QueueOf(matches)
  /\ <<b, h>> \in MatchOf(call.id, Makers)
  /\ BookHolds(h)
Ledger == ~reverted => \E g, a, b, h \in Amounts : Behind(g, a, b, h)

(* An order arrives at the book once, and it is a limit order; without     *)
(* transaction no maker waits.                                             *)
ArrivalsNew ==
  \A i \in DOMAIN arriving :
    /\ arriving[i].id \notin DOMAIN bookOrders
    /\ pc = "matching" => arriving[i].id # call.id
    /\ \A j \in DOMAIN arriving : arriving[i].id = arriving[j].id => i = j
MakersIdle == tx = "none" => makers = <<>>
LimitOrders == pc = "matching" => call.kind = "limit"

LInv ==
  /\ Ledger
  /\ ArrivalsNew
  /\ MakersIdle
  /\ LimitOrders
  /\ MatchesExecute

----------------------------------------------------------------------------
LEMMA LedgerStarts == Init => LInv
<1> SUFFICES ASSUME Init PROVE LInv
  OBVIOUS
<1>1. /\ wOrders = [id \in {} |-> Contract!NoOrder] /\ owed = Contract!Nothing
      /\ balance = Contract!Nothing
      /\ makers = <<>> /\ matches = <<>> /\ arriving = <<>>
      /\ pc = "idle" /\ DOMAIN bookOrders = {}
      /\ done = <<>> /\ partial = MaxOrders
      /\ ~reverted
  BY DEF Init, Contract!Init, Book!Init
<1>2. ArrivalsNew /\ MakersIdle /\ LimitOrders /\ MatchesExecute
  BY <1>1 DEF ArrivalsNew, MakersIdle, LimitOrders, MatchesExecute
<1>3. Makers = <<>>
  BY <1>1 DEF Makers, DoneMakers, PartialMaker
<1>4. PICK g \in Amounts : TRUE
  <2>1. [i \in Nat |-> 0] \in Amounts
    BY DEF Amounts
  <2> QED BY <2>1
<1>5. <<g, g>> \in MatchOf(takerId, makers) /\ <<g, g>> \in MatchOf(call.id, Makers)
      /\ <<g, g>> \in QueueOf(matches)
  BY <1>1, <1>3, MatchEmpty, QueueEmpty
<1>6. ContractHolds(g) /\ BookHolds(g)
  BY <1>1 DEF ContractHolds, BookHolds
<1>7. Covered(g)
  <2>1. \A type : Held(wOrders, g, type) = 0
    <3>1. \A type : OfType(wOrders, type) = {}
      BY <1>1 DEF OfType
    <3> QED BY <3>1, SumEmpty DEF Held
  <2>2. /\ owed[FirstToken] = 0 /\ owed[SecondToken] = 0
        /\ balance[FirstToken] = 0 /\ balance[SecondToken] = 0
    BY <1>1 DEF Contract!Nothing
  <2> QED BY <2>1, <2>2 DEF Covered
<1>8. Ledger
  BY <1>5, <1>6, <1>7 DEF Ledger, Behind
<1> QED BY <1>2, <1>8 DEF LInv

LEMMA RecordFacts ==
  ASSUME IInv
  PROVE  /\ RecordsOK(orders) /\ RecordsOK(wOrders) /\ DOMAIN wOrders = DOMAIN orders
         /\ orderIdCounter \in Nat \ DOMAIN orders
         /\ owed[FirstToken] \in Nat /\ owed[SecondToken] \in Nat
         /\ balance[FirstToken] \in Nat /\ balance[SecondToken] \in Nat
         /\ tx = "none" => wOrders = orders /\ owed = Contract!Nothing
<1>1. C!TypeOK /\ C!IndexOwned /\ C!CopiesAtRest /\ C!MatchCopies /\ tx \in {"none", "match"}
  BY DEF IInv, C!IInv, OrdersTyped
<1>2. IsFiniteSet(DOMAIN orders)
  <2>1. DOMAIN orders \subseteq 0..(orderIdCounter - 1) /\ orderIdCounter \in Nat
    BY <1>1 DEF C!TypeOK, C!IndexOwned
  <2>2. IsFiniteSet(0..(orderIdCounter - 1))
    <3>1. orderIdCounter - 1 \in Int
      BY <2>1
    <3> QED BY <3>1, FS_Interval
  <2> QED BY <2>1, <2>2, FS_Subset
<1>3. DOMAIN wOrders = DOMAIN orders
  BY <1>1 DEF C!CopiesAtRest, C!MatchCopies
<1>4. RecordsOK(orders)
  BY <1>1, <1>2 DEF RecordsOK, C!TypeOK, C!Order
<1>5. RecordsOK(wOrders)
  BY <1>1, <1>2, <1>3 DEF RecordsOK, C!TypeOK, C!Order
<1>6. orderIdCounter \in Nat \ DOMAIN orders
  BY <1>1 DEF C!TypeOK, C!IndexOwned
<1>7. /\ owed[FirstToken] \in Nat /\ owed[SecondToken] \in Nat
      /\ balance[FirstToken] \in Nat /\ balance[SecondToken] \in Nat
  BY <1>1 DEF C!TypeOK
<1>8. tx = "none" => wOrders = orders /\ owed = Contract!Nothing
  BY <1>1 DEF C!CopiesAtRest, C!Nothing, Contract!Nothing
<1> QED BY <1>3, <1>4, <1>5, <1>6, <1>7, <1>8

LEMMA RecordsFollow ==
  ASSUME C!IInv', IsFiniteSet(DOMAIN wOrders')
  PROVE  RecordsOK(wOrders')
BY DEF C!IInv, C!TypeOK, C!Order, RecordsOK

(* Between calls there is no match in the making.                          *)
LEMMA NoMakersIdle ==
  ASSUME B!IInv, pc = "idle"
  PROVE  Makers = <<>> /\ done = <<>> /\ partial = MaxOrders
<1>1. done = <<>> /\ partial = MaxOrders
  BY DEF B!IInv, B!CallOK, B!IdleReset
<1> QED BY <1>1 DEF Makers, DoneMakers, PartialMaker

----------------------------------------------------------------------------
(* A new order is no party of any match that is not executed yet: all      *)
(* views of the quantities gain its own, and the contract its deposit.     *)
LEMMA PlaceKeeps ==
  ASSUME IInv, LInv, IInv', NEW u \in User, NEW type \in {"Buy", "Sell"},
         NEW input \in Amount, NEW output \in Amount, Place(u, type, input, output)
  PROVE  Ledger'
<1> DEFINE o == [type |-> type, input |-> input, output |-> output]
<1>1. PICK x, n : x = orderIdCounter /\ n = EngineQuantity(o)
  OBVIOUS
<1>2. /\ x \in Nat \ DOMAIN orders /\ RecordsOK(wOrders) /\ RecordsOK(wOrders')
      /\ DOMAIN wOrders = DOMAIN orders
      /\ wOrders = orders /\ owed = Contract!Nothing /\ tx = "none"
      /\ balance[FirstToken] \in Nat /\ balance[SecondToken] \in Nat
  <2>1. tx = "none"
    BY DEF Place, Contract!CreateOrder
  <2>2. RecordsOK(wOrders')
    <3>1. IsFiniteSet(DOMAIN wOrders')
      <4>1. DOMAIN wOrders' = DOMAIN orders \cup {x}
        BY <1>1 DEF Place, Contract!CreateOrder
      <4>2. IsFiniteSet(DOMAIN orders)
        BY RecordFacts DEF RecordsOK
      <4> QED BY <4>1, <4>2, FS_AddElement
    <3> QED BY <3>1, RecordsFollow DEF IInv
  <2> QED BY <1>1, <2>1, <2>2, RecordFacts
<1>3. n \in Nat \ {0} /\ input \in Nat \ {0} /\ output \in Nat \ {0}
  BY <1>1, AmountAssumption DEF EngineQuantity
<1>4. /\ DOMAIN wOrders' = DOMAIN wOrders \cup {x}
      /\ wOrders'[x].type = type /\ wOrders'[x].input = input /\ wOrders'[x].output = output
      /\ \A id \in DOMAIN wOrders : wOrders'[id] = wOrders[id]
      /\ balance' = [balance EXCEPT ![Payment(type)] = @ + input]
      /\ owed' = owed
  BY <1>1, <1>2 DEF Place, Contract!CreateOrder
<1>5. arriving' = Append(arriving, [id |-> x, order |-> o])
  BY <1>1 DEF Place
<1>6. UNCHANGED <<bookVars, matches, makers, short, reverted, takerId>>
  BY DEF Place, Contract!CreateOrder
<1> SUFFICES ASSUME ~reverted PROVE \E g, a, b, h \in Amounts : Behind(g, a, b, h)'
  BY <1>6 DEF Ledger
<1>7. PICK g \in Amounts, a \in Amounts, b \in Amounts, h \in Amounts : Behind(g, a, b, h)
  BY DEF LInv, Ledger
<1> DEFINE with(k) == [k EXCEPT ![x] = n]
<1>8. \A k \in Amounts :
        with(k) \in Amounts /\ with(k)[x] = n /\ \A i \in Nat \ {x} : with(k)[i] = k[i]
  BY <1>2, <1>3 DEF Amounts
<1>9. Ignores(MatchOf(takerId, makers), x)
  <2>1. makers = <<>>
    BY <1>2 DEF LInv, MakersIdle
  <2> QED BY <1>2, <2>1, EmptyIgnores
<1>10. Ignores(QueueOf(matches), x)
  <2>1. matches \in Seq(Match)
    BY DEF IInv, OrdersTyped
  <2>2. ASSUME NEW i \in DOMAIN matches
        PROVE  Ignores(MatchOf(matches[i].taker, matches[i].makers), x)
    <3> DEFINE t == matches[i].taker
               ms == matches[i].makers
    <3>1. matches[i] \in Match
      BY <2>1, ElementOfSeq, LenProperties
    <3>2. t \in Nat /\ ms \in Seq(Nat)
      BY <3>1 DEF Match
    <3>3. \A j \in DOMAIN ms : Opposed(t, ms[j])
      BY DEF IInv, MatchesOpposed
    <3> HIDE DEF t, ms
    <3>4. \A j \in DOMAIN ms : t \in Nat \ {x} /\ ms[j] # x
      BY <1>2, <3>2, <3>3 DEF Opposed
    <3>5. Ignores(MatchOf(t, ms), x)
      BY <1>2, <3>2, <3>4, MatchIgnores
    <3> QED BY <3>5 DEF t, ms
  <2> QED BY <1>2, <2>1, <2>2, QueueIgnores
<1>11. Ignores(MatchOf(call.id, Makers), x)
  <2>1. CASE pc = "idle"
    <3>1. Makers = <<>>
      BY <2>1, NoMakersIdle DEF IInv
    <3> QED BY <1>2, <3>1, EmptyIgnores
  <2>2. CASE pc # "idle"
    <3>1. call.id \in Nat /\ Makers \in Seq(Nat) /\ \A j \in DOMAIN Makers : Opposed(call.id, Makers[j])
      BY <2>2, MakersOfMatch DEF IInv
    <3>2. \A j \in DOMAIN Makers : call.id \in Nat \ {x} /\ Makers[j] # x
      BY <1>2, <3>1 DEF Opposed
    <3> QED BY <1>2, <3>1, <3>2, MatchIgnores
  <2> QED BY <2>1, <2>2
<1>12. /\ <<with(g), with(a)>> \in MatchOf(takerId, makers)
       /\ <<with(a), with(b)>> \in QueueOf(matches)
       /\ <<with(b), with(h)>> \in MatchOf(call.id, Makers)
  BY <1>3, <1>7, <1>9, <1>10, <1>11 DEF Behind, Ignores
<1> HIDE DEF with
<1>13. ContractHolds(with(g))'
  <2>1. EngineQuantity(wOrders'[x]) = n
    BY <1>1, <1>4 DEF EngineQuantity
  <2>2. \A id \in DOMAIN wOrders : with(g)[id] = g[id] /\ wOrders'[id] = wOrders[id]
    BY <1>2, <1>4, <1>8 DEF RecordsOK
  <2>3. \A id \in DOMAIN wOrders : g[id] > 0 => EngineQuantity(wOrders[id]) = g[id]
    BY <1>7 DEF Behind, ContractHolds
  <2>4. \A id \in DOMAIN wOrders' : with(g)[id] > 0 => EngineQuantity(wOrders'[id]) = with(g)[id]
    BY <1>4, <1>8, <2>1, <2>2, <2>3
  <2> QED BY <2>4 DEF ContractHolds
<1>14. Covered(with(g))'
  <2> SUFFICES ASSUME ~short
               PROVE  /\ Held(wOrders', with(g), "Sell") + owed'[FirstToken] <= balance'[FirstToken]
                      /\ Held(wOrders', with(g), "Buy") + owed'[SecondToken] <= balance'[SecondToken]
    BY <1>6 DEF Covered
  <2>1. /\ Held(wOrders, g, "Sell") + owed[FirstToken] <= balance[FirstToken]
        /\ Held(wOrders, g, "Buy") + owed[SecondToken] <= balance[SecondToken]
    BY <1>7 DEF Behind, Covered
  <2>2. \A kind : Held(wOrders', with(g), kind)
                    = Held(wOrders, g, kind) + IF wOrders'[x].type = kind THEN wOrders'[x].input ELSE 0
    <3> SUFFICES ASSUME NEW kind
                 PROVE  Held(wOrders', with(g), kind)
                          = Held(wOrders, g, kind) + IF wOrders'[x].type = kind THEN wOrders'[x].input ELSE 0
      OBVIOUS
    <3>1. x \in Nat /\ x \notin DOMAIN wOrders /\ n \in Nat \ {0}
      BY <1>2, <1>3
    <3> QED BY <1>2, <1>4, <3>1, HeldAdd DEF with
  <2>3. \A kind : Held(wOrders, g, kind) \in Nat
    BY <1>2, HeldTyped
  <2>4. owed[FirstToken] = 0 /\ owed[SecondToken] = 0
    BY <1>2 DEF Contract!Nothing
  <2>5. DOMAIN balance = {FirstToken, SecondToken}
    BY DEF IInv, C!IInv, C!TypeOK
  <2>6. /\ balance'[FirstToken] = balance[FirstToken] + IF type = "Sell" THEN input ELSE 0
        /\ balance'[SecondToken] = balance[SecondToken] + IF type = "Buy" THEN input ELSE 0
    BY <1>2, <1>4, <2>5, AccountAssumption DEF Payment
  <2> QED BY <1>2, <1>3, <1>4, <2>1, <2>2, <2>3, <2>4, <2>6
<1>15. BookHolds(with(h))'
  <2>1. BookHolds(h)
    BY <1>7 DEF Behind
  <2>2. ASSUME NEW id \in DOMAIN bookOrders
        PROVE  with(h)[id] = bookOrders[id].quantity
    <3>1. id \in DOMAIN wOrders
      BY <1>2 DEF IInv, RestingStand, Stands
    <3> QED BY <1>2, <1>8, <2>1, <3>1 DEF BookHolds, RecordsOK
  <2>3. ASSUME NEW i \in DOMAIN arriving'
        PROVE  with(h)[arriving'[i].id] = EngineQuantity(arriving'[i].order)
    <3>1. \/ arriving'[i] = [id |-> x, order |-> o]
          \/ i \in DOMAIN arriving /\ arriving'[i] = arriving[i]
      <4>1. /\ arriving \in Seq(Arrival)
            /\ Len(arriving) \in Nat /\ DOMAIN arriving = 1..Len(arriving)
        BY LenProperties DEF IInv, OrdersTyped
      <4> QED BY <1>5, <2>3, <4>1
    <3>2. CASE arriving'[i] = [id |-> x, order |-> o]
      BY <1>1, <1>8, <3>2
    <3>3. CASE i \in DOMAIN arriving /\ arriving'[i] = arriving[i]
      <4>1. arriving[i].id \in DOMAIN wOrders
        BY <1>2, <3>3 DEF IInv, ArrivingStand, Stands
      <4> QED BY <1>2, <1>8, <2>1, <3>3, <4>1 DEF BookHolds, RecordsOK
    <3> QED BY <3>1, <3>2, <3>3
  <2>4. ASSUME pc = "matching"
        PROVE  with(h)[call.id] = left
    <3>1. call.id \in DOMAIN wOrders
      BY <1>2, <2>4 DEF IInv, CallStands, Stands
    <3> QED BY <1>2, <1>8, <2>1, <2>4, <3>1 DEF BookHolds, RecordsOK
  <2> QED BY <1>6, <2>2, <2>3, <2>4 DEF BookHolds, bookVars
<1>16. Makers' = Makers /\ call' = call /\ takerId' = takerId /\ makers' = makers /\ matches' = matches
  BY <1>6 DEF bookVars, Makers, DoneMakers, PartialMaker
<1>17. Behind(with(g), with(a), with(b), with(h))'
  BY <1>12, <1>13, <1>14, <1>15, <1>16 DEF Behind
<1> QED BY <1>8, <1>17

----------------------------------------------------------------------------
(* An order that arrives has the quantity of its record.                   *)
LEMMA ArriveKeeps ==
  ASSUME IInv, LInv, Arrive
  PROVE  Ledger'
<1> SUFFICES ASSUME ~reverted PROVE \E g, a, b, h \in Amounts : Behind(g, a, b, h)'
  BY DEF Arrive, Ledger
<1>1. PICK g \in Amounts, a \in Amounts, b \in Amounts, h \in Amounts : Behind(g, a, b, h)
  BY DEF LInv, Ledger
<1>2. PICK new : new = Head(arriving)
  OBVIOUS
<1>3. /\ pc = "idle" /\ UNCHANGED bookOrders /\ UNCHANGED <<done, partial>>
      /\ call'.id = new.id
      /\ pc' = "matching" => left' = EngineQuantity(new.order)
      /\ arriving # <<>> /\ arriving' = Tail(arriving)
      /\ UNCHANGED <<contractVars, matches, makers, short>>
  BY <1>2 DEF Arrive, Book!ProcessLimitOrder, Book!Enter, Book!results, Book!book
<1>4. Makers = <<>> /\ Makers' = <<>>
  <2>1. done = <<>> /\ partial = MaxOrders /\ Makers = <<>>
    BY <1>3, NoMakersIdle DEF IInv
  <2> QED BY <1>3, <2>1 DEF Makers, DoneMakers, PartialMaker
<1>5. <<b, h>> \in MatchOf(call'.id, Makers')
  BY <1>1, <1>4, MatchEmpty DEF Behind
<1>6. ContractHolds(g)' /\ Covered(g)'
  BY <1>1, <1>3 DEF Behind, ContractHolds, Covered, contractVars
<1>7. /\ 1 \in DOMAIN arriving /\ arriving[1] = new
      /\ \A i \in DOMAIN arriving' : i + 1 \in DOMAIN arriving /\ arriving'[i] = arriving[i + 1]
  BY <1>2, <1>3 DEF IInv, OrdersTyped
<1>8. BookHolds(h)'
  <2>1. BookHolds(h)
    BY <1>1 DEF Behind
  <2> QED BY <1>3, <1>7, <2>1 DEF BookHolds
<1>9. Behind(g, a, b, h)'
  <2>1. /\ <<g, a>> \in MatchOf(takerId, makers) /\ <<a, b>> \in QueueOf(matches)
        /\ takerId' = takerId /\ makers' = makers /\ matches' = matches
    BY <1>1, <1>3, SMTT(30) DEF Behind, contractVars
  <2> QED BY <1>5, <1>6, <1>8, <2>1 DEF Behind
<1> QED BY <1>9

----------------------------------------------------------------------------
(* The book takes the head of its best level: what the call and the head   *)
(* have left shrinks by the lesser quantity, and the head is the next maker*)
(* of the match.                                                           *)
HeadFilled(m) ==
  /\ m \in DOMAIN bookOrders
  /\ Opposed(call.id, m)
  /\ left \in Nat \ {0} /\ bookOrders[m].quantity \in Nat \ {0}
  /\ Makers \in Seq(Nat) /\ Makers' = Append(Makers, m)
  /\ left' = left - Lesser(left, bookOrders[m].quantity)
  /\ \A id \in DOMAIN bookOrders' :
       /\ id \in DOMAIN bookOrders
       /\ bookOrders'[id].quantity =
            IF id = m THEN bookOrders[m].quantity - Lesser(left, bookOrders[m].quantity)
                      ELSE bookOrders[id].quantity

LEMMA MakersSoFar ==
  ASSUME B!IInv, DoneOpposed, pc = "matching"
  PROVE  /\ done \in Seq(B!Fill) /\ Len(done) \in Nat /\ DOMAIN done = 1..Len(done)
         /\ DoneMakers = [i \in 1..Len(done) |-> done[i].id]
<1>1. done \in Seq(B!Fill) /\ Len(done) \in Nat /\ DOMAIN done = 1..Len(done)
  BY LenProperties DEF B!IInv, B!CallOK, B!CallTypeOK
<1>2. \A i \in 1..Len(done) : done[i].id # call.id
  BY <1>1 DEF DoneOpposed, Opposed
<1>3. ~(Len(done) > 0 /\ done[Len(done)].id = call.id)
  BY <1>1, <1>2
<1> QED BY <1>1, <1>3 DEF DoneMakers

LEMMA HeadTaken ==
  ASSUME IInv, Book!MatchHead
  PROVE  \E m \in Nat : HeadFilled(m)
<1> DEFINE s == Book!Opposite(call.side)
<1>1. PICK p \in levels[s] :
        /\ left > 0 /\ pc = "matching"
        /\ Book!FillPartially(Head(queue[s][p])) \/ Book!FillWhole(Head(queue[s][p]))
  BY DEF Book!MatchHead, Book!Matchable
<1> DEFINE h == Head(queue[s][p])
<1>2. s \in B!Side /\ s # call.side
  <2>1. call.side \in B!Side
    BY DEF IInv, B!IInv, B!CallOK, B!CallTypeOK, B!Call
  <2> QED BY <2>1 DEF Book!Opposite, B!Side
<1>3. h \in DOMAIN bookOrders /\ bookOrders[h] \in B!Order /\ bookOrders[h].side = s
  <2>1. B!BookTypeOK /\ B!IndexConsistent /\ B!LevelsExact
    BY DEF IInv, B!IInv, B!BookOK, B!CountersExact
  <2> HIDE DEF s
  <2> QED BY <1>1, <1>2, <2>1, B!LevelHead, BookAssumptions
<1> HIDE DEF h, s
<1>4. Opposed(call.id, h)
  BY <1>1, <1>2, <1>3 DEF IInv, RestingStand, CallStands, Stands, Opposed, EngineSide
<1>5. left \in Nat \ {0} /\ bookOrders[h].quantity \in Nat \ {0}
  <2>1. left \in Nat
    BY DEF IInv, B!IInv, B!CallOK, B!CallTypeOK
  <2> QED BY <1>1, <1>3, <2>1 DEF B!Order
<1>6. /\ done \in Seq(B!Fill) /\ Len(done) \in Nat /\ DOMAIN done = 1..Len(done)
      /\ DoneMakers = [i \in 1..Len(done) |-> done[i].id]
      /\ partial = MaxOrders
  <2>1. partial = MaxOrders
    BY <1>1 DEF IInv, B!IInv, B!CallOK, B!ResultsSoFar
  <2> QED BY <1>1, <2>1, MakersSoFar DEF IInv
<1>7. /\ PartialMaker = <<>> /\ call.id \in Nat /\ DoneMakers \in Seq(Nat) /\ Makers \in Seq(Nat)
      /\ Makers = DoneMakers
  <2>1. PartialMaker = <<>>
    BY <1>6 DEF PartialMaker
  <2>2. call.id \in Nat /\ Makers \in Seq(Nat)
    BY <1>1, MakersOfMatch DEF IInv
  <2>3. DoneMakers \in Seq(Nat)
    <3>1. \A i \in 1..Len(done) : done[i].id \in Nat
      <4>1. \A f \in B!Fill : f.id \in Nat
        BY OrdersAssumption DEF B!Fill
      <4>2. \A i \in 1..Len(done) : done[i] \in B!Fill
        BY <1>6, ElementOfSeq
      <4> QED BY <4>1, <4>2
    <3> QED BY <1>6, <3>1
  <2>4. Makers = DoneMakers
    BY <2>1, <2>3 DEF Makers
  <2> QED BY <2>1, <2>2, <2>3, <2>4
<1>8. h \in Nat /\ h # MaxOrders /\ h # call.id
  <2>1. h \in 0..(MaxOrders - 1)
    BY <1>3 DEF IInv, B!IInv, B!BookOK, B!BookTypeOK
  <2> QED BY <1>4, <2>1, OrdersAssumption DEF Opposed
<1>9. CASE Book!FillPartially(h)
  <2>1. /\ bookOrders' = [bookOrders EXCEPT ![h].quantity = bookOrders[h].quantity - left]
        /\ left < bookOrders[h].quantity /\ left' = 0
        /\ done' = done /\ partial' = h /\ call' = call
    BY <1>9 DEF Book!FillPartially, Book!QueueUpdate
  <2>2. Lesser(left, bookOrders[h].quantity) = left
    BY <1>5, <2>1 DEF Lesser
  <2>3. DoneMakers' = DoneMakers /\ PartialMaker' = <<h>>
    BY <1>8, <2>1 DEF DoneMakers, PartialMaker
  <2>4. Makers' = Append(Makers, h)
    BY <1>7, <1>8, <2>3 DEF Makers
  <2>5. \A id \in DOMAIN bookOrders' :
           /\ id \in DOMAIN bookOrders
           /\ bookOrders'[id].quantity = IF id = h THEN bookOrders[h].quantity - left
                                                   ELSE bookOrders[id].quantity
    <3>1. DOMAIN bookOrders' = DOMAIN bookOrders
      BY <2>1
    <3>2. bookOrders'[h] = [bookOrders[h] EXCEPT !.quantity = bookOrders[h].quantity - left]
      BY <1>3, <2>1
    <3>3. bookOrders'[h].quantity = bookOrders[h].quantity - left
      BY <1>3, <3>2 DEF B!Order
    <3>4. \A id \in DOMAIN bookOrders \ {h} : bookOrders'[id] = bookOrders[id]
      BY <2>1
    <3> QED BY <3>1, <3>3, <3>4
  <2>6. left' = left - Lesser(left, bookOrders[h].quantity)
    BY <1>5, <2>1, <2>2
  <2>7. HeadFilled(h)
    BY <1>3, <1>4, <1>5, <1>7, <2>2, <2>4, <2>5, <2>6 DEF HeadFilled
  <2> QED BY <1>8, <2>7
<1>10. CASE Book!FillWhole(h)
  <2>1. /\ bookOrders' = [j \in DOMAIN bookOrders \ {h} |-> bookOrders[j]]
        /\ left >= bookOrders[h].quantity /\ left' = left - bookOrders[h].quantity
        /\ done' = Append(done, Book!Executed(h)) /\ partial' = MaxOrders /\ call' = call
    BY <1>10 DEF Book!FillWhole, Book!BookRemove
  <2>2. Lesser(left, bookOrders[h].quantity) = bookOrders[h].quantity
    BY <1>5, <2>1 DEF Lesser
  <2>3. Book!Executed(h).id = h
    BY DEF Book!Executed
  <2>4. /\ Len(done') = Len(done) + 1 /\ done'[Len(done) + 1].id = h
        /\ \A i \in 1..Len(done) : done'[i] = done[i]
    BY <1>6, <2>1, <2>3
  <2>5. DoneMakers' = [i \in 1..(Len(done) + 1) |-> done'[i].id]
    <3>1. ~(Len(done') > 0 /\ done'[Len(done')].id = call'.id)
      BY <1>8, <2>1, <2>4
    <3> QED BY <2>4, <3>1 DEF DoneMakers
  <2>6. DoneMakers' = Append(DoneMakers, h)
    <3> DEFINE D == DoneMakers'
               E == DoneMakers
    <3>1. D = [i \in 1..(Len(done) + 1) |-> IF i = Len(done) + 1 THEN h ELSE E[i]]
      BY <1>6, <2>4, <2>5
    <3>2. E \in Seq(Nat) /\ Len(E) = Len(done)
      BY <1>6, <1>7
    <3> HIDE DEF D, E
    <3>3. D = Append(E, h)
      BY <1>6, <3>1, <3>2
    <3> QED BY <3>3 DEF D, E
  <2>7. PartialMaker' = <<>>
    BY <2>1 DEF PartialMaker
  <2>8. Makers' = Append(Makers, h)
    <3>1. Append(DoneMakers, h) \in Seq(Nat)
      BY <1>7, <1>8, AppendProperties
    <3> QED BY <1>7, <2>6, <2>7, <3>1 DEF Makers
  <2>9. HeadFilled(h)
    <3>1. \A id \in DOMAIN bookOrders' :
             id \in DOMAIN bookOrders /\ id # h /\ bookOrders'[id] = bookOrders[id]
      BY <2>1
    <3> QED BY <1>3, <1>4, <1>5, <1>7, <2>1, <2>2, <2>8, <3>1 DEF HeadFilled
  <2> QED BY <1>8, <2>9
<1> QED BY <1>1, <1>9, <1>10 DEF h

LEMMA MatchHeadKeeps ==
  ASSUME IInv, LInv, BookStep, Book!MatchHead
  PROVE  Ledger'
<1> SUFFICES ASSUME ~reverted PROVE \E g, a, b, h \in Amounts : Behind(g, a, b, h)'
  BY DEF BookStep, Ledger
<1>1. PICK g \in Amounts, a \in Amounts, b \in Amounts, h \in Amounts : Behind(g, a, b, h)
  BY DEF LInv, Ledger
<1>2. PICK m \in Nat : HeadFilled(m)
  BY HeadTaken
<1>3. /\ pc = "matching" /\ pc' = pc /\ call' = call
      /\ UNCHANGED <<contractVars, arriving, matches, makers, short>>
  BY HeadOpposed DEF BookStep, IInv
<1> DEFINE t == call.id
           after == [i \in Nat |-> IF i \in {t, m} THEN h[i] - Lesser(h[t], h[m]) ELSE h[i]]
<1>4. /\ t \in Nat \ DOMAIN bookOrders /\ t # m
      /\ h[t] = left /\ h[m] = bookOrders[m].quantity
      /\ \A id \in DOMAIN bookOrders : h[id] = bookOrders[id].quantity
  <2>1. t \in Nat \ DOMAIN bookOrders
    <3>1. t \in Nat
      BY <1>3, MakersOfMatch DEF IInv
    <3>2. call.kind = "limit" => t \notin DOMAIN bookOrders
      BY <1>3 DEF IInv, B!IInv, B!CallOK, B!ArgumentsValid
    <3> QED BY <1>3, <3>1, <3>2 DEF LInv, LimitOrders
  <2>2. t # m
    BY <1>2 DEF HeadFilled, Opposed
  <2>3. BookHolds(h)
    BY <1>1 DEF Behind
  <2> QED BY <1>2, <1>3, <2>1, <2>2, <2>3 DEF BookHolds, HeadFilled
<1> HIDE DEF t
<1>5. PICK l \in Amounts :
        /\ l[t] = h[t] - Lesser(h[t], h[m]) /\ l[m] = h[m] - Lesser(h[t], h[m])
        /\ \A i \in Nat \ {t, m} : l[i] = h[i]
  <2>1. /\ h[t] - Lesser(h[t], h[m]) \in Nat /\ h[m] - Lesser(h[t], h[m]) \in Nat
    BY <1>4 DEF Amounts, Lesser
  <2>2. \A i \in Nat : h[i] \in Nat
    BY DEF Amounts
  <2>3. after \in Amounts
    BY <1>4, <2>1, <2>2 DEF Amounts
  <2>4. /\ after[t] = h[t] - Lesser(h[t], h[m]) /\ after[m] = h[m] - Lesser(h[t], h[m])
        /\ \A i \in Nat \ {t, m} : after[i] = h[i]
    BY <1>4
  <2> HIDE DEF after
  <2> QED BY <2>3, <2>4
<1> HIDE DEF after
<1>6. <<h, l>> \in FillOf(t, m)
  <2>1. t \in Nat /\ t # m /\ h[t] > 0 /\ h[m] > 0
    BY <1>2, <1>4 DEF HeadFilled
  <2> QED BY <1>5, <2>1, FillPair
<1>7. <<b, l>> \in MatchOf(t, Append(Makers, m))
  <2>1. <<b, h>> \in MatchOf(t, Makers) /\ Makers \in Seq(Nat)
    BY <1>1, <1>2 DEF Behind, HeadFilled, t
  <2> QED BY <1>6, <2>1, MatchAppend
<1>8. BookHolds(l)'
  <2>1. \A id \in DOMAIN bookOrders' : l[id] = bookOrders'[id].quantity
    <3>1. DOMAIN bookOrders \subseteq Nat
      BY DEF IInv, B!IInv, B!BookOK, B!BookTypeOK
    <3> QED BY <1>2, <1>4, <1>5, <3>1 DEF HeadFilled
  <2>2. ASSUME NEW i \in DOMAIN arriving
        PROVE  l[arriving[i].id] = EngineQuantity(arriving[i].order)
    <3>1. h[arriving[i].id] = EngineQuantity(arriving[i].order)
      BY <1>1 DEF Behind, BookHolds
    <3>2. arriving[i].id # m /\ arriving[i].id # t
      BY <1>2, <1>3 DEF LInv, ArrivalsNew, HeadFilled, t
    <3>3. arriving[i].id \in Nat
      <4>1. arriving[i] \in Arrival
        BY DEF IInv, OrdersTyped
      <4> QED BY <4>1, OrdersAssumption DEF Arrival
    <3> QED BY <1>5, <3>1, <3>2, <3>3
  <2>3. l[t] = left'
    BY <1>2, <1>4, <1>5 DEF HeadFilled
  <2> QED BY <1>3, <2>1, <2>2, <2>3 DEF BookHolds, t
<1>9. ContractHolds(g)' /\ Covered(g)'
  BY <1>1, <1>3 DEF Behind, ContractHolds, Covered, contractVars
<1>10. Behind(g, a, b, l)'
  <2>1. /\ <<g, a>> \in MatchOf(takerId, makers) /\ <<a, b>> \in QueueOf(matches)
        /\ takerId' = takerId /\ makers' = makers /\ matches' = matches
    BY <1>1, <1>3 DEF Behind, contractVars
  <2>2. Makers' = Append(Makers, m) /\ call'.id = t
    BY <1>2, <1>3 DEF HeadFilled, t
  <2> QED BY <1>7, <1>8, <1>9, <2>1, <2>2 DEF Behind
<1> QED BY <1>5, <1>10

(* What the call has left comes to rest, or the taker is reported: neither *)
(* is a maker.                                                             *)
LEMMA ReturnKeeps ==
  ASSUME IInv, LInv, BookStep, Book!RestRemainder \/ Book!ReportTaker
  PROVE  Ledger'
<1> SUFFICES ASSUME ~reverted PROVE \E g, a, b, h \in Amounts : Behind(g, a, b, h)'
  BY DEF BookStep, Ledger
<1>1. PICK g \in Amounts, a \in Amounts, b \in Amounts, h \in Amounts : Behind(g, a, b, h)
  BY DEF LInv, Ledger
<1>2. /\ pc = "matching" /\ pc' = "returned" /\ call' = call
      /\ UNCHANGED <<contractVars, arriving, matches, makers, short>>
  BY DEF BookStep, Book!RestRemainder, Book!ReportTaker
<1>3. /\ done \in Seq(B!Fill) /\ Len(done) \in Nat /\ DOMAIN done = 1..Len(done)
      /\ DoneMakers = [i \in 1..Len(done) |-> done[i].id]
  BY <1>2, MakersSoFar DEF IInv
<1>4. Makers' = Makers /\ BookHolds(h)'
  <2>0. BookHolds(h)
    BY <1>1 DEF Behind
  <2>1. CASE Book!RestRemainder
    <3>1. /\ left > 0 /\ done' = done /\ partial' \in {partial, call.id}
          /\ bookOrders' = [i \in DOMAIN bookOrders \cup {call.id} |->
                              IF i = call.id THEN Book!Remainder ELSE bookOrders[i]]
      BY <2>1 DEF Book!RestRemainder, Book!SideAppend
    <3>2. partial = MaxOrders
      BY <1>2, <3>1 DEF IInv, B!IInv, B!CallOK, B!ResultsSoFar
    <3>3. DoneMakers' = DoneMakers /\ PartialMaker = <<>> /\ PartialMaker' = <<>>
      BY <1>2, <3>1, <3>2 DEF DoneMakers, PartialMaker
    <3>4. Book!Remainder.quantity = left
      BY DEF Book!Remainder
    <3>5. \A id \in DOMAIN bookOrders' : h[id] = bookOrders'[id].quantity
      BY <1>2, <2>0, <3>1, <3>4 DEF BookHolds
    <3> QED BY <1>2, <2>0, <3>3, <3>5 DEF BookHolds, Makers
  <2>2. CASE Book!ReportTaker
    <3>1. PICK f : f.id = call.id /\ done' = Append(done, f)
      <4>1. \A q, p : [id |-> call.id, quantity |-> q, price |-> p].id = call.id
        OBVIOUS
      <4> QED BY <2>2, <4>1 DEF Book!ReportTaker
    <3>2. partial' = partial /\ bookOrders' = bookOrders
      BY <2>2 DEF Book!ReportTaker, Book!book
    <3>3. /\ Len(done') = Len(done) + 1 /\ done'[Len(done) + 1].id = call.id
          /\ \A i \in 1..Len(done) : done'[i] = done[i]
      BY <1>3, <3>1
    <3>4. DoneMakers' = [i \in 1..Len(done) |-> done'[i].id]
      <4>1. Len(done') > 0 /\ done'[Len(done')].id = call'.id /\ Len(done') - 1 = Len(done)
        BY <1>2, <1>3, <3>3
      <4> QED BY <4>1 DEF DoneMakers
    <3>5. DoneMakers' = DoneMakers /\ PartialMaker' = PartialMaker
      BY <1>2, <1>3, <3>2, <3>3, <3>4 DEF PartialMaker
    <3> QED BY <1>2, <2>0, <3>2, <3>5 DEF BookHolds, Makers
  <2> QED BY <2>1, <2>2
<1>5. ContractHolds(g)' /\ Covered(g)'
  BY <1>1, <1>2 DEF Behind, ContractHolds, Covered, contractVars
<1>6. Behind(g, a, b, h)'
  <2>1. /\ <<g, a>> \in MatchOf(takerId, makers) /\ <<a, b>> \in QueueOf(matches)
        /\ <<b, h>> \in MatchOf(call.id, Makers)
        /\ takerId' = takerId /\ makers' = makers /\ matches' = matches
    BY <1>1, <1>2 DEF Behind, contractVars
  <2> QED BY <1>2, <1>4, <1>5, <2>1 DEF Behind
<1> QED BY <1>6

(* The match the book has made joins the queue; what made none joins       *)
(* nothing.                                                                *)
LEMMA SubmitKeeps ==
  ASSUME IInv, LInv, Submit
  PROVE  Ledger'
<1> SUFFICES ASSUME ~reverted PROVE \E g, a, b, h \in Amounts : Behind(g, a, b, h)'
  BY DEF Submit, Ledger
<1>1. PICK g \in Amounts, a \in Amounts, b \in Amounts, h \in Amounts : Behind(g, a, b, h)
  BY DEF LInv, Ledger
<1>2. /\ pc # "idle" /\ pc' = "idle" /\ UNCHANGED bookOrders
      /\ done' = <<>> /\ partial' = MaxOrders
      /\ UNCHANGED <<contractVars, arriving, makers, short>>
      /\ matches' = IF done = <<>> /\ partial = MaxOrders THEN matches
                    ELSE Append(matches, [taker |-> call.id, makers |-> Makers])
  BY DEF Submit, Book!Return, Book!book
<1>3. Makers' = <<>>
  BY <1>2 DEF Makers, DoneMakers, PartialMaker
<1>4. <<a, b>> \in QueueOf(matches) /\ <<b, h>> \in MatchOf(call.id, Makers)
      /\ <<g, a>> \in MatchOf(takerId, makers)
  BY <1>1 DEF Behind
<1>5. <<a, h>> \in QueueOf(matches')
  <2>1. CASE done = <<>> /\ partial = MaxOrders
    <3>1. Makers = <<>>
      BY <2>1 DEF Makers, DoneMakers, PartialMaker
    <3>2. b = h
      BY <1>4, <3>1, MatchEmpty
    <3> QED BY <1>2, <1>4, <2>1, <3>2
  <2>2. CASE ~(done = <<>> /\ partial = MaxOrders)
    <3>1. PICK q : q = [taker |-> call.id, makers |-> Makers]
      OBVIOUS
    <3>2. q \in Match /\ q.taker = call.id /\ q.makers = Makers
      BY <1>2, <3>1, MakersOfMatch DEF IInv, Match
    <3>3. matches \in Seq(Match) /\ matches' = Append(matches, q)
      BY <1>2, <2>2, <3>1 DEF IInv, OrdersTyped
    <3> QED BY <1>4, <3>2, <3>3, QueueAppend
  <2> QED BY <2>1, <2>2
<1>6. <<h, h>> \in MatchOf(call'.id, Makers')
  BY <1>3, MatchEmpty
<1>7. ContractHolds(g)' /\ Covered(g)' /\ BookHolds(h)'
  BY <1>1, <1>2 DEF Behind, ContractHolds, Covered, BookHolds, contractVars
<1>8. takerId' = takerId /\ makers' = makers
  BY <1>2 DEF contractVars
<1>9. Behind(g, a, h, h)'
  BY <1>4, <1>5, <1>6, <1>7, <1>8 DEF Behind
<1> QED BY <1>9

(* The first match of the queue becomes the one the contract executes.     *)
LEMMA ExecuteKeeps ==
  ASSUME IInv, LInv, Execute
  PROVE  Ledger'
<1> SUFFICES ASSUME ~reverted PROVE \E g, a, b, h \in Amounts : Behind(g, a, b, h)'
  BY DEF Execute, Ledger
<1>1. PICK g \in Amounts, a \in Amounts, b \in Amounts, h \in Amounts : Behind(g, a, b, h)
  BY DEF LInv, Ledger
<1>2. /\ matches # <<>> /\ tx = "none" /\ takerId' = Head(matches).taker
      /\ makers' = Head(matches).makers /\ matches' = Tail(matches)
      /\ UNCHANGED <<bookVars, arriving, short, orders, balance, owed, wOrders>>
  BY DEF Execute, Contract!BeginMatch, Contract!storage
<1>3. /\ <<g, a>> \in MatchOf(takerId, makers) /\ <<a, b>> \in QueueOf(matches)
      /\ <<b, h>> \in MatchOf(call.id, Makers)
      /\ ContractHolds(g) /\ Covered(g) /\ BookHolds(h)
  BY <1>1 DEF Behind
<1>4. g = a
  <2>1. makers = <<>>
    BY <1>2 DEF LInv, MakersIdle
  <2> QED BY <1>3, <2>1, MatchEmpty
<1>5. PICK k \in Amounts : <<g, k>> \in MatchOf(takerId', makers') /\ <<k, b>> \in QueueOf(matches')
  <2>1. matches \in Seq(Match)
    BY DEF IInv, OrdersTyped
  <2> QED BY <1>2, <1>3, <1>4, <2>1, QueueHead
<1>6. Makers' = Makers /\ call' = call
  BY <1>2 DEF bookVars, Makers, DoneMakers, PartialMaker
<1>7. ContractHolds(g)' /\ Covered(g)' /\ BookHolds(h)'
  BY <1>2, <1>3 DEF ContractHolds, Covered, BookHolds, bookVars
<1>8. Behind(g, k, b, h)'
  BY <1>3, <1>5, <1>6, <1>7 DEF Behind
<1> QED BY <1>8

(* What a match leaves of the records and pays out becomes the storage.    *)
LEMMA CommitKeeps ==
  ASSUME IInv, LInv, Commit
  PROVE  Ledger'
<1> SUFFICES ASSUME ~reverted PROVE \E g, a, b, h \in Amounts : Behind(g, a, b, h)'
  BY DEF Commit, Ledger
<1>1. PICK g \in Amounts, a \in Amounts, b \in Amounts, h \in Amounts : Behind(g, a, b, h)
  BY DEF LInv, Ledger
<1>2. /\ makers = <<>> /\ makers' = <<>> /\ wOrders' = wOrders
      /\ balance' = [t \in {FirstToken, SecondToken} |-> balance[t] - owed[t]]
      /\ owed' = Contract!Nothing
      /\ UNCHANGED <<bookVars, arriving, matches, short>>
  BY DEF Commit, Contract!CommitMatch, Contract!Commit, Contract!TxEnd
<1>3. /\ <<g, a>> \in MatchOf(takerId, makers) /\ <<a, b>> \in QueueOf(matches)
      /\ <<b, h>> \in MatchOf(call.id, Makers)
      /\ ContractHolds(g) /\ Covered(g) /\ BookHolds(h)
  BY <1>1 DEF Behind
<1>4. g = a
  BY <1>2, <1>3, MatchEmpty
<1>5. <<g, a>> \in MatchOf(takerId', makers')
  BY <1>2, <1>4, MatchEmpty
<1>6. Makers' = Makers /\ call' = call
  BY <1>2 DEF bookVars, Makers, DoneMakers, PartialMaker
<1>7. ContractHolds(g)' /\ BookHolds(h)'
  BY <1>2, <1>3 DEF ContractHolds, BookHolds, bookVars
<1>8. Covered(g)'
  <2>1. \A type : Held(wOrders, g, type) \in Nat
    BY RecordFacts, HeldTyped
  <2>2. /\ owed'[FirstToken] = 0 /\ owed'[SecondToken] = 0
        /\ balance'[FirstToken] = balance[FirstToken] - owed[FirstToken]
        /\ balance'[SecondToken] = balance[SecondToken] - owed[SecondToken]
    BY <1>2 DEF Contract!Nothing
  <2> QED BY <1>2, <1>3, <2>1, <2>2, RecordFacts DEF Covered
<1>9. Behind(g, a, b, h)'
  BY <1>2, <1>3, <1>5, <1>6, <1>7, <1>8 DEF Behind
<1> QED BY <1>9

----------------------------------------------------------------------------
(* A fill on the contract takes the branch on amounts that the book took on*)
(* quantities: what it leaves in a record that is not used up is what the  *)
(* book has left.                                                          *)
PartiesFill(m) ==
  /\ tx = "match"
  /\ takerId \in DOMAIN wOrders /\ m \in DOMAIN wOrders /\ takerId # m
  /\ wOrders[takerId].type \in {"Buy", "Sell"} /\ wOrders[m].type \in {"Buy", "Sell"}
  /\ wOrders[takerId].type # wOrders[m].type
  /\ taker = wOrders[takerId] /\ taker' = wOrders'[takerId]
  /\ takerId' = takerId /\ balance' = balance
  /\ DOMAIN wOrders' = DOMAIN wOrders
  /\ \A id \in DOMAIN wOrders \ {takerId, m} : wOrders'[id] = wOrders[id]
  /\ C!KeepsTerms(wOrders[takerId], wOrders'[takerId])
  /\ C!KeepsTerms(wOrders[m], wOrders'[m])

(* A record o with quantity q left becomes n when p of it is filled.       *)
Leaves(o, n, p) ==
  EngineQuantity(o) > p => EngineQuantity(n) = EngineQuantity(o) - p

LEMMA FillStep ==
  ASSUME IInv, FillNext
  PROVE  \E m \in Nat :
           /\ m = Head(makers) /\ makers # <<>> /\ PartiesFill(m)
           /\ C!SellWhole(m) \/ C!SellPart(m) \/ C!BuyWhole(m) \/ C!BuyPart(m)
<1> DEFINE m == Head(makers)
<1>1. C!MatchMaker(m)
  BY DEF FillNext, Contract!MatchMaker, C!MatchMaker, Contract!storage, C!storage,
     Contract!SellWhole, C!SellWhole, Contract!SellPart, C!SellPart,
     Contract!BuyWhole, C!BuyWhole, Contract!BuyPart, C!BuyPart,
     Contract!Owe, C!Owe, Contract!RuleOfThree, C!RuleOfThree
<1>2. makers # <<>> /\ 1 \in DOMAIN makers /\ m = makers[1] /\ m \in Nat
  BY DEF FillNext, IInv, OrdersTyped
<1> HIDE DEF m
<1>3. /\ tx = "match" /\ takerId' = takerId /\ m \in DOMAIN wOrders /\ balance' = balance
      /\ C!SellWhole(m) \/ C!SellPart(m) \/ C!BuyWhole(m) \/ C!BuyPart(m)
  BY <1>1 DEF C!MatchMaker, C!storage
<1>4. taker = wOrders[takerId] /\ Opposed(takerId, m)
  BY <1>2, <1>3 DEF IInv, MakersOpposed
<1>5. /\ takerId \in DOMAIN wOrders /\ takerId # m
      /\ wOrders[takerId].type \in {"Buy", "Sell"} /\ wOrders[m].type \in {"Buy", "Sell"}
      /\ wOrders[takerId].type # wOrders[m].type
  <2>1. /\ takerId \in DOMAIN wOrders /\ takerId # m
        /\ wOrders[takerId].type # wOrders[m].type
    BY <1>3, <1>4, Parties DEF IInv, Opposed
  <2>2. wOrders[takerId].type \in {"Buy", "Sell"} /\ wOrders[m].type \in {"Buy", "Sell"}
    BY <1>3, <2>1 DEF IInv, C!IInv, C!TypeOK, C!Order, C!OrderType
  <2> QED BY <2>1, <2>2
<1>6. C!KeepsTerms(taker, taker') /\ C!KeepsTerms(wOrders[m], wOrders'[m])
  BY <1>3, <1>5, C!FillReduces, AccountAssumption, AmountAssumption, OrdersAssumption DEF IInv
<1>7. /\ taker' = wOrders'[takerId] /\ DOMAIN wOrders' = DOMAIN wOrders
      /\ \A id \in DOMAIN wOrders \ {takerId, m} : wOrders'[id] = wOrders[id]
  <2>1. CASE C!SellWhole(m) \/ C!BuyWhole(m)
    <3>1. wOrders' = [wOrders EXCEPT ![takerId] = taker']
      BY <2>1 DEF C!SellWhole, C!BuyWhole
    <3> QED BY <1>5, <3>1
  <2>2. CASE C!SellPart(m) \/ C!BuyPart(m)
    <3>1. taker' = taker /\ \E n : wOrders' = [wOrders EXCEPT ![m] = n]
      BY <2>2 DEF C!SellPart, C!BuyPart
    <3> QED BY <1>4, <1>5, <3>1
  <2> QED BY <1>3, <2>1, <2>2
<1>8. PartiesFill(m)
  BY <1>3, <1>4, <1>5, <1>6, <1>7 DEF PartiesFill
<1> QED BY <1>2, <1>3, <1>8 DEF m

LEMMA FillLeaves ==
  ASSUME IInv, NEW m \in Nat, PartiesFill(m),
         C!SellWhole(m) \/ C!SellPart(m) \/ C!BuyWhole(m) \/ C!BuyPart(m),
         NEW p, p = Lesser(EngineQuantity(wOrders[takerId]), EngineQuantity(wOrders[m]))
  PROVE  Leaves(wOrders[takerId], wOrders'[takerId], p) /\ Leaves(wOrders[m], wOrders'[m], p)
<1> DEFINE o == wOrders[takerId]
           e == wOrders[m]
<1>1. /\ o \in C!Order /\ e \in C!Order
      /\ o.input \in Nat /\ o.output \in Nat /\ e.input \in Nat /\ e.output \in Nat
      /\ o.type \in {"Buy", "Sell"} /\ e.type \in {"Buy", "Sell"} /\ o.type # e.type
      /\ taker = o /\ taker' = wOrders'[takerId]
      /\ takerId \in DOMAIN wOrders /\ m \in DOMAIN wOrders /\ takerId # m
      /\ wOrders'[takerId].type = o.type /\ wOrders'[m].type = e.type
  BY DEF PartiesFill, IInv, C!IInv, C!TypeOK, C!Order, C!KeepsTerms
<1> HIDE DEF o, e
<1>2. CASE C!SellWhole(m)
  <2>1. /\ o.type = "Sell" /\ o.input >= e.output /\ taker'.input = o.input - e.output
    <3>1. \E out : taker' = [o EXCEPT !.input = @ - e.output, !.output = @ - out]
      BY <1>1, <1>2 DEF C!SellWhole, e
    <3> QED BY <1>1, <1>2, <3>1 DEF C!SellWhole, C!Order, e
  <2>2. e.type = "Buy" /\ EngineQuantity(o) = o.input /\ EngineQuantity(e) = e.output
        /\ EngineQuantity(wOrders'[takerId]) = o.input - e.output
    BY <1>1, <2>1 DEF EngineQuantity
  <2>3. p = e.output
    BY <1>1, <2>1, <2>2 DEF Lesser, o, e
  <2> QED BY <1>1, <2>2, <2>3 DEF Leaves, o, e
<1>3. CASE C!SellPart(m)
  <2>1. o.type = "Sell" /\ o.input < e.output
    BY <1>1, <1>3 DEF C!SellPart, e
  <2>2. wOrders'[m].output = e.output - o.input
    <3>1. \E in : wOrders' = [wOrders EXCEPT ![m] = [e EXCEPT !.input = @ - in, !.output = @ - o.input]]
      BY <1>1, <1>3 DEF C!SellPart, e
    <3>2. \E in : wOrders'[m] = [e EXCEPT !.input = @ - in, !.output = @ - o.input]
      BY <1>1, <3>1
    <3> QED BY <1>1, <3>2 DEF C!Order
  <2>3. e.type = "Buy" /\ EngineQuantity(o) = o.input /\ EngineQuantity(e) = e.output
        /\ EngineQuantity(wOrders'[m]) = e.output - o.input
    BY <1>1, <2>1, <2>2 DEF EngineQuantity
  <2>4. p = o.input
    BY <1>1, <2>1, <2>3 DEF Lesser, o, e
  <2> QED BY <1>1, <2>3, <2>4 DEF Leaves, o, e
<1>4. CASE C!BuyWhole(m)
  <2>1. o.type = "Buy" /\ o.output >= e.input /\ taker'.output = o.output - e.input
    <3>1. \E in : taker' = [o EXCEPT !.input = @ - in, !.output = @ - e.input]
      BY <1>1, <1>4 DEF C!BuyWhole, e
    <3> QED BY <1>1, <1>4, <3>1 DEF C!BuyWhole, C!Order, e
  <2>2. e.type = "Sell" /\ EngineQuantity(o) = o.output /\ EngineQuantity(e) = e.input
        /\ EngineQuantity(wOrders'[takerId]) = o.output - e.input
    BY <1>1, <2>1 DEF EngineQuantity
  <2>3. p = e.input
    BY <1>1, <2>1, <2>2 DEF Lesser, o, e
  <2> QED BY <1>1, <2>2, <2>3 DEF Leaves, o, e
<1>5. CASE C!BuyPart(m)
  <2>1. o.type = "Buy" /\ o.output < e.input
    BY <1>1, <1>5 DEF C!BuyPart, e
  <2>2. wOrders'[m].input = e.input - o.output
    <3>1. \E out : wOrders' = [wOrders EXCEPT ![m] = [e EXCEPT !.input = @ - o.output, !.output = @ - out]]
      BY <1>1, <1>5 DEF C!BuyPart, e
    <3>2. \E out : wOrders'[m] = [e EXCEPT !.input = @ - o.output, !.output = @ - out]
      BY <1>1, <3>1
    <3> QED BY <1>1, <3>2 DEF C!Order
  <2>3. e.type = "Sell" /\ EngineQuantity(o) = o.output /\ EngineQuantity(e) = e.input
        /\ EngineQuantity(wOrders'[m]) = e.input - o.output
    BY <1>1, <2>1, <2>2 DEF EngineQuantity
  <2>4. p = o.output
    BY <1>1, <2>1, <2>3 DEF Lesser, o, e
  <2> QED BY <1>1, <2>3, <2>4 DEF Leaves, o, e
<1> QED BY <1>2, <1>3, <1>4, <1>5

(* What an order spends it no longer has on deposit.                       *)
LEMMA SpentLeaves ==
  ASSUME NEW o, NEW n, o.input \in Nat, n.input \in Nat, n.input <= o.input,
         NEW p \in Nat \ {0}, EngineQuantity(o) \in Nat, p <= EngineQuantity(o),
         Leaves(o, n, p)
  PROVE  /\ Contract!Spent(o, n) \in Nat
         /\ (IF EngineQuantity(o) - p > 0 THEN n.input ELSE 0) + Contract!Spent(o, n) <= o.input
<1>1. CASE EngineQuantity(o) > p
  <2>1. EngineQuantity(n) # EngineQuantity(o)
    BY <1>1 DEF Leaves
  <2>2. n # o
    BY <2>1
  <2> QED BY <2>2 DEF Contract!Spent
<1>2. CASE ~(EngineQuantity(o) > p)
  BY <1>2 DEF Contract!Spent
<1> QED BY <1>1, <1>2

LEMMA FillKeeps ==
  ASSUME IInv, LInv, IInv', FillNext
  PROVE  Ledger'
<1> SUFFICES ASSUME ~reverted PROVE \E g, a, b, h \in Amounts : Behind(g, a, b, h)'
  BY DEF FillNext, Ledger
<1>1. PICK g \in Amounts, a \in Amounts, b \in Amounts, h \in Amounts : Behind(g, a, b, h)
  BY DEF LInv, Ledger
<1>2. PICK m \in Nat :
        /\ m = Head(makers) /\ makers # <<>> /\ PartiesFill(m)
        /\ C!SellWhole(m) \/ C!SellPart(m) \/ C!BuyWhole(m) \/ C!BuyPart(m)
  BY FillStep
<1>3. /\ <<g, a>> \in MatchOf(takerId, makers) /\ <<a, b>> \in QueueOf(matches)
      /\ <<b, h>> \in MatchOf(call.id, Makers)
      /\ ContractHolds(g) /\ Covered(g) /\ BookHolds(h)
  BY <1>1 DEF Behind
<1>4. /\ makers' = Tail(makers) /\ short' = (short \/ ~Contract!Funded(m))
      /\ UNCHANGED <<bookVars, arriving, matches>>
  BY <1>2 DEF FillNext
<1>5. PICK t \in Nat : t = takerId /\ t # m
  BY <1>2 DEF IInv, C!IInv, C!TypeOK, PartiesFill
<1>6. PICK k \in Amounts : <<g, k>> \in FillOf(t, m) /\ <<k, a>> \in MatchOf(t, Tail(makers))
  <2>1. makers \in Seq(Nat)
    BY DEF IInv, OrdersTyped
  <2> QED BY <1>2, <1>3, <1>5, <2>1, MatchHead
<1>7. PICK p : p = Lesser(g[t], g[m])
  OBVIOUS
<1>8. /\ g[t] \in Nat \ {0} /\ g[m] \in Nat \ {0}
      /\ k[t] = g[t] - p /\ k[m] = g[m] - p
      /\ \A i \in Nat \ {t, m} : k[i] = g[i]
  <2>1. /\ g[t] > 0 /\ g[m] > 0
        /\ k[t] = g[t] - Lesser(g[t], g[m])
        /\ k[m] = g[m] - Lesser(g[t], g[m])
        /\ \A i \in Nat \ {t, m} : k[i] = g[i]
    BY <1>6, FillPair
  <2> QED BY <1>7, <2>1 DEF Amounts
<1>9. p \in Nat \ {0} /\ p <= g[t] /\ p <= g[m]
  BY <1>7, <1>8 DEF Lesser
<1>10. /\ RecordsOK(wOrders) /\ RecordsOK(wOrders') /\ DOMAIN wOrders' = DOMAIN wOrders
       /\ owed[FirstToken] \in Nat /\ owed[SecondToken] \in Nat
       /\ owed'[FirstToken] \in Nat /\ owed'[SecondToken] \in Nat
       /\ balance[FirstToken] \in Nat /\ balance[SecondToken] \in Nat
       /\ balance' = balance /\ takerId' = t
       /\ t \in DOMAIN wOrders /\ m \in DOMAIN wOrders
       /\ \A id \in DOMAIN wOrders \ {t, m} : wOrders'[id] = wOrders[id]
  <2>1. IsFiniteSet(DOMAIN wOrders')
    BY <1>2, RecordFacts DEF PartiesFill, RecordsOK
  <2>2. owed'[FirstToken] \in Nat /\ owed'[SecondToken] \in Nat
    BY DEF IInv, C!IInv, C!TypeOK
  <2> QED BY <1>2, <1>5, <2>1, <2>2, RecordFacts, RecordsFollow DEF PartiesFill, IInv
<1>11. EngineQuantity(wOrders[t]) = g[t] /\ EngineQuantity(wOrders[m]) = g[m]
  BY <1>3, <1>8, <1>10 DEF ContractHolds
<1>12. Leaves(wOrders[t], wOrders'[t], p) /\ Leaves(wOrders[m], wOrders'[m], p)
  BY <1>2, <1>5, <1>7, <1>11, FillLeaves
<1>13. ContractHolds(k)'
  <2> SUFFICES ASSUME NEW id \in DOMAIN wOrders, k[id] > 0
               PROVE  EngineQuantity(wOrders'[id]) = k[id]
    BY <1>10 DEF ContractHolds
  <2>1. CASE id \in {t, m}
    BY <1>8, <1>9, <1>11, <1>12, <2>1 DEF Leaves
  <2>2. CASE id \notin {t, m}
    <3>1. id \in Nat /\ k[id] = g[id] /\ wOrders'[id] = wOrders[id]
      BY <1>8, <1>10, <2>2 DEF RecordsOK
    <3> QED BY <1>3, <3>1 DEF ContractHolds
  <2> QED BY <2>1, <2>2
<1>14. Covered(k)'
  <2> SUFFICES ASSUME ~short, Contract!Funded(m)
               PROVE  /\ Held(wOrders', k, "Sell") + owed'[FirstToken] <= balance[FirstToken]
                      /\ Held(wOrders', k, "Buy") + owed'[SecondToken] <= balance[SecondToken]
    BY <1>4, <1>10 DEF Covered
  <2>1. /\ Held(wOrders, g, "Sell") + owed[FirstToken] <= balance[FirstToken]
        /\ Held(wOrders, g, "Buy") + owed[SecondToken] <= balance[SecondToken]
    BY <1>3 DEF Covered
  <2>2. \A type : Held(wOrders, g, type) \in Nat /\ Held(wOrders', k, type) \in Nat
    BY <1>10, HeldTyped
  <2>3. /\ wOrders[t].input \in Nat /\ wOrders'[t].input \in Nat
        /\ wOrders'[t].input <= wOrders[t].input
        /\ wOrders[m].input \in Nat /\ wOrders'[m].input \in Nat
        /\ wOrders'[m].input <= wOrders[m].input
    BY <1>2, <1>5, <1>10 DEF RecordsOK, PartiesFill, C!KeepsTerms
  <2>4. /\ wOrders[t].type \in {"Buy", "Sell"} /\ wOrders[m].type \in {"Buy", "Sell"}
        /\ wOrders[t].type # wOrders[m].type
        /\ taker = wOrders[t] /\ taker' = wOrders'[t]
    BY <1>2, <1>5 DEF PartiesFill
  <2>5. \A id \in DOMAIN wOrders : wOrders'[id].type = wOrders[id].type
    BY <1>2, <1>5, <1>10 DEF PartiesFill, C!KeepsTerms
  <2>6. \A id \in DOMAIN wOrders \ {t, m} : Deposits(wOrders', k)[id] = Deposits(wOrders, g)[id]
    BY <1>8, <1>10 DEF Deposits, RecordsOK
  <2>7. ASSUME NEW x \in {t, m}
        PROVE  /\ Contract!Spent(wOrders[x], wOrders'[x]) \in Nat
               /\ Held(wOrders', k, wOrders[x].type) + Contract!Spent(wOrders[x], wOrders'[x])
                    <= Held(wOrders, g, wOrders[x].type)
    <3>1. OneOfType(wOrders, wOrders', g, k, x)
      BY <1>10, <2>4, <2>5, <2>6 DEF OneOfType
    <3>2. Held(wOrders', k, wOrders[x].type)
            = Held(wOrders, g, wOrders[x].type) + Deposits(wOrders', k)[x] - Deposits(wOrders, g)[x]
      BY <1>10, <3>1, HeldChange
    <3>3. /\ Deposits(wOrders, g)[x] = wOrders[x].input
          /\ Deposits(wOrders', k)[x] = IF EngineQuantity(wOrders[x]) - p > 0 THEN wOrders'[x].input ELSE 0
      BY <1>8, <1>10, <1>11 DEF Deposits
    <3>4. /\ Contract!Spent(wOrders[x], wOrders'[x]) \in Nat
          /\ Deposits(wOrders', k)[x] + Contract!Spent(wOrders[x], wOrders'[x]) <= wOrders[x].input
      BY <1>8, <1>9, <1>11, <1>12, <2>3, <3>3, SpentLeaves
    <3>5. Deposits(wOrders', k)[x] \in Nat
      BY <1>10, DepositsTyped
    <3> QED BY <2>2, <2>3, <3>2, <3>3, <3>4, <3>5
  <2>8. CASE taker.type = "Sell"
    <3>1. wOrders[t].type = "Sell" /\ wOrders[m].type = "Buy"
      BY <2>4, <2>8
    <3>2. /\ owed'[FirstToken] - owed[FirstToken] <= Contract!Spent(wOrders[t], wOrders'[t])
          /\ owed'[SecondToken] - owed[SecondToken] <= Contract!Spent(wOrders[m], wOrders'[m])
      BY <2>4, <2>8 DEF Contract!Funded
    <3>3. /\ Contract!Spent(wOrders[t], wOrders'[t]) \in Nat
          /\ Held(wOrders', k, "Sell") + Contract!Spent(wOrders[t], wOrders'[t]) <= Held(wOrders, g, "Sell")
      BY <2>7, <3>1
    <3>4. /\ Contract!Spent(wOrders[m], wOrders'[m]) \in Nat
          /\ Held(wOrders', k, "Buy") + Contract!Spent(wOrders[m], wOrders'[m]) <= Held(wOrders, g, "Buy")
      BY <2>7, <3>1
    <3> QED BY <1>10, <2>1, <2>2, <3>2, <3>3, <3>4
  <2>9. CASE taker.type # "Sell"
    <3>1. wOrders[t].type = "Buy" /\ wOrders[m].type = "Sell"
      BY <2>4, <2>9
    <3>2. /\ owed'[SecondToken] - owed[SecondToken] <= Contract!Spent(wOrders[t], wOrders'[t])
          /\ owed'[FirstToken] - owed[FirstToken] <= Contract!Spent(wOrders[m], wOrders'[m])
      BY <2>4, <2>9 DEF Contract!Funded
    <3>3. /\ Contract!Spent(wOrders[t], wOrders'[t]) \in Nat
          /\ Held(wOrders', k, "Buy") + Contract!Spent(wOrders[t], wOrders'[t]) <= Held(wOrders, g, "Buy")
      BY <2>7, <3>1
    <3>4. /\ Contract!Spent(wOrders[m], wOrders'[m]) \in Nat
          /\ Held(wOrders', k, "Sell") + Contract!Spent(wOrders[m], wOrders'[m]) <= Held(wOrders, g, "Sell")
      BY <2>7, <3>1
    <3> QED BY <1>10, <2>1, <2>2, <3>2, <3>3, <3>4
  <2> QED BY <2>8, <2>9
<1>15. BookHolds(h)' /\ Makers' = Makers /\ call' = call
  BY <1>3, <1>4 DEF BookHolds, bookVars, Makers, DoneMakers, PartialMaker
<1>16. Behind(k, a, b, h)'
  BY <1>3, <1>4, <1>6, <1>10, <1>13, <1>14, <1>15 DEF Behind
<1> QED BY <1>16

----------------------------------------------------------------------------
(* Both parties of the next fill have something left, and what is to be    *)
(* paid out is there: a transaction fails only after a fill that was short.*)
LEMMA FailShort ==
  ASSUME IInv, LInv, Fail
  PROVE  short
<1> SUFFICES ASSUME ~short PROVE FALSE
  OBVIOUS
<1>1. PICK g \in Amounts, a \in Amounts, b \in Amounts, h \in Amounts : Behind(g, a, b, h)
  BY DEF LInv, Ledger, MatchesExecute
<1>2. ContractHolds(g) /\ Covered(g) /\ <<g, a>> \in MatchOf(takerId, makers)
  BY <1>1 DEF Behind
<1>3. CASE makers = <<>>
  <2>1. owed[FirstToken] > balance[FirstToken] \/ owed[SecondToken] > balance[SecondToken]
    BY <1>3 DEF Fail
  <2>2. \A type : Held(wOrders, g, type) \in Nat
    BY RecordFacts, HeldTyped
  <2> QED BY <1>2, <2>1, <2>2, RecordFacts DEF Covered
<1>4. CASE makers # <<>>
  <2>1. makers \in Seq(Nat) /\ takerId \in Nat
    BY DEF IInv, OrdersTyped, C!IInv, C!TypeOK
  <2>2. PICK k \in Amounts : <<g, k>> \in FillOf(takerId, Head(makers))
    BY <1>2, <1>4, <2>1, MatchHead
  <2>3. Head(makers) \in Nat /\ 1 \in DOMAIN makers /\ Head(makers) = makers[1]
    BY <1>4, <2>1
  <2>4. g[takerId] > 0 /\ g[Head(makers)] > 0
    BY <2>1, <2>2, <2>3, FillPair
  <2>5. /\ tx = "match" /\ taker = wOrders[takerId]
        /\ takerId \in DOMAIN wOrders /\ Head(makers) \in DOMAIN wOrders
        /\ wOrders[takerId].type # wOrders[Head(makers)].type
    <3>1. tx = "match"
      BY DEF Fail
    <3>2. Opposed(takerId, Head(makers)) /\ taker = wOrders[takerId]
      BY <2>3, <3>1 DEF IInv, MakersOpposed
    <3> QED BY <3>1, <3>2, Parties DEF IInv, Opposed
  <2>6. EngineQuantity(wOrders[takerId]) > 0 /\ EngineQuantity(wOrders[Head(makers)]) > 0
    BY <1>2, <2>4, <2>5 DEF ContractHolds
  <2>7. IF taker.type = "Sell" THEN taker.input = 0 ELSE taker.output = 0
    BY <1>4 DEF Fail
  <2>8. wOrders[takerId] \in C!Order
    <3>1. C!TypeOK
      BY DEF IInv, C!IInv
    <3>2. wOrders \in [DOMAIN wOrders -> C!Order]
      BY <3>1 DEF C!TypeOK
    <3> QED BY <2>5, <3>2
  <2>9. taker.type \in {"Buy", "Sell"}
    BY <2>5, <2>8 DEF C!Order, C!OrderType
  <2>10. EngineQuantity(taker) > 0
    BY <2>5, <2>6
  <2> QED BY <2>7, <2>9, <2>10 DEF EngineQuantity
<1> QED BY <1>3, <1>4

LEMMA LedgerKeeps ==
  ASSUME IInv, LInv, IInv', [Next]_vars
  PROVE  Ledger'
<1>1. CASE Fail
  BY <1>1 DEF Fail, Ledger
<1>2. CASE BookStep
  BY <1>2, MatchHeadKeeps, ReturnKeeps DEF BookStep
<1>3. CASE UNCHANGED vars
  <2>1. Makers' = Makers
    BY <1>3 DEF vars, bookVars, Makers, DoneMakers, PartialMaker
  <2>2. ASSUME NEW g \in Amounts, NEW a \in Amounts, NEW b \in Amounts, NEW h \in Amounts,
               Behind(g, a, b, h)
        PROVE  Behind(g, a, b, h)'
    BY <1>3, <2>1, <2>2 DEF Behind, ContractHolds, Covered, BookHolds, vars, bookVars, contractVars
  <2> QED BY <1>3, <2>2 DEF LInv, Ledger, vars
<1> QED BY <1>1, <1>2, <1>3, PlaceKeeps, ArriveKeeps, SubmitKeeps, ExecuteKeeps,
       FillKeeps, CommitKeeps DEF Next

LEMMA ArrivalsKeep ==
  ASSUME IInv, LInv, [Next]_vars
  PROVE  ArrivalsNew'
<1>1. /\ arriving \in Seq(Arrival) /\ Len(arriving) \in Nat /\ DOMAIN arriving = 1..Len(arriving)
  BY LenProperties DEF IInv, OrdersTyped
<1>2. ArrivalsNew
  BY DEF LInv
<1>3. ASSUME NEW u \in User, NEW type \in {"Buy", "Sell"}, NEW input \in Amount,
             NEW output \in Amount, Place(u, type, input, output)
      PROVE  ArrivalsNew'
  <2> DEFINE new == [id |-> orderIdCounter,
                     order |-> [type |-> type, input |-> input, output |-> output]]
  <2>1. arriving' = Append(arriving, new) /\ UNCHANGED bookVars
    BY <1>3 DEF Place
  <2>2. orderIdCounter \notin DOMAIN orders
    BY RecordFacts
  <2>3. /\ \A id \in DOMAIN bookOrders : id # orderIdCounter
        /\ \A i \in DOMAIN arriving : arriving[i].id # orderIdCounter
        /\ pc # "idle" => call.id # orderIdCounter
    BY <2>2 DEF IInv, RestingStand, ArrivingStand, CallStands, Stands
  <2>4. new.id = orderIdCounter
    OBVIOUS
  <2> HIDE DEF new
  <2>5. ASSUME NEW i \in DOMAIN arriving'
        PROVE  \/ i = Len(arriving) + 1 /\ arriving'[i] = new
               \/ i \in DOMAIN arriving /\ arriving'[i] = arriving[i]
    <3>1. i \in 1..(Len(arriving) + 1)
      BY <1>1, <2>1
    <3> QED BY <1>1, <2>1, <3>1
  <2> QED BY <1>2, <2>1, <2>3, <2>4, <2>5 DEF ArrivalsNew, bookVars
<1>4. CASE Arrive
  <2>1. /\ arriving # <<>> /\ arriving' = Tail(arriving) /\ call'.id = Head(arriving).id
        /\ bookOrders' = bookOrders
    BY <1>4 DEF Arrive, Book!ProcessLimitOrder, Book!Enter, Book!book
  <2>2. /\ 1 \in DOMAIN arriving /\ arriving[1] = Head(arriving)
        /\ \A i \in DOMAIN arriving' :
             i \in Nat \ {0} /\ i + 1 \in DOMAIN arriving /\ arriving'[i] = arriving[i + 1]
    BY <1>1, <2>1
  <2> QED BY <1>2, <2>1, <2>2 DEF ArrivalsNew
<1>5. CASE BookStep
  <2>1. CASE Book!MatchHead
    <3>1. /\ UNCHANGED <<pc, call, arriving>>
          /\ \A id \in DOMAIN bookOrders' : id \in DOMAIN bookOrders
      BY <1>5, <2>1, HeadOpposed DEF BookStep, IInv
    <3> QED BY <1>2, <3>1 DEF ArrivalsNew
  <2>2. CASE Book!RestRemainder
    <3>1. /\ pc = "matching" /\ pc' = "returned" /\ arriving' = arriving
          /\ DOMAIN bookOrders' = DOMAIN bookOrders \cup {call.id}
      BY <1>5, <2>2 DEF BookStep, Book!RestRemainder, Book!SideAppend
    <3> QED BY <1>2, <3>1 DEF ArrivalsNew
  <2>3. CASE Book!ReportTaker
    <3>1. pc' = "returned" /\ arriving' = arriving /\ bookOrders' = bookOrders
      BY <1>5, <2>3 DEF BookStep, Book!ReportTaker, Book!book
    <3> QED BY <1>2, <3>1 DEF ArrivalsNew
  <2> QED BY <1>5, <2>1, <2>2, <2>3 DEF BookStep
<1>6. CASE Submit
  <2>1. pc' = "idle" /\ arriving' = arriving /\ bookOrders' = bookOrders
    BY <1>6 DEF Submit, Book!Return, Book!book
  <2> QED BY <1>2, <2>1 DEF ArrivalsNew
<1>7. CASE Execute \/ FillNext \/ Commit \/ Fail \/ UNCHANGED vars
  <2>1. UNCHANGED <<arriving, bookOrders, pc, call>>
    BY <1>7 DEF Execute, FillNext, Commit, Fail, vars, bookVars
  <2> QED BY <1>2, <2>1 DEF ArrivalsNew
<1> QED BY <1>3, <1>4, <1>5, <1>6, <1>7 DEF Next

LEMMA IdleKeeps ==
  ASSUME IInv, LInv, [Next]_vars
  PROVE  MakersIdle' /\ LimitOrders' /\ MatchesExecute'
<1>1. MakersIdle /\ LimitOrders /\ MatchesExecute
  BY DEF LInv
<1>2. ASSUME NEW u \in User, NEW type \in {"Buy", "Sell"}, NEW input \in Amount,
             NEW output \in Amount, Place(u, type, input, output)
      PROVE  MakersIdle' /\ LimitOrders' /\ MatchesExecute'
  BY <1>1, <1>2 DEF Place, Contract!CreateOrder, bookVars, MakersIdle, LimitOrders, MatchesExecute
<1>3. CASE Arrive
  BY <1>1, <1>3 DEF Arrive, Book!ProcessLimitOrder, Book!Enter, contractVars,
     MakersIdle, LimitOrders, MatchesExecute
<1>4. CASE BookStep
  <2>1. (pc' = "matching" => pc = "matching") /\ call' = call
    BY <1>4, HeadOpposed DEF BookStep, IInv, Book!RestRemainder, Book!ReportTaker
  <2> QED BY <1>1, <1>4, <2>1 DEF BookStep, contractVars, MakersIdle, LimitOrders, MatchesExecute
<1>5. CASE Submit
  BY <1>1, <1>5 DEF Submit, Book!Return, contractVars, MakersIdle, LimitOrders, MatchesExecute
<1>6. CASE Execute
  BY <1>1, <1>6 DEF Execute, Contract!BeginMatch, bookVars, MakersIdle, LimitOrders, MatchesExecute
<1>7. CASE FillNext
  BY <1>1, <1>7 DEF FillNext, Contract!MatchMaker, bookVars, MakersIdle, LimitOrders, MatchesExecute
<1>8. CASE Commit
  BY <1>1, <1>8 DEF Commit, bookVars, MakersIdle, LimitOrders, MatchesExecute
<1>9. CASE Fail
  <2>1. short
    BY <1>9, FailShort
  <2> QED BY <1>1, <1>9, <2>1 DEF Fail, bookVars, MakersIdle, LimitOrders, MatchesExecute
<1>10. CASE UNCHANGED vars
  BY <1>1, <1>10 DEF vars, contractVars, bookVars, MakersIdle, LimitOrders, MatchesExecute
<1> QED BY <1>2, <1>3, <1>4, <1>5, <1>6, <1>7, <1>8, <1>9, <1>10 DEF Next

(* The contract is behind the book by exactly the fills in flight, in the  *)
(* order the book made them, and it has the deposits of what is left.      *)
THEOREM LedgerInvariance == Spec => []LInv
<1>1. IInv /\ LInv /\ IInv' /\ [Next]_vars => LInv'
  <2> SUFFICES ASSUME IInv, LInv, IInv', [Next]_vars PROVE LInv'
    OBVIOUS
  <2> QED BY LedgerKeeps, ArrivalsKeep, IdleKeeps DEF LInv
<1> QED BY <1>1, LedgerStarts, Invariance, PTL DEF Spec

----------------------------------------------------------------------------
(* With nothing outstanding the two views of the quantities are the same.  *)
LEMMA SettledViews ==
  ASSUME IInv, LInv, Settled, ~reverted
  PROVE  /\ wOrders = orders /\ owed = Contract!Nothing
         /\ \E g \in Amounts : ContractHolds(g) /\ Covered(g) /\ BookHolds(g)
<1>1. PICK g \in Amounts, a \in Amounts, b \in Amounts, h \in Amounts : Behind(g, a, b, h)
  BY DEF LInv, Ledger
<1>2. makers = <<>> /\ matches = <<>> /\ Makers = <<>> /\ tx = "none"
  BY NoMakersIdle DEF Settled, LInv, MakersIdle, IInv
<1>3. g = a /\ a = b /\ b = h
  BY <1>1, <1>2, MatchEmpty, QueueEmpty DEF Behind
<1> QED BY <1>1, <1>2, <1>3, RecordFacts DEF Behind

LEMMA RestingRecorded ==
  ASSUME IInv, NEW id \in DOMAIN bookOrders
  PROVE  /\ id \in DOMAIN orders /\ EngineSide(orders[id]) = bookOrders[id].side
         /\ bookOrders[id].quantity > 0
<1>1. bookOrders[id] \in B!Order
  BY DEF IInv, B!IInv, B!BookOK, B!BookTypeOK
<1> QED BY <1>1 DEF IInv, RestingStand, Stands, B!Order

(* While no match has failed and none is outstanding, an order rests in the*)
(* book with exactly the base amount that its record on the contract has.  *)
THEOREM QuantitiesAgree == Spec => []BookAgrees
<1>1. IInv /\ LInv => BookAgrees
  <2> SUFFICES ASSUME IInv, LInv, Settled, ~reverted, NEW id \in DOMAIN bookOrders
               PROVE  /\ EngineQuantity(orders[id]) = bookOrders[id].quantity
                      /\ EngineSide(orders[id]) = bookOrders[id].side
    BY DEF BookAgrees
  <2>1. PICK g \in Amounts : ContractHolds(g) /\ BookHolds(g)
    BY SettledViews
  <2> QED BY <2>1, SettledViews, RestingRecorded DEF ContractHolds, BookHolds
<1> QED BY <1>1, Invariance, LedgerInvariance, PTL

(* As long as no fill was short, the contract holds the whole deposit of   *)
(* every order that rests in the book.                                     *)
THEOREM DepositsCovered == Spec => []RestingCovered
<1>1. IInv /\ LInv => RestingCovered
  <2> SUFFICES ASSUME IInv, LInv, Settled, ~short PROVE RestingCovered
    BY DEF RestingCovered
  <2> DEFINE deposit == [id \in DOMAIN orders |-> orders[id].input]
             resting(type) == {id \in DOMAIN bookOrders : orders[id].type = type}
  <2>1. ~reverted
    BY DEF LInv, MatchesExecute
  <2>2. PICK g \in Amounts : ContractHolds(g) /\ Covered(g) /\ BookHolds(g)
    BY <2>1, SettledViews
  <2>3. wOrders = orders /\ owed = Contract!Nothing /\ RecordsOK(orders)
    BY <2>1, SettledViews, RecordFacts
  <2>4. ASSUME NEW type
        PROVE  SumFunctionOnSet(deposit, resting(type)) <= Held(orders, g, type)
    <3> DEFINE f == Deposits(orders, g)
               R == resting(type)
               S == OfType(orders, type)
    <3>1. IsFiniteSet(S) /\ \A id \in S : f[id] \in Nat
      BY <2>3, DepositsTyped
    <3>2. R \subseteq S
      BY RestingRecorded DEF OfType
    <3>3. \A id \in R : deposit[id] = f[id]
      BY <2>2, RestingRecorded DEF Deposits, BookHolds
    <3>4. IsFiniteSet(R)
      BY <3>1, <3>2, FS_Subset
    <3> HIDE DEF f, R, S, deposit
    <3>5. SumFunctionOnSet(deposit, R) = SumFunctionOnSet(f, R)
      BY <3>3, <3>4, SumSame
    <3>6. SumFunctionOnSet(f, R) <= SumFunctionOnSet(f, S)
      BY <3>1, <3>2, SumSubset
    <3> QED BY <3>5, <3>6 DEF Held, f, R, S
  <2>5. /\ \A type : Held(orders, g, type) \in Nat
        /\ Held(orders, g, "Sell") <= balance[FirstToken]
        /\ Held(orders, g, "Buy") <= balance[SecondToken]
    <3>1. \A type : Held(orders, g, type) \in Nat
      BY <2>3, HeldTyped
    <3>2. owed[FirstToken] = 0 /\ owed[SecondToken] = 0
      BY <2>3 DEF Contract!Nothing
    <3> QED BY <2>2, <2>3, <3>1, <3>2 DEF Covered
  <2>6. \A type : SumFunctionOnSet(deposit, resting(type)) \in Int
    <3> SUFFICES ASSUME NEW type PROVE SumFunctionOnSet(deposit, resting(type)) \in Int
      OBVIOUS
    <3>1. resting(type) \subseteq DOMAIN orders
      BY RestingRecorded
    <3>2. IsFiniteSet(resting(type)) /\ \A id \in resting(type) : deposit[id] \in Int
      BY <2>3, <3>1, FS_Subset DEF RecordsOK
    <3> HIDE DEF resting, deposit
    <3> QED BY <3>2, SumType
  <2>7. balance[FirstToken] \in Nat /\ balance[SecondToken] \in Nat
    BY RecordFacts
  <2>8. /\ SumFunctionOnSet(deposit, resting("Sell")) <= balance[FirstToken]
        /\ SumFunctionOnSet(deposit, resting("Buy")) <= balance[SecondToken]
    <3> HIDE DEF deposit, resting
    <3> QED BY <2>4, <2>5, <2>6, <2>7
  <2> QED BY <2>8 DEF RestingCovered
<1> QED BY <1>1, Invariance, LedgerInvariance, PTL

(* A match of the book fails on the contract only after a fill that paid   *)
(* out more than its two orders gave up.                                   *)
THEOREM FailuresShort == Spec => []MatchesExecute
<1>1. LInv => MatchesExecute
  BY DEF LInv
<1> QED BY <1>1, LedgerInvariance, PTL
=============================================================================
