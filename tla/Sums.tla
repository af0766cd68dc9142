-------------------------------- MODULE Sums --------------------------------
(***************************************************************************)
(* Sums over finite sets, for the proofs about volumes and balances: what  *)
(* SumFunctionOnSet of the module Functions yields.  It is defined by a    *)
(* recursive function on the subsets of the set, so every fact about it    *)
(* starts with there being such a function.                                *)
(***************************************************************************)
EXTENDS Integers, FiniteSets, Functions, FiniteSetTheorems,
        WellFoundedInduction, TLAPS

(* Induction on finite sets: a set of subsets of S that contains a set     *)
(* whenever it contains all its strict subsets contains S.                 *)
LEMMA SubsetInduction ==
  ASSUME NEW S, IsFiniteSet(S), NEW F,
         \A T \in SUBSET S : (\A U \in SUBSET T : U # T => U \in F) => T \in F
  PROVE  S \in F
<1> DEFINE bad == (SUBSET S) \ F
<1>1. IsWellFoundedOn(StrictSubsetOrdering(S), SUBSET S)
  BY FS_StrictSubsetOrderingWellFounded, FS_FiniteSubsetsOfFinite
<1>2. SUFFICES ASSUME bad # {} PROVE FALSE
  OBVIOUS
<1> HIDE DEF bad
<1>3. bad \subseteq SUBSET S /\ bad # {}
  BY <1>2 DEF bad
<1>4. PICK T \in bad : \A U \in bad : ~(<<U, T>> \in StrictSubsetOrdering(S))
  BY <1>1, <1>3, WFMin
<1>5. \A U \in SUBSET T : U # T => U \in F
  BY <1>3, <1>4 DEF StrictSubsetOrdering, bad
<1> QED BY <1>4, <1>5 DEF bad

----------------------------------------------------------------------------
(* The recursive function behind a sum.                                    *)
Pick(T) == CHOOSE x \in T : TRUE
SumStep(g, f, T) == IF T = {} THEN 0 ELSE f[Pick(T)] + g[T \ {Pick(T)}]
Sums(g, f, S) == g = [T \in SUBSET S |-> SumStep(g, f, T)]

LEMMA PickIn ==
  ASSUME NEW T, T # {}
  PROVE  Pick(T) \in T
BY DEF Pick

LEMMA SumsUnique ==
  ASSUME NEW f, NEW S, NEW R, NEW g, NEW h, Sums(g, f, S), Sums(h, f, R),
         NEW T, T \subseteq S, T \subseteq R, IsFiniteSet(T)
  PROVE  g[T] = h[T]
<1> DEFINE F == {U \in SUBSET T : g[U] = h[U]}
<1>1. ASSUME NEW U \in SUBSET T, \A V \in SUBSET U : V # U => V \in F
      PROVE  U \in F
  <2>1. g[U] = SumStep(g, f, U) /\ h[U] = SumStep(h, f, U)
    BY DEF Sums
  <2>2. CASE U = {}
    BY <2>1, <2>2 DEF SumStep
  <2>3. CASE U # {}
    <3>1. U \ {Pick(U)} \in F
      BY <1>1, <2>3, PickIn
    <3> QED BY <2>1, <2>3, <3>1 DEF SumStep
  <2> QED BY <2>2, <2>3
<1> HIDE DEF F
<1>2. T \in F
  BY <1>1, SubsetInduction
<1> QED BY <1>2 DEF F

LEMMA SumsExist ==
  ASSUME NEW f, NEW S, IsFiniteSet(S)
  PROVE  \E g : Sums(g, f, S)
<1> DEFINE F == {T \in SUBSET S : \E g : Sums(g, f, T)}
<1>1. ASSUME NEW T \in SUBSET S, \A U \in SUBSET T : U # T => U \in F
      PROVE  T \in F
  <2> DEFINE of(U) == CHOOSE g : Sums(g, f, U)
             below == [U \in SUBSET T |-> IF U = T THEN 0 ELSE of(U)[U]]
             g == [U \in SUBSET T |-> SumStep(below, f, U)]
  <2>1. \A U \in SUBSET T : U # T => Sums(of(U), f, U)
    BY <1>1
  <2>2. \A U \in SUBSET T : IsFiniteSet(U)
    BY FS_Subset
  <2>3. ASSUME NEW U \in SUBSET T, U # T
        PROVE  g[U] = below[U]
    <3>1. g[U] = SumStep(below, f, U) /\ below[U] = of(U)[U]
      BY <2>3
    <3>2. of(U)[U] = SumStep(of(U), f, U)
      BY <2>1, <2>3 DEF Sums
    <3>3. CASE U = {}
      BY <3>1, <3>2, <3>3 DEF SumStep
    <3>4. CASE U # {}
      <4> DEFINE V == U \ {Pick(U)}
      <4>1. V \in SUBSET U /\ V # T /\ V \in SUBSET T
        BY <2>3, <3>4, PickIn
      <4>2. Sums(of(U), f, U) /\ Sums(of(V), f, V) /\ IsFiniteSet(V)
        BY <2>1, <2>2, <2>3, <4>1
      <4> HIDE DEF V, of
      <4>3. of(U)[V] = of(V)[V]
        BY <4>1, <4>2, SumsUnique
      <4>4. below[V] = of(V)[V]
        BY <4>1
      <4> QED BY <3>1, <3>2, <3>4, <4>3, <4>4 DEF SumStep, V
    <3> QED BY <3>3, <3>4
  <2>4. ASSUME NEW U \in SUBSET T
        PROVE  SumStep(below, f, U) = SumStep(g, f, U)
    <3>1. CASE U = {}
      BY <3>1 DEF SumStep
    <3>2. CASE U # {}
      <4>1. U \ {Pick(U)} \in SUBSET T /\ U \ {Pick(U)} # T
        BY <3>2, PickIn
      <4> HIDE DEF g, below
      <4> QED BY <2>3, <3>2, <4>1 DEF SumStep
    <3> QED BY <3>1, <3>2
  <2>5. Sums(g, f, T)
    <3> HIDE DEF below
    <3>1. g = [U \in SUBSET T |-> SumStep(below, f, U)]
      OBVIOUS
    <3> HIDE DEF g
    <3> QED BY <2>4, <3>1 DEF Sums
  <2> HIDE DEF g
  <2> QED BY <2>5
<1> HIDE DEF F
<1>2. S \in F
  BY <1>1, SubsetInduction
<1> QED BY <1>2 DEF F

LEMMA SumIs ==
  ASSUME NEW f, NEW S, IsFiniteSet(S)
  PROVE  \E g : Sums(g, f, S) /\ SumFunctionOnSet(f, S) = g[S]
<1> DEFINE g == CHOOSE h : h = [T \in SUBSET S |->
                                  IF T = {} THEN 0
                                  ELSE f[CHOOSE x \in T : TRUE] + h[T \ {CHOOSE x \in T : TRUE}]]
<1>0. PICK k : Sums(k, f, S)
  BY SumsExist
<1>1. SumFunctionOnSet(f, S) = g[S]
  BY DEF SumFunctionOnSet, FoldFunctionOnSet, MapThenFoldSet
<1>2. \E h : h = [T \in SUBSET S |->
                    IF T = {} THEN 0
                    ELSE f[CHOOSE x \in T : TRUE] + h[T \ {CHOOSE x \in T : TRUE}]]
  BY <1>0 DEF Sums, SumStep, Pick
<1>3. Sums(g, f, S)
  BY <1>2 DEF Sums, SumStep, Pick
<1> QED BY <1>1, <1>3

----------------------------------------------------------------------------
(* What the sum over a finite set is, however its elements are chosen.     *)
LEMMA SumEmpty ==
  ASSUME NEW f
  PROVE  SumFunctionOnSet(f, {}) = 0
<1>1. PICK g : Sums(g, f, {}) /\ SumFunctionOnSet(f, {}) = g[{}]
  BY SumIs, FS_EmptySet
<1> QED BY <1>1 DEF Sums, SumStep

LEMMA SumChosen ==
  ASSUME NEW f, NEW S, IsFiniteSet(S), S # {}
  PROVE  SumFunctionOnSet(f, S) =
           f[Pick(S)] + SumFunctionOnSet(f, S \ {Pick(S)})
<1> DEFINE R == S \ {Pick(S)}
<1>1. IsFiniteSet(R) /\ R \subseteq S
  BY FS_Subset
<1> HIDE DEF R
<1>2. PICK g : Sums(g, f, S) /\ SumFunctionOnSet(f, S) = g[S]
  BY SumIs
<1>3. PICK h : Sums(h, f, R) /\ SumFunctionOnSet(f, R) = h[R]
  BY <1>1, SumIs
<1>4. g[R] = h[R]
  BY <1>1, <1>2, <1>3, SumsUnique
<1>5. g[S] = f[Pick(S)] + g[R]
  BY <1>2 DEF Sums, SumStep, R
<1> QED BY <1>2, <1>3, <1>4, <1>5 DEF R

LEMMA SumType ==
  ASSUME NEW f, NEW S, IsFiniteSet(S), \A x \in S : f[x] \in Int
  PROVE  SumFunctionOnSet(f, S) \in Int
<1> DEFINE F == {T \in SUBSET S : SumFunctionOnSet(f, T) \in Int}
<1>1. ASSUME NEW T \in SUBSET S, \A U \in SUBSET T : U # T => U \in F
      PROVE  T \in F
  <2>1. CASE T = {}
    BY <2>1, SumEmpty
  <2>2. CASE T # {}
    <3>1. T \ {Pick(T)} \in F /\ Pick(T) \in S
      BY <1>1, <2>2, PickIn
    <3>2. SumFunctionOnSet(f, T) = f[Pick(T)] + SumFunctionOnSet(f, T \ {Pick(T)})
      BY <2>2, SumChosen, FS_Subset
    <3> QED BY <3>1, <3>2
  <2> QED BY <2>1, <2>2
<1> HIDE DEF F
<1>2. S \in F
  BY <1>1, SubsetInduction
<1> QED BY <1>2 DEF F

LEMMA SumTake ==
  ASSUME NEW f, NEW S, IsFiniteSet(S), \A x \in S : f[x] \in Int, NEW x \in S
  PROVE  SumFunctionOnSet(f, S) = f[x] + SumFunctionOnSet(f, S \ {x})
<1> DEFINE Sum(T) == SumFunctionOnSet(f, T)
           F == {T \in SUBSET S : \A y \in T : Sum(T) = f[y] + Sum(T \ {y})}
<1>1. ASSUME NEW T \in SUBSET S, \A U \in SUBSET T : U # T => U \in F,
             NEW y \in T
      PROVE  Sum(T) = f[y] + Sum(T \ {y})
  <2> DEFINE z == Pick(T)
  <2>1. z \in T /\ Sum(T) = f[z] + Sum(T \ {z})
    BY PickIn, SumChosen, FS_Subset
  <2>2. CASE y = z
    BY <2>1, <2>2
  <2>3. CASE y # z
    <3> DEFINE Y == T \ {y}
               Z == T \ {z}
               W == (T \ {y}) \ {z}
    <3>0. W = (T \ {z}) \ {y}
      OBVIOUS
    <3>1. Y \in F /\ Z \in F /\ z \in Y /\ y \in Z
      <4>1. Y \in SUBSET T /\ Z \in SUBSET T /\ Y # T /\ Z # T
        BY <2>1
      <4>2. Y \in F /\ Z \in F
        <5> HIDE DEF F, Y, Z
        <5> QED BY <1>1, <4>1
      <4> QED BY <2>1, <2>3, <4>2
    <3>2. Sum(Y) = f[z] + Sum(W) /\ Sum(Z) = f[y] + Sum(W)
      <4> HIDE DEF Sum
      <4> QED BY <3>0, <3>1
    <3>3. Sum(W) \in Int /\ f[y] \in Int /\ f[z] \in Int
      <4> HIDE DEF z
      <4>1. IsFiniteSet(W) /\ W \subseteq S
        BY FS_Subset
      <4> QED BY <2>1, <4>1, SumType
    <3> HIDE DEF Sum, W, Y, Z, z
    <3>4. Sum(T) = f[z] + Sum(Z)
      BY <2>1 DEF Z
    <3> QED BY <3>2, <3>3, <3>4 DEF Y
  <2> QED BY <2>2, <2>3
<1>2. ASSUME NEW T \in SUBSET S, \A U \in SUBSET T : U # T => U \in F
      PROVE  T \in F
  BY <1>1, <1>2
<1> HIDE DEF F
<1>3. S \in F
  BY <1>2, SubsetInduction
<1> QED BY <1>3 DEF F

LEMMA SumAdd ==
  ASSUME NEW f, NEW S, IsFiniteSet(S), NEW x, x \notin S,
         \A y \in S \cup {x} : f[y] \in Int
  PROVE  SumFunctionOnSet(f, S \cup {x}) = f[x] + SumFunctionOnSet(f, S)
<1>1. IsFiniteSet(S \cup {x}) /\ (S \cup {x}) \ {x} = S
  BY FS_AddElement
<1> QED BY <1>1, SumTake

(* Only the values on the set count.                                       *)
LEMMA SumSame ==
  ASSUME NEW f, NEW g, NEW S, IsFiniteSet(S), \A x \in S : f[x] = g[x]
  PROVE  SumFunctionOnSet(f, S) = SumFunctionOnSet(g, S)
<1> DEFINE F == {T \in SUBSET S : SumFunctionOnSet(f, T) = SumFunctionOnSet(g, T)}
<1>1. ASSUME NEW T \in SUBSET S, \A U \in SUBSET T : U # T => U \in F
      PROVE  T \in F
  <2>1. CASE T = {}
    BY <2>1, SumEmpty
  <2>2. CASE T # {}
    <3>1. T \ {Pick(T)} \in F /\ Pick(T) \in S
      BY <1>1, <2>2, PickIn
    <3>2. /\ SumFunctionOnSet(f, T) = f[Pick(T)] + SumFunctionOnSet(f, T \ {Pick(T)})
          /\ SumFunctionOnSet(g, T) = g[Pick(T)] + SumFunctionOnSet(g, T \ {Pick(T)})
      BY <2>2, SumChosen, FS_Subset
    <3> QED BY <3>1, <3>2
  <2> QED BY <2>1, <2>2
<1> HIDE DEF F
<1>2. S \in F
  BY <1>1, SubsetInduction
<1> QED BY <1>2 DEF F

LEMMA SumOne ==
  ASSUME NEW f, NEW x, f[x] \in Int
  PROVE  SumFunctionOnSet(f, {x}) = f[x]
<1>1. SumFunctionOnSet(f, {} \cup {x}) = f[x] + SumFunctionOnSet(f, {})
  BY SumAdd, FS_EmptySet
<1> QED BY <1>1, SumEmpty

(* The sum of values that are no smaller is no smaller.                    *)
LEMMA SumLeq ==
  ASSUME NEW f, NEW g, NEW S, IsFiniteSet(S),
         \A x \in S : f[x] \in Int /\ g[x] \in Int /\ f[x] <= g[x]
  PROVE  SumFunctionOnSet(f, S) <= SumFunctionOnSet(g, S)
<1> DEFINE F == {T \in SUBSET S : SumFunctionOnSet(f, T) <= SumFunctionOnSet(g, T)}
<1>1. ASSUME NEW T \in SUBSET S, \A U \in SUBSET T : U # T => U \in F
      PROVE  T \in F
  <2>1. CASE T = {}
    BY <2>1, SumEmpty
  <2>2. CASE T # {}
    <3> DEFINE R == T \ {Pick(T)}
    <3>1. R \in F /\ Pick(T) \in S /\ R \subseteq S /\ IsFiniteSet(R)
      BY <1>1, <2>2, PickIn, FS_Subset
    <3> HIDE DEF F
    <3>2. /\ SumFunctionOnSet(f, T) = f[Pick(T)] + SumFunctionOnSet(f, R)
          /\ SumFunctionOnSet(g, T) = g[Pick(T)] + SumFunctionOnSet(g, R)
      BY <2>2, SumChosen, FS_Subset
    <3> HIDE DEF R
    <3>3. SumFunctionOnSet(f, R) \in Int /\ SumFunctionOnSet(g, R) \in Int
      BY <3>1, SumType
    <3> QED BY <3>1, <3>2, <3>3 DEF F
  <2> QED BY <2>1, <2>2
<1> HIDE DEF F
<1>2. S \in F
  BY <1>1, SubsetInduction
<1> QED BY <1>2 DEF F

(* One value that changes changes the sum by as much.                      *)
LEMMA SumChange ==
  ASSUME NEW f, NEW g, NEW S, IsFiniteSet(S), NEW x \in S,
         \A y \in S : f[y] \in Int /\ g[y] \in Int,
         \A y \in S \ {x} : g[y] = f[y]
  PROVE  SumFunctionOnSet(g, S) = SumFunctionOnSet(f, S) + g[x] - f[x]
<1> DEFINE R == S \ {x}
<1>1. IsFiniteSet(R) /\ R \subseteq S
  BY FS_Subset
<1>2. /\ SumFunctionOnSet(f, S) = f[x] + SumFunctionOnSet(f, R)
      /\ SumFunctionOnSet(g, S) = g[x] + SumFunctionOnSet(g, R)
  BY SumTake
<1>3. \A y \in R : f[y] = g[y]
  OBVIOUS
<1> HIDE DEF R
<1>4. SumFunctionOnSet(f, R) = SumFunctionOnSet(g, R)
  BY <1>1, <1>3, SumSame
<1>5. SumFunctionOnSet(f, R) \in Int
  BY <1>1, SumType
<1> QED BY <1>2, <1>4, <1>5

(* Values that are not negative add up to no less on a larger set.         *)
LEMMA SumSubset ==
  ASSUME NEW f, NEW S, IsFiniteSet(S), \A x \in S : f[x] \in Nat,
         NEW R, R \subseteq S
  PROVE  SumFunctionOnSet(f, R) <= SumFunctionOnSet(f, S)
<1> DEFINE F == {T \in SUBSET S : SumFunctionOnSet(f, T \cap R) <= SumFunctionOnSet(f, T)}
<1>1. ASSUME NEW T \in SUBSET S, \A U \in SUBSET T : U # T => U \in F
      PROVE  T \in F
  <2>1. CASE T = {}
    <3>1. T \cap R = {}
      BY <2>1
    <3> QED BY <2>1, <3>1, SumEmpty
  <2>2. CASE T # {}
    <3> DEFINE x == Pick(T)
               U == T \ {x}
               V == U \cap R
    <3>1. U \in F /\ x \in T /\ U \subseteq S /\ IsFiniteSet(U) /\ IsFiniteSet(V)
      BY <1>1, <2>2, PickIn, FS_Subset
    <3>2. SumFunctionOnSet(f, T) = f[x] + SumFunctionOnSet(f, U)
      BY <2>2, SumChosen, FS_Subset
    <3>3. T \cap R = IF x \in R THEN V \cup {x} ELSE V
      <4> HIDE DEF x
      <4> QED BY <3>1
    <3>4. x \notin V /\ V \subseteq S
      OBVIOUS
    <3>5. SumFunctionOnSet(f, V) <= SumFunctionOnSet(f, U)
      BY <3>1
    <3> HIDE DEF F, V, U, x
    <3>6. /\ SumFunctionOnSet(f, U) \in Int /\ SumFunctionOnSet(f, V) \in Int
          /\ f[x] \in Nat /\ x \in S
      BY <3>1, <3>4, SumType
    <3>7. SumFunctionOnSet(f, T \cap R) <= SumFunctionOnSet(f, T)
      <4>1. CASE x \in R
        <5>1. SumFunctionOnSet(f, V \cup {x}) = f[x] + SumFunctionOnSet(f, V)
          BY <3>1, <3>4, <3>6, SumAdd
        <5> QED BY <3>2, <3>3, <3>5, <3>6, <4>1, <5>1
      <4>2. CASE x \notin R
        BY <3>2, <3>3, <3>5, <3>6, <4>2
      <4> QED BY <4>1, <4>2
    <3> QED BY <3>7 DEF F
  <2> QED BY <2>1, <2>2
<1> HIDE DEF F
<1>2. S \in F
  BY <1>1, SubsetInduction
<1>3. S \cap R = R
  OBVIOUS
<1> QED BY <1>2, <1>3 DEF F

(* A sequence of numbers that grows by one.                                *)
LEMMA SumAppended ==
  ASSUME NEW n \in Nat, NEW f, NEW g, DOMAIN f = 1..n, DOMAIN g = 1..(n + 1),
         \A i \in 1..n : f[i] \in Int /\ g[i] = f[i], g[n + 1] \in Int
  PROVE  /\ SumFunction(f) \in Int
         /\ SumFunction(g) = SumFunction(f) + g[n + 1]
<1>1. IsFiniteSet(1..n) /\ n + 1 \notin 1..n /\ 1..(n + 1) = (1..n) \cup {n + 1}
  <2>1. IsFiniteSet(1..n)
    BY FS_Interval
  <2> QED BY <2>1
<1>2. /\ SumFunctionOnSet(f, 1..n) \in Int
      /\ SumFunctionOnSet(g, 1..n) = SumFunctionOnSet(f, 1..n)
  BY <1>1, SumType, SumSame
<1>3. SumFunctionOnSet(g, (1..n) \cup {n + 1}) = g[n + 1] + SumFunctionOnSet(g, 1..n)
  BY <1>1, SumAdd
<1>4. /\ SumFunction(f) = SumFunctionOnSet(f, 1..n)
      /\ SumFunction(g) = SumFunctionOnSet(g, (1..n) \cup {n + 1})
  BY <1>1 DEF SumFunction
<1> QED BY <1>2, <1>3, <1>4
=============================================================================
