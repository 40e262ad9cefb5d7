------------------------------ MODULE FiniteFacts ------------------------------
(***************************************************************************)
(* Facts about natural numbers, finite sets and sums that proofs by        *)
(* induction need.  The induction theorems of the libraries take the       *)
(* predicate as a parameter; these lemmas speak of the set of              *)
(* counterexamples instead: if there is one, there is a least one.         *)
(***************************************************************************)
EXTENDS Functions, Integers, FiniteSetTheorems, TLAPS

\* A set of natural numbers that is not empty has a least element.
LEMMA LeastElement ==
  ASSUME NEW T \in SUBSET Nat, T # {}
  PROVE  \E n \in T : \A m \in T : n <= m
  <1> DEFINE R == OpToRel(<, Nat)
  <1>1. IsWellFoundedOn(R, Nat)
    BY NatLessThanWellFounded
  <1>2. \A m, n \in Nat : <<m, n>> \in R <=> m < n
    BY DEF OpToRel
  <1> HIDE DEF R
  <1>3. PICK n \in T : \A m \in T : ~ (<<m, n>> \in R)
    BY <1>1, WFMin
  <1>4. ASSUME NEW m \in T PROVE n <= m
    <2>1. m \in Nat /\ n \in Nat /\ ~ (m < n)
      BY <1>2, <1>3
    <2> QED BY <2>1
  <1> QED BY <1>4

\* A set of subsets of a finite set that is not empty has a minimal element.
LEMMA MinimalSubset ==
  ASSUME NEW S, IsFiniteSet(S), NEW F \in SUBSET SUBSET S, F # {}
  PROVE  \E T \in F : \A U \in F : U \subseteq T => U = T
  <1> DEFINE R == StrictSubsetOrdering(S)
  <1>1. IsWellFoundedOn(R, SUBSET S)
    BY FS_StrictSubsetOrderingWellFounded, FS_FiniteSubsetsOfFinite
  <1> HIDE DEF R
  <1>2. PICK T \in F : \A U \in F : ~ (<<U, T>> \in R)
    BY <1>1, WFMin
  <1>3. ASSUME NEW U \in F, U \subseteq T, U # T PROVE FALSE
    BY <1>2, <1>3 DEF R, StrictSubsetOrdering
  <1> QED BY <1>3

-----------------------------------------------------------------------------
(* Sums *)

\* The element that the fold of a set takes first.
Pick(S) == CHOOSE x \in S : TRUE

\* g holds the sums of f over the sets of D.
IsSum(g, f, D) ==
  g = [T \in D |-> IF T = {} THEN 0 ELSE f[Pick(T)] + g[T \ {Pick(T)}]]

LEMMA SumEquation ==
  ASSUME NEW g, NEW f, NEW D, IsSum(g, f, D), NEW T \in D
  PROVE  g[T] = IF T = {} THEN 0 ELSE f[Pick(T)] + g[T \ {Pick(T)}]
  BY DEF IsSum

\* The equation that defines sums has a solution.
LEMMA SumsExist ==
  ASSUME NEW S, IsFiniteSet(S), NEW f
  PROVE  \E g : IsSum(g, f, SUBSET S)
  <1> DEFINE UpTo(n) == { T \in SUBSET S : Cardinality(T) <= n }
             Without == { n \in Nat : ~ \E g : IsSum(g, f, UpTo(n)) }
  <1>1. \A T \in SUBSET S : IsFiniteSet(T) /\ Cardinality(T) \in Nat /\ Cardinality(T) <= Cardinality(S)
    BY FS_Subset, FS_CardinalityType
  <1>2. ASSUME NEW n \in Without PROVE n # 0
    <2>1. UpTo(0) = {{}}
      BY <1>1, FS_EmptySet
    <2> DEFINE g == [ T \in UpTo(0) |-> 0 ]
    <2>2. IsSum(g, f, UpTo(0))
      BY <2>1 DEF IsSum
    <2> QED BY <2>2
  <1>3. ASSUME NEW n \in Nat, NEW g, IsSum(g, f, UpTo(n)) PROVE n + 1 \notin Without
    <2> DEFINE h == [ T \in UpTo(n + 1) |->
                        IF T = {} THEN 0 ELSE f[Pick(T)] + g[T \ {Pick(T)}] ]
    <2>1. ASSUME NEW T \in UpTo(n) PROVE h[T] = g[T]
      <3>1. T \in UpTo(n + 1)
        BY <1>1
      <3>2. g[T] = IF T = {} THEN 0 ELSE f[Pick(T)] + g[T \ {Pick(T)}]
        <4> HIDE DEF UpTo
        <4> QED BY <1>3, SumEquation
      <3> QED BY <3>1, <3>2
    <2>2. ASSUME NEW T \in UpTo(n + 1), T # {} PROVE T \ {Pick(T)} \in UpTo(n)
      <3>1. Pick(T) \in T
        BY <2>2 DEF Pick
      <3>2. Cardinality(T \ {Pick(T)}) = Cardinality(T) - 1
        BY <1>1, <3>1, FS_RemoveElement
      <3> QED BY <1>1, <3>1, <3>2
    <2>3. IsSum(h, f, UpTo(n + 1))
      <3> HIDE DEF UpTo
      <3> QED BY <2>1, <2>2 DEF IsSum
    <2> QED BY <2>3
  <1>4. Without = {}
    <2> SUFFICES ASSUME Without # {} PROVE FALSE
      OBVIOUS
    <2>1. PICK n \in Without : \A m \in Without : n <= m
      <3>1. Without \in SUBSET Nat
        OBVIOUS
      <3> HIDE DEF Without
      <3> QED BY <3>1, LeastElement
    <2>2. n \in Nat /\ n # 0
      BY <1>2, <2>1
    <2>3. n - 1 \in Nat /\ (n - 1) + 1 = n /\ n - 1 \notin Without
      <3> HIDE DEF Without
      <3> QED BY <2>1, <2>2
    <2>4. PICK g : IsSum(g, f, UpTo(n - 1))
      BY <2>3
    <2>5. n \notin Without
      <3> HIDE DEF Without, UpTo
      <3>1. (n - 1) + 1 \notin Without
        BY <1>3, <2>3, <2>4
      <3> QED BY <2>3, <3>1
    <2> QED BY <2>1, <2>5
  <1>5. UpTo(Cardinality(S)) = SUBSET S /\ Cardinality(S) \in Nat
    BY <1>1
  <1> QED BY <1>4, <1>5

Sums(g, f, S) ==
  /\ g[{}] = 0
  /\ \A T \in SUBSET S : T # {} => Pick(T) \in T /\ g[T] = f[Pick(T)] + g[T \ {Pick(T)}]

\* What a sum is: nothing for no element, and otherwise one of its terms and
\* the sum of the others.
LEMMA SumsSolve ==
  ASSUME NEW S, IsFiniteSet(S), NEW f
  PROVE  \E g : SumFunctionOnSet(f, S) = g[S] /\ Sums(g, f, S)
  <1> DEFINE g == CHOOSE g : IsSum(g, f, SUBSET S)
  <1>1. SumFunctionOnSet(f, S) = g[S]
    BY DEF SumFunctionOnSet, FoldFunctionOnSet, MapThenFoldSet, IsSum, Pick
  <1>2. IsSum(g, f, SUBSET S)
    BY SumsExist
  <1> HIDE DEF g
  <1>3. g[{}] = 0
    BY <1>2 DEF IsSum
  <1>4. ASSUME NEW T \in SUBSET S, T # {}
        PROVE  Pick(T) \in T /\ g[T] = f[Pick(T)] + g[T \ {Pick(T)}]
    <2>1. Pick(T) \in T
      BY <1>4 DEF Pick
    <2>2. g[T] = IF T = {} THEN 0 ELSE f[Pick(T)] + g[T \ {Pick(T)}]
      BY <1>2, SumEquation
    <2> QED BY <1>4, <2>1, <2>2
  <1>5. Sums(g, f, S)
    BY <1>3, <1>4 DEF Sums
  <1> QED BY <1>1, <1>5

\* A sum of natural numbers is one.
LEMMA SumType ==
  ASSUME NEW S, IsFiniteSet(S), NEW f \in [S -> Nat]
  PROVE  SumFunctionOnSet(f, S) \in Nat
  <1>1. PICK g : SumFunctionOnSet(f, S) = g[S] /\ Sums(g, f, S)
    BY SumsSolve
  <1> DEFINE Bad == { T \in SUBSET S : g[T] \notin Nat }
  <1>2. Bad = {}
    <2> SUFFICES ASSUME Bad # {} PROVE FALSE
      OBVIOUS
    <2>1. PICK T \in Bad : \A U \in Bad : U \subseteq T => U = T
      <3>1. Bad \in SUBSET SUBSET S
        OBVIOUS
      <3> HIDE DEF Bad
      <3> QED BY <3>1, MinimalSubset
    <2>2. T # {} /\ Pick(T) \in T /\ g[T] = f[Pick(T)] + g[T \ {Pick(T)}]
      <3>1. T # {}
        <4>1. {} \notin Bad
          BY <1>1 DEF Sums
        <4> HIDE DEF Bad
        <4> QED BY <2>1, <4>1
      <3> QED BY <1>1, <3>1 DEF Sums
    <2>3. g[T \ {Pick(T)}] \in Nat
      BY <2>1, <2>2
    <2> QED BY <2>1, <2>2, <2>3
  <1> QED BY <1>1, <1>2

\* A sum whose terms are no greater is no greater.
LEMMA SumMonotone ==
  ASSUME NEW S, IsFiniteSet(S), NEW f \in [S -> Nat], NEW h \in [S -> Nat],
         \A x \in S : f[x] <= h[x]
  PROVE  SumFunctionOnSet(f, S) <= SumFunctionOnSet(h, S)
  <1>1. PICK g : SumFunctionOnSet(f, S) = g[S] /\ Sums(g, f, S)
    BY SumsSolve
  <1>2. PICK k : SumFunctionOnSet(h, S) = k[S] /\ Sums(k, h, S)
    BY SumsSolve
  <1> DEFINE Fine(T) == g[T] \in Nat /\ k[T] \in Nat /\ g[T] <= k[T]
             Bad == { T \in SUBSET S : ~ Fine(T) }
  <1>3. Bad = {}
    <2> SUFFICES ASSUME Bad # {} PROVE FALSE
      OBVIOUS
    <2>1. PICK T \in Bad : \A U \in Bad : U \subseteq T => U = T
      <3>1. Bad \in SUBSET SUBSET S
        OBVIOUS
      <3> HIDE DEF Bad
      <3> QED BY <3>1, MinimalSubset
    <2>2. T # {} /\ Pick(T) \in T
      <3>1. T # {}
        <4>1. {} \notin Bad
          BY <1>1, <1>2 DEF Sums
        <4> HIDE DEF Bad
        <4> QED BY <2>1, <4>1
      <3> QED BY <1>1, <3>1 DEF Sums
    <2>3. /\ g[T] = f[Pick(T)] + g[T \ {Pick(T)}]
          /\ k[T] = h[Pick(T)] + k[T \ {Pick(T)}]
      BY <1>1, <1>2, <2>2 DEF Sums
    <2>4. Fine(T \ {Pick(T)})
      BY <2>1, <2>2
    <2>5. f[Pick(T)] \in Nat /\ h[Pick(T)] \in Nat /\ f[Pick(T)] <= h[Pick(T)]
      BY <2>1, <2>2
    <2>6. Fine(T)
      BY <2>3, <2>4, <2>5
    <2> QED BY <2>1, <2>6
  <1> QED BY <1>1, <1>2, <1>3
=============================================================================
