--------------------------------- MODULE Sums ---------------------------------
(***************************************************************************)
(* Sums over finite sets, as MapThenSumSet computes them: what the proofs  *)
(* about the leave ledger and the weighted averages need.                  *)
(*                                                                         *)
(* MapThenSumSet is a recursive function on the subsets of its set.  That  *)
(* the recursion has a solution, that the solution does not depend on the  *)
(* set it is taken over, and what it is when an element is added are       *)
(* proved by induction.  An induction is here over a set of good numbers   *)
(* or good subsets, not over a predicate.                                  *)
(***************************************************************************)
EXTENDS Integers, FiniteSets, FiniteSetsExt, FiniteSetTheorems, WellFoundedInduction, TLAPS

\* A set of numbers that holds 0 and the successor of every number it holds is all of Nat.
LEMMA NumberInduction ==
  ASSUME NEW Good \in SUBSET Nat, 0 \in Good, \A n \in Good : n + 1 \in Good
  PROVE  Good = Nat
  <1> DEFINE R == {ss \in Nat \X Nat : ss[1] < ss[2]}
  <1> DEFINE Bad == Nat \ Good
  <1>1. OpToRel(<, Nat) = R
    BY DEF OpToRel
  <1>2. IsWellFoundedOn(R, Nat)
    BY <1>1, NatLessThanWellFounded
  <1> SUFFICES ASSUME Bad # {} PROVE FALSE
    OBVIOUS
  <1>3. PICK n \in Bad : \A m \in Bad : <<m, n>> \notin R
    <2> HIDE DEF R
    <2> QED
      BY <1>2, WFMin
  <1>4. n \in Nat /\ n # 0 /\ n - 1 \in Nat /\ (n - 1) + 1 = n
    OBVIOUS
  <1>5. <<n - 1, n>> \in R
    BY <1>4
  <1>6. n - 1 \notin Bad
    <2> HIDE DEF R, Bad
    <2> QED
      BY <1>3, <1>5
  <1> QED
    BY <1>4, <1>6

\* A set of subsets of S that holds the empty one, and every one of which it holds all that
\* are smaller by an element, holds S.
LEMMA SubsetInduction ==
  ASSUME NEW S, IsFiniteSet(S), NEW Good,
         {} \in Good,
         \A T \in SUBSET S : T # {} /\ (\A x \in T : T \ {x} \in Good) => T \in Good
  PROVE  S \in Good
  <1> DEFINE Sizes == {n \in Nat : \A T \in SUBSET S : Cardinality(T) = n => T \in Good}
  <1>1. \A T \in SUBSET S : IsFiniteSet(T) /\ Cardinality(T) \in Nat
    BY FS_Subset, FS_CardinalityType
  <1>2. 0 \in Sizes
    BY <1>1, FS_EmptySet
  <1>3. ASSUME NEW n \in Sizes PROVE n + 1 \in Sizes
    <2>0. n \in Nat /\ n + 1 # 0
      OBVIOUS
    <2> SUFFICES ASSUME NEW T \in SUBSET S, Cardinality(T) = n + 1 PROVE T \in Good
      OBVIOUS
    <2>1. T # {}
      BY <2>0, FS_EmptySet
    <2>2. ASSUME NEW x \in T PROVE T \ {x} \in Good
      <3>1. Cardinality(T \ {x}) = n
        BY <1>1, FS_RemoveElement
      <3> QED
        BY <3>1
    <2> QED
      BY <2>1, <2>2
  <1>4. Sizes = Nat
    <2> HIDE DEF Sizes
    <2>1. Sizes \in SUBSET Nat
      BY DEF Sizes
    <2> QED
      BY <1>2, <1>3, <2>1, NumberInduction
  <1> QED
    BY <1>1, <1>4

-----------------------------------------------------------------------------
(* The recursion of a fold                                                 *)

\* The element a fold takes from a set.
Taken(s) == CHOOSE x \in s : TRUE

\* g gives the sum of f over every subset of S, the way a fold computes it.
Solves(f, S, g) ==
  g = [s \in SUBSET S |-> IF s = {} THEN 0 ELSE f[Taken(s)] + g[s \ {Taken(s)}]]

Sum(f, S) == MapThenSumSet(LAMBDA x : f[x], S)

\* The library's sum is what a solution of the recursion gives to the whole set.
LEMMA SumIsChosen ==
  ASSUME NEW f, NEW S
  PROVE  Sum(f, S) = (CHOOSE g : Solves(f, S, g))[S]
  BY DEF Sum, MapThenSumSet, MapThenFoldSet, Solves, Taken

\* Up to the sets of n elements, g gives the sum of f over every subset of S.
SolvesUpTo(f, S, g, n) ==
  /\ g = [s \in SUBSET S |-> g[s]]
  /\ \A s \in SUBSET S : Cardinality(s) <= n =>
       g[s] = IF s = {} THEN 0 ELSE f[Taken(s)] + g[s \ {Taken(s)}]

\* A set without the element taken from it has one element less.
LEMMA TakenSmaller ==
  ASSUME NEW S, IsFiniteSet(S), S # {}
  PROVE  /\ Taken(S) \in S /\ IsFiniteSet(S \ {Taken(S)})
         /\ Cardinality(S) \in Nat \ {0}
         /\ Cardinality(S \ {Taken(S)}) = Cardinality(S) - 1
  <1>1. Taken(S) \in S
    BY DEF Taken
  <1> QED
    BY <1>1, FS_RemoveElement, FS_CardinalityType, FS_EmptySet

\* A solution for the sets of n elements makes one for the sets of one element more.
LEMMA SolvesFurther ==
  ASSUME NEW f, NEW S, IsFiniteSet(S), NEW n \in Nat, NEW g, SolvesUpTo(f, S, g, n)
  PROVE  \E h : SolvesUpTo(f, S, h, n + 1)
  <1> DEFINE h == [s \in SUBSET S |-> IF s = {} THEN 0 ELSE f[Taken(s)] + g[s \ {Taken(s)}]]
  <1>1. ASSUME NEW s \in SUBSET S, Cardinality(s) <= n PROVE h[s] = g[s]
    BY <1>1 DEF SolvesUpTo
  <1>2. ASSUME NEW s \in SUBSET S, Cardinality(s) <= n + 1
        PROVE  h[s] = IF s = {} THEN 0 ELSE f[Taken(s)] + h[s \ {Taken(s)}]
    <2>1. CASE s = {}
      BY <2>1
    <2>2. CASE s # {}
      <3>1. s \ {Taken(s)} \in SUBSET S /\ Cardinality(s \ {Taken(s)}) <= n
        BY <1>2, <2>2, TakenSmaller, FS_Subset
      <3>2. h[s \ {Taken(s)}] = g[s \ {Taken(s)}]
        BY <1>1, <3>1
      <3>3. h[s] = f[Taken(s)] + g[s \ {Taken(s)}]
        BY <2>2
      <3> HIDE DEF h
      <3> QED
        BY <2>2, <3>2, <3>3
    <2> QED
      BY <2>1, <2>2
  <1>3. h = [s \in SUBSET S |-> h[s]]
    OBVIOUS
  <1> HIDE DEF h
  <1>4. SolvesUpTo(f, S, h, n + 1)
    BY <1>2, <1>3 DEF SolvesUpTo
  <1> QED
    BY <1>4

\* The recursion of a fold has a solution over a finite set.
LEMMA SolutionExists ==
  ASSUME NEW f, NEW S, IsFiniteSet(S)
  PROVE  \E g : Solves(f, S, g)
  <1> DEFINE Good == {n \in Nat : \E g : SolvesUpTo(f, S, g, n)}
  <1>1. 0 \in Good
    <2> DEFINE z == [s \in SUBSET S |-> 0]
    <2>1. \A s \in SUBSET S : Cardinality(s) <= 0 => s = {}
      BY FS_Subset, FS_CardinalityType, FS_EmptySet
    <2>2. SolvesUpTo(f, S, z, 0)
      BY <2>1 DEF SolvesUpTo
    <2> HIDE DEF z
    <2> QED
      BY <2>2
  <1>2. \A n \in Good : n + 1 \in Good
    BY SolvesFurther
  <1>3. Good = Nat
    <2> HIDE DEF Good
    <2>1. Good \in SUBSET Nat
      BY DEF Good
    <2> QED
      BY <1>1, <1>2, <2>1, NumberInduction
  <1>4. Cardinality(S) \in Nat /\ \A s \in SUBSET S : Cardinality(s) <= Cardinality(S)
    BY FS_CardinalityType, FS_Subset
  <1>5. PICK g : SolvesUpTo(f, S, g, Cardinality(S))
    BY <1>3, <1>4
  <1>6. /\ g = [s \in SUBSET S |-> g[s]]
        /\ \A s \in SUBSET S : g[s] = IF s = {} THEN 0 ELSE f[Taken(s)] + g[s \ {Taken(s)}]
    BY <1>4, <1>5 DEF SolvesUpTo
  <1>7. Solves(f, S, g)
    BY <1>6 DEF Solves
  <1> QED
    BY <1>7

SameOn(f, h, u) == \A x \in u : f[x] = h[x]

\* Solutions over two sets give the same sum to a common subset on which the summands are
\* the same.
LEMMA SolutionsAgree ==
  ASSUME NEW S, NEW T, IsFiniteSet(S), NEW f, NEW h, NEW g, NEW k,
         Solves(f, S, g), Solves(h, T, k),
         NEW u \in SUBSET S, u \in SUBSET T, SameOn(f, h, u)
  PROVE  g[u] = k[u]
  <1> DEFINE Good == {s \in SUBSET u : g[s] = k[s]}
  <1>1. IsFiniteSet(u)
    BY FS_Subset
  <1>2. {} \in Good
    BY DEF Solves
  <1>3. ASSUME NEW s \in SUBSET u, s # {}, \A x \in s : s \ {x} \in Good PROVE s \in Good
    <2>1. /\ g[s] = f[Taken(s)] + g[s \ {Taken(s)}]
          /\ k[s] = h[Taken(s)] + k[s \ {Taken(s)}]
      BY <1>3 DEF Solves
    <2>2. Taken(s) \in s
      BY <1>3 DEF Taken
    <2>3. f[Taken(s)] = h[Taken(s)] /\ g[s \ {Taken(s)}] = k[s \ {Taken(s)}]
      BY <1>3, <2>2 DEF SameOn
    <2> QED
      BY <2>1, <2>3
  <1>4. u \in Good
    <2> HIDE DEF Good
    <2> QED
      BY <1>1, <1>2, <1>3, SubsetInduction
  <1> QED
    BY <1>4

-----------------------------------------------------------------------------
(* What a sum is                                                           *)

\* The library's sum is what any solution gives to the whole set.
LEMMA SumOfSolution ==
  ASSUME NEW f, NEW S, IsFiniteSet(S), NEW g, Solves(f, S, g)
  PROVE  Sum(f, S) = g[S]
  <1> DEFINE k == CHOOSE k : Solves(f, S, k)
  <1>1. Solves(f, S, k) /\ Sum(f, S) = k[S]
    BY SolutionExists, SumIsChosen
  <1> HIDE DEF k
  <1>2. S \in SUBSET S /\ SameOn(f, f, S)
    BY DEF SameOn
  <1>3. g[S] = k[S]
    BY <1>1, <1>2, SolutionsAgree
  <1> QED
    BY <1>1, <1>3

\* Summands that are the same on a set have the same sum over it.
LEMMA SumSame ==
  ASSUME NEW S, IsFiniteSet(S), NEW f, NEW h, SameOn(f, h, S)
  PROVE  Sum(f, S) = Sum(h, S)
  <1>1. PICK g : Solves(f, S, g)
    BY SolutionExists
  <1>2. PICK k : Solves(h, S, k)
    BY SolutionExists
  <1>3. S \in SUBSET S
    OBVIOUS
  <1>4. g[S] = k[S]
    BY <1>1, <1>2, <1>3, SolutionsAgree
  <1>5. Sum(f, S) = g[S] /\ Sum(h, S) = k[S]
    BY <1>1, <1>2, SumOfSolution
  <1> QED
    BY <1>4, <1>5

\* The empty set has the sum zero.
LEMMA SumEmpty == ASSUME NEW f PROVE Sum(f, {}) = 0
  <1>1. IsFiniteSet({}) /\ {} \in SUBSET {}
    BY FS_EmptySet
  <1>2. PICK g : Solves(f, {}, g)
    BY <1>1, SolutionExists
  <1>3. Sum(f, {}) = g[{}]
    BY <1>1, <1>2, SumOfSolution
  <1> QED
    BY <1>1, <1>2, <1>3 DEF Solves

\* A sum is the element taken first and the sum of the rest.
LEMMA SumTaken ==
  ASSUME NEW S, IsFiniteSet(S), S # {}, NEW f
  PROVE  Sum(f, S) = f[Taken(S)] + Sum(f, S \ {Taken(S)})
  <1> DEFINE T == S \ {Taken(S)}
  <1>1. PICK g : Solves(f, S, g)
    BY SolutionExists
  <1>2. Sum(f, S) = g[S] /\ g[S] = f[Taken(S)] + g[T]
    BY <1>1, SumOfSolution DEF Solves
  <1>3. IsFiniteSet(T) /\ T \in SUBSET S /\ T \in SUBSET T /\ SameOn(f, f, T)
    BY TakenSmaller DEF SameOn
  <1>4. PICK k : Solves(f, T, k)
    BY <1>3, SolutionExists
  <1>5. g[T] = k[T] /\ Sum(f, T) = k[T]
    <2> HIDE DEF T
    <2> QED
      BY <1>1, <1>3, <1>4, SolutionsAgree, SumOfSolution
  <1> QED
    BY <1>2, <1>5

\* A sum of integers is one, and whichever element is taken out counts once.
LEMMA SumSplit ==
  ASSUME NEW S, IsFiniteSet(S), NEW f, \A x \in S : f[x] \in Int
  PROVE  /\ Sum(f, S) \in Int
         /\ \A x \in S : Sum(f, S) = f[x] + Sum(f, S \ {x}) /\ Sum(f, S \ {x}) \in Int
  <1> DEFINE Good == {T \in SUBSET S : /\ Sum(f, T) \in Int
                                       /\ \A x \in T : /\ Sum(f, T \ {x}) \in Int
                                                       /\ Sum(f, T) = f[x] + Sum(f, T \ {x})}
  <1>1. {} \in Good
    BY SumEmpty
  <1>2. ASSUME NEW T \in SUBSET S, T # {}, \A x \in T : T \ {x} \in Good PROVE T \in Good
    <2> DEFINE c == Taken(T)
    <2>1. IsFiniteSet(T) /\ c \in T
      BY <1>2, FS_Subset DEF Taken
    <2>2. Sum(f, T) = f[c] + Sum(f, T \ {c})
      BY <1>2, <2>1, SumTaken
    <2>3. Sum(f, T \ {c}) \in Int /\ f[c] \in Int
      BY <1>2, <2>1
    <2> HIDE DEF c
    <2>4. ASSUME NEW x \in T
          PROVE  Sum(f, T \ {x}) \in Int /\ Sum(f, T) = f[x] + Sum(f, T \ {x})
      <3>1. CASE x = c
        BY <2>2, <2>3, <3>1
      <3>2. CASE x # c
        <4> DEFINE R == (T \ {c}) \ {x}
        <4>1. R = (T \ {x}) \ {c} /\ x \in T \ {c} /\ c \in T \ {x}
          BY <2>1, <3>2
        <4>2. Sum(f, T \ {c}) = f[x] + Sum(f, R) /\ Sum(f, R) \in Int
          BY <1>2, <2>1, <4>1
        <4>3. Sum(f, T \ {x}) = f[c] + Sum(f, R) /\ Sum(f, T \ {x}) \in Int
          BY <1>2, <4>1
        <4>4. f[x] \in Int
          OBVIOUS
        <4> HIDE DEF R
        <4> QED
          BY <2>2, <2>3, <4>2, <4>3, <4>4
      <3> QED
        BY <3>1, <3>2
    <2>5. Sum(f, T) \in Int
      BY <2>2, <2>3
    <2> QED
      BY <2>4, <2>5
  <1>3. S \in Good
    <2> HIDE DEF Good
    <2> QED
      BY <1>1, <1>2, SubsetInduction
  <1> QED
    BY <1>3

\* Summands that are all zero sum up to zero.
LEMMA SumZero ==
  ASSUME NEW S, IsFiniteSet(S), NEW f, \A x \in S : f[x] = 0
  PROVE  Sum(f, S) = 0
  <1> DEFINE Good == {T \in SUBSET S : Sum(f, T) = 0}
  <1>1. {} \in Good
    BY SumEmpty
  <1>2. ASSUME NEW T \in SUBSET S, T # {}, \A x \in T : T \ {x} \in Good PROVE T \in Good
    <2>1. IsFiniteSet(T) /\ Taken(T) \in T
      BY <1>2, FS_Subset DEF Taken
    <2>2. Sum(f, T) = f[Taken(T)] + Sum(f, T \ {Taken(T)})
      BY <1>2, <2>1, SumTaken
    <2>3. f[Taken(T)] = 0 /\ Sum(f, T \ {Taken(T)}) = 0
      BY <1>2, <2>1
    <2> QED
      BY <2>2, <2>3
  <1>3. S \in Good
    <2> HIDE DEF Good
    <2> QED
      BY <1>1, <1>2, SubsetInduction
  <1> QED
    BY <1>3

\* An element that is added counts once.
LEMMA SumAdd ==
  ASSUME NEW S, IsFiniteSet(S), NEW f, NEW x, x \notin S, \A y \in S \cup {x} : f[y] \in Int
  PROVE  Sum(f, S) \in Int /\ Sum(f, S \cup {x}) = f[x] + Sum(f, S)
  <1>1. IsFiniteSet(S \cup {x}) /\ (S \cup {x}) \ {x} = S
    BY FS_AddElement
  <1> QED
    BY <1>1, SumSplit

IntegersOn(f, S) == \A x \in S : f[x] \in Int

\* A change of one summand changes the sum by as much.
LEMMA SumChanged ==
  ASSUME NEW S, IsFiniteSet(S), NEW f, NEW h, NEW x \in S, SameOn(f, h, S \ {x}),
         IntegersOn(f, S), IntegersOn(h, S)
  PROVE  Sum(f, S) \in Int /\ Sum(h, S) = Sum(f, S) - f[x] + h[x]
  <1>1. IsFiniteSet(S \ {x})
    BY FS_RemoveElement
  <1>2. Sum(f, S \ {x}) = Sum(h, S \ {x})
    BY <1>1, SumSame
  <1>3. /\ Sum(f, S) = f[x] + Sum(f, S \ {x}) /\ Sum(f, S \ {x}) \in Int
        /\ Sum(h, S) = h[x] + Sum(h, S \ {x}) /\ Sum(f, S) \in Int
    BY SumSplit DEF IntegersOn
  <1> QED
    BY <1>2, <1>3 DEF IntegersOn

\* Every summand is between lo and hi times its weight, and the weights are positive.
WeighedBetween(f, weight, lo, hi, S) ==
  \A x \in S : /\ weight[x] \in Nat \ {0} /\ f[x] \in Int
               /\ lo * weight[x] <= f[x] /\ f[x] <= hi * weight[x]

\* Summands between lo and hi times their weights sum up to between lo and hi times the
\* weights' sum; positive weights of at least one element have a positive sum.
LEMMA SumBetween ==
  ASSUME NEW S, IsFiniteSet(S), NEW f, NEW weight, NEW lo \in Int, NEW hi \in Int,
         WeighedBetween(f, weight, lo, hi, S)
  PROVE  /\ Sum(weight, S) \in Nat /\ Sum(f, S) \in Int
         /\ S # {} => Sum(weight, S) > 0
         /\ lo * Sum(weight, S) <= Sum(f, S) /\ Sum(f, S) <= hi * Sum(weight, S)
  <1> DEFINE W(T) == Sum(weight, T)
  <1> DEFINE F(T) == Sum(f, T)
  <1> DEFINE Good == {T \in SUBSET S :
                        /\ W(T) \in Nat /\ F(T) \in Int /\ (T # {} => W(T) > 0)
                        /\ lo * W(T) <= F(T) /\ F(T) <= hi * W(T)}
  <1>1. {} \in Good
    BY SumEmpty
  <1>2. ASSUME NEW T \in SUBSET S, T # {}, \A x \in T : T \ {x} \in Good PROVE T \in Good
    <2>1. PICK x \in T : TRUE
      BY <1>2
    <2> DEFINE R == T \ {x}
    <2>2. IsFiniteSet(T) /\ \A y \in T : weight[y] \in Int /\ f[y] \in Int
      BY FS_Subset DEF WeighedBetween
    <2>3. W(T) = weight[x] + W(R) /\ F(T) = f[x] + F(R)
      BY <2>2, SumSplit
    <2>4. R \in Good
      BY <1>2
    <2>5. /\ W(R) \in Nat /\ F(R) \in Int
          /\ lo * W(R) <= F(R) /\ F(R) <= hi * W(R)
      BY <2>4
    <2>6. /\ weight[x] \in Nat \ {0} /\ f[x] \in Int
          /\ lo * weight[x] <= f[x] /\ f[x] <= hi * weight[x]
      BY DEF WeighedBetween
    <2> HIDE DEF R, W, F
    <2>7. /\ lo * (weight[x] + W(R)) = lo * weight[x] + lo * W(R)
          /\ hi * (weight[x] + W(R)) = hi * weight[x] + hi * W(R)
      BY <2>5, <2>6
    <2>8. /\ lo * weight[x] \in Int /\ lo * W(R) \in Int
          /\ hi * weight[x] \in Int /\ hi * W(R) \in Int
      BY <2>5, <2>6
    <2>9. W(T) \in Nat /\ W(T) > 0
      <3>1. W(R) \in Nat /\ weight[x] \in Nat /\ weight[x] > 0
        BY <2>5, <2>6
      <3> QED
        BY <2>3, <3>1
    <2>a. F(T) \in Int
      BY <2>3, <2>5, <2>6
    <2>10. lo * W(T) <= F(T) /\ F(T) <= hi * W(T)
      BY <2>3, <2>5, <2>6, <2>7, <2>8
    <2> QED
      BY <2>9, <2>a, <2>10
  <1>3. S \in Good
    <2> HIDE DEF Good
    <2> QED
      BY <1>1, <1>2, SubsetInduction
  <1> QED
    BY <1>3

=============================================================================
