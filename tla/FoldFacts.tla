----------------------------- MODULE FoldFacts ------------------------------
(***************************************************************************)
(* Facts about the folds of the community modules, which the models use    *)
(* for totals over a set and for the lines of a call taken in order.       *)
(*                                                                         *)
(* A fold is defined by recursion over the subsets of its set, so each     *)
(* fact is an induction; the natural numbers are well founded, and a set   *)
(* of numbers that has a member has a least one.  The facts speak of       *)
(* functions, so that they can be cited for any summand.                   *)
(***************************************************************************)
EXTENDS FiniteSetsExt, FiniteSetTheorems, TLAPS

\* A set of natural numbers that is not empty has a least element.
LEMMA LeastNatural ==
  ASSUME NEW T \in SUBSET Nat, T # {}
  PROVE  \E x \in T : \A y \in T : x <= y
<1> DEFINE R == {ss \in Nat \X Nat : ss[1] < ss[2]}
<1>1. IsWellFoundedOn(R, Nat)
  BY NatLessThanWellFounded DEF OpToRel
<1>2. PICK x \in T : \A y \in T : ~ (<< y, x >> \in R)
  <2> HIDE DEF R
  <2> QED BY <1>1, WFMin
<1>3. ASSUME NEW y \in T PROVE x <= y
  <2>1. x \in Nat /\ y \in Nat
    OBVIOUS
  <2>2. << y, x >> \in Nat \X Nat
    BY <2>1
  <2>3. ~(y < x)
    BY <1>2, <2>2
  <2>4. QED
    BY <2>1, <2>3
<1>4. QED
  BY <1>3

\* Induction over the natural numbers, for a set that is given.
LEMMA NaturalInduction ==
  ASSUME NEW P \in SUBSET Nat, 0 \in P, \A n \in P : n + 1 \in P
  PROVE  P = Nat
<1>1. SUFFICES ASSUME Nat \ P # {} PROVE FALSE
  OBVIOUS
<1>2. PICK n \in Nat \ P : \A m \in Nat \ P : n <= m
  BY <1>1, LeastNatural
<1>3. n # 0 /\ n - 1 \in Nat /\ n - 1 + 1 = n
  BY <1>2
<1>4. n - 1 \in P
  BY <1>2, <1>3
<1>5. QED
  BY <1>2, <1>3, <1>4

\* Induction over the subsets of a finite set, as its dual: among some of them
\* there is one that none of the others is part of.
LEMMA MinimalSubset ==
  ASSUME NEW S, IsFiniteSet(S), NEW B \in SUBSET SUBSET S, B # {}
  PROVE  \E T \in B : \A U \in B : U \subseteq T => U = T
<1> DEFINE Sizes == {Cardinality(T) : T \in B}
<1>1. \A T \in B : IsFiniteSet(T) /\ Cardinality(T) \in Nat
  BY FS_Subset, FS_CardinalityType
<1>2. Sizes \in SUBSET Nat /\ Sizes # {}
  BY <1>1
<1>3. PICK n \in Sizes : \A m \in Sizes : n <= m
  <2> HIDE DEF Sizes
  <2> QED BY <1>2, LeastNatural
<1>4. PICK T \in B : n = Cardinality(T)
  OBVIOUS
<1>5. ASSUME NEW U \in B, U \subseteq T PROVE U = T
  <2>1. Cardinality(T) <= Cardinality(U)
    BY <1>3, <1>4
  <2>2. Cardinality(U) <= Cardinality(T) /\ (Cardinality(T) = Cardinality(U) => T = U)
    BY <1>1, <1>5, FS_Subset
  <2>3. QED
    BY <1>1, <2>1, <2>2
<1>6. QED
  BY <1>5
-----------------------------------------------------------------------------
\* g is the function a fold defines: at the empty set the base, at another one
\* the step from what it chooses and from the value at the rest.  The step is
\* a function of pairs.
IsFold(g, S, base, pick, step) ==
  \A T \in SUBSET S :
    g[T] = IF T = {} THEN base ELSE step[<< pick[T], g[T \ {pick[T]}] >>]

\* There is one, if the step stays within a set.
LEMMA FoldExists ==
  ASSUME NEW S, IsFiniteSet(S), NEW V, NEW base \in V,
         NEW pick, \A T \in SUBSET S : T # {} => pick[T] \in T,
         NEW step, \A x \in S, v \in V : step[<< x, v >>] \in V
  PROVE  \E g \in [SUBSET S -> V] : IsFold(g, S, base, pick, step)
<1> DEFINE Small(n) == {T \in SUBSET S : Cardinality(T) <= n}
           Value(g, T) == IF T = {} THEN base ELSE step[<< pick[T], g[T \ {pick[T]}] >>]
           UpTo(n) == \E g \in [Small(n) -> V] : \A T \in Small(n) : g[T] = Value(g, T)
           P == {n \in Nat : UpTo(n)}
<1>1. \A T \in SUBSET S : IsFiniteSet(T) /\ Cardinality(T) \in Nat
                          /\ Cardinality(T) <= Cardinality(S)
  BY FS_Subset, FS_CardinalityType
<1>2. UpTo(0)
  <2>1. \A T \in Small(0) : T = {}
    BY <1>1, FS_EmptySet
  <2>2. [T \in Small(0) |-> base] \in [Small(0) -> V]
    OBVIOUS
  <2>3. QED
    BY <2>1, <2>2
<1>3. ASSUME NEW n \in P PROVE n + 1 \in P
  <2>1. PICK g \in [Small(n) -> V] : \A T \in Small(n) : g[T] = Value(g, T)
    BY <1>3
  <2> DEFINE h == [T \in Small(n + 1) |-> IF T \in Small(n) THEN g[T] ELSE Value(g, T)]
  <2>2. ASSUME NEW T \in Small(n + 1), T # {}
        PROVE  /\ pick[T] \in T /\ pick[T] \in S
               /\ T \ {pick[T]} \in Small(n) /\ T \ {pick[T]} \in Small(n + 1)
    <3>1. pick[T] \in T /\ pick[T] \in S
      BY <2>2
    <3>2. Cardinality(T \ {pick[T]}) = Cardinality(T) - 1
      BY <1>1, <3>1, FS_RemoveElement
    <3>3. n \in Nat
      OBVIOUS
    <3>4. Cardinality(T) <= n + 1 /\ Cardinality(T) \in Nat
      BY <1>1
    <3>5. Cardinality(T \ {pick[T]}) <= n /\ Cardinality(T \ {pick[T]}) <= n + 1
      BY <3>2, <3>3, <3>4
    <3>6. QED
      BY <3>1, <3>5
  <2>3. h \in [Small(n + 1) -> V]
    <3>1. ASSUME NEW T \in Small(n + 1)
          PROVE  (IF T \in Small(n) THEN g[T] ELSE Value(g, T)) \in V
      <4>1. CASE T \in Small(n)
        BY <4>1
      <4>2. CASE T = {}
        BY <4>2
      <4>3. CASE T # {} /\ T \notin Small(n)
        <5>1. g[T \ {pick[T]}] \in V /\ pick[T] \in S
          BY <2>2, <4>3
        <5>2. step[<< pick[T], g[T \ {pick[T]}] >>] \in V
          BY <5>1
        <5>3. QED
          BY <4>3, <5>2
      <4>4. QED
        BY <4>1, <4>2, <4>3
    <3>2. QED
      BY <3>1
  <2>4. ASSUME NEW T \in Small(n + 1) PROVE h[T] = Value(h, T)
    <3>1. h[T] = IF T \in Small(n) THEN g[T] ELSE Value(g, T)
      OBVIOUS
    <3>2. h[T] = Value(g, T)
      <4> HIDE DEF Value, Small
      <4> QED BY <2>1, <3>1
    <3>3. CASE T = {}
      BY <3>2, <3>3
    <3>4. CASE T # {}
      <4>1. h[T \ {pick[T]}] = g[T \ {pick[T]}]
        <5>1. T \ {pick[T]} \in Small(n) /\ T \ {pick[T]} \in Small(n + 1)
          BY <2>2, <3>4
        <5> HIDE DEF Small, Value
        <5> QED BY <5>1
      <4> HIDE DEF h, Small
      <4>2. QED
        BY <3>2, <3>4, <4>1
    <3>5. QED
      BY <3>3, <3>4
  <2>5. UpTo(n + 1)
    <3> HIDE DEF h, Value, Small
    <3> QED BY <2>3, <2>4
  <2>6. n + 1 \in Nat
    OBVIOUS
  <2>7. QED
    BY <2>5, <2>6
<1>4. P = Nat
  <2> HIDE DEF UpTo
  <2>1. 0 \in P /\ P \in SUBSET Nat
    BY <1>2
  <2>2. \A n \in P : n + 1 \in P
    BY <1>3
  <2> HIDE DEF P
  <2>3. QED
    BY <2>1, <2>2, NaturalInduction
<1>5. Cardinality(S) \in Nat /\ Small(Cardinality(S)) = SUBSET S
  BY <1>1
<1>6. UpTo(Cardinality(S))
  <2>1. Cardinality(S) \in P
    BY <1>4, <1>5
  <2> HIDE DEF UpTo
  <2>2. QED
    BY <2>1
<1>7. QED
  BY <1>5, <1>6 DEF IsFold
-----------------------------------------------------------------------------
\* The total of f over S, as MapThenSumSet computes it, and the function that
\* its recursion defines.
Total(f, S) == MapThenSumSet(LAMBDA x : f[x], S)

IsSum(g, f, S) ==
  g = [T \in SUBSET S |->
         IF T = {} THEN 0
         ELSE f[CHOOSE x \in T : TRUE] + g[T \ {CHOOSE x \in T : TRUE}]]

LEMMA SumExists ==
  ASSUME NEW S, IsFiniteSet(S), NEW f, \A x \in S : f[x] \in Int
  PROVE  \E g : IsSum(g, f, S)
<1> DEFINE pick == [T \in SUBSET S |-> CHOOSE x \in T : TRUE]
           step == [p \in S \X Int |-> f[p[1]] + p[2]]
<1>1. \A T \in SUBSET S : T # {} => pick[T] \in T
  OBVIOUS
<1>2. \A x \in S, v \in Int : step[<< x, v >>] = f[x] + v
  OBVIOUS
<1>3. ASSUME NEW x \in S, NEW v \in Int PROVE step[<< x, v >>] \in Int
  <2>1. f[x] \in Int /\ step[<< x, v >>] = f[x] + v
    BY <1>2
  <2> HIDE DEF step
  <2>2. QED
    BY <2>1
<1>4. PICK g \in [SUBSET S -> Int] : IsFold(g, S, 0, pick, step)
  <2>1. 0 \in Int
    OBVIOUS
  <2> HIDE DEF pick, step
  <2>2. QED
    BY <1>1, <1>3, <2>1, FoldExists
<1>5. ASSUME NEW T \in SUBSET S
      PROVE  g[T] = IF T = {} THEN 0
                    ELSE f[CHOOSE x \in T : TRUE] + g[T \ {CHOOSE x \in T : TRUE}]
  <2>1. CASE T = {}
    BY <1>4, <2>1 DEF IsFold
  <2>2. CASE T # {}
    <3>1. g[T] = step[<< pick[T], g[T \ {pick[T]}] >>]
      BY <1>4, <2>2 DEF IsFold
    <3>2. pick[T] \in S /\ T \ {pick[T]} \in SUBSET S
      BY <1>1, <2>2
    <3>3. g[T] = f[pick[T]] + g[T \ {pick[T]}]
      <4> HIDE DEF pick, step
      <4> QED BY <1>2, <3>1, <3>2
    <3>4. QED
      BY <2>2, <3>3
  <2>3. QED
    BY <2>1, <2>2
<1>6. QED
  BY <1>5 DEF IsSum

\* The sum does not depend on the order in which the elements are taken.
LEMMA SumRemove ==
  ASSUME NEW S, IsFiniteSet(S), NEW f, \A x \in S : f[x] \in Int,
         NEW g, IsSum(g, f, S)
  PROVE  /\ g[{}] = 0
         /\ \A T \in SUBSET S : g[T] \in Int
         /\ \A T \in SUBSET S : \A x \in T : g[T] = f[x] + g[T \ {x}]
<1> DEFINE c(T) == CHOOSE x \in T : TRUE
           Good(T) == g[T] \in Int /\ \A x \in T : g[T] = f[x] + g[T \ {x}]
           Bad == {T \in SUBSET S : ~Good(T)}
<1>1. \A T \in SUBSET S : g[T] = IF T = {} THEN 0 ELSE f[c(T)] + g[T \ {c(T)}]
  BY DEF IsSum
<1>2. \A T : T # {} => c(T) \in T
  OBVIOUS
<1> HIDE DEF c
<1>3. SUFFICES ASSUME Bad # {} PROVE FALSE
  BY <1>1
<1>4. PICK T \in Bad : \A U \in Bad : U \subseteq T => U = T
  <2>1. Bad \in SUBSET SUBSET S
    OBVIOUS
  <2> HIDE DEF Bad
  <2>2. QED
    BY <1>3, <2>1, MinimalSubset
<1>5. ASSUME NEW U \in SUBSET T, U # T PROVE Good(U)
  BY <1>4, <1>5
<1>6. T \in SUBSET S /\ ~Good(T)
  OBVIOUS
<1> HIDE DEF Bad
<1>7. T # {}
  <2>1. Good({})
    BY <1>1
  <2>2. QED
    BY <1>6, <2>1
<1>8. c(T) \in T /\ f[c(T)] \in Int /\ g[T] = f[c(T)] + g[T \ {c(T)}]
  BY <1>1, <1>2, <1>6, <1>7
<1>9. Good(T \ {c(T)})
  BY <1>5, <1>8
<1>10. g[T] \in Int
  BY <1>8, <1>9
<1>11. ASSUME NEW x \in T, x # c(T) PROVE g[T] = f[x] + g[T \ {x}]
  <2>1. g[T \ {c(T)}] = f[x] + g[(T \ {c(T)}) \ {x}]
    BY <1>9, <1>11
  <2>2. Good(T \ {x})
    BY <1>5
  <2>3. g[T \ {x}] = f[c(T)] + g[(T \ {x}) \ {c(T)}]
    BY <1>8, <1>11, <2>2
  <2>4. (T \ {x}) \ {c(T)} = (T \ {c(T)}) \ {x}
    OBVIOUS
  <2>5. Good((T \ {c(T)}) \ {x})
    BY <1>5, <1>8
  <2>6. f[x] \in Int /\ f[c(T)] \in Int /\ g[(T \ {c(T)}) \ {x}] \in Int
    BY <1>6, <1>8, <2>5
  <2>7. g[(T \ {x}) \ {c(T)}] = g[(T \ {c(T)}) \ {x}]
    BY <2>4
  <2> HIDE DEF Good
  <2>8. \A u, v, p, q, r \in Int :
           p = f[c(T)] + q /\ q = f[x] + u /\ r = f[c(T)] + u => p = f[x] + r
    BY <2>6
  <2>9. g[T] \in Int /\ g[T \ {c(T)}] \in Int /\ g[T \ {x}] \in Int
    BY <1>9, <1>10, <2>2 DEF Good
  <2>10. QED
    BY <1>8, <2>1, <2>3, <2>6, <2>7, <2>8, <2>9
<1>12. QED
  BY <1>6, <1>8, <1>10, <1>11

\* Two sums agree on a set on which their summands do.
LEMMA SumsAgree ==
  ASSUME NEW S, NEW R, IsFiniteSet(S), IsFiniteSet(R), NEW f, NEW h,
         \A x \in S : f[x] \in Int, \A x \in R : h[x] \in Int,
         NEW g, IsSum(g, f, S), NEW k, IsSum(k, h, R),
         NEW T \in SUBSET (S \cap R), \A x \in T : f[x] = h[x]
  PROVE  g[T] = k[T]
<1> DEFINE Bad == {U \in SUBSET T : g[U] # k[U]}
<1>1. SUFFICES ASSUME Bad # {} PROVE FALSE
  OBVIOUS
<1>2. PICK U \in Bad : \A W \in Bad : W \subseteq U => W = U
  <2>1. Bad \in SUBSET SUBSET T /\ IsFiniteSet(T)
    BY FS_Subset
  <2> HIDE DEF Bad
  <2>2. QED
    BY <1>1, <2>1, MinimalSubset
<1>3. U \in SUBSET S /\ U \in SUBSET R /\ U \subseteq T
  OBVIOUS
<1>4. U # {}
  BY <1>3, SumRemove
<1>5. PICK x \in U : TRUE
  BY <1>4
<1>6. g[U] = f[x] + g[U \ {x}] /\ k[U] = h[x] + k[U \ {x}] /\ f[x] = h[x]
  BY <1>3, SumRemove
<1>7. g[U \ {x}] = k[U \ {x}]
  BY <1>2, <1>5
<1>8. QED
  BY <1>6, <1>7
-----------------------------------------------------------------------------
\* Any function that satisfies the recursion gives the total.
LEMMA SumIsTotal ==
  ASSUME NEW S, IsFiniteSet(S), NEW f, \A x \in S : f[x] \in Int,
         NEW g, IsSum(g, f, S)
  PROVE  g[S] = Total(f, S)
<1> DEFINE k == CHOOSE k : IsSum(k, f, S)
<1>1. IsSum(k, f, S)
  BY SumExists
<1>2. Total(f, S) = k[S]
  BY DEF Total, MapThenSumSet, MapThenFoldSet, IsSum
<1>3. QED
  <2> HIDE DEF k
  <2> QED BY <1>1, <1>2, SumsAgree

THEOREM TotalType ==
  ASSUME NEW S, IsFiniteSet(S), NEW f, \A x \in S : f[x] \in Int
  PROVE  Total(f, S) \in Int
<1>1. PICK g : IsSum(g, f, S)
  BY SumExists
<1>2. QED
  BY <1>1, SumIsTotal, SumRemove

THEOREM TotalEmpty == \A f : Total(f, {}) = 0
<1>1. TAKE f
<1>2. PICK g : IsSum(g, f, {})
  BY SumExists, FS_EmptySet
<1>3. QED
  BY <1>2, SumIsTotal, SumRemove, FS_EmptySet

\* One element makes the difference to the total over the rest.
THEOREM TotalRemove ==
  ASSUME NEW S, IsFiniteSet(S), NEW f, \A x \in S : f[x] \in Int, NEW x \in S
  PROVE  Total(f, S) = f[x] + Total(f, S \ {x})
<1>1. PICK g : IsSum(g, f, S)
  BY SumExists
<1>2. IsFiniteSet(S \ {x})
  BY FS_RemoveElement
<1>3. PICK k : IsSum(k, f, S \ {x})
  BY <1>2, SumExists
<1>4. g[S \ {x}] = k[S \ {x}]
  BY <1>1, <1>2, <1>3, SumsAgree
<1>5. g[S] = f[x] + g[S \ {x}]
  BY <1>1, SumRemove
<1>6. g[S] = Total(f, S) /\ k[S \ {x}] = Total(f, S \ {x})
  BY <1>1, <1>2, <1>3, SumIsTotal
<1>7. QED
  BY <1>4, <1>5, <1>6

\* Totals of functions that agree on the set.
THEOREM TotalAgree ==
  ASSUME NEW S, IsFiniteSet(S), NEW f, NEW h, \A x \in S : f[x] \in Int,
         \A x \in S : f[x] = h[x]
  PROVE  Total(f, S) = Total(h, S)
<1>1. PICK g : IsSum(g, f, S)
  BY SumExists
<1>2. PICK k : IsSum(k, h, S)
  BY SumExists
<1>3. g[S] = k[S]
  BY <1>1, <1>2, SumsAgree
<1>4. QED
  BY <1>1, <1>2, <1>3, SumIsTotal

\* A change of one summand changes the total by as much.
THEOREM TotalChange ==
  ASSUME NEW S, IsFiniteSet(S), NEW f, NEW h,
         \A x \in S : f[x] \in Int /\ h[x] \in Int,
         NEW x \in S, \A y \in S \ {x} : f[y] = h[y]
  PROVE  Total(h, S) = Total(f, S) + (h[x] - f[x])
<1>1. IsFiniteSet(S \ {x})
  BY FS_RemoveElement
<1>2. Total(f, S \ {x}) = Total(h, S \ {x}) /\ Total(f, S \ {x}) \in Int
  BY <1>1, TotalAgree, TotalType
<1>3. Total(f, S) = f[x] + Total(f, S \ {x}) /\ Total(h, S) = h[x] + Total(h, S \ {x})
  BY TotalRemove
<1>4. QED
  BY <1>2, <1>3

\* The natural numbers have a natural total, and no more than it each.
THEOREM TotalCovers ==
  ASSUME NEW S, IsFiniteSet(S), NEW f, \A x \in S : f[x] \in Nat
  PROVE  Total(f, S) \in Nat /\ \A x \in S : f[x] <= Total(f, S)
<1>1. PICK g : IsSum(g, f, S)
  BY SumExists
<1>2. /\ g[{}] = 0 /\ \A T \in SUBSET S : g[T] \in Int
      /\ \A T \in SUBSET S : \A x \in T : g[T] = f[x] + g[T \ {x}]
  <2>1. \A x \in S : f[x] \in Int
    OBVIOUS
  <2>2. g[{}] = 0
    BY <1>1, <2>1, SumRemove
  <2>3. \A T \in SUBSET S : g[T] \in Int
    BY <1>1, <2>1, SumRemove
  <2>4. ASSUME NEW T \in SUBSET S, NEW x \in T PROVE g[T] = f[x] + g[T \ {x}]
    BY <1>1, <2>1, SumRemove
  <2>5. QED
    BY <2>2, <2>3, <2>4
<1> DEFINE Bad == {T \in SUBSET S : g[T] < 0}
<1>3. Bad = {}
  <2>1. SUFFICES ASSUME Bad # {} PROVE FALSE
    OBVIOUS
  <2>2. PICK T \in Bad : \A U \in Bad : U \subseteq T => U = T
    <3>1. Bad \in SUBSET SUBSET S
      OBVIOUS
    <3> HIDE DEF Bad
    <3> QED BY <2>1, <3>1, MinimalSubset
  <2>3. T # {} /\ T \in SUBSET S /\ g[T] < 0
    <3>1. T \in SUBSET S /\ g[T] < 0
      OBVIOUS
    <3>2. ~(g[{}] < 0)
      BY <1>2
    <3> HIDE DEF Bad
    <3> QED BY <3>1, <3>2
  <2>4. PICK x \in T : TRUE
    BY <2>3
  <2>5. g[T] = f[x] + g[T \ {x}] /\ f[x] \in Nat /\ g[T \ {x}] \in Int /\ T \ {x} \in SUBSET S
    BY <1>2, <2>3
  <2>6. g[T \ {x}] < 0
    BY <2>3, <2>5
  <2>7. T \ {x} \in Bad /\ T \ {x} \subseteq T /\ T \ {x} # T
    BY <2>5, <2>6
  <2>8. QED
    BY <2>2, <2>7
<1>4. \A T \in SUBSET S : g[T] \in Nat
  BY <1>2, <1>3
<1>5. ASSUME NEW x \in S PROVE f[x] <= g[S]
  <2>1. g[S] = f[x] + g[S \ {x}] /\ g[S \ {x}] \in Nat /\ f[x] \in Nat /\ g[S] \in Nat
    BY <1>2, <1>4
  <2>2. QED
    BY <2>1
<1>6. g[S] = Total(f, S)
  BY <1>1, SumIsTotal
<1>7. QED
  BY <1>4, <1>5, <1>6

\* What is nothing outside T sums to what it sums to over T.
THEOREM TotalRest ==
  ASSUME NEW S, IsFiniteSet(S), NEW f, \A x \in S : f[x] \in Int,
         NEW T \in SUBSET S, \A x \in S \ T : f[x] = 0
  PROVE  Total(f, S) = Total(f, T)
<1>1. IsFiniteSet(T) /\ \A x \in T : f[x] \in Int
  BY FS_Subset
<1>2. PICK g : IsSum(g, f, S)
  BY SumExists
<1>3. /\ \A U \in SUBSET S : g[U] \in Int
      /\ \A U \in SUBSET S : \A x \in U : g[U] = f[x] + g[U \ {x}]
  BY <1>2, SumRemove
<1> DEFINE Good == {U \in SUBSET S : T \subseteq U /\ g[U] = g[S]}
<1>4. PICK U \in Good : \A W \in Good : W \subseteq U => W = U
  <2>1. S \in Good /\ Good \in SUBSET SUBSET S
    OBVIOUS
  <2> HIDE DEF Good
  <2> QED
    BY <2>1, MinimalSubset
<1>5. U = T
  <2> SUFFICES ASSUME NEW x \in U \ T PROVE FALSE
    OBVIOUS
  <2>1. g[U] = f[x] + g[U \ {x}] /\ f[x] = 0 /\ U \ {x} \in SUBSET S /\ g[U \ {x}] \in Int
    BY <1>3
  <2>2. U \ {x} \in Good
    BY <2>1
  <2>3. U \ {x} = U
    BY <1>4, <2>2
  <2> QED
    BY <2>3
<1>6. PICK k : IsSum(k, f, T)
  BY <1>1, SumExists
<1>7. g[T] = k[T]
  BY <1>1, <1>2, <1>6, SumsAgree
<1>8. g[S] = Total(f, S) /\ k[T] = Total(f, T)
  BY <1>1, <1>2, <1>6, SumIsTotal
<1> QED
  BY <1>4, <1>5, <1>7, <1>8

\* What leaves one total enters another: f and f2 differ only at the places m
\* gives to the members of S, each by what g loses there.
THEOREM TotalsMove ==
  ASSUME NEW R, IsFiniteSet(R), NEW S, IsFiniteSet(S),
         NEW f, NEW f2, \A x \in R : f[x] \in Int /\ f2[x] \in Int,
         NEW g, NEW g2, \A y \in S : g[y] \in Int /\ g2[y] \in Int,
         NEW m \in [S -> R], \A y, z \in S : m[y] = m[z] => y = z,
         \A y \in S : f2[m[y]] + g2[y] = f[m[y]] + g[y],
         \A x \in R : (\A y \in S : m[y] # x) => f2[x] = f[x]
  PROVE  Total(f2, R) + Total(g2, S) = Total(f, R) + Total(g, S)
<1> DEFINE F(T) == [x \in R |-> IF \E y \in T : m[y] = x THEN f2[x] ELSE f[x]]
           G(T) == [y \in S |-> IF y \in T THEN g2[y] ELSE g[y]]
           Sum(T) == Total(F(T), R) + Total(G(T), S)
           Bad == {T \in SUBSET S : Sum(T) # Total(f, R) + Total(g, S)}
<1>1. ASSUME NEW T \in SUBSET S
      PROVE  /\ \A x \in R : F(T)[x] \in Int
             /\ \A y \in S : G(T)[y] \in Int
  OBVIOUS
<1>2. Total(F({}), R) = Total(f, R) /\ Total(G({}), S) = Total(g, S)
  <2>1. (\A x \in R : f[x] = F({})[x]) /\ (\A y \in S : g[y] = G({})[y])
    OBVIOUS
  <2>2. PICK h, k : h = F({}) /\ k = G({})
    OBVIOUS
  <2> HIDE DEF F, G
  <2>3. Total(f, R) = Total(h, R)
    BY <2>1, <2>2, TotalAgree
  <2>4. Total(g, S) = Total(k, S)
    BY <2>1, <2>2, TotalAgree
  <2>5. QED
    BY <2>2, <2>3, <2>4
<1>3. ASSUME NEW T \in SUBSET S, NEW y \in T PROVE Sum(T) = Sum(T \ {y})
  <2>1. /\ \A x \in R \ {m[y]} : F(T \ {y})[x] = F(T)[x]
        /\ F(T)[m[y]] = f2[m[y]] /\ F(T \ {y})[m[y]] = f[m[y]]
    OBVIOUS
  <2>2. /\ \A z \in S \ {y} : G(T \ {y})[z] = G(T)[z]
        /\ G(T)[y] = g2[y] /\ G(T \ {y})[y] = g[y]
    OBVIOUS
  <2>3. PICK h, h2, k, k2 : h = F(T \ {y}) /\ h2 = F(T) /\ k = G(T \ {y}) /\ k2 = G(T)
    OBVIOUS
  <2>4. /\ \A x \in R : h[x] \in Int /\ h2[x] \in Int
        /\ \A z \in S : k[z] \in Int /\ k2[z] \in Int
    <3>1. T \ {y} \in SUBSET S
      OBVIOUS
    <3>2. QED
      BY <1>1, <2>3, <3>1
  <2> HIDE DEF F, G
  <2>5. m[y] \in R /\ y \in S
    OBVIOUS
  <2>6. Total(h2, R) = Total(h, R) + (f2[m[y]] - f[m[y]])
    <3>1. \A x \in R \ {m[y]} : h[x] = h2[x]
      BY <2>1, <2>3
    <3>2. Total(h2, R) = Total(h, R) + (h2[m[y]] - h[m[y]])
      BY <2>4, <2>5, <3>1, TotalChange
    <3>3. QED
      BY <2>1, <2>3, <3>2
  <2>7. Total(k2, S) = Total(k, S) + (g2[y] - g[y])
    <3>1. \A z \in S \ {y} : k[z] = k2[z]
      BY <2>2, <2>3
    <3>2. Total(k2, S) = Total(k, S) + (k2[y] - k[y])
      BY <2>4, <2>5, <3>1, TotalChange
    <3>3. QED
      BY <2>2, <2>3, <3>2
  <2>8. Total(h, R) \in Int /\ Total(k, S) \in Int
    BY <2>4, TotalType
  <2>9. f2[m[y]] + g2[y] = f[m[y]] + g[y] /\ f2[m[y]] \in Int /\ f[m[y]] \in Int
        /\ g2[y] \in Int /\ g[y] \in Int
    BY <2>5
  <2>10. Total(h2, R) + Total(k2, S) = Total(h, R) + Total(k, S)
    BY ONLY <2>6, <2>7, <2>8, <2>9
  <2>11. QED
    BY <2>3, <2>10
<1>4. ASSUME Bad # {} PROVE FALSE
  <2>1. PICK T \in Bad : \A U \in Bad : U \subseteq T => U = T
    <3>1. Bad \in SUBSET SUBSET S
      OBVIOUS
    <3> HIDE DEF Bad
    <3>2. QED
      BY <1>4, <3>1, MinimalSubset
  <2>2. T # {}
    BY <1>2, <2>1
  <2>3. PICK y \in T : TRUE
    BY <2>2
  <2> HIDE DEF Sum
  <2>4. Sum(T \ {y}) # Total(f, R) + Total(g, S)
    BY <1>3, <2>1, <2>3
  <2>5. T \ {y} \in Bad
    BY <2>1, <2>4
  <2>6. QED
    BY <2>1, <2>3, <2>5
<1>5. Total(F(S), R) = Total(f2, R) /\ Total(G(S), S) = Total(g2, S)
  <2>1. (\A x \in R : f2[x] = F(S)[x]) /\ (\A y \in S : g2[y] = G(S)[y])
    OBVIOUS
  <2>2. PICK h, k : h = F(S) /\ k = G(S)
    OBVIOUS
  <2> HIDE DEF F, G
  <2>3. Total(f2, R) = Total(h, R)
    BY <2>1, <2>2, TotalAgree
  <2>4. Total(g2, S) = Total(k, S)
    BY <2>1, <2>2, TotalAgree
  <2>5. QED
    BY <2>2, <2>3, <2>4
<1>6. Sum(S) = Total(f, R) + Total(g, S)
  <2> HIDE DEF Sum
  <2>1. QED
    BY <1>4
<1>7. QED
  <2> HIDE DEF F, G
  <2>1. QED
    BY <1>5, <1>6

\* What is nothing everywhere sums to nothing.
LEMMA TotalZero ==
  ASSUME NEW S, IsFiniteSet(S), NEW f, \A x \in S : f[x] = 0
  PROVE  Total(f, S) = 0
<1>1. Total(f, S) = Total(f, {})
  BY TotalRest
<1> QED
  BY <1>1, TotalEmpty

\* Induction over the parts of a finite set, for a set of parts that is given.
LEMMA SubsetInduction ==
  ASSUME NEW S, IsFiniteSet(S), NEW P \in SUBSET SUBSET S, {} \in P,
         \A T \in P : \A x \in S \ T : T \cup {x} \in P
  PROVE  S \in P
<1> DEFINE Bad == (SUBSET S) \ P
<1>1. SUFFICES ASSUME S \notin P PROVE FALSE
  OBVIOUS
<1>2. PICK T \in Bad : \A U \in Bad : U \subseteq T => U = T
  <2>1. Bad \in SUBSET SUBSET S /\ Bad # {}
    BY <1>1
  <2> HIDE DEF Bad
  <2> QED
    BY <2>1, MinimalSubset
<1>3. PICK x \in T : TRUE
  BY <1>2
<1>4. T \ {x} \in P
  BY <1>2, <1>3
<1>5. (T \ {x}) \cup {x} = T
  BY <1>3
<1> QED
  BY <1>2, <1>3, <1>4, <1>5

\* A part and one element more.
LEMMA OneMore ==
  ASSUME NEW S, NEW T \in SUBSET S, NEW x \in S \ T
  PROVE  \E U \in SUBSET S : U = T \cup {x} /\ x \in U /\ U \ {x} = T
<1>1. /\ T \cup {x} \in SUBSET S
      /\ x \in T \cup {x}
      /\ (T \cup {x}) \ {x} = T
  OBVIOUS
<1> QED
  BY <1>1

\* The sum of a difference.
LEMMA TotalMinus ==
  ASSUME NEW S, IsFiniteSet(S), NEW f, NEW h, \A x \in S : f[x] \in Int /\ h[x] \in Int
  PROVE  Total([x \in S |-> h[x] - f[x]], S) = Total(h, S) - Total(f, S)
<1>1. PICK d : d = [x \in S |-> h[x] - f[x]]
  OBVIOUS
<1>2. \A x \in S : d[x] = h[x] - f[x] /\ d[x] \in Int
  BY <1>1
<1> DEFINE P == {T \in SUBSET S : Total(d, T) = Total(h, T) - Total(f, T)}
<1>3. {} \in P
  BY TotalEmpty
<1>4. ASSUME NEW T \in P, NEW x \in S \ T PROVE T \cup {x} \in P
  <2>1. PICK U \in SUBSET S : U = T \cup {x} /\ x \in U /\ U \ {x} = T
    <3>1. T \in SUBSET S /\ x \in S \ T
      OBVIOUS
    <3> QED
      BY ONLY <3>1, OneMore
  <2>2. IsFiniteSet(U) /\ IsFiniteSet(T)
    BY <2>1, FS_Subset
  <2>3. Total(f, U) = f[x] + Total(f, T)
    BY <2>1, <2>2, TotalRemove
  <2>4. Total(h, U) = h[x] + Total(h, T)
    BY <2>1, <2>2, TotalRemove
  <2>5. Total(d, U) = d[x] + Total(d, T)
    BY <1>2, <2>1, <2>2, TotalRemove
  <2>6. Total(f, T) \in Int /\ Total(h, T) \in Int
    BY <2>1, <2>2, TotalType
  <2>7. Total(d, T) = Total(h, T) - Total(f, T) /\ d[x] = h[x] - f[x]
    BY <1>2
  <2> QED
    BY <2>1, <2>3, <2>4, <2>5, <2>6, <2>7
<1>5. S \in P
  <2>1. P \in SUBSET SUBSET S
    OBVIOUS
  <2> HIDE DEF P
  <2> QED
    BY <1>3, <1>4, <2>1, SubsetInduction
<1> QED
  BY <1>1, <1>5

\* Larger terms have a larger sum.
THEOREM TotalMonotone ==
  ASSUME NEW S, IsFiniteSet(S), NEW f, NEW h,
         \A x \in S : f[x] \in Int /\ h[x] \in Int /\ f[x] <= h[x]
  PROVE  Total(f, S) <= Total(h, S)
<1>1. PICK d : d = [x \in S |-> h[x] - f[x]]
  OBVIOUS
<1>2. Total(d, S) \in Nat
  BY <1>1, TotalCovers
<1>3. Total(d, S) = Total(h, S) - Total(f, S)
  BY <1>1, TotalMinus
<1>4. Total(h, S) \in Int /\ Total(f, S) \in Int
  BY TotalType
<1> QED
  BY <1>2, <1>3, <1>4

\* A part of the terms, none of them negative, has no larger a sum.
THEOREM TotalOfPart ==
  ASSUME NEW S, IsFiniteSet(S), NEW f, \A x \in S : f[x] \in Nat, NEW T \in SUBSET S
  PROVE  Total(f, T) <= Total(f, S)
<1>1. PICK h : h = [x \in S |-> IF x \in T THEN f[x] ELSE 0]
  OBVIOUS
<1>2. IsFiniteSet(T)
  BY FS_Subset
<1>3. /\ \A x \in T : f[x] = h[x] /\ f[x] \in Int
      /\ \A x \in S : h[x] \in Int /\ f[x] \in Int /\ h[x] <= f[x]
      /\ \A x \in S \ T : h[x] = 0
  BY <1>1
<1>4. Total(f, T) = Total(h, T)
  BY <1>2, <1>3, TotalAgree
<1>5. Total(h, S) = Total(h, T)
  BY <1>3, TotalRest
<1>6. Total(h, S) <= Total(f, S)
  BY <1>3, TotalMonotone
<1> QED
  BY <1>4, <1>5, <1>6
-----------------------------------------------------------------------------
\* The sum of a sum.
LEMMA TotalPlus ==
  ASSUME NEW S, IsFiniteSet(S), NEW f, NEW h, \A x \in S : f[x] \in Int /\ h[x] \in Int
  PROVE  Total([x \in S |-> f[x] + h[x]], S) = Total(f, S) + Total(h, S)
<1>1. PICK sum : sum = [x \in S |-> f[x] + h[x]]
  OBVIOUS
<1>2. PICK d : d = [x \in S |-> sum[x] - f[x]]
  OBVIOUS
<1>3. \A x \in S : sum[x] \in Int /\ d[x] \in Int /\ d[x] = h[x]
  BY <1>1, <1>2
<1>4. Total(d, S) = Total(sum, S) - Total(f, S)
  BY <1>2, <1>3, TotalMinus
<1>5. Total(d, S) = Total(h, S)
  BY <1>3, TotalAgree
<1>6. Total(sum, S) \in Int /\ Total(f, S) \in Int /\ Total(h, S) \in Int
  BY <1>3, TotalType
<1> QED
  BY <1>1, <1>4, <1>5, <1>6

\* A common factor.
THEOREM TotalScale ==
  ASSUME NEW S, IsFiniteSet(S), NEW f, \A x \in S : f[x] \in Int, NEW c \in Int
  PROVE  Total([x \in S |-> c * f[x]], S) = c * Total(f, S)
<1>1. PICK h : h = [x \in S |-> c * f[x]]
  OBVIOUS
<1>2. \A x \in S : h[x] = c * f[x] /\ h[x] \in Int
  BY <1>1
<1> DEFINE P == {T \in SUBSET S : Total(h, T) = c * Total(f, T)}
<1>3. {} \in P
  BY TotalEmpty
<1>4. ASSUME NEW T \in P, NEW x \in S \ T PROVE T \cup {x} \in P
  <2>1. PICK U \in SUBSET S : U = T \cup {x} /\ x \in U /\ U \ {x} = T
    <3>1. T \in SUBSET S /\ x \in S \ T
      OBVIOUS
    <3> QED
      BY ONLY <3>1, OneMore
  <2>2. IsFiniteSet(U) /\ IsFiniteSet(T)
    BY <2>1, FS_Subset
  <2>3. Total(f, U) = f[x] + Total(f, T)
    BY <2>1, <2>2, TotalRemove
  <2>4. Total(h, U) = h[x] + Total(h, T)
    BY <1>2, <2>1, <2>2, TotalRemove
  <2>5. PICK a \in Int, b \in Int : a = f[x] /\ b = Total(f, T)
    BY <2>1, <2>2, TotalType
  <2>6. c * (a + b) = (c * a) + (c * b)
    OBVIOUS
  <2>7. Total(h, T) = c * b /\ h[x] = c * a
    BY <1>2, <2>5
  <2> QED
    BY <2>1, <2>3, <2>4, <2>5, <2>6, <2>7
<1>5. S \in P
  <2>1. P \in SUBSET SUBSET S
    OBVIOUS
  <2> HIDE DEF P
  <2> QED
    BY <1>3, <1>4, <2>1, SubsetInduction
<1> QED
  BY <1>1, <1>5

\* What is the same everywhere.
LEMMA TotalConstant ==
  ASSUME NEW S, IsFiniteSet(S), NEW c \in Int
  PROVE  Total([x \in S |-> c], S) = c * Cardinality(S)
<1>1. PICK f : f = [x \in S |-> c]
  OBVIOUS
<1>2. \A x \in S : f[x] = c /\ f[x] \in Int
  BY <1>1
<1> DEFINE P == {T \in SUBSET S : Total(f, T) = c * Cardinality(T)}
<1>3. {} \in P
  BY TotalEmpty, FS_EmptySet
<1>4. ASSUME NEW T \in P, NEW x \in S \ T PROVE T \cup {x} \in P
  <2>1. PICK U \in SUBSET S : U = T \cup {x} /\ x \in U /\ U \ {x} = T
    <3>1. T \in SUBSET S /\ x \in S \ T
      OBVIOUS
    <3> QED
      BY ONLY <3>1, OneMore
  <2>2. IsFiniteSet(U) /\ IsFiniteSet(T)
    BY <2>1, FS_Subset
  <2>3. Total(f, U) = f[x] + Total(f, T)
    BY <1>2, <2>1, <2>2, TotalRemove
  <2>4. Cardinality(T) \in Nat /\ Cardinality(U) = Cardinality(T) + 1
    BY <2>1, <2>2, FS_AddElement, FS_CardinalityType
  <2>5. PICK n \in Nat : n = Cardinality(T)
    BY <2>4
  <2>6. c * (n + 1) = c + (c * n)
    OBVIOUS
  <2> QED
    BY <1>2, <2>1, <2>3, <2>4, <2>5, <2>6
<1>5. S \in P
  <2>1. P \in SUBSET SUBSET S
    OBVIOUS
  <2> HIDE DEF P
  <2> QED
    BY <1>3, <1>4, <2>1, SubsetInduction
<1> QED
  BY <1>1, <1>5

\* Terms that differ by no more than c have sums that differ by no more than c each.
THEOREM TotalNear ==
  ASSUME NEW S, IsFiniteSet(S), NEW f, NEW h, NEW c \in Int,
         \A x \in S : f[x] \in Int /\ h[x] \in Int /\ f[x] <= h[x] + c
  PROVE  Total(f, S) <= Total(h, S) + c * Cardinality(S)
<1>1. PICK k : k = [x \in S |-> c]
  OBVIOUS
<1>2. PICK sum : sum = [x \in S |-> h[x] + k[x]]
  OBVIOUS
<1>3. \A x \in S : k[x] \in Int /\ sum[x] \in Int /\ f[x] <= sum[x]
  BY <1>1, <1>2
<1>4. Total(sum, S) = Total(h, S) + Total(k, S)
  BY <1>2, <1>3, TotalPlus
<1>5. Total(k, S) = c * Cardinality(S)
  BY <1>1, TotalConstant
<1>6. Total(f, S) <= Total(sum, S)
  BY <1>3, TotalMonotone
<1> QED
  BY <1>4, <1>5, <1>6

\* A sum may be taken group by group.
THEOREM TotalByGroups ==
  ASSUME NEW S, IsFiniteSet(S), NEW f, \A x \in S : f[x] \in Int,
         NEW G, IsFiniteSet(G), NEW m \in [S -> G]
  PROVE  Total([g \in G |-> Total(f, {x \in S : m[x] = g})], G) = Total(f, S)
<1> DEFINE In(T) == [g \in G |-> Total(f, {x \in T : m[x] = g})]
           P == {T \in SUBSET S : Total(In(T), G) = Total(f, T)}
<1>1. {} \in P
  <2>1. PICK k : k = In({})
    OBVIOUS
  <2>2. \A g \in G : k[g] = 0
    <3>1. \A g \in G : {x \in {} : m[x] = g} = {}
      OBVIOUS
    <3> QED
      BY <2>1, <3>1, TotalEmpty
  <2>3. Total(k, G) = 0
    BY <2>2, TotalZero
  <2> QED
    BY <2>1, <2>3, TotalEmpty
<1>2. ASSUME NEW T \in P, NEW x \in S \ T PROVE T \cup {x} \in P
  <2>1. PICK U \in SUBSET S : U = T \cup {x} /\ x \in U /\ U \ {x} = T
    <3>1. T \in SUBSET S /\ x \in S \ T
      OBVIOUS
    <3> QED
      BY ONLY <3>1, OneMore
  <2>2. PICK k, k2 : k = In(T) /\ k2 = In(U)
    OBVIOUS
  <2>3. ASSUME NEW V \in SUBSET S, NEW g \in G
        PROVE  Total(f, {y \in V : m[y] = g}) \in Int /\ IsFiniteSet({y \in V : m[y] = g})
    <3>1. PICK W \in SUBSET S : W = {y \in V : m[y] = g}
      OBVIOUS
    <3>2. IsFiniteSet(W) /\ \A y \in W : f[y] \in Int
      BY FS_Subset
    <3> QED
      BY <3>1, <3>2, TotalType
  <2>4. \A g \in G : k[g] \in Int /\ k2[g] \in Int
    BY <2>1, <2>2, <2>3
  <2>5. m[x] \in G /\ x \in S
    BY <2>1
  <2>6. \A g \in G \ {m[x]} : k[g] = k2[g]
    <3>1. \A g \in G \ {m[x]} : {y \in U : m[y] = g} = {y \in T : m[y] = g}
      BY <2>1
    <3> QED
      BY <2>2, <3>1
  <2>7. k2[m[x]] = f[x] + k[m[x]]
    <3>1. PICK W : W = {y \in U : m[y] = m[x]}
      OBVIOUS
    <3>2. x \in W /\ W \ {x} = {y \in T : m[y] = m[x]} /\ W \in SUBSET S
      BY <2>1, <3>1
    <3>3. IsFiniteSet(W) /\ \A y \in W : f[y] \in Int
      BY <3>2, FS_Subset
    <3>4. Total(f, W) = f[x] + Total(f, W \ {x})
      BY <3>2, <3>3, TotalRemove
    <3> QED
      BY <2>2, <2>5, <3>1, <3>2, <3>4
  <2>8. Total(k2, G) = Total(k, G) + (k2[m[x]] - k[m[x]])
    BY <2>4, <2>5, <2>6, TotalChange
  <2>9. IsFiniteSet(U) /\ IsFiniteSet(T) /\ \A y \in U : f[y] \in Int
    BY <2>1, FS_Subset
  <2>10. Total(f, U) = f[x] + Total(f, T)
    BY <2>1, <2>9, TotalRemove
  <2>11. f[x] \in Int /\ k[m[x]] \in Int /\ Total(k, G) \in Int
    BY <2>4, <2>5, TotalType
  <2>12. Total(k, G) = Total(f, T)
    BY <2>2
  <2> HIDE DEF In
  <2>13. Total(k2, G) = Total(f, U)
    BY <2>7, <2>8, <2>10, <2>11, <2>12
  <2> QED
    BY <2>1, <2>2, <2>13
<1>3. S \in P
  <2>1. P \in SUBSET SUBSET S
    OBVIOUS
  <2> HIDE DEF P
  <2> QED
    BY <1>1, <1>2, <2>1, SubsetInduction
<1> QED
  BY <1>3

\* The values of a function on a finite set are finitely many.
LEMMA FiniteValues ==
  ASSUME NEW S, IsFiniteSet(S), NEW f
  PROVE  IsFiniteSet({f[x] : x \in S})
<1> DEFINE P == {T \in SUBSET S : IsFiniteSet({f[x] : x \in T})}
<1>1. {} \in P
  <2>1. {f[x] : x \in {}} = {}
    OBVIOUS
  <2> QED
    BY <2>1, FS_EmptySet
<1>2. ASSUME NEW T \in P, NEW y \in S \ T PROVE T \cup {y} \in P
  <2>1. {f[x] : x \in T \cup {y}} = {f[x] : x \in T} \cup {f[y]}
    OBVIOUS
  <2>2. IsFiniteSet({f[x] : x \in T} \cup {f[y]})
    BY FS_AddElement
  <2> QED
    BY <2>1, <2>2
<1>3. S \in P
  <2>1. P \in SUBSET SUBSET S
    OBVIOUS
  <2> HIDE DEF P
  <2> QED
    BY <1>1, <1>2, <2>1, SubsetInduction
<1> QED
  BY <1>3
=============================================================================
