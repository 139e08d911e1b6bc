--------------------------- MODULE ReportTheorems ---------------------------
(***************************************************************************)
(* What the reports of the services are computed with, for any input: sums *)
(* over finite sets, the largest and the smallest of a set, whole division, *)
(* and the stable sort.  The sums of the community modules are folds over a *)
(* CHOOSE that nothing is known about; the lemmas here say that the order in *)
(* which it takes the summands makes no difference.  The induction is over a *)
(* set of numbers, or of subsets, that stands for the predicate.           *)
(***************************************************************************)
EXTENDS StableSort, Functions, FiniteSetsExt, FiniteSetTheorems,
        WellFoundedInduction, FunctionTheorems, TLAPS

\* Induction over the natural numbers, for a set instead of a predicate.
LEMMA SetInduction ==
  ASSUME NEW S, 0 \in S, \A n \in Nat : n \in S => n + 1 \in S
  PROVE  Nat \subseteq S
<1> SUFFICES ASSUME NEW m \in Nat, m \notin S PROVE FALSE
  OBVIOUS
<1> DEFINE T == {n \in Nat : n \notin S}
           R == {ss \in Nat \X Nat : ss[1] < ss[2]}
<1>1. PICK x \in T : \A y \in T : ~ (<<y, x>> \in R)
  <2>1. T \subseteq Nat /\ T # {}
    OBVIOUS
  <2>2. IsWellFoundedOn(R, Nat)
    <3>1. R = OpToRel(<, Nat)
      BY Zenon DEF OpToRel
    <3> QED BY <3>1, NatLessThanWellFounded, Zenon
  <2> HIDE DEF T, R
  <2> QED BY <2>1, <2>2, WFMin
<1>2. x \in Nat /\ x \notin S
  OBVIOUS
<1>3. ASSUME x - 1 \in T PROVE FALSE
  <2>1. <<x - 1, x>> \in R
    BY <1>2, <1>3
  <2> QED BY <2>1, <1>1, <1>3
<1>4. x # 0 /\ x - 1 \in Nat /\ x - 1 \notin T
  BY <1>2, <1>3
<1> QED BY <1>2, <1>4

\* A finite set without one of its elements.
LEMMA OneLess ==
  ASSUME NEW S, IsFiniteSet(S), NEW x \in S
  PROVE  /\ IsFiniteSet(S \ {x}) /\ Cardinality(S) \in Nat \ {0}
         /\ Cardinality(S \ {x}) = Cardinality(S) - 1
BY FS_RemoveElement, FS_CardinalityType, FS_EmptySet

\* Induction over the subsets of a finite set.
LEMMA SubsetInduction ==
  ASSUME NEW S, IsFiniteSet(S), NEW P, {} \in P,
         \A T \in SUBSET S, x \in S : T \in P /\ x \notin T => T \cup {x} \in P
  PROVE  S \in P
<1> DEFINE N == {n \in Nat : \A T \in SUBSET S : Cardinality(T) = n => T \in P}
<1>1. \A T \in SUBSET S : IsFiniteSet(T) /\ Cardinality(T) \in Nat
  BY FS_Subset, FS_CardinalityType
<1>2. 0 \in N
  BY <1>1, FS_EmptySet
<1>3. ASSUME NEW n \in Nat, n \in N PROVE n + 1 \in N
  <2> SUFFICES ASSUME NEW T \in SUBSET S, Cardinality(T) = n + 1 PROVE T \in P
    OBVIOUS
  <2>1. T # {} /\ IsFiniteSet(T)
    BY <1>1, FS_EmptySet
  <2>2. PICK x \in T : TRUE
    BY <2>1
  <2>3. Cardinality(T \ {x}) = n
    <3>1. Cardinality(T \ {x}) = Cardinality(T) - 1
      BY <2>1, OneLess
    <3> QED BY <3>1
  <2>4. T \ {x} \in P
    BY <1>3, <2>3
  <2>5. T = (T \ {x}) \cup {x} /\ x \in S
    BY <2>2
  <2> QED BY <2>4, <2>5
<1> HIDE DEF N
<1>4. Nat \subseteq N
  BY <1>2, <1>3, SetInduction
<1>5. Cardinality(S) \in N
  BY <1>1, <1>4
<1> QED BY <1>5 DEF N

-----------------------------------------------------------------------------
(* Sums over finite sets.                                                  *)

\* The element that a fold over a set takes first.
Pick(s) == CHOOSE x \in s : TRUE

\* What the fold that a sum stands for takes of a set.
SumStep(fun, iter, s) == IF s = {} THEN 0 ELSE fun[Pick(s)] + iter[s \ {Pick(s)}]

\* The function on the subsets of S that the fold is chosen to be.
Sums(fun, S) == CHOOSE iter : iter = [s \in SUBSET S |-> SumStep(fun, iter, s)]

\* The sum of the community modules is such a function, at the whole set.
LEMMA SumIsFold ==
  ASSUME NEW fun, NEW S
  PROVE  SumFunctionOnSet(fun, S) = Sums(fun, S)[S]
BY Zenon DEF SumFunctionOnSet, FoldFunctionOnSet, MapThenFoldSet, Sums, SumStep, Pick

\* The function that the sum is chosen to be exists: it is defined by
\* induction on the size of the set.
LEMMA SumsDefined ==
  ASSUME NEW fun, NEW S, IsFiniteSet(S)
  PROVE  \A T \in SUBSET S : Sums(fun, S)[T] = SumStep(fun, Sums(fun, S), T)
<1> DEFINE Sub(n) == {s \in SUBSET S : Cardinality(s) <= n}
           N == {n \in Nat : \E iter : iter = [s \in Sub(n) |-> SumStep(fun, iter, s)]}
<1>1. \A T \in SUBSET S : /\ IsFiniteSet(T) /\ Cardinality(T) \in Nat
                          /\ Cardinality(T) <= Cardinality(S)
                          /\ Cardinality(T) = 0 => T = {}
  BY FS_Subset, FS_CardinalityType, FS_EmptySet
<1>2. \A T \in SUBSET S : T # {} => /\ Pick(T) \in T
                                    /\ T \ {Pick(T)} \in SUBSET S
                                    /\ Cardinality(T \ {Pick(T)}) = Cardinality(T) - 1
  BY <1>1, OneLess DEF Pick
<1>3. 0 \in N
  <2> DEFINE g == [s \in Sub(0) |-> 0]
  <2>1. \A s \in Sub(0) : s = {}
    BY <1>1
  <2>2. g = [s \in Sub(0) |-> SumStep(fun, g, s)]
    BY <2>1 DEF SumStep
  <2> QED BY <2>2
<1>4. ASSUME NEW n \in Nat, n \in N PROVE n + 1 \in N
  <2>1. PICK g : g = [s \in Sub(n) |-> SumStep(fun, g, s)]
    BY <1>4
  <2> DEFINE h == [s \in Sub(n + 1) |-> SumStep(fun, g, s)]
  <2>2. \A s \in Sub(n) : s \in Sub(n + 1) /\ h[s] = g[s]
    BY <1>1, <2>1
  <2>3. \A s \in Sub(n + 1) : s # {} => s \ {Pick(s)} \in Sub(n)
    BY <1>1, <1>2
  <2>4. \A s \in Sub(n + 1) : SumStep(fun, g, s) = SumStep(fun, h, s)
    BY <2>2, <2>3 DEF SumStep
  <2>5. h = [s \in Sub(n + 1) |-> SumStep(fun, h, s)]
    BY <2>4
  <2>6. \E iter : iter = [s \in Sub(n + 1) |-> SumStep(fun, iter, s)]
    BY <2>5
  <2> HIDE DEF h
  <2> QED BY <2>6
<1> HIDE DEF N
<1>5. Cardinality(S) \in N
  BY <1>1, <1>3, <1>4, SetInduction
<1>6. Sub(Cardinality(S)) = SUBSET S
  BY <1>1
<1>7. \E iter : iter = [s \in SUBSET S |-> SumStep(fun, iter, s)]
  BY <1>5, <1>6 DEF N
<1>8. Sums(fun, S) = [s \in SUBSET S |-> SumStep(fun, Sums(fun, S), s)]
  BY <1>7 DEF Sums
<1> QED BY <1>8

\* The sums of a set and of another agree where they overlap.
LEMMA SumsAgree ==
  ASSUME NEW fun, NEW S, IsFiniteSet(S), NEW T \in SUBSET S
  PROVE  Sums(fun, S)[T] = SumFunctionOnSet(fun, T)
<1> DEFINE N == {n \in Nat : \A V \in SUBSET T : Cardinality(V) = n =>
                                  Sums(fun, S)[V] = Sums(fun, T)[V]}
<1>1. IsFiniteSet(T)
  BY FS_Subset
<1>2. \A V \in SUBSET T : /\ IsFiniteSet(V) /\ Cardinality(V) \in Nat
                          /\ Cardinality(V) = 0 <=> V = {}
  BY <1>1, FS_Subset, FS_CardinalityType, FS_EmptySet
<1>3. \A V \in SUBSET T : /\ Sums(fun, S)[V] = SumStep(fun, Sums(fun, S), V)
                          /\ Sums(fun, T)[V] = SumStep(fun, Sums(fun, T), V)
  BY <1>1, SumsDefined
<1>4. 0 \in N
  BY <1>2, <1>3 DEF SumStep
<1>5. ASSUME NEW n \in Nat, n \in N PROVE n + 1 \in N
  <2> SUFFICES ASSUME NEW V \in SUBSET T, Cardinality(V) = n + 1
               PROVE  Sums(fun, S)[V] = Sums(fun, T)[V]
    OBVIOUS
  <2>1. V # {} /\ IsFiniteSet(V)
    BY <1>2
  <2>2. Pick(V) \in V
    BY <2>1 DEF Pick
  <2>3. Cardinality(V \ {Pick(V)}) = n
    BY <2>1, <2>2, OneLess
  <2>4. V \ {Pick(V)} \in SUBSET T
    OBVIOUS
  <2>5. Sums(fun, S)[V \ {Pick(V)}] = Sums(fun, T)[V \ {Pick(V)}]
    BY <1>5, <2>3, <2>4
  <2> QED BY <1>3, <2>1, <2>5 DEF SumStep
<1> HIDE DEF N
<1>6. Cardinality(T) \in N
  BY <1>2, <1>4, <1>5, SetInduction
<1> QED BY <1>6, SumIsFold DEF N

\* The sum over the empty set, and over a set with one element more.
LEMMA SumOfNone ==
  ASSUME NEW fun
  PROVE  SumFunctionOnSet(fun, {}) = 0
<1>1. IsFiniteSet({})
  BY FS_EmptySet
<1>2. Sums(fun, {})[{}] = SumStep(fun, Sums(fun, {}), {})
  BY <1>1, SumsDefined
<1> QED BY <1>2, SumIsFold DEF SumStep

\* And the step that its definition takes.
LEMMA SumOfPicked ==
  ASSUME NEW fun, NEW S, IsFiniteSet(S), S # {}
  PROVE  SumFunctionOnSet(fun, S) = fun[Pick(S)] + SumFunctionOnSet(fun, S \ {Pick(S)})
<1>2. Sums(fun, S)[S] = SumStep(fun, Sums(fun, S), S)
  BY SumsDefined
<1>3. Sums(fun, S)[S \ {Pick(S)}] = SumFunctionOnSet(fun, S \ {Pick(S)})
  BY SumsAgree
<1> QED BY <1>2, <1>3, SumIsFold DEF SumStep

\* A sum of whole numbers is a whole number.
LEMMA SumType ==
  ASSUME NEW fun, NEW S, IsFiniteSet(S), \A x \in S : fun[x] \in Int
  PROVE  SumFunctionOnSet(fun, S) \in Int
<1> DEFINE N == {n \in Nat : \A T \in SUBSET S : Cardinality(T) = n => SumFunctionOnSet(fun, T) \in Int}
<1>1. \A T \in SUBSET S : /\ IsFiniteSet(T) /\ Cardinality(T) \in Nat
                          /\ Cardinality(T) = 0 <=> T = {}
  BY FS_Subset, FS_CardinalityType, FS_EmptySet
<1>2. 0 \in N
  BY <1>1, SumOfNone
<1>3. ASSUME NEW n \in Nat, n \in N PROVE n + 1 \in N
  <2> SUFFICES ASSUME NEW T \in SUBSET S, Cardinality(T) = n + 1
               PROVE  SumFunctionOnSet(fun, T) \in Int
    OBVIOUS
  <2>1. IsFiniteSet(T) /\ T # {}
    BY <1>1
  <2>2. Pick(T) \in T
    BY <2>1 DEF Pick
  <2>3. Cardinality(T \ {Pick(T)}) = n
    BY <2>1, <2>2, OneLess
  <2>4. SumFunctionOnSet(fun, T \ {Pick(T)}) \in Int /\ fun[Pick(T)] \in Int
    BY <1>3, <2>2, <2>3
  <2>5. SumFunctionOnSet(fun, T) = fun[Pick(T)] + SumFunctionOnSet(fun, T \ {Pick(T)})
    BY <2>1, SumOfPicked
  <2> QED BY <2>4, <2>5
<1> HIDE DEF N
<1>4. Cardinality(S) \in N
  BY <1>1, <1>2, <1>3, SetInduction
<1> QED BY <1>4 DEF N

\* Any element can be the one that is taken out.
LEMMA SumWithout ==
  ASSUME NEW fun, NEW S, IsFiniteSet(S), \A x \in S : fun[x] \in Int, NEW x \in S
  PROVE  SumFunctionOnSet(fun, S) = fun[x] + SumFunctionOnSet(fun, S \ {x})
<1> DEFINE Sum(T) == SumFunctionOnSet(fun, T)
           N == {n \in Nat : \A T \in SUBSET S : Cardinality(T) = n =>
                   \A y \in T : Sum(T) = fun[y] + Sum(T \ {y})}
<1>1. \A T \in SUBSET S : /\ IsFiniteSet(T) /\ Cardinality(T) \in Nat
                          /\ Cardinality(T) = 0 <=> T = {}
  BY FS_Subset, FS_CardinalityType, FS_EmptySet
<1>2. \A T \in SUBSET S : Sum(T) \in Int
  BY <1>1, SumType
<1>3. \A T \in SUBSET S : T # {} => Pick(T) \in T /\ Sum(T) = fun[Pick(T)] + Sum(T \ {Pick(T)})
  BY <1>1, SumOfPicked DEF Pick
<1>4. \A T \in SUBSET S, y \in S : y \in T => Cardinality(T \ {y}) = Cardinality(T) - 1
  BY <1>1, OneLess
<1> HIDE DEF Sum
<1>5. 0 \in N
  BY <1>1
<1>6. ASSUME NEW n \in Nat, n \in N PROVE n + 1 \in N
  <2> SUFFICES ASSUME NEW T \in SUBSET S, Cardinality(T) = n + 1, NEW y \in T
               PROVE  Sum(T) = fun[y] + Sum(T \ {y})
    OBVIOUS
  <2>1. PICK p \in T : Sum(T) = fun[p] + Sum(T \ {p})
    BY <1>3
  <2>2. CASE y = p
    BY <2>1, <2>2
  <2>3. CASE y # p
    <3>1. Cardinality(T \ {y}) = n /\ Cardinality(T \ {p}) = n
      BY <1>4
    <3>2. Sum(T \ {p}) = fun[y] + Sum((T \ {p}) \ {y})
      BY <1>6, <2>3, <3>1
    <3>3. Sum(T \ {y}) = fun[p] + Sum((T \ {y}) \ {p})
      BY <1>6, <2>3, <3>1
    <3>4. Sum((T \ {y}) \ {p}) = Sum((T \ {p}) \ {y})
      <4>1. (T \ {y}) \ {p} = (T \ {p}) \ {y}
        OBVIOUS
      <4> QED BY <4>1
    <3>5. Sum((T \ {p}) \ {y}) \in Int /\ fun[y] \in Int /\ fun[p] \in Int
      BY <1>2
    <3>6. Sum(T) = fun[p] + (fun[y] + Sum((T \ {p}) \ {y}))
      BY <2>1, <3>2
    <3>7. Sum(T \ {y}) = fun[p] + Sum((T \ {p}) \ {y})
      BY <3>3, <3>4
    <3> HIDE DEF N
    <3> QED BY <3>5, <3>6, <3>7
  <2> QED BY <2>2, <2>3
<1> HIDE DEF N
<1>7. Cardinality(S) \in N
  BY <1>1, <1>5, <1>6, SetInduction
<1> QED BY <1>7 DEF N, Sum
\* What comes in adds what it is worth.
LEMMA SumInsert ==
  ASSUME NEW fun, NEW S, IsFiniteSet(S), NEW x, x \notin S, \A y \in S \cup {x} : fun[y] \in Int
  PROVE  SumFunctionOnSet(fun, S \cup {x}) = fun[x] + SumFunctionOnSet(fun, S)
<1>1. IsFiniteSet(S \cup {x})
  BY FS_AddElement
<1>2. SumFunctionOnSet(fun, S \cup {x}) = fun[x] + SumFunctionOnSet(fun, (S \cup {x}) \ {x})
  BY <1>1, SumWithout
<1>3. (S \cup {x}) \ {x} = S
  OBVIOUS
<1> QED BY <1>2, <1>3

\* A sum is linear in what is added up.
LEMMA SumLinear ==
  ASSUME NEW f, NEW g, NEW h, NEW c \in Int, NEW S, IsFiniteSet(S),
         \A x \in S : f[x] \in Int /\ g[x] \in Int /\ h[x] = f[x] + c * g[x]
  PROVE  SumFunctionOnSet(h, S) = SumFunctionOnSet(f, S) + c * SumFunctionOnSet(g, S)
<1> DEFINE P == {T \in SUBSET S : SumFunctionOnSet(h, T) = SumFunctionOnSet(f, T) + c * SumFunctionOnSet(g, T)}
<1>1. {} \in P
  BY SumOfNone
<1>2. ASSUME NEW T \in SUBSET S, NEW x \in S, T \in P, x \notin T PROVE T \cup {x} \in P
  <2>1. IsFiniteSet(T)
    BY FS_Subset
  <2>2. \A y \in T \cup {x} : f[y] \in Int /\ g[y] \in Int /\ h[y] \in Int
    OBVIOUS
  <2>3. SumFunctionOnSet(f, T \cup {x}) = f[x] + SumFunctionOnSet(f, T)
    BY <1>2, <2>1, <2>2, SumInsert
  <2>4. SumFunctionOnSet(g, T \cup {x}) = g[x] + SumFunctionOnSet(g, T)
    BY <1>2, <2>1, <2>2, SumInsert
  <2>5. SumFunctionOnSet(h, T \cup {x}) = h[x] + SumFunctionOnSet(h, T)
    BY <1>2, <2>1, <2>2, SumInsert
  <2>6. SumFunctionOnSet(f, T) \in Int /\ SumFunctionOnSet(g, T) \in Int
    BY <2>1, <2>2, SumType
  <2>7. SumFunctionOnSet(h, T) = SumFunctionOnSet(f, T) + c * SumFunctionOnSet(g, T)
    BY <1>2
  <2>8. f[x] \in Int /\ g[x] \in Int /\ h[x] = f[x] + c * g[x]
    OBVIOUS
  <2>9. (f[x] + c * g[x]) + (SumFunctionOnSet(f, T) + c * SumFunctionOnSet(g, T))
          = (f[x] + SumFunctionOnSet(f, T)) + c * (g[x] + SumFunctionOnSet(g, T))
    BY <2>6, <2>8
  <2> QED BY <2>3, <2>4, <2>5, <2>7, <2>8, <2>9
<1> HIDE DEF P
<1>3. S \in P
  BY <1>1, <1>2, SubsetInduction
<1> QED BY <1>3 DEF P

\* The same summands have the same sum.
LEMMA SumSame ==
  ASSUME NEW f, NEW g, NEW S, IsFiniteSet(S), \A x \in S : f[x] \in Int /\ g[x] = f[x]
  PROVE  SumFunctionOnSet(g, S) = SumFunctionOnSet(f, S)
<1>1. \A x \in S : f[x] \in Int /\ f[x] \in Int /\ g[x] = f[x] + 0 * f[x]
  OBVIOUS
<1>2. SumFunctionOnSet(g, S) = SumFunctionOnSet(f, S) + 0 * SumFunctionOnSet(f, S)
  BY <1>1, SumLinear
<1> QED BY <1>2, SumType

\* And monotonic in every summand.
LEMMA SumMonotonic ==
  ASSUME NEW f, NEW g, NEW S, IsFiniteSet(S),
         \A x \in S : f[x] \in Int /\ g[x] \in Int /\ f[x] <= g[x]
  PROVE  SumFunctionOnSet(f, S) <= SumFunctionOnSet(g, S)
<1> DEFINE P == {T \in SUBSET S : SumFunctionOnSet(f, T) <= SumFunctionOnSet(g, T)}
<1>1. {} \in P
  BY SumOfNone
<1>2. ASSUME NEW T \in SUBSET S, NEW x \in S, T \in P, x \notin T PROVE T \cup {x} \in P
  <2>1. IsFiniteSet(T)
    BY FS_Subset
  <2>2. \A y \in T \cup {x} : f[y] \in Int /\ g[y] \in Int
    OBVIOUS
  <2>3. SumFunctionOnSet(f, T \cup {x}) = f[x] + SumFunctionOnSet(f, T)
    BY <1>2, <2>1, <2>2, SumInsert
  <2>4. SumFunctionOnSet(g, T \cup {x}) = g[x] + SumFunctionOnSet(g, T)
    BY <1>2, <2>1, <2>2, SumInsert
  <2>5. SumFunctionOnSet(f, T) \in Int /\ SumFunctionOnSet(g, T) \in Int
    BY <2>1, <2>2, SumType
  <2>6. SumFunctionOnSet(f, T) <= SumFunctionOnSet(g, T) /\ f[x] <= g[x]
    BY <1>2
  <2> QED BY <2>2, <2>3, <2>4, <2>5, <2>6
<1> HIDE DEF P
<1>3. S \in P
  BY <1>1, <1>2, SubsetInduction
<1> QED BY <1>3 DEF P

\* Of equal summands there is a product.
LEMMA SumConstant ==
  ASSUME NEW f, NEW c \in Int, NEW S, IsFiniteSet(S), \A x \in S : f[x] = c
  PROVE  SumFunctionOnSet(f, S) = Cardinality(S) * c
<1> DEFINE P == {T \in SUBSET S : SumFunctionOnSet(f, T) = Cardinality(T) * c}
<1>1. {} \in P
  BY SumOfNone, FS_EmptySet
<1>2. ASSUME NEW T \in SUBSET S, NEW x \in S, T \in P, x \notin T PROVE T \cup {x} \in P
  <2>1. IsFiniteSet(T)
    BY FS_Subset
  <2>2. \A y \in T \cup {x} : f[y] \in Int
    OBVIOUS
  <2>3. SumFunctionOnSet(f, T \cup {x}) = c + SumFunctionOnSet(f, T)
    BY <1>2, <2>1, <2>2, SumInsert
  <2>4. Cardinality(T \cup {x}) = Cardinality(T) + 1 /\ Cardinality(T) \in Nat
    BY <1>2, <2>1, FS_AddElement, FS_CardinalityType
  <2>5. SumFunctionOnSet(f, T) = Cardinality(T) * c
    BY <1>2
  <2>6. (Cardinality(T) + 1) * c = c + Cardinality(T) * c
    BY <2>4
  <2> QED BY <2>3, <2>4, <2>5, <2>6
<1> HIDE DEF P
<1>3. S \in P
  BY <1>1, <1>2, SubsetInduction
<1> QED BY <1>3 DEF P

\* Bounds on every summand are bounds on the average.
LEMMA SumAtMost ==
  ASSUME NEW f, NEW high \in Int, NEW S, IsFiniteSet(S),
         \A x \in S : f[x] \in Int /\ f[x] <= high
  PROVE  SumFunctionOnSet(f, S) <= Cardinality(S) * high
<1> DEFINE h == [x \in S |-> high]
<1>1. \A x \in S : h[x] = high
  OBVIOUS
<1> HIDE DEF h
<1>2. SumFunctionOnSet(h, S) = Cardinality(S) * high
  BY <1>1, SumConstant
<1>3. SumFunctionOnSet(f, S) <= SumFunctionOnSet(h, S)
  BY <1>1, SumMonotonic
<1> QED BY <1>2, <1>3

\* And from below.
LEMMA SumAtLeast ==
  ASSUME NEW f, NEW low \in Int, NEW S, IsFiniteSet(S),
         \A x \in S : f[x] \in Int /\ low <= f[x]
  PROVE  Cardinality(S) * low <= SumFunctionOnSet(f, S)
<1> DEFINE l == [x \in S |-> low]
<1>1. \A x \in S : l[x] = low
  OBVIOUS
<1> HIDE DEF l
<1>2. SumFunctionOnSet(l, S) = Cardinality(S) * low
  BY <1>1, SumConstant
<1>3. SumFunctionOnSet(l, S) <= SumFunctionOnSet(f, S)
  BY <1>1, SumMonotonic
<1> QED BY <1>2, <1>3

\* One summand.
LEMMA SumOfOne ==
  ASSUME NEW f, NEW x, f[x] \in Int
  PROVE  SumFunctionOnSet(f, {x}) = f[x]
<1>1. IsFiniteSet({x}) /\ x \in {x} /\ {x} \ {x} = {}
  BY FS_Singleton
<1>2. SumFunctionOnSet(f, {x}) = f[x] + SumFunctionOnSet(f, {x} \ {x})
  BY <1>1, SumWithout
<1> QED BY <1>1, <1>2, SumOfNone

\* Adding one to one summand adds one to the sum.
LEMMA SumIncrement ==
  ASSUME NEW f, NEW g, NEW S, IsFiniteSet(S), NEW x \in S,
         \A y \in S : f[y] \in Int /\ g[y] = f[y] + (IF y = x THEN 1 ELSE 0)
  PROVE  SumFunctionOnSet(g, S) = SumFunctionOnSet(f, S) + 1
<1>1. /\ \A y \in S : f[y] \in Int
      /\ \A y \in S : g[y] \in Int
      /\ g[x] = f[x] + 1
      /\ \A y \in S \ {x} : f[y] \in Int /\ g[y] = f[y]
  OBVIOUS
<1>2. IsFiniteSet(S \ {x})
  BY FS_Subset
<1> DEFINE T == S \ {x}
<1>3. /\ SumFunctionOnSet(f, S) = f[x] + SumFunctionOnSet(f, T)
      /\ SumFunctionOnSet(g, S) = g[x] + SumFunctionOnSet(g, T)
  BY <1>1, SumWithout
<1> HIDE DEF T
<1>4. SumFunctionOnSet(g, T) = SumFunctionOnSet(f, T)
  BY <1>1, <1>2, SumSame DEF T
<1>5. \A y \in T : f[y] \in Int
  BY <1>1 DEF T
<1>6. SumFunctionOnSet(f, T) \in Int
  BY <1>2, <1>5, SumType DEF T
<1> QED BY <1>1, <1>3, <1>4, <1>6

\* Nothing that is added is larger than the sum, when nothing is negative.
LEMMA SumHasSummands ==
  ASSUME NEW f, NEW S, IsFiniteSet(S), \A x \in S : f[x] \in Nat, NEW x \in S
  PROVE  f[x] <= SumFunctionOnSet(f, S)
<1>1. IsFiniteSet(S \ {x}) /\ \A y \in S \ {x} : f[y] \in Int /\ 0 <= f[y]
  BY OneLess
<1>2. Cardinality(S \ {x}) * 0 <= SumFunctionOnSet(f, S \ {x})
  BY <1>1, SumAtLeast
<1>3. SumFunctionOnSet(f, S \ {x}) \in Int /\ Cardinality(S \ {x}) \in Nat
  BY <1>1, SumType, FS_CardinalityType
<1>4. SumFunctionOnSet(f, S) = f[x] + SumFunctionOnSet(f, S \ {x})
  BY SumWithout
<1> QED BY <1>2, <1>3, <1>4

\* What is split in two is added up in two.
LEMMA SumUnion ==
  ASSUME NEW f, NEW S, IsFiniteSet(S), NEW T, IsFiniteSet(T), S \cap T = {},
         \A x \in S \cup T : f[x] \in Int
  PROVE  SumFunctionOnSet(f, S \cup T) = SumFunctionOnSet(f, S) + SumFunctionOnSet(f, T)
<1> DEFINE P == {U \in SUBSET T : SumFunctionOnSet(f, S \cup U) = SumFunctionOnSet(f, S) + SumFunctionOnSet(f, U)}
<1>1. SumFunctionOnSet(f, S) \in Int
  BY SumType
<1>2. {} \in P
  <2>1. S \cup {} = S
    OBVIOUS
  <2> QED BY <1>1, <2>1, SumOfNone
<1>3. ASSUME NEW U \in SUBSET T, NEW x \in T, U \in P, x \notin U PROVE U \cup {x} \in P
  <2>1. IsFiniteSet(U) /\ IsFiniteSet(S \cup U)
    BY FS_Subset, FS_Union
  <2>2. x \notin S \cup U
    BY <1>3
  <2>3. SumFunctionOnSet(f, (S \cup U) \cup {x}) = f[x] + SumFunctionOnSet(f, S \cup U)
    BY <2>1, <2>2, SumInsert
  <2>4. SumFunctionOnSet(f, U \cup {x}) = f[x] + SumFunctionOnSet(f, U)
    BY <1>3, <2>1, SumInsert
  <2>5. (S \cup U) \cup {x} = S \cup (U \cup {x})
    OBVIOUS
  <2>6. SumFunctionOnSet(f, U) \in Int /\ f[x] \in Int
    BY <2>1, SumType
  <2>7. SumFunctionOnSet(f, S \cup U) = SumFunctionOnSet(f, S) + SumFunctionOnSet(f, U)
    BY <1>3
  <2>8. SumFunctionOnSet(f, S \cup (U \cup {x})) = SumFunctionOnSet(f, S) + SumFunctionOnSet(f, U \cup {x})
    <3>1. SumFunctionOnSet(f, S \cup (U \cup {x})) = f[x] + SumFunctionOnSet(f, S \cup U)
      BY <2>3, <2>5
    <3> HIDE DEF P
    <3> QED BY <1>1, <2>4, <2>6, <2>7, <3>1
  <2> QED BY <2>8
<1> HIDE DEF P
<1>4. T \in P
  BY <1>2, <1>3, SubsetInduction
<1> QED BY <1>4 DEF P

\* A bijection, element by element.
LEMMA BijectionProperties ==
  ASSUME NEW S, NEW T, NEW b \in Bijection(S, T)
  PROVE  /\ b \in [S -> T]
         /\ \A x, y \in S : b[x] = b[y] => x = y
         /\ \A t \in T : \E x \in S : b[x] = t
<1>1. b \in Injection(S, T) /\ b \in Surjection(S, T)
  BY DEF Bijection
<1>2. b \in [S -> T] /\ \A x, y \in S : b[x] = b[y] => x = y
  BY <1>1 DEF Injection, IsInjective
<1>3. \A t \in T : \E x \in S : b[x] = t
  BY <1>1 DEF Surjection
<1> QED BY <1>2, <1>3

\* The same summands, found by other names.
LEMMA SumBijection ==
  ASSUME NEW f, NEW g, NEW S, IsFiniteSet(S), NEW T, NEW b \in Bijection(S, T),
         \A x \in S : f[x] \in Int /\ g[b[x]] = f[x]
  PROVE  SumFunctionOnSet(g, T) = SumFunctionOnSet(f, S)
<1> DEFINE Image(U) == {b[x] : x \in U}
           P == {U \in SUBSET S : SumFunctionOnSet(g, Image(U)) = SumFunctionOnSet(f, U)}
<1>1. /\ b \in [S -> T] /\ \A x, y \in S : b[x] = b[y] => x = y
      /\ \A t \in T : \E x \in S : b[x] = t
  BY Fun_BijectionProperties
<1>2. IsFiniteSet(T)
  <2>1. ExistsBijection(S, T)
    BY DEF ExistsBijection
  <2> QED BY <2>1, FS_Bijection
<1>3. {} \in P
  <2>1. Image({}) = {}
    OBVIOUS
  <2> QED BY <2>1, SumOfNone
<1>4. ASSUME NEW U \in SUBSET S, NEW x \in S, U \in P, x \notin U PROVE U \cup {x} \in P
  <2>1. IsFiniteSet(U)
    BY FS_Subset
  <2>2. Image(U) \in SUBSET T /\ b[x] \in T /\ b[x] \notin Image(U)
    BY <1>1, <1>4
  <2>3. IsFiniteSet(Image(U))
    BY <1>2, <2>2, FS_Subset
  <2>4. Image(U \cup {x}) = Image(U) \cup {b[x]}
    OBVIOUS
  <2>5. \A y \in Image(U) \cup {b[x]} : g[y] \in Int
    OBVIOUS
  <2> HIDE DEF Image
  <2>6. SumFunctionOnSet(g, Image(U) \cup {b[x]}) = g[b[x]] + SumFunctionOnSet(g, Image(U))
    BY <2>2, <2>3, <2>5, SumInsert
  <2>7. SumFunctionOnSet(f, U \cup {x}) = f[x] + SumFunctionOnSet(f, U)
    BY <1>4, <2>1, SumInsert
  <2> QED BY <1>4, <2>4, <2>6, <2>7
<1>5. Image(S) = T
  BY <1>1
<1> HIDE DEF P
<1>6. S \in P
  BY <1>3, <1>4, SubsetInduction
<1> QED BY <1>5, <1>6 DEF P

\* A sum is the sum of the sums of the parts that a set falls into.
PartOf(S, part, c) == {x \in S : part[x] = c}

\* Or in as many parts as a key has values.
LEMMA SumByParts ==
  ASSUME NEW f, NEW S, IsFiniteSet(S), NEW C, IsFiniteSet(C), NEW part, NEW g,
         \A x \in S : f[x] \in Int /\ part[x] \in C,
         \A c \in C : g[c] = SumFunctionOnSet(f, PartOf(S, part, c))
  PROVE  SumFunctionOnSet(g, C) = SumFunctionOnSet(f, S)
<1> DEFINE Of(D) == {x \in S : part[x] \in D}
           One(c) == PartOf(S, part, c)
           P == {D \in SUBSET C : SumFunctionOnSet(g, D) = SumFunctionOnSet(f, Of(D))}
<1>1. \A c \in C : IsFiniteSet(One(c)) /\ One(c) \in SUBSET S /\ g[c] \in Int
  <2> SUFFICES ASSUME NEW c \in C PROVE IsFiniteSet(One(c)) /\ One(c) \in SUBSET S /\ g[c] \in Int
    OBVIOUS
  <2>1. One(c) \in SUBSET S
    BY DEF PartOf
  <2>2. IsFiniteSet(One(c))
    BY <2>1, FS_Subset
  <2>3. \A x \in One(c) : f[x] \in Int
    BY DEF PartOf
  <2>4. g[c] = SumFunctionOnSet(f, One(c))
    OBVIOUS
  <2> HIDE DEF One
  <2>5. SumFunctionOnSet(f, One(c)) \in Int
    BY <2>2, <2>3, SumType
  <2> QED BY <2>1, <2>2, <2>4, <2>5
<1>2. {} \in P
  <2>1. Of({}) = {}
    OBVIOUS
  <2> QED BY <2>1, SumOfNone
<1>3. ASSUME NEW D \in SUBSET C, NEW c \in C, D \in P, c \notin D PROVE D \cup {c} \in P
  <2>1. IsFiniteSet(D)
    BY FS_Subset
  <2>2. Of(D) \in SUBSET S
    OBVIOUS
  <2>3. IsFiniteSet(Of(D))
    BY <2>2, FS_Subset
  <2>4. Of(D \cup {c}) = Of(D) \cup One(c) /\ Of(D) \cap One(c) = {}
    BY <1>3 DEF PartOf
  <2>5. g[c] = SumFunctionOnSet(f, One(c))
    OBVIOUS
  <2>6. \A x \in Of(D) \cup One(c) : f[x] \in Int
    BY DEF PartOf
  <2>7. SumFunctionOnSet(g, D \cup {c}) = g[c] + SumFunctionOnSet(g, D)
    BY <1>1, <1>3, <2>1, SumInsert
  <2> HIDE DEF Of, One
  <2>8. SumFunctionOnSet(f, Of(D) \cup One(c)) = SumFunctionOnSet(f, Of(D)) + SumFunctionOnSet(f, One(c))
    BY <1>1, <2>3, <2>4, <2>6, SumUnion
  <2>9. SumFunctionOnSet(f, Of(D)) \in Int /\ g[c] \in Int
    BY <1>1, <2>3, <2>6, SumType
  <2>10. SumFunctionOnSet(g, D) = SumFunctionOnSet(f, Of(D))
    BY <1>3
  <2>11. SumFunctionOnSet(g, D \cup {c}) = SumFunctionOnSet(f, Of(D \cup {c}))
    <3>1. SumFunctionOnSet(f, Of(D \cup {c})) = SumFunctionOnSet(f, Of(D)) + SumFunctionOnSet(f, One(c))
      BY <2>4, <2>8
    <3>2. SumFunctionOnSet(g, D \cup {c}) = SumFunctionOnSet(f, One(c)) + SumFunctionOnSet(f, Of(D))
      BY <2>5, <2>7, <2>10
    <3>3. SumFunctionOnSet(f, One(c)) \in Int
      BY <2>5, <2>9
    <3> HIDE DEF P
    <3> QED BY <2>9, <3>1, <3>2, <3>3
  <2> QED BY <2>11
<1>4. Of(C) = S
  OBVIOUS
<1> HIDE DEF P, Of
<1>5. C \in P
  BY <1>2, <1>3, SubsetInduction
<1> QED BY <1>4, <1>5 DEF P

-----------------------------------------------------------------------------
(* The largest and the smallest of a finite set.                           *)

\* A finite set of numbers has a largest.
LEMMA MaxOfFinite ==
  ASSUME NEW S \in SUBSET Int, IsFiniteSet(S), S # {}
  PROVE  Max(S) \in S /\ \A y \in S : Max(S) >= y
<1> DEFINE P == {T \in SUBSET S : T = {} \/ \E x \in T : \A y \in T : x >= y}
<1>1. {} \in P
  OBVIOUS
<1>2. ASSUME NEW T \in SUBSET S, NEW x \in S, T \in P, x \notin T PROVE T \cup {x} \in P
  <2>1. CASE T = {}
    BY <2>1
  <2>2. CASE \E z \in T : \A y \in T : z >= y
    <3>1. PICK z \in T : \A y \in T : z >= y
      BY <2>2
    <3>2. x \in Int /\ z \in Int /\ T \subseteq Int
      OBVIOUS
    <3>3. CASE x >= z
      <4>1. \A y \in T \cup {x} : x >= y
        BY <3>1, <3>2, <3>3
      <4> QED BY <4>1
    <3>4. CASE z >= x
      <4>1. \A y \in T \cup {x} : z >= y
        BY <3>1, <3>2, <3>4
      <4> QED BY <4>1
    <3> QED BY <3>2, <3>3, <3>4
  <2> QED BY <1>2, <2>1, <2>2
<1> HIDE DEF P
<1>3. S \in P
  BY <1>1, <1>2, SubsetInduction
<1> QED BY <1>3 DEF P, Max

\* And a smallest.
LEMMA MinOfFinite ==
  ASSUME NEW S \in SUBSET Int, IsFiniteSet(S), S # {}
  PROVE  Min(S) \in S /\ \A y \in S : Min(S) <= y
<1> DEFINE P == {T \in SUBSET S : T = {} \/ \E x \in T : \A y \in T : x <= y}
<1>1. {} \in P
  OBVIOUS
<1>2. ASSUME NEW T \in SUBSET S, NEW x \in S, T \in P, x \notin T PROVE T \cup {x} \in P
  <2>1. CASE T = {}
    BY <2>1
  <2>2. CASE \E z \in T : \A y \in T : z <= y
    <3>1. PICK z \in T : \A y \in T : z <= y
      BY <2>2
    <3>2. x \in Int /\ z \in Int /\ T \subseteq Int
      OBVIOUS
    <3>3. CASE x <= z
      <4>1. \A y \in T \cup {x} : x <= y
        BY <3>1, <3>2, <3>3
      <4> QED BY <4>1
    <3>4. CASE z <= x
      <4>1. \A y \in T \cup {x} : z <= y
        BY <3>1, <3>2, <3>4
      <4> QED BY <4>1
    <3> QED BY <3>2, <3>3, <3>4
  <2> QED BY <1>2, <2>1, <2>2
<1> HIDE DEF P
<1>3. S \in P
  BY <1>1, <1>2, SubsetInduction
<1> QED BY <1>3 DEF P, Min

\* A bound that is reached is the largest, or the smallest.
LEMMA MaxIsReached ==
  ASSUME NEW S \in SUBSET Int, NEW m \in S, \A y \in S : m >= y
  PROVE  Max(S) = m
<1>1. Max(S) \in S /\ \A y \in S : Max(S) >= y
  BY DEF Max
<1>2. m >= Max(S) /\ Max(S) >= m /\ m \in Int /\ Max(S) \in Int
  BY <1>1
<1> QED BY <1>2

\* The same of the smallest.
LEMMA MinIsReached ==
  ASSUME NEW S \in SUBSET Int, NEW m \in S, \A y \in S : m <= y
  PROVE  Min(S) = m
<1>1. Min(S) \in S /\ \A y \in S : Min(S) <= y
  BY DEF Min
<1>2. m <= Min(S) /\ Min(S) <= m /\ m \in Int /\ Min(S) \in Int
  BY <1>1
<1> QED BY <1>2

\* The quotient of a whole division.
LEMMA Quotient ==
  ASSUME NEW a \in Int, NEW b \in Nat \ {0}
  PROVE  a \div b \in Int /\ b * (a \div b) <= a /\ a < b * (a \div b) + b
OBVIOUS

\* An average of what lies between two bounds lies between them.
LEMMA QuotientBounds ==
  ASSUME NEW a \in Int, NEW b \in Nat \ {0}, NEW low \in Int, NEW high \in Int,
         b * low <= a, a <= b * high
  PROVE  a \div b \in Int /\ low <= a \div b /\ a \div b <= high
<1> DEFINE q == a \div b
<1>1. q \in Int /\ b * q <= a /\ a < b * q + b
  BY Quotient
<1> HIDE DEF q
<1>2. ASSUME q < low PROVE FALSE
  <2>1. low - q - 1 \in Nat
    BY <1>1, <1>2
  <2>2. b * (low - q - 1) >= 0
    BY <2>1
  <2>3. b * (low - q - 1) = b * low - b * q - b
    BY <1>1
  <2> QED BY <1>1, <2>2, <2>3
<1>3. ASSUME q > high PROVE FALSE
  <2>1. q - high - 1 \in Nat
    BY <1>1, <1>3
  <2>2. b * (q - high - 1) >= 0
    BY <2>1
  <2>3. b * (q - high - 1) = b * q - b * high - b
    BY <1>1
  <2> QED BY <1>1, <2>2, <2>3
<1>4. q \in Int /\ low <= q /\ q <= high
  BY <1>1, <1>2, <1>3
<1> QED BY <1>4 DEF q

\* An injection keeps count.
LEMMA CountImage ==
  ASSUME NEW S, IsFiniteSet(S), NEW b, \A x, y \in S : b[x] = b[y] => x = y
  PROVE  IsFiniteSet({b[x] : x \in S}) /\ Cardinality({b[x] : x \in S}) = Cardinality(S)
<1> DEFINE T == {b[x] : x \in S}
           c == [x \in S |-> b[x]]
<1>1. c \in [S -> T] /\ (\A x, y \in S : c[x] = c[y] => x = y) /\ \A t \in T : \E x \in S : c[x] = t
  OBVIOUS
<1>2. c \in Bijection(S, T)
  BY <1>1, Fun_IsBij
<1>3. ExistsBijection(S, T)
  BY <1>2 DEF ExistsBijection
<1> QED BY <1>3, FS_Bijection

-----------------------------------------------------------------------------
(* The stable sort.                                                        *)

\* Before() is a strict total order, so nothing comes before as many as
\* something else does.
LEMMA RankIsOrder ==
  ASSUME NEW n \in Nat, NEW keys \in [1..n -> Int], NEW i \in 1..n, NEW j \in 1..n
  PROVE  /\ IsFiniteSet(Before(keys, i)) /\ Cardinality(Before(keys, i)) \in 0..(n - 1)
         /\ j \in Before(keys, i) => Cardinality(Before(keys, j)) < Cardinality(Before(keys, i))
         /\ j \in Before(keys, i) \/ i \in Before(keys, j) \/ i = j
<1>1. IsFiniteSet(1..n) /\ Cardinality(1..n) = n
  BY FS_Interval
<1>2. \A k \in 1..n : /\ Before(keys, k) \in SUBSET (1..n) /\ k \notin Before(keys, k)
                      /\ IsFiniteSet(Before(keys, k)) /\ Cardinality(Before(keys, k)) \in Nat
  <2> SUFFICES ASSUME NEW k \in 1..n
               PROVE  /\ Before(keys, k) \in SUBSET (1..n) /\ k \notin Before(keys, k)
                      /\ IsFiniteSet(Before(keys, k)) /\ Cardinality(Before(keys, k)) \in Nat
    OBVIOUS
  <2>1. Before(keys, k) \in SUBSET (1..n) /\ k \notin Before(keys, k)
    BY DEF Before
  <2> QED BY <1>1, <2>1, FS_Subset, FS_CardinalityType
<1>3. Cardinality(Before(keys, i)) \in 0..(n - 1)
  <2>1. IsFiniteSet((1..n) \ {i}) /\ Cardinality((1..n) \ {i}) = n - 1
    BY <1>1, OneLess
  <2>2. Before(keys, i) \in SUBSET ((1..n) \ {i})
    BY <1>2
  <2>3. Cardinality(Before(keys, i)) <= n - 1
    BY <2>1, <2>2, FS_Subset
  <2> QED BY <1>2, <2>3
<1>4. ASSUME j \in Before(keys, i)
      PROVE  Cardinality(Before(keys, j)) < Cardinality(Before(keys, i))
  <2>1. Before(keys, j) \in SUBSET (Before(keys, i) \ {j})
    BY <1>4 DEF Before
  <2>2. /\ IsFiniteSet(Before(keys, i) \ {j})
        /\ Cardinality(Before(keys, i) \ {j}) = Cardinality(Before(keys, i)) - 1
    BY <1>2, <1>4, OneLess
  <2>3. Cardinality(Before(keys, j)) <= Cardinality(Before(keys, i)) - 1
    BY <2>1, <2>2, FS_Subset
  <2> QED BY <1>2, <2>3
<1>5. j \in Before(keys, i) \/ i \in Before(keys, j) \/ i = j
  BY DEF Before
<1> QED BY <1>2, <1>3, <1>4, <1>5

\* The sorted positions are all positions, those of the larger keys first and
\* those of equal keys in their order.
THEOREM SortedIsSorted ==
  ASSUME NEW n \in Nat, NEW keys \in [1..n -> Int]
  PROVE  /\ Sorted(keys) \in Bijection(1..n, 1..n)
         /\ \A k, l \in 1..n : k < l =>
              \/ keys[Sorted(keys)[k]] > keys[Sorted(keys)[l]]
              \/ /\ keys[Sorted(keys)[k]] = keys[Sorted(keys)[l]]
                 /\ Sorted(keys)[k] < Sorted(keys)[l]
<1> DEFINE rank == [i \in 1..n |-> Cardinality(Before(keys, i)) + 1]
<1>1. IsFiniteSet(1..n) /\ Cardinality(1..n) = n
  BY FS_Interval
<1>2. \A i \in 1..n : rank[i] = Cardinality(Before(keys, i)) + 1 /\ rank[i] \in 1..n
  BY RankIsOrder
<1>3. \A i, j \in 1..n : rank[i] = rank[j] => i = j
  <2> SUFFICES ASSUME NEW i \in 1..n, NEW j \in 1..n, rank[i] = rank[j] PROVE i = j
    OBVIOUS
  <2> HIDE DEF rank
  <2>1. Cardinality(Before(keys, i)) \in Int /\ Cardinality(Before(keys, j)) \in Int
    BY RankIsOrder
  <2>2. Cardinality(Before(keys, i)) = Cardinality(Before(keys, j))
    BY <1>2, <2>1
  <2>3. j \notin Before(keys, i) /\ i \notin Before(keys, j)
    BY <2>1, <2>2, RankIsOrder
  <2> QED BY <2>3, RankIsOrder
<1>4. rank \in Surjection(1..n, 1..n)
  <2>1. rank \in [1..n -> 1..n]
    BY <1>2
  <2>2. rank \in Injection(1..n, 1..n)
    BY <1>3, <2>1, Fun_IsInj
  <2> HIDE DEF rank
  <2> QED BY <1>1, <2>2, FS_Injection
<1> HIDE DEF rank
<1>5. \A k \in 1..n : \E i \in 1..n : rank[i] = k
  BY <1>4 DEF Surjection
<1>6. \A k \in 1..n : Sorted(keys)[k] \in 1..n /\ rank[Sorted(keys)[k]] = k
  <2> SUFFICES ASSUME NEW k \in 1..n PROVE Sorted(keys)[k] \in 1..n /\ rank[Sorted(keys)[k]] = k
    OBVIOUS
  <2>1. \E i \in 1..n : Cardinality(Before(keys, i)) = k - 1
    <3>1. PICK i \in 1..n : rank[i] = k
      BY <1>5
    <3>2. Cardinality(Before(keys, i)) \in Int
      BY RankIsOrder
    <3>3. Cardinality(Before(keys, i)) = k - 1
      BY <1>2, <3>1, <3>2
    <3> QED BY <3>3
  <2>2. Sorted(keys)[k] = CHOOSE i \in 1..n : Cardinality(Before(keys, i)) = k - 1
    BY DEF Sorted
  <2>3. Sorted(keys)[k] \in 1..n /\ Cardinality(Before(keys, Sorted(keys)[k])) = k - 1
    BY <2>1, <2>2
  <2> QED BY <1>2, <2>3
<1>7. Sorted(keys) \in [1..n -> 1..n]
  BY <1>6 DEF Sorted
<1>8. Sorted(keys) \in Bijection(1..n, 1..n)
  <2>1. \A k, l \in 1..n : Sorted(keys)[k] = Sorted(keys)[l] => k = l
    BY <1>6
  <2>2. \A i \in 1..n : \E k \in 1..n : Sorted(keys)[k] = i
    BY <1>2, <1>3, <1>6
  <2> QED BY <1>7, <2>1, <2>2, Fun_IsBij
<1>9. ASSUME NEW k \in 1..n, NEW l \in 1..n, k < l
      PROVE  \/ keys[Sorted(keys)[k]] > keys[Sorted(keys)[l]]
             \/ /\ keys[Sorted(keys)[k]] = keys[Sorted(keys)[l]]
                /\ Sorted(keys)[k] < Sorted(keys)[l]
  <2> DEFINE i == Sorted(keys)[k]
             j == Sorted(keys)[l]
  <2>1. i \in 1..n /\ j \in 1..n /\ rank[i] = k /\ rank[j] = l
    BY <1>6
  <2> HIDE DEF i, j
  <2>a. Cardinality(Before(keys, i)) \in Int /\ Cardinality(Before(keys, j)) \in Int
    BY <2>1, RankIsOrder
  <2>b. Cardinality(Before(keys, i)) < Cardinality(Before(keys, j))
    BY <1>2, <1>9, <2>1, <2>a
  <2>2. j \notin Before(keys, i) /\ i # j
    BY <2>1, <2>a, <2>b, RankIsOrder
  <2>3. i \in Before(keys, j)
    BY <2>1, <2>2, RankIsOrder
  <2>4. keys[i] > keys[j] \/ (keys[i] = keys[j] /\ i < j)
    BY <2>1, <2>3 DEF Before
  <2> QED BY <2>4 DEF i, j
<1> QED BY <1>8, <1>9

\* The smaller of two, when one knows which.
LEMMA MinOfTwo ==
  ASSUME NEW a \in Int, NEW b \in Int, a <= b
  PROVE  Min({a, b}) = a /\ Min({b, a}) = a
<1>1. {a, b} \in SUBSET Int /\ {b, a} = {a, b} /\ a \in {a, b} /\ \A y \in {a, b} : a <= y
  OBVIOUS
<1> QED BY <1>1, MinIsReached

\* The smaller of two numbers.
LEMMA MinIsSmaller ==
  ASSUME NEW a \in Int, NEW b \in Int
  PROVE  /\ Min({a, b}) <= a /\ Min({a, b}) <= b
         /\ Min({a, b}) = a \/ Min({a, b}) = b
<1>1. CASE a <= b
  BY <1>1, MinOfTwo
<1>2. CASE b <= a
  <2>1. Min({a, b}) = b
    BY <1>2, MinOfTwo
  <2> QED BY <1>2, <2>1
<1> QED BY <1>1, <1>2

\* The set of the values of a function on a finite set is finite.
LEMMA ValuesAreFinite ==
  ASSUME NEW S, IsFiniteSet(S), NEW f
  PROVE  IsFiniteSet({f[x] : x \in S})
<1> DEFINE T == {f[x] : x \in S}
           g == [x \in S |-> f[x]]
<1>1. g \in [S -> T] /\ \A t \in T : \E x \in S : g[x] = t
  OBVIOUS
<1>2. g \in Surjection(S, T)
  BY <1>1, Fun_IsSurj
<1> QED BY <1>2, FS_Surjection

\* A function over 0..n can be defined by what it is at 0 and how each value
\* comes from the one before.
Recurs(g, n, base, step) == g[0] = base /\ \A m \in 1..n : g[m] = step[<<m, g[m - 1]>>]

\* Such a function exists: by induction on n.
LEMMA RecursionExists ==
  ASSUME NEW n \in Nat, NEW V, NEW base \in V, NEW step,
         \A mv \in (1..n) \X V : step[mv] \in V
  PROVE  \E g \in [0..n -> V] : Recurs(g, n, base, step)
<1> DEFINE Is(g, k) == g[0] = base /\ \A m \in 1..k : g[m] = step[<<m, g[m - 1]>>]
           N == {k \in Nat : k <= n => \E g \in [0..k -> V] : Is(g, k)}
<1>1. 0 \in N
  <2>1. [m \in 0..0 |-> base] \in [0..0 -> V] /\ Is([m \in 0..0 |-> base], 0)
    OBVIOUS
  <2> QED BY <2>1
<1>2. ASSUME NEW k \in Nat, k \in N PROVE k + 1 \in N
  <2> SUFFICES ASSUME k + 1 <= n PROVE \E g \in [0..(k + 1) -> V] : Is(g, k + 1)
    OBVIOUS
  <2>1. PICK g \in [0..k -> V] : Is(g, k)
    BY <1>2
  <2> DEFINE h == [m \in 0..(k + 1) |-> IF m <= k THEN g[m] ELSE step[<<k + 1, g[k]>>]]
  <2>2. <<k + 1, g[k]>> \in (1..n) \X V
    OBVIOUS
  <2>3. step[<<k + 1, g[k]>>] \in V
    BY <2>2
  <2>4. h \in [0..(k + 1) -> V]
    BY <2>3
  <2>5. \A m \in 0..k : h[m] = g[m]
    OBVIOUS
  <2>6. h[k + 1] = step[<<k + 1, h[k]>>]
    <3>1. h[k + 1] = step[<<k + 1, g[k]>>]
      OBVIOUS
    <3> HIDE DEF h
    <3> QED BY <2>5, <3>1
  <2> HIDE DEF h
  <2>7. ASSUME NEW m \in 1..(k + 1) PROVE h[m] = step[<<m, h[m - 1]>>]
    <3>1. CASE m = k + 1
      BY <2>6, <3>1
    <3>2. CASE m \in 1..k
      BY <2>1, <2>5, <3>2
    <3> QED BY <3>1, <3>2
  <2>8. Is(h, k + 1)
    BY <2>1, <2>5, <2>7
  <2> HIDE DEF Is
  <2> QED BY <2>4, <2>8
<1> HIDE DEF N
<1>3. n \in N
  BY <1>1, <1>2, SetInduction
<1> QED BY <1>3 DEF N, Recurs
=============================================================================
