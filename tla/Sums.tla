-------------------------------- MODULE Sums --------------------------------
(***************************************************************************)
(* What SumFunctionOnSet of the module Functions computes.                 *)
(***************************************************************************)
EXTENDS FiniteSetTheorems, TLAPS

\* g is the recursive function behind the sum of f, on the sets in Sets.
Unfolds(g, f, Sets) ==
    \A s \in Sets :
        g[s] = IF s = {} THEN 0
               ELSE f[CHOOSE x \in s : TRUE] + g[s \ {CHOOSE x \in s : TRUE}]

LEMMA LeastNumber ==
    ASSUME NEW T \in SUBSET Nat, T # {}
    PROVE  \E n \in T : \A m \in T : n <= m
  <1>1. PICK n \in T : \A m \in T : ~(<<m, n>> \in OpToRel(<, Nat))
    BY WFMin, NatLessThanWellFounded
  <1>2. \A m \in T : ~(m < n)
    BY <1>1 DEF OpToRel
  <1> QED
    BY <1>2

\* Induction over the subsets of a finite set.
LEMMA SubsetInduction ==
    ASSUME NEW S, IsFiniteSet(S), NEW Good,
           \A T \in SUBSET S : (\A x \in T : T \ {x} \in Good) => T \in Good
    PROVE  \A T \in SUBSET S : T \in Good
  <1>1. SUFFICES ASSUME (SUBSET S) \ Good # {}
                 PROVE  FALSE
    OBVIOUS
  <1>2. IsWellFoundedOn(StrictSubsetOrdering(S), SUBSET S)
    BY FS_StrictSubsetOrderingWellFounded, FS_FiniteSubsetsOfFinite
  <1>3. PICK T \in (SUBSET S) \ Good :
           \A U \in (SUBSET S) \ Good : ~(<<U, T>> \in StrictSubsetOrdering(S))
    <2>1. (SUBSET S) \ Good \subseteq SUBSET S
      OBVIOUS
    <2> QED
      BY <1>1, <1>2, <2>1, WFMin
  <1>4. ASSUME NEW x \in T
        PROVE  T \ {x} \in Good
    <2>1. T \ {x} \in SUBSET S /\ T \ {x} # T
      OBVIOUS
    <2>2. <<T \ {x}, T>> \in StrictSubsetOrdering(S)
      BY <2>1 DEF StrictSubsetOrdering
    <2> QED
      BY <1>3, <2>1, <2>2
  <1> QED
    BY <1>3, <1>4

LEMMA SumExpand ==
    ASSUME NEW f, NEW S
    PROVE  SumFunctionOnSet(f, S)
             = (CHOOSE g : g = [s \in SUBSET S |->
                   IF s = {} THEN 0
                   ELSE f[CHOOSE x \in s : TRUE] + g[s \ {CHOOSE x \in s : TRUE}]])[S]
  BY DEF SumFunctionOnSet, FoldFunctionOnSet, MapThenFoldSet

\* The recursion is well defined: it is so for the sets of up to n elements.
LEMMA Recursion ==
    ASSUME NEW f, NEW S, IsFiniteSet(S)
    PROVE  \E g : Unfolds(g, f, SUBSET S)
  <1> DEFINE Upto(n) == {s \in SUBSET S : Cardinality(s) <= n}
             Bad == {n \in Nat : ~ \E g : Unfolds(g, f, Upto(n))}
  <1>1. \A s \in SUBSET S : IsFiniteSet(s) /\ Cardinality(s) \in Nat
    BY FS_Subset, FS_CardinalityType
  <1>2. ASSUME Bad # {}
        PROVE  FALSE
    <2>1. PICK n \in Bad : \A m \in Bad : n <= m
      <3>1. Bad \in SUBSET Nat
        OBVIOUS
      <3> QED
        BY <1>2, <3>1, LeastNumber
    <2>2. CASE n = 0
      <3>1. \A s \in Upto(0) : s = {}
        BY <1>1, FS_EmptySet
      <3>2. Unfolds([s \in {{}} |-> 0], f, Upto(0))
        BY <3>1 DEF Unfolds
      <3> QED
        BY <2>1, <2>2, <3>2
    <2>3. CASE n > 0
      <3>1. n - 1 \in Nat /\ n - 1 \notin Bad
        <4>1. n \in Nat
          OBVIOUS
        <4>2. n - 1 \in Nat /\ ~(n <= n - 1)
          BY <2>3, <4>1
        <4> QED
          BY <2>1, <4>2
      <3>2. PICK g : Unfolds(g, f, Upto(n - 1))
        BY <3>1
      <3> DEFINE h == [s \in SUBSET S |->
                         IF Cardinality(s) <= n - 1 THEN g[s]
                         ELSE f[CHOOSE x \in s : TRUE] + g[s \ {CHOOSE x \in s : TRUE}]]
      <3>3. ASSUME NEW s \in Upto(n), s # {}
            PROVE  /\ h[s \ {CHOOSE x \in s : TRUE}] = g[s \ {CHOOSE x \in s : TRUE}]
                   /\ h[s] = f[CHOOSE x \in s : TRUE] + g[s \ {CHOOSE x \in s : TRUE}]
        <4> DEFINE c == CHOOSE x \in s : TRUE
        <4>1. c \in s
          BY <3>3
        <4>2. Cardinality(s \ {c}) = Cardinality(s) - 1
          BY <1>1, <4>1, FS_RemoveElement
        <4>3. s \ {c} \in SUBSET S /\ Cardinality(s \ {c}) <= n - 1
          BY <1>1, <2>1, <4>2
        <4>4. h[s \ {c}] = g[s \ {c}]
          BY <4>3
        <4>5. Cardinality(s) <= n - 1 => g[s] = f[c] + g[s \ {c}]
          BY <3>2, <3>3 DEF Unfolds
        <4> QED
          BY <4>4, <4>5
      <3>4. {} \in Upto(n) => h[{}] = 0
        <4>1. Cardinality({}) = 0
          BY FS_EmptySet
        <4>2. {} \in Upto(n - 1)
          BY <3>1, <4>1
        <4>3. g[{}] = 0
          BY <3>2, <4>2 DEF Unfolds
        <4> QED
          BY <4>2, <4>3
      <3>5. Unfolds(h, f, Upto(n))
        <4> HIDE DEF h
        <4> QED
          BY <3>3, <3>4 DEF Unfolds
      <3> QED
        BY <2>1, <3>5
    <2> QED
      BY <2>1, <2>2, <2>3
  <1>3. Cardinality(S) \in Nat
    BY <1>1
  <1>4. PICK g : Unfolds(g, f, Upto(Cardinality(S)))
    BY <1>2, <1>3
  <1>5. SUBSET S \subseteq Upto(Cardinality(S))
    BY FS_Subset
  <1> QED
    BY <1>4, <1>5 DEF Unfolds

\* Two such functions agree.
LEMMA RecursionUnique ==
    ASSUME NEW f, NEW S, IsFiniteSet(S), NEW g, NEW h,
           Unfolds(g, f, SUBSET S), Unfolds(h, f, SUBSET S)
    PROVE  g[S] = h[S]
  <1> DEFINE Good == {T \in SUBSET S : g[T] = h[T]}
  <1>1. ASSUME NEW T \in SUBSET S, \A x \in T : T \ {x} \in Good
        PROVE  T \in Good
    <2> DEFINE c == CHOOSE x \in T : TRUE
    <2>1. CASE T = {}
      BY <2>1 DEF Unfolds
    <2>2. CASE T # {}
      <3>1. c \in T
        BY <2>2
      <3>2. g[T \ {c}] = h[T \ {c}]
        BY <1>1, <3>1
      <3>3. g[T] = f[c] + g[T \ {c}] /\ h[T] = f[c] + h[T \ {c}]
        BY <2>2 DEF Unfolds
      <3> QED
        BY <3>2, <3>3
    <2> QED
      BY <2>1, <2>2
  <1>2. \A T \in SUBSET S : T \in Good
    <2> HIDE DEF Good
    <2> QED
      BY <1>1, SubsetInduction
  <1> QED
    BY <1>2

LEMMA SumIsRecursion ==
    ASSUME NEW f, NEW S, IsFiniteSet(S), NEW g, Unfolds(g, f, SUBSET S)
    PROVE  SumFunctionOnSet(f, S) = g[S]
  <1> DEFINE h == [s \in SUBSET S |-> g[s]]
             Sum == CHOOSE sum : sum = [s \in SUBSET S |->
                      IF s = {} THEN 0
                      ELSE f[CHOOSE x \in s : TRUE] + sum[s \ {CHOOSE x \in s : TRUE}]]
  <1>1. \A s \in SUBSET S : h[s] = IF s = {} THEN 0
               ELSE f[CHOOSE x \in s : TRUE] + h[s \ {CHOOSE x \in s : TRUE}]
    BY DEF Unfolds
  <1>2. h = [s \in SUBSET S |->
                      IF s = {} THEN 0
                      ELSE f[CHOOSE x \in s : TRUE] + h[s \ {CHOOSE x \in s : TRUE}]]
    BY <1>1
  <1>3. Sum = [s \in SUBSET S |->
                      IF s = {} THEN 0
                      ELSE f[CHOOSE x \in s : TRUE] + Sum[s \ {CHOOSE x \in s : TRUE}]]
    <2> HIDE DEF h
    <2> QED
      BY <1>2
  <1>4. Unfolds(Sum, f, SUBSET S)
    <2> HIDE DEF Sum
    <2> QED
      BY <1>3 DEF Unfolds
  <1> QED
    BY <1>4, SumExpand, RecursionUnique

-----------------------------------------------------------------------------
(* Sums of numbers *)

LEMMA SumEmpty == ASSUME NEW f PROVE SumFunctionOnSet(f, {}) = 0
  <1>1. IsFiniteSet({})
    BY FS_EmptySet
  <1>2. PICK g : Unfolds(g, f, SUBSET {})
    BY <1>1, Recursion
  <1> QED
    BY <1>1, <1>2, SumIsRecursion DEF Unfolds

\* The sum takes out one element, which the recursion picks.
LEMMA SumTakesOut ==
    ASSUME NEW f, NEW S, IsFiniteSet(S), S # {}
    PROVE  \E x \in S :
              SumFunctionOnSet(f, S) = f[x] + SumFunctionOnSet(f, S \ {x})
  <1> DEFINE c == CHOOSE x \in S : TRUE
  <1>1. PICK g : Unfolds(g, f, SUBSET S)
    BY Recursion
  <1>2. c \in S /\ g[S] = f[c] + g[S \ {c}]
    BY <1>1 DEF Unfolds
  <1>3. IsFiniteSet(S \ {c}) /\ Unfolds(g, f, SUBSET (S \ {c}))
    BY <1>1, FS_RemoveElement DEF Unfolds
  <1>4. SumFunctionOnSet(f, S) = g[S] /\ SumFunctionOnSet(f, S \ {c}) = g[S \ {c}]
    <2> HIDE DEF c
    <2> QED
      BY <1>1, <1>3, SumIsRecursion
  <1> QED
    BY <1>2, <1>4

\* A sum of numbers is one, and it does not matter which element is taken out.
LEMMA SumRemoveAll ==
    ASSUME NEW f, NEW S, IsFiniteSet(S), \A x \in S : f[x] \in Int
    PROVE  \A T \in SUBSET S :
              /\ SumFunctionOnSet(f, T) \in Int
              /\ \A x \in T : SumFunctionOnSet(f, T) = f[x] + SumFunctionOnSet(f, T \ {x})
  <1> DEFINE Sum(T) == SumFunctionOnSet(f, T)
             Good == {T \in SUBSET S : /\ \A U \in SUBSET T : Sum(U) \in Int
                                       /\ \A x \in T : Sum(T) = f[x] + Sum(T \ {x})}
  <1> HIDE DEF Sum
  <1>1. ASSUME NEW T \in SUBSET S, \A x \in T : T \ {x} \in Good
        PROVE  T \in Good
    <2>1. CASE T = {}
      BY <2>1, SumEmpty DEF Sum
    <2>2. CASE T # {}
      <3>1. PICK c \in T : Sum(T) = f[c] + Sum(T \ {c})
        <4>1. IsFiniteSet(T)
          BY FS_Subset
        <4> QED
          BY <2>2, <4>1, SumTakesOut DEF Sum
      <3>2. \A x \in T : Sum(T \ {x}) \in Int
        BY <1>1
      <3>3. ASSUME NEW x \in T, x # c
            PROVE  Sum(T) = f[x] + Sum(T \ {x})
        <4>1. Sum(T \ {c}) = f[x] + Sum((T \ {c}) \ {x})
          BY <1>1, <3>3
        <4>2. Sum(T \ {x}) = f[c] + Sum((T \ {x}) \ {c})
          BY <1>1, <3>3
        <4>3. (T \ {c}) \ {x} \in SUBSET (T \ {c}) /\ (T \ {x}) \ {c} = (T \ {c}) \ {x}
          OBVIOUS
        <4>4. Sum((T \ {c}) \ {x}) \in Int
          BY <1>1, <4>3
        <4>5. f[x] \in Int /\ f[c] \in Int
          OBVIOUS
        <4>6. PICK rest \in Int : rest = Sum((T \ {c}) \ {x})
          BY <4>4
        <4>7. Sum(T) = f[c] + (f[x] + rest)
          BY <3>1, <4>1, <4>6
        <4>8. Sum(T \ {x}) = f[c] + rest
          BY <4>2, <4>3, <4>6
        <4>9. f[c] + (f[x] + rest) = f[x] + (f[c] + rest)
          BY <4>5
        <4> QED
          BY <4>7, <4>8, <4>9
      <3>4. \A U \in SUBSET T : Sum(U) \in Int
        <4>1. Sum(T) \in Int
          BY <3>1, <3>2
        <4>2. ASSUME NEW U \in SUBSET T, U # T
              PROVE  \E x \in T : U \in SUBSET (T \ {x})
          BY <4>2
        <4> QED
          BY <1>1, <4>1, <4>2
      <3> QED
        BY <3>1, <3>3, <3>4
    <2> QED
      BY <2>1, <2>2
  <1>2. \A T \in SUBSET S : T \in Good
    <2> HIDE DEF Good
    <2> QED
      BY <1>1, SubsetInduction
  <1> QED
    BY <1>2 DEF Sum

LEMMA SumRemove ==
    ASSUME NEW f, NEW S, IsFiniteSet(S), \A x \in S : f[x] \in Int, NEW y \in S
    PROVE  SumFunctionOnSet(f, S) = f[y] + SumFunctionOnSet(f, S \ {y})
  BY SumRemoveAll

LEMMA SumInt ==
    ASSUME NEW f, NEW S, IsFiniteSet(S), \A x \in S : f[x] \in Int
    PROVE  SumFunctionOnSet(f, S) \in Int
  BY SumRemoveAll

\* The sum of larger numbers is larger.
LEMMA SumMonotonic ==
    ASSUME NEW f, NEW g, NEW S, IsFiniteSet(S),
           \A x \in S : f[x] \in Int /\ g[x] \in Int /\ f[x] <= g[x]
    PROVE  SumFunctionOnSet(f, S) <= SumFunctionOnSet(g, S)
  <1> DEFINE Good == {T \in SUBSET S : SumFunctionOnSet(f, T) <= SumFunctionOnSet(g, T)}
  <1>1. ASSUME NEW T \in SUBSET S, \A x \in T : T \ {x} \in Good
        PROVE  T \in Good
    <2>1. CASE T = {}
      BY <2>1, SumEmpty
    <2>2. CASE T # {}
      <3>1. PICK x \in T : TRUE
        BY <2>2
      <3>2. /\ SumFunctionOnSet(f, T) = f[x] + SumFunctionOnSet(f, T \ {x})
            /\ SumFunctionOnSet(g, T) = g[x] + SumFunctionOnSet(g, T \ {x})
            /\ SumFunctionOnSet(f, T \ {x}) \in Int
            /\ SumFunctionOnSet(g, T \ {x}) \in Int
        BY SumRemoveAll
      <3>3. SumFunctionOnSet(f, T \ {x}) <= SumFunctionOnSet(g, T \ {x})
        BY <1>1
      <3>4. f[x] \in Int /\ g[x] \in Int /\ f[x] <= g[x]
        OBVIOUS
      <3> QED
        BY <3>2, <3>3, <3>4
    <2> QED
      BY <2>1, <2>2
  <1>2. \A T \in SUBSET S : T \in Good
    <2> HIDE DEF Good
    <2> QED
      BY <1>1, SubsetInduction
  <1> QED
    BY <1>2

\* The sum of two functions is the sum of their sums.
LEMMA SumOfSums ==
    ASSUME NEW f, NEW g, NEW h, NEW S, IsFiniteSet(S),
           \A x \in S : f[x] \in Int /\ g[x] \in Int /\ h[x] = f[x] + g[x]
    PROVE  SumFunctionOnSet(h, S) = SumFunctionOnSet(f, S) + SumFunctionOnSet(g, S)
  <1> DEFINE Sum(k, T) == SumFunctionOnSet(k, T)
             Good == {T \in SUBSET S : Sum(h, T) = Sum(f, T) + Sum(g, T)}
  <1>1. \A T \in SUBSET S : /\ Sum(f, T) \in Int /\ Sum(g, T) \in Int /\ Sum(h, T) \in Int
                            /\ \A x \in T : /\ Sum(f, T) = f[x] + Sum(f, T \ {x})
                                            /\ Sum(g, T) = g[x] + Sum(g, T \ {x})
                                            /\ Sum(h, T) = h[x] + Sum(h, T \ {x})
    <2>1. \A x \in S : h[x] \in Int
      OBVIOUS
    <2> QED
      BY <2>1, SumRemoveAll
  <1>2. Sum(f, {}) = 0 /\ Sum(g, {}) = 0 /\ Sum(h, {}) = 0
    BY SumEmpty
  <1> HIDE DEF Sum
  <1>3. ASSUME NEW T \in SUBSET S, \A x \in T : T \ {x} \in Good
        PROVE  T \in Good
    <2>1. CASE T = {}
      BY <1>2, <2>1
    <2>2. CASE T # {}
      <3>1. PICK x \in T : TRUE
        BY <2>2
      <3>2. Sum(h, T \ {x}) = Sum(f, T \ {x}) + Sum(g, T \ {x})
        BY <1>3
      <3>3. f[x] \in Int /\ g[x] \in Int /\ h[x] = f[x] + g[x]
        OBVIOUS
      <3>4. Sum(f, T \ {x}) \in Int /\ Sum(g, T \ {x}) \in Int
        BY <1>1
      <3>5. /\ Sum(f, T) = f[x] + Sum(f, T \ {x})
            /\ Sum(g, T) = g[x] + Sum(g, T \ {x})
            /\ Sum(h, T) = h[x] + Sum(h, T \ {x})
        BY <1>1
      <3> QED
        BY <3>2, <3>3, <3>4, <3>5
    <2> QED
      BY <2>1, <2>2
  <1>4. \A T \in SUBSET S : T \in Good
    <2> HIDE DEF Good
    <2> QED
      BY <1>3, SubsetInduction
  <1> QED
    BY <1>4 DEF Sum

\* Functions that agree have the same sum.
LEMMA SumEqual ==
    ASSUME NEW f, NEW g, NEW S, IsFiniteSet(S),
           \A x \in S : f[x] \in Int /\ g[x] = f[x]
    PROVE  SumFunctionOnSet(g, S) = SumFunctionOnSet(f, S)
  <1>1. \A x \in S : g[x] \in Int /\ g[x] <= f[x] /\ f[x] <= g[x]
    OBVIOUS
  <1> QED
    BY <1>1, SumMonotonic, SumInt

\* A change of one value changes the sum by as much.
LEMMA SumChange ==
    ASSUME NEW f, NEW g, NEW S, IsFiniteSet(S), NEW y \in S,
           \A x \in S : f[x] \in Int /\ g[x] \in Int,
           \A x \in S \ {y} : g[x] = f[x]
    PROVE  SumFunctionOnSet(g, S) = SumFunctionOnSet(f, S) + (g[y] - f[y])
  <1>1. IsFiniteSet(S \ {y})
    BY FS_RemoveElement
  <1>2. SumFunctionOnSet(g, S \ {y}) = SumFunctionOnSet(f, S \ {y})
    BY <1>1, SumEqual
  <1>3. SumFunctionOnSet(g, S) = g[y] + SumFunctionOnSet(g, S \ {y})
    BY SumRemove
  <1>4. SumFunctionOnSet(f, S) = f[y] + SumFunctionOnSet(f, S \ {y})
    BY SumRemove
  <1>5. SumFunctionOnSet(f, S \ {y}) \in Int
    BY <1>1, SumInt
  <1> QED
    BY <1>2, <1>3, <1>4, <1>5

LEMMA SumZero ==
    ASSUME NEW f, NEW S, IsFiniteSet(S), \A x \in S : f[x] = 0
    PROVE  SumFunctionOnSet(f, S) = 0
  <1>1. SumFunctionOnSet(f, S) = SumFunctionOnSet(f, S) + SumFunctionOnSet(f, S)
    BY SumOfSums
  <1>2. SumFunctionOnSet(f, S) \in Int
    BY SumInt
  <1> QED
    BY <1>1, <1>2

=============================================================================
