------------------------------ MODULE RulesProofs ------------------------------
(***************************************************************************)
(* Rules, proved for inputs of any size.                                   *)
(***************************************************************************)
EXTENDS Rules, FiniteSetTheorems, SequenceTheorems, WellFoundedInduction, TLAPS

-----------------------------------------------------------------------------
(***************************************************************************)
(* Sums over finite sets.  The library's folds take one element after      *)
(* another as CHOOSE finds them; that the order does not matter has to be  *)
(* proved before anything can be added up.                                 *)
(***************************************************************************)
Plus(a, b) == a + b
Counting == INSTANCE Folding WITH Start <- 0, Advance <- Plus

\* f over S, added up.
Sum(f, S) == FoldFunctionOnSet(LAMBDA a, b : a + b, 0, f, S)

One(s) == CHOOSE x \in s : TRUE

\* g gives the sum of f over every part of S.
Adds(g, f, S) ==
    g = [s \in SUBSET S |-> IF s = {} THEN 0 ELSE f[One(s)] + g[s \ {One(s)}]]

\* Of the parts of a finite set with some property, one has no part with it
\* that lacks just one of its elements.
LEMMA SmallestPart ==
  ASSUME NEW S, IsFiniteSet(S), NEW Bad \in SUBSET SUBSET S, Bad # {}
  PROVE  \E T \in Bad : \A x \in T : T \ {x} \notin Bad
<1>1. IsWellFoundedOn(StrictSubsetOrdering(S), SUBSET S)
  BY FS_StrictSubsetOrderingWellFounded, FS_FiniteSubsetsOfFinite
<1>2. PICK T \in Bad : \A U \in Bad : ~(<<U, T>> \in StrictSubsetOrdering(S))
  BY <1>1, WFMin
<1>3. ASSUME NEW x \in T PROVE T \ {x} \notin Bad
  <2>1. SUFFICES ASSUME T \ {x} \in Bad PROVE FALSE
    OBVIOUS
  <2>2. <<T \ {x}, T>> \in StrictSubsetOrdering(S)
    BY DEF StrictSubsetOrdering
  <2> QED BY <1>2, <2>1, <2>2
<1> QED BY <1>3

\* What the empty set has, and each larger set if it has it with any one
\* element less, every finite set has.
LEMMA PartInduction ==
  ASSUME NEW S, IsFiniteSet(S), NEW P \in SUBSET SUBSET S, {} \in P,
         \A T \in SUBSET S : \A x \in T : T \ {x} \in P => T \in P
  PROVE  \A T \in SUBSET S : T \in P
<1> DEFINE Bad == (SUBSET S) \ P
<1>1. SUFFICES ASSUME Bad # {} PROVE FALSE
  OBVIOUS
<1>2. Bad \in SUBSET SUBSET S
  OBVIOUS
<1> HIDE DEF Bad
<1>3. PICK T \in Bad : \A x \in T : T \ {x} \notin Bad
  BY <1>1, <1>2, SmallestPart
<1>4. T \in SUBSET S /\ T \notin P /\ T # {}
  BY <1>3 DEF Bad
<1>5. PICK x \in T : TRUE
  BY <1>4
<1>6. T \ {x} \in P
  BY <1>3, <1>4 DEF Bad
<1> QED BY <1>4, <1>6

\* There are such sums, for parts of one more element at a time.
LEMMA AddsExists ==
  ASSUME NEW f, NEW S, IsFiniteSet(S)
  PROVE  \E g : Adds(g, f, S)
<1> DEFINE Small(n) == {s \in SUBSET S : Cardinality(s) <= n}
           Upto(g, n) == g = [s \in Small(n) |->
                                IF s = {} THEN 0 ELSE f[One(s)] + g[s \ {One(s)}]]
           P == {n \in Nat : \E g : Upto(g, n)}
<1>1. ASSUME NEW s \in SUBSET S, s # {}
      PROVE  /\ One(s) \in s /\ Cardinality(s) \in Nat
             /\ Cardinality(s \ {One(s)}) = Cardinality(s) - 1
  <2>1. IsFiniteSet(s) /\ One(s) \in s
    BY <1>1, FS_Subset DEF One
  <2> QED BY <2>1, FS_RemoveElement, FS_CardinalityType
<1>2. \A s \in SUBSET S : Cardinality(s) \in Nat /\ (Cardinality(s) = 0 <=> s = {})
  BY FS_Subset, FS_EmptySet, FS_CardinalityType
<1>3. 0 \in P
  <2> DEFINE g == [s \in Small(0) |-> 0]
  <2>1. \A s \in Small(0) : s = {}
    BY <1>2
  <2>2. g = [s \in Small(0) |-> IF s = {} THEN 0 ELSE f[One(s)] + g[s \ {One(s)}]]
    BY <2>1
  <2> QED BY <2>2
<1>4. ASSUME NEW n \in P PROVE n + 1 \in P
  <2>1. PICK g : Upto(g, n)
    OBVIOUS
  <2> DEFINE h == [s \in Small(n + 1) |-> IF s = {} THEN 0 ELSE f[One(s)] + g[s \ {One(s)}]]
  <2>2. ASSUME NEW s \in Small(n) PROVE h[s] = g[s]
    <3>1. s \in Small(n + 1)
      BY <1>2
    <3> QED BY <2>1, <3>1
  <2>3. ASSUME NEW s \in Small(n + 1)
        PROVE  h[s] = IF s = {} THEN 0 ELSE f[One(s)] + h[s \ {One(s)}]
    <3>1. CASE s = {}
      BY <3>1
    <3>2. CASE s # {}
      <4>1. s \ {One(s)} \in Small(n)
        BY <1>1, <3>2
      <4>2. h[s \ {One(s)}] = g[s \ {One(s)}]
        BY <2>2, <4>1
      <4>3. h[s] = f[One(s)] + g[s \ {One(s)}]
        BY <3>2
      <4> QED BY <3>2, <4>2, <4>3
    <3> QED BY <3>1, <3>2
  <2> HIDE DEF Small
  <2>4. Upto(h, n + 1)
    BY <2>3
  <2> HIDE DEF h, Upto
  <2> QED BY <2>4
<1> HIDE DEF P
<1>5. Cardinality(S) \in P
  <2>1. P \in SUBSET Nat
    BY DEF P
  <2>2. \A n \in Nat : n \in P
    BY <1>3, <1>4, <2>1, Counting!Induction
  <2> QED BY <2>2, FS_CardinalityType
<1>6. PICK g : Upto(g, Cardinality(S))
  BY <1>5 DEF P
<1>7. Small(Cardinality(S)) = SUBSET S
  BY FS_Subset
<1> HIDE DEF Small
<1> QED BY <1>6, <1>7 DEF Adds

\* What a sum of one element more comes to, as the fold goes.
LEMMA AddsEntries ==
  ASSUME NEW f, NEW S, NEW g, Adds(g, f, S)
  PROVE  /\ g[{}] = 0
         /\ \A s \in SUBSET S : s # {} => One(s) \in s /\ g[s] = f[One(s)] + g[s \ {One(s)}]
<1> DEFINE h == [s \in SUBSET S |-> IF s = {} THEN 0 ELSE f[One(s)] + g[s \ {One(s)}]]
<1>1. g = h
  BY DEF Adds
<1>2. h[{}] = 0
  OBVIOUS
<1>3. ASSUME NEW s \in SUBSET S, s # {}
      PROVE  One(s) \in s /\ h[s] = f[One(s)] + g[s \ {One(s)}]
  BY <1>3 DEF One
<1> HIDE DEF h
<1> QED BY <1>1, <1>2, <1>3

\* Sums of what agrees, over sets that overlap, agree where they do.
LEMMA AddsAgree ==
  ASSUME NEW S, IsFiniteSet(S), NEW T, NEW f, NEW k, \A x \in S : f[x] = k[x],
         S \subseteq T, NEW g, Adds(g, f, S), NEW h, Adds(h, k, T)
  PROVE  g[S] = h[S]
<1> DEFINE Bad == {s \in SUBSET S : g[s] # h[s]}
<1>1. SUFFICES ASSUME Bad # {} PROVE FALSE
  OBVIOUS
<1>2. PICK s \in Bad : \A x \in s : s \ {x} \notin Bad
  <2>1. Bad \in SUBSET SUBSET S
    OBVIOUS
  <2> HIDE DEF Bad
  <2> QED BY <1>1, <2>1, SmallestPart
<1>3. /\ g[{}] = 0
      /\ \A t \in SUBSET S : t # {} => One(t) \in t /\ g[t] = f[One(t)] + g[t \ {One(t)}]
  <2>1. Adds(g, f, S)
    OBVIOUS
  <2> QED BY ONLY <2>1, AddsEntries
<1>4. /\ h[{}] = 0
      /\ \A t \in SUBSET T : t # {} => One(t) \in t /\ h[t] = k[One(t)] + h[t \ {One(t)}]
  <2>1. Adds(h, k, T)
    OBVIOUS
  <2> QED BY ONLY <2>1, AddsEntries
<1>5. s # {}
  BY <1>3, <1>4
<1>6. g[s \ {One(s)}] = h[s \ {One(s)}] /\ One(s) \in S
  BY <1>2, <1>3, <1>5
<1> QED BY <1>3, <1>4, <1>5, <1>6

\* The sum is what any such fold gives.
LEMMA SumIsAny ==
  ASSUME NEW S, IsFiniteSet(S), NEW f, NEW k, \A x \in S : f[x] = k[x],
         NEW g, Adds(g, k, S)
  PROVE  Sum(f, S) = g[S]
<1> DEFINE iter == CHOOSE h : Adds(h, f, S)
<1>1. Adds(iter, f, S)
  BY AddsExists
<1>2. Sum(f, S) = iter[S]
  BY DEF Sum, FoldFunctionOnSet, MapThenFoldSet, Adds, One
<1> HIDE DEF iter
<1>3. iter[S] = g[S]
  BY <1>1, AddsAgree
<1> QED BY <1>2, <1>3

\* Two lists that agree on a set have the same sum over it.
LEMMA SumAgrees ==
  ASSUME NEW S, IsFiniteSet(S), NEW f, NEW k, \A x \in S : f[x] = k[x]
  PROVE  Sum(f, S) = Sum(k, S)
<1>1. PICK g : Adds(g, k, S)
  BY AddsExists
<1>2. Sum(f, S) = g[S] /\ Sum(k, S) = g[S]
  BY <1>1, SumIsAny
<1> QED BY <1>2

\* A sum of integers, taken apart at any element.
LEMMA Sums ==
  ASSUME NEW S, IsFiniteSet(S), NEW f, \A x \in S : f[x] \in Int
  PROVE  /\ Sum(f, {}) = 0
         /\ \A T \in SUBSET S : Sum(f, T) \in Int
         /\ \A T \in SUBSET S : \A x \in T : Sum(f, T) = f[x] + Sum(f, T \ {x})
<1>1. PICK g : Adds(g, f, S)
  BY AddsExists
<1>2. /\ g[{}] = 0
      /\ \A s \in SUBSET S : s # {} => One(s) \in s /\ g[s] = f[One(s)] + g[s \ {One(s)}]
  BY <1>1, AddsEntries
<1>3. \A T \in SUBSET S : g[T] \in Int
  <2> DEFINE Bad == {s \in SUBSET S : g[s] \notin Int}
  <2>1. SUFFICES ASSUME Bad # {} PROVE FALSE
    OBVIOUS
  <2>2. PICK s \in Bad : \A x \in s : s \ {x} \notin Bad
    <3>1. Bad \in SUBSET SUBSET S
      OBVIOUS
    <3> HIDE DEF Bad
    <3> QED BY <2>1, <3>1, SmallestPart
  <2>3. s # {}
    BY <1>2, <2>2
  <2>4. One(s) \in s /\ g[s] = f[One(s)] + g[s \ {One(s)}]
    BY <1>2, <2>3
  <2>5. g[s \ {One(s)}] \in Int /\ f[One(s)] \in Int
    BY <2>2, <2>4
  <2> QED BY <2>4, <2>5
<1>4. \A T \in SUBSET S : \A x \in T : g[T] = f[x] + g[T \ {x}]
  <2> DEFINE Bad == {s \in SUBSET S : ~\A x \in s : g[s] = f[x] + g[s \ {x}]}
  <2>1. SUFFICES ASSUME Bad # {} PROVE FALSE
    <3>1. ASSUME Bad = {}, NEW T \in SUBSET S PROVE \A x \in T : g[T] = f[x] + g[T \ {x}]
      <4>1. T \notin Bad
        BY <3>1
      <4> QED BY <4>1
    <3> HIDE DEF Bad
    <3> QED BY <3>1
  <2>2. PICK s \in Bad : \A x \in s : s \ {x} \notin Bad
    <3>1. Bad \in SUBSET SUBSET S
      OBVIOUS
    <3> HIDE DEF Bad
    <3> QED BY <2>1, <3>1, SmallestPart
  <2>3. PICK x \in s : g[s] # f[x] + g[s \ {x}]
    BY <2>2
  <2> DEFINE y == One(s)
  <2>4. y \in s /\ g[s] = f[y] + g[s \ {y}]
    BY <1>2
  <2> HIDE DEF y
  <2>5. x # y
    BY <2>3, <2>4
  <2>6. g[s \ {y}] = f[x] + g[(s \ {y}) \ {x}]
    <3>1. s \ {y} \notin Bad /\ s \ {y} \in SUBSET S /\ x \in s \ {y}
      BY <2>2, <2>4, <2>5
    <3> QED BY <3>1
  <2>7. g[s \ {x}] = f[y] + g[(s \ {x}) \ {y}]
    <3>1. s \ {x} \notin Bad /\ s \ {x} \in SUBSET S /\ y \in s \ {x}
      BY <2>2, <2>4, <2>5
    <3> QED BY <3>1
  <2>8. g[(s \ {x}) \ {y}] = g[(s \ {y}) \ {x}]
    <3>1. (s \ {x}) \ {y} = (s \ {y}) \ {x}
      OBVIOUS
    <3> QED BY <3>1
  <2>9. /\ g[(s \ {y}) \ {x}] \in Int /\ f[x] \in Int /\ f[y] \in Int
        /\ g[s \ {x}] \in Int
    <3>1. (s \ {y}) \ {x} \in SUBSET S /\ s \ {x} \in SUBSET S /\ x \in S /\ y \in S
      BY <2>4
    <3> QED BY <1>3, <3>1
  <2> HIDE DEF Bad
  <2> QED BY <2>3, <2>4, <2>6, <2>7, <2>8, <2>9
<1>5. ASSUME NEW T \in SUBSET S PROVE Sum(f, T) = g[T]
  <2>1. IsFiniteSet(T)
    BY FS_Subset
  <2>2. PICK h : Adds(h, f, T)
    BY <2>1, AddsExists
  <2>3. Sum(f, T) = h[T]
    BY <2>1, <2>2, SumIsAny
  <2>4. h[T] = g[T]
    BY <1>1, <2>1, <2>2, AddsAgree
  <2> QED BY <2>3, <2>4
<1>6. ASSUME NEW T \in SUBSET S, NEW x \in T PROVE Sum(f, T) = f[x] + Sum(f, T \ {x})
  BY <1>4, <1>5
<1> QED BY <1>2, <1>3, <1>5, <1>6

\* A sum of sums is the sum.
LEMMA SumPlus ==
  ASSUME NEW S, IsFiniteSet(S), NEW f, NEW k, NEW h,
         \A x \in S : f[x] \in Int /\ k[x] \in Int /\ h[x] = f[x] + k[x]
  PROVE  Sum(h, S) = Sum(f, S) + Sum(k, S)
<1> DEFINE P == {T \in SUBSET S : Sum(h, T) = Sum(f, T) + Sum(k, T)}
<1>1. \A x \in S : h[x] \in Int
  OBVIOUS
<1>2. /\ Sum(f, {}) = 0 /\ Sum(k, {}) = 0 /\ Sum(h, {}) = 0
      /\ \A T \in SUBSET S : Sum(f, T) \in Int /\ Sum(k, T) \in Int
      /\ \A T \in SUBSET S : \A x \in T : /\ Sum(f, T) = f[x] + Sum(f, T \ {x})
                                          /\ Sum(k, T) = k[x] + Sum(k, T \ {x})
                                          /\ Sum(h, T) = h[x] + Sum(h, T \ {x})
  <2>1. /\ Sum(h, {}) = 0
        /\ \A T \in SUBSET S : \A x \in T : Sum(h, T) = h[x] + Sum(h, T \ {x})
    BY <1>1, Sums
  <2>2. /\ Sum(f, {}) = 0 /\ \A T \in SUBSET S : Sum(f, T) \in Int
        /\ \A T \in SUBSET S : \A x \in T : Sum(f, T) = f[x] + Sum(f, T \ {x})
    <3>1. \A x \in S : f[x] \in Int
      OBVIOUS
    <3> QED BY ONLY <3>1, IsFiniteSet(S), Sums
  <2>3. /\ Sum(k, {}) = 0 /\ \A T \in SUBSET S : Sum(k, T) \in Int
        /\ \A T \in SUBSET S : \A x \in T : Sum(k, T) = k[x] + Sum(k, T \ {x})
    <3>1. \A x \in S : k[x] \in Int
      OBVIOUS
    <3> QED BY ONLY <3>1, IsFiniteSet(S), Sums
  <2> QED BY <2>1, <2>2, <2>3
<1>3. {} \in P
  BY <1>2
<1>4. ASSUME NEW T \in SUBSET S, NEW x \in T, T \ {x} \in P PROVE T \in P
  <2>1. /\ Sum(f, T) = f[x] + Sum(f, T \ {x})
        /\ Sum(k, T) = k[x] + Sum(k, T \ {x})
        /\ Sum(h, T) = h[x] + Sum(h, T \ {x})
    BY <1>2
  <2>2. /\ Sum(f, T \ {x}) \in Int /\ Sum(k, T \ {x}) \in Int
        /\ x \in S /\ T \ {x} \in SUBSET S
    BY <1>2
  <2>3. Sum(h, T \ {x}) = Sum(f, T \ {x}) + Sum(k, T \ {x})
    BY <1>4
  <2> QED BY <2>1, <2>2, <2>3
<1> HIDE DEF P
<1>5. P \in SUBSET SUBSET S
  BY DEF P
<1>6. S \in P
  BY <1>3, <1>4, <1>5, PartInduction
<1> QED BY <1>6 DEF P

\* A common factor can be taken out.
LEMMA SumTimes ==
  ASSUME NEW S, IsFiniteSet(S), NEW c \in Int, NEW f, NEW h,
         \A x \in S : f[x] \in Int /\ h[x] = c * f[x]
  PROVE  Sum(h, S) = c * Sum(f, S)
<1> DEFINE P == {T \in SUBSET S : Sum(h, T) = c * Sum(f, T)}
<1>1. \A x \in S : h[x] \in Int
  OBVIOUS
<1>2. /\ Sum(f, {}) = 0 /\ Sum(h, {}) = 0
      /\ \A T \in SUBSET S : Sum(f, T) \in Int
      /\ \A T \in SUBSET S : \A x \in T : /\ Sum(f, T) = f[x] + Sum(f, T \ {x})
                                          /\ Sum(h, T) = h[x] + Sum(h, T \ {x})
  BY <1>1, Sums
<1>3. {} \in P
  BY <1>2
<1>4. ASSUME NEW T \in SUBSET S, NEW x \in T, T \ {x} \in P PROVE T \in P
  <2>1. /\ Sum(f, T) = f[x] + Sum(f, T \ {x})
        /\ Sum(h, T) = h[x] + Sum(h, T \ {x})
    BY <1>2
  <2>2. Sum(f, T \ {x}) \in Int /\ f[x] \in Int /\ h[x] = c * f[x]
    <3>1. x \in S /\ T \ {x} \in SUBSET S
      OBVIOUS
    <3> QED BY <1>2, <3>1
  <2>3. Sum(h, T \ {x}) = c * Sum(f, T \ {x})
    BY <1>4
  <2>4. \A a, b \in Int : c * (a + b) = c * a + c * b
    OBVIOUS
  <2>5. c * Sum(f, T) = c * f[x] + c * Sum(f, T \ {x})
    BY <2>1, <2>2, <2>4
  <2> QED BY <2>1, <2>2, <2>3, <2>5
<1> HIDE DEF P
<1>5. P \in SUBSET SUBSET S
  BY DEF P
<1>6. S \in P
  BY <1>3, <1>4, <1>5, PartInduction
<1> QED BY <1>6 DEF P

\* What is no more in each place is no more in all.
LEMMA SumOrder ==
  ASSUME NEW S, IsFiniteSet(S), NEW f, NEW k,
         \A x \in S : f[x] \in Int /\ k[x] \in Int /\ f[x] <= k[x]
  PROVE  Sum(f, S) <= Sum(k, S)
<1> DEFINE P == {T \in SUBSET S : Sum(f, T) <= Sum(k, T)}
<1>1. /\ Sum(f, {}) = 0 /\ Sum(k, {}) = 0
      /\ \A T \in SUBSET S : Sum(f, T) \in Int /\ Sum(k, T) \in Int
      /\ \A T \in SUBSET S : \A x \in T : /\ Sum(f, T) = f[x] + Sum(f, T \ {x})
                                          /\ Sum(k, T) = k[x] + Sum(k, T \ {x})
  BY Sums
<1>2. {} \in P
  BY <1>1
<1>3. ASSUME NEW T \in SUBSET S, NEW x \in T, T \ {x} \in P PROVE T \in P
  <2>1. /\ Sum(f, T) = f[x] + Sum(f, T \ {x})
        /\ Sum(k, T) = k[x] + Sum(k, T \ {x})
    BY <1>1
  <2>2. /\ Sum(f, T \ {x}) \in Int /\ Sum(k, T \ {x}) \in Int
        /\ f[x] \in Int /\ k[x] \in Int /\ f[x] <= k[x]
    <3>1. x \in S /\ T \ {x} \in SUBSET S
      OBVIOUS
    <3> QED BY <1>1, <3>1
  <2>3. Sum(f, T \ {x}) <= Sum(k, T \ {x})
    BY <1>3
  <2> QED BY <2>1, <2>2, <2>3
<1> HIDE DEF P
<1>4. P \in SUBSET SUBSET S
  BY DEF P
<1>5. S \in P
  BY <1>2, <1>3, <1>4, PartInduction
<1> QED BY <1>5 DEF P

\* Counting is adding ones.
LEMMA SumCounts ==
  ASSUME NEW S, IsFiniteSet(S), NEW U \in SUBSET S,
         NEW f, \A x \in S : f[x] = IF x \in U THEN 1 ELSE 0
  PROVE  Sum(f, S) = Cardinality(U)
<1> DEFINE P == {T \in SUBSET S : Sum(f, T) = Cardinality(T \cap U)}
<1>1. /\ Sum(f, {}) = 0
      /\ \A T \in SUBSET S : \A x \in T : Sum(f, T) = f[x] + Sum(f, T \ {x})
  BY Sums
<1>2. {} \in P
  <2>1. {} \cap U = {}
    OBVIOUS
  <2> QED BY <1>1, <2>1, FS_EmptySet
<1>3. ASSUME NEW T \in SUBSET S, NEW x \in T, T \ {x} \in P PROVE T \in P
  <2>1. Sum(f, T) = f[x] + Sum(f, T \ {x}) /\ Sum(f, T \ {x}) = Cardinality((T \ {x}) \cap U)
    BY <1>1, <1>3
  <2>2. IsFiniteSet(T \cap U) /\ Cardinality(T \cap U) \in Nat
    BY FS_Subset, FS_CardinalityType
  <2>3. CASE x \in U
    <3> DEFINE V == T \cap U
    <3>1. (T \ {x}) \cap U = V \ {x} /\ x \in V
      BY <2>3
    <3>2. IsFiniteSet(V)
      BY <2>2
    <3> HIDE DEF V
    <3>3. Cardinality(V \ {x}) = Cardinality(V) - 1
      BY <3>1, <3>2, FS_RemoveElement
    <3>4. Cardinality((T \ {x}) \cap U) = Cardinality(T \cap U) - 1
      BY <3>1, <3>3 DEF V
    <3> QED BY <2>1, <2>2, <2>3, <3>4
  <2>4. CASE x \notin U
    <3>1. (T \ {x}) \cap U = T \cap U
      BY <2>4
    <3> QED BY <2>1, <2>2, <2>4, <3>1
  <2> QED BY <2>3, <2>4
<1> HIDE DEF P
<1>4. P \in SUBSET SUBSET S
  BY DEF P
<1>5. S \in P
  BY <1>2, <1>3, <1>4, PartInduction
<1>6. S \cap U = U
  OBVIOUS
<1> QED BY <1>5, <1>6 DEF P

\* Two heaps that share nothing.
LEMMA SumUnion ==
  ASSUME NEW S, IsFiniteSet(S), NEW f, \A x \in S : f[x] \in Int,
         NEW A \in SUBSET S, NEW B \in SUBSET S, A \cap B = {}
  PROVE  Sum(f, A \cup B) = Sum(f, A) + Sum(f, B)
<1> DEFINE P == {T \in SUBSET A : Sum(f, T \cup B) = Sum(f, T) + Sum(f, B)}
<1>1. /\ Sum(f, {}) = 0
      /\ \A T \in SUBSET S : Sum(f, T) \in Int
      /\ \A T \in SUBSET S : \A x \in T : Sum(f, T) = f[x] + Sum(f, T \ {x})
  BY Sums
<1>2. {} \in P
  <2>1. {} \cup B = B /\ Sum(f, B) \in Int
    BY <1>1
  <2> QED BY <1>1, <2>1
<1>3. ASSUME NEW T \in SUBSET A, NEW x \in T, T \ {x} \in P PROVE T \in P
  <2>1. Sum(f, (T \cup B) \ {x}) = Sum(f, (T \ {x}) \cup B)
    <3>1. (T \cup B) \ {x} = (T \ {x}) \cup B
      OBVIOUS
    <3> QED BY <3>1
  <2>2. /\ Sum(f, T \cup B) = f[x] + Sum(f, (T \cup B) \ {x})
        /\ Sum(f, T) = f[x] + Sum(f, T \ {x})
    <3>1. T \cup B \in SUBSET S /\ x \in T \cup B /\ T \in SUBSET S
      OBVIOUS
    <3> QED BY <1>1, <3>1
  <2>3. Sum(f, T \ {x}) \in Int /\ Sum(f, B) \in Int /\ f[x] \in Int
    BY <1>1
  <2>4. Sum(f, (T \ {x}) \cup B) = Sum(f, T \ {x}) + Sum(f, B)
    BY <1>3
  <2>5. Sum(f, T \cup B) = Sum(f, T) + Sum(f, B)
    BY <2>1, <2>2, <2>3, <2>4
  <2> QED BY <2>5
<1> HIDE DEF P
<1>4. P \in SUBSET SUBSET A /\ IsFiniteSet(A)
  BY FS_Subset DEF P
<1>5. A \in P
  BY <1>2, <1>3, <1>4, PartInduction
<1> QED BY <1>5 DEF P

\* Each of S is in just one heap, part[p] for some p, and each comes to d[p].
Heaps(S, f, I, part, d) ==
    /\ IsFiniteSet(S) /\ \A x \in S : f[x] \in Int
    /\ IsFiniteSet(I)
    /\ \A p \in I : part[p] \in SUBSET S /\ d[p] = Sum(f, part[p])
    /\ \A p \in I, q \in I : p # q => part[p] \cap part[q] = {}
    /\ \A x \in S : \E p \in I : x \in part[p]

\* A sum, heap by heap.
LEMMA SumHeaps ==
  ASSUME NEW S, NEW f, NEW I, NEW part, NEW d, Heaps(S, f, I, part, d)
  PROVE  Sum(d, I) = Sum(f, S)
<1>0. /\ IsFiniteSet(S) /\ \A x \in S : f[x] \in Int
      /\ IsFiniteSet(I)
      /\ \A p \in I : part[p] \in SUBSET S /\ d[p] = Sum(f, part[p])
      /\ \A p \in I, q \in I : p # q => part[p] \cap part[q] = {}
      /\ \A x \in S : \E p \in I : x \in part[p]
  BY DEF Heaps
<1> USE <1>0
<1> DEFINE All(J) == UNION {part[p] : p \in J}
           P == {J \in SUBSET I : Sum(d, J) = Sum(f, All(J))}
<1>1. Sum(f, {}) = 0 /\ \A T \in SUBSET S : Sum(f, T) \in Int
  BY Sums
<1>2. \A p \in I : d[p] \in Int
  BY <1>1
<1>3. /\ Sum(d, {}) = 0
      /\ \A J \in SUBSET I : \A p \in J : Sum(d, J) = d[p] + Sum(d, J \ {p})
  BY <1>2, Sums
<1>4. {} \in P
  <2>1. All({}) = {}
    OBVIOUS
  <2> QED BY <1>1, <1>3, <2>1
<1>5. ASSUME NEW J \in SUBSET I, NEW p \in J, J \ {p} \in P PROVE J \in P
  <2>1. All(J) = part[p] \cup All(J \ {p})
    OBVIOUS
  <2>2. part[p] \cap All(J \ {p}) = {} /\ All(J \ {p}) \in SUBSET S /\ part[p] \in SUBSET S
    OBVIOUS
  <2>3. Sum(d, J) = d[p] + Sum(d, J \ {p}) /\ d[p] = Sum(f, part[p])
    BY <1>3
  <2>4. Sum(d, J \ {p}) = Sum(f, All(J \ {p}))
    BY <1>5
  <2> HIDE DEF All
  <2>5. Sum(f, part[p] \cup All(J \ {p})) = Sum(f, part[p]) + Sum(f, All(J \ {p}))
    <3> DEFINE A == part[p]
               B == All(J \ {p})
    <3>1. A \in SUBSET S /\ B \in SUBSET S /\ A \cap B = {}
      BY <2>2
    <3> HIDE DEF A, B
    <3>2. Sum(f, A \cup B) = Sum(f, A) + Sum(f, B)
      BY <3>1, SumUnion
    <3> QED BY <3>2 DEF A, B
  <2> QED BY <2>1, <2>3, <2>4, <2>5
<1> HIDE DEF P
<1>6. P \in SUBSET SUBSET I
  BY DEF P
<1>7. I \in P
  BY <1>4, <1>5, <1>6, PartInduction
<1>8. All(I) = S
  OBVIOUS
<1> QED BY <1>7, <1>8 DEF P

-----------------------------------------------------------------------------
(***************************************************************************)
(* Division.                                                               *)
(***************************************************************************)

\* Products keep the order, and the sign.
LEMMA ProductLaws ==
  /\ \A a, b \in Int : a * b \in Int /\ a * b = b * a
  /\ \A a, b, c \in Int : a * (b + c) = a * b + a * c /\ a * (b - c) = a * b - a * c
  /\ \A a, b, c \in Int : a >= 0 /\ b <= c => a * b <= a * c
  /\ \A a, b \in Int : a >= 0 /\ b >= 0 => a * b >= 0
  /\ \A a, b \in Int : a > 0 /\ b > 0 => a * b > 0
  /\ \A a, b \in Int : a * (-b) = -(a * b)
OBVIOUS

\* What is less in so many whole is less.
LEMMA Cancels ==
  ASSUME NEW c \in Int, c > 0, NEW a \in Int, NEW b \in Int
  PROVE  /\ c * a < c * b => a < b
         /\ c * a <= c * b => a <= b
         /\ c * a = c * b => a = b
<1>1. c * a < c * b <=> a < b
  OBVIOUS
<1>2. c * b < c * a <=> b < a
  OBVIOUS
<1> QED BY <1>1, <1>2

\* A quotient and a remainder.
LEMMA Divides ==
  ASSUME NEW n \in Nat, NEW d \in Nat \ {0}
  PROVE  /\ n \div d \in Nat /\ (n % d) \in 0 .. d - 1
         /\ n = d * (n \div d) + (n % d)
OBVIOUS

\* However it rounds, a rounded quotient is within one of the exact one.
LEMMA Rounds ==
  ASSUME NEW n \in Int, NEW d \in Nat \ {0}, NEW mode
  PROVE  LET q == DivideRounded(n, d, mode)
         IN q \in Int /\ Abs(q * d - n) < d /\ (n >= 0 => q >= 0)
<1> DEFINE a == Abs(n)
           quo == a \div d
           rem == a % d
           r == Rounded(quo, 2 * rem, d, mode)
<1>1. a \in Nat /\ a = Sign(n) * n /\ n = Sign(n) * a /\ Sign(n) \in {-1, 1}
  BY DEF Abs, Sign
<1>2. quo \in Nat /\ rem \in 0 .. d - 1 /\ a = d * quo + rem
  <2> HIDE DEF a
  <2> QED BY <1>1, Divides
<1>3. DivideRounded(n, d, mode) = Sign(n) * r
  BY DEF DivideRounded
<1> HIDE DEF a, quo, rem
<1>4. r = quo \/ (r = quo + 1 /\ rem > 0)
  BY <1>2 DEF Rounded, RoundsAway
<1> HIDE DEF r
<1>5. r \in Nat /\ d * r - a \in Int /\ d * r - a < d /\ d * r - a > -d
  <2>1. CASE r = quo
    BY <1>1, <1>2, <2>1
  <2>2. CASE r = quo + 1 /\ rem > 0
    <3>1. d * r = d * quo + d
      BY <1>2, <2>2
    <3> QED BY <1>1, <1>2, <2>2, <3>1
  <2> QED BY <1>4, <2>1, <2>2
<1>6. CASE Sign(n) = 1
  <2>1. DivideRounded(n, d, mode) = r /\ n = a
    BY <1>1, <1>3, <1>5, <1>6
  <2>2. r * d - a = d * r - a
    BY <1>5
  <2> QED BY <1>1, <1>5, <2>1, <2>2 DEF Abs
<1>7. CASE Sign(n) = -1
  <2>1. DivideRounded(n, d, mode) = -r /\ n = -a /\ n < 0
    BY <1>1, <1>3, <1>5, <1>7 DEF Sign
  <2>2. (-r) * d - n = -(d * r - a)
    BY <1>1, <1>5, <2>1
  <2> QED BY <1>1, <1>5, <2>1, <2>2 DEF Abs
<1> QED BY <1>1, <1>6, <1>7

-----------------------------------------------------------------------------
(***************************************************************************)
(* Largest remainder.                                                      *)
(***************************************************************************)

\* ahead says who goes before whom: of any two one does, and nobody in a circle.
Queues(ahead, D) ==
    /\ \A i, j \in D : i # j => i \in ahead[j] \/ j \in ahead[i]
    /\ \A i, j \in D : i \in ahead[j] => i \notin ahead[i] /\ ahead[i] \subseteq ahead[j]
    /\ \A i \in D : ahead[i] \in SUBSET D /\ i \notin ahead[i]

\* Those in a queue have places: no two the same, and none missing.
LEMMA PlacesTaken ==
  ASSUME NEW D, IsFiniteSet(D), NEW ahead, Queues(ahead, D),
         NEW place, place = [i \in D |-> Cardinality(ahead[i])]
  PROVE  /\ \A i \in D : IsFiniteSet(ahead[i])
         /\ \A i \in D : place[i] \in 0 .. Cardinality(D) - 1
         /\ \A i, j \in D : i \in ahead[j] => place[i] < place[j]
         /\ \A i, j \in D : place[i] = place[j] => i = j
         /\ \A k \in 0 .. Cardinality(D) - 1 : \E i \in D : place[i] = k
<1> DEFINE m == Cardinality(D)
<1>1. m \in Nat
  BY FS_CardinalityType
<1>3. \A i \in D : place[i] = Cardinality(ahead[i])
  OBVIOUS
<1>4. /\ \A i, j \in D : i # j => i \in ahead[j] \/ j \in ahead[i]
      /\ \A i, j \in D : i \in ahead[j] => i \notin ahead[i] /\ ahead[i] \subseteq ahead[j]
      /\ \A i \in D : ahead[i] \in SUBSET D /\ i \notin ahead[i]
  BY DEF Queues
<1>5. \A i \in D : IsFiniteSet(ahead[i]) /\ place[i] \in Nat
  BY <1>3, <1>4, FS_Subset, FS_CardinalityType
<1>6. ASSUME NEW i \in D PROVE place[i] \in 0 .. m - 1
  <2>1. /\ Cardinality(ahead[i]) <= m
        /\ m = Cardinality(ahead[i]) => D = ahead[i]
    BY <1>4, FS_Subset
  <2> QED BY <1>1, <1>3, <1>4, <1>5, <2>1
<1>7. ASSUME NEW i \in D, NEW j \in D, i \in ahead[j] PROVE place[i] < place[j]
  <2>1. /\ Cardinality(ahead[i]) <= Cardinality(ahead[j])
        /\ Cardinality(ahead[j]) = Cardinality(ahead[i]) => ahead[j] = ahead[i]
    <3>1. ahead[i] \in SUBSET ahead[j]
      BY <1>4, <1>7
    <3> QED BY <1>5, <3>1, FS_Subset
  <2>2. ahead[i] # ahead[j]
    BY <1>4, <1>7
  <2> QED BY <1>3, <1>5, <2>1, <2>2
<1>8. \A i, j \in D : place[i] = place[j] => i = j
  <2> SUFFICES ASSUME NEW i \in D, NEW j \in D, i # j PROVE place[i] # place[j]
    OBVIOUS
  <2>1. place[i] \in Nat /\ place[j] \in Nat
    BY <1>5
  <2>2. i \in ahead[j] \/ j \in ahead[i]
    BY <1>4
  <2>3. place[i] < place[j] \/ place[j] < place[i]
    BY <1>7, <2>2
  <2> QED BY <2>1, <2>3
<1>9. place \in Injection(D, 0 .. m - 1)
  <2>1. place \in [D -> 0 .. m - 1]
    <3>1. place = [i \in D |-> place[i]]
      OBVIOUS
    <3> QED BY <1>6, <3>1
  <2> QED BY <1>8, <2>1 DEF Injection, IsInjective
<1>10. IsFiniteSet(0 .. m - 1) /\ Cardinality(0 .. m - 1) = m
  <2>1. /\ IsFiniteSet(0 .. m - 1)
        /\ Cardinality(0 .. m - 1) = IF 0 > m - 1 THEN 0 ELSE (m - 1) - 0 + 1
    <3>1. 0 \in Int /\ m - 1 \in Int
      BY <1>1
    <3> HIDE DEF m
    <3> QED BY <3>1, FS_Interval
  <2> QED BY <1>1, <2>1
<1>11. \A k \in 0 .. m - 1 : \E i \in D : place[i] = k
  <2>1. place \in Surjection(D, 0 .. m - 1)
    BY <1>9, <1>10, FS_Injection
  <2> QED BY <2>1 DEF Surjection
<1> QED BY <1>5, <1>6, <1>7, <1>8, <1>11

\* Numbers have places, the largest first.
LEMMA PlacesFill ==
  ASSUME NEW D \in SUBSET Nat, IsFiniteSet(D), NEW r \in [D -> Int]
  PROVE  /\ \A i \in D : Before(r, i) \in SUBSET D /\ IsFiniteSet(Before(r, i))
         /\ \A i \in D : Cardinality(Before(r, i)) \in 0 .. Cardinality(D) - 1
         /\ \A n \in 0 .. Cardinality(D) :
               Cardinality({i \in D : Cardinality(Before(r, i)) < n}) = n
<1> DEFINE ahead == [i \in D |-> Before(r, i)]
           place == [i \in D |-> Cardinality(Before(r, i))]
           m == Cardinality(D)
<1>1. m \in Nat
  BY FS_CardinalityType
<1>2. \A i \in D : ahead[i] = {j \in D : r[j] > r[i] \/ (r[j] = r[i] /\ j < i)}
  BY DEF Before
<1>3. \A i \in D : place[i] = Cardinality(ahead[i])
  OBVIOUS
<1>4. /\ \A i, j \in D : i # j => i \in ahead[j] \/ j \in ahead[i]
      /\ \A i, j \in D : i \in ahead[j] => i \notin ahead[i] /\ ahead[i] \subseteq ahead[j]
      /\ \A i \in D : ahead[i] \in SUBSET D /\ i \notin ahead[i]
  <2> HIDE DEF ahead
  <2>1. ASSUME NEW i \in D, NEW j \in D, i # j PROVE i \in ahead[j] \/ j \in ahead[i]
    <3>1. r[i] \in Int /\ r[j] \in Int /\ i \in Int /\ j \in Int
      OBVIOUS
    <3> QED BY <1>2, <2>1, <3>1
  <2>2. ASSUME NEW i \in D PROVE ahead[i] \in SUBSET D /\ i \notin ahead[i]
    <3>1. r[i] \in Int /\ i \in Int
      OBVIOUS
    <3> QED BY <1>2, <3>1
  <2>3. ASSUME NEW i \in D, NEW j \in D, i \in ahead[j], NEW k \in ahead[i] PROVE k \in ahead[j]
    <3>1. /\ r[i] \in Int /\ r[j] \in Int /\ k \in D /\ r[k] \in Int
          /\ i \in Int /\ j \in Int /\ k \in Int
      <4>1. k \in D
        BY <2>2, <2>3
      <4> QED BY <4>1
    <3>2. r[i] > r[j] \/ (r[i] = r[j] /\ i < j)
      BY <1>2, <2>3
    <3>3. r[k] > r[i] \/ (r[k] = r[i] /\ k < i)
      BY <1>2, <2>3
    <3>4. r[k] > r[j] \/ (r[k] = r[j] /\ k < j)
      BY <3>1, <3>2, <3>3
    <3> QED BY <1>2, <3>1, <3>4
  <2> QED BY <2>1, <2>2, <2>3
<1> HIDE DEF ahead, place
<1>5. Queues(ahead, D)
  BY <1>4 DEF Queues
<1>6. /\ \A i \in D : IsFiniteSet(ahead[i]) /\ place[i] \in 0 .. m - 1
      /\ \A i, j \in D : place[i] = place[j] => i = j
      /\ \A k \in 0 .. m - 1 : \E i \in D : place[i] = k
  <2>1. place = [i \in D |-> Cardinality(ahead[i])]
    BY DEF place, ahead
  <2>2. /\ \A i \in D : IsFiniteSet(ahead[i])
        /\ \A i \in D : place[i] \in 0 .. Cardinality(D) - 1
        /\ \A i, j \in D : place[i] = place[j] => i = j
        /\ \A k \in 0 .. Cardinality(D) - 1 : \E i \in D : place[i] = k
    BY ONLY <1>5, <2>1, IsFiniteSet(D), PlacesTaken
  <2> QED BY <2>2
<1>12. ASSUME NEW n \in 0 .. m PROVE Cardinality({i \in D : place[i] < n}) = n
  <2> DEFINE First == {i \in D : place[i] < n}
             seat == [i \in First |-> place[i]]
  <2>1. IsFiniteSet(First)
    BY FS_Subset
  <2>2. seat \in [First -> 0 .. n - 1]
    <3>1. ASSUME NEW i \in First PROVE place[i] \in 0 .. n - 1
      <4>1. place[i] \in Nat /\ place[i] < n /\ n \in Nat
        <5>1. i \in D /\ place[i] < n
          OBVIOUS
        <5>2. place[i] \in 0 .. m - 1
          BY <1>6, <5>1
        <5> HIDE DEF m
        <5> QED BY <1>1, <5>1, <5>2
      <4> QED BY <4>1
    <3> QED BY <3>1
  <2>3. seat \in Injection(First, 0 .. n - 1)
    BY <1>6, <2>2 DEF Injection, IsInjective
  <2>4. \A k \in 0 .. n - 1 : \E i \in First : seat[i] = k
    <3> SUFFICES ASSUME NEW k \in 0 .. n - 1 PROVE \E i \in First : seat[i] = k
      OBVIOUS
    <3>1. k \in 0 .. m - 1 /\ k < n
      BY <1>1
    <3>2. PICK i \in D : place[i] = k
      BY <1>6, <3>1
    <3> QED BY <3>1, <3>2
  <2> HIDE DEF First, seat
  <2>5. ExistsBijection(First, 0 .. n - 1)
    BY <2>2, <2>3, <2>4 DEF ExistsBijection, Bijection, Surjection
  <2>6. Cardinality(0 .. n - 1) = Cardinality(First)
    BY <2>1, <2>5, FS_Bijection
  <2>7. Cardinality(0 .. n - 1) = n
    <3>1. 0 \in Int /\ n - 1 \in Int /\ n \in Nat
      BY <1>1
    <3>2. Cardinality(0 .. n - 1) = IF 0 > n - 1 THEN 0 ELSE (n - 1) - 0 + 1
      BY <3>1, FS_Interval
    <3> QED BY <3>1, <3>2
  <2> QED BY <2>6, <2>7 DEF First
<1>13. \A n \in 0 .. m : {i \in D : Cardinality(Before(r, i)) < n} = {i \in D : place[i] < n}
  BY DEF place
<1> QED BY <1>4, <1>6, <1>12, <1>13 DEF place, ahead

\* Summing a list (try_sum) is summing over its domain.
LEMMA TrySumIsSum == ASSUME NEW f PROVE TrySum(f) = Sum(f, DOMAIN f)
BY DEF TrySum, FoldFunction, Sum

\* The domain of a list is fit for sums.
LEMMA ListDomain ==
  ASSUME NEW S, NEW list \in Seq(S)
  PROVE  /\ DOMAIN list \in SUBSET Nat /\ IsFiniteSet(DOMAIN list)
         /\ DOMAIN list = 1 .. Len(list) /\ Len(list) \in Nat
         /\ \A i \in DOMAIN list : list[i] \in S
         /\ TrySum(list) = Sum(list, DOMAIN list)
<1>1. DOMAIN list = 1 .. Len(list) /\ Len(list) \in Nat
  OBVIOUS
<1>2. IsFiniteSet(1 .. Len(list))
  BY <1>1, FS_Interval
<1>3. DOMAIN list \in SUBSET Nat
  BY <1>1
<1> QED BY <1>1, <1>2, <1>3, TrySumIsSum

\* w of whole parts of a: s and r over.
Divided(a, w, whole, s, r) ==
    /\ a \in Nat /\ w \in Nat /\ whole \in Nat \ {0}
    /\ s \in Nat /\ r \in 0 .. whole - 1
    /\ a * w = whole * s + r
DividedAll(D, a, w, whole, s, r) ==
    /\ IsFiniteSet(D) /\ a \in Nat /\ whole \in Nat \ {0} /\ whole = Sum(w, D)
    /\ \A i \in D : Divided(a, w[i], whole, s[i], r[i])
NoMoreOver(D, a, s, r) ==
    /\ Sum(s, D) \in Int
    /\ a - Sum(s, D) \in 0 .. Cardinality({i \in D : r[i] > 0})

\* What does not divide comes to a whole number of units, no more of them than
\* there are parts with a fraction.
LEMMA LeftOver ==
  ASSUME NEW D, NEW a, NEW w, NEW whole, NEW s, NEW r, DividedAll(D, a, w, whole, s, r)
  PROVE  NoMoreOver(D, a, s, r)
<1> DEFINE Fractions == {i \in D : r[i] > 0}
           K == Cardinality(Fractions)
           L == a - Sum(s, D)
           aw == [i \in D |-> a * w[i]]
           ws == [i \in D |-> whole * s[i]]
           one == [i \in D |-> IF i \in Fractions THEN 1 ELSE 0]
           most == [i \in D |-> (whole - 1) * one[i]]
           zero == [i \in D |-> IF i \in {} THEN 1 ELSE 0]
<1>0. IsFiniteSet(D) /\ a \in Nat /\ whole \in Nat \ {0} /\ whole = Sum(w, D)
  BY DEF DividedAll
<1>1. \A i \in D : /\ w[i] \in Int /\ s[i] \in Int /\ r[i] \in 0 .. whole - 1 /\ r[i] \in Int
                  /\ a * w[i] = whole * s[i] + r[i]
  BY DEF Divided, DividedAll
<1> USE <1>0
<1>2. Sum(s, D) \in Int /\ Sum(w, D) \in Int /\ Sum(r, D) \in Int
  BY <1>1, Sums
<1>3. Sum(aw, D) = a * whole
  <2>1. \A i \in D : w[i] \in Int /\ aw[i] = a * w[i]
    BY <1>1
  <2> HIDE DEF aw
  <2> QED BY <2>1, SumTimes
<1>4. Sum(ws, D) = whole * Sum(s, D)
  <2>1. \A i \in D : s[i] \in Int /\ ws[i] = whole * s[i]
    BY <1>1
  <2> HIDE DEF ws
  <2> QED BY <2>1, SumTimes
<1>5. Sum(aw, D) = Sum(ws, D) + Sum(r, D)
  <2>1. \A i \in D : ws[i] \in Int /\ r[i] \in Int /\ aw[i] = ws[i] + r[i]
    BY <1>1
  <2> HIDE DEF aw, ws
  <2> QED BY <2>1, SumPlus
<1>6. whole * L = Sum(r, D)
  <2>1. \A x, y \in Int : whole * (x - y) = whole * x - whole * y
    OBVIOUS
  <2>2. whole * L = whole * a - whole * Sum(s, D)
    BY <1>2, <2>1
  <2>3. a * whole = whole * a
    OBVIOUS
  <2> HIDE DEF L
  <2>4. whole * Sum(s, D) \in Int /\ whole * a \in Int
    BY <1>2
  <2> QED BY <1>2, <1>3, <1>4, <1>5, <2>2, <2>3, <2>4
<1>7. K \in Nat /\ Sum(one, D) = K
  <2>1. IsFiniteSet(Fractions) /\ Fractions \in SUBSET D
    BY FS_Subset
  <2>2. \A i \in D : one[i] = IF i \in Fractions THEN 1 ELSE 0
    OBVIOUS
  <2> HIDE DEF Fractions, one
  <2> QED BY <2>1, <2>2, SumCounts, FS_CardinalityType
<1>8. Sum(most, D) = (whole - 1) * K
  <2>1. \A i \in D : one[i] \in Int /\ most[i] = (whole - 1) * one[i]
    OBVIOUS
  <2>2. whole - 1 \in Int
    OBVIOUS
  <2> HIDE DEF most, one, Fractions
  <2> QED BY <1>7, <2>1, <2>2, SumTimes
<1>9. Sum(r, D) <= Sum(most, D)
  <2>1. \A i \in D : r[i] \in Int /\ most[i] \in Int /\ r[i] <= most[i]
    BY <1>1
  <2> HIDE DEF most
  <2> QED BY <2>1, SumOrder
<1>10. 0 <= Sum(r, D)
  <2>1. \A i \in D : zero[i] = IF i \in {} THEN 1 ELSE 0
    OBVIOUS
  <2>2. \A i \in D : zero[i] \in Int /\ r[i] \in Int /\ zero[i] <= r[i]
    BY <1>1
  <2> HIDE DEF zero
  <2>3. Sum(zero, D) = 0
    BY <2>1, SumCounts, FS_EmptySet
  <2> QED BY <2>2, <2>3, SumOrder
<1> HIDE DEF most, one, zero, aw, ws
<1>11. L \in Int
  BY <1>2
<1>12. L >= 0
  <2>1. whole * 0 <= whole * L
    BY <1>6, <1>10
  <2> HIDE DEF L
  <2> QED BY <1>11, <2>1, Cancels
<1>13. L <= K
  <2>1. (whole - 1) * K <= whole * K
    BY <1>7
  <2>2. whole * L <= whole * K
    <3> HIDE DEF L, K
    <3>1. (whole - 1) * K \in Int /\ whole * K \in Int
      BY <1>7
    <3> QED BY <1>2, <1>6, <1>8, <1>9, <2>1, <3>1
  <2> HIDE DEF L, K
  <2> QED BY <1>7, <1>11, <2>2, Cancels
<1> QED BY <1>2, <1>7, <1>11, <1>12, <1>13 DEF NoMoreOver

\* A sign can be put before a product or before its first factor.
LEMMA SignedProduct ==
  \A sign \in {-1, 1} : \A x, y \in Int : (sign * x) * y = sign * (x * y)
<1>1. \A x, y \in Int : (1 * x) * y = 1 * (x * y)
  OBVIOUS
<1>2. \A x, y \in Int : ((-1) * x) * y = (-1) * (x * y)
  OBVIOUS
<1> QED BY <1>1, <1>2

\* A part is near its exact share, and there is none for no weight.
Near(part, amount, w, whole) ==
    /\ Abs(part * whole - amount * w) < whole
    /\ w = 0 => part = 0

\* Whole units and at most one more, and that only for a fraction, are within
\* a unit of the exact share.
LEMMA NearShare ==
  ASSUME NEW a, NEW w, NEW whole, NEW s, NEW r, Divided(a, w, whole, s, r),
         NEW e, e \in {0, 1}, r = 0 => e = 0, NEW sign, sign \in {-1, 1}
  PROVE  Near(sign * (s + e), sign * a, w, whole)
<1> DEFINE n == whole * s
           m == a * w
           off == (s + e) * whole - m
<1>0. /\ a \in Nat /\ w \in Nat /\ whole \in Nat \ {0} /\ s \in Nat /\ r \in 0 .. whole - 1
      /\ a * w = whole * s + r
  BY DEF Divided
<1>1. n \in Nat /\ m \in Nat /\ m = n + r
  <2>1. whole * s \in Nat /\ a * w \in Nat
    BY <1>0
  <2> QED BY <1>0, <2>1
<1>2. (s + e) * whole = n + e * whole
  BY <1>0
<1>3. (sign * (s + e)) * whole = sign * ((s + e) * whole) /\ (sign * a) * w = sign * m
  BY <1>0, SignedProduct
<1>4. w = 0 => m = 0
  BY <1>0
<1>5. whole * s = 0 => s = 0
  BY <1>0
<1>6. e * whole = IF e = 1 THEN whole ELSE 0
  BY <1>0
<1>7. (s + e) * whole \in Int
  BY <1>0
<1> HIDE DEF n, m
<1>8. off \in Int /\ off < whole /\ off > -whole
  <2>1. CASE e = 0
    BY <1>0, <1>1, <1>2, <1>6, <2>1
  <2>2. CASE e = 1 /\ r > 0
    BY <1>0, <1>1, <1>2, <1>6, <2>2
  <2> QED BY <1>0, <2>1, <2>2
<1>9. sign * ((s + e) * whole) - sign * m = sign * off
  <2> DEFINE y == (s + e) * whole
  <2>1. y \in Int
    BY <1>7
  <2> HIDE DEF y
  <2>2. sign * y - sign * m = sign * (y - m)
    <3>1. CASE sign = 1
      BY <1>1, <2>1, <3>1
    <3>2. CASE sign = -1
      BY <1>1, <2>1, <3>2
    <3> QED BY <3>1, <3>2
  <2> QED BY <2>2 DEF y
<1> HIDE DEF off
<1>10. Abs(sign * off) < whole
  <2>1. CASE sign = 1
    BY <1>0, <1>8, <2>1 DEF Abs
  <2>2. CASE sign = -1
    BY <1>0, <1>8, <2>2 DEF Abs
  <2> QED BY <2>1, <2>2
<1>11. Abs((sign * (s + e)) * whole - (sign * a) * w) < whole
  BY <1>3, <1>9, <1>10
<1>12. w = 0 => s + e = 0
  <2> SUFFICES ASSUME w = 0 PROVE s + e = 0
    OBVIOUS
  <2>1. n = 0 /\ r = 0
    BY <1>0, <1>1, <1>4
  <2> QED BY <1>0, <1>5, <2>1 DEF n
<1> QED BY <1>11, <1>12 DEF Near

\* Money::allocate: the parts add up to the amount, each is within a unit of
\* its exact share, a part of no weight gets nothing, and no part of an amount
\* to share out is negative.
LEMMA AllocateSplits ==
  ASSUME NEW amount \in Int, NEW weights \in Seq(Nat), Weighs(weights)
  PROVE  LET whole == TrySum(weights)
             parts == Allocate(amount, weights)
         IN /\ whole \in Nat \ {0}
            /\ parts \in [DOMAIN weights -> Int]
            /\ TrySum(parts) = amount
            /\ \A i \in DOMAIN weights :
                  /\ Near(parts[i], amount, weights[i], whole)
                  /\ amount >= 0 => parts[i] >= 0
<1> DEFINE D == DOMAIN weights
           whole == TrySum(weights)
           parts == Allocate(amount, weights)
           a == Abs(amount)
           sign == Sign(amount)
           s == Shares(amount, weights, whole)
           r == Remainders(amount, weights, whole)
           L == a - TrySum(s)
           extra == [i \in D |-> IF Cardinality(Before(r, i)) < L THEN 1 ELSE 0]
           t == [i \in D |-> s[i] + extra[i]]
<1>1. /\ D \in SUBSET Nat /\ IsFiniteSet(D) /\ weights \in [D -> Nat]
      /\ whole = Sum(weights, D)
  BY ListDomain
<1>2. a \in Nat /\ sign \in {-1, 1} /\ sign * a = amount /\ sign * amount = a
      /\ (amount >= 0 => sign = 1)
  BY DEF Abs, Sign
<1>3. whole \in Nat \ {0}
  <2>1. whole \in Int
    BY <1>1, Sums
  <2> QED BY <2>1 DEF Weighs
<1>4. /\ s \in [D -> Nat] /\ r \in [D -> 0 .. whole - 1]
      /\ \A i \in D : a * weights[i] = whole * s[i] + r[i]
  <2> HIDE DEF whole, a
  <2>1. ASSUME NEW i \in D
        PROVE  LET n == a * weights[i]
               IN /\ n \div whole \in Nat /\ (n % whole) \in 0 .. whole - 1
                  /\ n = whole * (n \div whole) + (n % whole)
    <3>1. a * weights[i] \in Nat
      BY <1>1, <1>2
    <3> QED BY <1>3, <3>1, Divides
  <2>2. /\ s = [i \in D |-> (a * weights[i]) \div whole]
        /\ r = [i \in D |-> (a * weights[i]) % whole]
    BY DEF Shares, Remainders, a
  <2> HIDE DEF s, r
  <2> QED BY <2>1, <2>2
<1>5. TrySum(s) = Sum(s, D)
  BY <1>4, TrySumIsSum
<1>6. parts = [i \in D |-> sign * t[i]]
  BY DEF Allocate, HandOut, Shares
<1> HIDE DEF D, whole, parts, a, sign, s, r, t, extra
<1>7. /\ Sum(s, D) \in Int
      /\ L \in 0 .. Cardinality({i \in D : r[i] > 0})
  <2>1. \A i \in D : Divided(a, weights[i], whole, s[i], r[i])
    BY <1>1, <1>2, <1>3, <1>4 DEF Divided
  <2>2. DividedAll(D, a, weights, whole, s, r)
    BY <1>1, <1>2, <1>3, <2>1 DEF DividedAll
  <2>3. NoMoreOver(D, a, s, r)
    BY <2>2, LeftOver
  <2> QED BY <1>5, <2>3 DEF NoMoreOver, L
<1>8. r \in [D -> Int]
  BY <1>3, <1>4
<1>9. /\ \A i \in D : Before(r, i) \in SUBSET D /\ IsFiniteSet(Before(r, i))
      /\ \A n \in 0 .. Cardinality(D) :
            Cardinality({i \in D : Cardinality(Before(r, i)) < n}) = n
  BY <1>1, <1>8, PlacesFill
<1> HIDE DEF L
<1>10. Sum(extra, D) = L
  <2> DEFINE U == {i \in D : Cardinality(Before(r, i)) < L}
  <2>1. \A i \in D : extra[i] = IF i \in U THEN 1 ELSE 0
    BY DEF extra
  <2>2. L \in 0 .. Cardinality(D)
    <3>1. Cardinality({i \in D : r[i] > 0}) <= Cardinality(D)
      BY <1>1, FS_Subset
    <3>2. Cardinality({i \in D : r[i] > 0}) \in Nat /\ Cardinality(D) \in Nat
      BY <1>1, FS_Subset, FS_CardinalityType
    <3> QED BY <1>7, <3>1, <3>2
  <2>3. Cardinality(U) = L
    BY <1>9, <2>2
  <2>4. U \in SUBSET D
    OBVIOUS
  <2> HIDE DEF U, extra
  <2> QED BY <1>1, <2>1, <2>3, <2>4, SumCounts
<1>11. ASSUME NEW i \in D, r[i] = 0 PROVE extra[i] = 0
  <2> DEFINE F == {j \in D : r[j] > 0}
  <2>1. F \in SUBSET Before(r, i)
    <3>1. DOMAIN r = D
      BY <1>8
    <3> QED BY <1>11, <3>1 DEF Before
  <2>2. IsFiniteSet(Before(r, i))
    BY <1>9
  <2> HIDE DEF F
  <2>3. Cardinality(F) <= Cardinality(Before(r, i)) /\ IsFiniteSet(F)
    BY <2>1, <2>2, FS_Subset
  <2>4. Cardinality(F) \in Nat /\ Cardinality(Before(r, i)) \in Nat
    BY <2>2, <2>3, FS_CardinalityType
  <2>5. L <= Cardinality(F) /\ L \in Int
    BY <1>7, <2>4 DEF F
  <2>6. ~(Cardinality(Before(r, i)) < L)
    BY <2>3, <2>4, <2>5
  <2> QED BY <2>6 DEF extra
<1>12. \A i \in D : extra[i] \in {0, 1} /\ s[i] \in Nat /\ t[i] = s[i] + extra[i]
  BY <1>4 DEF t, extra
<1> HIDE DEF extra
<1>13. Sum(t, D) = a
  <2>1. \A i \in D : s[i] \in Int /\ extra[i] \in Int /\ t[i] = s[i] + extra[i]
    BY <1>12
  <2> HIDE DEF t
  <2>2. Sum(t, D) = Sum(s, D) + Sum(extra, D)
    BY <1>1, <2>1, SumPlus
  <2> QED BY <1>2, <1>5, <1>7, <1>10, <2>2 DEF L
<1>14. \A i \in D : t[i] \in Nat
  BY <1>12
<1> HIDE DEF t
<1>15. parts \in [D -> Int]
  BY <1>2, <1>6, <1>14
<1>16. TrySum(parts) = amount
  <2>1. TrySum(parts) = Sum(parts, D)
    BY <1>15, TrySumIsSum
  <2>2. \A i \in D : t[i] \in Int /\ parts[i] = sign * t[i]
    BY <1>6, <1>14
  <2>3. Sum(parts, D) = sign * Sum(t, D)
    <3>1. sign \in Int /\ IsFiniteSet(D)
      BY <1>1, <1>2
    <3> QED BY ONLY <2>2, <3>1, SumTimes
  <2> QED BY <1>2, <1>13, <2>1, <2>3
<1>17. ASSUME NEW i \in D
       PROVE  /\ Near(parts[i], amount, weights[i], whole)
              /\ amount >= 0 => parts[i] >= 0
  <2> DEFINE w == weights[i]
             e == extra[i]
             q == s[i]
             m == r[i]
  <2>1. /\ e \in {0, 1} /\ q + e \in Nat /\ parts[i] = sign * (q + e) /\ (m = 0 => e = 0)
        /\ Divided(a, w, whole, q, m)
    <3>1. e \in {0, 1} /\ q \in Nat /\ t[i] = q + e
      BY <1>12
    <3>2. parts[i] = sign * t[i]
      BY <1>6
    <3>3. m = 0 => e = 0
      BY <1>11
    <3>4. /\ a \in Nat /\ w \in Nat /\ whole \in Nat \ {0} /\ q \in Nat /\ m \in 0 .. whole - 1
          /\ a * w = whole * q + m
      BY <1>1, <1>2, <1>3, <1>4
    <3> HIDE DEF w, e, q, m
    <3>5. Divided(a, w, whole, q, m)
      BY ONLY <3>4 DEF Divided
    <3>6. q + e \in Nat
      BY ONLY <3>1
    <3> QED BY <3>1, <3>2, <3>3, <3>5, <3>6
  <2> HIDE DEF w, e, q, m
  <2>2. Near(parts[i], sign * a, w, whole)
    BY <1>2, <2>1, NearShare
  <2>3. Near(parts[i], amount, w, whole)
    BY <1>2, <2>2
  <2>4. amount >= 0 => parts[i] >= 0
    BY <1>2, <2>1
  <2> QED BY <2>3, <2>4 DEF w
<1> QED BY <1>3, <1>15, <1>16, <1>17 DEF D, whole, parts

-----------------------------------------------------------------------------
(***************************************************************************)
(* Splitting.                                                              *)
(***************************************************************************)

\* The parts of a bill come to what the bill comes to.
LEMMA BillSplits ==
  ASSUME NEW totals \in Seq(Nat), NEW parts \in Seq(Seq(Nat)), SplitsByLines(totals, parts)
  PROVE  TrySum(ByLines(totals, parts)) = TrySum(totals)
<1> DEFINE S == DOMAIN totals
           I == DOMAIN parts
           heap == [p \in I |-> Range(parts[p])]
           due == ByLines(totals, parts)
<1>1. /\ IsFiniteSet(S) /\ (\A x \in S : totals[x] \in Int) /\ TrySum(totals) = Sum(totals, S)
      /\ IsFiniteSet(I)
  <2>1. IsFiniteSet(S) /\ (\A x \in S : totals[x] \in Nat) /\ TrySum(totals) = Sum(totals, S)
    BY ListDomain
  <2>2. IsFiniteSet(I)
    BY ListDomain
  <2> QED BY <2>1, <2>2
<1>2. due = [p \in I |-> Sum(totals, Range(parts[p]))]
  BY DEF ByLines, Sum, FoldFunctionOnSet, MapThenSumSet, MapThenFoldSet
<1>3. TrySum(due) = Sum(due, I)
  BY <1>2, TrySumIsSum
<1>4. /\ \A p \in I : heap[p] \in SUBSET S
      /\ \A p \in I, q \in I : p # q => heap[p] \cap heap[q] = {}
      /\ \A x \in S : \E p \in I : x \in heap[p]
  BY DEF SplitsByLines
<1>5. \A p \in I : due[p] = Sum(totals, heap[p])
  BY <1>2
<1> HIDE DEF S, I, heap, due
<1>6. Sum(due, I) = Sum(totals, S)
  <2>1. Heaps(S, totals, I, heap, due)
    BY <1>1, <1>4, <1>5 DEF Heaps
  <2> QED BY <2>1, SumHeaps
<1> QED BY <1>1, <1>3, <1>6 DEF due

OtherKinds == {"nothing", "pick", "oversold", "transfer", "purchase", "day", "refusal", "audit",
           "outliers", "paper", "chain"}

\* What may be answered next.
LEMMA Questions ==
  ASSUME [Next]_calc
  PROVE  \/ UNCHANGED calc
         \/ Allocates \/ Splits \/ Prices \/ Scans \/ Edits
         \/ Chooses \/ calc'.of \in OtherKinds
<1> USE DEF OtherKinds
<1>2. CASE Picks BY <1>2 DEF Picks, Answers
<1>3. CASE Oversells BY <1>3 DEF Oversells, Answers
<1>4. CASE Transfers BY <1>4 DEF Transfers, Answers
<1>5. CASE Receives BY <1>5 DEF Receives, Answers
<1>6. CASE Closes BY <1>6 DEF Closes, Answers
<1>7. CASE Judges
  <2>1. \/ \E who, pin, permission : calc' = Refusal(who, pin, permission)
        \/ \E who, by, request, policy : calc' = Audited(who, by, request, policy)
    BY <1>7 DEF Judges, Answers
  <2>2. \A who, pin, permission : Refusal(who, pin, permission).of = "refusal"
    BY DEF Refusal
  <2>3. \A who, by, request, policy : Audited(who, by, request, policy).of = "audit"
    BY DEF Audited
  <2> QED BY <2>1, <2>2, <2>3
<1>8. CASE Compares BY <1>8 DEF Compares, Answers
<1>9. CASE Prints BY <1>9 DEF Prints, Answers
<1>10. CASE Verifies BY <1>10 DEF Verifies, Answers
<1>11. CASE Finishes BY <1>11 DEF Finishes, None
<1> QED BY <1>2, <1>3, <1>4, <1>5, <1>6, <1>7, <1>8, <1>9, <1>10, <1>11 DEF Next

\* However an amount or a bill is split, nothing is made or lost, and every
\* part is its share to within a unit (Money::allocate, by_lines).
THEOREM SplitsAreExact == Spec => []SplitsExactly
<1>1. Init => SplitsExactly
  BY DEF Init, None, SplitsExactly
<1>2. ASSUME SplitsExactly, [Next]_calc PROVE SplitsExactly'
  <2>1. CASE UNCHANGED calc
    BY <1>2, <2>1 DEF SplitsExactly
  <2>2. CASE Allocates
    <3>1. PICK amount \in Amounts, weights \in WeightLists :
            /\ Weighs(weights)
            /\ calc' = [of |-> "allocate", amount |-> amount, weights |-> weights,
                         parts |-> Allocate(amount, weights)]
      BY <2>2 DEF Allocates, Answers
    <3> DEFINE parts == Allocate(amount, weights)
               whole == TrySum(weights)
    <3>2. amount \in Int /\ weights \in Seq(Nat)
      BY SplitsAssumption
    <3>3. /\ parts \in [DOMAIN weights -> Int] /\ TrySum(parts) = amount
          /\ \A i \in DOMAIN weights : Near(parts[i], amount, weights[i], whole)
      BY <3>1, <3>2, AllocateSplits
    <3>4. /\ calc'.of = "allocate" /\ calc'.amount = amount /\ calc'.weights = weights
          /\ calc'.parts = parts
      BY <3>1
    <3> HIDE DEF parts
    <3>5. DOMAIN parts = DOMAIN weights
      BY <3>3
    <3> QED BY <3>3, <3>4, <3>5 DEF SplitsExactly, Near
  <2>3. CASE Splits
    <3>1. PICK totals \in WeightLists, parts \in PartLists :
            /\ SplitsByLines(totals, parts)
            /\ calc' = [of |-> "split", totals |-> totals, due |-> ByLines(totals, parts)]
      BY <2>3 DEF Splits, Answers
    <3>2. totals \in Seq(Nat) /\ parts \in Seq(Seq(Nat))
      BY SplitsAssumption
    <3>3. TrySum(ByLines(totals, parts)) = TrySum(totals)
      BY <3>1, <3>2, BillSplits
    <3>4. calc'.of = "split" /\ calc'.totals = totals /\ calc'.due = ByLines(totals, parts)
      BY <3>1
    <3> QED BY <3>3, <3>4 DEF SplitsExactly
  <2>4. CASE Prices BY <2>4 DEF Prices, Answers, SplitsExactly
  <2>5. CASE Scans BY <2>5 DEF Scans, Answers, SplitsExactly
  <2>6. CASE Edits BY <2>6 DEF Edits, Answers, SplitsExactly
  <2>7. CASE Chooses BY <2>7 DEF Chooses, Answers, SplitsExactly
  <2>8. CASE calc'.of \in OtherKinds
    BY <2>8 DEF SplitsExactly, OtherKinds
  <2> QED BY <1>2, <2>1, <2>2, <2>3, <2>4, <2>5, <2>6, <2>7, <2>8, Questions
<1> QED BY <1>1, <1>2, PTL DEF Spec

-----------------------------------------------------------------------------
(***************************************************************************)
(* Pricing.                                                                *)
(***************************************************************************)

\* A discount is never negative, and takes no more than there is.
LEMMA ResolveBounds ==
  ASSUME NEW discount, ValidDiscount(discount), NEW base \in Int, NEW mode
  PROVE  LET off == Resolve(discount, base, mode)
         IN off \in Nat /\ (base <= 0 => off = 0) /\ (base >= 0 => off <= base)
<1> DEFINE raw == CASE discount.kind = "percentage" -> ApplyRate(base, discount.rate, mode)
                    [] discount.kind = "amount" -> discount.amount
                    [] OTHER -> 0
<1>1. raw \in Int
  <2>1. CASE discount.kind = "percentage"
    <3>1. base * discount.rate \in Int /\ BasisPointsPerUnit \in Nat \ {0}
      BY <2>1 DEF ValidDiscount, BasisPointsPerUnit
    <3>2. ApplyRate(base, discount.rate, mode) \in Int
      BY <3>1, Rounds DEF ApplyRate, MulRatio
    <3> QED BY <2>1, <3>2
  <2>2. CASE discount.kind = "amount"
    BY <2>2 DEF ValidDiscount
  <2>3. CASE discount.kind \notin {"percentage", "amount"}
    BY <2>3
  <2> QED BY <2>1, <2>2, <2>3
<1>2. Resolve(discount, base, mode) = IF base <= 0 \/ raw < 0 THEN 0
                                      ELSE IF raw > base THEN base ELSE raw
  BY DEF Resolve
<1> HIDE DEF raw
<1> QED BY <1>1, <1>2

\* Nobody bears more of the order's discount than their line comes to.
LEMMA ApportionBounds ==
  ASSUME NEW bases \in Seq(Int), NEW discount, ValidDiscount(discount), NEW mode
  PROVE  LET share == Apportion(Resolve(discount, TrySum(bases), mode), bases)
         IN /\ share \in [DOMAIN bases -> Int]
            /\ (\A i \in DOMAIN bases : bases[i] >= 0)
                 => \A i \in DOMAIN bases : share[i] \in 0 .. bases[i]
<1> DEFINE D == DOMAIN bases
           base == TrySum(bases)
           A == Resolve(discount, base, mode)
           weights == [i \in D |-> Abs(bases[i])]
           share == Apportion(A, bases)
<1>1. IsFiniteSet(D) /\ D = 1 .. Len(bases) /\ Len(bases) \in Nat
      /\ (\A i \in D : bases[i] \in Int) /\ base = Sum(bases, D)
  BY ListDomain
<1>2. weights \in Seq(Nat) /\ DOMAIN weights = D /\ \A i \in D : weights[i] \in Nat /\ bases[i] <= weights[i]
  <2>1. \A i \in D : Abs(bases[i]) \in Nat /\ bases[i] <= Abs(bases[i])
    BY <1>1 DEF Abs
  <2>2. weights \in [1 .. Len(bases) -> Nat]
    BY <1>1, <2>1
  <2>3. weights \in Seq(Nat)
    <3> HIDE DEF weights
    <3> QED BY <1>1, <2>2, SeqDef, SMTT(60)
  <2> QED BY <1>1, <2>1, <2>3
<1>3. base \in Int
  BY <1>1, Sums
<1>4. A \in Nat /\ (base <= 0 => A = 0) /\ (base >= 0 => A <= base)
  BY <1>3, ResolveBounds
<1>5. TrySum(weights) = Sum(weights, D) /\ Sum(weights, D) \in Int /\ base <= Sum(weights, D)
  <2>1. TrySum(weights) = Sum(weights, D)
    BY <1>2, TrySumIsSum
  <2> HIDE DEF weights
  <2>2. \A i \in D : weights[i] \in Int /\ bases[i] \in Int /\ bases[i] <= weights[i]
    BY <1>1, <1>2
  <2>3. Sum(bases, D) <= Sum(weights, D)
    BY <1>1, <2>2, SumOrder
  <2>4. Sum(weights, D) \in Int
    BY <1>1, <2>2, Sums
  <2> QED BY <1>1, <2>1, <2>3, <2>4
<1>6. share = IF A = 0 THEN [i \in D |-> 0]
              ELSE IF Weighs(weights) THEN Allocate(A, weights)
              ELSE Evenly(A, Len(bases))
  BY DEF Apportion
<1> HIDE DEF weights, A, share, base
<1>7. CASE A = 0
  <2>1. share = [i \in D |-> 0]
    BY <1>6, <1>7
  <2> QED BY <1>1, <2>1 DEF share, A, base
<1>8. CASE A # 0
  <2>1. base > 0 /\ A <= base
    BY <1>3, <1>4, <1>8
  <2>2. TrySum(weights) > 0 /\ weights # << >>
    <3>1. TrySum(weights) > 0
      BY <1>3, <1>5, <2>1
    <3>2. D # {}
      <4>1. ASSUME D = {} PROVE FALSE
        <5>1. Sum(bases, {}) = 0
          BY <1>1, Sums
        <5> QED BY <1>1, <2>1, <4>1, <5>1
      <4> QED BY <4>1
    <3> QED BY <1>2, <3>1, <3>2
  <2>3. share = Allocate(A, weights)
    BY <1>6, <1>8, <2>2 DEF Weighs
  <2>4. /\ share \in [D -> Int]
        /\ \A i \in D : Near(share[i], A, weights[i], TrySum(weights)) /\ (A >= 0 => share[i] >= 0)
    <3>1. A \in Int /\ Weighs(weights)
      BY <1>4, <2>2 DEF Weighs
    <3> QED BY <1>2, <2>3, <3>1, AllocateSplits
  <2>5. ASSUME \A i \in D : bases[i] >= 0, NEW i \in D PROVE share[i] \in 0 .. bases[i]
    <3> DEFINE W == TrySum(weights)
               p == share[i]
               b == bases[i]
    <3>1. \A j \in D : weights[j] = bases[j]
      BY <1>1, <2>5 DEF weights, Abs
    <3>2. W = base
      <4>1. Sum(weights, D) = Sum(bases, D)
        BY <1>1, <3>1, SumAgrees
      <4> QED BY <1>1, <1>5, <4>1
    <3>3. /\ W \in Int /\ W > 0 /\ A \in Nat /\ A <= W /\ b \in Nat
          /\ p \in Int /\ p >= 0 /\ Abs(p * W - A * b) < W
      <4>1. b \in Nat /\ weights[i] = b
        BY <1>1, <2>5, <3>1
      <4>2. p \in Int /\ p >= 0 /\ Abs(p * W - A * b) < W
        BY <1>4, <2>4, <4>1 DEF Near
      <4> QED BY <1>3, <1>4, <2>1, <3>2, <4>1, <4>2
    <3> HIDE DEF W, p, b
    <3>4. A * b <= W * b /\ A * b \in Int /\ p * W \in Int
      BY <3>3
    <3>5. p * W < W + A * b
      BY <3>3, <3>4 DEF Abs
    <3>6. W * p < W * (b + 1)
      BY <3>3, <3>4, <3>5, SMTT(60)
    <3>7. p < b + 1
      BY <3>3, <3>6, Cancels
    <3> QED BY <3>3, <3>7 DEF p, b
  <2> QED BY <2>4, <2>5 DEF share, A, base, D
<1> QED BY <1>7, <1>8

\* Tax is the rate's to within a unit, on top of what is taxed or inside it.
LEMMA TaxBounds ==
  ASSUME NEW taxable \in Int, NEW class, ValidRate(class.rate), NEW pricing \in PricingMode, NEW mode
  PROVE  LET due == ResolveTax(taxable, class, pricing, mode)
             whole == BasisPointsPerUnit + (IF pricing = "tax_inclusive" THEN class.rate ELSE 0)
         IN /\ due.net \in Int /\ due.tax \in Int
            /\ taxable = IF pricing = "tax_inclusive" THEN due.net + due.tax ELSE due.net
            /\ Abs(due.tax * whole - taxable * class.rate) < whole
<1> DEFINE due == ResolveTax(taxable, class, pricing, mode)
           whole == BasisPointsPerUnit + (IF pricing = "tax_inclusive" THEN class.rate ELSE 0)
           rate == class.rate
           n == taxable * rate
<1>1. rate \in Int /\ n \in Int /\ whole \in Nat \ {0} /\ BasisPointsPerUnit \in Nat
  BY DEF BasisPointsPerUnit, ValidRate
<1>2. CASE rate = 0
  <2>1. due.net = taxable /\ due.tax = 0
    BY <1>2 DEF ResolveTax, IsTaxable
  <2>2. taxable * rate = 0 /\ 0 * whole = 0
    BY <1>1, <1>2
  <2> HIDE DEF due, whole
  <2> QED BY <1>1, <2>1, <2>2 DEF Abs, due, whole
<1>3. CASE rate # 0
  <2> DEFINE tax == DivideRounded(n, whole, mode)
  <2>1. due.tax = tax /\ due.net = IF pricing = "tax_inclusive" THEN taxable - tax ELSE taxable
    <3>1. CASE pricing = "tax_inclusive"
      BY <1>3, <3>1 DEF ResolveTax, IsTaxable, MulRatio
    <3>2. CASE pricing = "tax_exclusive"
      <4>1. whole = BasisPointsPerUnit
        BY <3>2 DEF BasisPointsPerUnit
      <4> HIDE DEF whole
      <4> QED BY <1>3, <3>2, <4>1 DEF ResolveTax, IsTaxable, ApplyRate, MulRatio
    <3> QED BY <3>1, <3>2 DEF PricingMode
  <2> HIDE DEF due, whole, n
  <2>2. tax \in Int /\ Abs(tax * whole - n) < whole
    BY <1>1, Rounds
  <2> HIDE DEF tax
  <2> QED BY <2>1, <2>2 DEF due, whole, n
<1> QED BY <1>2, <1>3

\* What a finite set is mapped to is finite.
LEMMA FiniteImage ==
  ASSUME NEW S, IsFiniteSet(S), NEW f
  PROVE  IsFiniteSet({f[x] : x \in S})
<1> DEFINE T == {f[x] : x \in S}
           g == [x \in S |-> f[x]]
<1>1. g \in Surjection(S, T)
  BY DEF Surjection
<1> HIDE DEF g, T
<1>2. IsFiniteSet(T)
  BY <1>1, FS_Surjection
<1> QED BY <1>2 DEF T

\* The library's sums of a field are sums.
LEMMA NetSums ==
  ASSUME NEW T, IsFiniteSet(T), NEW lines, NEW f, \A i \in T : f[i] = lines[i].net
  PROVE  LinesNet(lines, T) = Sum(f, T)
<1> DEFINE P(g) == g = [s \in SUBSET T |-> IF s = {} THEN 0 ELSE lines[One(s)].net + g[s \ {One(s)}]]
           iter == CHOOSE g : P(g)
<1>1. LinesNet(lines, T) = iter[T]
  BY DEF LinesNet, MapThenSumSet, MapThenFoldSet, One
<1>2. ASSUME NEW s \in SUBSET T, s # {} PROVE f[One(s)] = lines[One(s)].net
  <2>1. One(s) \in T
    BY <1>2 DEF One
  <2> QED BY <2>1
<1>3. ASSUME NEW g PROVE Adds(g, f, T) <=> P(g)
  <2>1. [s \in SUBSET T |-> IF s = {} THEN 0 ELSE f[One(s)] + g[s \ {One(s)}]]
        = [s \in SUBSET T |-> IF s = {} THEN 0 ELSE lines[One(s)].net + g[s \ {One(s)}]]
    BY <1>2
  <2> QED BY <2>1 DEF Adds
<1>4. P(iter)
  <2>1. PICK g : Adds(g, f, T)
    BY AddsExists
  <2>2. P(g)
    BY <1>3, <2>1
  <2> HIDE DEF P
  <2> QED BY <2>2
<1>5. Adds(iter, f, T)
  BY <1>3, <1>4
<1> HIDE DEF iter
<1>6. Sum(f, T) = iter[T]
  BY <1>5, SumIsAny
<1> QED BY <1>1, <1>6

\* The tax of a group's lines is the sum of any list that gives each line's tax.
LEMMA TaxSums ==
  ASSUME NEW T, IsFiniteSet(T), NEW lines, NEW f, \A i \in T : f[i] = lines[i].tax
  PROVE  LinesTax(lines, T) = Sum(f, T)
<1> DEFINE P(g) == g = [s \in SUBSET T |-> IF s = {} THEN 0 ELSE lines[One(s)].tax + g[s \ {One(s)}]]
           iter == CHOOSE g : P(g)
<1>1. LinesTax(lines, T) = iter[T]
  BY DEF LinesTax, MapThenSumSet, MapThenFoldSet, One
<1>2. ASSUME NEW s \in SUBSET T, s # {} PROVE f[One(s)] = lines[One(s)].tax
  <2>1. One(s) \in T
    BY <1>2 DEF One
  <2> QED BY <2>1
<1>3. ASSUME NEW g PROVE Adds(g, f, T) <=> P(g)
  <2>1. [s \in SUBSET T |-> IF s = {} THEN 0 ELSE f[One(s)] + g[s \ {One(s)}]]
        = [s \in SUBSET T |-> IF s = {} THEN 0 ELSE lines[One(s)].tax + g[s \ {One(s)}]]
    BY <1>2
  <2> QED BY <2>1 DEF Adds
<1>4. P(iter)
  <2>1. PICK g : Adds(g, f, T)
    BY AddsExists
  <2>2. P(g)
    BY <1>3, <2>1
  <2> HIDE DEF P
  <2> QED BY <2>2
<1>5. Adds(iter, f, T)
  BY <1>3, <1>4
<1> HIDE DEF iter
<1>6. Sum(f, T) = iter[T]
  BY <1>5, SumIsAny
<1> QED BY <1>1, <1>6

\* The taxable bases of the groups are the sum of any list that gives each group's.
LEMMA BaseSums ==
  ASSUME NEW T, IsFiniteSet(T), NEW f, \A g \in T : f[g] = g.base
  PROVE  GroupBase(T) = Sum(f, T)
<1> DEFINE P(h) == h = [s \in SUBSET T |-> IF s = {} THEN 0 ELSE One(s).base + h[s \ {One(s)}]]
           iter == CHOOSE h : P(h)
<1>1. GroupBase(T) = iter[T]
  BY DEF GroupBase, MapThenSumSet, MapThenFoldSet, One
<1>2. ASSUME NEW s \in SUBSET T, s # {} PROVE f[One(s)] = One(s).base
  <2>1. One(s) \in T
    BY <1>2 DEF One
  <2> QED BY <2>1
<1>3. ASSUME NEW h PROVE Adds(h, f, T) <=> P(h)
  <2>1. [s \in SUBSET T |-> IF s = {} THEN 0 ELSE f[One(s)] + h[s \ {One(s)}]]
        = [s \in SUBSET T |-> IF s = {} THEN 0 ELSE One(s).base + h[s \ {One(s)}]]
    BY <1>2
  <2> QED BY <2>1 DEF Adds
<1>4. P(iter)
  <2>1. PICK h : Adds(h, f, T)
    BY AddsExists
  <2>2. P(h)
    BY <1>3, <2>1
  <2> HIDE DEF P
  <2> QED BY <2>2
<1>5. Adds(iter, f, T)
  BY <1>3, <1>4
<1> HIDE DEF iter
<1>6. Sum(f, T) = iter[T]
  BY <1>5, SumIsAny
<1> QED BY <1>1, <1>6

\* The taxes of the groups are the sum of any list that gives each group's.
LEMMA GroupTaxSums ==
  ASSUME NEW T, IsFiniteSet(T), NEW f, \A g \in T : f[g] = g.tax
  PROVE  GroupTax(T) = Sum(f, T)
<1> DEFINE P(h) == h = [s \in SUBSET T |-> IF s = {} THEN 0 ELSE One(s).tax + h[s \ {One(s)}]]
           iter == CHOOSE h : P(h)
<1>1. GroupTax(T) = iter[T]
  BY DEF GroupTax, MapThenSumSet, MapThenFoldSet, One
<1>2. ASSUME NEW s \in SUBSET T, s # {} PROVE f[One(s)] = One(s).tax
  <2>1. One(s) \in T
    BY <1>2 DEF One
  <2> QED BY <2>1
<1>3. ASSUME NEW h PROVE Adds(h, f, T) <=> P(h)
  <2>1. [s \in SUBSET T |-> IF s = {} THEN 0 ELSE f[One(s)] + h[s \ {One(s)}]]
        = [s \in SUBSET T |-> IF s = {} THEN 0 ELSE One(s).tax + h[s \ {One(s)}]]
    BY <1>2
  <2> QED BY <2>1 DEF Adds
<1>4. P(iter)
  <2>1. PICK h : Adds(h, f, T)
    BY AddsExists
  <2>2. P(h)
    BY <1>3, <2>1
  <2> HIDE DEF P
  <2> QED BY <2>2
<1>5. Adds(iter, f, T)
  BY <1>3, <1>4
<1> HIDE DEF iter
<1>6. Sum(f, T) = iter[T]
  BY <1>5, SumIsAny
<1> QED BY <1>1, <1>6

\* The groups' figures come to the lines'.
LEMMA GroupsAddUp ==
  ASSUME NEW lines, IsFiniteSet(DOMAIN lines),
         \A i \in DOMAIN lines : lines[i].net \in Int /\ lines[i].tax \in Int
  PROVE  /\ GroupBase(TaxGroups(lines)) = Column(lines, "net")
         /\ GroupTax(TaxGroups(lines)) = Column(lines, "tax")
<1> DEFINE D == DOMAIN lines
           class == [i \in D |-> lines[i].class]
           classes == {class[i] : i \in D}
           group == [c \in classes |->
                       [class |-> c, base |-> LinesNet(lines, OfClass(lines, c)),
                        tax |-> LinesTax(lines, OfClass(lines, c))]]
           groups == {group[c] : c \in classes}
           part == [g \in groups |-> OfClass(lines, g.class)]
           nets == [i \in D |-> lines[i]["net"]]
           taxes == [i \in D |-> lines[i]["tax"]]
           bases == [g \in groups |-> g.base]
           duties == [g \in groups |-> g.tax]
<1>1. IsFiniteSet(classes)
  BY FiniteImage
<1>2. IsFiniteSet(groups)
  <2> HIDE DEF classes, group
  <2> QED BY <1>1, FiniteImage
<1>3. TaxGroups(lines) = groups
  BY DEF TaxGroups
<1>4. ASSUME NEW g \in groups
      PROVE  /\ g.class \in classes /\ g = group[g.class]
             /\ g.base = LinesNet(lines, OfClass(lines, g.class))
             /\ g.tax = LinesTax(lines, OfClass(lines, g.class))
  OBVIOUS
<1>5. ASSUME NEW g \in groups
      PROVE  /\ part[g] \in SUBSET D
             /\ g.base = Sum(nets, part[g]) /\ g.tax = Sum(taxes, part[g])
  <2> DEFINE T == OfClass(lines, g.class)
  <2>1. T \in SUBSET D /\ IsFiniteSet(T)
    <3>1. T \in SUBSET D
      BY DEF OfClass
    <3> QED BY <3>1, FS_Subset
  <2>2. \A i \in T : nets[i] = lines[i].net /\ taxes[i] = lines[i].tax
    BY <2>1
  <2>3. part[g] = T
    OBVIOUS
  <2> HIDE DEF T, nets, taxes, part, groups
  <2>4. LinesNet(lines, T) = Sum(nets, T)
    BY <2>1, <2>2, NetSums
  <2>5. LinesTax(lines, T) = Sum(taxes, T)
    BY <2>1, <2>2, TaxSums
  <2> QED BY <1>4, <2>1, <2>3, <2>4, <2>5 DEF T
<1>6. ASSUME NEW g \in groups, NEW h \in groups, g # h PROVE part[g] \cap part[h] = {}
  <2>1. g = group[g.class] /\ h = group[h.class]
    BY <1>4
  <2>2. g.class # h.class
    BY ONLY <2>1, g # h
  <2> QED BY <2>2 DEF OfClass
<1>7. ASSUME NEW i \in D PROVE \E g \in groups : i \in part[g]
  <2>1. class[i] \in classes /\ group[class[i]] \in groups /\ group[class[i]].class = class[i]
    OBVIOUS
  <2>2. i \in part[group[class[i]]]
    BY <2>1 DEF OfClass
  <2> QED BY <2>1, <2>2
<1>8. /\ \A i \in D : nets[i] \in Int /\ taxes[i] \in Int
      /\ \A g \in groups : bases[g] = g.base /\ duties[g] = g.tax
      /\ Column(lines, "net") = Sum(nets, D) /\ Column(lines, "tax") = Sum(taxes, D)
  BY TrySumIsSum DEF Column
<1> HIDE DEF D, classes, group, groups, part, nets, taxes, bases, duties
<1>9. GroupBase(groups) = Sum(bases, groups) /\ GroupTax(groups) = Sum(duties, groups)
  BY <1>2, <1>8, BaseSums, GroupTaxSums
<1>10. Heaps(D, nets, groups, part, bases)
  BY <1>2, <1>5, <1>6, <1>7, <1>8 DEF Heaps, D
<1>11. Heaps(D, taxes, groups, part, duties)
  BY <1>2, <1>5, <1>6, <1>7, <1>8 DEF Heaps, D
<1> QED BY <1>3, <1>8, <1>9, <1>10, <1>11, SumHeaps

\* Each line's figures add up, and the order's are theirs.
LinesAddUp(order, t) ==
    /\ DOMAIN t.lines = DOMAIN order.lines
    /\ \A i \in DOMAIN t.lines :
          /\ t.lines[i].net \in Int /\ t.lines[i].tax \in Int
          /\ t.lines[i].total = t.lines[i].net + t.lines[i].tax
    /\ t.net = Column(t.lines, "net") /\ t.tax = Column(t.lines, "tax")
    /\ t.total = Column(t.lines, "total")

\* An order's figures are its lines'.
LEMMA CalculateAddsUp ==
  ASSUME NEW order, ValidOrder(order)
  PROVE  LET t == Calculate(order)
         IN /\ OrderAddsUp(order, t) /\ LinesAddUp(order, t)
            /\ t.net \in Int /\ t.tax \in Int /\ t.total \in Int /\ t.discount \in Int
<1> DEFINE D == DOMAIN order.lines
           mode == order.rounding
           pricing == order.pricing
           rate == [i \in D |-> order.lines[i].class.rate]
           gross == [i \in D |-> Extend(EffectiveUnitPrice(order.lines[i]), order.lines[i].milli, mode)]
           off == [i \in D |-> Resolve(order.lines[i].discount, gross[i], mode)]
           bases == [i \in D |-> gross[i] - off[i]]
           share == Apportion(Resolve(order.discount, TrySum(bases), mode), bases)
           taxable == [i \in D |-> gross[i] - off[i] - share[i]]
           due == [i \in D |-> ResolveTax(taxable[i], order.lines[i].class, pricing, mode)]
           lines == [i \in D |-> LineTotals(gross[i], off[i] + share[i], due[i], order.lines[i].class)]
           whole == [i \in D |-> BasisPointsPerUnit
                                    + (IF pricing = "tax_inclusive" THEN rate[i] ELSE 0)]
           t == OrderTotals(lines)
           G == [i \in D |-> lines[i]["gross"]]
           O == [i \in D |-> lines[i]["discount"]]
           N == [i \in D |-> lines[i]["net"]]
           T == [i \in D |-> lines[i]["tax"]]
           A == [i \in D |-> lines[i]["total"]]
<1>1. Calculate(order) = t
  BY ZenonT(60) DEF Calculate, Discounted, Shared, Taxed
<1>2. /\ IsFiniteSet(D) /\ D = 1 .. Len(order.lines) /\ Len(order.lines) \in Nat
      /\ \A i \in D : ValidLine(order.lines[i])
      /\ pricing \in PricingMode /\ ValidDiscount(order.discount)
  <2>1. order.lines \in Seq(Range(order.lines))
    BY DEF ValidOrder
  <2> QED BY <2>1, ListDomain DEF ValidOrder
<1> HIDE DEF t
<1>3. ASSUME NEW i \in D PROVE gross[i] \in Int
  <2> DEFINE line == order.lines[i]
  <2>1. line.price \in Int /\ line.milli \in Int /\ line.deltas \in Seq(Int)
    BY <1>2 DEF ValidLine
  <2>2. ModifierTotal(line) \in Int
    <3>1. /\ TrySum(line.deltas) = Sum(line.deltas, DOMAIN line.deltas)
          /\ IsFiniteSet(DOMAIN line.deltas)
          /\ \A k \in DOMAIN line.deltas : line.deltas[k] \in Int
      BY <2>1, ListDomain
    <3> QED BY <3>1, Sums DEF ModifierTotal
  <2>3. EffectiveUnitPrice(line) * line.milli \in Int /\ MilliPerUnit \in Nat \ {0}
    <3>1. EffectiveUnitPrice(line) \in Int
      BY <2>1, <2>2 DEF EffectiveUnitPrice
    <3> QED BY <2>1, <3>1 DEF MilliPerUnit
  <2>4. Extend(EffectiveUnitPrice(line), line.milli, mode) \in Int
    BY <2>3, Rounds DEF Extend, MulRatio
  <2> QED BY <2>4
<1> HIDE DEF gross
<1>4. ASSUME NEW i \in D
      PROVE  off[i] \in Nat /\ (gross[i] >= 0 => off[i] <= gross[i]) /\ bases[i] \in Int
  <2>1. ValidDiscount(order.lines[i].discount)
    BY <1>2 DEF ValidLine
  <2>2. LET o == Resolve(order.lines[i].discount, gross[i], mode)
        IN o \in Nat /\ (gross[i] >= 0 => o <= gross[i])
    BY <1>3, <2>1, ResolveBounds
  <2>3. off[i] = Resolve(order.lines[i].discount, gross[i], mode) /\ bases[i] = gross[i] - off[i]
    OBVIOUS
  <2> HIDE DEF off, bases
  <2> QED BY <1>3, <2>2, <2>3
<1>5. bases \in Seq(Int) /\ DOMAIN bases = D
  <2>1. bases \in [1 .. Len(order.lines) -> Int] /\ DOMAIN bases = D
    <3> HIDE DEF off
    <3> QED BY <1>2, <1>4
  <2> HIDE DEF bases
  <2> QED BY <1>2, <2>1, SeqDef
<1>6. /\ share \in [D -> Int]
      /\ (\A i \in D : bases[i] >= 0) => \A i \in D : share[i] \in 0 .. bases[i]
  <2> HIDE DEF bases
  <2> QED BY <1>2, <1>5, ApportionBounds
<1>7. \A i \in D : bases[i] = gross[i] - off[i] /\ taxable[i] = gross[i] - off[i] - share[i]
  OBVIOUS
<1> HIDE DEF off, bases, share
<1>8. \A i \in D : taxable[i] \in Int
  BY <1>3, <1>4, <1>6, <1>7
<1> HIDE DEF taxable
<1>9. ASSUME NEW i \in D
      PROVE  /\ due[i].net \in Int /\ due[i].tax \in Int
             /\ taxable[i] = IF pricing = "tax_inclusive" THEN due[i].net + due[i].tax ELSE due[i].net
             /\ Abs(due[i].tax * whole[i] - taxable[i] * rate[i]) < whole[i]
  <2> DEFINE class == order.lines[i].class
             w == BasisPointsPerUnit + (IF pricing = "tax_inclusive" THEN class.rate ELSE 0)
             d == ResolveTax(taxable[i], class, pricing, mode)
  <2>1. ValidRate(class.rate)
    BY <1>2 DEF ValidLine
  <2>2. /\ d.net \in Int /\ d.tax \in Int
        /\ taxable[i] = IF pricing = "tax_inclusive" THEN d.net + d.tax ELSE d.net
        /\ Abs(d.tax * w - taxable[i] * class.rate) < w
    BY <1>2, <1>8, <2>1, TaxBounds
  <2>3. due[i] = d /\ whole[i] = w /\ rate[i] = class.rate
    OBVIOUS
  <2> HIDE DEF d, w, class, due, whole, rate
  <2> QED BY <2>2, <2>3
<1>10. ASSUME NEW i \in D
       PROVE  /\ lines[i].gross = gross[i] /\ lines[i].discount = off[i] + share[i]
              /\ lines[i].net = due[i].net /\ lines[i].tax = due[i].tax
              /\ lines[i].total = due[i].net + due[i].tax /\ lines[i].class.rate = rate[i]
              /\ whole[i] = BasisPointsPerUnit
                            + (IF pricing = "tax_inclusive" THEN lines[i].class.rate ELSE 0)
  <2>1. lines[i] = LineTotals(gross[i], off[i] + share[i], due[i], order.lines[i].class)
    OBVIOUS
  <2>2. /\ rate[i] = order.lines[i].class.rate
        /\ whole[i] = BasisPointsPerUnit + (IF pricing = "tax_inclusive" THEN rate[i] ELSE 0)
    OBVIOUS
  <2> HIDE DEF lines, due, rate, whole
  <2> QED BY <2>1, <2>2 DEF LineTotals
<1>11. DOMAIN lines = D /\ Range(lines) = {lines[i] : i \in D}
  BY DEF Range
<1> HIDE DEF lines, due, rate, whole
<1>12. /\ t.lines = lines /\ t.groups = TaxGroups(lines)
       /\ t.gross = Sum(G, D) /\ t.discount = Sum(O, D) /\ t.net = Sum(N, D)
       /\ t.tax = Sum(T, D) /\ t.total = Sum(A, D)
  <2>1. /\ t.lines = lines /\ t.groups = TaxGroups(lines)
        /\ t.gross = Column(lines, "gross") /\ t.discount = Column(lines, "discount")
        /\ t.net = Column(lines, "net") /\ t.tax = Column(lines, "tax")
        /\ t.total = Column(lines, "total")
    BY DEF t, OrderTotals
  <2> QED BY <1>11, <2>1, TrySumIsSum DEF Column
<1>13. ASSUME NEW i \in D
       PROVE  /\ G[i] = gross[i] /\ O[i] = off[i] + share[i] /\ N[i] = due[i].net
              /\ T[i] = due[i].tax /\ A[i] = due[i].net + due[i].tax
              /\ G[i] \in Int /\ O[i] \in Int /\ N[i] \in Int /\ T[i] \in Int /\ A[i] \in Int
  BY <1>3, <1>4, <1>6, <1>9, <1>10
<1> HIDE DEF D, G, O, N, T, A
<1>14. Sum(A, D) = Sum(N, D) + Sum(T, D)
  <2>1. \A i \in D : N[i] \in Int /\ T[i] \in Int /\ A[i] = N[i] + T[i]
    BY <1>13
  <2> QED BY <1>2, <2>1, SumPlus
<1>15. Sum(G, D) = Sum(O, D) + (IF pricing = "tax_inclusive" THEN Sum(A, D) ELSE Sum(N, D))
  <2>1. CASE pricing = "tax_inclusive"
    <3>1. \A i \in D : O[i] \in Int /\ A[i] \in Int /\ G[i] = O[i] + A[i]
      BY <1>3, <1>4, <1>6, <1>7, <1>9, <1>13, <2>1
    <3>2. Sum(G, D) = Sum(O, D) + Sum(A, D)
      BY <1>2, <3>1, SumPlus
    <3> QED BY <2>1, <3>2
  <2>2. CASE pricing # "tax_inclusive"
    <3>1. \A i \in D : O[i] \in Int /\ N[i] \in Int /\ G[i] = O[i] + N[i]
      BY <1>3, <1>4, <1>6, <1>7, <1>9, <1>13, <2>2
    <3>2. Sum(G, D) = Sum(O, D) + Sum(N, D)
      BY <1>2, <3>1, SumPlus
    <3> QED BY <2>2, <3>2
  <2> QED BY <2>1, <2>2
<1>16. /\ Sum(G, D) \in Int /\ Sum(O, D) \in Int /\ Sum(N, D) \in Int
       /\ Sum(T, D) \in Int /\ Sum(A, D) \in Int
  BY <1>2, <1>13, Sums
<1>17. GroupBase(t.groups) = t.net /\ GroupTax(t.groups) = t.tax
  <2>1. \A i \in DOMAIN lines : lines[i].net \in Int /\ lines[i].tax \in Int
    BY <1>9, <1>10, <1>11
  <2>2. /\ GroupBase(TaxGroups(lines)) = Column(lines, "net")
        /\ GroupTax(TaxGroups(lines)) = Column(lines, "tax")
    BY <1>2, <1>11, <2>1, GroupsAddUp
  <2>3. t.net = Column(lines, "net") /\ t.tax = Column(lines, "tax")
    BY DEF t, OrderTotals
  <2> QED BY <1>12, <2>2, <2>3
<1>18. ASSUME NEW i \in D
       PROVE  LET taxed == IF pricing = "tax_inclusive" THEN lines[i].total ELSE lines[i].net
                  w == BasisPointsPerUnit
                         + (IF pricing = "tax_inclusive" THEN lines[i].class.rate ELSE 0)
              IN Abs(lines[i].tax * w - taxed * lines[i].class.rate) < w
  <2>1. (IF pricing = "tax_inclusive" THEN lines[i].total ELSE lines[i].net) = taxable[i]
    BY <1>9, <1>10
  <2> QED BY <1>9, <1>10, <2>1
<1>19. ASSUME \A i \in D : lines[i].gross >= 0, NEW i \in D
       PROVE  lines[i].discount \in 0 .. lines[i].gross
  <2>1. \A j \in D : bases[j] >= 0
    <3>1. \A j \in D : gross[j] >= 0
      BY <1>10, <1>19
    <3> QED BY <1>3, <1>4, <1>7, <3>1
  <2>2. share[i] \in 0 .. bases[i]
    BY <1>6, <2>1
  <2> QED BY <1>3, <1>4, <1>7, <1>10, <2>2
<1>20. t.net + t.tax = t.total
  BY <1>12, <1>14
<1>21. t.gross - t.discount = IF pricing = "tax_inclusive" THEN t.total ELSE t.net
  BY <1>12, <1>15, <1>16
<1>22. \A line \in Range(t.lines) : \E i \in D : line = lines[i]
  BY <1>11, <1>12
<1>23. \A i \in D : lines[i] \in Range(t.lines)
  BY <1>11, <1>12
<1>24. \A line \in Range(t.lines) :
          LET taxed == IF pricing = "tax_inclusive" THEN line.total ELSE line.net
              w == BasisPointsPerUnit + (IF pricing = "tax_inclusive" THEN line.class.rate ELSE 0)
          IN Abs(line.tax * w - taxed * line.class.rate) < w
  BY <1>18, <1>22
<1>25. (\A line \in Range(t.lines) : line.gross >= 0) =>
          \A line \in Range(t.lines) : line.discount \in 0 .. line.gross
  BY <1>19, <1>22, <1>23
<1>26. t.net \in Int /\ t.tax \in Int /\ t.total \in Int /\ t.discount \in Int
  BY <1>12, <1>16
<1>27. OrderAddsUp(order, t)
  BY <1>17, <1>20, <1>21, <1>24, <1>25, SMTT(60) DEF OrderAddsUp
<1>28. LinesAddUp(order, t)
  <2>1. \A i \in D : /\ lines[i].net \in Int /\ lines[i].tax \in Int
                     /\ lines[i].total = lines[i].net + lines[i].tax
    BY <1>9, <1>10
  <2>2. /\ t.net = Column(lines, "net") /\ t.tax = Column(lines, "tax")
        /\ t.total = Column(lines, "total")
    BY DEF t, OrderTotals
  <2>3. D = DOMAIN order.lines
    BY DEF D
  <2> QED BY <1>11, <1>12, <2>1, <2>2, <2>3 DEF LinesAddUp
<1> QED BY <1>1, <1>26, <1>27, <1>28

-----------------------------------------------------------------------------
(***************************************************************************)
(* Options.                                                                *)
(***************************************************************************)
Tapping == INSTANCE Folding WITH Start <- << >>, Advance <- Tap
Joining == INSTANCE Folding WITH Start <- << >>, Advance <- Joined

\* What of a group was chosen was tapped and is of the group.
LEMMA ChosenAreOffered ==
  ASSUME NEW group, NEW chosen, chosen \in Seq(Range(chosen))
  PROVE  ChosenOf(group, chosen) \in Seq(Range(chosen) \cap group.options)
<1> DEFINE S == Range(chosen)
           Good == S \cap group.options
           start == [options |-> group.options, chosen |-> << >>]
           Inv == {[options |-> group.options, chosen |-> c] : c \in Seq(Good)}
<1>1. ChosenOf(group, chosen) = Tapping!From(start, chosen).chosen
  BY DEF ChosenOf, Through, Tapping!From
<1>2. start \in Inv
  <2>1. << >> \in Seq(Good)
    BY EmptySeq
  <2> HIDE DEF Good
  <2> QED BY <2>1
<1>3. ASSUME NEW a \in Inv, NEW e \in S PROVE Tap(a, e) \in Inv
  <2>1. PICK c \in Seq(Good) : a = [options |-> group.options, chosen |-> c]
    OBVIOUS
  <2>2. CASE e \in group.options
    <3>1. Append(c, e) \in Seq(Good)
      <4>1. e \in Good
        BY <2>2
      <4> HIDE DEF Good
      <4> QED BY <4>1, AppendProperties
    <3>2. Tap(a, e) = [options |-> group.options, chosen |-> Append(c, e)]
      <4> HIDE DEF Inv, Good
      <4> QED BY <2>1, <2>2 DEF Tap
    <3> HIDE DEF Good
    <3> QED BY <3>1, <3>2
  <2>3. CASE e \notin group.options
    BY <2>1, <2>3 DEF Tap
  <2> QED BY <2>2, <2>3
<1> HIDE DEF Inv, start, S
<1>4. chosen \in Seq(S)
  BY DEF S
<1>5. Tapping!From(start, chosen) \in Inv
  BY <1>2, <1>3, <1>4, Tapping!FromInvariant
<1> QED BY <1>1, <1>5 DEF Inv, S

\* Whatever is charged was tapped, and is some group's.
LEMMA OptionsAreOffered ==
  ASSUME NEW groups, groups \in Seq(Range(groups)), NEW chosen, chosen \in Seq(Range(chosen))
  PROVE  \A option \in Range(ResolveModifiers(groups, chosen)) :
            /\ option \in Range(chosen)
            /\ \E g \in DOMAIN groups : option \in groups[g].options
<1> DEFINE All == {o \in Range(chosen) : \E g \in DOMAIN groups : o \in groups[g].options}
           list == [g \in DOMAIN groups |-> ChosenOf(groups[g], chosen)]
<1>1. list \in Seq(Seq(All))
  <2>1. ASSUME NEW g \in DOMAIN groups PROVE ChosenOf(groups[g], chosen) \in Seq(All)
    <3> DEFINE Good == Range(chosen) \cap groups[g].options
    <3>1. ChosenOf(groups[g], chosen) \in Seq(Good)
      BY ChosenAreOffered
    <3>2. Good \in SUBSET All
      OBVIOUS
    <3> HIDE DEF Good, All
    <3> QED BY <3>1, <3>2
  <2>2. DOMAIN groups = 1 .. Len(groups) /\ Len(groups) \in Nat
    BY ListDomain
  <2> HIDE DEF All
  <2>3. list \in [1 .. Len(groups) -> Seq(All)]
    BY <2>1, <2>2
  <2> HIDE DEF list
  <2> QED BY <2>2, <2>3, SeqDef
<1>2. << >> \in Seq(All)
  BY EmptySeq
<1> HIDE DEF All, list
<1>3. \A a \in Seq(All), e \in Seq(All) : Joined(a, e) \in Seq(All)
  BY ConcatProperties DEF Joined
<1>4. Joining!From(<< >>, list) \in Seq(All)
  BY <1>1, <1>2, <1>3, Joining!FromInvariant
<1>5. ResolveModifiers(groups, chosen) \in {Joining!From(<< >>, list), << >>}
  BY DEF ResolveModifiers, Through, Joining!From, list
<1>6. ResolveModifiers(groups, chosen) \in Seq(All)
  BY <1>2, <1>4, <1>5
<1>7. \A option \in Range(ResolveModifiers(groups, chosen)) : option \in All
  <2> DEFINE charged == ResolveModifiers(groups, chosen)
  <2>1. charged \in Seq(All)
    BY <1>6
  <2> HIDE DEF charged
  <2>2. \A i \in DOMAIN charged : charged[i] \in All
    BY <2>1, ListDomain
  <2>3. \A option \in Range(charged) : option \in All
    BY <2>2 DEF Range
  <2> QED BY <2>3 DEF charged
<1> QED BY <1>7 DEF All

\* However an order is priced and discounted, its figures are its lines', and
\* nobody pays for an option nobody tapped (calculate, resolve_modifiers).
THEOREM TaxAlwaysAddsUp == Spec => []TaxAddsUp
<1>1. Init => TaxAddsUp
  BY DEF Init, None, TaxAddsUp
<1>2. ASSUME TaxAddsUp, [Next]_calc PROVE TaxAddsUp'
  <2>1. CASE UNCHANGED calc
    BY <1>2, <2>1 DEF TaxAddsUp
  <2>2. CASE Prices
    <3>1. PICK order \in Orders :
            calc' = [of |-> "order", order |-> order, totals |-> Calculate(order)]
      BY <2>2 DEF Prices, Answers
    <3>2. OrderAddsUp(order, Calculate(order))
      BY OrdersAssumption, CalculateAddsUp
    <3>3. calc'.of = "order" /\ calc'.order = order /\ calc'.totals = Calculate(order)
      BY <3>1
    <3> QED BY <3>2, <3>3 DEF TaxAddsUp
  <2>3. CASE Chooses
    <3>1. PICK groups \in Groups, chosen \in Taps :
            calc' = [of |-> "options", groups |-> groups, chosen |-> chosen,
                     charged |-> ResolveModifiers(groups, chosen)]
      BY <2>3 DEF Chooses, Answers
    <3>2. groups \in Seq(Range(groups)) /\ chosen \in Seq(Range(chosen))
      BY OptionsAssumption
    <3>3. \A option \in Range(ResolveModifiers(groups, chosen)) :
            /\ option \in Range(chosen)
            /\ \E g \in DOMAIN groups : option \in groups[g].options
      BY <3>2, OptionsAreOffered
    <3>4. /\ calc'.of = "options" /\ calc'.groups = groups /\ calc'.chosen = chosen
          /\ calc'.charged = ResolveModifiers(groups, chosen)
      BY <3>1
    <3> QED BY <3>3, <3>4 DEF TaxAddsUp
  <2>4. CASE Allocates BY <2>4 DEF Allocates, Answers, TaxAddsUp
  <2>5. CASE Splits BY <2>5 DEF Splits, Answers, TaxAddsUp
  <2>6. CASE Scans BY <2>6 DEF Scans, Answers, TaxAddsUp
  <2>7. CASE Edits BY <2>7 DEF Edits, Answers, TaxAddsUp
  <2>8. CASE calc'.of \in OtherKinds
    BY <2>8 DEF TaxAddsUp, OtherKinds
  <2> QED BY <1>2, <2>1, <2>2, <2>3, <2>4, <2>5, <2>6, <2>7, <2>8, Questions
<1> QED BY <1>1, <1>2, PTL DEF Spec

-----------------------------------------------------------------------------
(***************************************************************************)
(* Scanning, and edits.                                                    *)
(***************************************************************************)
Weight(i) == IF i % 2 = 1 THEN 1 ELSE 3
Checked(twelve) == [i \in DOMAIN twelve |-> twelve[i] * Weight(i)]

\* f and k are the same but for what they are at z.
DifferAt(z, S, f, k) ==
    /\ IsFiniteSet(S) /\ z \in S
    /\ \A x \in S : f[x] \in Int /\ k[x] \in Int
    /\ \A x \in S \ {z} : f[x] = k[x]

\* Sums that differ in one place differ by what is there.
LEMMA SumsApart ==
  ASSUME NEW S, NEW f, NEW k, NEW z, DifferAt(z, S, f, k)
  PROVE  /\ Sum(f, S) \in Int /\ Sum(k, S) \in Int
         /\ Sum(f, S) - Sum(k, S) = f[z] - k[z]
<1> USE DEF DifferAt
<1>1. S \in SUBSET S /\ S \ {z} \in SUBSET S /\ IsFiniteSet(S \ {z})
  BY FS_Subset
<1>2. /\ Sum(f, S) = f[z] + Sum(f, S \ {z})
      /\ Sum(f, S) \in Int /\ Sum(f, S \ {z}) \in Int
  <2>1. /\ \A T \in SUBSET S : Sum(f, T) \in Int
        /\ \A T \in SUBSET S : \A x \in T : Sum(f, T) = f[x] + Sum(f, T \ {x})
    BY Sums
  <2> QED BY <1>1, <2>1
<1>3. /\ Sum(k, S) = k[z] + Sum(k, S \ {z})
      /\ Sum(k, S) \in Int /\ Sum(k, S \ {z}) \in Int
  <2>1. /\ \A T \in SUBSET S : Sum(k, T) \in Int
        /\ \A T \in SUBSET S : \A x \in T : Sum(k, T) = k[x] + Sum(k, T \ {x})
    BY Sums
  <2> QED BY <1>1, <2>1
<1>4. Sum(f, S \ {z}) = Sum(k, S \ {z})
  BY <1>1, SumAgrees
<1> QED BY <1>2, <1>3, <1>4

\* A sum of integers is one.
LEMMA SumIsInt ==
  ASSUME NEW S, IsFiniteSet(S), NEW f, \A x \in S : f[x] \in Int
  PROVE  Sum(f, S) \in Int
<1>1. \A T \in SUBSET S : Sum(f, T) \in Int
  BY Sums
<1> QED BY <1>1

\* The sum of one number is that number.
LEMMA SumOfOne ==
  ASSUME NEW x, NEW f, NEW n \in Int, f[x] = n
  PROVE  Sum(f, {x}) = n
<1>1. IsFiniteSet({x}) /\ {x} \in SUBSET {x} /\ {x} \ {x} = {}
  BY FS_Singleton
<1>2. \A y \in {x} : f[y] \in Int
  OBVIOUS
<1>3. /\ Sum(f, {}) = 0
      /\ \A T \in SUBSET {x} : \A y \in T : Sum(f, T) = f[y] + Sum(f, T \ {y})
  BY <1>1, <1>2, Sums
<1>4. Sum(f, {x}) = f[x] + Sum(f, {})
  BY <1>1, <1>3
<1> QED BY <1>3, <1>4

\* A digit is off by too little for ten to divide it, once or three times over.
LEMMA OneDigitOff ==
  ASSUME NEW s \in Int, NEW t \in Int, NEW u \in 0 .. 9, NEW v \in 0 .. 9, u # v,
         NEW w \in {1, 3}, s - t = w * (u - v)
  PROVE  (10 - (s % 10)) % 10 # (10 - (t % 10)) % 10
<1>1. PICK p \in Int, q \in 0 .. 9 : s = 10 * p + q /\ s % 10 = q
  BY SMTT(30)
<1>2. PICK m \in Int, n \in 0 .. 9 : t = 10 * m + n /\ t % 10 = n
  BY SMTT(30)
<1>3. q # n
  <2>1. CASE w = 1
    BY <1>1, <1>2, <2>1
  <2>2. CASE w = 3
    <3>1. 10 * (p - m) = 3 * (u - v) + (n - q)
      BY <1>1, <1>2, <2>2
    <3> QED BY <3>1
  <2> QED BY <2>1, <2>2
<1>4. \A k \in 0 .. 9 : (10 - k) % 10 = (IF k = 0 THEN 0 ELSE 10 - k)
  OBVIOUS
<1> QED BY <1>1, <1>2, <1>3, <1>4

\* No two rows of digits that differ in one place have one check digit.
LEMMA CheckDigitTells ==
  ASSUME NEW a \in Seq(0 .. 9), NEW b \in Seq(0 .. 9), Len(a) = Len(b),
         NEW at \in 1 .. Len(a), a[at] # b[at], \A i \in (1 .. Len(a)) \ {at} : a[i] = b[i]
  PROVE  CheckDigit(a) # CheckDigit(b)
<1> DEFINE D == 1 .. Len(a)
           fa == Checked(a)
           fb == Checked(b)
<1>1. /\ D = DOMAIN a /\ D = DOMAIN b /\ IsFiniteSet(D)
      /\ \A i \in D : i \in Nat /\ a[i] \in 0 .. 9 /\ b[i] \in 0 .. 9
  BY ListDomain
<1>2. \A i \in D : Weight(i) \in {1, 3}
  BY DEF Weight
<1>3. /\ DOMAIN fa = D /\ DOMAIN fb = D
      /\ \A i \in D : fa[i] = a[i] * Weight(i) /\ fb[i] = b[i] * Weight(i)
  BY <1>1 DEF Checked
<1>4. \A i \in D : fa[i] \in Int /\ fb[i] \in Int
  BY <1>1, <1>2, <1>3, SMTT(60)
<1>5. /\ CheckDigit(a) = (10 - (Sum(fa, D) % 10)) % 10
      /\ CheckDigit(b) = (10 - (Sum(fb, D) % 10)) % 10
  <2>1. CheckDigit(a) = (10 - (TrySum(fa) % 10)) % 10
    BY DEF CheckDigit, Checked, Weight
  <2>2. CheckDigit(b) = (10 - (TrySum(fb) % 10)) % 10
    BY DEF CheckDigit, Checked, Weight
  <2> QED BY <1>3, <2>1, <2>2, TrySumIsSum
<1> HIDE DEF D, fa, fb
<1>6. at \in D
  BY DEF D
<1>7. /\ Sum(fa, D) \in Int /\ Sum(fb, D) \in Int
      /\ Sum(fa, D) - Sum(fb, D) = fa[at] - fb[at]
  <2>1. \A i \in D \ {at} : fa[i] = fb[i]
    BY <1>3 DEF D
  <2>2. IsFiniteSet(D)
    BY <1>1
  <2>3. DifferAt(at, D, fa, fb)
    BY ONLY <1>4, <1>6, <2>1, <2>2 DEF DifferAt
  <2> QED BY ONLY <2>3, SumsApart
<1>10. Sum(fa, D) - Sum(fb, D) = Weight(at) * (a[at] - b[at])
  <2>1. fa[at] = a[at] * Weight(at) /\ fb[at] = b[at] * Weight(at)
    BY <1>3, <1>6
  <2>2. a[at] \in Int /\ b[at] \in Int /\ Weight(at) \in {1, 3}
    BY <1>1, <1>2, <1>6
  <2>3. fa[at] - fb[at] = Weight(at) * (a[at] - b[at])
    BY <2>1, <2>2
  <2> QED BY <1>7, <2>3
<1>11. a[at] \in 0 .. 9 /\ b[at] \in 0 .. 9 /\ Weight(at) \in {1, 3}
  BY <1>1, <1>2, <1>6
<1>12. (10 - (Sum(fa, D) % 10)) % 10 # (10 - (Sum(fb, D) % 10)) % 10
  <2> DEFINE s == Sum(fa, D)
             u == Sum(fb, D)
             m == a[at]
             n == b[at]
             w == Weight(at)
  <2>1. s \in Int /\ u \in Int /\ m \in 0 .. 9 /\ n \in 0 .. 9 /\ m # n /\ w \in {1, 3}
    BY <1>7, <1>11
  <2>2. s - u = w * (m - n)
    BY <1>10
  <2> HIDE DEF s, u, m, n, w
  <2>3. (10 - (s % 10)) % 10 # (10 - (u % 10)) % 10
    BY ONLY <2>1, <2>2, OneDigitOff
  <2> QED BY <2>3 DEF s, u
<1> QED BY <1>5, <1>12

\* A label as the scale printed it: twelve digits, and the one that checks them.
LEMMA LabelDigits ==
  ASSUME NEW twelve \in Seq(0 .. 9), Len(twelve) = LabelLength - 1,
         NEW code, code = Append(twelve, CheckDigit(twelve))
  PROVE  /\ CheckDigit(twelve) \in 0 .. 9
         /\ code \in Seq(0 .. 9) /\ Len(code) = 13
         /\ \A i \in 1 .. 12 : code[i] = twelve[i]
         /\ code[13] = CheckDigit(twelve)
<1>1. CheckDigit(twelve) \in 0 .. 9
  <2> DEFINE s == TrySum(Checked(twelve))
  <2>1. CheckDigit(twelve) = (10 - (s % 10)) % 10
    BY DEF CheckDigit, Checked, Weight
  <2>2. s \in Int
    <3> DEFINE f == Checked(twelve)
               D == DOMAIN twelve
    <3>1. IsFiniteSet(D) /\ \A i \in D : i \in Nat /\ twelve[i] \in 0 .. 9
      BY ListDomain
    <3>2. DOMAIN f = D /\ \A i \in D : f[i] = twelve[i] * Weight(i)
      BY DEF Checked
    <3>3. \A i \in D : Weight(i) \in {1, 3}
      BY DEF Weight
    <3> HIDE DEF f, D
    <3>4. ASSUME NEW i \in D PROVE f[i] \in Int
      <4>1. twelve[i] \in Int /\ f[i] = twelve[i] * Weight(i)
        BY ONLY <3>1, <3>2, i \in D
      <4>2. Weight(i) = 1 \/ Weight(i) = 3
        BY <3>3
      <4> QED BY ONLY <4>1, <4>2
    <3>5. Sum(f, D) \in Int
      <4>1. IsFiniteSet(D)
        BY <3>1
      <4> QED BY ONLY <4>1, <3>4, SumIsInt
    <3> QED BY <3>2, <3>5, TrySumIsSum DEF f
  <2> HIDE DEF s
  <2>3. (s % 10) \in 0 .. 9
    BY <2>2
  <2> QED BY <2>1, <2>3, SMTT(60)
<1>2. /\ code \in Seq(0 .. 9) /\ Len(code) = 13
      /\ \A i \in 1 .. 12 : code[i] = twelve[i]
      /\ code[13] = CheckDigit(twelve)
  <2> DEFINE c == CheckDigit(twelve)
             d == Append(twelve, c)
  <2>1. /\ d \in Seq(0 .. 9) /\ Len(d) = Len(twelve) + 1
        /\ \A i \in 1 .. Len(twelve) : d[i] = twelve[i]
        /\ d[Len(twelve) + 1] = c
    <3> HIDE DEF c
    <3> QED BY <1>1, AppendProperties DEF c
  <2>2. Len(twelve) = 12
    BY DEF LabelLength
  <2>3. code = d
    OBVIOUS
  <2> HIDE DEF d
  <2>4. Len(twelve) + 1 = 13
    BY ONLY <2>2
  <2> HIDE DEF c
  <2>5. /\ d \in Seq(0 .. 9) /\ Len(d) = 13 /\ \A i \in 1 .. 12 : d[i] = twelve[i]
        /\ d[13] = c
    BY ONLY <2>1, <2>2, <2>4
  <2> QED BY <2>3, <2>5 DEF c
<1> QED BY <1>1, <1>2

\* A label with one digit misread is nothing for sale: either it no longer
\* looks like a label, and no product goes by it, or its check digit is wrong.
LEMMA MisreadIsNotSold ==
  ASSUME NEW format, ValidFormat(format), {format.item, format.value, format.filler} \subseteq Nat,
         NEW twelve \in Seq(0 .. 9), Len(twelve) = LabelLength - 1,
         NEW at \in 1 .. LabelLength, NEW digit \in 0 .. 9, NEW unit,
         NEW code, code = Append(twelve, CheckDigit(twelve)), digit # code[at],
         NEW item, item = ItemCode(format, code),
         NEW shelf, shelf = [id \in {item} |-> [unit |-> unit, barcodes |-> {id}]],
         NEW bad, bad = [code EXCEPT ![at] = digit]
  PROVE  Scan({format}, shelf, bad, "BDT").kind # "found"
<1>1. CheckDigit(twelve) \in 0 .. 9
  BY LabelDigits
<1>2. /\ code \in Seq(0 .. 9) /\ Len(code) = 13
      /\ \A i \in 1 .. 12 : code[i] = twelve[i]
      /\ code[13] = CheckDigit(twelve)
  BY LabelDigits
<1>3. /\ bad \in Seq(0 .. 9) /\ Len(bad) = 13 /\ bad[at] = digit
      /\ \A i \in 1 .. 13 : i # at => bad[i] = code[i]
  <2>1. at \in 1 .. Len(code)
    BY <1>2 DEF LabelLength
  <2>2. /\ [code EXCEPT ![at] = digit] \in Seq(0 .. 9)
        /\ Len([code EXCEPT ![at] = digit]) = Len(code)
        /\ \A j \in 1 .. Len(code) :
              [code EXCEPT ![at] = digit][j] = IF j = at THEN digit ELSE code[j]
    <3> DEFINE S == 0 .. 9
    <3>1. code \in Seq(S) /\ digit \in S
      BY <1>2
    <3> HIDE DEF S
    <3>2. /\ [code EXCEPT ![at] = digit] \in Seq(S)
          /\ Len([code EXCEPT ![at] = digit]) = Len(code)
          /\ \A j \in 1 .. Len(code) :
                [code EXCEPT ![at] = digit][j] = IF j = at THEN digit ELSE code[j]
      BY ONLY <3>1, <2>1, ExceptSeq
    <3> QED BY <3>2 DEF S
  <2> QED BY <1>2, <2>1, <2>2
<1>4. CASE ~Matches(format, bad)
  <2>1. Len(item) < 13
    <3> DEFINE p == Len(format.prefix)
    <3>1. p \in 1 .. 3 /\ format.item \in Nat /\ format.value \in Nat /\ format.filler \in Nat
          /\ format.value > 0 /\ p + format.item + format.value + format.filler + 1 = 13
      BY DEF ValidFormat, LabelLength
    <3> DEFINE m == p + 1
               n == p + format.item
    <3>2. m \in Int /\ n \in Int /\ m \in 1 .. 13 /\ n \in 0 .. 12
      <4> HIDE DEF p
      <4> DEFINE i == format.item
                 v == format.value
                 f == format.filler
      <4>1. p \in Int /\ i \in Int /\ v \in Int /\ f \in Int
            /\ p >= 1 /\ p <= 3 /\ i >= 0 /\ v > 0 /\ f >= 0 /\ p + i + v + f + 1 = 13
        BY ONLY <3>1
      <4> HIDE DEF i, v, f
      <4>2. p + 1 \in Int /\ p + i \in Int /\ p + 1 \in 1 .. 13 /\ p + i \in 0 .. 12
        BY ONLY <4>1
      <4> QED BY ONLY <4>2 DEF i, m, n
    <3>3. item = SubSeq(code, m, n)
      BY DEF ItemCode
    <3> HIDE DEF p, m, n
    <3>4. \A i \in m .. n : code[i] \in 0 .. 9
      <4>1. \A i \in 1 .. 13 : code[i] \in 0 .. 9
        BY <1>2, SMTT(60)
      <4>2. \A i \in m .. n : i \in 1 .. 13
        BY <3>2
      <4> QED BY <4>1, <4>2
    <3>5. Len(SubSeq(code, m, n)) = IF m <= n THEN n - m + 1 ELSE 0
      BY <3>2, <3>4, SubSeqProperties
    <3> QED BY <3>2, <3>3, <3>5
  <2>2. bad # item
    BY <1>3, <2>1
  <2>3. ByBarcode(shelf, bad) = {}
    BY <2>2 DEF ByBarcode, Products
  <2>4. Scan({format}, shelf, bad, "BDT") = NotFound
    BY <1>4, <2>3 DEF Scan
  <2> QED BY <2>4 DEF NotFound
<1>5. CASE Matches(format, bad)
  <2> DEFINE front == SubSeq(bad, 1, 12)
  <2>1. /\ front \in Seq(0 .. 9) /\ Len(front) = 12
        /\ \A i \in 1 .. 12 : front[i] = bad[i]
    BY <1>3, SubSeqProperties, SMTT(60)
  <2> HIDE DEF front
  <2>2. CheckDigit(front) # bad[13]
    <3>1. CASE at = 13
      <4>1. front = twelve
        <5>1. Len(front) = Len(twelve) /\ \A i \in 1 .. Len(front) : front[i] = twelve[i]
          BY <1>2, <1>3, <2>1, <3>1 DEF LabelLength
        <5> QED BY <2>1, <5>1, SeqEqual, ZenonT(60)
      <4> QED BY <1>2, <1>3, <3>1, <4>1
    <3>2. CASE at # 13
      <4>1. at \in 1 .. 12
        BY <3>2 DEF LabelLength
      <4>2. front[at] # twelve[at] /\ \A i \in (1 .. 12) \ {at} : front[i] = twelve[i]
        BY <1>2, <1>3, <2>1, <4>1, SMTT(60)
      <4>3. CheckDigit(front) # CheckDigit(twelve)
        <5>1. Len(front) = 12 /\ Len(twelve) = 12 /\ twelve \in Seq(0 .. 9)
          BY <2>1 DEF LabelLength
        <5>2. /\ at \in 1 .. Len(front) /\ Len(front) = Len(twelve)
              /\ \A i \in (1 .. Len(front)) \ {at} : front[i] = twelve[i]
          BY <4>1, <4>2, <5>1
        <5>3. front \in Seq(0 .. 9) /\ twelve \in Seq(0 .. 9) /\ front[at] # twelve[at]
          BY <2>1, <4>2
        <5> QED BY ONLY <5>2, <5>3, CheckDigitTells
      <4> QED BY <1>2, <1>3, <3>2, <4>3, SMTT(30)
    <3> QED BY <3>1, <3>2
  <2>3. Parse(format, bad, "BDT") = Corrupt
    BY <2>2 DEF Parse, LabelLength, front
  <2>4. (CHOOSE f \in {format} : TRUE) = format
    OBVIOUS
  <2>5. Scan({format}, shelf, bad, "BDT") = Refused
    BY <1>5, <2>3, <2>4 DEF Scan
  <2> QED BY <2>5 DEF Refused
<1> QED BY <1>4, <1>5

Reading == INSTANCE Folding WITH Start <- 0, Advance <- NextDigit

\* Digits read as a number make one.
LEMMA DigitsMakeNumber ==
  ASSUME NEW digits \in Seq(0 .. 9)
  PROVE  Number(digits) \in Nat
<1> DEFINE S == 0 .. 9
<1>1. Number(digits) = Reading!From(0, digits)
  BY DEF Number, Through, Reading!From
<1>2. \A n \in Nat, d \in S : NextDigit(n, d) \in Nat
  BY DEF NextDigit
<1>3. digits \in Seq(S) /\ 0 \in Nat
  OBVIOUS
<1> HIDE DEF S
<1>4. Reading!From(0, digits) \in Nat
  BY ONLY <1>2, <1>3, Reading!FromInvariant
<1> QED BY <1>1, <1>4

\* A weight printed with some decimals is as much in thousandths, and whole when
\* it was.
AsMuchInThousandths(raw, decimals, value) ==
    /\ value \in Nat /\ (value > 0 <=> raw > 0)
    /\ value * 10 ^ decimals = raw * 1000
    /\ (value % 1000 = 0 <=> raw % 10 ^ decimals = 0)
LEMMA Thousandths ==
  ASSUME NEW raw \in Nat, NEW decimals \in 0 .. 3,
         NEW value, value = raw * 10 ^ (3 - decimals)
  PROVE  AsMuchInThousandths(raw, decimals, value)
<1>1. 10 ^ 0 = 1 /\ 10 ^ 1 = 10 /\ 10 ^ 2 = 100 /\ 10 ^ 3 = 1000
  OBVIOUS
<1>2. CASE decimals = 0
  BY <1>1, <1>2 DEF AsMuchInThousandths
<1>3. CASE decimals = 1
  BY <1>1, <1>3 DEF AsMuchInThousandths
<1>4. CASE decimals = 2
  BY <1>1, <1>4 DEF AsMuchInThousandths
<1>5. CASE decimals = 3
  BY <1>1, <1>5 DEF AsMuchInThousandths
<1> QED BY <1>2, <1>3, <1>4, <1>5

\* A price printed with some decimals is as much in hundredths.
LEMMA Hundredths ==
  ASSUME NEW raw \in Nat, NEW decimals \in 0 .. 2,
         NEW value, value = raw * 10 ^ (2 - decimals)
  PROVE  value * 10 ^ decimals = raw * 10 ^ 2
<1>1. 10 ^ 0 = 1 /\ 10 ^ 1 = 10 /\ 10 ^ 2 = 100
  OBVIOUS
<1>2. CASE decimals = 0
  BY <1>1, <1>2
<1>3. CASE decimals = 1
  BY <1>1, <1>3
<1>4. CASE decimals = 2
  BY <1>1, <1>4
<1> QED BY <1>2, <1>3, <1>4

\* A label read right is sold whenever it can be, as what the scale printed.
ReadRight(format, twelve, code, shelf, scan) ==
    /\ ValidFormat(format) /\ format.prefix \in Seq(0 .. 9)
    /\ {format.item, format.value, format.filler, format.decimals} \subseteq Nat
    /\ format.embedded \in {"weight", "price"}
    /\ twelve \in Seq(0 .. 9) /\ Len(twelve) = LabelLength - 1
    /\ code = Append(twelve, CheckDigit(twelve)) /\ Matches(format, code)
    /\ shelf = [id \in {ItemCode(format, code)} |-> [unit |-> scan.unit, barcodes |-> {id}]]
    /\ scan.format = format /\ scan.label = code
    /\ scan.sold = Scan({format}, shelf, code, "BDT")
SoldRight(scan) ==
    /\ scan.sold.kind = "found" <=> CanBeSold(scan)
    /\ scan.sold.kind = "found" => SoldAsPrinted(scan)
LEMMA GoodLabelIsSold ==
  ASSUME NEW format, NEW twelve, NEW code, NEW shelf, NEW scan,
         ReadRight(format, twelve, code, shelf, scan)
  PROVE  SoldRight(scan)
<1> USE DEF ReadRight
<1> DEFINE item == ItemCode(format, code)
           unit == scan.unit
           raw == RawValue(format, code)
           value == raw * 10 ^ (Holds(format, "BDT") - format.decimals)
           read == [kind |-> format.embedded, item |-> item, value |-> value]
<1>1. /\ code \in Seq(0 .. 9) /\ Len(code) = 13
      /\ \A i \in 1 .. 12 : code[i] = twelve[i]
      /\ code[13] = CheckDigit(twelve)
  BY LabelDigits
<1>2. SubSeq(code, 1, LabelLength - 1) = twelve
  <2> DEFINE front == SubSeq(code, 1, 12)
  <2>1. front \in Seq(0 .. 9) /\ Len(front) = 12 /\ \A i \in 1 .. 12 : front[i] = code[i]
    BY <1>1, SubSeqProperties, SMTT(60)
  <2> HIDE DEF front
  <2>2. Len(front) = Len(twelve) /\ \A i \in 1 .. Len(front) : front[i] = twelve[i]
    BY <1>1, <2>1 DEF LabelLength
  <2>3. front = twelve
    BY <2>1, <2>2, SeqEqual, ZenonT(60)
  <2> QED BY <2>3 DEF front, LabelLength
<1>3. (CHOOSE f \in {format} : TRUE) = format
  OBVIOUS
<1>4. ByBarcode(shelf, item) = {item} /\ (CHOOSE id \in {item} : TRUE) = item
      /\ shelf[item].unit = unit
  BY DEF ByBarcode, Products
<1>5. raw \in Nat
  <2> DEFINE m == Len(format.prefix) + format.item + 1
             n == Len(format.prefix) + format.item + format.value
             digits == SubSeq(code, m, n)
  <2>1. m \in 1 .. 13 /\ n \in 0 .. 12
    <3> DEFINE p == Len(format.prefix)
    <3>1. p \in 1 .. 3 /\ format.item \in Nat /\ format.value \in Nat /\ format.filler \in Nat
          /\ format.value > 0 /\ p + format.item + format.value + format.filler + 1 = 13
      BY DEF ValidFormat, LabelLength
    <3> HIDE DEF p
    <3> DEFINE i == format.item
               v == format.value
               f == format.filler
    <3>2. p \in Int /\ i \in Int /\ v \in Int /\ f \in Int
          /\ p >= 1 /\ p <= 3 /\ i >= 0 /\ v > 0 /\ f >= 0 /\ p + i + v + f + 1 = 13
      BY ONLY <3>1
    <3> HIDE DEF i, v, f
    <3>3. p + i + 1 \in 1 .. 13 /\ p + i + v \in 0 .. 12
      BY ONLY <3>2
    <3> QED BY ONLY <3>3 DEF p, i, v, m, n
  <2>2. raw = Number(digits)
    BY DEF RawValue
  <2> HIDE DEF m, n
  <2>3. \A i \in m .. n : code[i] \in 0 .. 9
    <3>1. \A i \in 1 .. 13 : code[i] \in 0 .. 9
      BY <1>1, SMTT(60)
    <3>2. \A i \in m .. n : i \in 1 .. 13
      BY ONLY <2>1
    <3> QED BY ONLY <3>1, <3>2
  <2>4. digits \in Seq(0 .. 9)
    <3> DEFINE S == 0 .. 9
    <3>1. m \in Int /\ n \in Int
      BY ONLY <2>1
    <3>2. \A i \in m .. n : code[i] \in S
      BY ONLY <2>3
    <3> HIDE DEF S
    <3>3. SubSeq(code, m, n) \in Seq(S)
      BY ONLY <3>1, <3>2, SubSeqProperties
    <3> QED BY ONLY <3>3 DEF S
  <2> QED BY <2>2, <2>4, DigitsMakeNumber
<1>6. Holds(format, "BDT") = IF format.embedded = "weight" THEN 3 ELSE 2
  BY DEF Holds, Exponent
<1>7. Printed(scan) = raw /\ PerWhole(scan) = 10 ^ format.decimals
  BY DEF Printed, PerWhole
<1> HIDE DEF raw
<1> USE DEF SoldRight
<1>8. CASE format.decimals > Holds(format, "BDT")
  <2>1. Parse(format, code, "BDT") = TooPrecise
    BY <1>1, <1>2, <1>8 DEF Parse, LabelLength
  <2>2. scan.sold = Refused
    BY <1>3, <2>1 DEF Scan
  <2>3. ~CanBeSold(scan)
    BY <1>6, <1>8 DEF CanBeSold
  <2> QED BY <2>2, <2>3 DEF Refused
<1>9. CASE format.decimals <= Holds(format, "BDT")
  <2>1. Parse(format, code, "BDT") = read
    <3>1. CheckDigit(SubSeq(code, 1, LabelLength - 1)) = code[LabelLength]
      BY <1>1, <1>2 DEF LabelLength
    <3>2. ~ (format.decimals > Holds(format, "BDT"))
      BY <1>6, <1>9
    <3> QED BY <3>1, <3>2, Zenon DEF Parse, raw
  <2>2. scan.sold = Sold(shelf, item, read)
    <3>1. read \notin {Corrupt, TooPrecise} /\ read.item = item
      BY DEF Corrupt, TooPrecise
    <3> HIDE DEF read
    <3> QED BY <1>3, <1>4, <2>1, <3>1 DEF Scan
  <2>3. read.kind = format.embedded /\ read.value = value
    OBVIOUS
  <2> HIDE DEF read
  <2>4. CASE format.embedded = "price"
    <3>1. scan.sold = Found(item, MilliPerUnit, value)
      BY <2>2, <2>3, <2>4 DEF Sold
    <3>2. value * 10 ^ format.decimals = raw * MinorPerMajor("BDT")
      <4>1. Holds(format, "BDT") = 2 /\ MinorPerMajor("BDT") = 10 ^ 2
        BY <1>6, <2>4 DEF MinorPerMajor, Exponent
      <4>2. value = raw * 10 ^ (2 - format.decimals)
        BY <4>1
      <4>3. format.decimals \in 0 .. 2
        BY <1>9, <4>1
      <4> HIDE DEF value
      <4>4. raw \in Nat
        BY <1>5
      <4> DEFINE d == format.decimals
      <4>5. d \in 0 .. 2 /\ value = raw * 10 ^ (2 - d)
        BY <4>2, <4>3
      <4> HIDE DEF d
      <4>6. value * 10 ^ d = raw * 10 ^ 2
        BY ONLY <4>4, <4>5, Hundredths
      <4> QED BY ONLY <4>1, <4>6 DEF d
    <3>3. CanBeSold(scan)
      BY <1>9, <2>4 DEF CanBeSold
    <3> HIDE DEF value
    <3> QED BY <1>7, <2>4, <3>1, <3>2, <3>3 DEF SoldAsPrinted, Found
  <2>5. CASE format.embedded = "weight"
    <3>1. /\ value \in Nat /\ (value > 0 <=> raw > 0)
          /\ value * 10 ^ format.decimals = raw * MilliPerUnit
          /\ (value % MilliPerUnit = 0 <=> raw % 10 ^ format.decimals = 0)
      <4>1. Holds(format, "BDT") = 3 /\ MilliPerUnit = 1000
        BY <1>6, <2>5 DEF MilliPerUnit
      <4>2. value = raw * 10 ^ (3 - format.decimals)
        BY <4>1
      <4>3. format.decimals \in 0 .. 3
        BY <1>9, <4>1
      <4> HIDE DEF value
      <4>4. raw \in Nat
        BY <1>5
      <4> DEFINE d == format.decimals
      <4>5. d \in 0 .. 3 /\ value = raw * 10 ^ (3 - d)
        BY <4>2, <4>3
      <4> HIDE DEF d
      <4>6. AsMuchInThousandths(raw, d, value)
        BY ONLY <4>4, <4>5, Thousandths
      <4> QED BY ONLY <4>1, <4>6 DEF d, AsMuchInThousandths
    <3> HIDE DEF value
    <3>2. CanBeSold(scan) <=> Weigh(unit, value)
      BY <1>7, <1>9, <2>5, <3>1 DEF CanBeSold, Weigh
    <3>3. scan.sold = IF Weigh(unit, value) THEN Found(item, value, AtCatalogue) ELSE Refused
      BY <1>4, <2>2, <2>3, <2>5 DEF Sold
    <3>4. CASE Weigh(unit, value)
      BY <1>7, <2>5, <3>1, <3>2, <3>3, <3>4 DEF SoldAsPrinted, Found
    <3>5. CASE ~Weigh(unit, value)
      BY <3>2, <3>3, <3>5 DEF Refused
    <3> QED BY <3>4, <3>5
  <2> QED BY <2>4, <2>5
<1> QED BY <1>6, <1>8, <1>9

Latest == INSTANCE Folding WITH Start <- << >>, Advance <- ResolveEdit

Stands(a, b) ==
    a.server_seq > b.server_seq \/ (a.server_seq = b.server_seq /\ a.device >= b.device)

\* Of a list of edits one stands against every one of them.
LEMMA LatestStands ==
  ASSUME NEW S, \A e \in S : e.server_seq \in Int /\ e.device \in Int,
         NEW edits \in Seq(S), edits # << >>
  PROVE  /\ \E i \in DOMAIN edits : LatestOf(edits) = edits[i]
         /\ \A i \in DOMAIN edits : Stands(LatestOf(edits), edits[i])
<1> DEFINE first == Head(edits)
           rest == Tail(edits)
           Better(x, s) ==
               /\ x \in S /\ Stands(x, first) /\ \A i \in DOMAIN s : Stands(x, s[i])
               /\ x = first \/ \E i \in DOMAIN s : x = s[i]
           P == {s \in Seq(S) : Better(Latest!From(first, s), s)}
<1>1. first \in S /\ rest \in Seq(S) /\ Stands(first, first)
  BY HeadTailProperties DEF Stands
<1>2. << >> \in P
  BY <1>1, Latest!FromEmpty, EmptySeq
<1>3. ASSUME NEW s \in P, NEW e \in S PROVE Append(s, e) \in P
  <2> DEFINE x == Latest!From(first, s)
             more == Append(s, e)
             y == Latest!From(first, more)
  <2>1. s \in Seq(S) /\ Better(x, s)
    OBVIOUS
  <2>2. y = ResolveEdit(x, e)
    BY <2>1, Latest!FromAppend
  <2>3. /\ more \in Seq(S) /\ Len(more) = Len(s) + 1 /\ Len(s) \in Nat
        /\ more[Len(s) + 1] = e /\ \A i \in 1 .. Len(s) : more[i] = s[i]
        /\ DOMAIN more = 1 .. Len(s) + 1 /\ DOMAIN s = 1 .. Len(s)
    BY <2>1, AppendProperties
  <2> HIDE DEF x, y, more, P
  <2>4. \/ y = x /\ Stands(x, e)
        \/ y = e /\ Stands(e, x)
    BY <2>1, <2>2 DEF ResolveEdit, Stands
  <2>5. \A z \in S : Stands(x, z) => Stands(y, z)
    BY <2>1, <2>4 DEF Stands
  <2>6. y \in S /\ Stands(y, first) /\ Stands(y, e)
    BY <1>1, <2>1, <2>4, <2>5 DEF Stands
  <2>7. ASSUME NEW i \in DOMAIN more PROVE Stands(y, more[i])
    <3>1. CASE i = Len(s) + 1
      BY <2>3, <2>6, <3>1
    <3>2. CASE i \in 1 .. Len(s)
      <4>1. more[i] = s[i] /\ s[i] \in S /\ Stands(x, s[i])
        BY <2>1, <2>3, <3>2
      <4> QED BY <2>5, <4>1
    <3> QED BY <2>3, <3>1, <3>2
  <2>8. y = first \/ \E i \in DOMAIN more : y = more[i]
    <3>1. CASE y = e
      <4>1. Len(s) + 1 \in DOMAIN more /\ y = more[Len(s) + 1]
        BY <2>3, <3>1
      <4> QED BY <4>1
    <3>2. CASE y = x
      BY <2>1, <2>3, <3>2
    <3> QED BY <2>4, <3>1, <3>2
  <2>9. Better(y, more)
    BY <2>6, <2>7, <2>8
  <2> QED BY <2>3, <2>9 DEF P, y, more
<1> HIDE DEF P
<1>4. rest \in P
  <2>1. P \in SUBSET Seq(S)
    BY DEF P
  <2> QED BY <1>1, <1>2, <1>3, <2>1, Latest!SequenceInduction
<1>5. LatestOf(edits) = Latest!From(first, rest)
  BY DEF LatestOf, Through, Latest!From
<1>6. Better(LatestOf(edits), rest)
  BY <1>4, <1>5 DEF P
<1>7. /\ Len(edits) \in Nat /\ Len(edits) >= 1 /\ DOMAIN edits = 1 .. Len(edits)
      /\ DOMAIN rest = 1 .. Len(edits) - 1 /\ first = edits[1]
      /\ \A i \in DOMAIN rest : rest[i] = edits[i + 1]
  BY HeadTailProperties, EmptySeq
<1> HIDE DEF first, rest
<1>8. \E i \in DOMAIN edits : LatestOf(edits) = edits[i]
  <2>1. CASE LatestOf(edits) = first
    BY <1>7, <2>1
  <2>2. CASE \E i \in DOMAIN rest : LatestOf(edits) = rest[i]
    <3>1. PICK i \in DOMAIN rest : LatestOf(edits) = rest[i]
      BY <2>2
    <3>2. i + 1 \in DOMAIN edits /\ LatestOf(edits) = edits[i + 1]
      BY <1>7, <3>1
    <3> QED BY <3>2
  <2> QED BY <1>6, <2>1, <2>2
<1>9. ASSUME NEW i \in DOMAIN edits PROVE Stands(LatestOf(edits), edits[i])
  <2>1. CASE i = 1
    BY <1>6, <1>7, <2>1
  <2>2. CASE i # 1
    <3>1. i - 1 \in DOMAIN rest /\ rest[i - 1] = edits[i]
      BY <1>7, <2>2
    <3> QED BY <1>6, <3>1
  <2> QED BY <2>1, <2>2
<1> QED BY <1>8, <1>9

\* The edit that stands does not depend on the order they are met in.
LEMMA EitherOrder ==
  ASSUME NEW edits, edits \in Seq(Range(edits)), edits # << >>,
         \A e \in Range(edits) : e.server_seq \in Int /\ e.device \in Int,
         \A e, f \in Range(edits) :
            e.server_seq = f.server_seq /\ e.device = f.device => e = f
  PROVE  LatestOf(edits) = LatestOf(Reverse(edits))
<1> DEFINE S == Range(edits)
           back == Reverse(edits)
           a == LatestOf(edits)
           b == LatestOf(back)
<1>1. /\ DOMAIN edits = 1 .. Len(edits) /\ Len(edits) \in Nat /\ Len(edits) # 0
      /\ \A i \in DOMAIN edits : edits[i] \in S
  BY ListDomain, EmptySeq
<1>2. /\ DOMAIN back = 1 .. Len(edits)
      /\ \A i \in 1 .. Len(edits) :
            (Len(edits) - i) + 1 \in 1 .. Len(edits) /\ back[i] = edits[(Len(edits) - i) + 1]
  BY <1>1 DEF Reverse
<1>3. back \in [1 .. Len(edits) -> S]
  <2>1. back = [i \in 1 .. Len(edits) |-> edits[(Len(edits) - i) + 1]]
    BY DEF Reverse
  <2>2. \A i \in 1 .. Len(edits) : edits[(Len(edits) - i) + 1] \in S
    BY <1>1, <1>2
  <2> HIDE DEF back, S
  <2> QED BY <2>1, <2>2
<1> HIDE DEF S, back, a, b
<1>4. back \in Seq(S) /\ back # << >>
  <2>1. back \in Seq(S)
    BY <1>1, <1>3, SeqDef
  <2>2. DOMAIN back # {}
    BY <1>1, <1>2
  <2> QED BY <2>1, <2>2, EmptySeq
<1>5. edits \in Seq(S) /\ edits # << >> /\ \A e \in S : e.server_seq \in Int /\ e.device \in Int
  BY DEF S
<1>6. /\ \E i \in DOMAIN edits : a = edits[i]
      /\ \A i \in DOMAIN edits : Stands(a, edits[i])
  BY <1>5, LatestStands DEF a
<1>7. /\ \E i \in DOMAIN back : b = back[i]
      /\ \A i \in DOMAIN back : Stands(b, back[i])
  BY <1>4, <1>5, LatestStands DEF b
<1>8. Stands(a, b) /\ b \in S
  BY <1>1, <1>2, <1>6, <1>7
<1>9. Stands(b, a) /\ a \in S
  <2>1. PICK i \in DOMAIN edits : a = edits[i]
    BY <1>6
  <2>2. /\ (Len(edits) - i) + 1 \in 1 .. Len(edits)
        /\ (Len(edits) - ((Len(edits) - i) + 1)) + 1 = i
    BY <1>1, <2>1
  <2>3. back[(Len(edits) - i) + 1] = a
    BY <1>2, <2>1, <2>2
  <2> QED BY <1>1, <1>2, <1>7, <2>1, <2>2, <2>3
<1>10. a.server_seq = b.server_seq /\ a.device = b.device
  BY <1>5, <1>8, <1>9 DEF Stands
<1>11. a = b
  BY <1>8, <1>9, <1>10 DEF S
<1> QED BY <1>11 DEF a, b, back

\* A label misread by a digit is never sold, one read right is sold as what the
\* scale printed whenever it can be, and a product's edits come to the
\* same whatever order a till meets them in (ScaleFormat::parse, latest_of).
THEOREM ReadsAreTrue == Spec => []ReadsTrue
<1>1. Init => ReadsTrue
  BY DEF Init, None, ReadsTrue
<1>2. ASSUME ReadsTrue, [Next]_calc PROVE ReadsTrue'
  <2>1. CASE UNCHANGED calc
    BY <1>2, <2>1 DEF ReadsTrue
  <2>2. CASE Scans
    <3>1. PICK format \in Formats, twelve \in Codes, at \in 1 .. LabelLength,
               digit \in Digits, unit \in Unit :
            LET code == Append(twelve, CheckDigit(twelve))
                item == ItemCode(format, code)
                shelf == [id \in {item} |-> [unit |-> unit, barcodes |-> {id}]]
            IN /\ Matches(format, code)
               /\ calc' = [of |-> "scan", format |-> format, label |-> code, unit |-> unit,
                           misread |-> digit # code[at],
                           sold |-> Scan({format}, shelf, [code EXCEPT ![at] = digit], "BDT")]
      BY <2>2 DEF Scans, Answers
    <3> DEFINE code == Append(twelve, CheckDigit(twelve))
               item == ItemCode(format, code)
               shelf == [id \in {item} |-> [unit |-> unit, barcodes |-> {id}]]
               bad == [code EXCEPT ![at] = digit]
               sold == Scan({format}, shelf, bad, "BDT")
    <3>2. /\ Matches(format, code)
          /\ calc' = [of |-> "scan", format |-> format, label |-> code, unit |-> unit,
                      misread |-> digit # code[at], sold |-> sold]
      BY <3>1
    <3>3. /\ ValidFormat(format) /\ format.prefix \in Seq(0 .. 9)
          /\ {format.item, format.value, format.filler, format.decimals} \subseteq Nat
          /\ format.embedded \in {"weight", "price"}
          /\ twelve \in Seq(0 .. 9) /\ Len(twelve) = LabelLength - 1 /\ digit \in 0 .. 9
      BY LabelsAssumption
    <3>4. digit # code[at] => sold.kind # "found"
      BY <3>3, MisreadIsNotSold
    <3>5. ASSUME digit = code[at] PROVE SoldRight(calc')
      <4>1. bad = code
        <5>1. code \in Seq(0 .. 9)
          BY <3>3, LabelDigits
        <5> HIDE DEF code
        <5> QED BY <3>5, <5>1
      <4> DEFINE scan == calc'
      <4>2. /\ scan.format = format /\ scan.label = code /\ scan.unit = unit
            /\ scan.sold = Scan({format}, shelf, code, "BDT")
        <5> HIDE DEF code, item, shelf
        <5> QED BY <3>2, <4>1
      <4>3. ReadRight(format, twelve, code, shelf, scan)
        <5>1. shelf = [id \in {ItemCode(format, code)} |->
                          [unit |-> scan.unit, barcodes |-> {id}]]
          BY <4>2
        <5>2. code = Append(twelve, CheckDigit(twelve)) /\ Matches(format, code)
          BY <3>2
        <5> HIDE DEF code, shelf, scan
        <5> QED BY <3>3, <4>2, <5>1, <5>2, Zenon DEF ReadRight
      <4> HIDE DEF code, shelf, scan
      <4>4. SoldRight(scan)
        BY ONLY <4>3, GoodLabelIsSold
      <4> QED BY <4>4 DEF scan
    <3>6. /\ calc'.of = "scan" /\ calc'.sold = sold
          /\ calc'.misread = (digit # code[at])
      <4> HIDE DEF code, sold
      <4> QED BY <3>2
    <3> HIDE DEF code, sold
    <3> QED BY <3>4, <3>5, <3>6 DEF ReadsTrue, SoldRight
  <2>3. CASE Edits
    <3>1. PICK edits \in EditLists :
            calc' = [of |-> "edits", edits |-> edits, stands |-> LatestOf(edits)]
      BY <2>3 DEF Edits, Answers
    <3>2. LatestOf(edits) = LatestOf(Reverse(edits))
      BY EditsAssumption, EitherOrder
    <3> QED BY <3>1, <3>2 DEF ReadsTrue
  <2>4. CASE Allocates BY <2>4 DEF Allocates, Answers, ReadsTrue
  <2>5. CASE Splits BY <2>5 DEF Splits, Answers, ReadsTrue
  <2>6. CASE Prices BY <2>6 DEF Prices, Answers, ReadsTrue
  <2>7. CASE Chooses BY <2>7 DEF Chooses, Answers, ReadsTrue
  <2>8. CASE calc'.of \in OtherKinds
    BY <2>8 DEF ReadsTrue, OtherKinds
  <2> QED BY <1>2, <2>1, <2>2, <2>3, <2>4, <2>5, <2>6, <2>7, <2>8, Questions
<1> QED BY <1>1, <1>2, PTL DEF Spec

-----------------------------------------------------------------------------
(***************************************************************************)
(* The feeds.                                                              *)
(***************************************************************************)

\* What is said of a void or a discount, and of two tallies.
LEMMA Judgements ==
  ASSUME [Next]_calc
  PROVE  \/ UNCHANGED calc
         \/ Judges \/ Compares \/ calc'.of \notin {"refusal", "audit", "outliers"}
<1>1. CASE Allocates BY <1>1 DEF Allocates, Answers
<1>2. CASE Splits BY <1>2 DEF Splits, Answers
<1>3. CASE Prices BY <1>3 DEF Prices, Answers
<1>4. CASE Chooses BY <1>4 DEF Chooses, Answers
<1>5. CASE Picks BY <1>5 DEF Picks, Answers
<1>6. CASE Oversells BY <1>6 DEF Oversells, Answers
<1>7. CASE Transfers BY <1>7 DEF Transfers, Answers
<1>8. CASE Receives BY <1>8 DEF Receives, Answers
<1>9. CASE Closes BY <1>9 DEF Closes, Answers
<1>10. CASE Scans BY <1>10 DEF Scans, Answers
<1>11. CASE Edits BY <1>11 DEF Edits, Answers
<1>12. CASE Prints BY <1>12 DEF Prints, Answers
<1>13. CASE Verifies BY <1>13 DEF Verifies, Answers
<1>14. CASE Finishes BY <1>14 DEF Finishes, None
<1> QED BY <1>1, <1>2, <1>3, <1>4, <1>5, <1>6, <1>7, <1>8, <1>9, <1>10, <1>11, <1>12, <1>13,
           <1>14 DEF Next

ValidRequest(request) ==
    /\ request.kind \in {"line_voided", "order_discounted"}
    /\ request.discount \in {"amount", "percentage"}

\* Whoever holds the permission is within every limit.
LEMMA HoldersMay ==
  ASSUME NEW role \in Role, NEW request, ValidRequest(request), NEW policy,
         RoleCan(role, PermissionFor(request))
  PROVE  MayAlone(role, request, policy) /\ RoleCan(role, "VoidLine")
<1>1. RoleCan(role, "VoidLine") /\ RoleCan(role, "ApplyDiscount")
  BY DEF RoleCan, Role, PermissionFor, OwnersOnly
<1> QED BY <1>1 DEF ValidRequest, MayAlone, AllowsVoid, AllowsDiscount, AllowsDiscountRate

\* A PIN that an approver has approves: of those who have it one was enrolled
\* before the others.
LEMMA SomebodyApproves ==
  ASSUME NEW permission, NEW pin, Approves(Staff, permission, pin) = {}
  PROVE  ~\E m \in Approvers(Staff, permission) : Staff[m].pin = pin
<1> DEFINE those == {m \in Approvers(Staff, permission) : Staff[m].pin = pin}
           T == {Staff[m].since : m \in those}
<1>1. SUFFICES ASSUME those # {} PROVE FALSE
  OBVIOUS
<1>2. those \in SUBSET Members(Staff)
  BY DEF Approvers
<1>3. T \in SUBSET Nat /\ T # {}
  BY <1>1, <1>2, StaffAssumption
<1> HIDE DEF T
<1>4. PICK n \in T : \A m \in T : n <= m
  BY <1>3, Counting!LeastNumber
<1>5. PICK m \in those : Staff[m].since = n
  BY <1>4 DEF T
<1>6. \A other \in those : Staff[m].since <= Staff[other].since
  BY <1>4, <1>5 DEF T
<1>7. m \in Approves(Staff, permission, pin)
  BY <1>5, <1>6 DEF Approves
<1> QED BY <1>7

\* Nobody within their limits, or holding the permission, is found to have
\* approved themselves.
LEMMA NobodyAccused ==
  ASSUME NEW who \in Members(Staff), NEW by, NEW request, ValidRequest(request), NEW policy,
         request.discount = "amount",
         by = who => MayAlone(Staff[who].role, request, policy)
  PROVE  \A finding \in Audited(who, by, request, policy).found :
            finding.kind # "self_approved"
<1> DEFINE e == [kind |-> request.kind, at |-> 1, by |-> by,
                 discount |-> IF request.discount = "percentage"
                              THEN Percentage(request.amount) ELSE AmountOff(request.amount)]
           entries == EntriesOf(e, who, request.amount)
           point == StartingPoint("BDT")
           found == ScanFindings(<< >>, entries, Staff, policy, point)
<1>1. /\ e.kind = request.kind /\ e.by = by
      /\ e.discount.kind = "amount" /\ e.discount.amount = request.amount
  BY DEF AmountOff
<1> HIDE DEF e
<1>2. \A entry \in entries :
         /\ entry.kind = request.kind /\ entry.actor = who /\ entry.by = {by}
         /\ entry.amount = {request.amount}
  <2>1. CASE request.kind = "line_voided"
    BY <1>1, <2>1 DEF EntriesOf
  <2>2. CASE request.kind = "order_discounted"
    BY <1>1, <2>2 DEF EntriesOf
  <2> QED BY <2>1, <2>2 DEF ValidRequest
<1> HIDE DEF entries
<1>3. Unapproved(entries, Staff, policy) = {}
  <2>1. ASSUME NEW entry \in entries, IsSelfApproved(entry)
        PROVE  Permits(Staff[entry.actor].role, entry, policy)
    <3>1. by = who
      BY <1>2, <2>1 DEF IsSelfApproved
    <3>2. MayAlone(Staff[who].role, request, policy)
      BY <3>1
    <3>3. CASE request.kind = "line_voided"
      BY <1>2, <3>2, <3>3 DEF MayAlone, Permits
    <3>4. CASE request.kind = "order_discounted"
      BY <1>2, <3>2, <3>4 DEF MayAlone, Permits
    <3> QED BY <3>3, <3>4 DEF ValidRequest
  <2> QED BY <1>2, <2>1 DEF Unapproved
<1> HIDE DEF point
<1>4. \A finding \in found : finding.kind # "self_approved"
  <2>1. ASSUME NEW finding \in NearLimit(entries, policy, point)
        PROVE  finding.kind # "self_approved"
    <3>1. \E who1, n : finding = Finding("near_approval_limit", Severity.notable, who1, n)
      BY DEF NearLimit
    <3> QED BY <3>1 DEF Finding
  <2>2. {entry.actor : entry \in Unapproved(entries, Staff, policy)} = {}
    BY <1>3
  <2>3. ASSUME NEW finding \in found
        PROVE  \/ finding \in NearLimit(entries, policy, point)
               \/ \E kind \in {"discount_rate_outlier", "void_rate_outlier"} : \E severity, w, n :
                      finding = Finding(kind, severity, w, n)
    BY <2>2, <2>3, ZenonT(60) DEF ScanFindings
  <2>4. \A kind, severity, w, n : Finding(kind, severity, w, n).kind = kind
    BY DEF Finding
  <2> QED BY <2>1, <2>3, <2>4
<1>5. Audited(who, by, request, policy).found = found
  BY DEF Audited, entries, e, point
<1> QED BY <1>4, <1>5

\* What the till allows the feed does not hold against anybody, and it refuses
\* nobody an approver's PIN would have helped.
LEMMA JudgedFairly ==
  ASSUME Judges
  PROVE  FeedsFair'
<1>1. PICK policy \in Policies, who \in Members(Staff), request \in Requests, pin \in {1, 2} :
        LET permission == PermissionFor(request)
            roles == {role \in Role : MayAlone(role, request, policy)}
            allowed == AuthorizeFor(Staff, {who}, permission, roles, pin)
        IN \/ allowed = {} /\ calc' = Refusal(who, pin, permission)
           \/ \E by \in allowed : calc' = Audited(who, by, request, policy)
  BY DEF Judges, Answers
<1> DEFINE permission == PermissionFor(request)
           roles == {role \in Role : MayAlone(role, request, policy)}
           allowed == AuthorizeFor(Staff, {who}, permission, roles, pin)
           role == Staff[who].role
<1>2. role \in Role /\ ValidRequest(request)
  BY StaffAssumption DEF ValidRequest
<1>3. allowed = IF role \in roles THEN {who} ELSE Approves(Staff, permission, pin)
  <2>1. {w \in {who} : Staff[w].role \in roles} = IF role \in roles THEN {who} ELSE {}
    OBVIOUS
  <2> HIDE DEF roles, permission
  <2> QED BY <2>1 DEF AuthorizeFor
<1>4. RoleCan(role, permission) => MayAlone(role, request, policy) /\ RoleCan(role, "VoidLine")
  BY <1>2, HoldersMay
<1>5. role \in roles <=> MayAlone(role, request, policy)
  BY <1>2
<1> HIDE DEF allowed, roles
<1>6. CASE allowed = {} /\ calc' = Refusal(who, pin, permission)
  <2>1. Approves(Staff, permission, pin) = {} /\ role \notin roles
    BY <1>3, <1>6
  <2>2. ~\E m \in Approvers(Staff, permission) : Staff[m].pin = pin
    BY <2>1, SomebodyApproves
  <2>3. ~RoleCan(role, permission)
    BY <1>4, <1>5, <2>1
  <2>4. RoleCan(MinimumFor(permission), permission)
    BY DEF RoleCan, MinimumFor, OwnersOnly, PermissionFor
  <2> HIDE DEF permission
  <2>5. /\ calc'.of = "refusal" /\ calc'.who = who /\ calc'.pin = pin
        /\ calc'.permission = permission /\ calc'.needs = MinimumFor(permission)
    BY <1>6 DEF Refusal
  <2> QED BY <2>2, <2>3, <2>4, <2>5 DEF FeedsFair
<1>7. CASE \E by \in allowed : calc' = Audited(who, by, request, policy)
  <2>1. PICK by \in allowed : calc' = Audited(who, by, request, policy)
    BY <1>7
  <2>2. by = who => \/ MayAlone(role, request, policy)
                    \/ RoleCan(role, permission)
    <3>1. CASE role \in roles
      BY <1>5, <3>1
    <3>2. CASE role \notin roles
      <4>1. by \in Approves(Staff, permission, pin)
        BY <1>3, <2>1, <3>2
      <4>2. RoleCan(Staff[by].role, permission)
        BY <4>1 DEF Approves, Approvers, MemberCan
      <4> QED BY <4>2
    <3> QED BY <3>1, <3>2
  <2>3. by = who => MayAlone(role, request, policy)
    BY <1>4, <2>2
  <2>4. request.discount = "amount" =>
            \A finding \in calc'.found : finding.kind # "self_approved"
    BY <1>2, <2>1, <2>3, NobodyAccused
  <2>5. /\ calc'.of = "audit" /\ calc'.who = who /\ calc'.by = by
        /\ calc'.alone = MayAlone(role, request, policy) /\ calc'.request = request
    BY <2>1 DEF Audited
  <2> QED BY <2>3, <2>4, <2>5 DEF FeedsFair
<1> QED BY <1>1, <1>6, <1>7 DEF allowed, roles

\* A rate above a multiple of another is above it.
LEMMA AboveMultiple ==
  ASSUME NEW x \in Nat, NEW y \in Nat, NEW m \in Nat \ {0}, x > y * m
  PROVE  x > y
<1>1. y * m >= y * 1
  BY ProductLaws
<1> QED BY <1>1

\* Who is found among two.
LEMMA FoundAmongTwo ==
  ASSUME NEW tallies, NEW p, NEW q, p # q, DOMAIN tallies = {p, q},
         \A who \in {p, q} : /\ tallies[who].part \in Nat /\ tallies[who].gross \in Nat
                             /\ tallies[who].part > 0 => tallies[who].gross > 0
  PROVE  LET t == tallies[p]
             other == tallies[q]
         IN /\ p \in Outliers(tallies, Sensitivity) =>
                 /\ t.part > 0 /\ t.gross > 0
                 /\ other.part > 0 => t.part * other.gross > other.part * t.gross
                 /\ t.part * other.gross > other.part * t.gross \/ other.gross = 0
            /\ (t.sales >= Sensitivity.minimum_sales /\ t.part > 0 /\ other.part = 0)
                 => p \in Outliers(tallies, Sensitivity)
<1> DEFINE t == tallies[p]
           other == tallies[q]
           pool == Others(tallies, p)
           m == Sensitivity.outlier_multiple
<1>1. pool.part = other.part /\ pool.gross = other.gross
  <2>1. DOMAIN tallies \ {p} = {q}
    OBVIOUS
  <2>2. /\ pool.part = Sum(Parts(tallies), {q})
        /\ pool.gross = Sum(Grosses(tallies), {q})
    BY <2>1 DEF Others, Pool, SumOver, Sum
  <2>3. /\ Parts(tallies)[q] = other.part /\ Grosses(tallies)[q] = other.gross
        /\ other.part \in Int /\ other.gross \in Int
    BY DEF Parts, Grosses
  <2> HIDE DEF other, pool
  <2>4. Sum(Parts(tallies), {q}) = other.part
    BY <2>3, SumOfOne
  <2>5. Sum(Grosses(tallies), {q}) = other.gross
    BY <2>3, SumOfOne
  <2> QED BY <2>2, <2>4, <2>5
<1>2. /\ t.part \in Nat /\ t.gross \in Nat /\ (t.part > 0 => t.gross > 0)
      /\ other.part \in Nat /\ other.gross \in Nat /\ (other.part > 0 => other.gross > 0)
      /\ m \in Nat \ {0}
  BY TalliesAssumption
<1>3. p \in Outliers(tallies, Sensitivity) <=>
         /\ t.sales >= Sensitivity.minimum_sales /\ t.part # 0 /\ t.gross # 0
         /\ StandsOut(t, pool, m)
  BY DEF Outliers
<1>4. StandsOut(t, pool, m) <=>
         IF other.gross = 0 \/ other.part = 0 THEN t.part > 0
         ELSE t.part * other.gross > other.part * t.gross * m
  BY <1>1 DEF StandsOut
<1> HIDE DEF t, other, pool, m
<1>5. ASSUME p \in Outliers(tallies, Sensitivity)
      PROVE  /\ t.part > 0 /\ t.gross > 0
             /\ other.part > 0 => t.part * other.gross > other.part * t.gross
             /\ t.part * other.gross > other.part * t.gross \/ other.gross = 0
  <2>1. t.part > 0 /\ t.gross > 0
    BY <1>2, <1>3, <1>5
  <2>2. CASE other.part = 0
    <3>1. other.part * t.gross = 0
      BY <1>2, <2>2
    <3>2. other.gross > 0 => t.part * other.gross > 0
      BY <1>2, <2>1, ProductLaws
    <3> QED BY <1>2, <2>1, <2>2, <3>1, <3>2
  <2>3. CASE other.part # 0
    <3>1. t.part * other.gross > (other.part * t.gross) * m
      BY <1>2, <1>3, <1>4, <1>5, <2>3
    <3>2. t.part * other.gross \in Nat /\ other.part * t.gross \in Nat
      BY <1>2, ProductLaws
    <3>3. t.part * other.gross > other.part * t.gross
      BY <1>2, <3>1, <3>2, AboveMultiple
    <3> QED BY <2>1, <3>3
  <2> QED BY <1>2, <2>2, <2>3
<1>6. ASSUME t.sales >= Sensitivity.minimum_sales /\ t.part > 0 /\ other.part = 0
      PROVE  p \in Outliers(tallies, Sensitivity)
  BY <1>2, <1>3, <1>4, <1>6
<1> QED BY <1>5, <1>6 DEF t, other

\* Of two people's figures, fairly.
LEMMA ComparedFairly ==
  ASSUME Compares
  PROVE  FeedsFair'
<1>1. PICK tallies \in TallyPairs :
        calc' = [of |-> "outliers", tallies |-> tallies, found |-> Outliers(tallies, Sensitivity)]
  BY DEF Compares, Answers
<1> DEFINE found == Outliers(tallies, Sensitivity)
<1>2. PICK p, q : p # q /\ DOMAIN tallies = {p, q}
  BY TalliesAssumption
<1>3. \A who \in {p, q} : /\ tallies[who].part \in Nat /\ tallies[who].gross \in Nat
                          /\ tallies[who].part > 0 => tallies[who].gross > 0
  BY <1>2, TalliesAssumption
<1>4. found \in SUBSET {p, q}
  BY <1>2 DEF Outliers
<1> DEFINE a == tallies[p]
           b == tallies[q]
           Fair(who, t, other) ==
               /\ (t.sales >= Sensitivity.minimum_sales /\ t.part > 0 /\ other.part = 0)
                    => who \in found
               /\ who \in found => t.part * other.gross > other.part * t.gross
                                    \/ other.gross = 0
<1> HIDE DEF found
<1>5. /\ p \in found =>
           a.part > 0 /\ (b.part > 0 => a.part * b.gross > b.part * a.gross)
      /\ Fair(p, a, b)
  BY <1>2, <1>3, FoundAmongTwo DEF found
<1>6. /\ q \in found =>
           b.part > 0 /\ (a.part > 0 => b.part * a.gross > a.part * b.gross)
      /\ Fair(q, b, a)
  <2>1. q # p /\ DOMAIN tallies = {q, p}
    BY <1>2
  <2>2. \A who \in {q, p} : /\ tallies[who].part \in Nat /\ tallies[who].gross \in Nat
                            /\ tallies[who].part > 0 => tallies[who].gross > 0
    BY <1>3
  <2> QED BY <2>1, <2>2, FoundAmongTwo DEF found
<1>7. ~(p \in found /\ q \in found)
  <2>1. SUFFICES ASSUME p \in found, q \in found PROVE FALSE
    OBVIOUS
  <2>2. a.part * b.gross > b.part * a.gross /\ b.part * a.gross > a.part * b.gross
    BY <1>5, <1>6, <2>1
  <2>3. a.part * b.gross \in Int /\ b.part * a.gross \in Int
    <3>1. a.part \in Int /\ a.gross \in Int /\ b.part \in Int /\ b.gross \in Int
      BY <1>3
    <3> HIDE DEF a, b
    <3> QED BY <3>1, ProductLaws
  <2> HIDE DEF a, b
  <2> QED BY <2>2, <2>3
<1>8. Cardinality(found) < 2
  <2>1. found = {} \/ found = {p} \/ found = {q}
    BY <1>4, <1>7
  <2>2. Cardinality({}) = 0 /\ Cardinality({p}) = 1 /\ Cardinality({q}) = 1
    BY FS_EmptySet, FS_Singleton
  <2> QED BY <2>1, <2>2
<1>9. ASSUME NEW who \in {p, q}
      PROVE  Fair(who, tallies[who], tallies[CHOOSE x \in {p, q} : x # who])
  <2>1. CASE who = p
    <3>1. (CHOOSE x \in {p, q} : x # p) = q
      BY <1>2
    <3> QED BY <1>5, <2>1, <3>1
  <2>2. CASE who = q
    <3>1. (CHOOSE x \in {p, q} : x # q) = p
      BY <1>2
    <3> QED BY <1>6, <2>2, <3>1
  <2> QED BY <2>1, <2>2
<1>10. calc'.of = "outliers" /\ calc'.tallies = tallies /\ calc'.found = found
  BY <1>1 DEF found
<1> QED BY <1>2, <1>8, <1>9, <1>10 DEF FeedsFair

\* The feeds accuse nobody of what the till allowed and never two people of
\* each other's rate, and nobody an approver stands by is turned away
\* (unapproved, discount_outliers, authorize_for).
THEOREM FeedsAreFair == Spec => []FeedsFair
<1>1. Init => FeedsFair
  BY DEF Init, None, FeedsFair
<1>2. ASSUME FeedsFair, [Next]_calc PROVE FeedsFair'
  <2>1. CASE UNCHANGED calc
    BY <1>2, <2>1 DEF FeedsFair
  <2>2. CASE Judges
    BY <2>2, JudgedFairly
  <2>3. CASE Compares
    BY <2>3, ComparedFairly
  <2>4. CASE calc'.of \notin {"refusal", "audit", "outliers"}
    BY <2>4 DEF FeedsFair
  <2> QED BY <1>2, <2>1, <2>2, <2>3, <2>4, Judgements
<1> QED BY <1>1, <1>2, PTL DEF Spec
-----------------------------------------------------------------------------
(***************************************************************************)
(* Stock.                                                                  *)
(***************************************************************************)

\* h gives each place of S one name in I.
Names(h, I, S) ==
    /\ h \in [I -> S]
    /\ \A p, q \in I : h[p] = h[q] => p = q
    /\ \A x \in S : \E p \in I : h[p] = x

\* A sum does not depend on the names of its places.
LEMMA SumMoved ==
  ASSUME NEW S, IsFiniteSet(S), NEW f, \A x \in S : f[x] \in Int,
         NEW I, IsFiniteSet(I), NEW h, Names(h, I, S),
         NEW d, \A p \in I : d[p] = f[h[p]]
  PROVE  Sum(d, I) = Sum(f, S)
<1>0. /\ h \in [I -> S]
      /\ \A p \in I, q \in I : h[p] = h[q] => p = q
      /\ \A x \in S : \E p \in I : h[p] = x
  BY DEF Names
<1> DEFINE part == [p \in I |-> {h[p]}]
<1>1. \A p \in I : part[p] = {h[p]} /\ h[p] \in S /\ f[h[p]] \in Int
  BY <1>0
<1> HIDE DEF part
<1>2. ASSUME NEW p \in I PROVE d[p] = Sum(f, part[p])
  <2>1. Sum(f, {h[p]}) = f[h[p]]
    BY <1>1, SumOfOne, ZenonT(60)
  <2> QED BY <1>1, <2>1
<1>3. \A p \in I, q \in I : p # q => part[p] \cap part[q] = {}
  BY <1>0, <1>1
<1>4. \A x \in S : \E p \in I : x \in part[p]
  BY <1>0, <1>1
<1>5. Heaps(S, f, I, part, d)
  BY <1>1, <1>2, <1>3, <1>4 DEF Heaps
<1> QED BY <1>5, SumHeaps

\* Noughts come to nothing.
LEMMA SumOfZeros ==
  ASSUME NEW S, IsFiniteSet(S), NEW zero, \A x \in S : zero[x] = 0
  PROVE  Sum(zero, S) = 0
<1>1. \A x \in S : zero[x] = IF x \in {} THEN 1 ELSE 0
  OBVIOUS
<1>2. {} \in SUBSET S
  OBVIOUS
<1>3. Sum(zero, S) = Cardinality({})
  BY <1>1, <1>2, SumCounts
<1> QED BY <1>3, FS_EmptySet

\* A sum of nothing less than zero is not less than zero, and one of nothing
\* more is not more.
LEMMA SumHasSign ==
  ASSUME NEW S, IsFiniteSet(S), NEW f, \A x \in S : f[x] \in Int
  PROVE  /\ (\A x \in S : f[x] >= 0) => Sum(f, S) \in Nat
         /\ (\A x \in S : f[x] <= 0) => Sum(f, S) <= 0
<1> DEFINE zero == [x \in S |-> 0]
<1>1. \A x \in S : zero[x] = 0
  OBVIOUS
<1> HIDE DEF zero
<1>2. Sum(zero, S) = 0
  BY <1>1, SumOfZeros
<1>3. Sum(f, S) \in Int
  BY SumIsInt
<1>4. (\A x \in S : f[x] >= 0) => Sum(zero, S) <= Sum(f, S)
  <2> SUFFICES ASSUME \A x \in S : f[x] >= 0 PROVE Sum(zero, S) <= Sum(f, S)
    OBVIOUS
  <2>1. \A x \in S : zero[x] \in Int /\ f[x] \in Int /\ zero[x] <= f[x]
    BY <1>1
  <2> QED BY ONLY <2>1, IsFiniteSet(S), SumOrder
<1>5. (\A x \in S : f[x] <= 0) => Sum(f, S) <= Sum(zero, S)
  <2> SUFFICES ASSUME \A x \in S : f[x] <= 0 PROVE Sum(f, S) <= Sum(zero, S)
    OBVIOUS
  <2>1. \A x \in S : f[x] \in Int /\ zero[x] \in Int /\ f[x] <= zero[x]
    BY <1>1
  <2> QED BY ONLY <2>1, IsFiniteSet(S), SumOrder
<1> QED BY <1>2, <1>3, <1>4, <1>5

\* A list and its reverse have the same entries, in other places.
LEMMA Reversed ==
  ASSUME NEW S, NEW list \in Seq(S), NEW h, h = [i \in DOMAIN list |-> Len(list) - i + 1]
  PROVE  /\ Reverse(list) \in Seq(S) /\ DOMAIN Reverse(list) = DOMAIN list
         /\ Names(h, DOMAIN list, DOMAIN list)
         /\ \A p \in DOMAIN list : Reverse(list)[p] = list[h[p]]
<1> DEFINE n == Len(list)
<1>1. DOMAIN list = 1 .. n /\ n \in Nat /\ \A i \in 1 .. n : list[i] \in S
  BY ListDomain
<1>2. \A i \in 1 .. n : n - i + 1 \in 1 .. n /\ n - (n - i + 1) + 1 = i
  BY <1>1
<1>3. h \in [1 .. n -> 1 .. n] /\ \A i \in 1 .. n : h[i] = n - i + 1
  BY <1>1, <1>2
<1>4. Reverse(list) = [i \in 1 .. n |-> list[n - i + 1]]
  BY DEF Reverse
<1> HIDE DEF n
<1>5. Reverse(list) \in [1 .. n -> S] /\ \A i \in 1 .. n : Reverse(list)[i] = list[h[i]]
  BY <1>1, <1>2, <1>3, <1>4
<1>6. Reverse(list) \in Seq(S)
  BY <1>1, <1>5, SeqDef
<1>7. \A p, q \in 1 .. n : h[p] = h[q] => p = q
  BY <1>1, <1>3
<1>8. \A x \in 1 .. n : h[h[x]] = x /\ h[x] \in 1 .. n
  BY <1>1, <1>2, <1>3
<1> QED BY <1>1, <1>3, <1>5, <1>6, <1>7, <1>8, ZenonT(60) DEF Names

\* Whichever way the movements are gone through, the same was oversold, by
\* somebody.
LEMMA OversellsHold ==
  ASSUME NEW movements, movements \in Seq(Range(movements)),
         \A n \in DOMAIN movements : movements[n].delta \in Int
  PROVE  OversoldEitherWay(movements, DetectOversells(movements))
<1> DEFINE back == Reverse(movements)
           D == DOMAIN movements
           h == [i \in D |-> Len(movements) - i + 1]
           of(list, p) == [i \in DOMAIN list |-> IF list[i].product = p THEN list[i].delta ELSE 0]
<1>1. /\ IsFiniteSet(D) /\ DOMAIN back = D /\ Names(h, D, D)
      /\ \A p \in D : back[p] = movements[h[p]]
  <2>1. h = [i \in D |-> Len(movements) - i + 1]
    OBVIOUS
  <2> HIDE DEF h
  <2>2. /\ DOMAIN Reverse(movements) = DOMAIN movements
        /\ Names(h, DOMAIN movements, DOMAIN movements)
        /\ \A p \in DOMAIN movements : Reverse(movements)[p] = movements[h[p]]
    <3>1. movements \in Seq(Range(movements))
      OBVIOUS
    <3> QED BY ONLY <2>1, <3>1, Reversed
  <2>3. IsFiniteSet(D)
    BY ListDomain
  <2> QED BY <2>2, <2>3
<1> HIDE DEF back, h
<1>2. \A p : /\ LevelOf(back, p) = Sum(of(back, p), D)
             /\ LevelOf(movements, p) = Sum(of(movements, p), D)
  BY <1>1, TrySumIsSum DEF LevelOf
<1>3. ASSUME NEW p PROVE LevelOf(back, p) = LevelOf(movements, p)
  <2> DEFINE f == of(movements, p)
             d == of(back, p)
  <2>1. \A x \in D : f[x] \in Int /\ d[x] = f[h[x]]
    BY <1>1 DEF Names
  <2> HIDE DEF f, d
  <2>2. Sum(d, D) = Sum(f, D)
    <3> DEFINE E == D
    <3>1. IsFiniteSet(E) /\ Names(h, E, E) /\ \A x \in E : f[x] \in Int /\ d[x] = f[h[x]]
      BY <1>1, <2>1
    <3> HIDE DEF E
    <3>2. Sum(d, E) = Sum(f, E)
      BY ONLY <3>1, SumMoved
    <3> QED BY <3>2 DEF E
  <2> QED BY <1>2, <2>2 DEF f, d
<1> HIDE DEF of
<1>4. MovedProducts(back) = MovedProducts(movements)
  <2>1. \A x \in D : h[x] \in D /\ \E p \in D : h[p] = x
    BY <1>1 DEF Names
  <2>2. ASSUME NEW x \in MovedProducts(back) PROVE x \in MovedProducts(movements)
    <3>1. PICK i \in D : x = back[i].product
      BY <1>1, <2>2 DEF MovedProducts
    <3> QED BY <1>1, <2>1, <3>1 DEF MovedProducts
  <2>3. ASSUME NEW x \in MovedProducts(movements) PROVE x \in MovedProducts(back)
    <3>1. PICK j \in D : x = movements[j].product
      BY <2>3 DEF MovedProducts
    <3>2. PICK i \in D : h[i] = j
      BY <2>1
    <3>3. back[i] = movements[j]
      BY <1>1, <3>2
    <3> QED BY <1>1, <3>1, <3>3 DEF MovedProducts
  <2> QED BY <2>2, <2>3
<1>5. ASSUME NEW p PROVE Takers(back, p) = Takers(movements, p)
  <2>1. \A x \in D : h[x] \in D /\ \E q \in D : h[q] = x
    BY <1>1 DEF Names
  <2>2. ASSUME NEW x \in Takers(back, p) PROVE x \in Takers(movements, p)
    <3>1. PICK i \in D : back[i].product = p /\ back[i].delta < 0 /\ x = back[i].device
      BY <1>1, <2>2 DEF Takers
    <3>2. h[i] \in D /\ back[i] = movements[h[i]]
      BY <1>1, <2>1
    <3> QED BY <3>1, <3>2 DEF Takers
  <2>3. ASSUME NEW x \in Takers(movements, p) PROVE x \in Takers(back, p)
    <3>1. PICK j \in D : movements[j].product = p /\ movements[j].delta < 0
                          /\ x = movements[j].device
      BY <2>3 DEF Takers
    <3>2. PICK i \in D : h[i] = j
      BY <2>1
    <3>3. back[i] = movements[j]
      BY <1>1, <3>2
    <3> QED BY <1>1, <3>1, <3>3 DEF Takers
  <2> QED BY <2>2, <2>3
<1>6. DetectOversells(movements) = DetectOversells(back)
  <2>1. \A p : Oversold(back, p) = Oversold(movements, p)
    BY <1>3, <1>5 DEF Oversold
  <2>2. \A p : LevelOf(back, p) = LevelOf(movements, p)
    BY <1>3
  <2>3. \A list, x : x \in DetectOversells(list) <=>
            \E p \in MovedProducts(list) : LevelOf(list, p) < 0 /\ x = Oversold(list, p)
    <3> TAKE list, x
    <3> DEFINE Q == {q \in MovedProducts(list) : LevelOf(list, q) < 0}
    <3>1. DetectOversells(list) = {Oversold(list, p) : p \in Q}
      BY DEF DetectOversells
    <3>2. \A p : p \in Q <=> p \in MovedProducts(list) /\ LevelOf(list, p) < 0
      OBVIOUS
    <3> HIDE DEF Q
    <3>3. x \in DetectOversells(list) <=> \E p \in Q : x = Oversold(list, p)
      BY <3>1
    <3> QED BY <3>2, <3>3
  <2>4. \A x : x \in DetectOversells(movements) <=> x \in DetectOversells(back)
    BY <1>4, <2>1, <2>2, <2>3
  <2> QED BY <2>4
<1>7. ASSUME NEW p, LevelOf(movements, p) < 0
      PROVE  -LevelOf(movements, p) > 0 /\ Takers(movements, p) # {}
  <2> DEFINE f == [i \in D |-> IF movements[i].product = p THEN movements[i].delta ELSE 0]
  <2>1. \A x \in D : f[x] \in Int /\ (f[x] < 0 => movements[x].product = p /\ movements[x].delta < 0)
    OBVIOUS
  <2>2. LevelOf(movements, p) = Sum(f, D)
    BY <1>2 DEF of
  <2> HIDE DEF f
  <2>3. LevelOf(movements, p) \in Int
    BY <1>1, <2>1, <2>2, SumIsInt
  <2>4. \E x \in D : f[x] < 0
    <3>1. SUFFICES ASSUME \A x \in D : f[x] >= 0 PROVE FALSE
      BY <2>1
    <3>2. Sum(f, D) \in Nat
      BY <1>1, <2>1, <3>1, SumHasSign
    <3> QED BY <1>7, <2>2, <3>2
  <2>5. Takers(movements, p) # {}
    BY <2>1, <2>4 DEF Takers
  <2> QED BY <1>7, <2>3, <2>5
<1>8. \A oversold \in DetectOversells(movements) : oversold.shortfall > 0 /\ oversold.devices # {}
  BY <1>7 DEF DetectOversells, Oversold
<1> QED BY <1>6, <1>8 DEF OversoldEitherWay, back

\* The first places of a list, and one more.
LEMMA SumsGrow ==
  ASSUME NEW n \in Nat, NEW f, \A i \in 1 .. n : f[i] \in Int
  PROVE  /\ Sum(f, 1 .. 0) = 0
         /\ \A k \in 0 .. n - 1 : Sum(f, 1 .. k + 1) = Sum(f, 1 .. k) + f[k + 1]
         /\ \A k \in 0 .. n : Sum(f, 1 .. k) \in Int
<1>1. IsFiniteSet(1 .. n) /\ 1 .. 0 = {}
  BY FS_Interval
<1>2. Sum(f, {}) = 0
  BY <1>1, Sums
<1>3. ASSUME NEW k \in 0 .. n PROVE Sum(f, 1 .. k) \in Int
  <2>1. 1 .. k \in SUBSET (1 .. n)
    OBVIOUS
  <2> QED BY <1>1, <2>1, Sums
<1>4. ASSUME NEW k \in 0 .. n - 1 PROVE Sum(f, 1 .. k + 1) = Sum(f, 1 .. k) + f[k + 1]
  <2>1. /\ 1 .. k + 1 \in SUBSET (1 .. n) /\ k + 1 \in 1 .. k + 1
        /\ (1 .. k + 1) \ {k + 1} = 1 .. k /\ f[k + 1] \in Int
    OBVIOUS
  <2>2. Sum(f, 1 .. k + 1) = f[k + 1] + Sum(f, (1 .. k + 1) \ {k + 1})
    BY <1>1, <2>1, Sums, SMTT(60)
  <2>3. Sum(f, 1 .. k) \in Int
    <3>1. k \in 0 .. n
      OBVIOUS
    <3> QED BY <1>3, <3>1
  <2>4. Sum(f, 1 .. k + 1) = f[k + 1] + Sum(f, 1 .. k)
    BY <2>1, <2>2
  <2> QED BY <2>1, <2>3, <2>4
<1> QED BY <1>1, <1>2, <1>3, <1>4

\* Counting up from zero gets anywhere.
LEMMA EveryNumber ==
  ASSUME NEW P \in SUBSET Nat, 0 \in P, \A x \in P : x + 1 \in P, NEW k \in Nat
  PROVE  k \in P
BY Counting!Induction

\* Batches have an order to go in: by date, then as they were received.
LEMMA FefoQueues ==
  ASSUME NEW levels, ValidLevels(levels), NEW places, places \in SUBSET DOMAIN levels,
         NEW ahead, ahead = [n \in places |-> Ahead(levels, places, n)]
  PROVE  Queues(ahead, places)
<1>1. \A n \in places : /\ levels[n].expires \in Int /\ levels[n].received \in Int
                        /\ levels[n].batch \in Int
  BY DEF ValidLevels
<1>2. \A m, n \in places : levels[m].batch = levels[n].batch => m = n
  BY DEF ValidLevels
<1>3. \A m, n \in places : m \in ahead[n] <=> FefoBefore(levels[m], levels[n])
  BY DEF Ahead
<1>4. \A n \in places : ahead[n] \in SUBSET places
  BY DEF Ahead
<1>5. \A m, n \in places : m # n => FefoBefore(levels[m], levels[n])
                                    \/ FefoBefore(levels[n], levels[m])
  BY <1>1, <1>2 DEF FefoBefore
<1>6. \A n \in places : ~FefoBefore(levels[n], levels[n])
  BY <1>1 DEF FefoBefore
<1>7. \A k, m, n \in places : FefoBefore(levels[k], levels[m]) /\ FefoBefore(levels[m], levels[n])
                              => FefoBefore(levels[k], levels[n])
  <2> TAKE k, m, n \in places
  <2>1. /\ levels[k].expires \in Int /\ levels[k].received \in Int /\ levels[k].batch \in Int
        /\ levels[m].expires \in Int /\ levels[m].received \in Int /\ levels[m].batch \in Int
        /\ levels[n].expires \in Int /\ levels[n].received \in Int /\ levels[n].batch \in Int
    BY <1>1
  <2> QED BY ONLY <2>1 DEF FefoBefore
<1> QED BY <1>3, <1>4, <1>5, <1>6, <1>7 DEF Queues

\* h tells where each of the first n in the order lies.
Ranks(h, list, levels, places) ==
    /\ DOMAIN list = 1 .. Cardinality(places)
    /\ Names(h, 1 .. Cardinality(places), places)
    /\ \A k \in 1 .. Cardinality(places) : list[k] = levels[h[k]]
    /\ \A j, k \in 1 .. Cardinality(places) : FefoBefore(levels[h[j]], levels[h[k]]) => j < k

\* The levels in their order are all of them, each once.
LEMMA FefoRanks ==
  ASSUME NEW levels, ValidLevels(levels), NEW places, places \in SUBSET DOMAIN levels
  PROVE  \E h : Ranks(h, InFefoOrder(levels, places), levels, places)
<1> DEFINE m == Cardinality(places)
           ahead == [n \in places |-> Ahead(levels, places, n)]
           place == [n \in places |-> Cardinality(ahead[n])]
           h == [k \in 1 .. m |-> CHOOSE n \in places : Cardinality(Ahead(levels, places, n)) = k - 1]
           list == InFefoOrder(levels, places)
<1>1. IsFiniteSet(places) /\ m \in Nat
  <2>1. IsFiniteSet(DOMAIN levels)
    BY ListDomain DEF ValidLevels
  <2> QED BY <2>1, FS_Subset, FS_CardinalityType
<1>2. Queues(ahead, places)
  BY FefoQueues
<1>3. \A n \in places : ahead[n] = Ahead(levels, places, n) /\ place[n] = Cardinality(ahead[n])
  OBVIOUS
<1>4. /\ \A n \in places : place[n] \in 0 .. m - 1
      /\ \A i, j \in places : i \in ahead[j] => place[i] < place[j]
      /\ \A i, j \in places : place[i] = place[j] => i = j
      /\ \A k \in 0 .. m - 1 : \E n \in places : place[n] = k
  <2>1. place = [n \in places |-> Cardinality(ahead[n])]
    OBVIOUS
  <2> HIDE DEF ahead, place
  <2>2. /\ \A n \in places : place[n] \in 0 .. Cardinality(places) - 1
        /\ \A i, j \in places : i \in ahead[j] => place[i] < place[j]
        /\ \A i, j \in places : place[i] = place[j] => i = j
        /\ \A k \in 0 .. Cardinality(places) - 1 : \E n \in places : place[n] = k
    BY ONLY <1>1, <1>2, <2>1, PlacesTaken
  <2> QED BY <2>2
<1>5. \A n \in places : place[n] = Cardinality(Ahead(levels, places, n))
  BY <1>3
<1>6. DOMAIN list = 1 .. m /\ \A k \in 1 .. m : list[k] = levels[h[k]]
  BY DEF InFefoOrder
<1> HIDE DEF ahead, place
<1>7. ASSUME NEW k \in 1 .. m PROVE h[k] \in places /\ place[h[k]] = k - 1
  <2>1. k - 1 \in 0 .. m - 1
    BY <1>1
  <2>2. \E n \in places : Cardinality(Ahead(levels, places, n)) = k - 1
    BY <1>4, <1>5, <2>1
  <2>3. h[k] \in places /\ Cardinality(Ahead(levels, places, h[k])) = k - 1
    BY <2>2
  <2> QED BY <1>5, <2>3
<1>8. h \in [1 .. m -> places]
  <2>1. h = [k \in 1 .. m |-> h[k]]
    OBVIOUS
  <2> HIDE DEF h
  <2> QED BY <1>7, <2>1
<1> HIDE DEF h, list
<1>9. \A j, k \in 1 .. m : h[j] = h[k] => j = k
  <2> SUFFICES ASSUME NEW j \in 1 .. m, NEW k \in 1 .. m, h[j] = h[k] PROVE j = k
    OBVIOUS
  <2>1. j - 1 = k - 1
    BY <1>7
  <2> QED BY <1>1, <2>1
<1>10. ASSUME NEW n \in places PROVE \E k \in 1 .. m : h[k] = n
  <2> DEFINE k == place[n] + 1
  <2>1. place[n] \in 0 .. m - 1
    BY <1>4
  <2>2. k \in 1 .. m /\ place[n] = k - 1
    BY <1>1, <2>1
  <2> HIDE DEF k
  <2>3. h[k] \in places /\ place[h[k]] = place[n]
    BY <1>7, <2>2
  <2>4. h[k] = n
    BY <1>4, <2>3
  <2> QED BY <2>2, <2>4
<1>11. ASSUME NEW j \in 1 .. m, NEW k \in 1 .. m, FefoBefore(levels[h[j]], levels[h[k]])
       PROVE  j < k
  <2>1. h[j] \in places /\ h[k] \in places /\ place[h[j]] = j - 1 /\ place[h[k]] = k - 1
    BY <1>7
  <2>2. h[j] \in ahead[h[k]]
    BY <1>3, <1>11, <2>1 DEF Ahead
  <2>3. j - 1 < k - 1
    BY <1>4, <2>1, <2>2
  <2> QED BY <1>1, <2>3
<1>12. Names(h, 1 .. m, places)
  BY <1>8, <1>9, <1>10 DEF Names
<1>13. Ranks(h, list, levels, places)
  BY <1>6, <1>11, <1>12 DEF Ranks
<1> QED BY <1>13 DEF list

Picking == INSTANCE Folding WITH Start <- << >>, Advance <- Take

\* What has been taken of the first k of u: of each in turn all there is, until
\* there is enough.
TakesAll(a, u) ==
    \A i \in 1 .. Len(a.allocations) :
        i < Len(a.allocations) \/ a.shortfall > 0 => a.allocations[i].taken = u[i].on_hand
TakenInTurn(a, u, k, wanted) ==
    /\ a.shortfall \in Nat /\ a.allocations \in Seq([batch : Int, taken : Nat \ {0}])
    /\ Len(a.allocations) <= k /\ (a.shortfall > 0 => Len(a.allocations) = k)
    /\ \A i \in 1 .. Len(a.allocations) : a.allocations[i].batch = u[i].batch
    /\ TakesAll(a, u)
    /\ Sum(Given(a), 1 .. Len(a.allocations)) + a.shortfall = wanted

\* Nothing is taken before the first.
LEMMA NothingTaken ==
  ASSUME NEW wanted \in Nat, NEW u, NEW k \in Nat, k > 0 => wanted = 0,
         NEW a, a = [allocations |-> << >>, shortfall |-> wanted]
  PROVE  TakenInTurn(a, u, k, wanted)
<1>1. a.shortfall = wanted /\ a.allocations = << >> /\ Len(a.allocations) = 0
  OBVIOUS
<1>2. Sum(Given(a), 1 .. 0) = 0
  <2>1. \A i \in 1 .. 0 : Given(a)[i] \in Int
    OBVIOUS
  <2> QED BY <2>1, SumsGrow
<1>3. << >> \in Seq([batch : Int, taken : Nat \ {0}])
  OBVIOUS
<1> QED BY <1>1, <1>2, <1>3 DEF TakenInTurn, TakesAll

\* The next is taken of only as long as there is not enough.
LEMMA TakesNext ==
  ASSUME NEW u, NEW k \in Nat, NEW wanted \in Nat, NEW a, TakenInTurn(a, u, k, wanted),
         u[k + 1].batch \in Int, u[k + 1].on_hand \in Nat \ {0}
  PROVE  TakenInTurn(Take(a, u[k + 1]), u, k + 1, wanted)
<1> DEFINE l == Len(a.allocations)
           T == [batch : Int, taken : Nat \ {0}]
           level == u[k + 1]
           took == IF level.on_hand < a.shortfall THEN level.on_hand ELSE a.shortfall
           one == [batch |-> level.batch, taken |-> took]
           b == Take(a, level)
<1>1. /\ a.shortfall \in Nat /\ a.allocations \in Seq(T) /\ l \in Nat
      /\ l <= k /\ (a.shortfall > 0 => l = k)
      /\ \A i \in 1 .. l : a.allocations[i] \in T /\ a.allocations[i].batch = u[i].batch
      /\ Sum(Given(a), 1 .. l) + a.shortfall = wanted
  <2>1. a.allocations \in Seq(T)
    BY DEF TakenInTurn
  <2>2. l \in Nat /\ \A i \in 1 .. l : a.allocations[i] \in T
    <3> HIDE DEF T
    <3> QED BY <2>1
  <2> HIDE DEF T
  <2> QED BY <2>1, <2>2 DEF TakenInTurn
<1>2. CASE a.shortfall = 0
  <2>1. b = a
    BY <1>2 DEF Take
  <2>2. l <= k + 1
    BY <1>1
  <2>3. TakenInTurn(a, u, k + 1, wanted)
    BY <1>1, <1>2, <2>2 DEF TakenInTurn
  <2> QED BY <2>1, <2>3
<1>3. CASE a.shortfall > 0
  <2>1. l = k /\ took \in Nat \ {0} /\ one \in T
    BY <1>1, <1>3
  <2>2. b.allocations = Append(a.allocations, one) /\ b.shortfall = a.shortfall - took
    BY <1>3 DEF Take
  <2>3. took <= a.shortfall /\ (took < a.shortfall => took = level.on_hand)
    BY <1>1
  <2> HIDE DEF b, took, T
  <2>4. /\ b.allocations \in Seq(T) /\ Len(b.allocations) = k + 1
        /\ \A i \in 1 .. k : b.allocations[i] = a.allocations[i]
        /\ b.allocations[k + 1] = one
    BY <1>1, <2>1, <2>2, SMTT(30)
  <2>5. b.shortfall \in Nat /\ (b.shortfall > 0 => took = level.on_hand)
    BY <1>1, <2>1, <2>2, <2>3
  <2>6. ASSUME NEW i \in 1 .. k + 1 PROVE b.allocations[i].batch = u[i].batch
    <3>1. CASE i \in 1 .. k
      BY <1>1, <2>1, <2>4, <3>1
    <3>2. CASE i = k + 1
      BY <2>4, <3>2
    <3> QED BY <3>1, <3>2
  <2>7. ASSUME NEW i \in 1 .. k + 1, i < k + 1 \/ b.shortfall > 0
        PROVE  b.allocations[i].taken = u[i].on_hand
    <3>1. CASE i \in 1 .. k
      <4>1. a.allocations[i].taken = u[i].on_hand
        BY <1>3, <2>1, <3>1 DEF TakenInTurn, TakesAll
      <4> QED BY <2>4, <3>1, <4>1
    <3>2. CASE i = k + 1
      BY <2>4, <2>5, <2>7, <3>2
    <3> QED BY <3>1, <3>2
  <2>8. Sum(Given(b), 1 .. k + 1) = Sum(Given(a), 1 .. k) + took
    <3>1. /\ \A i \in 1 .. k + 1 : Given(b)[i] = b.allocations[i].taken
          /\ \A i \in 1 .. k : Given(a)[i] = a.allocations[i].taken
      BY <1>1, <2>1, <2>4 DEF Given
    <3>2. \A i \in 1 .. k + 1 : b.allocations[i] \in T
      BY <2>4
    <3>3. \A i \in 1 .. k + 1 : Given(b)[i] \in Int
      BY <3>1, <3>2 DEF T
    <3>4. Sum(Given(b), 1 .. k + 1) = Sum(Given(b), 1 .. k) + Given(b)[k + 1]
      <4>1. k + 1 \in Nat /\ k \in 0 .. (k + 1) - 1
        OBVIOUS
      <4> QED BY <3>3, <4>1, SumsGrow
    <3>5. Sum(Given(b), 1 .. k) = Sum(Given(a), 1 .. k)
      <4>1. \A i \in 1 .. k : Given(b)[i] = Given(a)[i]
        <5>1. \A i \in 1 .. k : i \in 1 .. k + 1
          OBVIOUS
        <5> QED BY <2>4, <3>1, <5>1
      <4>2. IsFiniteSet(1 .. k)
        BY ONLY k \in Nat, FS_Interval
      <4> QED BY ONLY <4>1, <4>2, SumAgrees
    <3>6. Given(b)[k + 1] = took
      BY <2>4, <3>1
    <3> QED BY <3>4, <3>5, <3>6
  <2>9. Sum(Given(b), 1 .. k + 1) + b.shortfall = wanted
    <3>1. Sum(Given(a), 1 .. k) \in Int
      <4>1. \A i \in 1 .. k : Given(a)[i] \in Int
        BY <1>1, <2>1, SMTT(30) DEF Given, T
      <4>2. IsFiniteSet(1 .. k)
        BY ONLY k \in Nat, FS_Interval
      <4> QED BY ONLY <4>1, <4>2, SumIsInt
    <3> QED BY <1>1, <2>1, <2>2, <2>8, <3>1
  <2>10. TakesAll(b, u)
    BY <2>4, <2>7 DEF TakesAll
  <2>11. TakenInTurn(b, u, k + 1, wanted)
    BY <2>4, <2>5, <2>6, <2>9, <2>10 DEF TakenInTurn, T
  <2> QED BY <2>11 DEF b
<1> QED BY <1>1, <1>2, <1>3

\* A pick takes from the usable batches in their order.
LEMMA PicksInTurn ==
  ASSUME NEW levels, NEW wanted \in Nat, NEW now, NEW u, u = Usable(levels, now),
         NEW k \in Nat, Len(u) = k,
         \A i \in 1 .. k : u[i].batch \in Int /\ u[i].on_hand \in Nat \ {0}
  PROVE  TakenInTurn(PickFefo(levels, wanted, now), u, k, wanted)
<1> DEFINE start == [allocations |-> << >>, shortfall |-> wanted]
<1>1. CASE wanted = 0
  <2>1. PickFefo(levels, wanted, now) = Picking!From(start, << >>)
    BY <1>1 DEF PickFefo, Through, Picking!From
  <2>2. PickFefo(levels, wanted, now) = start
    <3> HIDE DEF start
    <3> QED BY <2>1, Picking!FromEmpty
  <2> QED BY <1>1, <2>2, NothingTaken
<1>2. CASE wanted > 0
  <2>1. PickFefo(levels, wanted, now) = Picking!From(start, u)
    BY <1>2 DEF PickFefo, Through, Picking!From
  <2> HIDE DEF start
  <2>2. PICK f : Picking!Tabulates(start, f, u, k) /\ Picking!From(start, u) = f[k]
    BY Picking!TableComputes
  <2>3. f[0] = start /\ \A i \in 1 .. k : f[i] = Take(f[i - 1], u[i])
    <3>1. Picking!Tabulates(start, f, u, k)
      BY <2>2
    <3> QED BY ONLY <3>1, k \in Nat, Picking!TableEntries
  <2> DEFINE P == {x \in Nat : x <= k => TakenInTurn(f[x], u, x, wanted)}
  <2>4. 0 \in P
    <3>1. TakenInTurn(start, u, 0, wanted)
      BY NothingTaken DEF start
    <3> QED BY <2>3, <3>1
  <2>5. ASSUME NEW x \in P PROVE x + 1 \in P
    <3> SUFFICES ASSUME x + 1 <= k PROVE TakenInTurn(f[x + 1], u, x + 1, wanted)
      OBVIOUS
    <3>1. x \in Nat /\ x + 1 \in 1 .. k /\ (x + 1) - 1 = x /\ TakenInTurn(f[x], u, x, wanted)
      OBVIOUS
    <3>2. f[x + 1] = Take(f[x], u[x + 1])
      BY <2>3, <3>1
    <3>3. u[x + 1].batch \in Int /\ u[x + 1].on_hand \in Nat \ {0}
      BY <3>1
    <3>4. TakenInTurn(Take(f[x], u[x + 1]), u, x + 1, wanted)
      BY ONLY <3>1, <3>3, wanted \in Nat, TakesNext
    <3> QED BY <3>2, <3>4
  <2>6. k \in P
    <3>1. P \in SUBSET Nat
      OBVIOUS
    <3> HIDE DEF P
    <3>2. \A x \in P : x + 1 \in P
      BY ONLY <2>5
    <3> QED BY ONLY <2>4, <3>1, <3>2, k \in Nat, EveryNumber
  <2> QED BY <2>1, <2>2, <2>6
<1> QED BY <1>1, <1>2

\* In a list of usable levels is what may be taken, and it is all there is.
LEMMA UsableRanks ==
  ASSUME NEW levels, ValidLevels(levels), NEW places,
         places = {n \in Fresh(levels, Today) : levels[n].on_hand > 0}
  PROVE  \E h : LET u == Usable(levels, Today)
                    m == Cardinality(places)
                IN /\ Ranks(h, u, levels, places) /\ m \in Nat /\ Len(u) = m
                   /\ \A i \in 1 .. m : /\ h[i] \in places /\ u[i] = levels[h[i]]
                                        /\ u[i].batch \in Int /\ u[i].on_hand \in Nat \ {0}
<1> DEFINE u == Usable(levels, Today)
           m == Cardinality(places)
<1>1. places \in SUBSET DOMAIN levels
  BY DEF Fresh
<1>2. m \in Nat
  <2>1. IsFiniteSet(DOMAIN levels)
    BY ListDomain DEF ValidLevels
  <2> QED BY <1>1, <2>1, FS_Subset, FS_CardinalityType
<1>3. u = InFefoOrder(levels, places)
  BY DEF Usable
<1> HIDE DEF u
<1>4. PICK h : Ranks(h, u, levels, places)
  BY <1>1, <1>3, FefoRanks
<1>5. Len(u) = m
  <2> DEFINE g == [k \in 1 .. m |-> levels[CHOOSE n \in places : Cardinality(Ahead(levels, places, n)) = k - 1]]
  <2>1. u = g
    BY <1>3 DEF InFefoOrder
  <2>2. Len(g) = m
    BY <1>2
  <2> QED BY <2>1, <2>2
<1>6. ASSUME NEW i \in 1 .. m
      PROVE  /\ h[i] \in places /\ u[i] = levels[h[i]]
             /\ u[i].batch \in Int /\ u[i].on_hand \in Nat \ {0}
  <2>1. h[i] \in places /\ u[i] = levels[h[i]]
    BY <1>4 DEF Ranks, Names
  <2>2. levels[h[i]].on_hand > 0
    BY <2>1
  <2>3. levels[h[i]].batch \in Int /\ levels[h[i]].on_hand \in Int
    BY <1>1, <2>1 DEF ValidLevels
  <2> QED BY <2>1, <2>2, <2>3
<1> QED BY <1>2, <1>4, <1>5, <1>6 DEF u

\* What is on the shelf is taken in the order it spoils, and all of it if need be.
LEMMA PicksHold ==
  ASSUME NEW levels, ValidLevels(levels), NEW wanted \in Nat
  PROVE  PicksFirst(levels, wanted, PickFefo(levels, wanted, Today))
<1> DEFINE fresh == Fresh(levels, Today)
           places == {n \in fresh : levels[n].on_hand > 0}
           u == Usable(levels, Today)
           m == Cardinality(places)
           picked == PickFefo(levels, wanted, Today)
           l == Len(picked.allocations)
           oh == OnHand(levels)
           given == Given(picked)
<1>1. /\ DOMAIN levels \in SUBSET Nat /\ IsFiniteSet(DOMAIN levels)
      /\ fresh \in SUBSET DOMAIN levels /\ places \in SUBSET fresh
  BY ListDomain DEF ValidLevels, Fresh
<1>2. \A n \in DOMAIN levels : /\ levels[n].batch \in Int /\ levels[n].on_hand \in Int
                               /\ levels[n].expires \in Int /\ levels[n].received \in Int
                               /\ oh[n] = levels[n].on_hand
  BY DEF ValidLevels, OnHand
<1>3. \A n \in places : levels[n].on_hand > 0
  OBVIOUS
<1>4. PICK h : /\ Ranks(h, u, levels, places) /\ m \in Nat /\ Len(u) = m
               /\ \A i \in 1 .. m : /\ h[i] \in places /\ u[i] = levels[h[i]]
                                    /\ u[i].batch \in Int /\ u[i].on_hand \in Nat \ {0}
  BY UsableRanks
<1> HIDE DEF u, places, fresh
<1>5. TakenInTurn(picked, u, m, wanted)
  BY <1>4, PicksInTurn DEF u
<1> HIDE DEF picked
<1>6. /\ picked.shortfall \in Nat /\ l \in Nat /\ l <= m
      /\ DOMAIN picked.allocations = 1 .. l
      /\ \A i \in 1 .. l : /\ picked.allocations[i].taken \in Nat \ {0}
                           /\ picked.allocations[i].batch = levels[h[i]].batch
                           /\ given[i] = picked.allocations[i].taken
      /\ picked.shortfall > 0 => l = m
  <2> DEFINE T == [batch : Int, taken : Nat \ {0}]
  <2>1. picked.allocations \in Seq(T)
    BY <1>5 DEF TakenInTurn
  <2>2. l \in Nat /\ DOMAIN picked.allocations = 1 .. l
        /\ \A i \in 1 .. l : picked.allocations[i] \in T
    <3> HIDE DEF T
    <3> QED BY <2>1
  <2>3. \A i \in 1 .. l : picked.allocations[i].taken \in Nat \ {0}
    BY <2>2
  <2>4. \A i \in 1 .. l : given[i] = picked.allocations[i].taken
    BY <2>2 DEF Given
  <2>5. /\ picked.shortfall \in Nat /\ l <= m /\ (picked.shortfall > 0 => l = m)
        /\ \A i \in 1 .. l : picked.allocations[i].batch = u[i].batch
    BY <1>5 DEF TakenInTurn
  <2>6. \A i \in 1 .. l : i \in 1 .. m
    BY <1>4, <2>2, <2>5
  <2> QED BY <1>4, <2>2, <2>3, <2>4, <2>5, <2>6
<1>7. \A i \in 1 .. l : i < l \/ picked.shortfall > 0 => given[i] = levels[h[i]].on_hand
  <2>1. \A i \in 1 .. l : i \in 1 .. m
    BY <1>4, <1>6
  <2>2. \A i \in 1 .. l : i < l \/ picked.shortfall > 0
                          => picked.allocations[i].taken = u[i].on_hand
    BY <1>5 DEF TakenInTurn, TakesAll
  <2> QED BY <1>4, <1>6, <2>1, <2>2
<1>8. /\ DOMAIN given = 1 .. l
      /\ Sum(given, 1 .. l) + picked.shortfall = wanted
  BY <1>5, <1>6 DEF Given, TakenInTurn
<1> HIDE DEF given, oh, l, m
<1>9. Names(h, 1 .. m, places)
      /\ \A j, k \in 1 .. m : FefoBefore(levels[h[j]], levels[h[k]]) => j < k
  BY <1>4 DEF Ranks, m
\* A batch is taken of in its turn, or not at all.
<1>10. ASSUME NEW k \in 1 .. m
       PROVE  TakenOf(picked, levels[h[k]].batch) = IF k <= l THEN given[k] ELSE 0
  <2> DEFINE here == {i \in 1 .. l : picked.allocations[i].batch = levels[h[k]].batch}
  <2>1. TakenOf(picked, levels[h[k]].batch) = Sum(given, here)
    BY <1>6 DEF TakenOf, SumOver, Sum, given
  <2>2. \A i \in 1 .. l : i \in here <=> i = k
    <3> SUFFICES ASSUME NEW i \in 1 .. l PROVE i \in here <=> i = k
      OBVIOUS
    <3>1. i \in 1 .. m
      BY <1>4, <1>6 DEF m
    <3>2. h[i] \in DOMAIN levels /\ h[k] \in DOMAIN levels
      BY <1>1, <1>4, <3>1 DEF m
    <3>3. levels[h[i]].batch = levels[h[k]].batch <=> h[i] = h[k]
      BY <3>2 DEF ValidLevels
    <3>4. h[i] = h[k] <=> i = k
      BY <1>9, <3>1 DEF Names
    <3> QED BY <1>6, <3>3, <3>4
  <2>3. CASE k <= l
    <3>1. k \in 1 .. l
      BY <1>4, <1>6, <2>3 DEF m
    <3>2. here = {k}
      BY <2>2, <3>1
    <3>3. given[k] \in Int
      BY <1>6, <3>1
    <3> HIDE DEF here
    <3>4. Sum(given, {k}) = given[k]
      BY <3>3, SumOfOne
    <3> QED BY <2>1, <2>3, <3>2, <3>4
  <2>4. CASE ~(k <= l)
    <3>1. here = {}
      BY <1>4, <1>6, <2>2, <2>4 DEF m
    <3> HIDE DEF here
    <3>2. Sum(given, {}) = 0
      BY FS_EmptySet, SumOfZeros
    <3> QED BY <2>1, <2>4, <3>1, <3>2
  <2> QED BY <2>3, <2>4
<1>11. ASSUME NEW n \in DOMAIN levels, n \notin places
       PROVE  TakenOf(picked, levels[n].batch) = 0
  <2> DEFINE here == {i \in 1 .. l : picked.allocations[i].batch = levels[n].batch}
  <2>1. TakenOf(picked, levels[n].batch) = Sum(given, here)
    BY <1>6 DEF TakenOf, SumOver, Sum, given
  <2>2. ASSUME NEW i \in 1 .. l PROVE i \notin here
    <3>1. i \in 1 .. m
      BY <1>4, <1>6 DEF m
    <3>2. h[i] \in places /\ h[i] \in DOMAIN levels
      BY <1>1, <1>4, <3>1 DEF m
    <3>3. levels[h[i]].batch # levels[n].batch
      BY <1>11, <3>2 DEF ValidLevels
    <3> QED BY <1>6, <3>3
  <2>3. here = {}
    BY <2>2
  <2> HIDE DEF here
  <2>4. Sum(given, {}) = 0
    BY FS_EmptySet, SumOfZeros
  <2> QED BY <2>1, <2>3, <2>4
<1>12. \A n \in places : \E k \in 1 .. m : h[k] = n
  BY <1>9 DEF Names
\* Whoever goes before one that is taken of is taken whole.
<1>13. ASSUME NEW n \in places, Leaves(picked, levels[n])
       PROVE  /\ picked.shortfall = 0
              /\ \A p \in DOMAIN levels : TakenOf(picked, levels[p].batch) > 0
                                          => ~(levels[n].expires < levels[p].expires)
  <2>1. PICK k \in 1 .. m : h[k] = n
    BY <1>12
  <2>2. ~(k <= l /\ given[k] = levels[n].on_hand)
    <3> SUFFICES ASSUME k <= l, given[k] = levels[n].on_hand PROVE FALSE
      OBVIOUS
    <3>1. TakenOf(picked, levels[n].batch) = levels[n].on_hand
      BY <1>10, <2>1
    <3>2. levels[n].on_hand \in Int
      BY <1>1, <1>2
    <3> QED BY <1>13, <3>1, <3>2 DEF Leaves
  <2>3. picked.shortfall = 0
    <3> SUFFICES ASSUME picked.shortfall > 0 PROVE FALSE
      BY <1>6
    <3>1. l = m /\ k \in 1 .. l
      BY <1>6 DEF m
    <3> QED BY <1>4, <1>7, <2>1, <2>2, <3>1 DEF m
  <2>4. ASSUME NEW p \in DOMAIN levels, TakenOf(picked, levels[p].batch) > 0,
               levels[n].expires < levels[p].expires
        PROVE  FALSE
    <3>1. p \in places
      BY <1>11, <2>4
    <3>2. PICK j \in 1 .. m : h[j] = p
      BY <1>12, <3>1
    <3>3. k < j
      BY <1>9, <2>1, <2>4, <3>2 DEF FefoBefore
    <3>4. j <= l
      BY <1>10, <2>4, <3>2
    <3>5. k \in 1 .. l /\ k < l
      BY <1>4, <1>6, <3>3, <3>4 DEF m
    <3>6. given[k] = levels[n].on_hand
      BY <1>7, <2>1, <3>5
    <3> QED BY <2>2, <3>5, <3>6
  <2> QED BY <2>3, <2>4
<1>14. \A n \in fresh : Leaves(picked, levels[n]) => n \in places
  BY DEF Leaves, places
\* When there is not enough, all there is has been taken.
<1>15. picked.shortfall <= Short(SellableOnHand(levels, Today), wanted)
  <2>1. SellableOnHand(levels, Today) = Sum(oh, fresh)
    BY DEF SellableOnHand, TotalOnHand, SumOver, Sum, oh, fresh
  <2>2. IsFiniteSet(fresh) /\ \A n \in fresh : oh[n] \in Int
    BY <1>1, <1>2, FS_Subset
  <2>3. Sum(oh, fresh) \in Int
    BY <2>2, SumIsInt
  <2>4. Sum(oh, fresh) = Sum(oh, places) + Sum(oh, fresh \ places)
    <3>1. /\ places \in SUBSET fresh /\ fresh \ places \in SUBSET fresh
          /\ places \cap (fresh \ places) = {} /\ places \cup (fresh \ places) = fresh
      BY <1>1
    <3>2. Sum(oh, places \cup (fresh \ places)) = Sum(oh, places) + Sum(oh, fresh \ places)
      BY <2>2, <3>1, SumUnion
    <3> QED BY <3>1, <3>2
  <2>5. Sum(oh, places) \in Int /\ Sum(oh, fresh \ places) \in Int /\ Sum(oh, fresh \ places) <= 0
    <3>1. IsFiniteSet(places) /\ IsFiniteSet(fresh \ places)
      BY <1>1, <2>2, FS_Subset
    <3>2. \A n \in fresh \ places : oh[n] \in Int /\ oh[n] <= 0
      BY <1>1, <1>2 DEF places
    <3>3. \A n \in places : oh[n] \in Int
      BY <1>1, <2>2
    <3>4. Sum(oh, places) \in Int
      BY <3>1, <3>3, SumIsInt
    <3>5. Sum(oh, fresh \ places) \in Int /\ Sum(oh, fresh \ places) <= 0
      <4> DEFINE rest == fresh \ places
      <4>1. IsFiniteSet(rest) /\ \A n \in rest : oh[n] \in Int /\ oh[n] <= 0
        BY <3>1, <3>2
      <4> HIDE DEF rest
      <4>2. Sum(oh, rest) \in Int /\ Sum(oh, rest) <= 0
        BY <4>1, SumIsInt, SumHasSign
      <4> QED BY <4>2 DEF rest
    <3> QED BY <3>4, <3>5
  <2>6. picked.shortfall > 0 => Sum(given, 1 .. l) = Sum(oh, places)
    <3> SUFFICES ASSUME picked.shortfall > 0 PROVE Sum(given, 1 .. l) = Sum(oh, places)
      OBVIOUS
    <3>1. l = m
      BY <1>6 DEF m
    <3>2. \A i \in 1 .. m : given[i] = oh[h[i]]
      <4>1. \A i \in 1 .. m : h[i] \in DOMAIN levels
        BY <1>1, <1>4 DEF m
      <4> QED BY <1>2, <1>7, <3>1, <4>1
    <3>3. IsFiniteSet(1 .. m)
      BY <1>4, FS_Interval DEF m
    <3>4. IsFiniteSet(places) /\ \A n \in places : oh[n] \in Int
      BY <1>1, <2>2, FS_Subset
    <3>5. Sum(given, 1 .. m) = Sum(oh, places)
      <4> DEFINE I == 1 .. m
      <4>1. Names(h, I, places) /\ IsFiniteSet(I) /\ \A i \in I : given[i] = oh[h[i]]
        BY <1>9, <3>2, <3>3
      <4> HIDE DEF I
      <4>2. Sum(given, I) = Sum(oh, places)
        BY ONLY <3>4, <4>1, SumMoved
      <4> QED BY <4>2 DEF I
    <3> QED BY <3>1, <3>5
  <2>7. Sum(oh, fresh) <= Sum(oh, places)
    BY <2>3, <2>4, <2>5
  <2>8. Short(Sum(oh, fresh), wanted) \in Nat
        /\ Short(Sum(oh, fresh), wanted) >= wanted - Sum(oh, fresh)
    BY <2>3 DEF Short
  <2>9. CASE picked.shortfall = 0
    BY <2>1, <2>8, <2>9
  <2>10. CASE picked.shortfall > 0
    BY <1>6, <1>8, <2>1, <2>3, <2>5, <2>6, <2>7, <2>8, <2>10
  <2> QED BY <1>6, <2>9, <2>10
<1>16. TrySum(given) + picked.shortfall = wanted
  BY <1>8, TrySumIsSum
<1>17. \A n \in DOMAIN levels : TakenOf(picked, levels[n].batch) > 0 => n \in fresh
  BY <1>1, <1>11
\* What has expired does not expire soon.
<1>18. Range(Expired(levels, Today)) \cap Range(ExpiringSoon(levels, Today, 1)) = {}
  <2> DEFINE past == {n \in DOMAIN levels : IsExpired(levels[n], Today) /\ levels[n].on_hand > 0}
             soon == {n \in DOMAIN levels :
                        ExpiresWithin(levels[n], Today, 1) /\ levels[n].on_hand > 0}
  <2>1. \A x \in Range(Expired(levels, Today)) : \E n \in past : x = levels[n]
    <3>1. PICK g : Ranks(g, InFefoOrder(levels, past), levels, past)
      BY FefoRanks
    <3> HIDE DEF past
    <3>2. \A x \in Range(InFefoOrder(levels, past)) : \E n \in past : x = levels[n]
      BY <3>1 DEF Ranks, Names, Range
    <3> QED BY <3>2 DEF Expired, past
  <2>2. \A x \in Range(ExpiringSoon(levels, Today, 1)) : \E n \in soon : x = levels[n]
    <3>1. PICK g : Ranks(g, InFefoOrder(levels, soon), levels, soon)
      BY FefoRanks
    <3> HIDE DEF soon
    <3>2. \A x \in Range(InFefoOrder(levels, soon)) : \E n \in soon : x = levels[n]
      BY <3>1 DEF Ranks, Names, Range
    <3> QED BY <3>2 DEF ExpiringSoon, soon
  <2>3. \A p \in past, q \in soon : levels[p] # levels[q]
    <3> SUFFICES ASSUME NEW p \in past, NEW q \in soon, levels[p] = levels[q] PROVE FALSE
      OBVIOUS
    <3>1. levels[p].expires \in Int /\ Today >= levels[p].expires
      BY <1>2 DEF IsExpired
    <3>2. levels[q].expires - Today > 0
      BY DEF ExpiresWithin
    <3> QED BY <3>1, <3>2 DEF Today
  <2> HIDE DEF past, soon
  <2> QED BY <2>1, <2>2, <2>3
<1>19. picked.shortfall > 0 => ~\E n \in fresh : Leaves(picked, levels[n])
  BY <1>13, <1>14
<1>20. \A n \in DOMAIN levels : TakenOf(picked, levels[n].batch) > 0
         => ~\E q \in fresh : levels[q].expires < levels[n].expires /\ Leaves(picked, levels[q])
  BY <1>13, <1>14
<1>21. PicksFirst(levels, wanted, picked)
  BY <1>15, <1>16, <1>17, <1>18, <1>19, <1>20 DEF PicksFirst, given, fresh
<1> QED BY <1>21 DEF picked

Moving == INSTANCE Folding WITH Start <- << >>, Advance <- TransferStep

\* Whatever reaches a transfer, its status says whether all of it has.
LEMMA TransfersHold ==
  ASSUME NEW events, events \in Seq(Range(events)),
         \A n \in DOMAIN events : events[n].kind \in {"Received", "Settled"}
                                  /\ events[n].data.qty \in Int,
         NEW dispatch, dispatch.data.lines = <<2, 2>>
  PROVE  LET transfer == TransferAfter(dispatch, events)
         IN ArrivesWhole(transfer, TransferStatus(transfer))
<1> DEFINE Lines == [1 .. 2 -> [qty : {2}, received : Nat]]
           Inv == [settled : BOOLEAN, lines : Lines]
           S == Range(events)
           start == Dispatched(dispatch)
           transfer == TransferAfter(dispatch, events)
<1>1. transfer = Moving!From(start, events)
  BY DEF TransferAfter, Through, Moving!From
<1>2. start \in Inv
  BY DEF Dispatched
<1>3. ASSUME NEW a \in Inv, NEW e \in S PROVE TransferStep(a, e) \in Inv
  <2>1. e.kind \in {"Received", "Settled"} /\ e.data.qty \in Int
    BY DEF Range
  <2>2. CASE ~TransferAccepts(a, e)
    BY <2>2 DEF TransferStep
  <2>3. CASE TransferAccepts(a, e) /\ e.kind = "Settled"
    BY <2>3 DEF TransferStep, TransferApply
  <2>4. CASE TransferAccepts(a, e) /\ e.kind = "Received"
    <3>1. e.data.line \in 1 .. 2 /\ e.data.qty \in Nat
      BY <2>1, <2>4 DEF TransferAccepts
    <3> DEFINE n == e.data.line
               q == e.data.qty
    <3>2. TransferStep(a, e) = [a EXCEPT !.lines[n].received = @ + q]
      BY <2>4 DEF TransferStep, TransferApply
    <3> HIDE DEF n, q
    <3>3. n \in 1 .. 2 /\ q \in Nat
      BY <3>1 DEF n, q
    <3>4. [a EXCEPT !.lines[n].received = @ + q] \in Inv
      BY ONLY <3>3, a \in Inv
    <3> QED BY <3>2, <3>4
  <2> QED BY <2>1, <2>2, <2>3, <2>4
<1> HIDE DEF Inv, start, S, transfer
<1>4. transfer \in Inv
  <2>1. events \in Seq(S)
    BY DEF S
  <2> QED BY <1>1, <1>2, <1>3, <2>1, Moving!FromInvariant
<1>5. /\ transfer.settled \in BOOLEAN /\ DOMAIN transfer.lines = 1 .. 2
      /\ \A n \in 1 .. 2 : transfer.lines[n].qty = 2 /\ transfer.lines[n].received \in Nat
  BY <1>4 DEF Inv
<1>6. (InTransit(transfer) = {}) <=>
         \A n \in 1 .. 2 : transfer.lines[n].received >= transfer.lines[n].qty
  BY <1>5 DEF InTransit
<1>7. TransferStatus(transfer) \in {"arrived", "settled"} <=> InTransit(transfer) = {}
  BY <1>5 DEF TransferStatus
<1>8. TransferStatus(transfer) = "in_transit" => ~HasOverReceipt(transfer)
  BY <1>5 DEF TransferStatus, HasOverReceipt
<1>9. ArrivesWhole(transfer, TransferStatus(transfer))
  BY <1>5, <1>6, <1>7, <1>8 DEF ArrivesWhole
<1> QED BY <1>9 DEF transfer

\* Rounding half up is off by half a unit at most.
LEMMA RoundsHalfUp ==
  ASSUME NEW n \in Int
  PROVE  LET q == DivideRounded(n, 1000, "half_up")
         IN q \in Int /\ 2 * Abs(1000 * q - n) <= 1000
<1> DEFINE a == Abs(n)
           quo == a \div 1000
           rem == a % 1000
           r == Rounded(quo, 2 * rem, 1000, "half_up")
<1>1. a \in Nat /\ (n >= 0 => a = n) /\ (n < 0 => a = -n)
  BY DEF Abs
<1>2. quo \in Nat /\ rem \in 0 .. 999 /\ a = 1000 * quo + rem
  <2> HIDE DEF a
  <2> QED BY <1>1, Divides
<1>3. DivideRounded(n, 1000, "half_up") = Sign(n) * r
  BY DEF DivideRounded
<1> HIDE DEF a, quo, rem
<1>4. r = IF 2 * rem >= 1000 THEN quo + 1 ELSE quo
  BY DEF Rounded, RoundsAway
<1> HIDE DEF r
<1>5. r \in Nat /\ 2 * (1000 * r - a) <= 1000 /\ 2 * (1000 * r - a) >= -1000
  BY <1>2, <1>4
<1>6. CASE n >= 0
  <2>1. DivideRounded(n, 1000, "half_up") = r /\ n = a
    BY <1>1, <1>3, <1>5, <1>6 DEF Sign
  <2> QED BY <1>1, <1>5, <2>1 DEF Abs
<1>7. CASE n < 0
  <2>1. DivideRounded(n, 1000, "half_up") = -r /\ n = -a
    BY <1>1, <1>3, <1>5, <1>7 DEF Sign
  <2> QED BY <1>1, <1>5, <2>1 DEF Abs
<1> QED BY <1>6, <1>7

Ordering == INSTANCE Folding WITH Start <- Unplaced, Advance <- OrderStep

\* An order of one line, of which so much came for so much.
Open(line, r, v) ==
    [state |-> "open",
     lines |-> [n \in 1 .. 1 |-> [line |-> line, received |-> r, received_value |-> v]]]

\* A delivery of the line adds to it.
LEMMA OneMoreArrives ==
  ASSUME NEW line, NEW r \in Int, NEW v \in Int, NEW qty \in Nat \ {0}, NEW cost \in Int,
         NEW e, e = [kind |-> "LineReceived", data |-> [line |-> 1, qty |-> qty, cost |-> cost]]
  PROVE  OrderStep(Open(line, r, v), e) = Open(line, r + qty, v + Value(cost, qty))
<1> DEFINE old == Open(line, r, v)
           w == Value(cost, qty)
           new == [old EXCEPT !.lines[1].received = @ + qty, !.lines[1].received_value = @ + w]
<1>1. old # Unplaced
  BY DEF Open, Unplaced
<1>2. e.kind = "LineReceived" /\ e.data.line = 1 /\ e.data.qty = qty /\ e.data.cost = cost
  OBVIOUS
<1>3. OrderAccepts(old, e)
  BY <1>2 DEF Open, OrderAccepts
<1>4. OrderStep(old, e) = new
  <2> HIDE DEF old
  <2> QED BY <1>1, <1>2, <1>3 DEF OrderStep, OrderApply
<1>5. new = Open(line, r + qty, v + w)
  <2> DEFINE mid == Open(line, r + qty, v)
  <2>1. [old EXCEPT !.lines[1].received = @ + qty] = mid
    BY DEF Open
  <2>2. [mid EXCEPT !.lines[1].received_value = @ + w] = Open(line, r + qty, v + w)
    <3> HIDE DEF w
    <3> QED BY DEF Open
  <2>3. new = [[old EXCEPT !.lines[1].received = @ + qty] EXCEPT !.lines[1].received_value = @ + w]
    <3> HIDE DEF old, w
    <3> QED OBVIOUS
  <2> HIDE DEF new, old, mid, w
  <2> QED BY <2>1, <2>2, <2>3
<1> QED BY <1>4, <1>5

\* An order is made of one event after another.
LEMMA OrderGrows ==
  ASSUME NEW events, NEW m \in Nat, Len(events) = m
  PROVE  \E f : /\ f[0] = Unplaced /\ OrderReplay(events) = f[m]
               /\ \A i \in 1 .. m : f[i] = OrderStep(f[i - 1], events[i])
<1>1. OrderReplay(events) = Ordering!From(Unplaced, events)
  BY DEF OrderReplay, Through, Ordering!From
<1>2. PICK f : /\ Ordering!Tabulates(Unplaced, f, events, m)
               /\ Ordering!From(Unplaced, events) = f[m]
  BY Ordering!TableComputes
<1>3. f[0] = Unplaced /\ \A i \in 1 .. m : f[i] = OrderStep(f[i - 1], events[i])
  <2>1. Ordering!Tabulates(Unplaced, f, events, m)
    BY <1>2
  <2> QED BY ONLY <2>1, m \in Nat, Ordering!TableEntries
<1> QED BY <1>1, <1>2, <1>3

\* What is ordered is received when enough has arrived, and questioned only
\* when it came to more than what was agreed, its roundings apart.
LEMMA OrdersArePriced ==
  ASSUME NEW qty \in Nat, NEW deliveries \in Seq([qty : Nat \ {0}, cost : Int]),
         deliveries # << >>,
         NEW placed, placed = Placement(qty), NEW came, came = Arrivals(deliveries)
  PROVE  PricedAsAgreed(OrderReplay(<<placed>> \o came), deliveries)
<1> DEFINE line == [qty |-> qty, cost |-> 50]
           N == Len(deliveries)
           events == <<placed>> \o came
           order == OrderReplay(events)
           agreed == \A i \in DOMAIN deliveries : deliveries[i].cost = 50
           arrived == [i \in DOMAIN deliveries |-> deliveries[i].qty]
           R(k) == Sum(arrived, 1 .. k)
<1>0. /\ placed = [kind |-> "Placed", data |-> [lines |-> <<line>>]]
      /\ came = [n \in DOMAIN deliveries |->
                   [kind |-> "LineReceived",
                    data |-> [line |-> 1, qty |-> deliveries[n].qty, cost |-> deliveries[n].cost]]]
  BY DEF Placement, Arrivals
<1>1. /\ N \in Nat /\ N >= 1 /\ DOMAIN deliveries = 1 .. N
      /\ \A i \in 1 .. N : deliveries[i].qty \in Nat \ {0} /\ deliveries[i].cost \in Int
  <2> DEFINE T == [qty : Nat \ {0}, cost : Int]
  <2>1. deliveries \in Seq(T)
    OBVIOUS
  <2> HIDE DEF T
  <2>2. DOMAIN deliveries = 1 .. N /\ N \in Nat /\ \A i \in 1 .. N : deliveries[i] \in T
    BY <2>1, ListDomain
  <2>3. N # 0
    BY <2>1
  <2> QED BY <2>2, <2>3 DEF T
<1>2. /\ Len(events) = N + 1 /\ events[1] = placed
      /\ \A k \in 1 .. N : events[k + 1] = came[k]
  <2> DEFINE S == {placed} \cup Range(came)
  <2>1. came \in [1 .. N -> S]
    BY <1>0, <1>1 DEF Range
  <2>2. came \in Seq(S) /\ Len(came) = N
    BY <1>0, <1>1, <2>1, SeqDef, SMTT(60)
  <2>3. <<placed>> \in Seq(S) /\ Len(<<placed>>) = 1 /\ <<placed>>[1] = placed
    OBVIOUS
  <2> HIDE DEF S
  <2>4. /\ Len(events) = 1 + N
        /\ \A i \in 1 .. 1 + N : events[i] = IF i <= 1 THEN <<placed>>[i] ELSE came[i - 1]
    BY <2>2, <2>3, ConcatProperties
  <2>5. \A k \in 1 .. N : k + 1 \in 1 .. 1 + N /\ ~(k + 1 <= 1) /\ (k + 1) - 1 = k
    BY <1>1
  <2>6. 1 \in 1 .. 1 + N /\ 1 <= 1
    BY <1>1
  <2>7. events[1] = placed
    BY <2>3, <2>4, <2>6
  <2>8. \A k \in 1 .. N : events[k + 1] = came[k]
    BY <2>4, <2>5
  <2>9. Len(events) = N + 1
    BY <1>1, <2>4
  <2> QED BY <2>7, <2>8, <2>9
<1> HIDE DEF events
<1>4. PICK f : /\ f[0] = Unplaced /\ order = f[N + 1]
               /\ \A i \in 1 .. N + 1 : f[i] = OrderStep(f[i - 1], events[i])
  <2> DEFINE size == N + 1
  <2>1. size \in Nat /\ Len(events) = size
    BY <1>1, <1>2
  <2> HIDE DEF size
  <2>2. \E f : /\ f[0] = Unplaced /\ OrderReplay(events) = f[size]
              /\ \A i \in 1 .. size : f[i] = OrderStep(f[i - 1], events[i])
    BY ONLY <2>1, OrderGrows
  <2> QED BY <2>2 DEF order, size
<1> HIDE DEF order
<1>5. \A i \in 1 .. N : arrived[i] = deliveries[i].qty /\ arrived[i] \in Int
  BY <1>1
<1>6. /\ R(0) = 0
      /\ \A k \in 0 .. N - 1 : R(k + 1) = R(k) + arrived[k + 1]
      /\ \A k \in 0 .. N : R(k) \in Int
  <2> HIDE DEF arrived
  <2> QED BY <1>1, <1>5, SumsGrow
<1>7. TrySum(arrived) = R(N)
  BY <1>1, TrySumIsSum
<1> HIDE DEF arrived
<1> DEFINE Reckoned(k, v) ==
             /\ f[k + 1] = Open(line, R(k), v)
             /\ agreed => 2 * Abs(1000 * v - 50 * R(k)) <= 1000 * k
             /\ k = 1 => v = Value(deliveries[1].cost, deliveries[1].qty)
           P == {k \in Nat : k <= N => \E v \in Int : Reckoned(k, v)}
<1>8. f[1] = Open(line, 0, 0)
  <2>1. f[1] = OrderStep(Unplaced, placed)
    <3>1. 1 \in 1 .. N + 1 /\ 1 - 1 = 0
      BY <1>1
    <3>2. f[1] = OrderStep(f[1 - 1], events[1])
      BY <1>4, <3>1
    <3> QED BY <1>2, <1>4, <3>1, <3>2
  <2>2. OrderStep(Unplaced, placed) = Placed(placed)
    <3>1. placed.kind = "Placed" /\ placed.data.lines = <<line>>
      BY <1>0
    <3>2. <<line>> # << >>
      OBVIOUS
    <3> QED BY <3>1, <3>2 DEF OrderStep
  <2>3. Placed(placed) = Open(line, 0, 0)
    BY <1>0 DEF Placed, Open
  <2> QED BY <2>1, <2>2, <2>3
<1>7a. 0 \in P
  <2>1. Reckoned(0, 0)
    BY <1>6, <1>8 DEF Abs
  <2> QED BY <2>1
<1>9. ASSUME NEW k \in P PROVE k + 1 \in P
  <2> SUFFICES ASSUME k + 1 <= N PROVE \E v \in Int : Reckoned(k + 1, v)
    OBVIOUS
  <2>1. k \in 0 .. N - 1 /\ k + 1 \in 1 .. N /\ k \in Nat
    BY <1>1
  <2>2. PICK v \in Int : Reckoned(k, v)
    BY <2>1, SMTT(30)
  <2> DEFINE q == deliveries[k + 1].qty
             c == deliveries[k + 1].cost
             w == Value(c, q)
  <2>3. q \in Nat \ {0} /\ c \in Int /\ q = arrived[k + 1]
    BY <1>1, <1>5, <2>1
  <2>4. came[k + 1] = [kind |-> "LineReceived", data |-> [line |-> 1, qty |-> q, cost |-> c]]
    BY <1>0, <1>1, <2>1
  <2>5. f[k + 2] = OrderStep(f[k + 1], came[k + 1])
    <3>1. k + 2 \in 1 .. N + 1 /\ (k + 2) - 1 = k + 1 /\ (k + 1) + 1 = k + 2
      BY <1>1, <2>1
    <3>2. f[k + 2] = OrderStep(f[k + 1], events[k + 2])
      BY <1>4, <3>1
    <3>3. events[(k + 1) + 1] = came[k + 1]
      BY ONLY <1>2, <2>1, SMTT(60)
    <3> QED BY <3>1, <3>2, <3>3
  <2> HIDE DEF q, c
  <2>6. R(k) \in Int /\ R(k + 1) = R(k) + q
    BY <1>6, <2>1, <2>3, SMTT(30)
  <2> HIDE DEF R, line
  <2>7. f[k + 2] = Open(line, R(k + 1), v + w)
    <3>1. f[k + 1] = Open(line, R(k), v)
      BY <2>2
    <3>2. OrderStep(Open(line, R(k), v), came[k + 1]) = Open(line, R(k) + q, v + w)
      BY ONLY <2>3, <2>4, <2>6, v \in Int, OneMoreArrives
    <3> QED BY <2>5, <2>6, <3>1, <3>2
  <2>8. w \in Int /\ (c = 50 => 2 * Abs(1000 * w - 50 * q) <= 1000)
    <3>1. c * q \in Int
      BY <2>3, SMTT(30)
    <3>2. w = DivideRounded(c * q, 1000, "half_up")
      BY DEF Value, Extend, MulRatio, MilliPerUnit
    <3> QED BY <3>1, <3>2, RoundsHalfUp
  <2>9. agreed => c = 50 /\ 2 * Abs(1000 * v - 50 * R(k)) <= 1000 * k
    <3>1. agreed => c = 50
      <4>1. k + 1 \in DOMAIN deliveries
        BY ONLY <1>1, <2>1
      <4> QED BY ONLY <4>1 DEF c
    <3>2. agreed => 2 * Abs(1000 * v - 50 * R(k)) <= 1000 * k
      <4> HIDE DEF agreed
      <4> QED BY <2>2
    <3> QED BY <3>1, <3>2
  <2> HIDE DEF w, agreed
  <2>10. agreed => 2 * Abs(1000 * (v + w) - 50 * R(k + 1)) <= 1000 * (k + 1)
    <3> SUFFICES ASSUME agreed PROVE 2 * Abs(1000 * (v + w) - 50 * R(k + 1)) <= 1000 * (k + 1)
      OBVIOUS
    <3> DEFINE x == 1000 * v - 50 * R(k)
               y == 1000 * w - 50 * q
               z == 1000 * (v + w) - 50 * R(k + 1)
    <3>1. x \in Int /\ y \in Int /\ z = x + y
      <4>1. 50 * R(k + 1) = 50 * R(k) + 50 * q /\ 50 * R(k) \in Int /\ 50 * q \in Int
        BY ONLY <2>3, <2>6, SMTT(60)
      <4>2. 1000 * (v + w) = 1000 * v + 1000 * w /\ w \in Int
        BY <2>8
      <4> QED BY ONLY <4>1, <4>2, v \in Int
    <3>2. 2 * Abs(x) <= 1000 * k /\ 2 * Abs(y) <= 1000
      BY <2>8, <2>9
    <3> HIDE DEF x, y, z
    <3>3. 2 * Abs(z) <= 1000 * (k + 1)
      BY ONLY <2>1, <3>1, <3>2 DEF Abs
    <3> QED BY <3>3 DEF z
  <2>11. k + 1 = 1 => v + w = Value(deliveries[1].cost, deliveries[1].qty)
    <3> SUFFICES ASSUME k = 0 PROVE v + w = Value(deliveries[1].cost, deliveries[1].qty)
      BY <2>1
    <3>1. Open(line, R(0), v) = Open(line, 0, 0)
      BY <1>8, <2>2 DEF line
    <3>2. v = 0
      <4>1. Open(line, R(0), v).lines[1].received_value = Open(line, 0, 0).lines[1].received_value
        BY <3>1
      <4> QED BY <4>1 DEF Open
    <3> QED BY <2>8, <3>2 DEF w, c, q
  <2>12. v + w \in Int /\ (k + 1) + 1 = k + 2
    BY <2>1, <2>8
  <2> QED BY <2>7, <2>10, <2>11, <2>12
<1>10. N \in P
  <2>1. P \in SUBSET Nat
    OBVIOUS
  <2> HIDE DEF P
  <2>2. \A x \in P : x + 1 \in P
    BY ONLY <1>9
  <2>3. N \in Nat
    BY <1>1
  <2> HIDE DEF N
  <2> QED BY ONLY <1>7a, <2>1, <2>2, <2>3, EveryNumber
<1> HIDE DEF P
<1>11. PICK v \in Int : Reckoned(N, v)
  <2>1. N \in P <=> N \in Nat /\ (N <= N => \E v \in Int : Reckoned(N, v))
    BY DEF P
  <2> HIDE DEF Reckoned, P
  <2>2. \E v \in Int : Reckoned(N, v)
    BY <1>1, <1>10, <2>1
  <2> QED BY <2>2
<1>12. /\ order = Open(line, R(N), v) /\ R(N) \in Int
       /\ agreed => 2 * Abs(1000 * v - 50 * R(N)) <= 1000 * N
       /\ N = 1 => v = Value(deliveries[1].cost, deliveries[1].qty) /\ R(N) = deliveries[1].qty
  <2>1. N = 1 => R(N) = deliveries[1].qty
    <3> SUFFICES ASSUME N = 1 PROVE R(1) = deliveries[1].qty
      OBVIOUS
    <3>1. R(0 + 1) = R(0) + arrived[0 + 1]
      BY <1>6
    <3> QED BY <1>5, <1>6, <3>1
  <2> QED BY <1>1, <1>4, <1>6, <1>11, <2>1
<1> HIDE DEF R, line
<1>13. /\ order.state = "open" /\ DOMAIN order.lines = 1 .. 1
       /\ order.lines[1] = [line |-> line, received |-> R(N), received_value |-> v]
  BY <1>12 DEF Open
<1>14. line.qty = qty /\ line.cost = 50
  BY DEF line
<1>15. OrderStatus(order) = "fully_received" <=> R(N) >= qty
  <2>1. Waiting(order) = {} <=> R(N) >= qty
    BY <1>12, <1>13, <1>14, SMTT(60) DEF Waiting, IsFulfilled, Outstanding
  <2> QED BY <1>13, <2>1 DEF OrderStatus
<1>16. \A g, x : x \in Int /\ g = [m \in 1 .. 1 |-> x] => TrySum(g) = x
  <2> TAKE g, x
  <2>1. SUFFICES ASSUME x \in Int, g = [m \in 1 .. 1 |-> x] PROVE TrySum(g) = x
    OBVIOUS
  <2>2. DOMAIN g = {1} /\ g[1] = x
    BY <2>1
  <2> QED BY <2>1, <2>2, SumOfOne, TrySumIsSum
<1>17. ReceivedValue(order) = v
  <2>1. ReceivedValue(order) = TrySum([m \in 1 .. 1 |-> v])
    BY <1>13 DEF ReceivedValue
  <2> QED BY <1>16, <2>1
<1>18. /\ OrderedValue(order) = Value(50, qty) /\ Value(50, qty) \in Int
       /\ 2 * Abs(1000 * Value(50, qty) - 50 * qty) <= 1000
  <2>1. Value(50, qty) = DivideRounded(50 * qty, 1000, "half_up")
    BY DEF Value, Extend, MulRatio, MilliPerUnit
  <2>2. Value(50, qty) \in Int /\ 2 * Abs(1000 * Value(50, qty) - 50 * qty) <= 1000
    BY <2>1, RoundsHalfUp
  <2>3. OrderedValue(order) = TrySum([m \in 1 .. 1 |-> Value(50, qty)])
    BY <1>13, <1>14 DEF OrderedValue
  <2> QED BY <1>16, <2>2, <2>3
<1>19. agreed /\ R(N) = qty => Abs(v - Value(50, qty)) <= N
  <2> SUFFICES ASSUME agreed, R(N) = qty PROVE Abs(v - Value(50, qty)) <= N
    OBVIOUS
  <2> DEFINE u == Value(50, qty)
  <2>1. u \in Int /\ 2 * Abs(1000 * u - 50 * qty) <= 1000 /\ 2 * Abs(1000 * v - 50 * qty) <= 1000 * N
    BY <1>12, <1>18
  <2> HIDE DEF u, N
  <2>2. Abs(v - u) <= N
    BY ONLY <1>1, <2>1, qty \in Nat, v \in Int DEF Abs
  <2> QED BY <2>2 DEF u
<1>20. agreed /\ N = 1 => PriceDiscrepancies(order) = {}
  <2> SUFFICES ASSUME agreed, N = 1 PROVE PriceDiscrepancies(order) = {}
    OBVIOUS
  <2>1. v = Value(line.cost, R(N))
    BY <1>1, <1>12, <1>14, SMTT(60)
  <2>2. \A m \in 1 .. 1 : order.lines[m] = [line |-> line, received |-> R(N), received_value |-> v]
    BY <1>13
  <2> QED BY <1>13, <2>1, <2>2 DEF PriceDiscrepancies
<1>21. Outstanding(order.lines[1]) = 0 <=> R(N) = qty
  BY <1>12, <1>13, <1>14, SMTT(60) DEF Outstanding
<1>22. order.lines[1].line.qty = qty
  BY <1>13, <1>14
<1>23. TrySum([i \in DOMAIN deliveries |-> deliveries[i].qty]) = R(N)
  BY <1>7 DEF arrived
<1> HIDE DEF agreed, N
<1>24. PricedAsAgreed(order, deliveries)
  BY <1>15, <1>17, <1>18, <1>19, <1>20, <1>21, <1>22, <1>23 DEF PricedAsAgreed, agreed, N
<1> QED BY <1>24 DEF order, events

\* What is asked of the shelves, of what is on its way to them, and of the books.
LEMMA Shelves ==
  ASSUME [Next]_calc
  PROVE  \/ UNCHANGED calc
         \/ Picks \/ Oversells \/ Transfers \/ Receives \/ Closes
         \/ calc'.of \notin {"pick", "oversold", "transfer", "purchase", "day"}
<1>1. CASE Allocates BY <1>1 DEF Allocates, Answers
<1>2. CASE Splits BY <1>2 DEF Splits, Answers
<1>3. CASE Prices BY <1>3 DEF Prices, Answers
<1>4. CASE Chooses BY <1>4 DEF Chooses, Answers
<1>5. CASE Judges
  <2>1. \/ \E who, pin, permission : calc' = Refusal(who, pin, permission)
        \/ \E who, by, request, policy : calc' = Audited(who, by, request, policy)
    BY <1>5 DEF Judges, Answers
  <2>2. \A who, pin, permission : Refusal(who, pin, permission).of = "refusal"
    BY DEF Refusal
  <2>3. \A who, by, request, policy : Audited(who, by, request, policy).of = "audit"
    BY DEF Audited
  <2> QED BY <2>1, <2>2, <2>3
<1>6. CASE Compares BY <1>6 DEF Compares, Answers
<1>7. CASE Scans BY <1>7 DEF Scans, Answers
<1>8. CASE Edits BY <1>8 DEF Edits, Answers
<1>9. CASE Prints BY <1>9 DEF Prints, Answers
<1>10. CASE Verifies BY <1>10 DEF Verifies, Answers
<1>11. CASE Finishes BY <1>11 DEF Finishes, None
<1> QED BY <1>1, <1>2, <1>3, <1>4, <1>5, <1>6, <1>7, <1>8, <1>9, <1>10, <1>11 DEF Next

\* Each of these questions is answered as it should be.
LEMMA PicksAnswered == ASSUME Picks PROVE StockHolds'
<1>1. PICK levels \in LevelLists, wanted \in Wanted :
         calc' = [of |-> "pick", levels |-> levels, wanted |-> wanted,
                  picked |-> PickFefo(levels, wanted, Today)]
  BY DEF Picks, Answers
<1>2. PicksFirst(levels, wanted, PickFefo(levels, wanted, Today))
  BY StockAssumption, PicksHold
<1>3. /\ calc'.of = "pick" /\ calc'.levels = levels /\ calc'.wanted = wanted
      /\ calc'.picked = PickFefo(levels, wanted, Today)
  BY <1>1
<1> QED BY <1>2, <1>3 DEF StockHolds

LEMMA OversellsAnswered == ASSUME Oversells PROVE StockHolds'
<1>1. PICK movements \in MovementLists :
         calc' = [of |-> "oversold", movements |-> movements, found |-> DetectOversells(movements)]
  BY DEF Oversells, Answers
<1>2. OversoldEitherWay(movements, DetectOversells(movements))
  BY StockAssumption, OversellsHold
<1>3. /\ calc'.of = "oversold" /\ calc'.movements = movements
      /\ calc'.found = DetectOversells(movements)
  BY <1>1
<1> QED BY <1>2, <1>3 DEF StockHolds

LEMMA TransfersAnswered == ASSUME Transfers PROVE StockHolds'
<1> DEFINE dispatch == [data |-> [lines |-> <<2, 2>>, from |-> "here", to |-> "there"]]
<1>1. PICK events \in Deliveries :
         calc' = [of |-> "transfer", transfer |-> TransferAfter(dispatch, events),
                  status |-> TransferStatus(TransferAfter(dispatch, events))]
  BY DEF Transfers, Answers
<1>2. dispatch.data.lines = <<2, 2>>
  OBVIOUS
<1> HIDE DEF dispatch
<1>3. ArrivesWhole(TransferAfter(dispatch, events), TransferStatus(TransferAfter(dispatch, events)))
  BY <1>2, DeliveriesAssumption, TransfersHold
<1>4. /\ calc'.of = "transfer" /\ calc'.transfer = TransferAfter(dispatch, events)
      /\ calc'.status = TransferStatus(TransferAfter(dispatch, events))
  BY <1>1
<1> QED BY <1>3, <1>4 DEF StockHolds

LEMMA ReceivesAnswered == ASSUME Receives PROVE StockHolds'
<1>1. PICK qty \in {500, 2000}, deliveries \in Receipts :
         calc' = [of |-> "purchase", deliveries |-> deliveries,
                  order |-> OrderReplay(<<Placement(qty)>> \o Arrivals(deliveries))]
  BY DEF Receives, Answers
<1> DEFINE order == OrderReplay(<<Placement(qty)>> \o Arrivals(deliveries))
<1>2. qty \in Nat /\ deliveries \in Seq([qty : Nat \ {0}, cost : Int]) /\ deliveries # << >>
  BY DeliveriesAssumption
<1>3. PricedAsAgreed(order, deliveries)
  BY <1>2, OrdersArePriced
<1>4. calc' = [of |-> "purchase", deliveries |-> deliveries, order |-> order]
  BY <1>1
<1> HIDE DEF order
<1>5. /\ calc'.of = "purchase" /\ calc'.order = order /\ calc'.deliveries = deliveries
  BY <1>4
<1> QED BY <1>3, <1>5 DEF StockHolds

\* Stock is promised only where it is (pick_fefo, detect_oversells, Transfer,
\* price_discrepancies), however much there is, and whoever moves it.
THEOREM StockIsHeld == Spec => []StockHolds
<1>1. Init => StockHolds
  BY DEF Init, None, StockHolds
<1>2. ASSUME StockHolds, [Next]_calc PROVE StockHolds'
  <2>1. CASE UNCHANGED calc
    BY <1>2, <2>1 DEF StockHolds
  <2>2. CASE calc'.of \notin {"pick", "oversold", "transfer", "purchase", "day"}
    BY <2>2 DEF StockHolds
  <2>3. CASE Closes BY <2>3 DEF Closes, Answers, StockHolds
  <2> QED BY <1>2, <2>1, <2>2, <2>3, Shelves, PicksAnswered, OversellsAnswered, TransfersAnswered,
             ReceivesAnswered
<1> QED BY <1>1, <1>2, PTL DEF Spec

-----------------------------------------------------------------------------
(***************************************************************************)
(* The day, and the drawer.                                                *)
(***************************************************************************)

\* A sum of what is in some part, and of nothing elsewhere, is the part's.
LEMMA SumPicked ==
  ASSUME NEW S, IsFiniteSet(S), NEW f, \A x \in S : f[x] \in Int, NEW U \in SUBSET S,
         NEW h, \A x \in S : h[x] = IF x \in U THEN f[x] ELSE 0
  PROVE  Sum(h, S) = Sum(f, U)
<1>1. IsFiniteSet(U) /\ IsFiniteSet(S \ U) /\ S \ U \in SUBSET S /\ U \cap (S \ U) = {}
  BY FS_Subset, FS_Difference
<1>2. \A x \in S : h[x] \in Int
  OBVIOUS
<1>3. Sum(h, U \cup (S \ U)) = Sum(h, U) + Sum(h, S \ U)
  BY <1>1, <1>2, SumUnion
<1>4. Sum(h, S \ U) = 0
  <2>1. \A x \in S \ U : h[x] = 0
    OBVIOUS
  <2> QED BY <1>1, <2>1, SumOfZeros
<1>5. Sum(h, U) = Sum(f, U)
  <2>1. \A x \in U : h[x] = f[x]
    OBVIOUS
  <2> QED BY <1>1, <2>1, SumAgrees
<1>6. U \cup (S \ U) = S
  OBVIOUS
<1>7. Sum(f, U) \in Int
  <2>1. \A x \in U : f[x] \in Int
    OBVIOUS
  <2> QED BY <1>1, <2>1, SumIsInt
<1>8. Sum(h, S) = Sum(f, U) + 0
  BY <1>3, <1>4, <1>5, <1>6, Zenon
<1> QED BY <1>7, <1>8

\* A table, and what its rows and its columns come to.
Table(S, T, a, b, row, col) ==
    /\ IsFiniteSet(S) /\ IsFiniteSet(T)
    /\ \A x \in S : \A y \in T : a[x][y] \in Int /\ b[y][x] = a[x][y]
    /\ \A x \in S : row[x] = Sum(a[x], T)
    /\ \A y \in T : col[y] = Sum(b[y], S)

\* A table added up by rows comes to what it does by columns.
LEMMA SumSwaps ==
  ASSUME NEW S, NEW T, NEW a, NEW b, NEW row, NEW col, Table(S, T, a, b, row, col)
  PROVE  Sum(row, S) = Sum(col, T)
<1>0. /\ IsFiniteSet(S) /\ IsFiniteSet(T)
      /\ \A x \in S : \A y \in T : a[x][y] \in Int /\ b[y][x] = a[x][y]
      /\ \A x \in S : row[x] = Sum(a[x], T)
      /\ \A y \in T : col[y] = Sum(b[y], S)
  BY DEF Table
<1> USE <1>0
<1> DEFINE rows(U) == [x \in S |-> Sum(a[x], U)]
           P == {U \in SUBSET T : Sum(rows(U), S) = Sum(col, U)}
<1>1. ASSUME NEW x \in S
      PROVE  /\ Sum(a[x], {}) = 0
             /\ \A U \in SUBSET T : Sum(a[x], U) \in Int
             /\ \A U \in SUBSET T : \A y \in U : Sum(a[x], U) = a[x][y] + Sum(a[x], U \ {y})
  <2>1. \A y \in T : a[x][y] \in Int
    OBVIOUS
  <2>2. IsFiniteSet(T)
    OBVIOUS
  <2> QED BY ONLY <2>1, <2>2, Sums
<1>2. \A y \in T : col[y] = Sum(b[y], S) /\ col[y] \in Int
  <2> SUFFICES ASSUME NEW y \in T PROVE Sum(b[y], S) \in Int
    OBVIOUS
  <2>1. \A x \in S : b[y][x] \in Int
    OBVIOUS
  <2> QED BY <2>1, SumIsInt
<1>3. /\ Sum(col, {}) = 0
      /\ \A U \in SUBSET T : \A y \in U : Sum(col, U) = col[y] + Sum(col, U \ {y})
  <2>1. \A y \in T : col[y] \in Int
    BY <1>2
  <2>2. IsFiniteSet(T)
    OBVIOUS
  <2> QED BY ONLY <2>1, <2>2, Sums
<1>4. {} \in P
  <2>1. \A x \in S : rows({})[x] = 0
    BY <1>1
  <2>2. Sum(rows({}), S) = 0
    <3> HIDE DEF rows
    <3> QED BY <2>1, SumOfZeros
  <2> QED BY <1>3, <2>2
<1>5. ASSUME NEW U \in SUBSET T, NEW y \in U, U \ {y} \in P PROVE U \in P
  <2>1. U \ {y} \in SUBSET T /\ y \in T
    OBVIOUS
  <2>2. ASSUME NEW x \in S
        PROVE  /\ b[y][x] \in Int /\ rows(U \ {y})[x] \in Int
               /\ rows(U)[x] = b[y][x] + rows(U \ {y})[x]
    <3>1. Sum(a[x], U) = a[x][y] + Sum(a[x], U \ {y}) /\ Sum(a[x], U \ {y}) \in Int
      BY ONLY <1>1, <2>1, U \in SUBSET T, y \in U, x \in S
    <3>2. a[x][y] \in Int /\ b[y][x] = a[x][y]
      BY <2>1
    <3>3. rows(U)[x] = Sum(a[x], U) /\ rows(U \ {y})[x] = Sum(a[x], U \ {y})
      OBVIOUS
    <3> HIDE DEF rows
    <3> QED BY ONLY <3>1, <3>2, <3>3
  <2>3. Sum(rows(U \ {y}), S) = Sum(col, U \ {y})
    BY <1>5
  <2>4. Sum(col, U) = col[y] + Sum(col, U \ {y})
    BY <1>3
  <2>5. col[y] = Sum(b[y], S)
    BY <1>2, <2>1
  <2> DEFINE f == b[y]
             k == rows(U \ {y})
             h == rows(U)
  <2>6. \A x \in S : f[x] \in Int /\ k[x] \in Int /\ h[x] = f[x] + k[x]
    BY <2>2
  <2> HIDE DEF f, k, h
  <2>7. Sum(h, S) = Sum(f, S) + Sum(k, S)
    BY ONLY <2>6, <1>0, SumPlus
  <2>8. Sum(rows(U), S) = Sum(col, U)
    <3> HIDE DEF rows
    <3> QED BY <2>3, <2>4, <2>5, <2>7 DEF f, k, h
  <2> HIDE DEF rows
  <2> QED BY <2>8
<1>6. T \in P
  <2>1. P \in SUBSET SUBSET T
    OBVIOUS
  <2> HIDE DEF P
  <2> QED BY <1>4, <1>5, <2>1, PartInduction
<1>7. Sum(rows(T), S) = Sum(col, T)
  <2> HIDE DEF rows
  <2> QED BY <1>6
<1>8. \A x \in S : row[x] = rows(T)[x]
  OBVIOUS
<1> HIDE DEF rows, P
<1> QED BY <1>7, <1>8, SumAgrees

\* What a settled sale is made of.
LEMMA SettledFigures ==
  ASSUME NEW sale, SettledSale(sale), NEW t, t = Totals(sale)
  PROVE  /\ t.net \in Int /\ t.tax \in Int /\ t.total \in Int /\ t.discount \in Int
         /\ t.net + t.tax = t.total
<1>1. LET c == Calculate(Charged(sale))
      IN /\ OrderAddsUp(Charged(sale), c)
         /\ c.net \in Int /\ c.tax \in Int /\ c.total \in Int /\ c.discount \in Int
  BY CalculateAddsUp DEF SettledSale
<1>2. t = Calculate(Charged(sale))
  BY DEF Totals
<1>3. OrderAddsUp(Charged(sale), t)
  BY <1>1, <1>2
<1>4. t.net + t.tax = t.total
  BY <1>3 DEF OrderAddsUp
<1> QED BY <1>1, <1>2, <1>4

\* What a sale's tenders come to.
Tendered(sale) == [i \in DOMAIN sale.tenders |-> sale.tenders[i].amount]
With(sale, method) == {i \in DOMAIN sale.tenders : sale.tenders[i].method = method}

LEMMA TakenWith ==
  ASSUME NEW sale, SettledSale(sale), NEW method
  PROVE  /\ IsFiniteSet(DOMAIN sale.tenders) /\ IsFiniteSet(With(sale, method))
         /\ With(sale, method) \in SUBSET DOMAIN sale.tenders
         /\ Taken(sale, method) = Sum(Tendered(sale), With(sale, method))
         /\ Taken(sale, method) \in Int
<1> DEFINE D == DOMAIN sale.tenders
           f == Tendered(sale)
           U == With(sale, method)
           h == [i \in D |-> IF sale.tenders[i].method = method THEN sale.tenders[i].amount ELSE 0]
<1>1. IsFiniteSet(D)
  BY ListDomain DEF SettledSale
<1>2. U \in SUBSET D /\ IsFiniteSet(U)
  <2>1. U \in SUBSET D
    BY DEF With
  <2> QED BY <1>1, <2>1, FS_Subset
<1>3. \A i \in D : f[i] \in Int
  BY DEF Tendered, SettledSale
<1>4. \A i \in D : h[i] = IF i \in U THEN f[i] ELSE 0
  BY DEF With, Tendered
<1>5. Taken(sale, method) = Sum(h, D)
  BY TrySumIsSum DEF Taken
<1> HIDE DEF D, f, U, h
<1>6. Sum(h, D) = Sum(f, U)
  BY <1>1, <1>2, <1>3, <1>4, SumPicked
<1>7. Sum(f, U) \in Int
  <2>1. \A i \in U : f[i] \in Int
    BY <1>2, <1>3
  <2> QED BY <1>2, <2>1, SumIsInt
<1> QED BY <1>1, <1>2, <1>5, <1>6, <1>7 DEF D, f, U

\* A method's row has what was tendered with it, and the cash row has the
\* change off it.
LEMMA RowOfMethod ==
  ASSUME NEW sale, SettledSale(sale), ChangeFromOneTender(sale), NEW method
  PROVE  /\ MethodTotal(sale, method)
              = Taken(sale, method) + (IF method = "cash" THEN -sale.change ELSE 0)
         /\ MethodTotal(sale, method) \in Int
         /\ method \notin Methods(sale) => Taken(sale, method) = 0
         /\ "cash" \notin Methods(sale) => sale.change = 0
<1>1. Taken(sale, method) \in Int /\ sale.change \in Int
  BY TakenWith DEF SettledSale
<1>2. MethodTotal(sale, method) = Taken(sale, method) + (IF method = "cash" THEN -sale.change ELSE 0)
  <2>1. CASE method = "cash"
    <3> DEFINE n == Cardinality(CashTenders(sale))
    <3>1. CashTenders(sale) = {i \in DOMAIN sale.tenders : sale.tenders[i].method = method}
      BY <2>1 DEF CashTenders, AcceptsOvertender
    <3>2. MethodTotal(sale, method) = Taken(sale, method) - sale.change * n
      BY <2>1, <3>1 DEF MethodTotal, AcceptsOvertender
    <3>3. n \in Nat
      <4>1. IsFiniteSet(With(sale, "cash"))
        BY TakenWith
      <4>2. CashTenders(sale) = With(sale, "cash")
        BY DEF CashTenders, AcceptsOvertender, With
      <4> QED BY <4>1, <4>2, FS_CardinalityType
    <3>4. sale.change = 0 \/ n = 1
      BY DEF ChangeFromOneTender
    <3> HIDE DEF n
    <3>5. sale.change * n = sale.change
      BY <1>1, <3>3, <3>4
    <3> QED BY <1>1, <2>1, <3>2, <3>5
  <2>2. CASE method # "cash"
    BY <1>1, <2>2 DEF MethodTotal, AcceptsOvertender
  <2> QED BY <2>1, <2>2
<1>3. ASSUME method \notin Methods(sale) PROVE Taken(sale, method) = 0
  <2>1. With(sale, method) = {}
    BY <1>3 DEF With, Methods
  <2>2. Sum(Tendered(sale), {}) = 0
    <3>1. \A x \in {} : Tendered(sale)[x] \in Int
      OBVIOUS
    <3> QED BY <3>1, FS_EmptySet, Sums
  <2> QED BY <2>1, <2>2, TakenWith
<1>4. ASSUME "cash" \notin Methods(sale) PROVE sale.change = 0
  <2>1. CashTenders(sale) = {}
    BY <1>4 DEF CashTenders, AcceptsOvertender, Methods
  <2> QED BY <2>1, FS_EmptySet DEF ChangeFromOneTender
<1> QED BY <1>1, <1>2, <1>3, <1>4

\* Over all methods, a sale's rows come to what it came to.
LEMMA SaleByMethod ==
  ASSUME NEW sale, SettledSale(sale), ChangeFromOneTender(sale),
         NEW M, IsFiniteSet(M), Methods(sale) \subseteq M,
         NEW d, \A m \in M : d[m] = MethodTotal(sale, m)
  PROVE  Sum(d, M) = Totals(sale).total
<1> DEFINE D == DOMAIN sale.tenders
           f == Tendered(sale)
           taken == [m \in M |-> Taken(sale, m)]
           part == [m \in M |-> With(sale, m)]
           change == [m \in M |-> -sale.change]
           off == [m \in M |-> IF m \in M \cap {"cash"} THEN change[m] ELSE 0]
<1>1. IsFiniteSet(D) /\ \A i \in D : f[i] \in Int
  BY TakenWith DEF Tendered, SettledSale
<1>2. sale.change \in Int /\ -sale.change \in Int
  BY DEF SettledSale
<1>3. Sum(taken, M) = Sum(f, D)
  <2>1. \A m \in M : part[m] \in SUBSET D /\ taken[m] = Sum(f, part[m])
    BY TakenWith
  <2>2. \A m, n \in M : m # n => part[m] \cap part[n] = {}
    BY DEF With
  <2>3. \A i \in D : \E m \in M : i \in part[m]
    BY DEF With, Methods
  <2> HIDE DEF D, f, taken, part
  <2>4. Heaps(D, f, M, part, taken)
    BY <1>1, <2>1, <2>2, <2>3 DEF Heaps
  <2> QED BY <2>4, SumHeaps
<1>4. Sum(f, D) = Totals(sale).total + sale.change
  <2>1. TrySum(f) = Totals(sale).total + sale.change
    BY DEF SettledSale, Tendered
  <2>2. TrySum(f) = Sum(f, DOMAIN f) /\ DOMAIN f = D
    BY TrySumIsSum DEF Tendered
  <2> HIDE DEF f, D
  <2> QED BY <2>1, <2>2
<1>5. Sum(off, M) = -sale.change
  <2>1. \A m \in M : change[m] \in Int /\ change[m] = -sale.change
    BY <1>2
  <2>2. \A m \in M : off[m] = IF m \in M \cap {"cash"} THEN change[m] ELSE 0
    OBVIOUS
  <2> HIDE DEF change, off
  <2>3. Sum(off, M) = Sum(change, M \cap {"cash"})
    BY <2>1, <2>2, SumPicked
  <2>4. CASE "cash" \in M
    <3>1. M \cap {"cash"} = {"cash"} /\ change["cash"] = -sale.change
      BY <2>1, <2>4
    <3>2. Sum(change, {"cash"}) = -sale.change
      BY <1>2, <3>1, SumOfOne, Zenon
    <3> QED BY <2>3, <3>1, <3>2
  <2>5. CASE "cash" \notin M
    <3>1. M \cap {"cash"} = {} /\ sale.change = 0
      BY <2>5, RowOfMethod
    <3>2. Sum(change, {}) = 0
      BY <2>1, Sums
    <3> QED BY <2>3, <3>1, <3>2
  <2> QED BY <2>4, <2>5
<1>6. \A m \in M : taken[m] \in Int /\ off[m] \in Int /\ d[m] = taken[m] + off[m]
  <2> SUFFICES ASSUME NEW m \in M
               PROVE  taken[m] \in Int /\ off[m] \in Int /\ d[m] = taken[m] + off[m]
    OBVIOUS
  <2>1. taken[m] = Taken(sale, m) /\ taken[m] \in Int
    BY TakenWith
  <2>2. off[m] = IF m = "cash" THEN -sale.change ELSE 0
    OBVIOUS
  <2>3. d[m] = Taken(sale, m) + (IF m = "cash" THEN -sale.change ELSE 0)
    BY RowOfMethod
  <2> HIDE DEF taken, off
  <2> QED BY <1>2, <2>1, <2>2, <2>3
<1> HIDE DEF D, f, taken, part, off
<1>7. Sum(d, M) = Sum(taken, M) + Sum(off, M)
  BY <1>6, SumPlus
<1>8. Totals(sale).total \in Int
  BY SettledFigures
<1> QED BY <1>2, <1>3, <1>4, <1>5, <1>7, <1>8

\* Sales, one after the other, each as it settled.
Settled(sales) ==
    sales \in Seq(Range(sales)) /\ \A i \in DOMAIN sales : SettledSale(sales[i])

FigureName == {"net", "tax", "total", "discount"}

LEMMA SalesFigures ==
  ASSUME NEW sales, Settled(sales)
  PROVE  /\ IsFiniteSet(DOMAIN sales) /\ DOMAIN sales = 1 .. Len(sales) /\ Len(sales) \in Nat
         /\ Cardinality(DOMAIN sales) = Len(sales)
         /\ \A field \in FigureName :
               /\ \A i \in DOMAIN sales : Figures(sales, field)[i] \in Int
               /\ TrySum(Figures(sales, field)) = Sum(Figures(sales, field), DOMAIN sales)
               /\ Sum(Figures(sales, field), DOMAIN sales) \in Int
         /\ \A i \in DOMAIN sales :
               Figures(sales, "total")[i] = Figures(sales, "net")[i] + Figures(sales, "tax")[i]
<1>1. IsFiniteSet(DOMAIN sales) /\ DOMAIN sales = 1 .. Len(sales) /\ Len(sales) \in Nat
  <2>1. sales \in Seq(Range(sales))
    BY DEF Settled
  <2> QED BY <2>1, ListDomain
<1>2. Cardinality(DOMAIN sales) = Len(sales)
  <2> DEFINE n == Len(sales)
  <2>1. n \in Nat /\ DOMAIN sales = 1 .. n
    BY <1>1
  <2> HIDE DEF n
  <2>2. Cardinality(1 .. n) = IF 1 > n THEN 0 ELSE n - 1 + 1
    BY <2>1, FS_Interval
  <2> QED BY <2>1, <2>2 DEF n
<1>3. ASSUME NEW i \in DOMAIN sales
      PROVE  /\ \A field \in FigureName : Figures(sales, field)[i] \in Int
             /\ Figures(sales, "total")[i] = Figures(sales, "net")[i] + Figures(sales, "tax")[i]
  <2> DEFINE t == Totals(sales[i])
  <2>1. /\ t.net \in Int /\ t.tax \in Int /\ t.total \in Int /\ t.discount \in Int
        /\ t.net + t.tax = t.total
    BY SettledFigures DEF Settled
  <2>2. \A field : Figures(sales, field)[i] = t[field]
    BY DEF Figures
  <2> HIDE DEF t
  <2> QED BY <2>1, <2>2 DEF FigureName
<1>4. ASSUME NEW field \in FigureName
      PROVE  /\ TrySum(Figures(sales, field)) = Sum(Figures(sales, field), DOMAIN sales)
             /\ Sum(Figures(sales, field), DOMAIN sales) \in Int
  <2> DEFINE f == Figures(sales, field)
  <2>1. DOMAIN f = DOMAIN sales
    BY DEF Figures
  <2>2. \A i \in DOMAIN sales : f[i] \in Int
    BY <1>3
  <2> HIDE DEF f
  <2>3. TrySum(f) = Sum(f, DOMAIN sales)
    BY <2>1, TrySumIsSum
  <2>4. Sum(f, DOMAIN sales) \in Int
    BY <1>1, <2>2, SumIsInt
  <2> QED BY <2>3, <2>4 DEF f
<1> QED BY <1>1, <1>2, <1>3, <1>4

\* The day's own figures, and the average of its sales.
LEMMA DayAddsUp ==
  ASSUME NEW sales, Settled(sales), NEW day, day = Day(sales)
  PROVE  /\ day.net + day.tax = day.takings
         /\ Abs(day.takings - day.average * day.sales) <= day.sales
<1> DEFINE D == DOMAIN sales
           total == Figures(sales, "total")
           net == Figures(sales, "net")
           tax == Figures(sales, "tax")
           n == Len(sales)
           T == TrySum(total)
<1>1. /\ day.net = TrySum(net) /\ day.tax = TrySum(tax) /\ day.takings = T /\ day.sales = n
      /\ day.average = IF sales = << >> THEN 0 ELSE InParts(T, n)[1]
  BY DEF Day
<1>2. /\ IsFiniteSet(D) /\ D = 1 .. n /\ n \in Nat /\ Cardinality(D) = n
      /\ \A i \in D : net[i] \in Int /\ tax[i] \in Int /\ total[i] = net[i] + tax[i]
      /\ TrySum(net) = Sum(net, D) /\ TrySum(tax) = Sum(tax, D) /\ T = Sum(total, D)
      /\ T \in Int
  BY SalesFigures DEF FigureName
<1> HIDE DEF D, total, net, tax, n, T
<1>3. Sum(total, D) = Sum(net, D) + Sum(tax, D)
  <2>1. \A i \in D : net[i] \in Int /\ tax[i] \in Int /\ total[i] = net[i] + tax[i]
    BY <1>2
  <2> QED BY ONLY <2>1, <1>2, SumPlus
<1>4. ASSUME sales = << >> PROVE T = 0 /\ n = 0
  <2>1. n = 0 /\ D = {}
    BY <1>2, <1>4 DEF n
  <2>2. \A x \in {} : total[x] = 0
    OBVIOUS
  <2>3. Sum(total, {}) = 0
    BY <2>2, FS_EmptySet, SumOfZeros
  <2> QED BY <1>2, <2>1, <2>3
<1>5. ASSUME sales # << >> PROVE InParts(T, n)[1] \in Int /\ Abs(T - InParts(T, n)[1] * n) < n
  <2> DEFINE ones == [i \in 1 .. n |-> 1]
  <2>1. n > 0
    BY <1>2, <1>5 DEF n, D, Settled
  <2>2. ones \in Seq(Nat) /\ DOMAIN ones = 1 .. n /\ \A i \in 1 .. n : ones[i] = 1
    BY <1>2
  <2>3. InParts(T, n) = Allocate(T, ones)
    BY DEF InParts
  <2> HIDE DEF ones
  <2>4. TrySum(ones) = n
    <3>1. \A i \in D : ones[i] = IF i \in D THEN 1 ELSE 0
      BY <1>2, <2>2
    <3>2. Sum(ones, D) = Cardinality(D)
      BY <1>2, <3>1, SumCounts
    <3> QED BY <1>2, <2>2, <3>2, TrySumIsSum
  <2>5. Weighs(ones) /\ 1 \in DOMAIN ones
    BY <1>2, <2>1, <2>2, <2>4 DEF Weighs
  <2> DEFINE parts == Allocate(T, ones)
  <2>6. parts \in [DOMAIN ones -> Int] /\ Near(parts[1], T, ones[1], n)
    BY <1>2, <2>2, <2>4, <2>5, AllocateSplits
  <2>7. ones[1] = 1 /\ parts[1] \in Int
    BY <2>2, <2>5, <2>6
  <2> DEFINE p == parts[1]
  <2>8. Abs(p * n - T * 1) < n
    BY <2>6, <2>7 DEF Near
  <2>9. p \in Int /\ p * n \in Int
    BY <1>2, <2>7
  <2> HIDE DEF p
  <2>10. Abs(T - p * n) < n
    BY <1>2, <2>8, <2>9 DEF Abs
  <2> QED BY <2>3, <2>9, <2>10 DEF p
<1>6. Abs(day.takings - day.average * day.sales) <= day.sales
  <2>1. CASE sales = << >>
    BY <1>1, <1>4, <2>1 DEF Abs
  <2>2. CASE sales # << >>
    <3> DEFINE d == Abs(T - InParts(T, n)[1] * n)
    <3>1. d \in Int /\ d < n
      BY <1>2, <1>5, <2>2 DEF Abs
    <3> QED BY <1>1, <1>2, <2>2, <3>1
  <2> QED BY <2>1, <2>2
<1> QED BY <1>1, <1>2, <1>3, <1>6

\* Added up cashier by cashier, sales come to what they did.
LEMMA CashiersAddUp ==
  ASSUME NEW sales, Settled(sales), NEW f, \A i \in DOMAIN sales : f[i] \in Int,
         NEW rows, DOMAIN rows = {sales[i].by : i \in DOMAIN sales}, NEW field,
         \A who \in DOMAIN rows : rows[who][field] = Sum(f, OpenedBy(sales, who))
  PROVE  Told(rows, field) = Sum(f, DOMAIN sales)
<1> DEFINE D == DOMAIN sales
           K == DOMAIN rows
           part == [who \in K |-> OpenedBy(sales, who)]
           d == [who \in K |-> rows[who][field]]
<1>1. IsFiniteSet(D) /\ \A i \in D : f[i] \in Int
  BY SalesFigures
<1>2. IsFiniteSet(K)
  <2> DEFINE key == [i \in D |-> sales[i].by]
  <2>1. K = {key[i] : i \in D}
    OBVIOUS
  <2> HIDE DEF key, K, D
  <2> QED BY <1>1, <2>1, FiniteImage
<1>3. \A who \in K : part[who] \in SUBSET D /\ d[who] = Sum(f, part[who])
  BY DEF OpenedBy
<1>4. /\ \A i \in D : \E who \in K : i \in part[who]
      /\ \A p, q \in K : p # q => part[p] \cap part[q] = {}
  <2>1. \A who \in K : \A i \in D : i \in part[who] <=> sales[i].by = who
    BY DEF OpenedBy
  <2>2. \A i \in D : sales[i].by \in K
    OBVIOUS
  <2> HIDE DEF K, D, part
  <2> QED BY <1>3, <2>1, <2>2
<1>5. Told(rows, field) = Sum(d, K)
  BY TrySumIsSum DEF Told
<1> HIDE DEF D, K, part, d
<1>6. Heaps(D, f, K, part, d)
  BY <1>1, <1>2, <1>3, <1>4 DEF Heaps
<1> QED BY <1>5, <1>6, SumHeaps DEF D

\* Shifts, one after the other.
InTurn(shifts) ==
    /\ shifts \in Seq(Range(shifts)) /\ shifts # << >> /\ Consecutive(shifts)
    /\ \A n \in DOMAIN shifts : shifts[n].float \in Int /\ shifts[n].movements \in Seq(Int)

\* Of such shifts, each moment is in just one.
LEMMA ShiftsCover ==
  ASSUME NEW shifts, InTurn(shifts), NEW t \in Nat
  PROVE  /\ \E n \in DOMAIN shifts : Covers(shifts[n], t)
         /\ \A m, n \in DOMAIN shifts :
               m # n => ~(Covers(shifts[m], t) /\ Covers(shifts[n], t))
<1> DEFINE N == Len(shifts)
           from == [n \in 1 .. N |-> shifts[n].from]
           until == [n \in 1 .. N |-> shifts[n].until]
<1>1. DOMAIN shifts = 1 .. N /\ N \in Nat \ {0}
  BY DEF InTurn
<1>2. /\ from[1] = 0 /\ until[N] = -1
      /\ \A n \in 1 .. N - 1 : until[n] \in Nat /\ from[n] <= until[n] /\ from[n + 1] = until[n] + 1
  <2>1. 1 \in 1 .. N /\ N \in 1 .. N /\ \A n \in 1 .. N - 1 : n \in 1 .. N /\ n + 1 \in 1 .. N
    BY <1>1
  <2> QED BY <1>1, <2>1 DEF InTurn, Consecutive, StillOpen
<1>3. \A n \in 1 .. N : Covers(shifts[n], t) <=> from[n] <= t /\ (until[n] = -1 \/ t <= until[n])
  BY DEF Covers, StillOpen
<1> HIDE DEF N, from, until
<1>4. \A n \in 1 .. N : from[n] \in Nat
  <2> SUFFICES ASSUME NEW n \in 1 .. N PROVE from[n] \in Nat
    OBVIOUS
  <2>1. CASE n = 1
    BY <1>2, <2>1
  <2>2. CASE n # 1
    <3>1. n - 1 \in 1 .. N - 1 /\ (n - 1) + 1 = n
      BY <1>1, <2>2
    <3> QED BY <1>2, <3>1
  <2> QED BY <2>1, <2>2
<1>5. \E n \in 1 .. N : Covers(shifts[n], t)
  <2> SUFFICES ASSUME \A n \in 1 .. N : ~Covers(shifts[n], t) PROVE FALSE
    OBVIOUS
  <2> DEFINE P == {k \in Nat : k < N => from[k + 1] <= t}
  <2>1. 0 \in P
    BY <1>2
  <2>2. ASSUME NEW k \in P PROVE k + 1 \in P
    <3> SUFFICES ASSUME k + 1 < N PROVE from[(k + 1) + 1] <= t
      OBVIOUS
    <3>1. k \in Nat /\ k + 1 \in 1 .. N - 1 /\ k + 1 \in 1 .. N /\ from[k + 1] <= t
      BY <1>1
    <3>2. t > until[k + 1] /\ until[k + 1] \in Nat
      BY <1>2, <1>3, <3>1
    <3>3. from[(k + 1) + 1] = until[k + 1] + 1
      BY <1>2, <3>1
    <3> QED BY <3>2, <3>3
  <2>3. P \in SUBSET Nat /\ N - 1 \in Nat
    BY <1>1
  <2>4. N - 1 \in P
    <3> HIDE DEF P
    <3> QED BY <2>1, <2>2, <2>3, EveryNumber
  <2>5. from[N] <= t /\ N \in 1 .. N
    BY <1>1, <2>4
  <2> QED BY <1>2, <1>3, <2>5
<1>6. ASSUME NEW m \in 1 .. N, NEW n \in 1 .. N, m < n
      PROVE  until[m] \in Nat /\ until[m] < from[n]
  <2> DEFINE P == {k \in Nat : m + k + 1 <= N => until[m] < from[m + k + 1]}
  <2>1. m \in 1 .. N - 1 /\ until[m] \in Nat
    BY <1>1, <1>2, <1>6
  <2>2. 0 \in P
    <3>1. from[m + 1] = until[m] + 1 /\ m + 0 + 1 = m + 1
      BY <1>2, <2>1
    <3> QED BY <2>1, <3>1
  <2>3. ASSUME NEW k \in P PROVE k + 1 \in P
    <3> SUFFICES ASSUME m + (k + 1) + 1 <= N PROVE until[m] < from[m + (k + 1) + 1]
      OBVIOUS
    <3> DEFINE j == m + k + 1
    <3>1. k \in Nat /\ j \in 1 .. N - 1 /\ j \in 1 .. N /\ m + (k + 1) + 1 = j + 1 /\ until[m] < from[j]
      BY <1>1
    <3> HIDE DEF j
    <3>2. from[j] <= until[j] /\ from[j + 1] = until[j] + 1 /\ until[j] \in Nat /\ from[j] \in Nat
      BY <1>2, <1>4, <3>1
    <3>3. until[m] < from[j + 1]
      BY <2>1, <3>1, <3>2
    <3> QED BY <3>1, <3>3
  <2>4. P \in SUBSET Nat /\ n - m - 1 \in Nat /\ m + (n - m - 1) + 1 = n
    BY <1>6
  <2>5. n - m - 1 \in P
    <3> HIDE DEF P
    <3> QED BY <2>2, <2>3, <2>4, EveryNumber
  <2>6. until[m] < from[m + (n - m - 1) + 1]
    BY <2>4, <2>5
  <2> QED BY <2>1, <2>4, <2>6
<1>7. ASSUME NEW m \in 1 .. N, NEW n \in 1 .. N, m < n
      PROVE  ~(Covers(shifts[m], t) /\ Covers(shifts[n], t))
  <2>1. until[m] \in Nat /\ until[m] < from[n] /\ from[n] \in Nat
    BY <1>4, <1>6, <1>7
  <2> QED BY <1>3, <2>1
<1>8. \A m, n \in 1 .. N : m # n => m < n \/ n < m
  BY <1>1
<1> QED BY <1>1, <1>5, <1>7, <1>8

\* Added up shift by shift, sales come to what they did.
LEMMA ShiftsAddUp ==
  ASSUME NEW sales, Settled(sales), NEW shifts, InTurn(shifts),
         NEW f, \A i \in DOMAIN sales : f[i] \in Int,
         NEW reports, DOMAIN reports = DOMAIN shifts, NEW field,
         \A n \in DOMAIN shifts : reports[n][field] = Sum(f, SettledIn(shifts[n], sales))
  PROVE  Told(reports, field) = Sum(f, DOMAIN sales)
<1> DEFINE D == DOMAIN sales
           I == DOMAIN shifts
           part == [n \in I |-> SettledIn(shifts[n], sales)]
           d == [n \in I |-> reports[n][field]]
<1>1. IsFiniteSet(D) /\ \A i \in D : f[i] \in Int
  BY SalesFigures
<1>2. IsFiniteSet(I)
  BY ListDomain DEF InTurn
<1>3. \A n \in I : part[n] \in SUBSET D /\ d[n] = Sum(f, part[n])
  BY DEF SettledIn
<1>4. \A i \in D : sales[i].at \in Nat
  BY DEF Settled, SettledSale
<1>5. \A i \in D : \E n \in I : i \in part[n]
  BY <1>4, ShiftsCover DEF SettledIn
<1>6. \A m, n \in I : m # n => part[m] \cap part[n] = {}
  BY <1>4, ShiftsCover DEF SettledIn
<1>7. Told(reports, field) = Sum(d, I)
  BY TrySumIsSum DEF Told
<1> HIDE DEF D, I, part, d
<1>8. Heaps(D, f, I, part, d)
  BY <1>1, <1>2, <1>3, <1>5, <1>6 DEF Heaps
<1> QED BY <1>7, <1>8, SumHeaps DEF D

\* The drawer takes whole amounts.
LEMMA CashFlows ==
  ASSUME NEW sales, Settled(sales)
  PROVE  \A i \in DOMAIN sales : DrawerCash(sales)[i] = NetCash(sales[i]) /\ NetCash(sales[i]) \in Int
<1> SUFFICES ASSUME NEW i \in DOMAIN sales
             PROVE  DrawerCash(sales)[i] = NetCash(sales[i]) /\ NetCash(sales[i]) \in Int
  OBVIOUS
<1>1. SettledSale(sales[i])
  BY DEF Settled
<1>2. Taken(sales[i], "cash") \in Int /\ sales[i].change \in Int
  BY <1>1, TakenWith DEF SettledSale
<1> QED BY <1>2 DEF DrawerCash, NetCash

LEMMA MovementsComeTo ==
  ASSUME NEW shifts, InTurn(shifts), NEW n \in DOMAIN shifts
  PROVE  NetMovements(shifts[n]) \in Int /\ shifts[n].float \in Int
<1> DEFINE moves == shifts[n].movements
<1>1. moves \in Seq(Int) /\ shifts[n].float \in Int
  BY DEF InTurn
<1>2. NetMovements(shifts[n]) = TrySum(moves)
  BY DEF NetMovements
<1> HIDE DEF moves
<1>3. IsFiniteSet(DOMAIN moves) /\ TrySum(moves) = Sum(moves, DOMAIN moves)
      /\ \A i \in DOMAIN moves : moves[i] \in Int
  BY <1>1, ListDomain
<1>4. Sum(moves, DOMAIN moves) \in Int
  BY <1>3, SumIsInt
<1> QED BY <1>1, <1>2, <1>3, <1>4

\* What the drawers should hold is what they started with, what was sold for
\* cash, and what was put in or taken out.
LEMMA DrawersExpect ==
  ASSUME NEW sales, Settled(sales), NEW shifts, InTurn(shifts),
         NEW reports, reports = [n \in DOMAIN shifts |-> ShiftReport(shifts[n], sales)]
  PROVE  Told(reports, "expected") =
            Told(reports, "cash_from_sales") + Told(shifts, "float")
              + TrySum([n \in DOMAIN shifts |-> NetMovements(shifts[n])])
<1> DEFINE I == DOMAIN shifts
           cash == [n \in I |-> reports[n]["cash_from_sales"]]
           float == [n \in I |-> shifts[n]["float"]]
           moved == [n \in I |-> NetMovements(shifts[n])]
           held == [n \in I |-> float[n] + cash[n]]
           expected == [n \in I |-> reports[n]["expected"]]
<1>1. IsFiniteSet(I)
  <2>1. shifts \in Seq(Range(shifts))
    BY DEF InTurn
  <2> QED BY <2>1, ListDomain
<1>2. ASSUME NEW n \in I
      PROVE  /\ cash[n] \in Int /\ float[n] \in Int /\ moved[n] \in Int
             /\ expected[n] = held[n] + moved[n]
  <2> DEFINE mine == SettledIn(shifts[n], sales)
             c == SumOver(DrawerCash(sales), mine)
  <2>1. c \in Int
    <3>1. mine \in SUBSET DOMAIN sales /\ IsFiniteSet(DOMAIN sales)
      BY SalesFigures DEF SettledIn
    <3>2. IsFiniteSet(mine) /\ \A i \in mine : DrawerCash(sales)[i] \in Int
      BY <3>1, CashFlows, FS_Subset
    <3>3. Sum(DrawerCash(sales), mine) \in Int
      BY <3>2, SumIsInt
    <3> QED BY <3>3 DEF SumOver, Sum
  <2>2. reports[n] = ShiftReport(shifts[n], sales)
    OBVIOUS
  <2>3. cash[n] = c /\ expected[n] = shifts[n].float + c + NetMovements(shifts[n])
    BY <2>2 DEF ShiftReport
  <2>4. moved[n] = NetMovements(shifts[n]) /\ float[n] = shifts[n].float /\ held[n] = float[n] + cash[n]
    OBVIOUS
  <2> HIDE DEF c, mine, moved, float, cash, held, expected
  <2> QED BY <2>1, <2>3, <2>4, MovementsComeTo DEF I
<1>3. \A n \in I : held[n] = float[n] + cash[n]
  OBVIOUS
<1>4. /\ Told(reports, "expected") = Sum(expected, I)
      /\ Told(reports, "cash_from_sales") = Sum(cash, I)
      /\ Told(shifts, "float") = Sum(float, I)
      /\ TrySum(moved) = Sum(moved, I)
  BY TrySumIsSum DEF Told
<1> HIDE DEF I, cash, float, moved, held, expected
<1>5. Sum(held, I) = Sum(float, I) + Sum(cash, I)
  BY <1>1, <1>2, <1>3, SumPlus
<1>6. Sum(expected, I) = Sum(held, I) + Sum(moved, I)
  <2>1. \A n \in I : held[n] \in Int /\ moved[n] \in Int /\ expected[n] = held[n] + moved[n]
    BY <1>2, <1>3
  <2> QED BY ONLY <2>1, <1>1, SumPlus
<1>7. Sum(float, I) \in Int /\ Sum(cash, I) \in Int
  BY <1>1, <1>2, SumIsInt
<1> QED BY <1>4, <1>5, <1>6, <1>7 DEF moved, I

\* The methods sales were paid with.
MethodsOf(sales) == UNION {Methods(sales[i]) : i \in DOMAIN sales}

LEMMA FewMethods ==
  ASSUME NEW sales, Settled(sales)
  PROVE  IsFiniteSet(MethodsOf(sales))
<1> DEFINE ways == [i \in DOMAIN sales |-> Methods(sales[i])]
<1>1. IsFiniteSet({ways[i] : i \in DOMAIN sales})
  <2> HIDE DEF ways
  <2> QED BY SalesFigures, FiniteImage
<1>2. ASSUME NEW i \in DOMAIN sales PROVE IsFiniteSet(ways[i])
  <2> DEFINE tenders == sales[i].tenders
             way == [j \in DOMAIN tenders |-> tenders[j].method]
  <2>1. SettledSale(sales[i])
    BY DEF Settled
  <2>2. IsFiniteSet(DOMAIN tenders)
    BY <2>1, TakenWith
  <2>3. ways[i] = {way[j] : j \in DOMAIN tenders}
    BY DEF Methods
  <2> HIDE DEF ways, way, tenders
  <2> QED BY <2>2, <2>3, FiniteImage
<1>3. MethodsOf(sales) = UNION {ways[i] : i \in DOMAIN sales}
  BY DEF MethodsOf
<1> HIDE DEF ways
<1> QED BY <1>1, <1>2, <1>3, FS_UNION

\* Unless change comes off two cash tenders of one sale, the methods come to
\* what the sales did, and the drawers to what the cash row says.
LEMMA MethodsAddUp ==
  ASSUME NEW sales, Settled(sales), \A i \in DOMAIN sales : ChangeFromOneTender(sales[i])
  PROVE  /\ TrySum(ByPayment(sales)) = TrySum(Figures(sales, "total"))
         /\ Sum(DrawerCash(sales), DOMAIN sales) =
               IF "cash" \in DOMAIN ByPayment(sales) THEN ByPayment(sales)["cash"] ELSE 0
<1> DEFINE D == DOMAIN sales
           M == MethodsOf(sales)
           a == [i \in D |-> [m \in M |-> MethodTotal(sales[i], m)]]
           b == [m \in M |-> PaidWith(sales, m)]
           row == Figures(sales, "total")
           col == ByPayment(sales)
           drawer == DrawerCash(sales)
<1>1. IsFiniteSet(D) /\ IsFiniteSet(M)
  BY SalesFigures, FewMethods
<1>2. DOMAIN col = M /\ \A m \in M : col[m] = Sum(PaidWith(sales, m), D)
  <2>1. col = [m \in M |-> TrySum(PaidWith(sales, m))]
    BY DEF ByPayment, MethodsOf
  <2>2. \A m : DOMAIN PaidWith(sales, m) = D
    BY DEF PaidWith
  <2>3. \A m : TrySum(PaidWith(sales, m)) = Sum(PaidWith(sales, m), D)
    BY <2>2, TrySumIsSum
  <2> HIDE DEF col, M, D
  <2> QED BY <2>1, <2>3
<1>3. ASSUME NEW i \in D
      PROVE  /\ SettledSale(sales[i]) /\ ChangeFromOneTender(sales[i])
             /\ Methods(sales[i]) \subseteq M
             /\ \A m \in M : a[i][m] = MethodTotal(sales[i], m)
             /\ row[i] = Totals(sales[i]).total
             /\ drawer[i] = Taken(sales[i], "cash") - sales[i].change
  BY DEF Settled, MethodsOf, Figures, DrawerCash, NetCash
<1>4. \A i \in D : \A m \in M : a[i][m] \in Int
  BY <1>3, RowOfMethod
<1>5. ASSUME NEW i \in D PROVE row[i] = Sum(a[i], M)
  <2>1. /\ SettledSale(sales[i]) /\ ChangeFromOneTender(sales[i])
        /\ Methods(sales[i]) \subseteq M
        /\ \A m \in M : a[i][m] = MethodTotal(sales[i], m)
    BY <1>3
  <2> HIDE DEF a, M, row
  <2>2. Sum(a[i], M) = Totals(sales[i]).total
    BY <1>1, <2>1, SaleByMethod
  <2> QED BY <1>3, <2>2
<1>6. \A m \in M : \A i \in D : b[m][i] = a[i][m]
  BY DEF PaidWith
<1>7. \A i \in D : drawer[i] = MethodTotal(sales[i], "cash") /\ drawer[i] \in Int
  <2> SUFFICES ASSUME NEW i \in D
               PROVE  drawer[i] = MethodTotal(sales[i], "cash") /\ drawer[i] \in Int
    OBVIOUS
  <2>1. /\ MethodTotal(sales[i], "cash") = Taken(sales[i], "cash") + (-sales[i].change)
        /\ MethodTotal(sales[i], "cash") \in Int
    BY <1>3, RowOfMethod
  <2>2. Taken(sales[i], "cash") \in Int /\ sales[i].change \in Int
    BY <1>3, TakenWith DEF SettledSale
  <2> HIDE DEF drawer
  <2> QED BY <1>3, <2>1, <2>2
<1>8. ASSUME "cash" \in M PROVE Sum(drawer, D) = col["cash"]
  <2>1. \A i \in D : drawer[i] = PaidWith(sales, "cash")[i]
    BY <1>7 DEF PaidWith
  <2> HIDE DEF drawer, D
  <2>2. Sum(drawer, D) = Sum(PaidWith(sales, "cash"), D)
    BY <1>1, <2>1, SumAgrees
  <2> QED BY <1>2, <1>8, <2>2
<1>9. ASSUME "cash" \notin M PROVE Sum(drawer, D) = 0
  <2>1. \A i \in D : drawer[i] = 0
    <3> SUFFICES ASSUME NEW i \in D PROVE drawer[i] = 0
      OBVIOUS
    <3>1. "cash" \notin Methods(sales[i])
      BY <1>3, <1>9
    <3>2. Taken(sales[i], "cash") = 0 /\ sales[i].change = 0
      BY <1>3, <3>1, RowOfMethod
    <3> HIDE DEF drawer
    <3> QED BY <1>3, <3>2
  <2> HIDE DEF drawer, D
  <2> QED BY <1>1, <2>1, SumOfZeros
<1>10. /\ TrySum(col) = Sum(col, M) /\ TrySum(row) = Sum(row, D)
  <2>1. DOMAIN row = D
    BY DEF Figures
  <2> HIDE DEF row, col, D, M
  <2> QED BY <1>2, <2>1, TrySumIsSum
<1>11. \A m \in M : col[m] = Sum(b[m], D)
  BY <1>2
<1> HIDE DEF D, M, a, b, row, col, drawer
<1>12. Sum(row, D) = Sum(col, M)
  <2>1. Table(D, M, a, b, row, col)
    BY <1>1, <1>4, <1>5, <1>6, <1>11 DEF Table
  <2> QED BY <2>1, SumSwaps
<1> QED BY <1>2, <1>8, <1>9, <1>10, <1>12 DEF row, col, drawer, D

\* Day::of and report, over settled sales and shifts in turn.
LEMMA DaysReconcile ==
  ASSUME NEW sales, Settled(sales), NEW shifts, InTurn(shifts),
         NEW day, day = Day(sales),
         NEW reports, reports = [n \in DOMAIN shifts |-> ShiftReport(shifts[n], sales)]
  PROVE  DayReconciles(sales, day, shifts, reports)
<1> DEFINE D == DOMAIN sales
           I == DOMAIN shifts
           total == Figures(sales, "total")
           discount == Figures(sales, "discount")
           drawer == DrawerCash(sales)
           ones == [i \in D |-> 1]
           rows == ByCashier(sales)
<1>1. /\ day.sales = Len(sales) /\ day.takings = TrySum(total) /\ day.discount = TrySum(discount)
      /\ day.by_cashier = rows /\ day.by_payment = ByPayment(sales)
  BY DEF Day
<1>2. /\ IsFiniteSet(D) /\ Cardinality(D) = Len(sales)
      /\ TrySum(total) = Sum(total, D) /\ TrySum(discount) = Sum(discount, D)
      /\ \A i \in D : total[i] \in Int /\ discount[i] \in Int
  BY SalesFigures DEF FigureName
<1>3. \A i \in D : drawer[i] \in Int
  BY CashFlows
<1>4. \A U \in SUBSET D : Sum(ones, U) = Cardinality(U)
  <2> SUFFICES ASSUME NEW U \in SUBSET D PROVE Sum(ones, U) = Cardinality(U)
    OBVIOUS
  <2>1. IsFiniteSet(U) /\ U \in SUBSET U
    BY <1>2, FS_Subset
  <2>2. \A i \in U : ones[i] = IF i \in U THEN 1 ELSE 0
    OBVIOUS
  <2> HIDE DEF ones
  <2> QED BY <2>1, <2>2, SumCounts
<1>5. /\ DOMAIN rows = {sales[i].by : i \in D}
      /\ \A who \in DOMAIN rows :
            LET own == OpenedBy(sales, who)
            IN /\ rows[who]["sales"] = Sum(ones, own)
               /\ rows[who]["takings"] = Sum(total, own)
               /\ rows[who]["discount"] = Sum(discount, own)
  <2> SUFFICES ASSUME NEW who \in {sales[i].by : i \in D}
               PROVE  /\ rows[who]["sales"] = Sum(ones, OpenedBy(sales, who))
                      /\ rows[who]["takings"] = Sum(total, OpenedBy(sales, who))
                      /\ rows[who]["discount"] = Sum(discount, OpenedBy(sales, who))
    BY DEF ByCashier
  <2> DEFINE own == OpenedBy(sales, who)
  <2>1. own \in SUBSET D
    BY DEF OpenedBy
  <2>2. /\ rows[who]["sales"] = Cardinality(own)
        /\ rows[who]["takings"] = SumOver(total, own)
        /\ rows[who]["discount"] = SumOver(discount, own)
    BY DEF ByCashier
  <2>3. \A f : SumOver(f, own) = Sum(f, own)
    BY DEF SumOver, Sum
  <2> HIDE DEF own, rows, total, discount, ones
  <2> QED BY <1>4, <2>1, <2>2, <2>3 DEF own
<1>6. /\ DOMAIN reports = I
      /\ \A n \in I :
            LET mine == SettledIn(shifts[n], sales)
            IN /\ reports[n]["sales"] = Sum(ones, mine)
               /\ reports[n]["takings"] = Sum(total, mine)
               /\ reports[n]["cash_from_sales"] = Sum(drawer, mine)
  <2> SUFFICES ASSUME NEW n \in I
               PROVE  /\ reports[n]["sales"] = Sum(ones, SettledIn(shifts[n], sales))
                      /\ reports[n]["takings"] = Sum(total, SettledIn(shifts[n], sales))
                      /\ reports[n]["cash_from_sales"] = Sum(drawer, SettledIn(shifts[n], sales))
    OBVIOUS
  <2> DEFINE mine == SettledIn(shifts[n], sales)
  <2>1. mine \in SUBSET D
    BY DEF SettledIn
  <2>2. reports[n] = ShiftReport(shifts[n], sales)
    OBVIOUS
  <2>3. /\ reports[n]["sales"] = Cardinality(mine)
        /\ reports[n]["takings"] = SumOver(total, mine)
        /\ reports[n]["cash_from_sales"] = SumOver(drawer, mine)
    BY <2>2 DEF ShiftReport
  <2>4. \A f : SumOver(f, mine) = Sum(f, mine)
    BY DEF SumOver, Sum
  <2> HIDE DEF mine, total, drawer, ones
  <2> QED BY <1>4, <2>1, <2>3, <2>4 DEF mine
<1>7. \A i \in D : ones[i] \in Int
  OBVIOUS
<1>8. Sum(ones, D) = Len(sales)
  <2> HIDE DEF ones
  <2> QED BY <1>2, <1>4
<1> HIDE DEF total, discount, drawer, ones, rows
<1>9. /\ Told(rows, "sales") = Sum(ones, D)
      /\ Told(rows, "takings") = Sum(total, D)
      /\ Told(rows, "discount") = Sum(discount, D)
  BY <1>2, <1>5, <1>7, CashiersAddUp
<1>10. /\ Told(reports, "sales") = Sum(ones, D)
       /\ Told(reports, "takings") = Sum(total, D)
       /\ Told(reports, "cash_from_sales") = Sum(drawer, D)
  BY <1>2, <1>3, <1>6, <1>7, ShiftsAddUp
<1>11. Told(reports, "expected") =
          Told(reports, "cash_from_sales") + Told(shifts, "float")
            + TrySum([n \in DOMAIN shifts |-> NetMovements(shifts[n])])
  BY DrawersExpect
<1>12. ASSUME \A i \in D : ChangeFromOneTender(sales[i])
       PROVE  /\ TrySum(day.by_payment) = day.takings
              /\ Told(reports, "cash_from_sales") =
                    IF "cash" \in DOMAIN day.by_payment THEN day.by_payment["cash"] ELSE 0
  BY <1>1, <1>10, <1>12, MethodsAddUp DEF total, drawer
<1>13. /\ day.net + day.tax = day.takings
       /\ Abs(day.takings - day.average * day.sales) <= day.sales
  BY DayAddsUp
<1>14. /\ Told(day.by_cashier, "sales") = day.sales
       /\ Told(day.by_cashier, "takings") = day.takings
       /\ Told(day.by_cashier, "discount") = day.discount
       /\ Told(reports, "sales") = day.sales /\ Told(reports, "takings") = day.takings
  BY <1>1, <1>2, <1>8, <1>9, <1>10
<1> QED BY <1>11, <1>12, <1>13, <1>14 DEF DayReconciles

LEMMA ClosesAnswered == ASSUME Closes PROVE BooksReconcile'
<1>1. PICK sales \in SaleLists, shifts \in Shifts :
         calc' = [of |-> "day", sales |-> sales, day |-> Day(sales), shifts |-> shifts,
                  reports |-> [n \in DOMAIN shifts |-> ShiftReport(shifts[n], sales)]]
  BY DEF Closes, Answers
<1> DEFINE reports == [n \in DOMAIN shifts |-> ShiftReport(shifts[n], sales)]
<1>2. Settled(sales) /\ InTurn(shifts)
  BY SalesAssumption, ShiftsAssumption DEF Settled, InTurn
<1>3. DayReconciles(sales, Day(sales), shifts, reports)
  BY <1>2, DaysReconcile
<1>4. calc' = [of |-> "day", sales |-> sales, day |-> Day(sales), shifts |-> shifts,
               reports |-> reports]
  BY <1>1
<1> HIDE DEF reports
<1>5. /\ calc'.of = "day" /\ calc'.sales = sales /\ calc'.day = Day(sales)
      /\ calc'.shifts = shifts /\ calc'.reports = reports
  BY <1>4
<1> QED BY <1>3, <1>5 DEF BooksReconcile

\* Whatever was sold, however it was paid and whoever was at the drawer, the
\* day and its shifts tell one story (Day::of, report).
THEOREM BooksAlwaysReconcile == Spec => []BooksReconcile
<1>1. Init => BooksReconcile
  BY DEF Init, None, BooksReconcile
<1>2. ASSUME BooksReconcile, [Next]_calc PROVE BooksReconcile'
  <2>1. CASE UNCHANGED calc
    BY <1>2, <2>1 DEF BooksReconcile
  <2>2. CASE calc'.of \notin {"pick", "oversold", "transfer", "purchase", "day"}
    BY <2>2 DEF BooksReconcile
  <2>3. CASE Picks BY <2>3 DEF Picks, Answers, BooksReconcile
  <2>4. CASE Oversells BY <2>4 DEF Oversells, Answers, BooksReconcile
  <2>5. CASE Transfers BY <2>5 DEF Transfers, Answers, BooksReconcile
  <2>6. CASE Receives BY <2>6 DEF Receives, Answers, BooksReconcile
  <2> QED BY <1>2, <2>1, <2>2, <2>3, <2>4, <2>5, <2>6, Shelves, ClosesAnswered
<1> QED BY <1>1, <1>2, PTL DEF Spec
-----------------------------------------------------------------------------
(***************************************************************************)
(* The receipt.                                                            *)
(***************************************************************************)

\* What a bill comes to.
LEMMA BillFigures ==
  ASSUME NEW sale, ValidBill(sale), NEW t, t = Totals(sale)
  PROVE  /\ t.net \in Int /\ t.tax \in Int /\ t.total \in Int /\ t.discount \in Int
         /\ t.net + t.tax = t.total /\ GroupTax(t.groups) = t.tax
         /\ LinesAddUp(Charged(sale), t)
         /\ Charged(sale).lines = ActiveLines(sale)
<1>1. LET c == Calculate(Charged(sale))
      IN /\ OrderAddsUp(Charged(sale), c) /\ LinesAddUp(Charged(sale), c)
         /\ c.net \in Int /\ c.tax \in Int /\ c.total \in Int /\ c.discount \in Int
  BY CalculateAddsUp DEF ValidBill, SettledSale
<1>2. t = Calculate(Charged(sale))
  BY DEF Totals
<1>3. OrderAddsUp(Charged(sale), t) /\ LinesAddUp(Charged(sale), t)
  BY <1>1, <1>2
<1>4. t.net + t.tax = t.total /\ GroupTax(t.groups) = t.tax
  BY <1>3 DEF OrderAddsUp
<1>5. Charged(sale).lines = ActiveLines(sale)
  BY DEF Charged, ValidBill
<1> QED BY <1>1, <1>2, <1>3, <1>4, <1>5

\* A receipt says what was charged, and that it was paid.
LEMMA ReceiptHolds ==
  ASSUME NEW sale, ValidBill(sale), NEW number
  PROVE  ReceiptAddsUp(Receipt(sale, number))
<1> DEFINE t == Totals(sale)
           r == Receipt(sale, number)
           paid == TrySum([i \in DOMAIN sale.tenders |-> sale.tenders[i].amount])
<1>1. t.total \in Int /\ t.net + t.tax = t.total /\ GroupTax(t.groups) = t.tax
  BY BillFigures
<1>2. paid = t.total + sale.change /\ sale.change \in Nat
  BY DEF ValidBill, SettledSale
<1>3. ChangeDue(sale) = Monus(paid, t.total)
  BY DEF ChangeDue
<1>4. /\ r.net = t.net /\ r.total = t.total /\ r.tax_groups = t.groups
      /\ r.tenders = sale.tenders /\ r.change = ChangeDue(sale)
  BY DEF Receipt
<1> HIDE DEF t, r, paid
<1>5. paid - r.change = r.total
  BY <1>1, <1>2, <1>3, <1>4 DEF Monus
<1>6. TrySum([i \in DOMAIN r.tenders |-> r.tenders[i].amount]) = paid
  <2> DEFINE Of(tenders) == TrySum([i \in DOMAIN tenders |-> tenders[i].amount])
  <2>1. paid = Of(sale.tenders)
    BY DEF paid
  <2> HIDE DEF Of
  <2>2. Of(r.tenders) = paid
    BY <1>4, <2>1
  <2> QED BY <2>2 DEF Of
<1>7. ReceiptAddsUp(r)
  BY <1>1, <1>4, <1>5, <1>6 DEF ReceiptAddsUp
<1> QED BY <1>7 DEF r

-----------------------------------------------------------------------------
(***************************************************************************)
(* Figures as text.                                                        *)
(***************************************************************************)

\* However large, an amount is no wider than the widest.
LEMMA PlacesBounds == ASSUME NEW n PROVE Places(n) \in 1 .. MostPlaces
<1> DEFINE left == CHOOSE g : g = [k \in 0 .. MostPlaces - 1 |->
                                      IF k = 0 THEN n ELSE g[k - 1] \div 10]
           most == MostPlaces - 1
           K == {k \in 1 .. most : left[k] > 0}
<1>1. Places(n) = 1 + Cardinality(K)
  BY DEF Places
<1>2. K \in SUBSET (1 .. most) /\ most \in Nat
  BY DEF MostPlaces
<1> HIDE DEF K, most
<1>3. IsFiniteSet(1 .. most) /\ Cardinality(1 .. most) = most
  BY <1>2, FS_Interval
<1>4. Cardinality(K) \in Nat /\ Cardinality(K) <= most
  BY <1>2, <1>3, FS_Subset, FS_CardinalityType
<1> QED BY <1>1, <1>2, <1>4 DEF MostPlaces, most

\* A sign, the point and two places more.
LEMMA AmountBounds ==
  ASSUME NEW minor
  PROVE  AmountWidth(minor) \in Nat /\ 4 <= AmountWidth(minor) /\ AmountWidth(minor) <= 21
<1>1. Places(Written(minor).major) \in 1 .. 17
  BY PlacesBounds DEF MostPlaces
<1>2. AmountWidth(minor) = Places(Written(minor).major) + 1 + 2 + (IF minor < 0 THEN 1 ELSE 0)
  BY DEF AmountWidth, Exponent
<1> QED BY <1>1, <1>2

\* A quantity has a width.
LEMMA QuantityIsWide == ASSUME NEW milli PROVE QuantityWidth(milli) \in Nat
<1> DEFINE major == Places(Abs(milli) \div MilliPerUnit)
           rest == Abs(milli) % MilliPerUnit
           whole == major + (IF milli <= -MilliPerUnit THEN 1 ELSE 0)
<1>1. major \in Nat
  BY PlacesBounds DEF MostPlaces
<1>2. QuantityWidth(milli) =
         IF rest = 0 THEN whole
         ELSE whole + 1 + (IF rest % 10 # 0 THEN 3 ELSE IF rest % 100 # 0 THEN 2 ELSE 1)
  BY DEF QuantityWidth
<1>3. whole \in Nat
  <2> HIDE DEF major
  <2> QED BY <1>1
<1> HIDE DEF whole, rest
<1> QED BY <1>2, <1>3

\* What is written is read back.
LEMMA WrittenReadsBack == ASSUME NEW n \in Int PROVE ReadBack(Written(n)) = n
<1>1. MinorPerMajor("BDT") = 100
  BY DEF MinorPerMajor, Exponent
<1> DEFINE a == Abs(n)
<1>2. a \in Nat /\ n = (IF n < 0 THEN -1 ELSE 1) * a
  BY DEF Abs
<1>3. a \div 100 \in Nat /\ a % 100 \in Nat /\ a = 100 * (a \div 100) + (a % 100)
  <2> HIDE DEF a
  <2> QED BY <1>2, Divides
<1>4. /\ Written(n).minus = (n < 0)
      /\ Written(n).major = a \div 100 /\ Written(n).rest = a % 100
  BY <1>1 DEF Written
<1>5. ReadBack(Written(n)) = (IF n < 0 THEN -1 ELSE 1) * ((a \div 100) * 100 + (a % 100))
  <2> DEFINE w == Written(n)
  <2>1. (w.minus <=> n < 0) /\ w.major = a \div 100 /\ w.rest = a % 100
    <3> HIDE DEF a
    <3> QED BY <1>4
  <2>2. ReadBack(w) = (IF w.minus THEN -1 ELSE 1) * (w.major * 100 + w.rest)
    BY <1>1, Zenon DEF ReadBack
  <2> HIDE DEF w, a
  <2> QED BY <2>1, <2>2 DEF w
<1> HIDE DEF a
<1>6. (a \div 100) * 100 + (a % 100) = a
  BY <1>3
<1> QED BY <1>2, <1>5, <1>6

\* A row is never longer than the roll is wide, and its amount is never cut.
LEMMA RowFits ==
  ASSUME NEW roll \in DOMAIN PaperWidth, NEW label \in Nat, NEW minor, NEW row,
         row = Row(label, minor)
  PROVE  LET width == PaperWidth[roll]
             laid == Columns(row.label, row.amount, width)
         IN laid.amount = row.amount /\ laid.label + laid.gap + laid.amount <= width
<1> DEFINE width == PaperWidth[roll]
           amount == AmountWidth(minor)
           laid == Columns(label, amount, width)
           room == Monus(width - amount, 1)
<1>1. width \in {32, 48}
  BY DEF PaperWidth
<1>2. amount \in Nat /\ 4 <= amount /\ amount <= 21
  BY AmountBounds
<1>3. row.label = label /\ row.amount = amount
  BY DEF Row
<1> HIDE DEF width, amount
<1>4. room = width - amount - 1 /\ room > 1 /\ room \in Nat /\ amount < width
  BY <1>1, <1>2 DEF Monus
<1>5. CASE label > room
  <2>1. laid = [label |-> Monus(room, 1) + 1, gap |-> 1, amount |-> amount]
    BY <1>1, <1>2, <1>4, <1>5 DEF Columns
  <2>2. Monus(room, 1) = room - 1
    BY <1>4 DEF Monus
  <2> QED BY <1>1, <1>2, <1>3, <1>4, <2>1, <2>2 DEF width
<1>6. CASE ~(label > room)
  <2>1. laid = [label |-> label, gap |-> width - label - amount, amount |-> amount]
    BY <1>1, <1>2, <1>4, <1>6 DEF Columns
  <2> QED BY <1>1, <1>2, <1>3, <1>4, <2>1 DEF width
<1> QED BY <1>5, <1>6

\* No amount of a receipt is cut off the roll.
LEMMA RollAlwaysHolds ==
  ASSUME NEW sale, ValidBill(sale), NEW number, NEW roll \in DOMAIN PaperWidth
  PROVE  RollHolds(Receipt(sale, number), roll)
<1> DEFINE r == Receipt(sale, number)
<1>1. ASSUME NEW row \in RowsOf(r) PROVE \E label \in Nat : \E minor : row = Row(label, minor)
  <2>1. CASE \E l \in Range(r.lines) :
                row = Row(2 + QuantityWidth(l.milli) + 3 + AmountWidth(l.unit_price), l.total)
    <3>1. PICK l \in Range(r.lines) :
                row = Row(2 + QuantityWidth(l.milli) + 3 + AmountWidth(l.unit_price), l.total)
      BY <2>1
    <3>2. 2 + QuantityWidth(l.milli) + 3 + AmountWidth(l.unit_price) \in Nat
      BY QuantityIsWide, AmountBounds
    <3> QED BY <3>1, <3>2
  <2>2. CASE \E g \in r.tax_groups : row = Row(TaxGroupLabel(g.class), g.tax)
    <3>1. \A class : TaxGroupLabel(class) \in Nat
      BY DEF TaxGroupLabel
    <3> QED BY <2>2, <3>1
  <2>3. CASE \E t \in Range(r.tenders) : row = Row(TenderLabel[t.method], t.amount)
    <3>1. PICK t \in Range(r.tenders) : row = Row(TenderLabel[t.method], t.amount)
      BY <2>3
    <3>2. r.tenders = sale.tenders
      BY DEF Receipt
    <3>3. t.method \in DOMAIN TenderLabel
      BY <3>2 DEF Range, ValidBill
    <3>4. TenderLabel[t.method] \in Nat
      BY <3>3 DEF TenderLabel
    <3> QED BY <3>1, <3>4
  <2>4. CASE row \in UnlessNothing(8, -1, r.discount) \cup UnlessNothing(6, 1, r.change)
                     \cup {Row(8, r.net), Row(9, r.total)}
    BY <2>4 DEF UnlessNothing
  <2> HIDE DEF r
  <2> QED BY <2>1, <2>2, <2>3, <2>4 DEF RowsOf
<1> HIDE DEF r
<1>2. \A row \in RowsOf(r) :
         LET width == PaperWidth[roll]
             laid == Columns(row.label, row.amount, width)
         IN laid.amount = row.amount /\ laid.label + laid.gap + laid.amount <= width
  BY <1>1, RowFits
<1> QED BY <1>2 DEF RollHolds, r

-----------------------------------------------------------------------------
(***************************************************************************)
(* The fiscal document.                                                    *)
(***************************************************************************)

\* Where nothing is named missing, nothing is.
LEMMA NothingMissing ==
  ASSUME NEW needs, DOMAIN needs \in SUBSET Nat,
         \A i \in DOMAIN needs : needs[i].what # "nothing",
         FirstMissing(needs) = "nothing"
  PROVE  \A i \in DOMAIN needs : needs[i].given
<1> DEFINE missing == {i \in DOMAIN needs : ~needs[i].given}
<1>1. ASSUME missing # {} PROVE FALSE
  <2>1. missing \in SUBSET Nat
    OBVIOUS
  <2>2. \E i \in missing : \A j \in missing : i <= j
    <3> HIDE DEF missing
    <3> QED BY <1>1, <2>1, Counting!LeastNumber
  <2>3. Min(missing) \in missing
    <3> HIDE DEF missing
    <3> QED BY <2>2, Zenon DEF Min
  <2>4. FirstMissing(needs) = needs[Min(missing)].what
    BY <1>1, Zenon DEF FirstMissing
  <2>5. Min(missing) \in DOMAIN needs
    BY <2>3
  <2> HIDE DEF missing
  <2> QED BY <2>4, <2>5
<1> QED BY <1>1

\* Of five needs the last is met too.
LEMMA LastIsGiven ==
  ASSUME NEW a, NEW b, NEW c, NEW d, NEW e, a.what # "nothing", b.what # "nothing",
         c.what # "nothing", d.what # "nothing", e.what # "nothing",
         FirstMissing(<< a, b, c, d, e >>) = "nothing"
  PROVE  e.given
<1> DEFINE needs == << a, b, c, d, e >>
<1>1. /\ DOMAIN needs = 1 .. 5 /\ needs[1] = a /\ needs[2] = b /\ needs[3] = c
      /\ needs[4] = d /\ needs[5] = e
  OBVIOUS
<1>2. FirstMissing(needs) = "nothing"
  OBVIOUS
<1> HIDE DEF needs
<1>3. \A i \in DOMAIN needs : needs[i].what # "nothing"
  BY <1>1
<1>4. DOMAIN needs \in SUBSET Nat /\ 5 \in DOMAIN needs
  BY <1>1
<1>5. needs[5].given
  BY <1>2, <1>3, <1>4, NothingMissing
<1> QED BY <1>1, <1>5

\* A line of a document: the line's own figures, and a price for one that
\* comes to them within a unit.
LEMMA ChallanLineHolds ==
  ASSUME NEW computed, NEW milli \in Int, computed.net \in Int
  PROVE  LET line == ChallanLine(FiscalLine(computed, milli))
         IN /\ line.total_value = computed.net /\ line.vat = computed.tax
            /\ line.total_with_tax = computed.total
            /\ milli # 0 =>
                  Abs(line.unit_value * milli - line.total_value * MilliPerUnit) <= Abs(milli)
<1> DEFINE line == ChallanLine(FiscalLine(computed, milli))
           n == computed.net * MilliPerUnit
           m == computed.net * (Sign(milli) * MilliPerUnit)
<1>1. /\ line.total_value = computed.net /\ line.vat = computed.tax
      /\ line.total_with_tax = computed.total
      /\ line.unit_value = UnitValue(computed.net, milli)
  BY DEF ChallanLine, FiscalLine
<1> SUFFICES ASSUME milli # 0
             PROVE  Abs(line.unit_value * milli - line.total_value * MilliPerUnit) <= Abs(milli)
  BY <1>1 DEF line
<1> DEFINE a == Abs(milli)
           q == DivideRounded(m, a, "half_up")
<1>2. UnitValue(computed.net, milli) = q
  BY DEF UnitValue, MulRatio
<1>3. /\ n \in Int /\ m \in Int /\ a \in Nat \ {0}
      /\ (milli > 0 /\ m = n /\ a = milli) \/ (milli < 0 /\ m = -n /\ a = -milli)
  BY DEF MilliPerUnit, Sign, Abs
<1>4. q \in Int /\ Abs(q * a - m) < a
  <2> HIDE DEF m, a
  <2> QED BY <1>3, Rounds
<1>5. line.unit_value = q /\ line.total_value * MilliPerUnit = n
  BY <1>1, <1>2
<1> HIDE DEF line, q, n, m, a
<1>6. Abs(q * milli - n) = Abs(q * a - m) /\ Abs(q * a - m) \in Int
  <2>1. CASE milli > 0
    BY <1>3, <1>4, <2>1 DEF Abs
  <2>2. CASE milli < 0
    <3>1. m = -n /\ a = -milli
      BY <1>3, <2>2
    <3>2. q * a = -(q * milli) /\ q * milli \in Int
      BY <1>4, <3>1
    <3> QED BY <1>3, <3>1, <3>2 DEF Abs
  <2> QED BY <2>1, <2>2
<1> QED BY <1>3, <1>4, <1>5, <1>6 DEF a

\* The lines of a document, and what they come to.
ChallanLines(invoice) == [i \in DOMAIN invoice.lines |-> ChallanLine(invoice.lines[i])]
LinesAgree(sale, lines, t) ==
    /\ Column(lines, "total_value") = t.net /\ Column(lines, "vat") = t.tax
    /\ Column(lines, "total_with_tax") = t.total
    /\ \A i \in DOMAIN lines : LineAgrees(lines[i], ActiveLines(sale)[i].milli)

\* Whoever sells, a document's lines come to the bill.
LEMMA ChallanHolds ==
  ASSUME NEW sale, ValidBill(sale), NEW number, NEW seller, NEW buyer
  PROVE  LinesAgree(sale, ChallanLines(Invoice(sale, number, seller, buyer)), Totals(sale))
<1> DEFINE t == Totals(sale)
           active == ActiveLines(sale)
           invoice == Invoice(sale, number, seller, buyer)
           lines == ChallanLines(invoice)
<1>1. LinesAddUp(Charged(sale), t) /\ Charged(sale).lines = active
  BY BillFigures
<1>2. /\ DOMAIN t.lines = DOMAIN active
      /\ \A i \in DOMAIN active : /\ t.lines[i].net \in Int /\ t.lines[i].tax \in Int
                                  /\ t.lines[i].total = t.lines[i].net + t.lines[i].tax
      /\ t.net = Column(t.lines, "net") /\ t.tax = Column(t.lines, "tax")
      /\ t.total = Column(t.lines, "total")
  <2> HIDE DEF t, active
  <2> QED BY <1>1 DEF LinesAddUp
<1>3. \A i \in DOMAIN active : active[i].milli \in Int
  <2>1. ValidOrder(Charged(sale))
    BY DEF ValidBill, SettledSale
  <2>2. \A i \in DOMAIN active : ValidLine(active[i])
    <3> HIDE DEF active
    <3> QED BY <1>1, <2>1 DEF ValidOrder
  <2> HIDE DEF active
  <2> QED BY <2>2 DEF ValidLine
<1>4. /\ DOMAIN lines = DOMAIN active
      /\ \A i \in DOMAIN active :
            lines[i] = ChallanLine(FiscalLine(t.lines[i], active[i].milli))
  BY DEF ChallanLines, Invoice
<1> HIDE DEF t, active, invoice, lines
<1>5. \A i \in DOMAIN active :
         /\ lines[i].total_value = t.lines[i].net /\ lines[i].vat = t.lines[i].tax
         /\ lines[i].total_with_tax = t.lines[i].total
         /\ active[i].milli # 0 =>
               Abs(lines[i].unit_value * active[i].milli - lines[i].total_value * MilliPerUnit)
                  <= Abs(active[i].milli)
  <2> TAKE i \in DOMAIN active
  <2> DEFINE line == ChallanLine(FiscalLine(t.lines[i], active[i].milli))
  <2>1. /\ line.total_value = t.lines[i].net /\ line.vat = t.lines[i].tax
        /\ line.total_with_tax = t.lines[i].total
        /\ active[i].milli # 0 =>
              Abs(line.unit_value * active[i].milli - line.total_value * MilliPerUnit)
                 <= Abs(active[i].milli)
    BY <1>2, <1>3, ChallanLineHolds
  <2>2. lines[i] = line
    BY <1>4
  <2> HIDE DEF line
  <2> QED BY <2>1, <2>2
<1>6. ASSUME NEW field, NEW name, \A i \in DOMAIN active : lines[i][field] = t.lines[i][name]
      PROVE  Column(lines, field) = Column(t.lines, name)
  <2>1. [i \in DOMAIN lines |-> lines[i][field]] = [i \in DOMAIN t.lines |-> t.lines[i][name]]
    BY <1>2, <1>4, <1>6
  <2> QED BY <2>1, Zenon DEF Column
<1>7. Column(lines, "total_value") = t.net
  BY <1>2, <1>5, <1>6
<1>8. Column(lines, "vat") = t.tax
  BY <1>2, <1>5, <1>6
<1>9. Column(lines, "total_with_tax") = t.total
  BY <1>2, <1>5, <1>6
<1>10. \A i \in DOMAIN lines :
          LineAgrees(lines[i], ActiveLines(sale)[i].milli)
  BY <1>2, <1>4, <1>5 DEF active, LineAgrees
<1>11. LinesAgree(sale, lines, t)
  BY <1>7, <1>8, <1>9, <1>10 DEF LinesAgree
<1> QED BY <1>11 DEF lines, invoice, t

\* Five fields, each of a length between two.
EachWithin(f, least, most) ==
    \A i \in 1 .. 5 : f[i] \in Int /\ least <= f[i] /\ f[i] <= most

\* Five short fields fit the printer's code.
LEMMA FiveFit ==
  ASSUME NEW f, EachWithin(f, 2, 257)
  PROVE  Sum(f, 1 .. 5) \in Int /\ 10 <= Sum(f, 1 .. 5) /\ Sum(f, 1 .. 5) <= 1285
<1> DEFINE n == 5
           total == [k \in 0 .. n |-> Sum(f, 1 .. k)]
<1>1. n \in Nat /\ n = 5
  OBVIOUS
<1>2. \A i \in 1 .. n : f[i] \in Int /\ 2 <= f[i] /\ f[i] <= 257
  BY DEF EachWithin
<1> HIDE DEF n
<1>3. /\ Sum(f, 1 .. 0) = 0
      /\ \A k \in 0 .. n - 1 : Sum(f, 1 .. k + 1) = Sum(f, 1 .. k) + f[k + 1]
      /\ \A k \in 0 .. n : Sum(f, 1 .. k) \in Int
  BY <1>1, <1>2, SumsGrow
<1>4. total[0] = 0 /\ \A k \in 0 .. n - 1 : total[k + 1] = total[k] + f[k + 1]
  BY <1>1, <1>3
<1>5. total[n] = Sum(f, 1 .. n)
  BY <1>1
<1> HIDE DEF total
<1> DEFINE Within(k) == total[k] \in Int /\ 2 * k <= total[k] /\ total[k] <= 257 * k
<1>6. ASSUME NEW k \in 0 .. n - 1, Within(k) PROVE Within(k + 1)
  <2>1. k + 1 \in 1 .. n /\ k \in Int
    BY <1>1
  <2>2. f[k + 1] \in Int /\ 2 <= f[k + 1] /\ f[k + 1] <= 257
    BY <1>2, <2>1
  <2> QED BY <1>4, <1>6, <2>1, <2>2
<1>7. Within(0)
  BY <1>4
<1> HIDE DEF Within
<1>8. Within(1)
  <2>1. 0 \in 0 .. n - 1 /\ 0 + 1 = 1
    BY <1>1
  <2> QED BY <1>6, <1>7, <2>1
<1>9. Within(2)
  <2>1. 1 \in 0 .. n - 1 /\ 1 + 1 = 2
    BY <1>1
  <2> QED BY <1>6, <1>8, <2>1
<1>10. Within(3)
  <2>1. 2 \in 0 .. n - 1 /\ 2 + 1 = 3
    BY <1>1
  <2> QED BY <1>6, <1>9, <2>1
<1>11. Within(4)
  <2>1. 3 \in 0 .. n - 1 /\ 3 + 1 = 4
    BY <1>1
  <2> QED BY <1>6, <1>10, <2>1
<1>12. Within(n)
  <2>1. 4 \in 0 .. n - 1 /\ 4 + 1 = n
    BY <1>1
  <2> QED BY <1>6, <1>11, <2>1
<1>13. Sum(f, 1 .. n) \in Int /\ 10 <= Sum(f, 1 .. n) /\ Sum(f, 1 .. n) <= 1285
  BY <1>1, <1>5, <1>12 DEF Within
<1> QED BY <1>13 DEF n

\* A code that fits says what was charged, and is printed.
LEMMA QrHolds ==
  ASSUME NEW seller, seller.name \in Nat, seller.registration \in Seq(Nat), NEW totals,
         totals.total \in Int, totals.tax \in Int, QrFits(QrPayload(seller, totals))
  PROVE  LET qr == QrPayload(seller, totals)
         IN /\ ReadBack(qr[4].value) = totals.total /\ ReadBack(qr[5].value) = totals.tax
            /\ QrPrints(qr)
<1> DEFINE qr == QrPayload(seller, totals)
           f == [i \in DOMAIN qr |-> qr[i].length + 2]
<1>1. /\ DOMAIN qr = 1 .. 5 /\ qr[4].value = Written(totals.total)
      /\ qr[5].value = Written(totals.tax)
      /\ qr[1].length = seller.name /\ qr[2].length = Len(seller.registration)
      /\ qr[3].length = 20 /\ qr[4].length = AmountWidth(totals.total)
      /\ qr[5].length = AmountWidth(totals.tax)
  BY DEF QrPayload, TimestampBytes
<1>2. QrFits(qr)
  OBVIOUS
<1> HIDE DEF qr
<1>3. \A i \in 1 .. 5 : qr[i].length <= 255
  BY <1>1, <1>2 DEF QrFits, MaxFieldBytes
<1>4. /\ qr[1].length \in Nat /\ qr[2].length \in Nat /\ qr[3].length \in Nat
      /\ qr[4].length \in Nat /\ qr[5].length \in Nat
  <2>1. Len(seller.registration) \in Nat
    BY LenProperties
  <2>2. \A minor : AmountWidth(minor) \in Nat
    BY AmountBounds
  <2> QED BY <1>1, <2>1, <2>2
<1>5. DOMAIN f = 1 .. 5 /\ EachWithin(f, 2, 257)
  <2>1. DOMAIN f = 1 .. 5
    BY <1>1
  <2>2. \A i \in DOMAIN qr : f[i] = qr[i].length + 2
    OBVIOUS
  <2> HIDE DEF f
  <2>3. \A i \in 1 .. 5 : qr[i].length \in Nat
    BY <1>4, SMTT(30)
  <2>4. \A i \in 1 .. 5 : f[i] \in Int /\ 2 <= f[i] /\ f[i] <= 257
    <3> TAKE i \in 1 .. 5
    <3>1. f[i] = qr[i].length + 2 /\ qr[i].length \in Nat /\ qr[i].length <= 255
      BY <1>1, <1>3, <2>2, <2>3
    <3> QED BY ONLY <3>1
  <2> QED BY <2>1, <2>4 DEF EachWithin
<1> DEFINE bytes == TrySum(f)
<1>6. bytes \in Int /\ 10 <= bytes /\ bytes <= 1285
  <2> HIDE DEF f
  <2>1. bytes = Sum(f, DOMAIN f)
    BY TrySumIsSum
  <2>2. bytes = Sum(f, 1 .. 5)
    BY <1>5, <2>1, Zenon
  <2> HIDE DEF bytes
  <2> QED BY <1>5, <2>2, FiveFit
<1>7. QrPrints(qr)
  <2>1. QrPrints(qr) <=> (bytes > 0 /\ 4 * ((bytes + 2) \div 3) <= 7089)
    BY Zenon DEF QrPrints
  <2> HIDE DEF bytes
  <2>2. bytes + 2 \in Nat /\ (bytes + 2) \div 3 \in Nat
        /\ bytes + 2 = 3 * ((bytes + 2) \div 3) + ((bytes + 2) % 3) /\ (bytes + 2) % 3 \in Nat
    BY <1>6, Divides
  <2> QED BY <1>6, <2>1, <2>2, SMTT(30)
<1>8. ReadBack(qr[4].value) = totals.total /\ ReadBack(qr[5].value) = totals.tax
  BY <1>1, WrittenReadsBack
<1> QED BY <1>7, <1>8 DEF qr

\* What is issued, and what was asked first.
LEMMA Issued ==
  ASSUME NEW sale, NEW number, NEW outlet, NEW d, d = FiscalDocument(sale, number, outlet)
  PROVE  LET invoice == Invoice(sale, number, outlet.seller, FALSE)
         IN \/ d.regime = "refused"
            \/ /\ outlet.regime = "bd_mushak" /\ d = Mushak63(invoice) /\ number # NotInvoiced
               /\ FirstMissing(MushakNeeds(invoice)) = "nothing"
            \/ /\ outlet.regime = "zatca" /\ d = SimplifiedTaxInvoice(invoice)
               /\ number # NotInvoiced /\ FirstMissing(ZatcaNeeds(invoice)) = "nothing"
            \/ d.regime = "none" /\ outlet.regime # "bd_mushak"
<1> DEFINE invoice == Invoice(sale, number, outlet.seller, FALSE)
           needs == CASE outlet.regime = "bd_mushak" -> MushakNeeds(invoice)
                      [] outlet.regime = "zatca" -> ZatcaNeeds(invoice)
                      [] OTHER -> << Needs("lines", invoice.lines # << >>) >>
           missing == FirstMissing(needs)
           issued == CASE outlet.regime = "bd_mushak" -> Mushak63(invoice)
                       [] outlet.regime = "zatca" -> SimplifiedTaxInvoice(invoice)
                       [] OTHER -> NoDocument
<1>1. d = CASE number = NotInvoiced -> Unissued("an invoice")
            [] number # NotInvoiced /\ missing # "nothing" -> Unissued(missing)
            [] OTHER -> issued
  BY Zenon DEF FiscalDocument
<1>2. \A what : Unissued(what).regime = "refused"
  BY DEF Unissued
<1>3. NoDocument.regime = "none"
  BY DEF NoDocument
<1>4. /\ outlet.regime = "bd_mushak" => needs = MushakNeeds(invoice) /\ issued = Mushak63(invoice)
      /\ outlet.regime = "zatca" =>
            needs = ZatcaNeeds(invoice) /\ issued = SimplifiedTaxInvoice(invoice)
      /\ outlet.regime \notin {"bd_mushak", "zatca"} => issued = NoDocument
  <2> HIDE DEF invoice
  <2> QED OBVIOUS
<1> HIDE DEF invoice, needs, issued
<1>5. \/ d.regime = "refused"
      \/ number # NotInvoiced /\ missing = "nothing" /\ d = issued
  BY <1>1, <1>2
<1>6. CASE outlet.regime = "bd_mushak"
  BY <1>4, <1>5, <1>6 DEF invoice
<1>7. CASE outlet.regime = "zatca"
  BY <1>4, <1>5, <1>7 DEF invoice
<1>8. CASE outlet.regime \notin {"bd_mushak", "zatca"}
  BY <1>3, <1>4, <1>5, <1>8
<1> QED BY <1>6, <1>7, <1>8

\* The document states what the receipt does, or is refused.
LEMMA DocumentHolds ==
  ASSUME BuyerRequiredAbove \in Int, NEW sale, ValidBill(sale), NEW number, NEW outlet,
         outlet.seller.name \in Nat, outlet.seller.registration \in Seq(Nat)
  PROVE  DocumentAgrees(sale, outlet, Receipt(sale, number),
                        FiscalDocument(sale, number, outlet))
<1> DEFINE t == Totals(sale)
           r == Receipt(sale, number)
           d == FiscalDocument(sale, number, outlet)
           invoice == Invoice(sale, number, outlet.seller, FALSE)
           lines == ChallanLines(invoice)
<1>1. r.invoice = number /\ r.net = t.net /\ r.tax = t.tax /\ r.total = t.total
  BY DEF Receipt
<1>2. t.net \in Int /\ t.tax \in Int /\ t.total \in Int
  BY BillFigures
<1>3. LinesAgree(sale, lines, t)
  BY ChallanHolds
<1>4. invoice.totals = t /\ invoice.number = number /\ invoice.seller = outlet.seller
      /\ invoice.buyer = FALSE
  BY DEF Invoice
<1>5. \/ d.regime = "refused"
      \/ /\ outlet.regime = "bd_mushak" /\ d = Mushak63(invoice) /\ number # NotInvoiced
         /\ FirstMissing(MushakNeeds(invoice)) = "nothing"
      \/ /\ outlet.regime = "zatca" /\ d = SimplifiedTaxInvoice(invoice)
         /\ number # NotInvoiced /\ FirstMissing(ZatcaNeeds(invoice)) = "nothing"
      \/ d.regime = "none" /\ outlet.regime # "bd_mushak"
  <2>1. \A x : x = FiscalDocument(sale, number, outlet) =>
          \/ x.regime = "refused"
          \/ /\ outlet.regime = "bd_mushak" /\ x = Mushak63(invoice) /\ number # NotInvoiced
             /\ FirstMissing(MushakNeeds(invoice)) = "nothing"
          \/ /\ outlet.regime = "zatca" /\ x = SimplifiedTaxInvoice(invoice)
             /\ number # NotInvoiced /\ FirstMissing(ZatcaNeeds(invoice)) = "nothing"
          \/ x.regime = "none" /\ outlet.regime # "bd_mushak"
    BY Issued
  <2> HIDE DEF invoice
  <2> QED BY <2>1
<1> SUFFICES DocumentAgrees(sale, outlet, r, d)
  OBVIOUS
<1> HIDE DEF t, r, d, invoice
<1>6. CASE d = Mushak63(invoice) /\ number # NotInvoiced
           /\ FirstMissing(MushakNeeds(invoice)) = "nothing"
  <2>1. /\ d.regime = "bd_mushak" /\ d.number = number /\ d.lines = lines
        /\ d.net = Column(lines, "total_value") /\ d.tax = Column(lines, "vat")
        /\ d.total = Column(lines, "total_with_tax")
    BY <1>4, <1>6 DEF Mushak63, ChallanLines
  <2>2. ~(t.total > BuyerRequiredAbove)
    <3> DEFINE last == Needs("buyer", invoice.totals.total <= BuyerRequiredAbove \/ invoice.buyer)
    <3>1. last.given
      <4>1. \A what, given : Needs(what, given).what = what
        BY DEF Needs
      <4>2. FirstMissing(<< Needs("lines", invoice.lines # << >>),
                            Needs("BIN", invoice.seller.registration # << >>),
                            Needs("name", invoice.seller.name > 0),
                            Needs("address", invoice.seller.address > 0), last >>) = "nothing"
        BY <1>6 DEF MushakNeeds
      <4> QED BY <4>1, <4>2, LastIsGiven
    <3>2. last.given => invoice.totals.total <= BuyerRequiredAbove
      BY <1>4 DEF Needs
    <3> QED BY <1>2, <1>4, <3>1, <3>2
  <2> HIDE DEF lines
  <2> QED BY <1>1, <1>3, <1>6, <2>1, <2>2 DEF DocumentAgrees, LinesAgree
<1>7. CASE outlet.regime = "zatca" /\ d = SimplifiedTaxInvoice(invoice) /\ number # NotInvoiced
           /\ FirstMissing(ZatcaNeeds(invoice)) = "nothing"
  <2>1. /\ d.regime = "zatca" /\ d.number = number /\ d.lines = lines
        /\ d.net = t.net /\ d.tax = t.tax /\ d.total = t.total
        /\ d.qr = QrPayload(outlet.seller, t)
    BY <1>4, <1>7 DEF SimplifiedTaxInvoice, ChallanLines
  <2>2. QrFits(QrPayload(outlet.seller, t))
    <3> DEFINE last == Needs("a short QR", QrFits(QrPayload(invoice.seller, invoice.totals)))
               vat == Needs("VAT number", IsVatNumber(invoice.seller.registration))
    <3>1. last.given
      <4>1. \A what, given : Needs(what, given).what = what
        BY DEF Needs
      <4>2. FirstMissing(<< Needs("lines", invoice.lines # << >>),
                            Needs("name", invoice.seller.name > 0), vat,
                            Needs("riyals", invoice.seller.currency = "SAR"), last >>) = "nothing"
        BY <1>7 DEF ZatcaNeeds
      <4>3. vat.what # "nothing" /\ last.what # "nothing"
        <5>1. vat.what = "VAT number" /\ last.what = "a short QR"
          BY <4>1, Zenon
        <5> HIDE DEF vat, last
        <5> QED BY <5>1, Zenon
      <4> HIDE DEF vat, last
      <4> QED BY <4>1, <4>2, <4>3, LastIsGiven
    <3>2. last.given => QrFits(QrPayload(invoice.seller, invoice.totals))
      BY DEF Needs
    <3> QED BY <1>4, <3>1, <3>2
  <2>3. /\ ReadBack(d.qr[4].value) = t.total /\ ReadBack(d.qr[5].value) = t.tax
        /\ QrPrints(d.qr)
    <3> DEFINE qr == QrPayload(outlet.seller, t)
    <3>1. ReadBack(qr[4].value) = t.total /\ ReadBack(qr[5].value) = t.tax /\ QrPrints(qr)
      BY <1>2, <2>2, QrHolds
    <3> HIDE DEF qr
    <3>2. d.qr = qr
      BY <2>1 DEF qr
    <3> QED BY <3>1, <3>2
  <2> HIDE DEF lines
  <2> QED BY <1>1, <1>3, <1>7, <2>1, <2>3 DEF DocumentAgrees, LinesAgree
<1>8. CASE d.regime = "refused" \/ (d.regime = "none" /\ outlet.regime # "bd_mushak")
  BY <1>8 DEF DocumentAgrees
<1> QED BY <1>5, <1>6, <1>7, <1>8

\* Printing, and verifying, answer as they should.
LEMMA PrintsAnswered == ASSUME Prints PROVE PaperAgrees'
<1>1. PICK sale \in Bills, outlet \in Outlets, roll \in Rolls, number \in {NotInvoiced, 7} :
         calc' = [of |-> "paper", sale |-> sale, roll |-> roll, outlet |-> outlet,
                  receipt |-> Receipt(sale, number),
                  document |-> FiscalDocument(sale, number, outlet)]
  BY DEF Prints, Answers
<1> DEFINE r == Receipt(sale, number)
           d == FiscalDocument(sale, number, outlet)
<1>2. /\ ValidBill(sale) /\ roll \in DOMAIN PaperWidth /\ BuyerRequiredAbove \in Int
      /\ outlet.seller.name \in Nat /\ outlet.seller.registration \in Seq(Nat)
  BY PaperAssumption
<1>3. ReceiptAddsUp(r)
  BY <1>2, ReceiptHolds
<1>4. DocumentAgrees(sale, outlet, r, d)
  BY <1>2, DocumentHolds
<1>5. RollHolds(r, roll)
  BY <1>2, RollAlwaysHolds
<1> HIDE DEF r, d
<1>6. /\ calc'.of = "paper" /\ calc'.sale = sale /\ calc'.roll = roll /\ calc'.outlet = outlet
      /\ calc'.receipt = r /\ calc'.document = d
  BY <1>1 DEF r, d
<1> QED BY <1>3, <1>4, <1>5, <1>6 DEF PaperAgrees

-----------------------------------------------------------------------------
(***************************************************************************)
(* The invoice chain.                                                      *)
(***************************************************************************)
Sealing == INSTANCE Folding WITH Start <- << >>, Advance <- SealNext
Following == INSTANCE Folding WITH Start <- FiscalGenesis, Advance <- Follow

\* Numbered from one, each with the hash of the one before it in its own.
LinkedAt(s, k) ==
    /\ s[k].counter = k
    /\ s[k].previous = IF k = 1 THEN << >> ELSE s[k - 1].hash
    /\ s[k].hash = Digest(k, s[k].sale, s[k].previous, s[k].content)
Linked(s) == \A k \in 1 .. Len(s) : LinkedAt(s, k)

\* Nothing but a seal.
IsSeal(e) == e = [counter |-> e.counter, sale |-> e.sale, content |-> e.content,
                  previous |-> e.previous, hash |-> e.hash]
Seals(s) == s \in Seq(Range(s)) /\ \A k \in 1 .. Len(s) : IsSeal(s[k])

\* The tip of a chain that has one.
LEMMA TipIsLast ==
  ASSUME NEW S, NEW s \in Seq(S), Linked(s)
  PROVE  /\ Len(s) \in Nat /\ TipAfter(s).counter = Len(s)
         /\ TipAfter(s).hash = IF Len(s) = 0 THEN << >> ELSE s[Len(s)].hash
         /\ s # << >> => Len(s) > 0
<1>1. Len(s) \in Nat /\ (s = << >> <=> Len(s) = 0)
  BY EmptySeq, LenProperties
<1>2. CASE s = << >>
  BY <1>1, <1>2 DEF TipAfter, FiscalGenesis
<1>3. CASE s # << >>
  <2>1. Len(s) > 0 /\ Len(s) \in 1 .. Len(s)
    BY <1>1, <1>3
  <2>2. s[Len(s)].counter = Len(s)
    BY <2>1 DEF Linked, LinkedAt
  <2>3. TipAfter(s) = [counter |-> s[Len(s)].counter, hash |-> s[Len(s)].hash]
    BY <1>3 DEF TipAfter, TipOf, Last
  <2> QED BY <1>1, <2>1, <2>2, <2>3
<1> QED BY <1>2, <1>3

\* One seal that follows.
LEMMA LinkMore ==
  ASSUME NEW S, NEW s \in Seq(S), NEW e \in S, Linked(s),
         e.counter = TipAfter(s).counter + 1, e.previous = TipAfter(s).hash,
         e.hash = Digest(e.counter, e.sale, e.previous, e.content)
  PROVE  Linked(Append(s, e)) /\ TipAfter(Append(s, e)) = TipOf(e)
<1> DEFINE more == Append(s, e)
           n == Len(s)
<1>1. /\ n \in Nat /\ TipAfter(s).counter = n
      /\ TipAfter(s).hash = IF n = 0 THEN << >> ELSE s[n].hash
  BY TipIsLast
<1>2. /\ more \in Seq(S) /\ Len(more) = n + 1 /\ more[n + 1] = e
      /\ \A k \in 1 .. n : more[k] = s[k]
  <2>1. \A k \in 1 .. Len(s) : Append(s, e)[k] = s[k]
    BY AppendProperties
  <2>2. Append(s, e) \in Seq(S) /\ Len(Append(s, e)) = Len(s) + 1
    BY AppendProperties
  <2>3. Append(s, e)[Len(s) + 1] = e
    BY AppendProperties
  <2> QED BY <2>1, <2>2, <2>3
<1>3. more # << >>
  BY AppendProperties
<1> HIDE DEF more, n
<1>4. TipAfter(more) = TipOf(e)
  BY <1>2, <1>3 DEF TipAfter, Last
<1>5. ASSUME NEW k \in 1 .. n + 1 PROVE LinkedAt(more, k)
  <2>1. CASE k = n + 1
    <3>1. e.counter = k /\ more[k] = e
      BY <1>1, <1>2, <2>1
    <3>2. e.previous = IF k = 1 THEN << >> ELSE more[k - 1].hash
      <4>1. CASE n = 0
        BY <1>1, <2>1, <4>1
      <4>2. CASE n # 0
        <5>1. k - 1 = n /\ n \in 1 .. n /\ k # 1
          BY <1>1, <2>1, <4>2
        <5> QED BY <1>1, <1>2, <4>2, <5>1
      <4> QED BY <4>1, <4>2
    <3> QED BY <3>1, <3>2 DEF LinkedAt
  <2>2. CASE k # n + 1
    <3>1. k \in 1 .. n /\ (k # 1 => k - 1 \in 1 .. n)
      BY <1>1, <2>2
    <3>2. more[k] = s[k] /\ (k # 1 => more[k - 1] = s[k - 1])
      BY <1>2, <3>1
    <3>3. LinkedAt(s, k)
      BY <3>1 DEF Linked, n
    <3> QED BY <3>2, <3>3 DEF LinkedAt
  <2> QED BY <2>1, <2>2
<1>6. Linked(more)
  BY <1>2, <1>5 DEF Linked
<1> QED BY <1>4, <1>6 DEF more

\* What was sealed is linked, a seal for each sale.
LEMMA SealedIsLinked ==
  ASSUME NEW sales, sales \in Seq(Range(sales))
  PROVE  /\ Seals(SealAll(sales)) /\ Linked(SealAll(sales))
         /\ Len(SealAll(sales)) = Len(sales)
<1> DEFINE S == Range(sales)
           Good(s) == Seals(SealAll(s)) /\ Linked(SealAll(s)) /\ Len(SealAll(s)) = Len(s)
           P == {s \in Seq(S) : Good(s)}
<1>1. \A s : SealAll(s) = Sealing!Run(s)
  BY DEF SealAll, Through, Sealing!Run, Sealing!From
<1>2. << >> \in P
  <2>1. SealAll(<< >>) = << >>
    BY <1>1, Sealing!RunEmpty
  <2>2. << >> \in Seq(S) /\ << >> \in Seq(Range(<< >>)) /\ Len(<< >>) = 0
    BY EmptySeq
  <2>3. 1 .. 0 = {}
    OBVIOUS
  <2>4. Seals(<< >>) /\ Linked(<< >>)
    BY <2>2, <2>3 DEF Seals, Linked
  <2> QED BY <2>1, <2>2, <2>4
<1>3. ASSUME NEW s \in P, NEW e \in S PROVE Append(s, e) \in P
  <2> DEFINE seals == SealAll(s)
             new == Seal(TipAfter(seals), e.sale, e.content)
             T == Range(seals) \cup {new}
  <2>1. Seals(seals) /\ Linked(seals) /\ Len(seals) = Len(s) /\ s \in Seq(S)
    OBVIOUS
  <2>2. SealAll(Append(s, e)) = Append(seals, new)
    <3>1. Sealing!Run(Append(s, e)) = SealNext(Sealing!Run(s), e)
      BY <2>1, Sealing!RunAppend
    <3> QED BY <1>1, <3>1 DEF SealNext
  <2>3. /\ new.counter = TipAfter(seals).counter + 1 /\ new.previous = TipAfter(seals).hash
        /\ new.hash = Digest(new.counter, new.sale, new.previous, new.content)
        /\ IsSeal(new)
    BY DEF Seal, IsSeal
  <2> HIDE DEF seals, new
  <2>4. seals \in Seq(T) /\ new \in T
    BY <2>1 DEF Seals
  <2>5. Linked(Append(seals, new))
    <3> HIDE DEF T
    <3> QED BY <2>1, <2>3, <2>4, LinkMore
  <2>6. /\ Append(seals, new) \in Seq(T) /\ Len(Append(seals, new)) = Len(seals) + 1
        /\ Append(seals, new)[Len(seals) + 1] = new
        /\ \A k \in 1 .. Len(seals) : Append(seals, new)[k] = seals[k]
        /\ Len(seals) \in Nat
    <3> HIDE DEF T
    <3> QED BY <2>4, AppendProperties, LenProperties
  <2>7. Seals(Append(seals, new))
    <3> DEFINE more == Append(seals, new)
    <3> HIDE DEF more
    <3>1. more \in Seq(Range(more))
      <4>1. more \in Seq(T)
        BY <2>6 DEF more
      <4>2. DOMAIN more = 1 .. Len(more) /\ Len(more) \in Nat /\ more \in [1 .. Len(more) -> T]
        BY <4>1, LenProperties
      <4>3. more \in [1 .. Len(more) -> Range(more)]
        BY <4>2 DEF Range
      <4> QED BY <4>2, <4>3, SeqDef
    <3>2. ASSUME NEW k \in 1 .. Len(more) PROVE IsSeal(more[k])
      <4>1. k = Len(seals) + 1 \/ k \in 1 .. Len(seals)
        BY <2>6 DEF more
      <4>2. more[k] = IF k = Len(seals) + 1 THEN new ELSE seals[k]
        BY <2>6, <4>1 DEF more
      <4>3. \A j \in 1 .. Len(seals) : IsSeal(seals[j])
        BY <2>1 DEF Seals
      <4> QED BY <2>3, <4>1, <4>2, <4>3
    <3> QED BY <3>1, <3>2 DEF Seals, more
  <2>8. Append(s, e) \in Seq(S) /\ Len(Append(s, e)) = Len(s) + 1
    BY <2>1, AppendProperties
  <2>9. Good(Append(s, e))
    BY <2>1, <2>2, <2>5, <2>6, <2>7, <2>8
  <2> QED BY <2>8, <2>9
<1> HIDE DEF P
<1>4. sales \in P
  <2>1. P \in SUBSET Seq(S) /\ sales \in Seq(S)
    BY DEF P
  <2> HIDE DEF S
  <2> QED BY <1>2, <1>3, <2>1, Counting!SequenceInduction
<1> QED BY <1>4 DEF P

\* What verifies is linked.
LEMMA VerifiedIsLinked ==
  ASSUME NEW shown, shown \in Seq(Range(shown)),
         VerifyInvoiceChain(shown) # FiscallyBroken
  PROVE  Linked(shown) /\ VerifyInvoiceChain(shown) = TipAfter(shown)
<1> DEFINE S == Range(shown)
           Good(s) == VerifyInvoiceChain(s) # FiscallyBroken =>
                         Linked(s) /\ VerifyInvoiceChain(s) = TipAfter(s)
           P == {s \in Seq(S) : Good(s)}
<1>1. \A s : VerifyInvoiceChain(s) = Following!Run(s)
  BY DEF VerifyInvoiceChain, Through, Following!Run, Following!From
<1>2. << >> \in P
  <2>1. VerifyInvoiceChain(<< >>) = FiscalGenesis
    BY <1>1, Following!RunEmpty
  <2>2. << >> \in Seq(S) /\ Len(<< >>) = 0
    BY EmptySeq
  <2>3. Good(<< >>)
    BY <2>1, <2>2 DEF TipAfter, Linked
  <2> QED BY <2>2, <2>3
<1>3. ASSUME NEW s \in P, NEW e \in S PROVE Append(s, e) \in P
  <2>1. Append(s, e) \in Seq(S) /\ s \in Seq(S)
    BY AppendProperties
  <2>2. VerifyInvoiceChain(Append(s, e)) = Follow(VerifyInvoiceChain(s), e)
    <3>1. Following!Run(Append(s, e)) = Follow(Following!Run(s), e)
      BY <2>1, Following!RunAppend
    <3> QED BY <1>1, <3>1
  <2>3. ASSUME VerifyInvoiceChain(Append(s, e)) # FiscallyBroken
        PROVE  /\ Linked(Append(s, e))
               /\ VerifyInvoiceChain(Append(s, e)) = TipAfter(Append(s, e))
    <3> DEFINE tip == VerifyInvoiceChain(s)
    <3>1. /\ tip # FiscallyBroken /\ e.counter = tip.counter + 1 /\ e.previous = tip.hash
          /\ e.hash = Digest(e.counter, e.sale, e.previous, e.content)
          /\ VerifyInvoiceChain(Append(s, e)) = TipOf(e)
      <4> HIDE DEF tip
      <4>1. VerifyInvoiceChain(Append(s, e)) = Follow(tip, e)
        BY <2>2 DEF tip
      <4> QED BY <2>3, <4>1 DEF Follow
    <3>2. Linked(s) /\ tip = TipAfter(s)
      BY <3>1
    <3> HIDE DEF tip
    <3>3. Linked(Append(s, e)) /\ TipAfter(Append(s, e)) = TipOf(e)
      <4>1. /\ s \in Seq(S) /\ e \in S /\ Linked(s)
            /\ e.counter = TipAfter(s).counter + 1 /\ e.previous = TipAfter(s).hash
            /\ e.hash = Digest(e.counter, e.sale, e.previous, e.content)
        BY <2>1, <3>1, <3>2
      <4> HIDE DEF S
      <4> QED BY ONLY <4>1, LinkMore
    <3> QED BY <3>1, <3>3
  <2> QED BY <2>1, <2>3
<1> HIDE DEF P
<1>4. shown \in P
  <2>1. P \in SUBSET Seq(S) /\ shown \in Seq(S)
    BY DEF P
  <2> HIDE DEF S
  <2> QED BY <1>2, <1>3, <2>1, Counting!SequenceInduction
<1> QED BY <1>4 DEF P

\* Two chains that end in the same hash are one.
LEMMA OneChain ==
  ASSUME NEW n \in Nat, n > 0, NEW s, NEW t, Seals(s), Seals(t), Linked(s), Linked(t),
         Len(s) = n, Len(t) = n, s[n].hash = t[n].hash
  PROVE  s = t
<1>1. \A k \in 1 .. n : LinkedAt(s, k) /\ LinkedAt(t, k) /\ IsSeal(s[k]) /\ IsSeal(t[k])
  BY DEF Seals, Linked
<1>2. ASSUME NEW k \in 1 .. n, s[k].hash = t[k].hash
      PROVE  s[k] = t[k] /\ (k # 1 => s[k - 1].hash = t[k - 1].hash)
  <2>1. /\ s[k].counter = k /\ t[k].counter = k
        /\ Digest(k, s[k].sale, s[k].previous, s[k].content)
              = Digest(k, t[k].sale, t[k].previous, t[k].content)
    BY <1>1, <1>2 DEF LinkedAt
  <2>2. s[k].sale = t[k].sale /\ s[k].previous = t[k].previous /\ s[k].content = t[k].content
    BY <2>1 DEF Digest
  <2>3. s[k] = t[k]
    <3>1. IsSeal(s[k]) /\ IsSeal(t[k])
      BY <1>1
    <3> QED BY <1>2, <2>1, <2>2, <3>1, Zenon DEF IsSeal
  <2>4. ASSUME k # 1 PROVE s[k - 1].hash = t[k - 1].hash
    BY <1>1, <2>2, <2>4 DEF LinkedAt
  <2> QED BY <2>3, <2>4
<1> DEFINE P == {j \in Nat : j < n => s[n - j].hash = t[n - j].hash}
<1>3. 0 \in P
  OBVIOUS
<1>4. ASSUME NEW j \in P PROVE j + 1 \in P
  <2>1. SUFFICES ASSUME j + 1 < n PROVE s[n - (j + 1)].hash = t[n - (j + 1)].hash
    OBVIOUS
  <2>2. s[n - j].hash = t[n - j].hash
    BY <2>1
  <2>3. n - j \in 1 .. n /\ n - j # 1 /\ (n - j) - 1 = n - (j + 1)
    BY <2>1
  <2> QED BY <1>2, <2>2, <2>3
<1> HIDE DEF P
<1>5. ASSUME NEW k \in 1 .. n PROVE s[k] = t[k]
  <2>1. n - k \in P
    <3>1. P \in SUBSET Nat /\ n - k \in Nat
      BY DEF P
    <3> QED BY <1>3, <1>4, <3>1, Counting!Induction
  <2>2. s[k].hash = t[k].hash
    <3>1. n - k < n /\ n - (n - k) = k
      OBVIOUS
    <3> QED BY <2>1, <3>1 DEF P
  <2> QED BY <1>2, <2>2
<1>6. s \in Seq(Range(s) \cup Range(t)) /\ t \in Seq(Range(s) \cup Range(t))
  BY DEF Seals
<1> QED BY <1>5, <1>6, SeqEqual

\* What verifies to the tip of what was sealed is what was sealed.
LEMMA ShownIsSealed ==
  ASSUME NEW sales, sales \in Seq(Range(sales)), sales # << >>,
         NEW shown, Seals(shown),
         VerifyInvoiceChain(shown) = TipOf(Last(SealAll(sales)))
  PROVE  shown = SealAll(sales)
<1> DEFINE seals == SealAll(sales)
           n == Len(seals)
<1>1. Seals(seals) /\ Linked(seals) /\ n = Len(sales)
  BY SealedIsLinked
<1>2. n \in Nat /\ n > 0 /\ n \in 1 .. n
  <2>1. Len(sales) \in Nat \ {0}
    BY EmptySeq
  <2> HIDE DEF seals
  <2> QED BY <1>1, <2>1
<1>3. VerifyInvoiceChain(shown) = TipOf(seals[n])
  BY DEF Last
<1> HIDE DEF seals, n
<1>4. seals[n].counter = n /\ Len(seals) = n
  BY <1>1, <1>2 DEF Linked, LinkedAt, n
<1>5. TipOf(seals[n]).counter = n /\ TipOf(seals[n]).hash = seals[n].hash
  BY <1>4 DEF TipOf
<1>6. VerifyInvoiceChain(shown) # FiscallyBroken
  BY <1>2, <1>3, <1>5 DEF FiscallyBroken
<1>7. Linked(shown) /\ TipAfter(shown).counter = n /\ TipAfter(shown).hash = seals[n].hash
  <2>1. shown \in Seq(Range(shown))
    BY DEF Seals
  <2> QED BY <1>3, <1>5, <1>6, <2>1, VerifiedIsLinked
<1>8. Len(shown) = n /\ shown[n].hash = seals[n].hash
  <2>1. /\ Len(shown) \in Nat /\ TipAfter(shown).counter = Len(shown)
        /\ TipAfter(shown).hash = IF Len(shown) = 0 THEN << >> ELSE shown[Len(shown)].hash
    BY <1>7, TipIsLast DEF Seals
  <2> QED BY <1>2, <1>7, <2>1
<1>9. shown = seals
  BY <1>1, <1>2, <1>4, <1>7, <1>8, OneChain
<1> QED BY <1>9 DEF seals

\* What somebody shows is made of seals.
LEMMA ShownAreSeals ==
  ASSUME NEW seals, Seals(seals), NEW edit, edit \in Seq(Range(edit)),
         \A i \in DOMAIN edit : edit[i].at \in DOMAIN seals
  PROVE  Seals(Shown(seals, edit))
<1> DEFINE shown == Shown(seals, edit)
           n == Len(edit)
<1>1. DOMAIN edit = 1 .. n /\ n \in Nat
  BY ListDomain
<1>2. DOMAIN seals = 1 .. Len(seals)
  BY ListDomain DEF Seals
<1> HIDE DEF n
<1>3. ASSUME NEW i \in 1 .. n PROVE IsSeal(shown[i])
  <2> DEFINE seal == seals[edit[i].at]
  <2>1. IsSeal(seal)
    BY <1>1, <1>2 DEF Seals
  <2>2. shown[i] = IF edit[i].content = "as sealed" THEN seal
                   ELSE [seal EXCEPT !.content = edit[i].content]
    BY <1>1 DEF Shown
  <2> HIDE DEF seal, shown
  <2>3. ASSUME NEW c PROVE IsSeal([seal EXCEPT !.content = c])
    <3>1. PICK a, b, d, e, f : seal = [counter |-> a, sale |-> b, content |-> d,
                                       previous |-> e, hash |-> f]
      BY <2>1 DEF IsSeal
    <3>2. [seal EXCEPT !.content = c]
             = [counter |-> a, sale |-> b, content |-> c, previous |-> e, hash |-> f]
      BY <3>1
    <3> QED BY <3>2 DEF IsSeal
  <2> QED BY <2>1, <2>2, <2>3
<1>4. shown = [i \in 1 .. n |-> shown[i]]
  BY <1>1 DEF Shown
<1> HIDE DEF shown
<1>5. shown \in [1 .. n -> Range(shown)] /\ DOMAIN shown = 1 .. n
  BY <1>4 DEF Range
<1>6. shown \in Seq(Range(shown)) /\ Len(shown) = n
  BY <1>1, <1>5, SeqDef
<1> QED BY <1>3, <1>6 DEF Seals, shown

LEMMA VerifiesAnswered == ASSUME Verifies PROVE PaperAgrees'
<1>1. PICK sales \in Invoices, edit \in Edited :
         /\ \A n \in DOMAIN edit : edit[n].at \in DOMAIN SealAll(sales)
         /\ calc' = [of |-> "chain", seals |-> SealAll(sales),
                     shown |-> Shown(SealAll(sales), edit),
                     tip |-> VerifyInvoiceChain(Shown(SealAll(sales), edit))]
  BY DEF Verifies, Answers
<1> DEFINE seals == SealAll(sales)
           shown == Shown(seals, edit)
<1>2. sales \in Seq(Range(sales)) /\ sales # << >> /\ edit \in Seq(Range(edit))
  BY InvoicesAssumption
<1>3. Seals(seals)
  BY <1>2, SealedIsLinked
<1>4. Seals(shown)
  <2> HIDE DEF seals
  <2>1. \A n \in DOMAIN edit : edit[n].at \in DOMAIN seals
    BY <1>1 DEF seals
  <2> QED BY <1>2, <1>3, <2>1, ShownAreSeals
<1>5. /\ calc'.of = "chain" /\ calc'.seals = seals /\ calc'.shown = shown
      /\ calc'.tip = VerifyInvoiceChain(shown)
  BY <1>1
<1> HIDE DEF shown
<1>6. VerifyInvoiceChain(shown) = TipOf(Last(seals)) => shown = seals
  BY <1>2, <1>4, ShownIsSealed
<1> QED BY <1>5, <1>6 DEF PaperAgrees

\* What was asked of paper, or of a chain, was asked here.
LEMMA HandedOver ==
  ASSUME [Next]_calc
  PROVE  UNCHANGED calc \/ Prints \/ Verifies \/ calc'.of \notin {"paper", "chain"}
<1>1. CASE Allocates BY <1>1 DEF Allocates, Answers
<1>2. CASE Splits BY <1>2 DEF Splits, Answers
<1>3. CASE Prices BY <1>3 DEF Prices, Answers
<1>4. CASE Chooses BY <1>4 DEF Chooses, Answers
<1>5. CASE Judges
  <2>1. \/ \E who, pin, permission : calc' = Refusal(who, pin, permission)
        \/ \E who, by, request, policy : calc' = Audited(who, by, request, policy)
    BY <1>5 DEF Judges, Answers
  <2>2. \A who, pin, permission : Refusal(who, pin, permission).of = "refusal"
    BY DEF Refusal
  <2>3. \A who, by, request, policy : Audited(who, by, request, policy).of = "audit"
    BY DEF Audited
  <2> QED BY <2>1, <2>2, <2>3
<1>6. CASE Compares BY <1>6 DEF Compares, Answers
<1>7. CASE Scans BY <1>7 DEF Scans, Answers
<1>8. CASE Edits BY <1>8 DEF Edits, Answers
<1>9. CASE Picks BY <1>9 DEF Picks, Answers
<1>10. CASE Oversells BY <1>10 DEF Oversells, Answers
<1>11. CASE Transfers BY <1>11 DEF Transfers, Answers
<1>12. CASE Receives BY <1>12 DEF Receives, Answers
<1>13. CASE Closes BY <1>13 DEF Closes, Answers
<1>14. CASE Finishes BY <1>14 DEF Finishes, None
<1> QED BY <1>1, <1>2, <1>3, <1>4, <1>5, <1>6, <1>7, <1>8, <1>9, <1>10, <1>11, <1>12, <1>13,
           <1>14 DEF Next

\* Whatever was sold, and on whatever roll it is printed, the paper handed over
\* says what was charged; and however many invoices were sealed, whatever
\* verifies to their tip is those (receipt, render, issue,
\* verify_invoice_chain).
THEOREM PaperAlwaysAgrees == Spec => []PaperAgrees
<1>1. Init => PaperAgrees
  BY DEF Init, None, PaperAgrees
<1>2. ASSUME PaperAgrees, [Next]_calc PROVE PaperAgrees'
  <2>1. CASE UNCHANGED calc
    BY <1>2, <2>1 DEF PaperAgrees
  <2>2. CASE calc'.of \notin {"paper", "chain"}
    BY <2>2 DEF PaperAgrees
  <2> QED BY <1>2, <2>1, <2>2, HandedOver, PrintsAnswered, VerifiesAnswered
<1> QED BY <1>1, <1>2, PTL DEF Spec
=============================================================================
