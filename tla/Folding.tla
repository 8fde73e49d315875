------------------------------ MODULE Folding ------------------------------
(***************************************************************************)
(* What a sequence comes to when it is gone through from the front, and    *)
(* the facts about it that proofs need.  The recursive functions of the    *)
(* other modules (a replay of events, a sum over lines) are instances.     *)
(***************************************************************************)
EXTENDS Integers, Sequences, SequenceTheorems, WellFoundedInduction, TLAPS

CONSTANTS
    Start,         \* what the empty sequence comes to
    Advance(_, _)  \* what one more element makes of it

From(start, seq) ==
    LET after[i \in 0 .. Len(seq)] ==
            IF i = 0 THEN start ELSE Advance(after[i - 1], seq[i])
    IN after[Len(seq)]

Run(seq) == From(Start, seq)

-----------------------------------------------------------------------------
(***************************************************************************)
(* Induction, over sets of numbers.                                        *)
(***************************************************************************)

\* Every set of numbers that is not empty has a least one.
LEMMA LeastNumber ==
  ASSUME NEW T \in SUBSET Nat, T # {}
  PROVE  \E n \in T : \A m \in T : n <= m
<1> DEFINE R == {ss \in Nat \X Nat : ss[1] < ss[2]}
<1>1. IsWellFoundedOn(R, Nat)
  BY NatLessThanWellFounded DEF OpToRel
<1>2. \A x, y \in Nat : y < x => <<y, x>> \in R
  OBVIOUS
<1> HIDE DEF R
<1>3. PICK x \in T : \A y \in T : ~(<<y, x>> \in R)
  BY <1>1, WFMin
<1>4. ASSUME NEW m \in T PROVE x <= m
  <2>1. m \in Nat /\ x \in Nat
    OBVIOUS
  <2>2. ~ (m < x)
    BY <1>2, <1>3, <2>1, ZenonT(60)
  <2> QED BY <2>1, <2>2
<1> QED BY <1>4

\* A set that holds zero and with every number its successor holds them all.
LEMMA Induction ==
  ASSUME NEW P \in SUBSET Nat, 0 \in P, \A n \in P : n + 1 \in P
  PROVE  \A n \in Nat : n \in P
<1> SUFFICES ASSUME Nat \ P # {} PROVE FALSE
  OBVIOUS
<1>1. PICK n \in Nat \ P : \A m \in Nat \ P : n <= m
  <2>1. Nat \ P \in SUBSET Nat
    OBVIOUS
  <2> QED BY <2>1, LeastNumber
<1>2. n # 0
  OBVIOUS
<1>3. n - 1 \in Nat /\ n - 1 < n
  BY <1>2
<1>4. n - 1 \in P
  BY <1>1, <1>3
<1>5. (n - 1) + 1 \in P
  BY <1>4
<1> QED BY <1>5

\* A set that holds the empty sequence and with every sequence its extensions
\* by one element holds them all.
LEMMA SequenceInduction ==
  ASSUME NEW S, NEW P \in SUBSET Seq(S), <<>> \in P,
         \A s \in P, e \in S : Append(s, e) \in P
  PROVE  \A s \in Seq(S) : s \in P
<1> DEFINE N == {n \in Nat : \A s \in Seq(S) : Len(s) = n => s \in P}
<1>1. 0 \in N
  <2>1. ASSUME NEW s \in Seq(S), Len(s) = 0 PROVE s \in P
    BY <2>1, EmptySeq
  <2> QED BY <2>1
<1>2. ASSUME NEW n \in N PROVE n + 1 \in N
  <2>1. ASSUME NEW s \in Seq(S), Len(s) = n + 1 PROVE s \in P
    <3>1. s # <<>>
      BY <2>1, EmptySeq
    <3>2. PICK f \in Seq(S), e \in S : s = Append(f, e)
      BY <3>1, SequenceEmptyOrAppend
    <3>3. Len(f) = n
      <4>1. Len(s) = Len(f) + 1 /\ Len(f) \in Nat
        BY <3>2, AppendProperties
      <4> QED BY <2>1, <4>1
    <3> QED BY <3>2, <3>3
  <2>2. n + 1 \in Nat
    OBVIOUS
  <2> QED BY <2>1, <2>2
<1> HIDE DEF N
<1>3. N \in SUBSET Nat
  BY DEF N
<1>4. \A n \in Nat : n \in N
  BY <1>1, <1>2, <1>3, Induction
<1>5. ASSUME NEW s \in Seq(S) PROVE s \in P
  <2>1. Len(s) \in N
    BY <1>4
  <2> QED BY <2>1 DEF N
<1> QED BY <1>5

-----------------------------------------------------------------------------
(***************************************************************************)
(* The recursive function.                                                 *)
(***************************************************************************)

\* f says what the first k elements, and fewer, come to.
Tabulates(start, f, seq, k) ==
    f = [i \in 0 .. k |-> IF i = 0 THEN start ELSE Advance(f[i - 1], seq[i])]

\* Each entry of a table is made of the one before it.
LEMMA TableEntries ==
  ASSUME NEW start, NEW seq, NEW k \in Nat, NEW f, Tabulates(start, f, seq, k)
  PROVE  /\ f[0] = start
         /\ \A i \in 1 .. k : f[i] = Advance(f[i - 1], seq[i])
<1> DEFINE T == [i \in 0 .. k |-> IF i = 0 THEN start ELSE Advance(f[i - 1], seq[i])]
<1>1. f = T
  BY DEF Tabulates
<1>2. T[0] = start
  OBVIOUS
<1>3. ASSUME NEW i \in 1 .. k PROVE T[i] = Advance(f[i - 1], seq[i])
  <2>1. i \in 0 .. k /\ i # 0
    OBVIOUS
  <2> QED BY <2>1
<1> HIDE DEF T
<1> QED BY <1>1, <1>2, <1>3

\* There is such a table, one entry at a time.
LEMMA TableExists ==
  ASSUME NEW start, NEW seq, NEW k \in Nat
  PROVE  \E f : Tabulates(start, f, seq, k)
<1> DEFINE P == {n \in Nat : \E f : Tabulates(start, f, seq, n)}
<1>1. 0 \in P
  <2> DEFINE f == [i \in 0 .. 0 |-> start]
  <2>1. f = [i \in 0 .. 0 |-> IF i = 0 THEN start ELSE Advance(f[i - 1], seq[i])]
    OBVIOUS
  <2>2. Tabulates(start, f, seq, 0)
    BY <2>1 DEF Tabulates
  <2> QED BY <2>2
<1>2. ASSUME NEW n \in P PROVE n + 1 \in P
  <2>1. PICK f : Tabulates(start, f, seq, n)
    OBVIOUS
  <2> DEFINE g == [i \in 0 .. n + 1 |-> IF i = n + 1 THEN Advance(f[n], seq[n + 1]) ELSE f[i]]
  <2> DEFINE h == [i \in 0 .. n + 1 |-> IF i = 0 THEN start ELSE Advance(g[i - 1], seq[i])]
  <2>2. /\ f[0] = start
        /\ \A i \in 1 .. n : f[i] = Advance(f[i - 1], seq[i])
    BY <2>1, TableEntries
  <2>3. ASSUME NEW i \in 0 .. n + 1 PROVE g[i] = h[i]
    <3>1. CASE i = 0
      BY <2>2, <3>1
    <3>2. CASE i = n + 1
      <4>1. g[n] = f[n]
        OBVIOUS
      <4>2. (n + 1) - 1 = n /\ n + 1 # 0
        OBVIOUS
      <4> QED BY <3>2, <4>1, <4>2
    <3>3. CASE i \in 1 .. n
      <4>1. g[i - 1] = f[i - 1]
        <5>1. i - 1 \in 0 .. n + 1 /\ i - 1 # n + 1
          BY <3>3
        <5> QED BY <5>1
      <4>2. g[i] = f[i]
        BY <3>3
      <4>3. h[i] = Advance(g[i - 1], seq[i])
        BY <3>3
      <4> QED BY <2>2, <3>3, <4>1, <4>2, <4>3
    <3> QED BY <3>1, <3>2, <3>3
  <2>4. g = h
    BY <2>3
  <2>5. Tabulates(start, g, seq, n + 1)
    BY <2>4 DEF Tabulates
  <2> QED BY <2>5
<1> HIDE DEF P
<1>3. k \in P
  <2>1. P \in SUBSET Nat
    BY DEF P
  <2> QED BY <1>1, <1>2, <2>1, Induction
<1> QED BY <1>3 DEF P

\* Tables of sequences that begin alike begin alike.
LEMMA TablesAgree ==
  ASSUME NEW start, NEW s, NEW t, NEW k \in Nat, NEW m \in Nat, NEW n \in Nat, n <= k, n <= m,
         \A i \in 1 .. n : s[i] = t[i],
         NEW f, Tabulates(start, f, s, k), NEW g, Tabulates(start, g, t, m)
  PROVE  f[n] = g[n]
<1>1. /\ f[0] = start
      /\ \A i \in 1 .. k : f[i] = Advance(f[i - 1], s[i])
  <2>1. Tabulates(start, f, s, k)
    OBVIOUS
  <2> QED BY ONLY <2>1, k \in Nat, TableEntries
<1>2. /\ g[0] = start
      /\ \A i \in 1 .. m : g[i] = Advance(g[i - 1], t[i])
  BY TableEntries
<1> DEFINE P == {j \in Nat : j <= n => f[j] = g[j]}
<1>3. 0 \in P
  BY <1>1, <1>2
<1>4. ASSUME NEW j \in P PROVE j + 1 \in P
  <2>1. SUFFICES ASSUME j + 1 <= n PROVE f[j + 1] = g[j + 1]
    OBVIOUS
  <2>2. f[j] = g[j]
    BY <2>1
  <2>3. j + 1 \in 1 .. n /\ j + 1 \in 1 .. k /\ j + 1 \in 1 .. m /\ (j + 1) - 1 = j
    BY <2>1
  <2> QED BY <1>1, <1>2, <2>2, <2>3
<1> HIDE DEF P
<1>5. n \in P
  <2>1. P \in SUBSET Nat
    BY DEF P
  <2> QED BY <1>3, <1>4, <2>1, Induction
<1> QED BY <1>5 DEF P

\* What is computed is the last entry of a table.
LEMMA TableComputes ==
  ASSUME NEW start, NEW seq, Len(seq) \in Nat
  PROVE  \E f : Tabulates(start, f, seq, Len(seq)) /\ From(start, seq) = f[Len(seq)]
<1> DEFINE f == CHOOSE f : Tabulates(start, f, seq, Len(seq))
<1>1. Tabulates(start, f, seq, Len(seq))
  <2>1. \E g : Tabulates(start, g, seq, Len(seq))
    BY TableExists
  <2> QED BY <2>1
<1>2. From(start, seq) = f[Len(seq)]
  BY DEF From, Tabulates
<1> QED BY <1>1, <1>2

-----------------------------------------------------------------------------
(***************************************************************************)
(* Runs.                                                                   *)
(***************************************************************************)

\* Nothing to go through leaves the start.
LEMMA FromEmpty == ASSUME NEW start PROVE From(start, <<>>) = start
<1>1. Len(<<>>) = 0
  OBVIOUS
<1>2. PICK f : Tabulates(start, f, <<>>, 0) /\ From(start, <<>>) = f[0]
  BY <1>1, TableComputes
<1> QED BY <1>2, TableEntries, ZenonT(60)

\* One more element is one more step.
LEMMA FromAppend ==
  ASSUME NEW start, NEW S, NEW seq \in Seq(S), NEW e \in S
  PROVE  From(start, Append(seq, e)) = Advance(From(start, seq), e)
<1> DEFINE more == Append(seq, e)
<1> DEFINE n == Len(seq)
<1>1. /\ n \in Nat
      /\ Len(more) = n + 1
      /\ \A i \in 1 .. n : seq[i] = more[i]
      /\ more[n + 1] = e
  OBVIOUS
<1> HIDE DEF more, n
<1>2. PICK f : Tabulates(start, f, seq, n) /\ From(start, seq) = f[n]
  BY <1>1, TableComputes DEF n
<1>3. PICK g : Tabulates(start, g, more, n + 1) /\ From(start, more) = g[n + 1]
  BY <1>1, TableComputes
<1>4. f[n] = g[n]
  <2>1. n <= n + 1 /\ n + 1 \in Nat /\ n <= n
    BY <1>1
  <2>2. /\ n \in Nat /\ n + 1 \in Nat /\ n <= n /\ n <= n + 1
        /\ \A i \in 1 .. n : seq[i] = more[i]
        /\ Tabulates(start, f, seq, n) /\ Tabulates(start, g, more, n + 1)
    BY <1>1, <1>2, <1>3, <2>1
  <2> QED BY ONLY <2>2, TablesAgree
<1>5. g[n + 1] = Advance(g[n], more[n + 1])
  <2>1. n + 1 \in Nat /\ n + 1 \in 1 .. n + 1 /\ (n + 1) - 1 = n
    BY <1>1
  <2>2. \A i \in 1 .. n + 1 : g[i] = Advance(g[i - 1], more[i])
    BY <1>3, <2>1, TableEntries
  <2> QED BY <2>1, <2>2
<1> QED BY <1>1, <1>2, <1>3, <1>4, <1>5 DEF more

\* The same of runs, which start where all runs do.
LEMMA RunEmpty == Run(<<>>) = Start
BY FromEmpty DEF Run

LEMMA RunAppend ==
  ASSUME NEW S, NEW seq \in Seq(S), NEW e \in S
  PROVE  Run(Append(seq, e)) = Advance(Run(seq), e)
BY FromAppend DEF Run

\* What the start has and each step keeps, is had to the end.
LEMMA FromInvariant ==
  ASSUME NEW S, NEW Inv, NEW start \in Inv,
         \A a \in Inv, e \in S : Advance(a, e) \in Inv,
         NEW seq \in Seq(S)
  PROVE  From(start, seq) \in Inv
<1> DEFINE P == {s \in Seq(S) : From(start, s) \in Inv}
<1>1. <<>> \in P
  BY FromEmpty, EmptySeq
<1>2. ASSUME NEW s \in P, NEW e \in S PROVE Append(s, e) \in P
  <2>1. From(start, Append(s, e)) = Advance(From(start, s), e)
    BY FromAppend
  <2>2. Append(s, e) \in Seq(S)
    BY AppendProperties
  <2> QED BY <2>1, <2>2
<1> HIDE DEF P
<1>3. P \in SUBSET Seq(S)
  BY DEF P
<1>4. seq \in P
  BY <1>1, <1>2, <1>3, SequenceInduction
<1> QED BY <1>4 DEF P

LEMMA RunInvariant ==
  ASSUME NEW S, NEW Inv, Start \in Inv,
         \A a \in Inv, e \in S : Advance(a, e) \in Inv,
         NEW seq \in Seq(S)
  PROVE  Run(seq) \in Inv
BY FromInvariant DEF Run
=============================================================================
