------------------------------ MODULE TillProofs ------------------------------
(***************************************************************************)
(* Till, proved for every number of sales, shifts, faults and ticks of the *)
(* clock.  What needs it says so: the clock is never set back before an    *)
(* event already sealed, and the sibling runs no shift.                    *)
(***************************************************************************)
EXTENDS Till, FiniteSetTheorems, SequenceTheorems, TLAPS

-----------------------------------------------------------------------------
(***************************************************************************)
(* Replay, read off the own chain: o is the sequence of own events, s the  *)
(* sibling's events.                                                       *)
(***************************************************************************)

\* The clock's reading never goes below an event already sealed, and the sibling
\* sells without a shift of its own.
Orderly ==
    /\ Backdates = FALSE
    /\ \A k \in 1 .. Len(SiblingLog) : SiblingLog[k].kind \notin ShiftKind

Indices(o) == 1 .. Len(o)

\* Own events stand in the order of their numbers and of the clock, and speak of
\* own sales and shifts; the sibling's speak of others and of no shift.
Kept(o, s) ==
    /\ o \in Seq(Event)
    /\ \A i \in Indices(o) : o[i].dev = "own" /\ o[i].seq = i
    /\ \A i, j \in Indices(o) : i <= j => o[i].at <= o[j].at
    /\ \A i \in Indices(o) :
          /\ o[i].kind \in ShiftKind => o[i].ref \in Shift
          /\ o[i].kind \notin ShiftKind => o[i].ref \in Ticket
    /\ \A e \in s : e.dev = "sibling" /\ e.ref \in Foreign /\ e.kind \notin ShiftKind

\* L is the place of the last event of some kinds; there is one, or none at all.
LastAt(o, kinds, L) ==
    /\ L \in Indices(o)
    /\ o[L].kind \in kinds
    /\ \A j \in Indices(o) : j > L => o[j].kind \notin kinds
Without(o, kinds) == \A i \in Indices(o) : o[i].kind \notin kinds
HasLast(o, kinds) == Without(o, kinds) \/ \E L \in Indices(o) : LastAt(o, kinds, L)

Mentions(o, kind, ref) == \E i \in Indices(o) : o[i].kind = kind /\ o[i].ref = ref
CompletedIn(o, k) ==
    \E i, j \in Indices(o) : /\ i < j
                             /\ o[i].kind = "sale_opened" /\ o[i].ref = k
                             /\ o[j].kind = "sale_completed" /\ o[j].ref = k

LEMMA KeptIsSeq ==
    ASSUME NEW o, NEW s, Kept(o, s)
    PROVE  o \in Seq(Event)
  BY DEF Kept

LEMMA OwnInOrder ==
    ASSUME NEW o, NEW s, Kept(o, s), NEW i \in Indices(o), NEW j \in Indices(o)
    PROVE  Earlier(o[i], o[j]) <=> i < j
<1>1. o[i].at \in Nat /\ o[j].at \in Nat
  <2>1. o[i] \in Event /\ o[j] \in Event
    BY DEF Kept, Indices
  <2> QED
    BY <2>1 DEF Event
<1>a. o[i].dev = o[j].dev /\ o[i].seq = i /\ o[j].seq = j
  BY DEF Kept
<1>b. i \in Nat /\ j \in Nat
  BY DEF Kept, Indices
<1>2. i <= j => o[i].at <= o[j].at
  BY DEF Kept
<1>3. j <= i => o[j].at <= o[i].at
  BY DEF Kept
<1> QED
  BY <1>1, <1>2, <1>3, <1>a, <1>b DEF Earlier

\* What is in the store is own at some place, or the sibling's.
LEMMA InStore ==
    ASSUME NEW o, NEW s, Kept(o, s), NEW e
    PROVE  e \in Range(o) \cup s <=> (\E i \in Indices(o) : e = o[i]) \/ e \in s
<1>1. DOMAIN o = Indices(o)
  BY DEF Kept, Indices
<1> QED
  BY <1>1 DEF Range

\* The last own event of some kinds is what Latest picks of them.
LEMMA LatestIs ==
    ASSUME NEW o, NEW s, Kept(o, s), NEW kinds, NEW L, LastAt(o, kinds, L)
    PROVE  Latest({e \in Range(o) : e.kind \in kinds}) = {o[L]}
<1> DEFINE S == {e \in Range(o) : e.kind \in kinds}
<1>1. DOMAIN o = Indices(o)
  BY DEF Kept, Indices
<1>2. L \in Indices(o) /\ o[L] \in S
  BY <1>1 DEF LastAt, Range
<1>3. ASSUME NEW f \in S PROVE \E j \in Indices(o) : f = o[j] /\ j <= L
  BY <1>1 DEF Range, LastAt, Indices
<1>4. \A f \in S \ {o[L]} : Earlier(f, o[L])
  <2> SUFFICES ASSUME NEW f \in S \ {o[L]} PROVE Earlier(f, o[L])
    OBVIOUS
  <2>1. PICK j \in Indices(o) : f = o[j] /\ j <= L
    BY <1>3
  <2>2. j < L
    BY <2>1, <1>2 DEF Indices
  <2> QED
    BY <2>1, <2>2, <1>2, OwnInOrder
<1>5. ASSUME NEW e \in S, \A f \in S \ {e} : Earlier(f, e) PROVE e = o[L]
  <2>1. PICK j \in Indices(o) : e = o[j] /\ j <= L
    BY <1>3
  <2>2. CASE e # o[L]
    <3>1. Earlier(o[L], o[j])
      BY <2>1, <2>2, <1>2, <1>5
    <3>2. L < j
      BY <3>1, <1>2, OwnInOrder
    <3> QED
      BY <2>1, <3>2, <1>2 DEF Indices
  <2> QED
    BY <2>2
<1> QED
  BY <1>2, <1>4, <1>5 DEF Latest

-----------------------------------------------------------------------------
(***************************************************************************)
(* The book.                                                               *)
(***************************************************************************)

\* A sale of this till is known as its own events say.
LEMMA BookIs ==
    ASSUME NEW o, NEW s, Kept(o, s), NEW k \in Ticket
    PROVE  BookOf(Range(o) \cup s)[k] =
              IF ~Mentions(o, "sale_opened", k) THEN "unknown"
              ELSE IF CompletedIn(o, k) THEN "completed" ELSE "open"
<1> DEFINE S == Range(o) \cup s
           opened == {e \in Of(S, {"sale_opened"}) : e.ref = k}
           completed == {e \in Of(S, {"sale_completed"}) : e.ref = k}
<1>1. \A e \in s : e.ref # k
  BY TillAssumption DEF Kept
<1>2. \A e : e \in opened <=> \E i \in Indices(o) : e = o[i] /\ o[i].kind = "sale_opened" /\ o[i].ref = k
  BY <1>1, InStore DEF Of
<1>3. \A e : e \in completed <=> \E i \in Indices(o) : e = o[i] /\ o[i].kind = "sale_completed" /\ o[i].ref = k
  BY <1>1, InStore DEF Of
<1>4. opened = {} <=> ~Mentions(o, "sale_opened", k)
  BY <1>2 DEF Mentions
<1>5. (\E x \in opened, c \in completed : Earlier(x, c)) <=> CompletedIn(o, k)
  <2>1. ASSUME NEW x \in opened, NEW c \in completed, Earlier(x, c) PROVE CompletedIn(o, k)
    <3>1. PICK i \in Indices(o) : x = o[i] /\ o[i].kind = "sale_opened" /\ o[i].ref = k
      BY <1>2
    <3>2. PICK j \in Indices(o) : c = o[j] /\ o[j].kind = "sale_completed" /\ o[j].ref = k
      BY <1>3
    <3>3. i < j
      BY <2>1, <3>1, <3>2, OwnInOrder
    <3> QED
      BY <3>1, <3>2, <3>3 DEF CompletedIn
  <2>2. ASSUME CompletedIn(o, k) PROVE \E x \in opened, c \in completed : Earlier(x, c)
    <3>1. PICK i \in Indices(o), j \in Indices(o) :
             i < j /\ o[i].kind = "sale_opened" /\ o[i].ref = k
                   /\ o[j].kind = "sale_completed" /\ o[j].ref = k
      BY <2>2 DEF CompletedIn
    <3>2. o[i] \in opened /\ o[j] \in completed /\ Earlier(o[i], o[j])
      BY <3>1, <1>2, <1>3, OwnInOrder
    <3> QED
      BY <3>2
  <2> QED
    BY <2>1, <2>2
<1>6. k \in Sale
  BY DEF Sale
<1>7. BookOf(S)[k] = IF opened = {} THEN "unknown"
                     ELSE IF \E x \in opened, c \in completed : Earlier(x, c) THEN "completed"
                     ELSE "open"
  BY <1>6 DEF BookOf
<1> QED
  BY <1>4, <1>5, <1>7

\* A sale of the sibling's is known as the sibling's events say.
LEMMA BookOfForeign ==
    ASSUME NEW o, NEW s, Kept(o, s), NEW k \in Foreign
    PROVE  BookOf(Range(o) \cup s)[k] = BookOf(s)[k]
<1> DEFINE S == Range(o) \cup s
<1>1. \A e \in Range(o) : e.kind \in SaleKind => e.ref # k
  <2> SUFFICES ASSUME NEW e \in Range(o), e.kind \in SaleKind PROVE e.ref # k
    OBVIOUS
  <2>1. PICK i \in Indices(o) : e = o[i]
    BY DEF Range, Kept, Indices
  <2>2. e.kind \notin ShiftKind
    BY DEF SaleKind, ShiftKind
  <2> QED
    BY <2>1, <2>2, TillAssumption DEF Kept
<1>2. {e \in Of(S, {"sale_opened"}) : e.ref = k} = {e \in Of(s, {"sale_opened"}) : e.ref = k}
  BY <1>1 DEF Of, SaleKind
<1>3. {e \in Of(S, {"sale_completed"}) : e.ref = k} = {e \in Of(s, {"sale_completed"}) : e.ref = k}
  BY <1>1 DEF Of, SaleKind
<1>4. k \in Sale
  BY DEF Sale
<1> QED
  BY <1>2, <1>3, <1>4 DEF BookOf

LEMMA BookTyped ==
    ASSUME NEW S
    PROVE  BookOf(S) \in [Sale -> {"unknown", "open", "completed"}]
  BY DEF BookOf

-----------------------------------------------------------------------------
(***************************************************************************)
(* The counter and the drawer.                                             *)
(***************************************************************************)

\* The counter is the last own invoice's, or none was issued.
LEMMA FiscalIs ==
    ASSUME NEW o, NEW s, Kept(o, s), NEW L, LastAt(o, {"invoice"}, L)
    PROVE  FiscalTip(Range(o) \cup s) = o[L].n
<1> DEFINE mine == {e \in Of(Range(o) \cup s, {"invoice"}) : e.dev = "own"}
<1>1. \A e \in Range(o) : e.dev = "own"
  BY DEF Kept, Range, Indices
<1>2. mine = {e \in Range(o) : e.kind \in {"invoice"}}
  BY <1>1 DEF Of, Kept
<1>3. Latest(mine) = {o[L]}
  BY <1>2, LatestIs
<1>4. mine # {}
  BY <1>3 DEF Latest
<1>5. FiscalTip(Range(o) \cup s) = (CHOOSE e \in Latest(mine) : TRUE).n
  BY <1>4 DEF FiscalTip
<1> QED
  BY <1>3, <1>5

LEMMA FiscalIsZero ==
    ASSUME NEW o, NEW s, Kept(o, s), Without(o, {"invoice"})
    PROVE  FiscalTip(Range(o) \cup s) = 0
<1>1. \A e \in Range(o) : e.kind # "invoice"
  BY DEF Without, Range, Kept, Indices
<1>2. {e \in Of(Range(o) \cup s, {"invoice"}) : e.dev = "own"} = {}
  BY <1>1 DEF Of, Kept
<1> QED
  BY <1>2 DEF FiscalTip

\* The shift events stored are the till's own.
LEMMA ShiftsAreOwn ==
    ASSUME NEW o, NEW s, Kept(o, s)
    PROVE  Of(Range(o) \cup s, ShiftKind) = {e \in Range(o) : e.kind \in ShiftKind}
  BY DEF Of, Kept

\* The drawer is that of the last shift the till spoke of, unless it closed it.
LEMMA DrawerIs ==
    ASSUME NEW o, NEW s, Kept(o, s), NEW L, LastAt(o, ShiftKind, L)
    PROVE  DrawerOf(Range(o) \cup s) =
              IF Mentions(o, "shift_closed", o[L].ref) THEN NoShift
              ELSE Running(o[L].ref, Mentions(o, "shift_counted", o[L].ref))
<1> DEFINE S == Range(o) \cup s
           T == LastStream(S)
<1>1. DOMAIN o = Indices(o)
  BY DEF Kept, Indices
<1>2. T = {e \in Range(o) : e.kind \in ShiftKind /\ e.ref = o[L].ref}
  <2>1. Latest(Of(S, ShiftKind)) = {o[L]}
    BY ShiftsAreOwn, LatestIs
  <2> QED
    BY <2>1, ShiftsAreOwn DEF LastStream
<1>3. o[L] \in T
  BY <1>1, <1>2 DEF LastAt, Range
<1>4. Of(T, {"shift_closed"}) # {} <=> Mentions(o, "shift_closed", o[L].ref)
  <2>1. \A e : e \in Range(o) <=> \E i \in Indices(o) : e = o[i]
    BY <1>1 DEF Range
  <2>2. "shift_closed" \in ShiftKind
    BY DEF ShiftKind
  <2>3. \A e : e \in Of(T, {"shift_closed"}) <=>
                 e \in Range(o) /\ e.kind = "shift_closed" /\ e.ref = o[L].ref
    BY <1>2, <2>2 DEF Of
  <2> HIDE DEF T
  <2> QED
    BY <2>1, <2>3 DEF Mentions
<1>5. Of(T, {"shift_counted"}) # {} <=> Mentions(o, "shift_counted", o[L].ref)
  <2>1. \A e : e \in Range(o) <=> \E i \in Indices(o) : e = o[i]
    BY <1>1 DEF Range
  <2>2. "shift_counted" \in ShiftKind
    BY DEF ShiftKind
  <2>3. \A e : e \in Of(T, {"shift_counted"}) <=>
                 e \in Range(o) /\ e.kind = "shift_counted" /\ e.ref = o[L].ref
    BY <1>2, <2>2 DEF Of
  <2> HIDE DEF T
  <2> QED
    BY <2>1, <2>3 DEF Mentions
<1>6. (CHOOSE e \in T : TRUE).ref = o[L].ref
  BY <1>2, <1>3
<1>7. DrawerOf(S) = IF T = {} \/ Of(T, {"shift_closed"}) # {} THEN NoShift
                    ELSE Running((CHOOSE e \in T : TRUE).ref, Of(T, {"shift_counted"}) # {})
  BY DEF DrawerOf
<1>8. (Of(T, {"shift_counted"}) # {}) = Mentions(o, "shift_counted", o[L].ref)
  BY <1>5 DEF Mentions
<1> HIDE DEF T
<1> QED
  BY <1>3, <1>4, <1>6, <1>7, <1>8

LEMMA DrawerIsNone ==
    ASSUME NEW o, NEW s, Kept(o, s), Without(o, ShiftKind)
    PROVE  DrawerOf(Range(o) \cup s) = NoShift
<1>a. \A e \in Range(o) : e.kind \notin ShiftKind
  BY DEF Without, Range, Kept, Indices
<1>1. Of(Range(o) \cup s, ShiftKind) = {}
  BY <1>a, ShiftsAreOwn
<1>2. LastStream(Range(o) \cup s) = {}
  BY <1>1 DEF LastStream
<1> QED
  BY <1>2 DEF DrawerOf

\* Without a new shift event the drawer stays; without a new own invoice the
\* counter does.
LEMMA DrawerUnmoved ==
    ASSUME NEW S, NEW T, Of(S, ShiftKind) = Of(T, ShiftKind)
    PROVE  DrawerOf(S) = DrawerOf(T)
  BY DEF DrawerOf, LastStream

-----------------------------------------------------------------------------
(***************************************************************************)
(* One more own event: p is o with x at its end.                           *)
(***************************************************************************)

Grown(o, p, x) ==
    /\ p \in Seq(Event)
    /\ Len(p) = Len(o) + 1
    /\ \A i \in Indices(o) : p[i] = o[i]
    /\ p[Len(o) + 1] = x

\* An event this till may seal next: numbered after its last, stamped no
\* earlier, of an own sale or shift.
MayFollow(o, x) ==
    /\ x \in Event
    /\ x.dev = "own"
    /\ x.seq = Len(o) + 1
    /\ \A i \in Indices(o) : o[i].at <= x.at
    /\ x.kind \in ShiftKind => x.ref \in Shift
    /\ x.kind \notin ShiftKind => x.ref \in Ticket

LEMMA KeptGrows ==
    ASSUME NEW o, NEW s, Kept(o, s), NEW p, NEW x, Grown(o, p, x), MayFollow(o, x)
    PROVE  Kept(p, s)
<1>1. Len(o) \in Nat
  BY DEF Kept
<1>2. \A i \in Indices(p) : i \in Indices(o) \/ i = Len(o) + 1
  BY <1>1 DEF Grown, Indices
<1>3. \A i \in Indices(p) : p[i].dev = "own" /\ p[i].seq = i
  BY <1>2 DEF Grown, MayFollow, Kept
<1>4. ASSUME NEW i \in Indices(p), NEW j \in Indices(p), i <= j PROVE p[i].at <= p[j].at
  <2>1. CASE j \in Indices(o)
    <3>1. i \in Indices(o)
      BY <1>1, <1>4, <2>1 DEF Indices
    <3> QED
      BY <3>1, <2>1, <1>4 DEF Grown, Kept
  <2>2. CASE j = Len(o) + 1 /\ i \in Indices(o)
    BY <2>2 DEF Grown, MayFollow
  <2>3. CASE j = Len(o) + 1 /\ i = Len(o) + 1
    <3>1. p[i] = x /\ p[j] = x /\ x.at \in Nat
      BY <2>3 DEF Grown, MayFollow, Event
    <3> QED
      BY <3>1
  <2> QED
    BY <1>2, <2>1, <2>2, <2>3
<1>5. \A i \in Indices(p) : /\ p[i].kind \in ShiftKind => p[i].ref \in Shift
                            /\ p[i].kind \notin ShiftKind => p[i].ref \in Ticket
  BY <1>2 DEF Grown, MayFollow, Kept
<1> QED
  BY <1>3, <1>4, <1>5 DEF Kept, Grown

\* What p mentions.
LEMMA MentionsGrows ==
    ASSUME NEW o \in Seq(Event), NEW p, NEW x, Grown(o, p, x), NEW kind, NEW ref
    PROVE  Mentions(p, kind, ref) <=> Mentions(o, kind, ref) \/ (x.kind = kind /\ x.ref = ref)
<1>1. \A i : i \in Indices(p) <=> i \in Indices(o) \/ i = Len(o) + 1
  BY DEF Grown, Indices
<1> QED
  BY <1>1 DEF Grown, Mentions

LEMMA CompletedGrows ==
    ASSUME NEW o \in Seq(Event), NEW p, NEW x, Grown(o, p, x), NEW k
    PROVE  CompletedIn(p, k) <=>
              \/ CompletedIn(o, k)
              \/ x.kind = "sale_completed" /\ x.ref = k /\ Mentions(o, "sale_opened", k)
<1>1. \A i : i \in Indices(p) <=> i \in Indices(o) \/ i = Len(o) + 1
  BY DEF Grown, Indices
<1>2. \A i \in Indices(o) : i < Len(o) + 1 /\ p[i] = o[i]
  BY DEF Grown, Indices
<1>3. \A i \in Indices(o) : ~(Len(o) + 1 < i)
  BY DEF Indices
<1>4. p[Len(o) + 1] = x /\ ~(Len(o) + 1 < Len(o) + 1)
  BY DEF Grown
<1> QED
  BY <1>1, <1>2, <1>3, <1>4 DEF CompletedIn, Mentions

\* The last event of some kinds.
LEMMA LastGrows ==
    ASSUME NEW o \in Seq(Event), NEW p, NEW x, Grown(o, p, x), NEW kinds
    PROVE  /\ x.kind \in kinds => LastAt(p, kinds, Len(o) + 1)
           /\ x.kind \notin kinds =>
                 /\ Without(o, kinds) => Without(p, kinds)
                 /\ \A L : LastAt(o, kinds, L) => LastAt(p, kinds, L)
<1>1. \A i : i \in Indices(p) <=> i \in Indices(o) \/ i = Len(o) + 1
  BY DEF Grown, Indices
<1>2. \A i \in Indices(o) : i < Len(o) + 1 /\ p[i] = o[i]
  BY DEF Grown, Indices
<1>3. p[Len(o) + 1] = x
  BY DEF Grown
<1>4. \A i \in Indices(o) : ~(i > Len(o) + 1)
  BY DEF Indices
<1>5. ~(Len(o) + 1 > Len(o) + 1)
  OBVIOUS
<1>6. ASSUME x.kind \in kinds PROVE LastAt(p, kinds, Len(o) + 1)
  BY <1>1, <1>3, <1>4, <1>5, <1>6 DEF LastAt
<1>7. ASSUME x.kind \notin kinds, Without(o, kinds) PROVE Without(p, kinds)
  BY <1>1, <1>2, <1>3, <1>7 DEF Without
<1>8. ASSUME x.kind \notin kinds, NEW L, LastAt(o, kinds, L) PROVE LastAt(p, kinds, L)
  BY <1>1, <1>2, <1>3, <1>8 DEF LastAt
<1> QED
  BY <1>6, <1>7, <1>8

LEMMA HasLastGrows ==
    ASSUME NEW o \in Seq(Event), NEW p, NEW x, Grown(o, p, x), NEW kinds, HasLast(o, kinds)
    PROVE  HasLast(p, kinds)
<1>1. CASE x.kind \in kinds
  <2>1. LastAt(p, kinds, Len(o) + 1)
    BY <1>1, LastGrows
  <2> QED
    BY <2>1 DEF HasLast, LastAt
<1>2. CASE x.kind \notin kinds
  <2>1. CASE Without(o, kinds)
    BY <1>2, <2>1, LastGrows DEF HasLast
  <2>2. CASE \E L \in Indices(o) : LastAt(o, kinds, L)
    <3>1. PICK L : LastAt(o, kinds, L)
      BY <2>2
    <3>2. LastAt(p, kinds, L)
      BY <1>2, <3>1, LastGrows
    <3> QED
      BY <3>2 DEF HasLast, LastAt
  <2> QED
    BY <2>1, <2>2 DEF HasLast
<1> QED
  BY <1>1, <1>2

\* Appending in the model is growing by one.
LEMMA AppendGrows ==
    ASSUME NEW o \in Seq(Event), NEW x \in Event
    PROVE  Grown(o, o \o <<x>>, x)
  BY DEF Grown, Indices

LEMMA AppendTwoGrows ==
    ASSUME NEW o \in Seq(Event), NEW x \in Event, NEW y \in Event
    PROVE  Grown(o \o <<x>>, o \o <<x, y>>, y)
<1>1. o \o <<x>> \in Seq(Event) /\ o \o <<x, y>> \in Seq(Event)
  OBVIOUS
<1>2. Len(o \o <<x>>) = Len(o) + 1 /\ Len(o \o <<x, y>>) = Len(o) + 2
  OBVIOUS
<1>3. ASSUME NEW i \in 1 .. Len(o) + 1 PROVE (o \o <<x, y>>)[i] = (o \o <<x>>)[i]
  OBVIOUS
<1> QED
  BY <1>1, <1>2, <1>3 DEF Grown, Indices

-----------------------------------------------------------------------------
(***************************************************************************)
(* What one more own event changes in a replay, and what it does not.      *)
(***************************************************************************)

LEMMA RangeGrows ==
    ASSUME NEW o \in Seq(Event), NEW p, NEW x, Grown(o, p, x)
    PROVE  Range(p) = Range(o) \cup {x}
<1>1. DOMAIN p = Indices(o) \cup {Len(o) + 1} /\ DOMAIN o = Indices(o)
  BY DEF Grown, Indices
<1>2. \A i \in Indices(o) : p[i] = o[i]
  BY DEF Grown
<1>3. p[Len(o) + 1] = x
  BY DEF Grown
<1> QED
  BY <1>1, <1>2, <1>3 DEF Range

LEMMA Unaffected ==
    ASSUME NEW o \in Seq(Event), NEW s, NEW p, NEW x, Grown(o, p, x)
    PROVE  /\ x.kind \notin SaleKind =>
                 BookOf(Range(p) \cup s) = BookOf(Range(o) \cup s)
           /\ x.kind # "invoice" =>
                 FiscalTip(Range(p) \cup s) = FiscalTip(Range(o) \cup s)
           /\ x.kind \notin ShiftKind =>
                 DrawerOf(Range(p) \cup s) = DrawerOf(Range(o) \cup s)
<1> DEFINE S == Range(o) \cup s
           T == Range(p) \cup s
<1>1. T = S \cup {x}
  BY RangeGrows
<1>2. ASSUME x.kind \notin SaleKind PROVE BookOf(T) = BookOf(S)
  <2>1. Of(T, {"sale_opened"}) = Of(S, {"sale_opened"})
    BY <1>1, <1>2 DEF Of, SaleKind
  <2>2. Of(T, {"sale_completed"}) = Of(S, {"sale_completed"})
    BY <1>1, <1>2 DEF Of, SaleKind
  <2> HIDE DEF S, T
  <2> QED
    BY <2>1, <2>2 DEF BookOf
<1>3. ASSUME x.kind # "invoice" PROVE FiscalTip(T) = FiscalTip(S)
  <2> DEFINE Mine(X) == {e \in Of(X, {"invoice"}) : e.dev = "own"}
             Count(M) == IF M = {} THEN 0 ELSE (CHOOSE e \in Latest(M) : TRUE).n
  <2>1. Mine(T) = Mine(S)
    BY <1>1, <1>3 DEF Of
  <2>2. FiscalTip(T) = Count(Mine(T)) /\ FiscalTip(S) = Count(Mine(S))
    BY DEF FiscalTip
  <2> HIDE DEF Mine, Count
  <2> QED
    BY <2>1, <2>2
<1>4. ASSUME x.kind \notin ShiftKind PROVE DrawerOf(T) = DrawerOf(S)
  <2>1. Of(T, ShiftKind) = Of(S, ShiftKind)
    BY <1>1, <1>4 DEF Of
  <2> QED
    BY <2>1, DrawerUnmoved
<1> QED
  BY <1>2, <1>3, <1>4

\* Only the sale an event speaks of changes.
LEMMA OtherSales ==
    ASSUME NEW o, NEW s, Kept(o, s), NEW p, NEW x, Grown(o, p, x), MayFollow(o, x),
           NEW k \in Sale, x.ref # k
    PROVE  BookOf(Range(p) \cup s)[k] = BookOf(Range(o) \cup s)[k]
<1>1. Kept(p, s) /\ o \in Seq(Event)
  BY KeptGrows, KeptIsSeq
<1>2. CASE k \in Ticket
  <2>1. Mentions(p, "sale_opened", k) <=> Mentions(o, "sale_opened", k)
    BY <1>1, MentionsGrows
  <2>2. CompletedIn(p, k) <=> CompletedIn(o, k)
    BY <1>1, CompletedGrows
  <2> QED
    BY <1>1, <1>2, <2>1, <2>2, BookIs
<1>3. CASE k \in Foreign
  BY <1>1, <1>3, BookOfForeign
<1> QED
  BY <1>2, <1>3 DEF Sale

LEMMA BookOpens ==
    ASSUME NEW o, NEW s, Kept(o, s), NEW p, NEW x, Grown(o, p, x), MayFollow(o, x),
           NEW k \in Ticket, x.kind = "sale_opened", x.ref = k,
           BookOf(Range(o) \cup s)[k] = "unknown"
    PROVE  BookOf(Range(p) \cup s) = [BookOf(Range(o) \cup s) EXCEPT ![k] = "open"]
<1>1. Kept(p, s) /\ o \in Seq(Event) /\ k \in Sale
  BY KeptGrows, KeptIsSeq DEF Sale
<1>2. ~Mentions(o, "sale_opened", k)
  BY BookIs
<1>3. Mentions(p, "sale_opened", k)
  BY <1>1, MentionsGrows
<1>4. ~CompletedIn(p, k)
  <2>1. ~CompletedIn(o, k)
    BY <1>2 DEF CompletedIn, Mentions
  <2> QED
    BY <2>1, <1>1, CompletedGrows
<1>5. BookOf(Range(p) \cup s)[k] = "open"
  BY <1>1, <1>3, <1>4, BookIs
<1>6. \A other \in Sale : other # k =>
         BookOf(Range(p) \cup s)[other] = BookOf(Range(o) \cup s)[other]
  BY OtherSales
<1> QED
  BY <1>1, <1>5, <1>6, BookTyped

LEMMA BookCompletes ==
    ASSUME NEW o, NEW s, Kept(o, s), NEW p, NEW x, Grown(o, p, x), MayFollow(o, x),
           NEW k \in Ticket, x.kind = "sale_completed", x.ref = k,
           BookOf(Range(o) \cup s)[k] = "open"
    PROVE  BookOf(Range(p) \cup s) = [BookOf(Range(o) \cup s) EXCEPT ![k] = "completed"]
<1>1. Kept(p, s) /\ o \in Seq(Event) /\ k \in Sale
  BY KeptGrows, KeptIsSeq DEF Sale
<1>2. Mentions(o, "sale_opened", k)
  BY BookIs
<1>3. Mentions(p, "sale_opened", k) /\ CompletedIn(p, k)
  BY <1>1, <1>2, MentionsGrows, CompletedGrows
<1>5. BookOf(Range(p) \cup s)[k] = "completed"
  BY <1>1, <1>3, BookIs
<1>6. \A other \in Sale : other # k =>
         BookOf(Range(p) \cup s)[other] = BookOf(Range(o) \cup s)[other]
  BY OtherSales
<1> QED
  BY <1>1, <1>5, <1>6, BookTyped

\* The drawer after one more shift event of the till.
LEMMA DrawerGrows ==
    ASSUME NEW o, NEW s, Kept(o, s), NEW p, NEW x, Grown(o, p, x), MayFollow(o, x),
           x.kind \in ShiftKind, ~Mentions(o, "shift_closed", x.ref)
    PROVE  DrawerOf(Range(p) \cup s) =
              IF x.kind = "shift_closed" THEN NoShift
              ELSE Running(x.ref, Mentions(o, "shift_counted", x.ref)
                                    \/ x.kind = "shift_counted")
<1>1. Kept(p, s) /\ o \in Seq(Event)
  BY KeptGrows, KeptIsSeq
<1>2. LastAt(p, ShiftKind, Len(o) + 1) /\ p[Len(o) + 1] = x
  BY <1>1, LastGrows DEF Grown
<1>3. Mentions(p, "shift_closed", x.ref) <=> x.kind = "shift_closed"
  BY <1>1, MentionsGrows
<1>4. Mentions(p, "shift_counted", x.ref) = (Mentions(o, "shift_counted", x.ref)
                                               \/ x.kind = "shift_counted")
  <2>1. Mentions(p, "shift_counted", x.ref) <=> (Mentions(o, "shift_counted", x.ref)
                                               \/ x.kind = "shift_counted")
    BY <1>1, MentionsGrows
  <2> QED
    BY <2>1 DEF Mentions
<1>5. DrawerOf(Range(p) \cup s) =
              IF Mentions(p, "shift_closed", x.ref) THEN NoShift
              ELSE Running(x.ref, Mentions(p, "shift_counted", x.ref))
  BY <1>1, <1>2, DrawerIs
<1> QED
  BY <1>3, <1>4, <1>5

-----------------------------------------------------------------------------
(***************************************************************************)
(* Invoices: numbered without a gap, one for each completed sale.          *)
(***************************************************************************)

InvoicesUpTo(o, i) == {j \in 1 .. i : o[j].kind = "invoice"}
Gapless(o) ==
    \A i \in Indices(o) : o[i].kind = "invoice" => o[i].n = Cardinality(InvoicesUpTo(o, i))

LEMMA InvoicesFinite ==
    ASSUME NEW o, NEW i \in Nat
    PROVE  IsFiniteSet(InvoicesUpTo(o, i)) /\ Cardinality(InvoicesUpTo(o, i)) \in Nat
<1>1. IsFiniteSet(1 .. i)
  BY FS_Interval
<1>2. InvoicesUpTo(o, i) \in SUBSET (1 .. i)
  BY DEF InvoicesUpTo
<1>3. IsFiniteSet(InvoicesUpTo(o, i))
  BY <1>1, <1>2, FS_Subset
<1> QED
  BY <1>3, FS_CardinalityType

\* The counter that load resumes from is the number of invoices issued.
LEMMA FiscalCounts ==
    ASSUME NEW o, NEW s, Kept(o, s), HasLast(o, {"invoice"}), Gapless(o)
    PROVE  FiscalTip(Range(o) \cup s) = Cardinality(InvoicesUpTo(o, Len(o)))
<1>1. Len(o) \in Nat
  BY KeptIsSeq
<1>2. CASE Without(o, {"invoice"})
  <2>1. InvoicesUpTo(o, Len(o)) = {}
    BY <1>2 DEF Without, InvoicesUpTo, Indices
  <2> QED
    BY <1>2, <2>1, FiscalIsZero, FS_EmptySet
<1>3. CASE \E L \in Indices(o) : LastAt(o, {"invoice"}, L)
  <2>1. PICK L : LastAt(o, {"invoice"}, L)
    BY <1>3
  <2>2. InvoicesUpTo(o, Len(o)) = InvoicesUpTo(o, L)
    BY <1>1, <2>1 DEF LastAt, InvoicesUpTo, Indices
  <2>3. o[L].n = Cardinality(InvoicesUpTo(o, L))
    BY <2>1 DEF Gapless, LastAt
  <2> QED
    BY <2>1, <2>2, <2>3, FiscalIs
<1> QED
  BY <1>2, <1>3 DEF HasLast

LEMMA InvoicesStay ==
    ASSUME NEW o \in Seq(Event), NEW p, NEW x, Grown(o, p, x), NEW i \in Indices(o)
    PROVE  InvoicesUpTo(p, i) = InvoicesUpTo(o, i)
<1>1. \A j \in 1 .. i : p[j] = o[j]
  BY DEF Grown, Indices
<1> QED
  BY <1>1 DEF InvoicesUpTo

\* The new number is the next one.
LEMMA GaplessGrows ==
    ASSUME NEW o \in Seq(Event), NEW p, NEW x, Grown(o, p, x), Gapless(o),
           x.kind = "invoice" => x.n = Cardinality(InvoicesUpTo(o, Len(o))) + 1
    PROVE  Gapless(p)
<1>1. Len(o) \in Nat
  OBVIOUS
<1> SUFFICES ASSUME NEW i \in Indices(p), p[i].kind = "invoice"
             PROVE  p[i].n = Cardinality(InvoicesUpTo(p, i))
  BY DEF Gapless
<1>2. CASE i \in Indices(o)
  BY <1>2, InvoicesStay DEF Gapless, Grown
<1>3. CASE i = Len(o) + 1
  <2>1. p[i] = x
    BY <1>3 DEF Grown
  <2>2. \A j \in 1 .. Len(o) : p[j] = o[j]
    BY DEF Grown, Indices
  <2>3. InvoicesUpTo(p, i) = InvoicesUpTo(o, Len(o)) \cup {i}
    BY <1>1, <1>3, <2>1, <2>2 DEF InvoicesUpTo
  <2>4. i \notin InvoicesUpTo(o, Len(o))
    BY <1>1, <1>3 DEF InvoicesUpTo
  <2>5. Cardinality(InvoicesUpTo(p, i)) = Cardinality(InvoicesUpTo(o, Len(o))) + 1
    BY <1>1, <2>3, <2>4, InvoicesFinite, FS_AddElement
  <2> QED
    BY <2>1, <2>5
<1> QED
  BY <1>1, <1>2, <1>3 DEF Grown, Indices

LEMMA CountStays ==
    ASSUME NEW o \in Seq(Event), NEW p, NEW x, Grown(o, p, x), x.kind # "invoice"
    PROVE  InvoicesUpTo(p, Len(p)) = InvoicesUpTo(o, Len(o))
<1>1. Len(o) \in Nat /\ Len(p) = Len(o) + 1
  BY DEF Grown
<1>2. \A j \in 1 .. Len(o) : p[j] = o[j]
  BY DEF Grown, Indices
<1>3. p[Len(o) + 1].kind # "invoice"
  BY DEF Grown
<1> QED
  BY <1>1, <1>2, <1>3 DEF InvoicesUpTo

\* Completions and invoices come in pairs, each sale once, after its opening.
Paired(o) ==
    /\ \A i \in Indices(o) : o[i].kind = "sale_completed" =>
          i < Len(o) /\ o[i + 1].kind = "invoice" /\ o[i + 1].ref = o[i].ref
    /\ \A i \in Indices(o) : o[i].kind = "invoice" =>
          i > 1 /\ o[i - 1].kind = "sale_completed" /\ o[i - 1].ref = o[i].ref
    /\ \A i, j \in Indices(o) :
          o[i].kind = "sale_completed" /\ o[j].kind = "sale_completed" /\ o[i].ref = o[j].ref
             => i = j
    /\ \A i \in Indices(o) : o[i].kind = "sale_completed" => CompletedIn(o, o[i].ref)

LEMMA PairedGrows ==
    ASSUME NEW o \in Seq(Event), NEW p, NEW x, Grown(o, p, x), Paired(o),
           x.kind \notin {"sale_completed", "invoice"}
    PROVE  Paired(p)
<1>1. Len(o) \in Nat /\ Len(p) = Len(o) + 1
  BY DEF Grown
<1>2. \A i : i \in Indices(p) <=> i \in Indices(o) \/ i = Len(o) + 1
  BY <1>1 DEF Indices
<1>3. \A i \in Indices(o) : p[i] = o[i]
  BY DEF Grown
<1>4. p[Len(o) + 1] = x
  BY DEF Grown
<1>5. ASSUME NEW i \in Indices(p), p[i].kind = "sale_completed"
      PROVE  i < Len(p) /\ p[i + 1].kind = "invoice" /\ p[i + 1].ref = p[i].ref
  <2>1. i \in Indices(o)
    BY <1>2, <1>4, <1>5
  <2>2. i < Len(o) /\ o[i + 1].kind = "invoice" /\ o[i + 1].ref = o[i].ref
    BY <2>1, <1>3, <1>5 DEF Paired
  <2>3. i + 1 \in Indices(o)
    BY <1>1, <2>1, <2>2 DEF Indices
  <2> QED
    BY <1>1, <1>3, <2>1, <2>2, <2>3 DEF Indices
<1>6. ASSUME NEW i \in Indices(p), p[i].kind = "invoice"
      PROVE  i > 1 /\ p[i - 1].kind = "sale_completed" /\ p[i - 1].ref = p[i].ref
  <2>1. i \in Indices(o)
    BY <1>2, <1>4, <1>6
  <2>2. i > 1 /\ o[i - 1].kind = "sale_completed" /\ o[i - 1].ref = o[i].ref
    BY <2>1, <1>3, <1>6 DEF Paired
  <2>3. i - 1 \in Indices(o)
    BY <1>1, <2>1, <2>2 DEF Indices
  <2> QED
    BY <1>3, <2>1, <2>2, <2>3
<1>7. ASSUME NEW i \in Indices(p), NEW j \in Indices(p), p[i].kind = "sale_completed",
             p[j].kind = "sale_completed", p[i].ref = p[j].ref
      PROVE  i = j
  <2>1. i \in Indices(o) /\ j \in Indices(o)
    BY <1>2, <1>4, <1>7
  <2> QED
    BY <2>1, <1>3, <1>7 DEF Paired
<1>8. ASSUME NEW i \in Indices(p), p[i].kind = "sale_completed" PROVE CompletedIn(p, p[i].ref)
  <2>1. i \in Indices(o)
    BY <1>2, <1>4, <1>8
  <2>2. CompletedIn(o, o[i].ref) /\ p[i] = o[i]
    BY <2>1, <1>3, <1>8 DEF Paired
  <2> QED
    BY <2>2, CompletedGrows
<1> QED
  BY <1>5, <1>6, <1>7, <1>8 DEF Paired

\* A completion and its invoice, of an open sale.
LEMMA PairedCompletes ==
    ASSUME NEW o \in Seq(Event), NEW m, NEW x, Grown(o, m, x), NEW p, NEW y, Grown(m, p, y),
           Paired(o), x.kind = "sale_completed", y.kind = "invoice", x.ref = y.ref,
           Mentions(o, "sale_opened", x.ref), ~CompletedIn(o, x.ref)
    PROVE  Paired(p)
<1>1. Len(o) \in Nat /\ Len(m) = Len(o) + 1 /\ Len(p) = Len(o) + 2 /\ m \in Seq(Event)
  BY DEF Grown
<1>2. \A i : i \in Indices(p) <=> i \in Indices(o) \/ i = Len(o) + 1 \/ i = Len(o) + 2
  BY <1>1 DEF Indices
<1>3. \A i \in Indices(o) : p[i] = o[i]
  BY <1>1 DEF Grown, Indices
<1>4. p[Len(o) + 1] = x /\ p[Len(o) + 2] = y
  BY <1>1 DEF Grown, Indices
<1>5. \A i \in Indices(o) : o[i].kind = "sale_completed" => o[i].ref # x.ref
  BY DEF Paired
<1>6. ASSUME NEW i \in Indices(p), p[i].kind = "sale_completed"
      PROVE  i < Len(p) /\ p[i + 1].kind = "invoice" /\ p[i + 1].ref = p[i].ref
  <2>1. CASE i \in Indices(o)
    <3>1. i < Len(o) /\ o[i + 1].kind = "invoice" /\ o[i + 1].ref = o[i].ref
      BY <2>1, <1>3, <1>6 DEF Paired
    <3>2. i + 1 \in Indices(o)
      BY <1>1, <2>1, <3>1 DEF Indices
    <3> QED
      BY <1>1, <1>3, <2>1, <3>1, <3>2 DEF Indices
  <2>2. CASE i = Len(o) + 1
    <3>1. i + 1 = Len(o) + 2 /\ i < Len(p)
      BY <1>1, <2>2
    <3> QED
      BY <2>2, <3>1, <1>4
  <2>3. CASE i = Len(o) + 2
    BY <2>3, <1>4, <1>6
  <2> QED
    BY <1>2, <2>1, <2>2, <2>3
<1>7. ASSUME NEW i \in Indices(p), p[i].kind = "invoice"
      PROVE  i > 1 /\ p[i - 1].kind = "sale_completed" /\ p[i - 1].ref = p[i].ref
  <2>1. CASE i \in Indices(o)
    <3>1. i > 1 /\ o[i - 1].kind = "sale_completed" /\ o[i - 1].ref = o[i].ref
      BY <2>1, <1>3, <1>7 DEF Paired
    <3>2. i - 1 \in Indices(o)
      BY <1>1, <2>1, <3>1 DEF Indices
    <3> QED
      BY <1>3, <2>1, <3>1, <3>2
  <2>2. CASE i = Len(o) + 1
    BY <2>2, <1>4, <1>7
  <2>3. CASE i = Len(o) + 2
    <3>1. i - 1 = Len(o) + 1 /\ i > 1
      BY <1>1, <2>3
    <3> QED
      BY <2>3, <3>1, <1>4
  <2> QED
    BY <1>2, <2>1, <2>2, <2>3
<1>8. ASSUME NEW i \in Indices(p), NEW j \in Indices(p), p[i].kind = "sale_completed",
             p[j].kind = "sale_completed", p[i].ref = p[j].ref
      PROVE  i = j
  <2>1. i # Len(o) + 2 /\ j # Len(o) + 2
    BY <1>4, <1>8
  <2>2. CASE i \in Indices(o) /\ j \in Indices(o)
    BY <2>2, <1>3, <1>8 DEF Paired
  <2>3. CASE i \in Indices(o) /\ j = Len(o) + 1
    BY <2>3, <1>3, <1>4, <1>5, <1>8
  <2>4. CASE j \in Indices(o) /\ i = Len(o) + 1
    BY <2>4, <1>3, <1>4, <1>5, <1>8
  <2> QED
    BY <1>2, <2>1, <2>2, <2>3, <2>4
<1>9. ASSUME NEW i \in Indices(p), p[i].kind = "sale_completed" PROVE CompletedIn(p, p[i].ref)
  <2>1. CASE i \in Indices(o)
    <3>1. CompletedIn(o, o[i].ref) /\ p[i] = o[i]
      BY <2>1, <1>3, <1>9 DEF Paired
    <3>2. CompletedIn(m, p[i].ref)
      BY <3>1, CompletedGrows
    <3> QED
      BY <1>1, <3>2, CompletedGrows
  <2>2. CASE i = Len(o) + 1
    <3>1. CompletedIn(m, x.ref)
      BY CompletedGrows
    <3> QED
      BY <1>1, <1>4, <2>2, <3>1, CompletedGrows
  <2>3. CASE i = Len(o) + 2
    BY <2>3, <1>4, <1>9
  <2> QED
    BY <1>2, <2>1, <2>2, <2>3
<1> QED
  BY <1>6, <1>7, <1>8, <1>9 DEF Paired

-----------------------------------------------------------------------------
(***************************************************************************)
(* Shifts: each opened once, and never over another.                       *)
(***************************************************************************)

\* The event at i belongs to the shift opened last before it.
InShift(o, i) ==
    \E b \in Indices(o) :
        /\ b <= i
        /\ o[b].kind = "shift_opened" /\ o[b].ref = o[i].ref
        /\ \A q \in Indices(o) : b < q /\ q <= i => o[q].kind # "shift_opened"

ClosedBy(o, i, last) ==
    \E k \in Indices(o) : /\ i <= k /\ k <= last
                          /\ o[k].kind = "shift_closed" /\ o[k].ref = o[i].ref

Shifts(o) ==
    /\ \A i \in Indices(o) : o[i].kind \in ShiftKind => InShift(o, i)
    /\ \A i, j \in Indices(o) :
          o[i].kind = "shift_opened" /\ o[j].kind = "shift_opened" /\ o[i].ref = o[j].ref
             => i = j
    /\ \A i, j \in Indices(o) :
          i < j /\ o[i].kind = "shift_opened" /\ o[j].kind = "shift_opened"
             => ClosedBy(o, i, j)

\* With no drawer running, every shift opened was closed.
LEMMA AllClosed ==
    ASSUME NEW o, NEW s, Kept(o, s), HasLast(o, ShiftKind), Shifts(o),
           ~DrawerOf(Range(o) \cup s).open,
           NEW i \in Indices(o), o[i].kind = "shift_opened"
    PROVE  ClosedBy(o, i, Len(o))
<1>1. Len(o) \in Nat
  BY KeptIsSeq
<1>2. "shift_opened" \in ShiftKind /\ "shift_closed" \in ShiftKind
  BY DEF ShiftKind
<1>3. PICK L : LastAt(o, ShiftKind, L)
  BY <1>2 DEF HasLast, Without
<1>4. PICK c \in Indices(o) : o[c].kind = "shift_closed" /\ o[c].ref = o[L].ref
  <2>1. Mentions(o, "shift_closed", o[L].ref)
    <3> SUFFICES ASSUME ~Mentions(o, "shift_closed", o[L].ref) PROVE FALSE
      OBVIOUS
    <3>1. DrawerOf(Range(o) \cup s) = Running(o[L].ref, Mentions(o, "shift_counted", o[L].ref))
      BY <1>3, DrawerIs
    <3>2. DrawerOf(Range(o) \cup s).open
      BY <3>1 DEF Running
    <3> QED
      BY <3>2
  <2> QED
    BY <2>1 DEF Mentions
<1>5. PICK b \in Indices(o) : /\ o[b].kind = "shift_opened" /\ o[b].ref = o[L].ref
                              /\ b <= L
                              /\ \A q \in Indices(o) : b < q /\ q <= L => o[q].kind # "shift_opened"
  BY <1>3 DEF Shifts, InShift, LastAt
<1>6. b <= c
  <2>1. PICK d \in Indices(o) : /\ o[d].kind = "shift_opened" /\ o[d].ref = o[c].ref
                                /\ d <= c
    BY <1>2, <1>4 DEF Shifts, InShift
  <2>2. d = b
    BY <2>1, <1>4, <1>5 DEF Shifts
  <2> QED
    BY <2>1, <2>2
<1>7. i <= L /\ L \in Indices(o)
  BY <1>2, <1>3 DEF LastAt, Indices
<1>8. i <= b
  BY <1>5, <1>7 DEF Indices
<1>9. CASE i = b
  <2>1. c <= Len(o)
    BY DEF Indices
  <2> QED
    BY <1>4, <1>5, <1>6, <1>9, <2>1 DEF ClosedBy
<1>10. CASE i < b
  <2>1. ClosedBy(o, i, b)
    BY <1>5, <1>10 DEF Shifts
  <2>2. PICK k \in Indices(o) : /\ i <= k /\ k <= b
                                /\ o[k].kind = "shift_closed" /\ o[k].ref = o[i].ref
    BY <2>1 DEF ClosedBy
  <2>3. k <= Len(o)
    BY <2>2 DEF Indices
  <2> QED
    BY <2>2, <2>3 DEF ClosedBy
<1> QED
  BY <1>8, <1>9, <1>10 DEF Indices

LEMMA InShiftStays ==
    ASSUME NEW o \in Seq(Event), NEW p, NEW x, Grown(o, p, x), NEW i \in Indices(o), InShift(o, i)
    PROVE  InShift(p, i)
<1>1. \A q : q \in Indices(p) <=> q \in Indices(o) \/ q = Len(o) + 1
  BY DEF Grown, Indices
<1>2. \A q \in Indices(o) : p[q] = o[q]
  BY DEF Grown
<1>3. ~(Len(o) + 1 <= i)
  BY DEF Indices
<1> QED
  BY <1>1, <1>2, <1>3 DEF InShift

LEMMA ClosedStays ==
    ASSUME NEW o \in Seq(Event), NEW p, NEW x, Grown(o, p, x), NEW i \in Indices(o),
           NEW last, ClosedBy(o, i, last)
    PROVE  ClosedBy(p, i, last)
<1>1. \A q \in Indices(o) : q \in Indices(p) /\ p[q] = o[q]
  BY DEF Grown, Indices
<1> QED
  BY <1>1 DEF ClosedBy

\* A shift opens under a new id, every earlier one closed; any other shift
\* event is of the shift opened last.
LEMMA ShiftsGrow ==
    ASSUME NEW o \in Seq(Event), NEW p, NEW x, Grown(o, p, x), Shifts(o),
           x.kind \in ShiftKind \ {"shift_opened"} =>
              \E L : LastAt(o, ShiftKind, L) /\ o[L].ref = x.ref,
           x.kind = "shift_opened" =>
              \A i \in Indices(o) : /\ o[i].ref # x.ref
                                    /\ o[i].kind = "shift_opened" => ClosedBy(o, i, Len(o))
    PROVE  Shifts(p)
<1>1. \A q : q \in Indices(p) <=> q \in Indices(o) \/ q = Len(o) + 1
  BY DEF Grown, Indices
<1>2. \A q \in Indices(o) : p[q] = o[q]
  BY DEF Grown
<1>3. p[Len(o) + 1] = x /\ Len(o) \in Nat
  BY DEF Grown
<1>a. "shift_opened" \in ShiftKind
  BY DEF ShiftKind
<1>4. ASSUME NEW i \in Indices(p), p[i].kind \in ShiftKind PROVE InShift(p, i)
  <2>1. CASE i \in Indices(o)
    <3>1. InShift(o, i)
      BY <2>1, <1>2, <1>4 DEF Shifts
    <3> QED
      BY <2>1, <3>1, InShiftStays
  <2>2. CASE i = Len(o) + 1 /\ x.kind = "shift_opened"
    <3>1. \A q \in Indices(p) : ~(i < q /\ q <= i)
      BY <1>3, <2>2 DEF Indices, Grown
    <3>2. i <= i
      BY <2>2, <1>3
    <3> QED
      BY <2>2, <1>3, <3>1, <3>2 DEF InShift
  <2>3. CASE i = Len(o) + 1 /\ x.kind # "shift_opened"
    <3>1. PICK L : LastAt(o, ShiftKind, L) /\ o[L].ref = x.ref
      BY <2>3, <1>3, <1>4
    <3>2. PICK b \in Indices(o) :
             /\ b <= L /\ o[b].kind = "shift_opened" /\ o[b].ref = o[L].ref
             /\ \A q \in Indices(o) : b < q /\ q <= L => o[q].kind # "shift_opened"
      BY <3>1 DEF Shifts, InShift, LastAt
    <3>3. \A q \in Indices(o) : b < q => o[q].kind # "shift_opened"
      <4> SUFFICES ASSUME NEW q \in Indices(o), b < q PROVE o[q].kind # "shift_opened"
        OBVIOUS
      <4>1. CASE q <= L
        BY <4>1, <3>2
      <4>2. CASE q > L
        BY <4>2, <3>1, <1>a DEF LastAt
      <4> QED
        BY <4>1, <4>2, <3>1 DEF LastAt, Indices
    <3>4. \A q \in Indices(p) : b < q /\ q <= i => p[q].kind # "shift_opened"
      BY <3>3, <1>1, <1>2, <1>3, <2>3
    <3>5. b \in Indices(p) /\ b <= i
      BY <1>1, <1>3, <2>3 DEF Indices
    <3> QED
      BY <3>1, <3>2, <3>4, <3>5, <1>2, <1>3, <2>3 DEF InShift
  <2> QED
    BY <1>1, <2>1, <2>2, <2>3
<1>5. ASSUME NEW i \in Indices(p), NEW j \in Indices(p), p[i].kind = "shift_opened",
             p[j].kind = "shift_opened", p[i].ref = p[j].ref
      PROVE  i = j
  <2>1. CASE i \in Indices(o) /\ j \in Indices(o)
    BY <2>1, <1>2, <1>5 DEF Shifts
  <2>2. CASE i \in Indices(o) /\ j = Len(o) + 1
    BY <2>2, <1>2, <1>3, <1>5
  <2>3. CASE j \in Indices(o) /\ i = Len(o) + 1
    BY <2>3, <1>2, <1>3, <1>5
  <2> QED
    BY <1>1, <2>1, <2>2, <2>3
<1>6. ASSUME NEW i \in Indices(p), NEW j \in Indices(p), i < j, p[i].kind = "shift_opened",
             p[j].kind = "shift_opened"
      PROVE  ClosedBy(p, i, j)
  <2>1. i \in Indices(o)
    BY <1>1, <1>3, <1>6 DEF Indices
  <2>2. CASE j \in Indices(o)
    <3>1. ClosedBy(o, i, j)
      BY <2>1, <2>2, <1>2, <1>6 DEF Shifts
    <3> QED
      BY <2>1, <3>1, ClosedStays
  <2>3. CASE j = Len(o) + 1
    <3>1. ClosedBy(o, i, Len(o))
      BY <2>1, <2>3, <1>2, <1>3, <1>6
    <3>2. ClosedBy(p, i, Len(o))
      BY <2>1, <3>1, ClosedStays
    <3>3. \A k : k \in Indices(p) /\ k <= Len(o) => k <= j
      BY <2>3, <1>3 DEF Indices
    <3> QED
      BY <3>2, <3>3 DEF ClosedBy
  <2> QED
    BY <1>1, <2>2, <2>3
<1> QED
  BY <1>4, <1>5, <1>6 DEF Shifts

-----------------------------------------------------------------------------
(***************************************************************************)
(* The till's invariant.                                                   *)
(***************************************************************************)

\* The own log is in order and no later than the clock; its invoices, pairs and
\* shifts are sound; and an open till's memory is its replay.
TillInv ==
    /\ Orderly
    /\ TillTypeOK
    /\ IsFiniteSet(seen)
    /\ Kept(own, seen)
    /\ \A i \in Indices(own) : own[i].at <= clock
    /\ HasLast(own, {"invoice"}) /\ HasLast(own, ShiftKind)
    /\ Gapless(own)
    /\ Paired(own)
    /\ Shifts(own)
    /\ MemoryIsReplay

LEMMA TillInvInit ==
    ASSUME Orderly, Init
    PROVE  TillInv
<1>1. own = <<>> /\ Len(own) = 0 /\ own \in Seq(Event) /\ seen = {}
  BY DEF Init
<1>2. Indices(own) = {}
  BY <1>1 DEF Indices
<1>3. Kept(own, seen)
  BY <1>1, <1>2 DEF Kept
<1>4. TillTypeOK
  BY <1>1 DEF Init, TillTypeOK, Drawer
<1>5. IsFiniteSet(seen)
  BY <1>1, FS_EmptySet
<1>6. Without(own, {"invoice"}) /\ Without(own, ShiftKind) /\ Without(own, {"sale_opened"})
  BY <1>2 DEF Without
<1>7. BookOf(Stored) = book
  <2>1. Stored = {}
    BY <1>1 DEF Stored, Range
  <2>2. Of(Stored, {"sale_opened"}) = {} /\ Of(Stored, {"sale_completed"}) = {}
    BY <2>1 DEF Of
  <2> HIDE DEF Stored
  <2> QED
    BY <2>2 DEF BookOf, Init
<1>8. MemoryIsReplay
  BY <1>3, <1>6, <1>7, FiscalIsZero, DrawerIsNone DEF MemoryIsReplay, Stored, Init
<1> QED
  BY <1>2, <1>3, <1>4, <1>5, <1>6, <1>8 DEF TillInv, HasLast, Gapless, Paired, Shifts

\* What the memory of an open till amounts to.
LEMMA SealedFollows ==
    ASSUME TillInv, tip = Len(own), NEW kind \in Kind, NEW ref, NEW n \in Nat,
           kind \in ShiftKind => ref \in Shift, kind \notin ShiftKind => ref \in Ticket,
           kind = "invoice" <=> n # 0
    PROVE  /\ Sealed(1, kind, ref, n) \in Event
           /\ MayFollow(own, Sealed(1, kind, ref, n))
<1> DEFINE x == Sealed(1, kind, ref, n)
<1>1. tip \in Nat /\ clock \in Nat
  BY DEF TillInv, TillTypeOK
<1>2. x \in Event
  BY <1>1 DEF Sealed, Event, Dev, Sale
<1>3. x.dev = "own" /\ x.seq = Len(own) + 1 /\ x.at = clock /\ x.kind = kind /\ x.ref = ref
  BY <1>1 DEF Sealed
<1>4. \A i \in Indices(own) : own[i].at <= x.at
  BY <1>3 DEF TillInv
<1> QED
  BY <1>2, <1>3, <1>4 DEF MayFollow

\* A write that fails leaves everything but the counters of faults and tip.
LEMMA FailedWrite ==
    ASSUME TillInv, NotPersisted, NEW count \in Nat, Seals(count),
           UNCHANGED <<book, fiscal, drawer>>
    PROVE  TillInv'
<1>1. UNCHANGED <<own, seen, up, clock, book, fiscal, drawer>>
  BY DEF NotPersisted, Seals
<1>2. tip' \in Nat /\ faults' \in Nat
  BY DEF TillInv, TillTypeOK, NotPersisted, Seals
<1>3. TillTypeOK'
  BY <1>1, <1>2 DEF TillInv, TillTypeOK
<1>4. MemoryIsReplay'
  BY <1>1 DEF TillInv, MemoryIsReplay, Stored
<1> QED
  BY <1>1, <1>3, <1>4 DEF TillInv

\* One event written keeps the log in order.
LEMMA OneWritten ==
    ASSUME NEW o \in Seq(Event), NEW s, NEW t \in Nat, Kept(o, s),
           \A i \in Indices(o) : o[i].at <= t,
           HasLast(o, {"invoice"}), HasLast(o, ShiftKind),
           NEW p, NEW x, Grown(o, p, x), MayFollow(o, x), x.at = t
    PROVE  /\ Kept(p, s)
           /\ \A i \in Indices(p) : p[i].at <= t
           /\ HasLast(p, {"invoice"}) /\ HasLast(p, ShiftKind)
<1>1. \A i \in Indices(p) : p[i].at <= t
  <2>1. \A i : i \in Indices(p) <=> i \in Indices(o) \/ i = Len(o) + 1
    BY DEF Grown, Indices
  <2>2. t <= t
    OBVIOUS
  <2> QED
    BY <2>1, <2>2 DEF Grown
<1>2. Kept(p, s)
  BY KeptGrows
<1>3. HasLast(p, {"invoice"})
  BY HasLastGrows
<1>4. HasLast(p, ShiftKind)
  BY HasLastGrows
<1> QED
  BY <1>1, <1>2, <1>3, <1>4

LEMMA OpenSaleKeeps ==
    ASSUME TillInv, NEW k \in Ticket, OpenSale(k)
    PROVE  TillInv'
<1> DEFINE x == Sealed(1, "sale_opened", k, 0)
<1>1. Seals(1) /\ UNCHANGED <<fiscal, drawer>>
  BY DEF OpenSale
<1>2. CASE NotPersisted /\ UNCHANGED book
  BY <1>1, <1>2, FailedWrite
<1>3. CASE Persisted(<<x>>) /\ book' = [book EXCEPT ![k] = "open"]
  <2>1. tip = Len(own) /\ own' = own \o <<x>> /\ UNCHANGED <<faults, seen, up, clock>> /\ up
    BY <1>1, <1>3 DEF Persisted, Follows, Seals
  <2>2. own \in Seq(Event) /\ clock \in Nat /\ book \in [Sale -> {"unknown", "open", "completed"}]
    BY DEF TillInv, TillTypeOK
  <2>3. x \in Event /\ MayFollow(own, x)
    BY <2>1, SealedFollows DEF Kind, SaleKind, ShiftKind
  <2>4. Grown(own, own', x)
    BY <2>1, <2>2, <2>3, AppendGrows
  <2>5. x.kind = "sale_opened" /\ x.ref = k /\ x.at = clock
    BY DEF Sealed
  <2>6. /\ Kept(own', seen)
        /\ \A i \in Indices(own') : own'[i].at <= clock
        /\ HasLast(own', {"invoice"}) /\ HasLast(own', ShiftKind)
    BY <2>2, <2>3, <2>4, <2>5, OneWritten DEF TillInv
  <2>7. Gapless(own') /\ Paired(own')
    BY <2>2, <2>4, <2>5, GaplessGrows, PairedGrows DEF TillInv
  <2>8. Shifts(own')
    BY <2>2, <2>4, <2>5, ShiftsGrow DEF TillInv, ShiftKind
  <2>9. MemoryIsReplay'
    <3>1. book = BookOf(Range(own) \cup seen) /\ fiscal = FiscalTip(Range(own) \cup seen)
          /\ drawer = DrawerOf(Range(own) \cup seen)
      BY <2>1 DEF TillInv, MemoryIsReplay, Stored
    <3>2. book[k] = "unknown"
      BY DEF OpenSale
    <3>a. BookOf(Range(own) \cup seen)[k] = "unknown" /\ Kept(own, seen)
      BY <3>1, <3>2 DEF TillInv
    <3> HIDE DEF x
    <3>b. BookOf(Range(own') \cup seen) = [BookOf(Range(own) \cup seen) EXCEPT ![k] = "open"]
      BY <2>3, <2>4, <2>5, <3>a, BookOpens
    <3>3. book' = BookOf(Range(own') \cup seen)
      BY <1>3, <3>1, <3>b
    <3>4. fiscal = FiscalTip(Range(own') \cup seen) /\ drawer = DrawerOf(Range(own') \cup seen)
      BY <2>2, <2>4, <2>5, <3>1, Unaffected DEF ShiftKind
    <3> QED
      BY <1>1, <2>1, <3>3, <3>4 DEF MemoryIsReplay, Stored
  <2>10. TillTypeOK'
    <3>1. tip' \in Nat
      BY <1>1 DEF Seals, TillInv, TillTypeOK
    <3>2. book' \in [Sale -> {"unknown", "open", "completed"}]
      BY <1>3, <2>2
    <3> QED
      BY <1>1, <2>1, <2>4, <3>1, <3>2 DEF Grown, TillInv, TillTypeOK
  <2> QED
    BY <2>1, <2>6, <2>7, <2>8, <2>9, <2>10 DEF TillInv
<1> QED
  BY <1>2, <1>3 DEF OpenSale

LEMMA CompleteSaleKeeps ==
    ASSUME TillInv, NEW k \in Ticket, CompleteSale(k)
    PROVE  TillInv'
<1> DEFINE x == Sealed(1, "sale_completed", k, 0)
           y == Sealed(2, "invoice", k, fiscal + 1)
           m == own \o <<x>>
<1>1. Seals(2) /\ UNCHANGED drawer /\ book[k] = "open"
  BY DEF CompleteSale
<1>2. CASE NotPersisted /\ UNCHANGED <<book, fiscal>>
  BY <1>1, <1>2, FailedWrite
<1>3. CASE Persisted(<<x, y>>) /\ book' = [book EXCEPT ![k] = "completed"] /\ fiscal' = fiscal + 1
  <2>1. tip = Len(own) /\ own' = own \o <<x, y>> /\ UNCHANGED <<faults, seen, up, clock>> /\ up
    BY <1>1, <1>3 DEF Persisted, Follows, Seals
  <2>2. own \in Seq(Event) /\ clock \in Nat /\ fiscal \in Nat
        /\ book \in [Sale -> {"unknown", "open", "completed"}]
    BY DEF TillInv, TillTypeOK
  <2>3. x \in Event /\ MayFollow(own, x)
    BY <2>1, SealedFollows DEF Kind, SaleKind, ShiftKind
  <2>4. Grown(own, m, x)
    BY <2>2, <2>3, AppendGrows
  <2>5. x.kind = "sale_completed" /\ x.ref = k /\ x.at = clock
    BY DEF Sealed
  <2>6. /\ Kept(m, seen)
        /\ \A i \in Indices(m) : m[i].at <= clock
        /\ HasLast(m, {"invoice"}) /\ HasLast(m, ShiftKind)
    BY <2>2, <2>3, <2>4, <2>5, OneWritten DEF TillInv
  <2>7. /\ y.dev = "own" /\ y.seq = tip + 2 /\ y.at = clock /\ y.kind = "invoice"
        /\ y.ref = k /\ y.n = fiscal + 1 /\ y \in Event
    <3>1. "invoice" \in Kind /\ "invoice" \notin ShiftKind
      BY DEF Kind, ShiftKind
    <3>2. tip + 2 \in Nat /\ fiscal + 1 \in Nat /\ fiscal + 1 # 0
      BY <2>1, <2>2
    <3> QED
      BY <2>2, <3>1, <3>2 DEF Sealed, Event, Dev, Sale
  <2>8. MayFollow(m, y)
    <3>1. Len(m) = tip + 1 /\ tip \in Nat
      BY <2>1, <2>2, <2>4 DEF Grown
    <3>2. y.kind \notin ShiftKind
      BY <2>7 DEF ShiftKind
    <3> HIDE DEF y, m
    <3> QED
      BY <2>6, <2>7, <3>1, <3>2 DEF MayFollow
  <2>9. Grown(m, own', y)
    BY <2>1, <2>2, <2>3, <2>7, AppendTwoGrows
  <2>n. book' = [book EXCEPT ![k] = "completed"] /\ fiscal' = fiscal + 1
    BY <1>3
  <2>m. m \in Seq(Event)
    BY <2>4 DEF Grown
  <2> HIDE DEF x, y, m
  <2>10. /\ Kept(own', seen)
         /\ \A i \in Indices(own') : own'[i].at <= clock
         /\ HasLast(own', {"invoice"}) /\ HasLast(own', ShiftKind)
    BY <2>2, <2>m, <2>6, <2>7, <2>8, <2>9, OneWritten
  <2>11. book = BookOf(Range(own) \cup seen) /\ fiscal = FiscalTip(Range(own) \cup seen)
         /\ drawer = DrawerOf(Range(own) \cup seen)
    BY <2>1 DEF TillInv, MemoryIsReplay, Stored
  <2>12. fiscal = Cardinality(InvoicesUpTo(m, Len(m)))
    BY <2>2, <2>4, <2>5, <2>11, FiscalCounts, CountStays DEF TillInv
  <2>13. Gapless(m) /\ Gapless(own')
    <3>1. Gapless(m)
      BY <2>2, <2>4, <2>5, GaplessGrows DEF TillInv
    <3> QED
      BY <2>m, <2>7, <2>9, <2>12, <3>1, GaplessGrows
  <2>14. Paired(own')
    <3>1. Mentions(own, "sale_opened", k) /\ ~CompletedIn(own, k)
      BY <1>1, <2>11, BookIs DEF TillInv
    <3> QED
      BY <2>2, <2>4, <2>5, <2>7, <2>9, <3>1, PairedCompletes DEF TillInv
  <2>15. Shifts(own')
    <3>1. Shifts(m)
      BY <2>2, <2>4, <2>5, ShiftsGrow DEF TillInv, ShiftKind
    <3> QED
      BY <2>m, <2>7, <2>9, <3>1, ShiftsGrow DEF ShiftKind
  <2>16. MemoryIsReplay'
    <3>a. BookOf(Range(own) \cup seen)[k] = "open" /\ Kept(own, seen)
      BY <1>1, <2>11 DEF TillInv
    <3>b. BookOf(Range(m) \cup seen) = [BookOf(Range(own) \cup seen) EXCEPT ![k] = "completed"]
      BY <2>3, <2>4, <2>5, <3>a, BookCompletes
    <3>1. book' = BookOf(Range(m) \cup seen)
      BY <2>n, <2>11, <3>b
    <3>2. book' = BookOf(Range(own') \cup seen)
      BY <2>m, <2>7, <2>9, <3>1, Unaffected DEF SaleKind
    <3>3. drawer = DrawerOf(Range(m) \cup seen)
      BY <2>2, <2>4, <2>5, <2>11, Unaffected DEF ShiftKind
    <3>4. drawer = DrawerOf(Range(own') \cup seen)
      BY <2>m, <2>7, <2>9, <3>3, Unaffected DEF ShiftKind
    <3>5. fiscal' = FiscalTip(Range(own') \cup seen)
      <4>1. LastAt(own', {"invoice"}, Len(m) + 1) /\ own'[Len(m) + 1] = y
        BY <2>m, <2>7, <2>9, LastGrows DEF Grown
      <4>2. FiscalTip(Range(own') \cup seen) = y.n
        BY <2>10, <4>1, FiscalIs
      <4> QED
        BY <2>n, <2>7, <4>2
    <3> QED
      BY <1>1, <2>1, <3>2, <3>4, <3>5 DEF MemoryIsReplay, Stored
  <2>17. TillTypeOK'
    <3>1. tip' \in Nat
      BY <1>1 DEF Seals, TillInv, TillTypeOK
    <3>2. fiscal' \in Nat
      BY <2>n, <2>2
    <3>3. book' \in [Sale -> {"unknown", "open", "completed"}]
      BY <2>n, <2>2
    <3> QED
      BY <1>1, <2>1, <2>9, <3>1, <3>2, <3>3 DEF Grown, TillInv, TillTypeOK
  <2> QED
    BY <2>1, <2>10, <2>13, <2>14, <2>15, <2>16, <2>17 DEF TillInv
<1> QED
  BY <1>2, <1>3 DEF CompleteSale, Completion

\* A running drawer is that of the last shift event, and not closed.
LEMMA RunningShift ==
    ASSUME TillInv, up, drawer.open
    PROVE  /\ drawer.id \in Shift
           /\ \E L : LastAt(own, ShiftKind, L) /\ own[L].ref = drawer.id
           /\ ~Mentions(own, "shift_closed", drawer.id)
           /\ drawer = Running(drawer.id, Mentions(own, "shift_counted", drawer.id))
<1>1. Kept(own, seen) /\ HasLast(own, ShiftKind) /\ drawer = DrawerOf(Range(own) \cup seen)
  BY DEF TillInv, MemoryIsReplay, Stored
<1>2. NoShift.open = FALSE
  BY DEF NoShift
<1>3. PICK L : LastAt(own, ShiftKind, L)
  <2>1. ~Without(own, ShiftKind)
    BY <1>1, <1>2, DrawerIsNone
  <2> QED
    BY <1>1, <2>1 DEF HasLast
<1>4. ~Mentions(own, "shift_closed", own[L].ref)
      /\ drawer = Running(own[L].ref, Mentions(own, "shift_counted", own[L].ref))
  BY <1>1, <1>2, <1>3, DrawerIs
<1>5. drawer.id = own[L].ref
  BY <1>4 DEF Running
<1>6. own[L].ref \in Shift
  BY <1>1, <1>3 DEF Kept, LastAt
<1> QED
  BY <1>3, <1>4, <1>5, <1>6

LEMMA RecordShiftKeeps ==
    ASSUME TillInv, NEW kind \in ShiftKind, NEW id \in Shift, NEW next,
           RecordShift(kind, id, next),
           ~Mentions(own, "shift_closed", id),
           next = IF kind = "shift_closed" THEN NoShift
                  ELSE Running(id, Mentions(own, "shift_counted", id) \/ kind = "shift_counted"),
           kind # "shift_opened" => \E L : LastAt(own, ShiftKind, L) /\ own[L].ref = id,
           kind = "shift_opened" =>
              \A i \in Indices(own) : /\ own[i].ref # id
                                      /\ own[i].kind = "shift_opened"
                                            => ClosedBy(own, i, Len(own))
    PROVE  TillInv'
<1> DEFINE x == Sealed(1, kind, id, 0)
<1>1. Seals(1) /\ UNCHANGED <<fiscal, book>>
  BY DEF RecordShift
<1>2. CASE NotPersisted /\ UNCHANGED drawer
  BY <1>1, <1>2, FailedWrite
<1>3. CASE Persisted(<<x>>) /\ drawer' = next
  <2>1. tip = Len(own) /\ own' = own \o <<x>> /\ UNCHANGED <<faults, seen, up, clock>> /\ up
    BY <1>1, <1>3 DEF Persisted, Follows, Seals
  <2>2. own \in Seq(Event) /\ clock \in Nat /\ Kept(own, seen)
    BY DEF TillInv, TillTypeOK
  <2>3. x \in Event /\ MayFollow(own, x)
    <3>1. kind \in Kind /\ kind # "invoice"
      BY DEF Kind, ShiftKind
    <3> QED
      BY <2>1, <3>1, SealedFollows
  <2>4. Grown(own, own', x)
    BY <2>1, <2>2, <2>3, AppendGrows
  <2>5. x.kind = kind /\ x.ref = id /\ x.at = clock
    BY DEF Sealed
  <2>a. drawer' = next
    BY <1>3
  <2>k. kind \notin SaleKind /\ kind # "invoice"
    BY DEF ShiftKind, SaleKind
  <2> HIDE DEF x
  <2>6. /\ Kept(own', seen)
        /\ \A i \in Indices(own') : own'[i].at <= clock
        /\ HasLast(own', {"invoice"}) /\ HasLast(own', ShiftKind)
    BY <2>2, <2>3, <2>4, <2>5, OneWritten DEF TillInv
  <2>7. Gapless(own') /\ Paired(own')
    BY <2>2, <2>4, <2>5, <2>k, GaplessGrows, PairedGrows DEF TillInv, SaleKind
  <2>8. Shifts(own')
    <3>1. Shifts(own)
      BY DEF TillInv
    <3> QED
      BY <2>2, <2>4, <2>5, <3>1, ShiftsGrow
  <2>9. MemoryIsReplay'
    <3>1. book = BookOf(Range(own) \cup seen) /\ fiscal = FiscalTip(Range(own) \cup seen)
      BY <2>1 DEF TillInv, MemoryIsReplay, Stored
    <3>2. book = BookOf(Range(own') \cup seen) /\ fiscal = FiscalTip(Range(own') \cup seen)
      BY <2>2, <2>4, <2>5, <2>k, <3>1, Unaffected
    <3>3. drawer' = DrawerOf(Range(own') \cup seen)
      BY <2>2, <2>3, <2>4, <2>5, <2>a, DrawerGrows
    <3> QED
      BY <1>1, <2>1, <3>2, <3>3 DEF MemoryIsReplay, Stored
  <2>10. TillTypeOK'
    <3>1. tip' \in Nat
      BY <1>1 DEF Seals, TillInv, TillTypeOK
    <3>2. drawer' \in Drawer
      <4>2. Running(id, Mentions(own, "shift_counted", id) \/ kind = "shift_counted") \in Drawer
        BY DEF Running, Drawer, Mentions
      <4>3. NoShift \in Drawer
        BY DEF Drawer
      <4> QED
        BY <2>a, <4>2, <4>3
    <3> QED
      BY <1>1, <2>1, <2>4, <3>1, <3>2 DEF Grown, TillInv, TillTypeOK
  <2> QED
    BY <2>1, <2>6, <2>7, <2>8, <2>9, <2>10 DEF TillInv
<1> QED
  BY <1>2, <1>3 DEF RecordShift

LEMMA OpenShiftKeeps ==
    ASSUME TillInv, NEW id \in Shift, OpenShift(id)
    PROVE  TillInv'
<1>1. RecordShift("shift_opened", id, Running(id, FALSE)) /\ ~drawer.open /\ up
  BY DEF OpenShift, RecordShift, Seals
<1>2. \A i \in Indices(own) : own[i].ref # id
  <2>1. \A i \in Indices(own) : own[i] \in Stored
    BY InStore DEF TillInv, Stored
  <2> QED
    BY <2>1 DEF OpenShift
<1>3. ~Mentions(own, "shift_closed", id) /\ ~Mentions(own, "shift_counted", id)
  BY <1>2 DEF Mentions
<1>4. \A i \in Indices(own) : own[i].kind = "shift_opened" => ClosedBy(own, i, Len(own))
  <2>1. ~DrawerOf(Range(own) \cup seen).open
    BY <1>1 DEF TillInv, MemoryIsReplay, Stored
  <2> QED
    BY <2>1, AllClosed DEF TillInv
<1>5. (Mentions(own, "shift_counted", id) \/ "shift_opened" = "shift_counted") = FALSE
  BY <1>3
<1> QED
  BY <1>1, <1>2, <1>3, <1>4, <1>5, RecordShiftKeeps DEF ShiftKind

LEMMA MoveCashKeeps ==
    ASSUME TillInv, MoveCash
    PROVE  TillInv'
<1>1. RecordShift("shift_moved", drawer.id, drawer) /\ drawer.open /\ up
  BY DEF MoveCash, RecordShift, Seals
<1>2. (Mentions(own, "shift_counted", drawer.id) \/ "shift_moved" = "shift_counted")
         = Mentions(own, "shift_counted", drawer.id)
  BY DEF Mentions
<1> QED
  BY <1>1, <1>2, RunningShift, RecordShiftKeeps DEF ShiftKind

LEMMA CountDrawerKeeps ==
    ASSUME TillInv, CountDrawer
    PROVE  TillInv'
<1>1. RecordShift("shift_counted", drawer.id, Running(drawer.id, TRUE)) /\ drawer.open /\ up
  BY DEF CountDrawer, RecordShift, Seals
<1>2. (Mentions(own, "shift_counted", drawer.id) \/ "shift_counted" = "shift_counted") = TRUE
  OBVIOUS
<1> QED
  BY <1>1, <1>2, RunningShift, RecordShiftKeeps DEF ShiftKind

LEMMA CloseShiftKeeps ==
    ASSUME TillInv, CloseShift
    PROVE  TillInv'
<1>1. RecordShift("shift_closed", drawer.id, NoShift) /\ drawer.open /\ up
  BY DEF CloseShift, RecordShift, Seals
<1> QED
  BY <1>1, RunningShift, RecordShiftKeeps DEF ShiftKind

LEMMA EntryTyped ==
    ASSUME NEW S, NEW q \in Seq(S), NEW k \in 1 .. Len(q)
    PROVE  q[k] \in S
  OBVIOUS

\* A sibling's event sells; it moves neither counter nor drawer.
LEMMA LearnKeeps ==
    ASSUME TillInv, Learn
    PROVE  TillInv'
<1> DEFINE k == Cardinality(seen) + 1
           counters == {e.n : e \in Of(seen, {"invoice"})}
           learnt(at) == [dev |-> "sibling", seq |-> k, at |-> at,
                          kind |-> SiblingLog[k].kind, ref |-> SiblingLog[k].ref,
                          n |-> IF SiblingLog[k].kind = "invoice"
                                THEN Cardinality(counters) + 1 ELSE 0]
<1>1. /\ up /\ UNCHANGED <<own, tip, fiscal, drawer, up, clock, faults>>
      /\ book' = BookOf(Range(own) \cup seen')
  BY DEF Learn
<1>2. k \in 1 .. Len(SiblingLog)
  <2>1. Cardinality(seen) \in Nat
    BY FS_CardinalityType DEF TillInv
  <2> QED
    BY <2>1, SiblingAssumption DEF Learn
<1>3. PICK at \in 0 .. MaxClock : seen' = seen \cup {learnt(at)}
  BY DEF Learn
<1>4. SiblingLog[k] \in [kind : Kind, ref : Foreign]
  BY <1>2, SiblingAssumption, EntryTyped
<1>5. IsFiniteSet(counters)
  <2> DEFINE f == [e \in Of(seen, {"invoice"}) |-> e.n]
  <2>1. IsFiniteSet(Of(seen, {"invoice"}))
    <3>1. Of(seen, {"invoice"}) \in SUBSET seen
      BY DEF Of
    <3> QED
      BY <3>1, FS_Subset DEF TillInv
  <2>2. f \in Surjection(Of(seen, {"invoice"}), counters)
    BY DEF Surjection
  <2> QED
    BY <2>1, <2>2, FS_Surjection
<1>6. Cardinality(counters) \in Nat
  BY <1>5, FS_CardinalityType
<1>7. learnt(at) \in Event
  <2>1. at \in Nat /\ k \in Nat
    BY <1>2, TillAssumption
  <2> HIDE DEF k, counters
  <2> DEFINE n == IF SiblingLog[k].kind = "invoice" THEN Cardinality(counters) + 1 ELSE 0
  <2>2. n \in Nat /\ (SiblingLog[k].kind = "invoice" <=> n # 0)
    BY <1>6
  <2> QED
    BY <1>4, <2>1, <2>2 DEF Event, Dev, Sale
<1>8. learnt(at).dev = "sibling" /\ learnt(at).ref \in Foreign /\ learnt(at).kind \notin ShiftKind
  <2>1. SiblingLog[k].kind \notin ShiftKind
    BY <1>2 DEF TillInv, Orderly
  <2> HIDE DEF k, counters
  <2> QED
    BY <1>4, <2>1
<1> HIDE DEF learnt
<1>9. Kept(own, seen')
  BY <1>3, <1>8 DEF TillInv, Kept
<1>10. IsFiniteSet(seen')
  BY <1>3, FS_AddElement DEF TillInv
<1>11. FiscalTip(Range(own) \cup seen') = FiscalTip(Range(own) \cup seen)
  BY <1>9, FiscalCounts DEF TillInv
<1>12. DrawerOf(Range(own) \cup seen') = DrawerOf(Range(own) \cup seen)
  <2>1. Of(Range(own) \cup seen', ShiftKind) = Of(Range(own) \cup seen, ShiftKind)
    BY <1>9, ShiftsAreOwn DEF TillInv
  <2> QED
    BY <2>1, DrawerUnmoved
<1>13. MemoryIsReplay'
  BY <1>1, <1>11, <1>12 DEF TillInv, MemoryIsReplay, Stored
<1>14. TillTypeOK'
  <2>1. seen' \subseteq Event
    BY <1>3, <1>7 DEF TillInv, TillTypeOK
  <2>2. book' \in [Sale -> {"unknown", "open", "completed"}]
    BY <1>1, BookTyped
  <2> QED
    BY <1>1, <2>1, <2>2 DEF TillInv, TillTypeOK
<1> QED
  BY <1>1, <1>9, <1>10, <1>13, <1>14 DEF TillInv

\* A start adopts what the disk says, or refuses.
LEMMA RestartKeeps ==
    ASSUME TillInv, Restart
    PROVE  TillInv'
<1>1. UNCHANGED <<own, seen, clock>> /\ faults' \in Nat /\ up' \in BOOLEAN
  BY DEF Restart, Load, TillInv, TillTypeOK
<1>2. CASE ~up'
  <2>1. UNCHANGED <<tip, book, fiscal, drawer>>
    BY <1>2 DEF Restart, Load
  <2>2. TillTypeOK'
    BY <1>1, <2>1 DEF TillInv, TillTypeOK
  <2>3. MemoryIsReplay'
    BY <1>2 DEF MemoryIsReplay
  <2> QED
    BY <1>1, <2>2, <2>3 DEF TillInv
<1>3. CASE up'
  <2>1. /\ tip' = Len(own)
        /\ book' = BookOf(Stored)
        /\ fiscal' = FiscalTip(Stored)
        /\ drawer' = DrawerOf(Stored)
    BY <1>3 DEF Restart, Load
  <2>2. Len(own) \in Nat
    BY DEF TillInv, TillTypeOK
  <2>3. FiscalTip(Stored) \in Nat
    BY <2>2, FiscalCounts, InvoicesFinite DEF TillInv, Stored
  <2>4. DrawerOf(Stored) \in Drawer
    <3>1. CASE Without(own, ShiftKind)
      BY <3>1, DrawerIsNone DEF TillInv, Stored, Drawer
    <3>2. CASE \E L \in Indices(own) : LastAt(own, ShiftKind, L)
      <4>1. PICK L \in Indices(own) : LastAt(own, ShiftKind, L)
        BY <3>2
      <4>2. own[L].ref \in Shift
        BY <4>1 DEF TillInv, Kept, LastAt
      <4>3. Running(own[L].ref, Mentions(own, "shift_counted", own[L].ref)) \in Drawer
        BY <4>2 DEF Running, Drawer, Mentions
      <4>4. NoShift \in Drawer
        BY DEF Drawer
      <4> QED
        BY <4>1, <4>3, <4>4, DrawerIs DEF TillInv, Stored
    <3> QED
      BY <3>1, <3>2 DEF TillInv, HasLast
  <2>5. TillTypeOK'
    BY <1>1, <2>1, <2>2, <2>3, <2>4, BookTyped DEF TillInv, TillTypeOK
  <2>6. MemoryIsReplay'
    BY <1>1, <2>1 DEF MemoryIsReplay, Stored
  <2> QED
    BY <1>1, <2>5, <2>6 DEF TillInv
<1> QED
  BY <1>2, <1>3

\* The clock goes on, or back to no earlier than an event of the till's.
LEMMA ClockKeeps ==
    ASSUME TillInv, Tick \/ StepBack
    PROVE  TillInv'
<1>1. UNCHANGED <<own, seen, tip, fiscal, book, drawer, up, faults>>
  BY DEF Tick, StepBack
<1>2. clock' \in Nat
  BY DEF Tick, StepBack, TillInv, TillTypeOK
<1>3. \A i \in Indices(own) : own[i].at <= clock'
  <2>1. CASE Tick
    <3>1. \A i \in Indices(own) : own[i].at \in Nat
      <4>1. \A i \in Indices(own) : own[i] \in Event
        BY DEF TillInv, TillTypeOK, Indices
      <4> QED
        BY <4>1 DEF Event
    <3> QED
      BY <2>1, <3>1 DEF Tick, TillInv, TillTypeOK
  <2>2. CASE StepBack
    <3>1. \A e \in Range(own) : e.at <= clock'
      BY <2>2 DEF StepBack, TillInv, Orderly
    <3>2. \A i \in Indices(own) : own[i] \in Range(own)
      BY DEF TillInv, TillTypeOK, Range, Indices
    <3> QED
      BY <3>1, <3>2
  <2> QED
    BY <2>1, <2>2
<1>4. TillTypeOK' /\ MemoryIsReplay'
  BY <1>1, <1>2 DEF TillInv, TillTypeOK, MemoryIsReplay, Stored
<1> QED
  BY <1>1, <1>3, <1>4 DEF TillInv

\* A step keeps the invariant.
LEMMA StepKeeps ==
    ASSUME TillInv, [Next]_tvars
    PROVE  TillInv'
<1>1. CASE \E s \in Ticket : OpenSale(s) \/ CompleteSale(s)
  BY <1>1, OpenSaleKeeps, CompleteSaleKeeps
<1>2. CASE \E id \in Shift : OpenShift(id)
  BY <1>2, OpenShiftKeeps
<1>3. CASE MoveCash \/ CountDrawer \/ CloseShift
  BY <1>3, MoveCashKeeps, CountDrawerKeeps, CloseShiftKeeps
<1>4. CASE Learn \/ Restart
  BY <1>4, LearnKeeps, RestartKeeps
<1>5. CASE Tick \/ StepBack
  BY <1>5, ClockKeeps
<1>6. CASE UNCHANGED tvars
  BY <1>6 DEF tvars, TillInv, TillTypeOK, MemoryIsReplay, Stored
<1> QED
  BY <1>1, <1>2, <1>3, <1>4, <1>5, <1>6 DEF Next

-----------------------------------------------------------------------------
(***************************************************************************)
(* The theorems.                                                           *)
(***************************************************************************)

\* The invariant holds of every till whose clock is never set back before its
\* own events and whose sibling runs no shift.
THEOREM TillSound == Orderly => (Spec => []TillInv)
<1>1. Orderly /\ Init => TillInv
  BY TillInvInit
<1>2. TillInv /\ [Next]_tvars => TillInv'
  BY StepKeeps
<1> QED
  BY <1>1, <1>2, PTL DEF Spec

\* Disk and memory keep to their kinds.
THEOREM TillTyped == Orderly => (Spec => []TillTypeOK)
<1>1. TillInv => TillTypeOK
  BY DEF TillInv
<1> QED
  BY <1>1, TillSound, PTL

\* A restart at any moment neither loses nor invents anything: what an open till
\* believes is what load would rebuild from the disk.
THEOREM NothingLostOrInvented == Orderly => (Spec => []MemoryIsReplay)
<1>1. TillInv => MemoryIsReplay
  BY DEF TillInv
<1> QED
  BY <1>1, TillSound, PTL

\* No invoice number is burnt or issued twice, whatever writes fail.
THEOREM InvoicesNumbered == Orderly => (Spec => []InvoicesGapless)
<1>1. TillInv => InvoicesGapless
  BY DEF TillInv, Gapless, InvoicesUpTo, Indices, InvoicesGapless
<1> QED
  BY <1>1, TillSound, PTL

\* complete_sale writes completion and invoice together or not at all.
THEOREM OneInvoiceEach == Orderly => (Spec => []OneInvoicePerSale)
<1>1. TillInv => OneInvoicePerSale
  <2> SUFFICES ASSUME TillInv PROVE OneInvoicePerSale
    OBVIOUS
  <2>1. Paired(own) /\ own \in Seq(Event)
    BY DEF TillInv, TillTypeOK
  <2>2. ASSUME NEW i \in Indices(own), NEW j \in Indices(own),
               own[i].kind = "invoice", own[j].kind = "invoice", own[i].ref = own[j].ref
        PROVE  i = j
    <3>1. i > 1 /\ own[i - 1].kind = "sale_completed" /\ own[i - 1].ref = own[i].ref
      BY <2>1, <2>2 DEF Paired
    <3>2. j > 1 /\ own[j - 1].kind = "sale_completed" /\ own[j - 1].ref = own[j].ref
      BY <2>1, <2>2 DEF Paired
    <3>3. i - 1 \in Indices(own) /\ j - 1 \in Indices(own)
      BY <2>1, <3>1, <3>2 DEF Indices
    <3>4. i - 1 = j - 1
      BY <2>1, <2>2, <3>1, <3>2, <3>3 DEF Paired
    <3> QED
      BY <3>4 DEF Indices
  <2> QED
    BY <2>1, <2>2 DEF OneInvoicePerSale, Paired, Indices
<1> QED
  BY <1>1, TillSound, PTL

\* No shift is opened while another of the till's is open, restarts included.
THEOREM DrawerAlone == Orderly => (Spec => []OneDrawer)
<1>1. TillInv => OneDrawer
  <2> SUFFICES ASSUME TillInv PROVE OneDrawer
    OBVIOUS
  <2>1. Shifts(own) /\ own \in Seq(Event)
    BY DEF TillInv, TillTypeOK
  <2>2. ASSUME NEW i \in Indices(own), NEW j \in Indices(own), i < j,
               own[i].kind = "shift_opened", own[j].kind = "shift_opened"
        PROVE  \E k \in i .. j : own[k].kind = "shift_closed" /\ own[k].ref = own[i].ref
    <3>1. ClosedBy(own, i, j)
      BY <2>1, <2>2 DEF Shifts
    <3> QED
      BY <3>1 DEF ClosedBy, Indices
  <2> QED
    BY <2>2 DEF OneDrawer, Indices
<1> QED
  BY <1>1, TillSound, PTL


\* What the chain on disk needs of the rest.
DiskInv ==
    /\ own \in Seq(Range(own))
    /\ tip \in Nat
    /\ ChainVerifies

LEMMA OwnValues ==
    ASSUME NEW S, NEW q \in Seq(S)
    PROVE  q \in Seq(Range(q))
<1>1. DOMAIN q = 1 .. Len(q) /\ Len(q) \in Nat
  OBVIOUS
<1>2. \A i \in 1 .. Len(q) : q[i] \in Range(q)
  BY <1>1 DEF Range
<1> HIDE DEF Range
<1> QED
  BY <1>1, <1>2

\* The store takes the next event of the chain or none.
LEMMA PersistedKeeps ==
    ASSUME DiskInv, NEW x, NEW y, x.seq = tip + 1, y.seq = tip + 2,
           Persisted(<<x>>) \/ Persisted(<<x, y>>)
    PROVE  own' \in Seq(Range(own')) /\ ChainVerifies'
<1> DEFINE S == Range(own) \cup {x, y}
<1>1. own \in Seq(S) /\ tip = Len(own) /\ \A i \in 1 .. Len(own) : own[i].seq = i
  <2>1. own \in Seq(Range(own))
    BY DEF DiskInv
  <2> QED
    BY <2>1 DEF DiskInv, ChainVerifies, Persisted, Follows
<1> HIDE DEF S
<1>2. x \in S /\ y \in S
  BY DEF S
<1>3. CASE own' = own \o <<x>>
  <2>1. own' \in Seq(S) /\ Len(own') = Len(own) + 1
        /\ (\A i \in 1 .. Len(own) : own'[i] = own[i]) /\ own'[Len(own) + 1] = x
    BY <1>1, <1>2, <1>3
  <2>2. own' \in Seq(Range(own'))
    BY <2>1, OwnValues
  <2>3. ASSUME NEW i \in 1 .. Len(own') PROVE own'[i].seq = i
    BY <1>1, <2>1
  <2> QED
    BY <2>2, <2>3 DEF ChainVerifies
<1>4. CASE own' = own \o <<x, y>>
  <2>1. own' \in Seq(S) /\ Len(own') = Len(own) + 2
        /\ (\A i \in 1 .. Len(own) : own'[i] = own[i])
        /\ own'[Len(own) + 1] = x /\ own'[Len(own) + 2] = y
    BY <1>1, <1>2, <1>4
  <2>2. own' \in Seq(Range(own'))
    BY <2>1, OwnValues
  <2>3. ASSUME NEW i \in 1 .. Len(own') PROVE own'[i].seq = i
    BY <1>1, <2>1
  <2> QED
    BY <2>2, <2>3 DEF ChainVerifies
<1> QED
  BY <1>3, <1>4 DEF Persisted

LEMMA DiskKeeps ==
    ASSUME DiskInv, [Next]_tvars
    PROVE  DiskInv'
<1>1. tip \in Nat /\ Len(own) \in Nat
  BY DEF DiskInv
<1>2. ASSUME UNCHANGED own, tip' \in Nat PROVE DiskInv'
  BY <1>2 DEF DiskInv, ChainVerifies
<1>3. ASSUME NEW kind, NEW ref, NEW n, NEW kind2, NEW n2, NEW count \in {1, 2}, Seals(count),
             \/ NotPersisted
             \/ Persisted(<<Sealed(1, kind, ref, n)>>)
             \/ Persisted(<<Sealed(1, kind, ref, n), Sealed(2, kind2, ref, n2)>>)
      PROVE  DiskInv'
  <2>1. tip' \in Nat
    BY <1>1, <1>3 DEF Seals
  <2>2. CASE NotPersisted
    BY <1>2, <2>1, <2>2 DEF NotPersisted
  <2>3. CASE ~NotPersisted
    <3>1. Sealed(1, kind, ref, n).seq = tip + 1 /\ Sealed(2, kind2, ref, n2).seq = tip + 2
      BY DEF Sealed
    <3>2. own' \in Seq(Range(own')) /\ ChainVerifies'
      BY <1>3, <2>3, <3>1, PersistedKeeps
    <3> QED
      BY <2>1, <3>2 DEF DiskInv
  <2> QED
    BY <2>2, <2>3
<1>4. ASSUME NEW s \in Ticket, OpenSale(s) PROVE DiskInv'
  BY <1>3, <1>4 DEF OpenSale
<1>5. ASSUME NEW s \in Ticket, CompleteSale(s) PROVE DiskInv'
  BY <1>3, <1>5 DEF CompleteSale, Completion
<1>6. ASSUME NEW kind, NEW id, NEW next, RecordShift(kind, id, next) PROVE DiskInv'
  BY <1>3, <1>6 DEF RecordShift
<1>7. ASSUME (\E id \in Shift : OpenShift(id)) \/ MoveCash \/ CountDrawer \/ CloseShift
      PROVE  DiskInv'
  BY <1>6, <1>7 DEF OpenShift, MoveCash, CountDrawer, CloseShift
<1>8. ASSUME Learn \/ Tick \/ StepBack \/ UNCHANGED tvars PROVE DiskInv'
  BY <1>1, <1>2, <1>8 DEF Learn, Tick, StepBack, tvars
<1>9. ASSUME Restart PROVE DiskInv'
  BY <1>1, <1>2, <1>9 DEF Restart, Load
<1> QED
  BY <1>4, <1>5, <1>7, <1>8, <1>9 DEF Next

\* The store takes no event but the next of the chain, and this needs nothing of
\* the clock or the sibling.
THEOREM ChainUnbroken == Spec => []DiskUnbroken
<1>1. Init => DiskInv
  <2> SUFFICES ASSUME Init PROVE DiskInv
    OBVIOUS
  <2>1. own \in Seq({}) /\ Len(own) = 0
    BY DEF Init
  <2>2. own \in Seq(Range(own))
    BY <2>1, OwnValues
  <2> QED
    BY <2>1, <2>2 DEF Init, DiskInv, ChainVerifies
<1>2. DiskInv /\ [Next]_tvars => DiskInv'
  BY DiskKeeps
<1>3. DiskInv => DiskUnbroken
  BY DEF DiskInv, DiskUnbroken
<1> QED
  BY <1>1, <1>2, <1>3, PTL DEF Spec
=============================================================================
