----------------------------- MODULE ShopProofs -----------------------------
(***************************************************************************)
(* Shop, proved for any two tills, products, people, files and faults,     *)
(* whatever their clocks say:                                              *)
(*   - a delivery against an order and its batch are on disk together or   *)
(*     not at all, with nothing between the two (ShopReceiptsPaired);      *)
(*   - no barcode means two products (ShopBarcodesApart);                  *)
(*   - whoever a change is recorded against could make it (ShopSanctioned).*)
(* Every operation is shown to be a Command, which writes some events and  *)
(* adopts their effect, or nothing; the invariants are proved of commands, *)
(* syncing, restarting and the rest, which is Quiet.                       *)
(***************************************************************************)
EXTENDS Shop, FiniteSetTheorems, SequenceTheorems, TLAPS

-----------------------------------------------------------------------------
\* A log in which every delivery is followed by its batch.
Paired(q) ==
    \A i \in DOMAIN q : q[i].kind = "LineReceived" =>
        /\ i < Len(q)
        /\ q[i + 1].kind = "BatchReceived"
        /\ q[i + 1].id = q[i].data.batch
        /\ q[i + 1].data.qty = q[i].data.qty

\* A list of the events in it.
IsLog(q) == q \in Seq(Range(q))

\* The inductive invariant: of the tills only their logs matter.
LogsPaired ==
    /\ log = [t \in Till |-> log[t]]
    /\ \A t \in Till : IsLog(log[t]) /\ Paired(log[t])

-----------------------------------------------------------------------------
(***************************************************************************)
(* Logs.                                                                   *)
(***************************************************************************)

\* A sequence of anything is a list of what is in it.
LEMMA LogOfAny ==
    ASSUME NEW S, NEW q \in Seq(S)
    PROVE  IsLog(q)
<1>1. DOMAIN q = 1 .. Len(q) /\ Len(q) \in Nat
  OBVIOUS
<1>2. \A i \in 1 .. Len(q) : q[i] \in Range(q)
  BY <1>1 DEF Range
<1> HIDE DEF Range
<1> QED
  BY <1>1, <1>2 DEF IsLog

\* What is paired stays so when something paired is put after it.
LEMMA PairedConcat ==
    ASSUME NEW p, NEW q, IsLog(p), IsLog(q), Paired(p), Paired(q)
    PROVE  IsLog(p \o q) /\ Paired(p \o q)
<1> DEFINE S == Range(p) \cup Range(q)
           r == p \o q
<1>1. p \in Seq(S) /\ q \in Seq(S)
  BY SeqMonotonic DEF IsLog
<1> HIDE DEF S
<1>2. /\ r \in Seq(S) /\ Len(r) = Len(p) + Len(q)
      /\ \A i \in 1 .. Len(p) + Len(q) : r[i] = IF i <= Len(p) THEN p[i] ELSE q[i - Len(p)]
  BY <1>1, ConcatProperties
<1>3. Len(p) \in Nat /\ Len(q) \in Nat /\ DOMAIN p = 1 .. Len(p) /\ DOMAIN q = 1 .. Len(q)
  BY <1>1
<1>4. DOMAIN r = 1 .. Len(p) + Len(q)
  BY <1>2
<1> HIDE DEF r
<1>5. IsLog(r)
  BY <1>2, LogOfAny
<1>6. ASSUME NEW i \in DOMAIN r, r[i].kind = "LineReceived"
      PROVE  /\ i < Len(r)
             /\ r[i + 1].kind = "BatchReceived"
             /\ r[i + 1].id = r[i].data.batch
             /\ r[i + 1].data.qty = r[i].data.qty
  <2>1. CASE i <= Len(p)
    <3>1. i \in DOMAIN p /\ r[i] = p[i]
      BY <1>2, <1>3, <1>4, <2>1
    <3>2. i < Len(p) /\ i + 1 \in 1 .. Len(p)
      BY <1>3, <1>6, <3>1 DEF Paired
    <3>3. r[i + 1] = p[i + 1]
      BY <1>2, <1>3, <3>2
    <3> QED
      BY <1>2, <1>3, <1>6, <3>1, <3>2, <3>3 DEF Paired
  <2>2. CASE i > Len(p)
    <3> DEFINE j == i - Len(p)
    <3>1. j \in DOMAIN q /\ r[i] = q[j]
      BY <1>2, <1>3, <1>4, <2>2
    <3>2. j < Len(q) /\ q[j + 1].kind = "BatchReceived" /\ q[j + 1].id = q[j].data.batch
          /\ q[j + 1].data.qty = q[j].data.qty
      BY <1>6, <3>1 DEF Paired
    <3>3. i + 1 \in 1 .. Len(p) + Len(q) /\ i + 1 > Len(p) /\ (i + 1) - Len(p) = j + 1
      BY <1>3, <1>4, <2>2, <3>2
    <3>4. r[i + 1] = q[j + 1]
      BY <1>2, <1>3, <3>3
    <3>5. i < Len(r)
      BY <1>2, <1>3, <1>4, <3>2
    <3> QED
      BY <3>1, <3>2, <3>4, <3>5
  <2> QED
    BY <1>3, <1>4, <2>1, <2>2
<1> QED
  BY <1>5, <1>6 DEF Paired, r

\* One event that is no delivery.
LEMMA OnePaired ==
    ASSUME NEW e, e.kind # "LineReceived"
    PROVE  IsLog(<<e>>) /\ Paired(<<e>>)
<1>1. <<e>> \in Seq({e}) /\ DOMAIN <<e>> = {1} /\ <<e>>[1] = e
  OBVIOUS
<1> QED
  BY <1>1, LogOfAny DEF Paired

\* A delivery and its batch.
LEMMA TwoPaired ==
    ASSUME NEW e, NEW f, e.kind = "LineReceived", f.kind = "BatchReceived",
           f.id = e.data.batch, f.data.qty = e.data.qty
    PROVE  IsLog(<<e, f>>) /\ Paired(<<e, f>>)
<1> DEFINE r == <<e, f>>
<1>1. r \in Seq({e, f}) /\ DOMAIN r = 1 .. 2 /\ Len(r) = 2 /\ r[1] = e /\ r[2] = f
  OBVIOUS
<1> HIDE DEF r
<1>2. IsLog(r)
  BY <1>1, LogOfAny
<1>3. ASSUME NEW i \in DOMAIN r, r[i].kind = "LineReceived"
      PROVE  /\ i < Len(r)
             /\ r[i + 1].kind = "BatchReceived"
             /\ r[i + 1].id = r[i].data.batch
             /\ r[i + 1].data.qty = r[i].data.qty
  <2>1. i = 1
    BY <1>1, <1>3
  <2>2. r[i] = e /\ r[i + 1] = f /\ i < Len(r)
    BY <1>1, <2>1
  <2> QED
    BY <2>2
<1>4. Paired(r)
  BY <1>3 DEF Paired
<1> QED
  BY <1>2, <1>4 DEF r

\* Some of a list of additions.
LEMMA AdditionsPaired ==
    ASSUME NEW q, NEW n \in Nat, \A i \in 1 .. n : q[i].kind = "ProductAdded"
    PROVE  IsLog(SubSeq(q, 1, n)) /\ Paired(SubSeq(q, 1, n))
<1> DEFINE S == {q[i] : i \in 1 .. n}
           r == SubSeq(q, 1, n)
<1>1. \A i \in 1 .. n : q[i] \in S
  OBVIOUS
<1> HIDE DEF S
<1>2. r \in Seq(S) /\ Len(r) = n /\ \A i \in 1 .. n : r[i] = q[i]
  <2>1. /\ r \in Seq(S) /\ Len(r) = IF 1 <= n THEN n - 1 + 1 ELSE 0
        /\ \A i \in 1 .. n - 1 + 1 : r[i] = q[1 + i - 1]
    BY <1>1, SubSeqProperties
  <2> QED
    BY <2>1
<1>3. DOMAIN r = 1 .. n
  BY <1>2
<1> HIDE DEF r
<1>4. Paired(r)
  BY <1>2, <1>3 DEF Paired
<1> QED
  BY <1>2, <1>4, LogOfAny DEF r

-----------------------------------------------------------------------------
(***************************************************************************)
(* Steps.                                                                  *)
(***************************************************************************)

\* Appending something paired to one till's log keeps all of them paired.
LEMMA AppendKeeps ==
    ASSUME LogsPaired, NEW t \in Till, NEW events, IsLog(events), Paired(events),
           log' = [log EXCEPT ![t] = @ \o events]
    PROVE  LogsPaired'
<1>1. log'[t] = log[t] \o events /\ \A u \in Till \ {t} : log'[u] = log[u]
  BY DEF LogsPaired
<1>2. log' = [u \in Till |-> log'[u]]
  BY DEF LogsPaired
<1>3. IsLog(log'[t]) /\ Paired(log'[t])
  BY <1>1, PairedConcat DEF LogsPaired
<1>4. ASSUME NEW u \in Till PROVE IsLog(log'[u]) /\ Paired(log'[u])
  BY <1>1, <1>3 DEF LogsPaired
<1> QED
  BY <1>2, <1>4 DEF LogsPaired, IsLog, Paired

\* So does leaving the logs alone.
LEMMA StaysPaired ==
    ASSUME LogsPaired, UNCHANGED log
    PROVE  LogsPaired'
  BY DEF LogsPaired, IsLog, Paired

\* Recording something paired, whether or not the write succeeds, ...
LEMMA RecordsKeeps ==
    ASSUME LogsPaired, NEW t \in Till, NEW events, NEW next, IsLog(events), Paired(events),
           Records(t, events, next)
    PROVE  LogsPaired'
  BY AppendKeeps, StaysPaired DEF Records

\* ... such as one event that is not a delivery against an order, does too.
LEMMA RecordsOne ==
    ASSUME LogsPaired, NEW t \in Till, NEW e, NEW next, e.kind # "LineReceived",
           Records(t, <<e>>, next)
    PROVE  LogsPaired'
  BY OnePaired, RecordsKeeps

\* An event is of the kind it was made with.
LEMMA EventKind ==
    ASSUME NEW t \in Till, NEW n, NEW kind, NEW id, NEW by, NEW data
    PROVE  /\ Event(t, n, kind, id, by, data).kind = kind
           /\ Event(t, n, kind, id, by, data).id = id
           /\ Event(t, n, kind, id, by, data).by = by
           /\ Event(t, n, kind, id, by, data).data = data
  BY DEF Event

\* Desk by desk: the store room ...
LEMMA StoresPaired ==
    ASSUME LogsPaired, NEW t \in Till, Stores(t)
    PROVE  LogsPaired'
<1>1. CASE ReceiveStock(t)
  <2>1. PICK by, p, q, c : RecordStock(t, Event(t, 1, "BatchReceived", NewId(t, 1), by,
                             [product |-> p, qty |-> q, cost |-> c, expires |-> NeverExpires]))
    BY <1>1 DEF ReceiveStock
  <2> QED
    BY <2>1, EventKind, RecordsOne DEF RecordStock
<1>2. CASE CountStock(t)
  <2>1. PICK by, b, q : RecordStock(t, Event(t, 1, "BatchCounted", b, by, [qty |-> q]))
    BY <1>2 DEF CountStock
  <2> QED
    BY <2>1, EventKind, RecordsOne DEF RecordStock
<1>3. CASE IssueStock(t)
  <2>1. PICK by, b, q : RecordStock(t, Event(t, 1, "StockIssued", b, by, [qty |-> q]))
    BY <1>3 DEF IssueStock
  <2> QED
    BY <2>1, EventKind, RecordsOne DEF RecordStock
<1> QED
  BY <1>1, <1>2, <1>3 DEF Stores

\* The one step that writes a delivery writes its batch right after it.
LEMMA ReceiptPaired ==
    ASSUME NEW t \in Till, NEW order, NEW line, NEW by, NEW q, NEW c
    PROVE  /\ IsLog(Receipt(t, order, line, by, q, c))
           /\ Paired(Receipt(t, order, line, by, q, c))
<1> DEFINE e == Event(t, 1, "LineReceived", order, by,
                      [line |-> line, qty |-> q, cost |-> c, batch |-> NewId(t, 1)])
           f == Event(t, 2, "BatchReceived", NewId(t, 1), by,
                      [product |-> shop[t].orders[order].lines[line].line.product,
                       qty |-> q, cost |-> c, expires |-> NeverExpires])
<1>1. Receipt(t, order, line, by, q, c) = <<e, f>>
  BY DEF Receipt
<1>2. e.kind = "LineReceived" /\ e.data.batch = NewId(t, 1) /\ e.data.qty = q
  BY EventKind
<1>3. f.kind = "BatchReceived" /\ f.id = NewId(t, 1) /\ f.data.qty = q
  BY EventKind
<1> HIDE DEF e, f
<1> QED
  BY <1>1, <1>2, <1>3, TwoPaired

\* ... purchasing, ...
LEMMA BuyingPaired ==
    ASSUME LogsPaired, NEW t \in Till, Buying(t)
    PROVE  LogsPaired'
<1>1. CASE PlaceOrder(t)
  <2>1. PICK by, p, q, c, next :
          Records(t, <<Event(t, 1, "Placed", NewId(t, 1), by,
                             [lines |-> <<[product |-> p, qty |-> q, cost |-> c]>>])>>, next)
    BY <1>1 DEF PlaceOrder
  <2> QED
    BY <2>1, EventKind, RecordsOne
<1>2. CASE ReceiveAgainstOrder(t)
  <2>1. PICK by, order, q, c, line : RecordReceipt(t, Receipt(t, order, line, by, q, c))
    BY <1>2 DEF ReceiveAgainstOrder
  <2> DEFINE events == Receipt(t, order, line, by, q, c)
  <2>2. IsLog(events) /\ Paired(events)
    BY ReceiptPaired
  <2>3. PICK next : Records(t, events, next)
    BY <2>1 DEF RecordReceipt
  <2> HIDE DEF events
  <2> QED
    BY <2>2, <2>3, RecordsKeeps
<1>3. CASE CloseOrder(t)
  <2>1. PICK by, order, reason :
          LET e == Event(t, 1, "Closed", order, by, [reason |-> reason])
          IN Records(t, <<e>>, [shop[t] EXCEPT !.orders[order] = OrderApply(@, e)])
    BY <1>3 DEF CloseOrder
  <2> QED
    BY <2>1, EventKind, RecordsOne
<1> QED
  BY <1>1, <1>2, <1>3 DEF Buying

\* ... the office, ...
LEMMA OfficePaired ==
    ASSUME LogsPaired, NEW t \in Till, Office(t)
    PROVE  LogsPaired'
<1>1. CASE EnrolStaff(t)
  <2>1. PICK pin, new, role, by :
          LET e == Event(t, 1, "Enrolled", NewId(t, 1), by, [role |-> role, pin |-> new])
          IN Records(t, <<e>>, [shop[t] EXCEPT !.staff = StaffApply(@, e)])
    BY <1>1 DEF EnrolStaff
  <2> QED
    BY <2>1, EventKind, RecordsOne
<1>2. CASE ConfigureOutlet(t)
  <2>1. PICK pin, regime, registered, by :
          LET e == Event(t, 1, "Configured", "outlet", by,
                         [regime |-> regime, registered |-> registered])
          IN Records(t, <<e>>, [shop[t] EXCEPT !.outlet = OutletApply(@, e)])
    BY <1>2 DEF ConfigureOutlet
  <2> QED
    BY <2>1, EventKind, RecordsOne
<1> QED
  BY <1>1, <1>2 DEF Office

\* However many rows of a file were written, all of them are additions.
LEMMA ImportPaired ==
    ASSUME LogsPaired, NEW t \in Till, NEW file \in Files, CommitImport(t, file)
    PROVE  LogsPaired'
<1> DEFINE read == FromDelimited(file)
           additions(by) == Additions(t, read.products, by)
<1>1. PICK pin \in Pin : \E by \in Editors(t, pin), n \in 0 .. Len(read.products) :
         /\ \A i \in 1 .. n : TakesRow(t, additions(by), i)
         /\ log' = [log EXCEPT ![t] = @ \o SubSeq(additions(by), 1, n)]
  BY ZenonT(60) DEF CommitImport
<1>2. PICK by \in Editors(t, pin), n \in 0 .. Len(read.products) :
         /\ \A i \in 1 .. n : TakesRow(t, additions(by), i)
         /\ log' = [log EXCEPT ![t] = @ \o SubSeq(additions(by), 1, n)]
  BY <1>1
<1>3. \A i \in 1 .. n : i \in DOMAIN additions(by)
  BY <1>2 DEF TakesRow
<1>4. \A i \in 1 .. n : additions(by)[i].kind = "ProductAdded"
  BY <1>3, EventKind DEF Additions
<1>5. n \in Nat
  BY <1>2
<1> HIDE DEF additions
<1>6. IsLog(SubSeq(additions(by), 1, n)) /\ Paired(SubSeq(additions(by), 1, n))
  BY <1>4, <1>5, AdditionsPaired
<1> QED
  BY <1>2, <1>6, AppendKeeps

\* ... the catalogue, a file's rows included, ...
LEMMA CatalogPaired ==
    ASSUME LogsPaired, NEW t \in Till, Catalog(t)
    PROVE  LogsPaired'
<1>1. ASSUME NEW kind, NEW id, NEW by, NEW data, kind # "LineReceived",
             RecordCatalogue(t, kind, id, by, data)
      PROVE  LogsPaired'
  BY <1>1, EventKind, RecordsOne DEF RecordCatalogue
<1>2. CASE SaveProduct(t)
  BY <1>1, <1>2 DEF SaveProduct
<1>3. CASE SetProductActive(t)
  BY <1>1, <1>3 DEF SetProductActive
<1> QED
  BY <1>2, <1>3, ImportPaired DEF Catalog

\* ... and the floor.
LEMMA RoomPaired ==
    ASSUME LogsPaired, NEW t \in Till, Room(t)
    PROVE  LogsPaired'
<1>1. ASSUME NEW kind, NEW id, NEW by, NEW data, kind # "LineReceived",
             RecordFloor(t, kind, id, by, data)
      PROVE  LogsPaired'
  BY <1>1, EventKind, RecordsOne DEF RecordFloor
<1>2. CASE SaveTable(t)
  BY <1>1, <1>2 DEF SaveTable
<1>3. CASE SetTableActive(t)
  BY <1>1, <1>3 DEF SetTableActive
<1> QED
  BY <1>2, <1>3 DEF Room

\* Every step keeps the logs paired.
LEMMA StepPaired ==
    ASSUME LogsPaired, [Next]_svars
    PROVE  LogsPaired'
<1>1. CASE UNCHANGED svars
  BY <1>1, StaysPaired DEF svars
<1>2. ASSUME NEW t \in Till,
             SignIn(t) \/ SignOut(t) \/ Learn(t) \/ Restart(t)
      PROVE  LogsPaired'
  BY <1>2, StaysPaired DEF SignIn, SignOut, Learn, Restart
<1>3. CASE Idle
  BY <1>3, StaysPaired DEF Idle
<1> QED
  BY <1>1, <1>2, <1>3, StoresPaired, BuyingPaired, OfficePaired, CatalogPaired, RoomPaired
  DEF Next

\* Empty logs are.
LEMMA InitPaired == Init => LogsPaired
<1> SUFFICES ASSUME Init PROVE LogsPaired
  OBVIOUS
<1>1. log = [t \in Till |-> << >>]
  BY DEF Init, StartFrom
<1>2. << >> \in Seq({}) /\ DOMAIN << >> = {}
  OBVIOUS
<1>3. IsLog(<< >>) /\ Paired(<< >>)
  BY <1>2, LogOfAny DEF Paired
<1> QED
  BY <1>1, <1>3 DEF LogsPaired

-----------------------------------------------------------------------------
(***************************************************************************)
(* What holds of every shop.                                               *)
(***************************************************************************)

\* record_receipt seals a delivery and its batch in one transaction, so
\* whatever fails, and whichever till restarts or learns in between, no log
\* ever holds one without the other right after it, of the same quantity.
THEOREM ShopReceiptsPaired == Spec => []ReceiptsPaired
<1>1. LogsPaired => ReceiptsPaired
  BY DEF LogsPaired, Paired, ReceiptsPaired
<1> QED
  BY InitPaired, StepPaired, <1>1, PTL DEF Spec

-----------------------------------------------------------------------------
(***************************************************************************)
(* Order of time.                                                          *)
(***************************************************************************)

\* Finitely many events that say where and when, each place of a chain being
\* one event's.
Dated(S) ==
    /\ IsFiniteSet(S)
    /\ \A e \in S : e.at \in Int /\ e.till \in Int /\ e.seq \in Int
    /\ \A e, f \in S : (e.till = f.till /\ e.seq = f.seq) => e = f

\* A list in order of time.
Sorted(q) == \A i, j \in 1 .. Len(q) : i < j => InTime(q[i], q[j])

\* The place of an event among others.
Rank(S, e) == Cardinality({f \in S : InTime(f, e)})

\* InTime is a strict total order of dated events.
LEMMA InTimeOrders ==
  ASSUME NEW S, Dated(S)
  PROVE  /\ \A e \in S : ~InTime(e, e)
         /\ \A e, f \in S : e # f => InTime(e, f) \/ InTime(f, e)
         /\ \A e, f, g \in S : InTime(e, f) /\ InTime(f, g) => InTime(e, g)
BY DEF Dated, InTime

\* So their ranks count from nothing up, one event at each.
LEMMA Ranks ==
  ASSUME NEW S, Dated(S), NEW n, n = Cardinality(S)
  PROVE  /\ n \in Nat
         /\ \A e \in S : Rank(S, e) \in 0 .. n - 1
         /\ \A e, f \in S : InTime(e, f) => Rank(S, e) < Rank(S, f)
         /\ \A e, f \in S : Rank(S, e) = Rank(S, f) => e = f
         /\ \A i \in 0 .. n - 1 : \E e \in S : Rank(S, e) = i
<1> DEFINE Sooner(e) == {f \in S : InTime(f, e)}
<1>1. n \in Nat /\ IsFiniteSet(S)
  BY FS_CardinalityType DEF Dated
<1>2. \A e : Rank(S, e) = Cardinality(Sooner(e))
  BY DEF Rank
<1>3. ASSUME NEW e \in S
      PROVE  /\ IsFiniteSet(Sooner(e)) /\ Rank(S, e) \in Nat
             /\ Rank(S, e) \in 0 .. n - 1
  <2>1. Sooner(e) \in SUBSET S /\ e \notin Sooner(e)
    BY InTimeOrders
  <2>2. Rank(S, e) = Cardinality(Sooner(e))
    BY <1>2
  <2> HIDE DEF Sooner
  <2>3. /\ IsFiniteSet(Sooner(e)) /\ Cardinality(Sooner(e)) <= n
        /\ Cardinality(S) = Cardinality(Sooner(e)) => S = Sooner(e)
    BY <1>1, <2>1, FS_Subset
  <2>4. Cardinality(Sooner(e)) \in Nat
    BY <2>3, FS_CardinalityType
  <2>5. Cardinality(Sooner(e)) # n
    BY <2>1, <2>3
  <2> QED BY <1>1, <2>2, <2>3, <2>4, <2>5
<1>4. ASSUME NEW e \in S, NEW f \in S, InTime(e, f)
      PROVE  Rank(S, e) < Rank(S, f)
  <2>1. Sooner(e) \in SUBSET Sooner(f)
    BY <1>4, InTimeOrders
  <2>2. e \in Sooner(f) /\ e \notin Sooner(e)
    BY <1>4, InTimeOrders
  <2>3. Rank(S, e) = Cardinality(Sooner(e)) /\ Rank(S, f) = Cardinality(Sooner(f))
    BY <1>2
  <2> HIDE DEF Sooner
  <2>4. /\ Cardinality(Sooner(e)) <= Cardinality(Sooner(f))
        /\ Cardinality(Sooner(f)) = Cardinality(Sooner(e)) => Sooner(f) = Sooner(e)
    BY <1>3, <2>1, FS_Subset
  <2>5. Cardinality(Sooner(f)) # Cardinality(Sooner(e))
    BY <2>2, <2>4
  <2> QED BY <1>3, <2>3, <2>4, <2>5
<1> HIDE DEF Sooner
<1>5. \A e, f \in S : Rank(S, e) = Rank(S, f) => e = f
  <2> SUFFICES ASSUME NEW e \in S, NEW f \in S, e # f
               PROVE  Rank(S, e) # Rank(S, f)
    OBVIOUS
  <2>1. InTime(e, f) \/ InTime(f, e)
    BY InTimeOrders
  <2>2. Rank(S, e) \in Nat /\ Rank(S, f) \in Nat
    BY <1>3
  <2> QED BY <1>4, <2>1, <2>2
<1>6. \A i \in 0 .. n - 1 : \E e \in S : Rank(S, e) = i
  <2> DEFINE rank == [e \in S |-> Rank(S, e)]
  <2>1. rank \in [S -> 0 .. n - 1]
    BY <1>3
  <2>2. rank \in Injection(S, 0 .. n - 1)
    BY <1>5, <2>1 DEF Injection, IsInjective
  <2>3. IsFiniteSet(0 .. n - 1) /\ Cardinality(0 .. n - 1) = n
    <3>1. 0 \in Int /\ n - 1 \in Int
      BY <1>1
    <3>2. /\ IsFiniteSet(0 .. n - 1)
          /\ Cardinality(0 .. n - 1) = IF 0 > n - 1 THEN 0 ELSE (n - 1) - 0 + 1
      BY <3>1, FS_Interval
    <3> QED BY <1>1, <3>2
  <2>4. rank \in Surjection(S, 0 .. n - 1)
    <3> HIDE DEF rank
    <3> QED BY <1>1, <2>2, <2>3, FS_Injection
  <2>5. \A i \in 0 .. n - 1 : \E e \in S : rank[e] = i
    <3> HIDE DEF rank
    <3> QED BY <2>4 DEF Surjection
  <2> QED BY <2>5
<1> QED BY <1>1, <1>3, <1>4, <1>5, <1>6

\* The event at a place is the one that so many come before.
LEMMA InOrderPlaces ==
  ASSUME NEW S, Dated(S), NEW n, n = Cardinality(S)
  PROVE  /\ n \in Nat /\ InOrder(S) \in Seq(S) /\ Len(InOrder(S)) = n
         /\ \A i \in 1 .. n : InOrder(S)[i] \in S /\ Rank(S, InOrder(S)[i]) = i - 1
<1> DEFINE q == InOrder(S)
<1>1. n \in Nat
  BY Ranks
<1>2. q = [i \in 1 .. n |-> CHOOSE e \in S : Rank(S, e) = i - 1]
  BY DEF InOrder, Rank
<1>3. ASSUME NEW i \in 1 .. n
      PROVE  q[i] \in S /\ Rank(S, q[i]) = i - 1
  <2>1. i - 1 \in 0 .. n - 1
    BY <1>1
  <2>2. \E e \in S : Rank(S, e) = i - 1
    BY <2>1, Ranks
  <2>3. q[i] = CHOOSE e \in S : Rank(S, e) = i - 1
    BY <1>2
  <2> HIDE DEF q
  <2> QED BY <2>2, <2>3
<1>4. q \in Seq(S) /\ Len(q) = n
  BY <1>1, <1>2, <1>3
<1> QED BY <1>1, <1>3, <1>4

\* Every event is in the order, once, and after those before it.
LEMMA InOrderSorts ==
  ASSUME NEW S, Dated(S)
  PROVE  /\ InOrder(S) \in Seq(S)
         /\ \A e \in S : \E i \in 1 .. Len(InOrder(S)) : InOrder(S)[i] = e
         /\ Sorted(InOrder(S))
<1> DEFINE q == InOrder(S)
           n == Cardinality(S)
<1>1. /\ n \in Nat /\ q \in Seq(S) /\ Len(q) = n
      /\ \A i \in 1 .. n : q[i] \in S /\ Rank(S, q[i]) = i - 1
  BY InOrderPlaces
<1>2. /\ \A e \in S : Rank(S, e) \in 0 .. n - 1
      /\ \A e, f \in S : InTime(e, f) => Rank(S, e) < Rank(S, f)
      /\ \A e, f \in S : Rank(S, e) = Rank(S, f) => e = f
  BY Ranks
<1> HIDE DEF q, n
<1>3. ASSUME NEW e \in S PROVE \E i \in 1 .. n : q[i] = e
  <2>1. Rank(S, e) + 1 \in 1 .. n /\ (Rank(S, e) + 1) - 1 = Rank(S, e)
    BY <1>1, <1>2
  <2>2. q[Rank(S, e) + 1] = e
    BY <1>1, <1>2, <2>1
  <2> QED BY <2>1, <2>2
<1>4. ASSUME NEW i \in 1 .. n, NEW j \in 1 .. n, i < j PROVE InTime(q[i], q[j])
  <2>1. q[i] # q[j] /\ q[i] \in S /\ q[j] \in S
    BY <1>1, <1>4
  <2>2. ~InTime(q[j], q[i])
    BY <1>1, <1>2, <1>4, <2>1
  <2> QED BY <2>1, <2>2, InTimeOrders
<1> QED BY <1>1, <1>3, <1>4 DEF Sorted, q

\* What is later than all there is comes last.
LEMMA InOrderAppend ==
  ASSUME NEW S, NEW e, Dated(S \cup {e}), e \notin S, \A f \in S : InTime(f, e)
  PROVE  /\ Dated(S)
         /\ InOrder(S) \in Seq(S)
         /\ InOrder(S \cup {e}) = Append(InOrder(S), e)
<1> DEFINE T == S \cup {e}
           n == Cardinality(S)
           p == InOrder(S)
           q == InOrder(T)
<1>1. Dated(S) /\ IsFiniteSet(S)
  <2>1. IsFiniteSet(S)
    BY FS_Subset DEF Dated
  <2> QED BY <2>1 DEF Dated
<1>2. n \in Nat /\ Cardinality(T) = n + 1
  BY <1>1, FS_AddElement, FS_CardinalityType
<1>3. \A x \in T : ~InTime(e, x)
  BY InTimeOrders
<1>4. \A x \in S : Rank(T, x) = Rank(S, x)
  <2>1. ASSUME NEW x \in S PROVE {f \in T : InTime(f, x)} = {f \in S : InTime(f, x)}
    BY <1>3
  <2> QED BY <2>1 DEF Rank
<1>5. Rank(T, e) = n
  <2>1. {f \in T : InTime(f, e)} = S
    BY <1>3
  <2> QED BY <2>1 DEF Rank
<1>6. /\ p \in Seq(S) /\ Len(p) = n
      /\ \A i \in 1 .. n : p[i] \in S /\ Rank(S, p[i]) = i - 1
  BY <1>1, InOrderPlaces
<1>7. /\ q \in Seq(T) /\ Len(q) = n + 1
      /\ \A i \in 1 .. n + 1 : q[i] \in T /\ Rank(T, q[i]) = i - 1
  BY <1>2, InOrderPlaces
<1>8. \A x, y \in T : Rank(T, x) = Rank(T, y) => x = y
  BY Ranks
<1> HIDE DEF p, q, n
<1>9. \A i \in 1 .. n : q[i] = p[i]
  <2> SUFFICES ASSUME NEW i \in 1 .. n PROVE q[i] = p[i]
    OBVIOUS
  <2>1. i \in 1 .. n + 1
    BY <1>2
  <2>2. p[i] \in T /\ Rank(T, p[i]) = i - 1
    BY <1>4, <1>6
  <2> QED BY <1>7, <1>8, <2>1, <2>2
<1>10. q[n + 1] = e
  <2>1. n + 1 \in 1 .. n + 1 /\ (n + 1) - 1 = n
    BY <1>2
  <2> QED BY <1>5, <1>7, <1>8, <2>1
<1> HIDE DEF T
<1>11. q = Append(p, e)
  <2>1. p \in Seq(T) /\ e \in T
    BY <1>6, SeqMonotonic DEF T
  <2> DEFINE r == Append(p, e)
  <2>2. /\ r \in Seq(T) /\ Len(r) = n + 1
        /\ \A i \in 1 .. n : r[i] = p[i]
        /\ r[n + 1] = e
    BY <1>6, <2>1, AppendProperties
  <2> HIDE DEF r
  <2>3. \A i \in 1 .. n + 1 : q[i] = r[i]
    BY <1>2, <1>9, <1>10, <2>2
  <2>4. q = r
    BY <1>7, <2>2, <2>3, SeqEqual
  <2> QED BY <2>4 DEF r
<1> QED BY <1>1, <1>6, <1>11 DEF p, q, T

\* No events in order are none.
LEMMA InOrderNone == InOrder({}) = <<>>
<1>1. Cardinality({}) = 0
  BY FS_EmptySet
<1>2. 1 .. 0 = {}
  OBVIOUS
<1>3. InOrder({}) = [i \in {} |-> CHOOSE e \in {} : Cardinality({f \in {} : InTime(f, e)}) = i - 1]
  BY <1>1, <1>2 DEF InOrder
<1> QED BY <1>3

-----------------------------------------------------------------------------
(***************************************************************************)
(* Replays.                                                                *)
(***************************************************************************)

\* A replay so far gone through, and the replays as runs.
Unbroken(is) == [ok |-> TRUE, is |-> is]
StockRun == INSTANCE Folding WITH Start <- Unbroken(EmptyBook), Advance <- StockStep
StaffRun == INSTANCE Folding WITH Start <- Unbroken(Nobody), Advance <- StaffStep
CatalogueRun == INSTANCE Folding WITH Start <- << >>, Advance <- CatalogueStep
ImportRun == INSTANCE Folding WITH Start <- << >>, Advance <- CatalogueApply
FloorRun == INSTANCE Folding WITH Start <- << >>, Advance <- FloorStep
OutletRun == INSTANCE Folding WITH Start <- Unconfigured, Advance <- OutletApply
OrderRun == INSTANCE Folding WITH Start <- Unplaced, Advance <- OrderStep

\* Each replay of the model is a run of its step.
LEMMA ReplaysAreRuns ==
  /\ \A q : Through(StockStep, [ok |-> TRUE, is |-> EmptyBook], q) = StockRun!Run(q)
  /\ \A q : Through(StaffStep, [ok |-> TRUE, is |-> Nobody], q) = StaffRun!Run(q)
  /\ \A q : Through(CatalogueStep, << >>, q) = CatalogueRun!Run(q)
  /\ \A q : Through(FloorStep, << >>, q) = FloorRun!Run(q)
  /\ \A q : Through(OutletApply, Unconfigured, q) = OutletRun!Run(q)
  /\ \A q : OrderReplay(q) = OrderRun!Run(q)
  /\ \A c, q : Through(CatalogueApply, c, q) = ImportRun!From(c, q)
<1>1. \A q : Through(StockStep, [ok |-> TRUE, is |-> EmptyBook], q) = StockRun!Run(q)
  BY DEF Through, StockRun!Run, StockRun!From, Unbroken
<1>2. \A q : Through(StaffStep, [ok |-> TRUE, is |-> Nobody], q) = StaffRun!Run(q)
  BY DEF Through, StaffRun!Run, StaffRun!From, Unbroken
<1>3. \A q : Through(CatalogueStep, << >>, q) = CatalogueRun!Run(q)
  BY DEF Through, CatalogueRun!Run, CatalogueRun!From
<1>4. \A q : Through(FloorStep, << >>, q) = FloorRun!Run(q)
  BY DEF Through, FloorRun!Run, FloorRun!From
<1>5. \A q : Through(OutletApply, Unconfigured, q) = OutletRun!Run(q)
  BY DEF Through, OutletRun!Run, OutletRun!From
<1>6. \A q : OrderReplay(q) = OrderRun!Run(q)
  BY DEF OrderReplay, Through, OrderRun!Run, OrderRun!From
<1>7. \A c, q : Through(CatalogueApply, c, q) = ImportRun!From(c, q)
  BY DEF Through, ImportRun!From
<1> QED BY <1>1, <1>2, <1>3, <1>4, <1>5, <1>6, <1>7

\* An event later than all of some.
Latest(S, e) == Dated(S \cup {e}) /\ e \notin S /\ \A f \in S : InTime(f, e)

\* The latest event comes last in the list of its kind, and in no other.
LEMMA ChronicleAppend ==
  ASSUME NEW S, NEW e, Latest(S, e), NEW kinds
  PROVE  /\ Chronicle(S, kinds) \in Seq(S)
         /\ Chronicle(S \cup {e}, kinds) =
              IF e.kind \in kinds THEN Append(Chronicle(S, kinds), e) ELSE Chronicle(S, kinds)
<1> DEFINE K == {f \in S : f.kind \in kinds}
           L == {f \in S \cup {e} : f.kind \in kinds}
<1>1. Dated(K)
  <2>1. IsFiniteSet(K) /\ K \subseteq S \cup {e}
    BY FS_Subset DEF Latest, Dated
  <2> QED BY <2>1 DEF Latest, Dated
<1>2. Chronicle(S, kinds) = InOrder(K) /\ Chronicle(S \cup {e}, kinds) = InOrder(L)
  BY DEF Chronicle
<1>3. InOrder(K) \in Seq(S)
  <2>1. InOrder(K) \in Seq(K) /\ K \subseteq S
    BY <1>1, InOrderSorts
  <2> QED BY <2>1, SeqMonotonic
<1>4. CASE e.kind \in kinds
  <2>1. L = K \cup {e} /\ e \notin K /\ \A f \in K : InTime(f, e)
    BY <1>4 DEF Latest
  <2>2. Dated(K \cup {e})
    <3>1. IsFiniteSet(K \cup {e}) /\ K \cup {e} \subseteq S \cup {e}
      BY FS_Subset DEF Latest, Dated
    <3> QED BY <3>1 DEF Latest, Dated
  <2> HIDE DEF K, L
  <2>3. InOrder(K \cup {e}) = Append(InOrder(K), e)
    BY <2>1, <2>2, InOrderAppend
  <2> QED BY <1>2, <1>3, <1>4, <2>1, <2>3
<1>5. CASE e.kind \notin kinds
  <2>1. L = K
    BY <1>5
  <2> QED BY <1>2, <1>3, <1>5, <2>1
<1> QED BY <1>4, <1>5

\* What one more event, the latest, makes of each projection.
LEMMA RebuiltAppend ==
  ASSUME NEW S, NEW e, Latest(S, e)
  PROVE  /\ StockOf(S \cup {e}) = IF e.kind \in StockKind THEN StockStep(StockOf(S), e)
                                  ELSE StockOf(S)
         /\ StaffOf(S \cup {e}) = IF e.kind \in StaffKind THEN StaffStep(StaffOf(S), e)
                                  ELSE StaffOf(S)
         /\ Rebuilt(S \cup {e}).catalogue =
              IF e.kind \in CatalogueKind THEN CatalogueStep(Rebuilt(S).catalogue, e)
              ELSE Rebuilt(S).catalogue
         /\ Rebuilt(S \cup {e}).floor =
              IF e.kind \in FloorKind THEN FloorStep(Rebuilt(S).floor, e) ELSE Rebuilt(S).floor
         /\ Rebuilt(S \cup {e}).outlet =
              IF e.kind \in OutletKind THEN OutletApply(Rebuilt(S).outlet, e)
              ELSE Rebuilt(S).outlet
<1> DEFINE T == S \cup {e}
<1>1. \A kinds : /\ Chronicle(S, kinds) \in Seq(T)
                 /\ Chronicle(T, kinds) = IF e.kind \in kinds THEN Append(Chronicle(S, kinds), e)
                                          ELSE Chronicle(S, kinds)
  <2>1. S \subseteq T
    OBVIOUS
  <2> QED BY <2>1, ChronicleAppend, SeqMonotonic, ZenonT(60)
<1>2. e \in T
  OBVIOUS
<1> HIDE DEF T
<1>3. StockOf(T) = IF e.kind \in StockKind THEN StockStep(StockOf(S), e) ELSE StockOf(S)
  <2>1. \A U : StockOf(U) = StockRun!Run(Chronicle(U, StockKind))
    BY ReplaysAreRuns DEF StockOf
  <2> QED BY <1>1, <1>2, <2>1, StockRun!RunAppend
<1>4. StaffOf(T) = IF e.kind \in StaffKind THEN StaffStep(StaffOf(S), e) ELSE StaffOf(S)
  <2>1. \A U : StaffOf(U) = StaffRun!Run(Chronicle(U, StaffKind))
    BY ReplaysAreRuns DEF StaffOf
  <2> QED BY <1>1, <1>2, <2>1, StaffRun!RunAppend
<1>5. Rebuilt(T).catalogue = IF e.kind \in CatalogueKind
                             THEN CatalogueStep(Rebuilt(S).catalogue, e)
                             ELSE Rebuilt(S).catalogue
  <2>1. /\ Rebuilt(T).catalogue = CatalogueRun!Run(Chronicle(T, CatalogueKind))
        /\ Rebuilt(S).catalogue = CatalogueRun!Run(Chronicle(S, CatalogueKind))
    BY ReplaysAreRuns DEF Rebuilt
  <2>2. CatalogueRun!Run(Append(Chronicle(S, CatalogueKind), e))
          = CatalogueStep(CatalogueRun!Run(Chronicle(S, CatalogueKind)), e)
    BY <1>1, <1>2, CatalogueRun!RunAppend
  <2> QED BY <1>1, <2>1, <2>2
<1>6. Rebuilt(T).floor = IF e.kind \in FloorKind THEN FloorStep(Rebuilt(S).floor, e)
                         ELSE Rebuilt(S).floor
  <2>1. /\ Rebuilt(T).floor = FloorRun!Run(Chronicle(T, FloorKind))
        /\ Rebuilt(S).floor = FloorRun!Run(Chronicle(S, FloorKind))
    BY ReplaysAreRuns DEF Rebuilt
  <2>2. FloorRun!Run(Append(Chronicle(S, FloorKind), e))
          = FloorStep(FloorRun!Run(Chronicle(S, FloorKind)), e)
    BY <1>1, <1>2, FloorRun!RunAppend
  <2> QED BY <1>1, <2>1, <2>2
<1>7. Rebuilt(T).outlet = IF e.kind \in OutletKind THEN OutletApply(Rebuilt(S).outlet, e)
                          ELSE Rebuilt(S).outlet
  <2>1. /\ Rebuilt(T).outlet = OutletRun!Run(Chronicle(T, OutletKind))
        /\ Rebuilt(S).outlet = OutletRun!Run(Chronicle(S, OutletKind))
    BY ReplaysAreRuns DEF Rebuilt
  <2>2. OutletRun!Run(Append(Chronicle(S, OutletKind), e))
          = OutletApply(OutletRun!Run(Chronicle(S, OutletKind)), e)
    BY <1>1, <1>2, OutletRun!RunAppend
  <2> QED BY <1>1, <2>1, <2>2
<1> QED BY <1>3, <1>4, <1>5, <1>6, <1>7 DEF T

\* An order's stream with one more event, the latest.
LEMMA OrdersAppend ==
  ASSUME NEW S, NEW e, Latest(S, e)
  PROVE  /\ e.kind \notin PurchaseKind => OrdersOf(S \cup {e}) = OrdersOf(S)
         /\ e.kind \in PurchaseKind =>
              /\ OrderIds(S \cup {e}) = OrderIds(S) \cup {e.id}
              /\ OrderOf(S \cup {e}, e.id) = OrderStep(OrderOf(S, e.id), e)
              /\ \A id : id # e.id => OrderOf(S \cup {e}, id) = OrderOf(S, id)
<1> DEFINE T == S \cup {e}
           Of(U, id) == {f \in Purchases(U) : f.id = id}
<1>1. \A U, id : OrderOf(U, id) = OrderReplay(InOrder(Of(U, id)))
  BY DEF OrderOf
<1>2. CASE e.kind \notin PurchaseKind
  <2>1. Purchases(T) = Purchases(S)
    BY <1>2 DEF Purchases
  <2> QED BY <1>2, <2>1 DEF OrdersOf, OrderIds, OrderOf
<1>3. CASE e.kind \in PurchaseKind
  <2>1. Purchases(T) = Purchases(S) \cup {e}
    BY <1>3 DEF Purchases
  <2>2. OrderIds(T) = OrderIds(S) \cup {e.id}
    BY <2>1 DEF OrderIds
  <2>3. ASSUME NEW id, id # e.id PROVE OrderOf(T, id) = OrderOf(S, id)
    <3>1. Of(T, id) = Of(S, id)
      BY <2>1, <2>3
    <3> QED BY <1>1, <3>1
  <2>4. OrderOf(T, e.id) = OrderStep(OrderOf(S, e.id), e)
    <3> DEFINE K == Of(S, e.id)
    <3>1. Of(T, e.id) = K \cup {e}
      BY <2>1
    <3>2. K \subseteq S /\ e \notin K /\ \A f \in K : InTime(f, e)
      BY DEF Purchases, Latest
    <3>3. /\ OrderOf(T, e.id) = OrderReplay(InOrder(K \cup {e}))
          /\ OrderOf(S, e.id) = OrderReplay(InOrder(K))
      BY <1>1, <3>1
    <3> HIDE DEF K
    <3>4. Dated(K \cup {e})
      <4>1. IsFiniteSet(K \cup {e}) /\ K \cup {e} \subseteq S \cup {e}
        BY <3>2, FS_Subset DEF Latest, Dated
      <4> QED BY <4>1 DEF Latest, Dated
    <3>5. InOrder(K) \in Seq(K) /\ InOrder(K \cup {e}) = Append(InOrder(K), e)
      BY <3>2, <3>4, InOrderAppend
    <3>6. InOrder(K) \in Seq(K \cup {e}) /\ e \in K \cup {e}
      BY <3>5, SeqMonotonic
    <3>7. OrderRun!Run(Append(InOrder(K), e)) = OrderStep(OrderRun!Run(InOrder(K)), e)
      BY <3>6, OrderRun!RunAppend
    <3> QED BY <3>3, <3>5, <3>7, ReplaysAreRuns
  <2> QED BY <1>3, <2>2, <2>3, <2>4
<1> QED BY <1>2, <1>3

-----------------------------------------------------------------------------
(***************************************************************************)
(* What every command comes down to: some events written at once, or none, *)
(* and the memory that goes with them.                                     *)
(***************************************************************************)

\* A till's memory has its six parts.
Shaped(s) ==
    s = [stock |-> s.stock, orders |-> s.orders, staff |-> s.staff,
         catalogue |-> s.catalogue, floor |-> s.floor, outlet |-> s.outlet]

\* The types, and what a till knows of its sibling within what there is.
Typed ==
    /\ clock \in Nat
    /\ tip \in [Till -> Nat] /\ known \in [Till -> Nat] /\ base \in [Till -> Nat]
    /\ up = [t \in Till |-> up[t]]
    /\ shop = [t \in Till |-> shop[t]] /\ \A t \in Till : Shaped(shop[t])
    /\ log = [t \in Till |-> log[t]] /\ \A t \in Till : IsLog(log[t])
    /\ \A t \in Till : /\ Len(log[t]) <= tip[t]
                       /\ base[t] <= known[t] /\ known[t] <= Len(log[Sibling(t)])

\* Events numbered after its memory's tip, and of this moment.
Stamped(t, events) ==
    /\ IsLog(events)
    /\ \A i \in DOMAIN events : /\ events[i].till = t
                                /\ events[i].seq = tip[t] + i
                                /\ events[i].at = clock + 1 + Skew[t]

\* Events are written together where the chain goes on, and memory adopted.
Writes(t, events, next) ==
    /\ up[t]
    /\ events = << >> \/ Follows(t)
    /\ Stamped(t, events)
    /\ Shaped(next)
    /\ log' = [log EXCEPT ![t] = @ \o events]
    /\ shop' = [shop EXCEPT ![t] = next]
    /\ tip' \in [Till -> Nat] /\ \A u \in Till : tip[u] <= tip'[u]
    /\ tip[t] + Len(events) <= tip'[t]
    /\ clock' = clock + 1
    /\ UNCHANGED <<known, base, up>>

\* Who may manage the outlet, by some PIN, and who may edit what it sells.
MayManage(t, e) == \E pin : e.by \in Managers(t, pin)
MayEdit(t, e) == \E pin : e.by \in Editors(t, pin)

\* A movement the shelf takes.
MovesStock(t, e, next) ==
    /\ e.kind \in StockKind
    /\ e.kind = "BatchReceived" => e.id = NewId(t, 1)
    /\ e.data.qty \in Int
    /\ StockAccepts(shop[t].stock, e)
    /\ next = [shop[t] EXCEPT !.stock = StockApply(@, e)]

\* An order of at least one line, under a new number.
Places(t, e, next) ==
    /\ e.kind = "Placed" /\ e.id = NewId(t, 1) /\ e.data.lines # << >>
    /\ next = [shop[t] EXCEPT !.orders = [id \in Orders(t) \cup {e.id} |->
                                            IF id = e.id THEN OrderReplay(<<e>>)
                                            ELSE shop[t].orders[id]]]

\* A delivery the order takes, and the batch it becomes.
Receives(t, e, f, next) ==
    /\ e.kind = "LineReceived" /\ e.id \in Orders(t)
    /\ OrderAccepts(shop[t].orders[e.id], e)
    /\ f.kind = "BatchReceived" /\ f.id = NewId(t, 1)
    /\ e.data.qty \in Int /\ f.data.qty \in Int
    /\ StockAccepts(shop[t].stock, f)
    /\ next = [shop[t] EXCEPT !.orders[e.id] = OrderApply(@, e), !.stock = StockApply(@, f)]

\* The close of an order that takes it.
Closes(t, e, next) ==
    /\ e.kind = "Closed" /\ e.id \in Orders(t) /\ e.data.reason \in CloseReason
    /\ OrderAccepts(shop[t].orders[e.id], e)
    /\ next = [shop[t] EXCEPT !.orders[e.id] = OrderApply(@, e)]

\* A person under a new number, by somebody who may; the first an owner.
Enrols(t, e, next) ==
    /\ e.kind = "Enrolled" /\ e.id = NewId(t, 1)
    /\ MayManage(t, e) /\ (e.by = Founder => e.data.role = "owner")
    /\ StaffAccepts(shop[t].staff, e)
    /\ next = [shop[t] EXCEPT !.staff = StaffApply(@, e)]

\* Settings by somebody who may.
Configures(t, e, next) ==
    /\ e.kind = "Configured" /\ MayManage(t, e)
    /\ next = [shop[t] EXCEPT !.outlet = OutletApply(@, e)]

\* A change of the catalogue by somebody who may, ...
EditsCatalogue(t, e, next) ==
    /\ e.kind \in CatalogueKind /\ MayEdit(t, e)
    /\ CatalogueAccepts(shop[t].catalogue, e)
    /\ next = [shop[t] EXCEPT !.catalogue = CatalogueApply(@, e)]

\* ... and one of the floor.
EditsFloor(t, e, next) ==
    /\ e.kind \in FloorKind /\ MayEdit(t, e)
    /\ FloorAccepts(shop[t].floor, e)
    /\ next = [shop[t] EXCEPT !.floor = FloorApply(@, e)]

\* Rows written one by one, each taken by the catalogue the ones before it made.
Listed(t, events, n) == Through(CatalogueApply, shop[t].catalogue, SubSeq(events, 1, n))

\* Each row is a product, by somebody who may add it.
Imports(t, events, next) ==
    /\ \A i \in 1 .. Len(events) : /\ events[i].kind = "ProductAdded"
                                   /\ MayEdit(t, events[i])
                                   /\ CatalogueAccepts(Listed(t, events, i - 1), events[i])
    /\ next = [shop[t] EXCEPT !.catalogue = Listed(t, events, Len(events))]

\* What the commands write, and the memory it makes.
Lawful(t, events, next) ==
    \/ events = << >> /\ next = shop[t]
    \/ \E e : /\ events = <<e>>
              /\ \/ MovesStock(t, e, next) \/ Places(t, e, next) \/ Closes(t, e, next)
                 \/ Enrols(t, e, next) \/ Configures(t, e, next)
                 \/ EditsCatalogue(t, e, next) \/ EditsFloor(t, e, next)
    \/ \E e, f : events = <<e, f>> /\ Receives(t, e, f, next)
    \/ Imports(t, events, next)

\* A command: what it writes is lawful, nothing included.
Command(t, events, next) == Writes(t, events, next) /\ Lawful(t, events, next)

\* Signing in and out, idling, and nothing at all.
Quiet ==
    /\ clock' \in {clock, clock + 1}
    /\ UNCHANGED <<log, known, base, tip, shop, up>>

\* No events are a list.
LEMMA NoEvents == IsLog(<< >>) /\ Len(<< >>) = 0 /\ DOMAIN << >> = {}
<1>1. << >> \in Seq({}) /\ DOMAIN << >> = {}
  OBVIOUS
<1> QED BY <1>1, LogOfAny

\* An operation moves its chain's tip on, and no other's back.
LEMMA TipGrows ==
  ASSUME Typed, NEW t \in Till, NEW count \in Nat, Works(t, count)
  PROVE  /\ tip' \in [Till -> Nat] /\ \A u \in Till : tip[u] <= tip'[u]
         /\ tip[t] + count <= tip'[t] /\ tip[t] \in Nat
BY DEF Works, Typed

\* Nothing was written.
LEMMA FailureWrites ==
  ASSUME Typed, NEW t \in Till, NEW count \in Nat, Works(t, count), UNCHANGED <<log, shop>>
  PROVE  Command(t, << >>, shop[t])
<1>1. Stamped(t, << >>)
  BY NoEvents DEF Stamped
<1>2. log' = [log EXCEPT ![t] = @ \o << >>]
  <2>1. log[t] \o << >> = log[t]
    <3>1. log[t] \in Seq(Range(log[t]))
      BY DEF Typed, IsLog
    <3> QED BY <3>1, ConcatEmptySeq
  <2> QED BY <2>1 DEF Typed
<1>3. shop' = [shop EXCEPT ![t] = shop[t]]
  BY DEF Typed
<1>4. /\ tip' \in [Till -> Nat] /\ \A u \in Till : tip[u] <= tip'[u]
      /\ tip[t] + Len(<< >>) <= tip'[t]
  BY NoEvents, TipGrows
<1>5. Shaped(shop[t])
  BY DEF Typed
<1>6. up[t] /\ clock' = clock + 1 /\ UNCHANGED <<known, base, up>>
  BY DEF Works
<1>7. Writes(t, << >>, shop[t])
  BY <1>1, <1>2, <1>3, <1>4, <1>5, <1>6 DEF Writes
<1>8. Lawful(t, << >>, shop[t])
  BY DEF Lawful
<1> QED BY <1>7, <1>8 DEF Command

\* Recording what is lawful is a command, or writes nothing.
LEMMA RecordsWrites ==
  ASSUME Typed, NEW t \in Till, NEW events, NEW next, Records(t, events, next),
         Stamped(t, events), Shaped(next), Lawful(t, events, next)
  PROVE  \E e, n : Command(t, e, n)
<1>1. Len(events) \in Nat
  BY DEF Stamped, IsLog
<1>2. Works(t, Len(events))
  BY DEF Records
<1>3. CASE UNCHANGED <<log, shop>>
  BY <1>1, <1>2, <1>3, FailureWrites
<1>4. CASE /\ Follows(t) /\ log' = [log EXCEPT ![t] = @ \o events]
           /\ shop' = [shop EXCEPT ![t] = next]
  <2>1. /\ tip' \in [Till -> Nat] /\ \A u \in Till : tip[u] <= tip'[u]
        /\ tip[t] + Len(events) <= tip'[t]
    BY <1>1, <1>2, TipGrows
  <2>2. up[t] /\ clock' = clock + 1 /\ UNCHANGED <<known, base, up>>
    BY <1>2 DEF Works
  <2>3. Writes(t, events, next)
    BY <1>4, <2>1, <2>2 DEF Writes
  <2> QED BY <2>3 DEF Command
<1> QED BY <1>3, <1>4 DEF Records

\* One event made now is stamped, ...
LEMMA OneStamped ==
  ASSUME NEW t, NEW kind, NEW id, NEW by, NEW data, NEW e,
         e = Event(t, 1, kind, id, by, data)
  PROVE  /\ Stamped(t, <<e>>)
         /\ e.kind = kind /\ e.id = id /\ e.by = by /\ e.data = data
<1>1. e.till = t /\ e.seq = tip[t] + 1 /\ e.at = clock + 1 + Skew[t]
  BY DEF Event
<1>2. e.kind = kind /\ e.id = id /\ e.by = by /\ e.data = data
  BY DEF Event
<1> HIDE DEF Event
<1>3. <<e>> \in Seq({e}) /\ DOMAIN <<e>> = {1} /\ <<e>>[1] = e
  OBVIOUS
<1> QED BY <1>1, <1>2, <1>3, LogOfAny DEF Stamped

\* ... and two made together.
LEMMA TwoStamped ==
  ASSUME NEW t, NEW k1, NEW i1, NEW b1, NEW d1, NEW k2, NEW i2, NEW b2, NEW d2, NEW e, NEW f,
         e = Event(t, 1, k1, i1, b1, d1), f = Event(t, 2, k2, i2, b2, d2)
  PROVE  Stamped(t, <<e, f>>)
<1>1. e.till = t /\ e.seq = tip[t] + 1 /\ e.at = clock + 1 + Skew[t]
  BY DEF Event
<1>2. f.till = t /\ f.seq = tip[t] + 2 /\ f.at = clock + 1 + Skew[t]
  BY DEF Event
<1>3. <<e, f>> \in Seq({e, f}) /\ DOMAIN <<e, f>> = {1, 2} /\ <<e, f>>[1] = e /\ <<e, f>>[2] = f
  OBVIOUS
<1>4. IsLog(<<e, f>>)
  BY <1>3, LogOfAny
<1> DEFINE q == <<e, f>>
<1> HIDE DEF q
<1>5. IsLog(q) /\ DOMAIN q = {1, 2} /\ q[1] = e /\ q[2] = f
  BY <1>3, <1>4 DEF q
<1>6. Stamped(t, q)
  BY <1>1, <1>2, <1>5 DEF Stamped
<1> QED BY <1>6 DEF q

\* A part of the memory replaced.
LEMMA ShapedStays ==
  ASSUME NEW s, Shaped(s), NEW x
  PROVE  /\ Shaped([s EXCEPT !.stock = x]) /\ Shaped([s EXCEPT !.orders = x])
         /\ Shaped([s EXCEPT !.staff = x]) /\ Shaped([s EXCEPT !.catalogue = x])
         /\ Shaped([s EXCEPT !.floor = x]) /\ Shaped([s EXCEPT !.outlet = x])
<1> DEFINE R(a, b, c, d, e, f) == [stock |-> a, orders |-> b, staff |-> c, catalogue |-> d, floor |-> e, outlet |-> f]
<1>1. s = R(s.stock, s.orders, s.staff, s.catalogue, s.floor, s.outlet)
  BY DEF Shaped
<1>2. \A a, b, c, d, e, f : Shaped(R(a, b, c, d, e, f))
  BY DEF Shaped
<1>3. [s EXCEPT !.stock = x] = R(x, s.orders, s.staff, s.catalogue, s.floor, s.outlet)
  BY <1>1
<1>4. [s EXCEPT !.orders = x] = R(s.stock, x, s.staff, s.catalogue, s.floor, s.outlet)
  BY <1>1
<1>5. [s EXCEPT !.staff = x] = R(s.stock, s.orders, x, s.catalogue, s.floor, s.outlet)
  BY <1>1
<1>6. [s EXCEPT !.catalogue = x] = R(s.stock, s.orders, s.staff, x, s.floor, s.outlet)
  BY <1>1
<1>7. [s EXCEPT !.floor = x] = R(s.stock, s.orders, s.staff, s.catalogue, x, s.outlet)
  BY <1>1
<1>8. [s EXCEPT !.outlet = x] = R(s.stock, s.orders, s.staff, s.catalogue, s.floor, x)
  BY <1>1
<1> HIDE DEF R
<1> QED BY <1>2, <1>3, <1>4, <1>5, <1>6, <1>7, <1>8

\* A till's memory has its six parts.
LEMMA MemoryShaped == ASSUME Typed, NEW t \in Till PROVE Shaped(shop[t])
BY DEF Typed

\* Recording one lawful event is a command.
LEMMA OneCommand ==
  ASSUME Typed, NEW t \in Till, NEW kind, NEW id, NEW by, NEW data, NEW e, NEW next,
         e = Event(t, 1, kind, id, by, data), Records(t, <<e>>, next), Shaped(next),
         Lawful(t, <<e>>, next)
  PROVE  \E q, n : Command(t, q, n)
BY OneStamped, RecordsWrites

\* Each operation is a command: those of the store room, ...
LEMMA StoresCommand ==
  ASSUME Typed, NEW t \in Till, Stores(t)
  PROVE  \E q, n : Command(t, q, n)
<1>1. ASSUME NEW kind, NEW id, NEW by, NEW data, kind \in StockKind,
             kind = "BatchReceived" => id = NewId(t, 1), data.qty \in Quantity,
             RecordStock(t, Event(t, 1, kind, id, by, data))
      PROVE  \E q, n : Command(t, q, n)
  <2> DEFINE e == Event(t, 1, kind, id, by, data)
             next == [shop[t] EXCEPT !.stock = StockApply(shop[t].stock, e)]
  <2>1. e.kind = kind /\ e.id = id /\ e.data.qty \in Int
    <3>1. e.kind = kind /\ e.id = id /\ e.data = data
      BY EventKind
    <3>2. data.qty \in Int
      BY <1>1, ShopAssumption
    <3> HIDE DEF e
    <3> QED BY <3>1, <3>2
  <2>2. StockAccepts(shop[t].stock, e) /\ Records(t, <<e>>, next)
    BY <1>1 DEF RecordStock
  <2>3. Shaped(next)
    BY ShapedStays, MemoryShaped
  <2>4. MovesStock(t, e, next)
    BY <1>1, <2>1, <2>2 DEF MovesStock
  <2>5. Lawful(t, <<e>>, next)
    BY <2>4 DEF Lawful
  <2> HIDE DEF next
  <2> QED BY <2>2, <2>3, <2>5, OneCommand
<1>2. CASE ReceiveStock(t)
  <2>1. PICK by \in AtTill(t), p \in Product, m \in Quantity, c \in Cost :
          RecordStock(t, Event(t, 1, "BatchReceived", NewId(t, 1), by,
                               [product |-> p, qty |-> m, cost |-> c, expires |-> NeverExpires]))
    BY <1>2 DEF ReceiveStock
  <2> DEFINE data == [product |-> p, qty |-> m, cost |-> c, expires |-> NeverExpires]
  <2>2. data.qty \in Quantity
    OBVIOUS
  <2> HIDE DEF data
  <2> QED BY <1>1, <2>1, <2>2 DEF StockKind, data
<1>3. CASE CountStock(t)
  <2>1. PICK by \in AtTill(t), b \in Batches(shop[t].stock), m \in Quantity :
          RecordStock(t, Event(t, 1, "BatchCounted", b, by, [qty |-> m]))
    BY <1>3 DEF CountStock
  <2>2. [qty |-> m].qty \in Quantity
    OBVIOUS
  <2> QED BY <1>1, <2>1, <2>2 DEF StockKind
<1>4. CASE IssueStock(t)
  <2>1. PICK by \in AtTill(t), b \in Batches(shop[t].stock), m \in Quantity :
          RecordStock(t, Event(t, 1, "StockIssued", b, by, [qty |-> m]))
    BY <1>4 DEF IssueStock
  <2>2. [qty |-> m].qty \in Quantity
    OBVIOUS
  <2> QED BY <1>1, <2>1, <2>2 DEF StockKind
<1> QED BY <1>2, <1>3, <1>4 DEF Stores

\* ... of purchasing, ...
LEMMA BuyingCommand ==
  ASSUME Typed, NEW t \in Till, Buying(t)
  PROVE  \E q, n : Command(t, q, n)
<1>1. CASE PlaceOrder(t)
  <2>1. PICK by \in AtTill(t), p \in Product, m \in Quantity, c \in Cost :
          LET e == Event(t, 1, "Placed", NewId(t, 1), by,
                         [lines |-> <<[product |-> p, qty |-> m, cost |-> c]>>])
          IN Records(t, <<e>>,
                     [shop[t] EXCEPT !.orders = [id \in Orders(t) \cup {e.id} |->
                                                   IF id = e.id THEN OrderReplay(<<e>>)
                                                   ELSE shop[t].orders[id]]])
    BY <1>1 DEF PlaceOrder
  <2> DEFINE line == [product |-> p, qty |-> m, cost |-> c]
             e == Event(t, 1, "Placed", NewId(t, 1), by, [lines |-> <<line>>])
             entered == [id \in Orders(t) \cup {e.id} |->
                           IF id = e.id THEN OrderReplay(<<e>>) ELSE shop[t].orders[id]]
             next == [shop[t] EXCEPT !.orders = entered]
  <2>2. Records(t, <<e>>, next)
    BY <2>1
  <2>3. e.kind = "Placed" /\ e.id = NewId(t, 1) /\ e.data = [lines |-> <<line>>]
    BY EventKind
  <2>4. Shaped(next)
    BY ShapedStays, MemoryShaped
  <2>5. Places(t, e, next)
    <3>1. e.data.lines # << >>
      <4> HIDE DEF line, e
      <4>1. <<line>> # << >>
        OBVIOUS
      <4> QED BY <2>3, <4>1
    <3> QED BY <2>3, <3>1 DEF Places
  <2>6. Lawful(t, <<e>>, next)
    BY <2>5 DEF Lawful
  <2> HIDE DEF next
  <2> QED BY <2>2, <2>4, <2>6, OneCommand
<1>2. CASE ReceiveAgainstOrder(t)
  <2>0. PICK by \in AtTill(t), order \in Orders(t), m \in Quantity, c \in Cost :
          \E line \in DOMAIN shop[t].orders[order].lines :
              RecordReceipt(t, Receipt(t, order, line, by, m, c))
    BY <1>2 DEF ReceiveAgainstOrder
  <2>1. PICK line : RecordReceipt(t, Receipt(t, order, line, by, m, c))
    BY <2>0
  <2> DEFINE d1 == [line |-> line, qty |-> m, cost |-> c, batch |-> NewId(t, 1)]
             d2 == [product |-> shop[t].orders[order].lines[line].line.product,
                    qty |-> m, cost |-> c, expires |-> NeverExpires]
             e == Event(t, 1, "LineReceived", order, by, d1)
             f == Event(t, 2, "BatchReceived", NewId(t, 1), by, d2)
             next == [shop[t] EXCEPT !.orders[e.id] = OrderApply(@, e), !.stock = StockApply(@, f)]
  <2>2. Receipt(t, order, line, by, m, c) = <<e, f>>
    BY DEF Receipt
  <2>3. /\ e.kind = "LineReceived" /\ e.id = order
        /\ f.kind = "BatchReceived" /\ f.id = NewId(t, 1)
        /\ e.data.qty \in Int /\ f.data.qty \in Int
    <3>1. e.kind = "LineReceived" /\ e.id = order /\ e.data = d1
      BY EventKind
    <3>2. f.kind = "BatchReceived" /\ f.id = NewId(t, 1) /\ f.data = d2
      BY EventKind
    <3>3. d1.qty = m /\ d2.qty = m /\ m \in Int
      BY ShopAssumption
    <3> HIDE DEF e, f, d1, d2
    <3> QED BY <3>1, <3>2, <3>3
  <2>4. Stamped(t, <<e, f>>)
    BY TwoStamped
  <2> HIDE DEF e, f
  <2>5. /\ OrderAccepts(shop[t].orders[e.id], e) /\ StockAccepts(shop[t].stock, f)
        /\ Records(t, <<e, f>>, next)
    <3> DEFINE events == <<e, f>>
    <3>1. events[1] = e /\ events[2] = f
      OBVIOUS
    <3> HIDE DEF events
    <3>2. RecordReceipt(t, events)
      BY <2>1, <2>2 DEF events
    <3>3. Records(t, events, next)
      BY <3>1, <3>2 DEF RecordReceipt
    <3>4. OrderAccepts(shop[t].orders[e.id], e) /\ StockAccepts(shop[t].stock, f)
      BY <3>1, <3>2 DEF RecordReceipt
    <3> QED BY <3>3, <3>4 DEF events
  <2>6. Shaped(next)
    <3> DEFINE mid == [shop[t] EXCEPT !.orders[e.id] = OrderApply(@, e)]
               orders == [shop[t].orders EXCEPT ![e.id] = OrderApply(@, e)]
    <3>1. mid = [shop[t] EXCEPT !.orders = orders]
      OBVIOUS
    <3>2. Shaped(mid)
      <4> HIDE DEF orders
      <4> QED BY <3>1, ShapedStays, MemoryShaped
    <3>3. next = [mid EXCEPT !.stock = StockApply(mid.stock, f)]
      OBVIOUS
    <3> HIDE DEF mid
    <3> QED BY <3>2, <3>3, ShapedStays
  <2>7. Receives(t, e, f, next)
    BY <2>3, <2>5 DEF Receives
  <2>8. Lawful(t, <<e, f>>, next)
    BY <2>7 DEF Lawful
  <2> HIDE DEF next
  <2> QED BY <2>4, <2>5, <2>6, <2>8, RecordsWrites
<1>3. CASE CloseOrder(t)
  <2>1. PICK by \in AtTill(t), order \in Orders(t), reason \in CloseReason :
          LET e == Event(t, 1, "Closed", order, by, [reason |-> reason])
          IN /\ OrderAccepts(shop[t].orders[order], e)
             /\ Records(t, <<e>>, [shop[t] EXCEPT !.orders[order] = OrderApply(@, e)])
    BY <1>3 DEF CloseOrder
  <2> DEFINE e == Event(t, 1, "Closed", order, by, [reason |-> reason])
             orders == [shop[t].orders EXCEPT ![order] = OrderApply(@, e)]
             next == [shop[t] EXCEPT !.orders[order] = OrderApply(@, e)]
  <2>2. /\ OrderAccepts(shop[t].orders[order], e)
        /\ Records(t, <<e>>, next)
    BY <2>1
  <2>3. e.kind = "Closed" /\ e.id = order /\ e.data = [reason |-> reason]
    BY EventKind
  <2>4. Shaped(next)
    <3>1. next = [shop[t] EXCEPT !.orders = orders]
      OBVIOUS
    <3> HIDE DEF orders
    <3> QED BY <3>1, ShapedStays, MemoryShaped
  <2>5. Closes(t, e, next)
    <3>1. e.data.reason \in CloseReason
      BY <2>3
    <3> HIDE DEF e
    <3> QED BY <2>2, <2>3, <3>1 DEF Closes
  <2>6. Lawful(t, <<e>>, next)
    BY <2>5 DEF Lawful
  <2> HIDE DEF next
  <2> QED BY <2>2, <2>4, <2>6, OneCommand
<1> QED BY <1>1, <1>2, <1>3 DEF Buying

\* ... of the office, ...
LEMMA OfficeCommand ==
  ASSUME Typed, NEW t \in Till, Office(t)
  PROVE  \E q, n : Command(t, q, n)
<1>1. CASE EnrolStaff(t)
  <2>1. PICK pin \in Pin, new \in Pin, role \in Role : \E by \in Managers(t, pin) :
            LET e == Event(t, 1, "Enrolled", NewId(t, 1), by, [role |-> role, pin |-> new])
            IN /\ by = Founder => role = "owner"
               /\ StaffAccepts(shop[t].staff, e)
               /\ Records(t, <<e>>, [shop[t] EXCEPT !.staff = StaffApply(@, e)])
    BY <1>1 DEF EnrolStaff
  <2>2. PICK by \in Managers(t, pin) :
            LET e == Event(t, 1, "Enrolled", NewId(t, 1), by, [role |-> role, pin |-> new])
            IN /\ by = Founder => role = "owner"
               /\ StaffAccepts(shop[t].staff, e)
               /\ Records(t, <<e>>, [shop[t] EXCEPT !.staff = StaffApply(@, e)])
    BY <2>1
  <2> DEFINE e == Event(t, 1, "Enrolled", NewId(t, 1), by, [role |-> role, pin |-> new])
             next == [shop[t] EXCEPT !.staff = StaffApply(@, e)]
  <2>3. /\ by = Founder => role = "owner"
        /\ StaffAccepts(shop[t].staff, e) /\ Records(t, <<e>>, next)
    BY <2>2
  <2>4. /\ e.kind = "Enrolled" /\ e.id = NewId(t, 1) /\ e.by = by
        /\ e.data = [role |-> role, pin |-> new]
    BY EventKind
  <2>5. Shaped(next)
    BY ShapedStays, MemoryShaped
  <2>6. Lawful(t, <<e>>, next)
    <3>1. e.data.role = role
      BY <2>4
    <3> HIDE DEF e
    <3>2. MayManage(t, e)
      BY <2>4 DEF MayManage
    <3>3. Enrols(t, e, next)
      BY <2>3, <2>4, <3>1, <3>2 DEF Enrols
    <3> QED BY <3>3 DEF Lawful
  <2> HIDE DEF next
  <2> QED BY <2>3, <2>5, <2>6, OneCommand
<1>2. CASE ConfigureOutlet(t)
  <2>1. PICK pin \in Pin, regime \in FiscalRegime, registered \in BOOLEAN :
          \E by \in Managers(t, pin) :
            LET e == Event(t, 1, "Configured", "outlet", by,
                           [regime |-> regime, registered |-> registered])
            IN /\ ValidSettings(e.data)
               /\ Records(t, <<e>>, [shop[t] EXCEPT !.outlet = OutletApply(@, e)])
    BY <1>2 DEF ConfigureOutlet
  <2>2. PICK by \in Managers(t, pin) :
            LET e == Event(t, 1, "Configured", "outlet", by,
                           [regime |-> regime, registered |-> registered])
            IN /\ ValidSettings(e.data)
               /\ Records(t, <<e>>, [shop[t] EXCEPT !.outlet = OutletApply(@, e)])
    BY <2>1
  <2> DEFINE e == Event(t, 1, "Configured", "outlet", by,
                        [regime |-> regime, registered |-> registered])
             next == [shop[t] EXCEPT !.outlet = OutletApply(@, e)]
  <2>3. Records(t, <<e>>, next)
    BY <2>2
  <2>4. e.kind = "Configured" /\ e.by = by
    BY EventKind
  <2>5. Shaped(next)
    BY ShapedStays, MemoryShaped
  <2>6. Lawful(t, <<e>>, next)
    <3> HIDE DEF e
    <3>1. MayManage(t, e)
      BY <2>4 DEF MayManage
    <3>2. Configures(t, e, next)
      BY <2>4, <3>1 DEF Configures
    <3> QED BY <3>2 DEF Lawful
  <2> HIDE DEF next
  <2> QED BY <2>3, <2>5, <2>6, OneCommand
<1> QED BY <1>1, <1>2 DEF Office

\* ... a change of a product, ...
LEMMA CatalogueCommand ==
  ASSUME Typed, NEW t \in Till, NEW pin, NEW by \in Editors(t, pin), NEW kind \in CatalogueKind,
         NEW id, NEW data, RecordCatalogue(t, kind, id, by, data)
  PROVE  \E q, n : Command(t, q, n)
<1> DEFINE e == Event(t, 1, kind, id, by, data)
           next == [shop[t] EXCEPT !.catalogue = CatalogueApply(@, e)]
<1>1. CatalogueAccepts(shop[t].catalogue, e) /\ Records(t, <<e>>, next)
  BY DEF RecordCatalogue
<1>2. e.kind = kind /\ e.by = by
  BY EventKind
<1>3. Shaped(next)
  BY ShapedStays, MemoryShaped
<1>4. Lawful(t, <<e>>, next)
  <2> HIDE DEF e
  <2>1. MayEdit(t, e)
    BY <1>2 DEF MayEdit
  <2>2. EditsCatalogue(t, e, next)
    BY <1>1, <1>2, <2>1 DEF EditsCatalogue
  <2> QED BY <2>2 DEF Lawful
<1> HIDE DEF next
<1> QED BY <1>1, <1>3, <1>4, OneCommand

\* ... of a table, ...
LEMMA FloorCommand ==
  ASSUME Typed, NEW t \in Till, NEW pin, NEW by \in Editors(t, pin), NEW kind \in FloorKind,
         NEW id, NEW data, RecordFloor(t, kind, id, by, data)
  PROVE  \E q, n : Command(t, q, n)
<1> DEFINE e == Event(t, 1, kind, id, by, data)
           next == [shop[t] EXCEPT !.floor = FloorApply(@, e)]
<1>1. FloorAccepts(shop[t].floor, e) /\ Records(t, <<e>>, next)
  BY DEF RecordFloor
<1>2. e.kind = kind /\ e.by = by
  BY EventKind
<1>3. Shaped(next)
  BY ShapedStays, MemoryShaped
<1>4. Lawful(t, <<e>>, next)
  <2> HIDE DEF e
  <2>1. MayEdit(t, e)
    BY <1>2 DEF MayEdit
  <2>2. EditsFloor(t, e, next)
    BY <1>1, <1>2, <2>1 DEF EditsFloor
  <2> QED BY <2>2 DEF Lawful
<1> HIDE DEF next
<1> QED BY <1>1, <1>3, <1>4, OneCommand

\* ... the floor's, ...
LEMMA RoomCommand ==
  ASSUME Typed, NEW t \in Till, Room(t)
  PROVE  \E q, n : Command(t, q, n)
<1>1. CASE SaveTable(t)
  BY <1>1, FloorCommand DEF SaveTable, FloorKind
<1>2. CASE SetTableActive(t)
  BY <1>2, FloorCommand DEF SetTableActive, FloorKind
<1> QED BY <1>1, <1>2 DEF Room

\* Some of the rows of a file, up to the one that was not taken or not written.
LEMMA ImportCommand ==
  ASSUME Typed, NEW t \in Till, NEW file \in Files, CommitImport(t, file)
  PROVE  \E q, n : Command(t, q, n)
<1> DEFINE read == FromDelimited(file)
           additions(by) == Additions(t, read.products, by)
<1>1. PICK pin \in Pin : \E by \in Editors(t, pin), n \in 0 .. Len(read.products) :
         /\ \A i \in 1 .. n : TakesRow(t, additions(by), i)
         /\ n > 0 => Follows(t)
         /\ log' = [log EXCEPT ![t] = @ \o SubSeq(additions(by), 1, n)]
         /\ shop' = [shop EXCEPT ![t].catalogue = CatalogueAfter(t, additions(by), n)]
         /\ Works(t, n) \/ Works(t, n + 1)
  BY ZenonT(60) DEF CommitImport
<1>2. PICK by \in Editors(t, pin), n \in 0 .. Len(read.products) :
         /\ \A i \in 1 .. n : TakesRow(t, additions(by), i)
         /\ n > 0 => Follows(t)
         /\ log' = [log EXCEPT ![t] = @ \o SubSeq(additions(by), 1, n)]
         /\ shop' = [shop EXCEPT ![t].catalogue = CatalogueAfter(t, additions(by), n)]
         /\ Works(t, n) \/ Works(t, n + 1)
  BY <1>1
<1> DEFINE all == additions(by)
           q == SubSeq(all, 1, n)
           next == [shop[t] EXCEPT !.catalogue = CatalogueAfter(t, all, n)]
<1>3. n \in Nat /\ \A i \in 1 .. n : i \in DOMAIN all
  BY <1>2 DEF TakesRow
<1>4. \A i \in 1 .. n : /\ all[i].kind = "ProductAdded" /\ all[i].by = by
                        /\ all[i].till = t /\ all[i].seq = tip[t] + i
                        /\ all[i].at = clock + 1 + Skew[t]
  <2> SUFFICES ASSUME NEW i \in 1 .. n
               PROVE  /\ all[i].kind = "ProductAdded" /\ all[i].by = by
                      /\ all[i].till = t /\ all[i].seq = tip[t] + i
                      /\ all[i].at = clock + 1 + Skew[t]
    OBVIOUS
  <2>1. all[i] = Event(t, i, "ProductAdded", NewId(t, i), by, read.products[i].details)
    BY <1>3 DEF Additions
  <2> HIDE DEF all
  <2> QED BY <2>1 DEF Event
<1> HIDE DEF additions
<1> DEFINE S == {all[i] : i \in 1 .. n}
<1>5. /\ q \in Seq(S) /\ Len(q) = n /\ \A i \in 1 .. n : q[i] = all[i]
  <2>1. \A i \in 1 .. n : all[i] \in S
    OBVIOUS
  <2> HIDE DEF S
  <2>2. /\ q \in Seq(S) /\ Len(q) = IF 1 <= n THEN n - 1 + 1 ELSE 0
        /\ \A i \in 1 .. n - 1 + 1 : q[i] = all[1 + i - 1]
    BY <1>3, <2>1, SubSeqProperties
  <2> QED BY <1>3, <2>2
<1>6. \A m \in 0 .. n : SubSeq(q, 1, m) = SubSeq(all, 1, m)
  <2> SUFFICES ASSUME NEW m \in 0 .. n PROVE SubSeq(q, 1, m) = SubSeq(all, 1, m)
    OBVIOUS
  <2>1. \A i \in 1 .. m : q[i] \in S /\ all[i] \in S /\ q[i] = all[i]
    BY <1>3, <1>5
  <2> HIDE DEF S, q
  <2>2. m \in Int /\ 1 \in Int /\ m - 1 + 1 = m /\ m \in Nat
    BY <1>3
  <2>3. /\ SubSeq(q, 1, m) \in Seq(S) /\ Len(SubSeq(q, 1, m)) = IF 1 <= m THEN m - 1 + 1 ELSE 0
        /\ \A i \in 1 .. m - 1 + 1 : SubSeq(q, 1, m)[i] = q[1 + i - 1]
    BY <2>1, <2>2, SubSeqProperties
  <2>4. /\ SubSeq(all, 1, m) \in Seq(S) /\ Len(SubSeq(all, 1, m)) = IF 1 <= m THEN m - 1 + 1 ELSE 0
        /\ \A i \in 1 .. m - 1 + 1 : SubSeq(all, 1, m)[i] = all[1 + i - 1]
    BY <2>1, <2>2, SubSeqProperties
  <2>5. Len(SubSeq(q, 1, m)) = m /\ Len(SubSeq(all, 1, m)) = m
        /\ \A i \in 1 .. m : SubSeq(q, 1, m)[i] = SubSeq(all, 1, m)[i]
    BY <2>1, <2>2, <2>3, <2>4
  <2> QED BY <2>3, <2>4, <2>5, SeqEqual
<1> HIDE DEF S, q, all
<1>7. Stamped(t, q)
  <2>1. DOMAIN q = 1 .. n /\ IsLog(q)
    BY <1>5, LogOfAny
  <2> QED BY <1>4, <1>5, <2>1 DEF Stamped
<1>8. \A m \in 0 .. n : CatalogueAfter(t, all, m) = Listed(t, q, m)
  BY <1>6 DEF CatalogueAfter, Listed
<1>9. Shaped(next) /\ next = [shop[t] EXCEPT !.catalogue = Listed(t, q, n)]
  <2>1. n \in 0 .. n
    BY <1>3
  <2> QED BY <1>8, <2>1, ShapedStays, MemoryShaped
<1>10. Imports(t, q, next)
  <2> SUFFICES ASSUME NEW i \in 1 .. n
               PROVE  /\ q[i].kind = "ProductAdded" /\ MayEdit(t, q[i])
                      /\ CatalogueAccepts(Listed(t, q, i - 1), q[i])
    BY <1>5, <1>9 DEF Imports
  <2>1. q[i] = all[i] /\ q[i].kind = "ProductAdded" /\ q[i].by = by
    BY <1>4, <1>5
  <2>2. CatalogueAccepts(CatalogueAfter(t, all, i - 1), all[i])
    BY <1>2 DEF TakesRow, all
  <2>3. i - 1 \in 0 .. n
    BY <1>3
  <2>4. MayEdit(t, q[i])
    BY <1>2, <2>1 DEF MayEdit
  <2> QED BY <1>8, <2>1, <2>2, <2>3, <2>4
<1>11. Writes(t, q, next)
  <2>1. /\ log' = [log EXCEPT ![t] = @ \o q]
        /\ shop' = [shop EXCEPT ![t].catalogue = CatalogueAfter(t, all, n)]
    BY <1>2 DEF q, all
  <2>2. shop' = [shop EXCEPT ![t] = next]
    BY <2>1
  <2>3. q = << >> \/ Follows(t)
    <3>1. CASE n = 0
      BY <1>5, <3>1, EmptySeq
    <3>2. CASE n > 0
      BY <1>2, <3>2
    <3> QED BY <1>3, <3>1, <3>2
  <2>4. PICK count \in Nat : n <= count /\ Works(t, count)
    <3>1. n + 1 \in Nat /\ n <= n /\ n <= n + 1
      BY <1>3
    <3> QED BY <1>2, <1>3, <3>1
  <2>5. /\ tip' \in [Till -> Nat] /\ \A u \in Till : tip[u] <= tip'[u]
        /\ tip[t] + count <= tip'[t] /\ tip[t] \in Nat
    BY <2>4, TipGrows
  <2>6. tip[t] + Len(q) <= tip'[t]
    BY <1>3, <1>5, <2>4, <2>5
  <2>7. up[t] /\ clock' = clock + 1 /\ UNCHANGED <<known, base, up>>
    BY <2>4 DEF Works
  <2> QED BY <1>7, <1>9, <2>1, <2>2, <2>3, <2>5, <2>6, <2>7 DEF Writes
<1> QED BY <1>10, <1>11 DEF Command, Lawful

\* ... and the catalogue's.
LEMMA CatalogCommand ==
  ASSUME Typed, NEW t \in Till, Catalog(t)
  PROVE  \E q, n : Command(t, q, n)
<1>1. CASE SaveProduct(t)
  BY <1>1, CatalogueCommand DEF SaveProduct, CatalogueKind
<1>2. CASE SetProductActive(t)
  BY <1>2, CatalogueCommand DEF SetProductActive, CatalogueKind
<1> QED BY <1>1, <1>2, ImportCommand DEF Catalog

\* A step is a command, a page learnt, a start, or nothing to the back office.
LEMMA StepKinds ==
  ASSUME Typed, [Next]_svars
  PROVE  \/ \E t \in Till : \E q, n : Command(t, q, n)
         \/ \E t \in Till : Learn(t) \/ Restart(t)
         \/ Quiet
<1>1. CASE UNCHANGED svars
  BY <1>1 DEF svars, Quiet
<1>2. CASE Idle
  BY <1>2 DEF Idle, Quiet
<1>3. ASSUME NEW t \in Till, SignIn(t) \/ SignOut(t) PROVE Quiet
  BY <1>3 DEF SignIn, SignOut, Quiet
<1> QED
  BY <1>1, <1>2, <1>3, StoresCommand, BuyingCommand, OfficeCommand, CatalogCommand, RoomCommand
  DEF Next

-----------------------------------------------------------------------------
(***************************************************************************)
(* Types, and the numbers and times of what is written.                    *)
(***************************************************************************)

\* Every log's events say whose they are, where they stand and when, no later
\* than their till's clock.
Numbered ==
    \A t \in Till : \A i \in DOMAIN log[t] : /\ log[t][i].till = t
                                             /\ log[t][i].seq = i
                                             /\ log[t][i].at \in Nat
                                             /\ log[t][i].at <= clock + Skew[t]

\* What the logs and the counters are at every moment.
Grown == Typed /\ Numbered

\* A till and its sibling are the two there are.
LEMMA TillsKnown ==
  ASSUME NEW t \in Till
  PROVE  /\ Sibling(t) \in Till /\ Sibling(t) # t
         /\ t \in Nat /\ Sibling(t) \in Nat /\ Skew[t] \in Nat
         /\ \A u \in Till : u = t \/ u = Sibling(t)
<1>1. PICK a, b \in Till : a # b /\ Till = {a, b}
  BY ShopAssumption
<1>2. \E other \in Till : other # t
  BY <1>1
<1>3. Sibling(t) \in Till /\ Sibling(t) # t
  BY <1>2 DEF Sibling
<1> QED BY <1>1, <1>3, ShopAssumption

\* What a replay makes has the six parts.
LEMMA RebuiltShaped == ASSUME NEW S PROVE Shaped(Rebuilt(S))
BY DEF Rebuilt, Shaped

\* A log with more put after it.
LEMMA LogAppend ==
  ASSUME NEW p, NEW q, IsLog(p), IsLog(q)
  PROVE  /\ IsLog(p \o q)
         /\ Len(p) \in Nat /\ Len(q) \in Nat /\ Len(p \o q) = Len(p) + Len(q)
         /\ DOMAIN p = 1 .. Len(p) /\ DOMAIN q = 1 .. Len(q)
         /\ DOMAIN (p \o q) = 1 .. Len(p) + Len(q)
         /\ \A i \in 1 .. Len(p) : (p \o q)[i] = p[i]
         /\ \A i \in 1 .. Len(q) : (p \o q)[Len(p) + i] = q[i]
<1> DEFINE S == Range(p) \cup Range(q)
           r == p \o q
<1>1. p \in Seq(S) /\ q \in Seq(S)
  BY SeqMonotonic DEF IsLog
<1> HIDE DEF S, r
<1>2. /\ r \in Seq(S) /\ Len(r) = Len(p) + Len(q)
      /\ \A i \in 1 .. Len(p) + Len(q) : r[i] = IF i <= Len(p) THEN p[i] ELSE q[i - Len(p)]
  BY <1>1, ConcatProperties DEF r
<1>3. Len(p) \in Nat /\ Len(q) \in Nat /\ DOMAIN p = 1 .. Len(p) /\ DOMAIN q = 1 .. Len(q)
  BY <1>1
<1>4. IsLog(r) /\ DOMAIN r = 1 .. Len(p) + Len(q)
  BY <1>2, LogOfAny
<1>5. \A i \in 1 .. Len(p) : r[i] = p[i]
  BY <1>2, <1>3
<1>6. ASSUME NEW i \in 1 .. Len(q) PROVE r[Len(p) + i] = q[i]
  <2>1. Len(p) + i \in 1 .. Len(p) + Len(q) /\ ~(Len(p) + i <= Len(p)) /\ (Len(p) + i) - Len(p) = i
    BY <1>3
  <2> QED BY <1>2, <2>1
<1> QED BY <1>2, <1>3, <1>4, <1>5, <1>6 DEF r

\* What a command writes is all that happens to the logs.
LEMMA CommandLogs ==
  ASSUME Typed, NEW t \in Till, NEW q, NEW next, Command(t, q, next)
  PROVE  /\ IsLog(log[t]) /\ IsLog(q) /\ log'[t] = log[t] \o q
         /\ \A u \in Till : u # t => log'[u] = log[u]
         /\ log' = [u \in Till |-> log'[u]]
         /\ shop'[t] = next /\ Shaped(next)
         /\ \A u \in Till : u # t => shop'[u] = shop[u]
         /\ shop' = [u \in Till |-> shop'[u]]
BY DEF Typed, Command, Writes, Stamped

\* Types are kept by a command, ...
LEMMA CommandTyped ==
  ASSUME Typed, NEW t \in Till, NEW q, NEW next, Command(t, q, next)
  PROVE  Typed'
<1>1. /\ IsLog(log[t]) /\ IsLog(q) /\ log'[t] = log[t] \o q
      /\ \A u \in Till : u # t => log'[u] = log[u]
      /\ log' = [u \in Till |-> log'[u]]
      /\ shop'[t] = next /\ Shaped(next)
      /\ \A u \in Till : u # t => shop'[u] = shop[u]
      /\ shop' = [u \in Till |-> shop'[u]]
  BY CommandLogs
<1>2. /\ IsLog(log'[t]) /\ Len(log[t]) \in Nat /\ Len(q) \in Nat
      /\ Len(log'[t]) = Len(log[t]) + Len(q)
  <2>1. /\ IsLog(log[t] \o q) /\ Len(log[t]) \in Nat /\ Len(q) \in Nat
        /\ Len(log[t] \o q) = Len(log[t]) + Len(q)
    BY <1>1, LogAppend
  <2>2. /\ DOMAIN (log[t] \o q) = 1 .. Len(log[t]) + Len(q)
        /\ log[t] \o q \in Seq(Range(log[t] \o q))
    BY <1>1, LogAppend, <2>1 DEF IsLog
  <2> QED BY <1>1, <2>1, <2>2
<1>3. /\ clock' = clock + 1 /\ tip' \in [Till -> Nat] /\ \A u \in Till : tip[u] <= tip'[u]
      /\ tip[t] + Len(q) <= tip'[t] /\ UNCHANGED <<known, base, up>>
  BY DEF Command, Writes
<1>4. \A u \in Till : Len(log[u]) \in Nat /\ Len(log[u]) <= Len(log'[u]) /\ IsLog(log'[u])
  <2>1. \A u \in Till : IsLog(log[u])
    BY DEF Typed
  <2>2. \A u \in Till : Len(log[u]) \in Nat
    BY <2>1, LogAppend
  <2>3. ASSUME NEW u \in Till
        PROVE  Len(log[u]) \in Nat /\ Len(log[u]) <= Len(log'[u]) /\ IsLog(log'[u])
    <3>1. CASE u = t
      BY <1>2, <3>1
    <3>2. CASE u # t
      <4>1. log'[u] = log[u]
        BY <1>1, <3>2
      <4> QED BY <2>1, <2>2, <4>1
    <3> QED BY <3>1, <3>2
  <2> QED BY <2>3
<1>5. ASSUME NEW u \in Till
      PROVE  /\ Len(log'[u]) <= tip'[u] /\ base'[u] <= known'[u]
             /\ known'[u] <= Len(log'[Sibling(u)])
  <2>1. Len(log[u]) <= tip[u] /\ base[u] <= known[u] /\ known[u] <= Len(log[Sibling(u)])
    BY DEF Typed
  <2>2. tip[u] \in Nat /\ tip'[u] \in Nat /\ known[u] \in Nat
    BY <1>3 DEF Typed
  <2>3. Len(log'[u]) <= tip'[u]
    BY <1>1, <1>2, <1>3, <2>1, <2>2, SMTT(60)
  <2>4. Len(log[Sibling(u)]) \in Nat /\ Len(log[Sibling(u)]) <= Len(log'[Sibling(u)])
    BY <1>4, TillsKnown
  <2>5. Len(log'[Sibling(u)]) \in Nat
    <3>1. IsLog(log'[Sibling(u)])
      BY <1>4, TillsKnown
    <3> QED BY <3>1, LogAppend
  <2> QED BY <1>3, <2>1, <2>2, <2>3, <2>4, <2>5
<1>6. \A u \in Till : Shaped(shop'[u])
  BY <1>1 DEF Typed
<1>7. /\ clock' \in Nat /\ tip' \in [Till -> Nat] /\ known' \in [Till -> Nat]
      /\ base' \in [Till -> Nat] /\ up' = [u \in Till |-> up'[u]]
  BY <1>3 DEF Typed
<1>8. \A u \in Till : Shaped(shop[u])'
  BY <1>6 DEF Shaped
<1>9. \A u \in Till : IsLog(log[u])'
  BY <1>4 DEF IsLog
<1> QED BY <1>1, <1>5, <1>7, <1>8, <1>9 DEF Typed, Sibling

\* ... true of tills fresh from the box, ...
LEMMA InitTyped == Init => Grown
<1> SUFFICES ASSUME Init PROVE Grown
  OBVIOUS
<1>1. /\ clock = 0 /\ tip = [t \in Till |-> Len(log[t])] /\ base = known
      /\ up = [t \in Till |-> TRUE] /\ shop = [t \in Till |-> Rebuilt(Range(<< >>))]
      /\ log = [t \in Till |-> << >>] /\ known = [t \in Till |-> 0]
  BY NoEvents DEF Init, StartFrom
<1>2. \A t \in Till : log[t] = << >> /\ IsLog(log[t]) /\ Len(log[t]) = 0 /\ DOMAIN log[t] = {}
  <2>1. \A t \in Till : log[t] = << >>
    BY <1>1
  <2> QED BY <2>1, NoEvents
<1>3. tip = [t \in Till |-> 0]
  BY <1>1, <1>2
<1>4. \A t \in Till : Shaped(shop[t])
  BY <1>1, RebuiltShaped
<1>5. /\ clock \in Nat /\ tip \in [Till -> Nat] /\ known \in [Till -> Nat] /\ base \in [Till -> Nat]
      /\ up = [t \in Till |-> up[t]] /\ shop = [t \in Till |-> shop[t]]
      /\ log = [t \in Till |-> log[t]]
  BY <1>1, <1>3
<1>6. ASSUME NEW t \in Till
      PROVE  /\ Len(log[t]) <= tip[t] /\ base[t] <= known[t]
             /\ known[t] <= Len(log[Sibling(t)])
  <2>1. Sibling(t) \in Till
    BY TillsKnown
  <2> QED BY <1>1, <1>2, <1>3, <2>1
<1>7. Typed
  BY <1>2, <1>4, <1>5, <1>6 DEF Typed
<1>8. Numbered
  BY <1>2 DEF Numbered
<1> QED BY <1>7, <1>8 DEF Grown

\* ... kept by syncing, ...
LEMMA LearnTyped ==
  ASSUME Typed, NEW t \in Till, Learn(t)
  PROVE  Typed'
<1>1. known[t] < Len(log[Sibling(t)]) /\ known' = [known EXCEPT ![t] = @ + 1]
  BY DEF Learn
<1>2. \A u \in Till : IsLog(log[u])
  BY DEF Typed
<1>3. \A u \in Till : Len(log[u]) \in Nat
  BY <1>2, LogAppend
<1>4. known' \in [Till -> Nat]
  BY <1>1 DEF Typed
<1>5. ASSUME NEW u \in Till
      PROVE  base[u] <= known'[u] /\ known'[u] <= Len(log[Sibling(u)])
  <2>1. /\ base[u] \in Nat /\ known[u] \in Nat /\ base[u] <= known[u]
        /\ known[u] <= Len(log[Sibling(u)])
    BY DEF Typed
  <2>2. Len(log[Sibling(u)]) \in Nat
    BY <1>3, TillsKnown
  <2> QED BY <1>1, <2>1, <2>2, SMTT(60) DEF Typed
<1>6. UNCHANGED <<log, base, tip, shop, up, clock>>
  BY DEF Learn
<1> QED BY <1>4, <1>5, <1>6 DEF Typed, Shaped, IsLog, Sibling

\* ... and by starting again.
LEMMA RestartTyped ==
  ASSUME Typed, NEW t \in Till, Restart(t)
  PROVE  Typed'
<1> DEFINE S == Holding(t, known[t])
<1>1. /\ up' = [up EXCEPT ![t] = Opens(S)] /\ UNCHANGED <<log, known, clock>>
      /\ IF Opens(S)
         THEN /\ shop' = [shop EXCEPT ![t] = Rebuilt(S)]
              /\ base' = [base EXCEPT ![t] = known[t]]
              /\ tip' = [tip EXCEPT ![t] = Len(log[t])]
         ELSE UNCHANGED <<shop, base, tip>>
  BY DEF Restart
<1>2. \A u \in Till : Len(log[u]) \in Nat
  BY LogAppend DEF Typed
<1>3. Shaped(Rebuilt(S))
  BY RebuiltShaped
<1> HIDE DEF S
<1>4. up' = [u \in Till |-> up'[u]]
  BY <1>1 DEF Typed
<1>5. shop' = [u \in Till |-> shop'[u]] /\ \A u \in Till : Shaped(shop'[u])
  BY <1>1, <1>3 DEF Typed
<1>6. tip' \in [Till -> Nat] /\ \A u \in Till : Len(log[u]) <= tip'[u]
  <2>1. \A u \in Till : tip[u] \in Nat /\ Len(log[u]) <= tip[u]
    BY DEF Typed
  <2>2. CASE tip' = tip
    BY <2>1, <2>2 DEF Typed
  <2>3. CASE tip' = [tip EXCEPT ![t] = Len(log[t])]
    <3>1. tip' \in [Till -> Nat]
      BY <1>2, <2>1, <2>3 DEF Typed
    <3> QED BY <1>2, <2>1, <2>3, <3>1 DEF Typed
  <2> QED BY <1>1, <2>2, <2>3
<1>7. base' \in [Till -> Nat] /\ \A u \in Till : base'[u] <= known[u]
  <2>1. \A u \in Till : known[u] \in Nat /\ base[u] \in Nat /\ base[u] <= known[u]
    BY DEF Typed
  <2>2. CASE base' = base
    BY <2>1, <2>2 DEF Typed
  <2>3. CASE base' = [base EXCEPT ![t] = known[t]]
    <3>1. base' \in [Till -> Nat]
      BY <2>1, <2>3 DEF Typed
    <3> QED BY <2>1, <2>3, <3>1 DEF Typed
  <2> QED BY <1>1, <2>2, <2>3
<1>8. \A u \in Till : Shaped(shop[u])'
  BY <1>5 DEF Shaped
<1>9. \A u \in Till : IsLog(log[u])'
  BY <1>1 DEF IsLog, Typed
<1> QED BY <1>1, <1>4, <1>5, <1>6, <1>7, <1>8, <1>9 DEF Typed, Sibling

\* A command numbers its events on from the log's and dates them last, ...
LEMMA CommandNumbered ==
  ASSUME Grown, NEW t \in Till, NEW q, NEW next, Command(t, q, next)
  PROVE  Numbered'
<1>0. Typed /\ Numbered
  BY DEF Grown
<1>1. /\ IsLog(log[t]) /\ IsLog(q) /\ log'[t] = log[t] \o q
      /\ \A u \in Till : u # t => log'[u] = log[u]
  BY <1>0, CommandLogs
<1>2. /\ Len(log[t]) \in Nat /\ Len(q) \in Nat
      /\ DOMAIN log[t] = 1 .. Len(log[t]) /\ DOMAIN q = 1 .. Len(q)
      /\ DOMAIN log'[t] = 1 .. Len(log[t]) + Len(q)
      /\ \A i \in 1 .. Len(log[t]) : log'[t][i] = log[t][i]
      /\ \A i \in 1 .. Len(q) : log'[t][Len(log[t]) + i] = q[i]
  BY <1>1, LogAppend
<1>3. /\ clock' = clock + 1 /\ clock \in Nat
      /\ q = << >> \/ tip[t] = Len(log[t])
      /\ \A i \in 1 .. Len(q) : q[i].till = t /\ q[i].seq = tip[t] + i
                               /\ q[i].at = clock + 1 + Skew[t]
  BY <1>0, <1>2 DEF Command, Writes, Stamped, Follows, Typed
<1>4. ASSUME NEW u \in Till, NEW i \in DOMAIN log'[u], u # t \/ i <= Len(log[t])
      PROVE  /\ log'[u][i].till = u /\ log'[u][i].seq = i /\ log'[u][i].at \in Nat
             /\ log'[u][i].at <= clock' + Skew[u]
  <2>1. i \in DOMAIN log[u] /\ log'[u][i] = log[u][i]
    BY <1>1, <1>2, <1>4
  <2>2. /\ log[u][i].till = u /\ log[u][i].seq = i /\ log[u][i].at \in Nat
        /\ log[u][i].at <= clock + Skew[u]
    BY <1>0, <2>1 DEF Numbered
  <2>3. Skew[u] \in Nat
    BY TillsKnown
  <2> QED BY <1>3, <2>1, <2>2, <2>3
<1>5. ASSUME NEW i \in DOMAIN log'[t], ~(i <= Len(log[t]))
      PROVE  /\ log'[t][i].till = t /\ log'[t][i].seq = i /\ log'[t][i].at \in Nat
             /\ log'[t][i].at <= clock' + Skew[t]
  <2>1. i \in Nat /\ i - Len(log[t]) \in 1 .. Len(q) /\ Len(log[t]) + (i - Len(log[t])) = i
    BY <1>2, <1>5
  <2>2. log'[t][i] = q[i - Len(log[t])]
    BY <1>2, <2>1
  <2>3. tip[t] = Len(log[t])
    <3>1. q # << >>
      BY <2>1, NoEvents
    <3> QED BY <1>3, <3>1
  <2>4. Skew[t] \in Nat
    BY TillsKnown
  <2> QED BY <1>2, <1>3, <2>1, <2>2, <2>3, <2>4
<1>6. \A u \in Till : \A i \in DOMAIN log'[u] :
             /\ log'[u][i].till = u /\ log'[u][i].seq = i /\ log'[u][i].at \in Nat
             /\ log'[u][i].at <= clock' + Skew[u]
  BY <1>4, <1>5
<1> QED BY <1>6 DEF Numbered

\* ... and time passing makes none of them later.
LEMMA StillNumbered ==
  ASSUME Grown, UNCHANGED log, clock' \in {clock, clock + 1}
  PROVE  Numbered'
<1> SUFFICES ASSUME NEW t \in Till, NEW i \in DOMAIN log[t]
             PROVE  /\ log[t][i].till = t /\ log[t][i].seq = i /\ log[t][i].at \in Nat
                    /\ log[t][i].at <= clock' + Skew[t]
  BY DEF Numbered
<1>1. /\ log[t][i].till = t /\ log[t][i].seq = i /\ log[t][i].at \in Nat
      /\ log[t][i].at <= clock + Skew[t]
  BY DEF Grown, Numbered
<1>2. clock \in Nat /\ Skew[t] \in Nat
  BY TillsKnown DEF Grown, Typed
<1> QED BY <1>1, <1>2

\* Every step keeps types, numbers and times.
LEMMA StepTyped ==
  ASSUME Grown, [Next]_svars
  PROVE  Grown'
<1>1. Typed
  BY DEF Grown
<1>2. ASSUME NEW t \in Till, NEW q, NEW next, Command(t, q, next) PROVE Grown'
  BY <1>1, <1>2, CommandTyped, CommandNumbered DEF Grown
<1>3. ASSUME NEW t \in Till, Learn(t) \/ Restart(t) PROVE Grown'
  <2>1. UNCHANGED <<log, clock>>
    BY <1>3 DEF Learn, Restart
  <2> QED BY <1>1, <1>3, <2>1, LearnTyped, RestartTyped, StillNumbered DEF Grown
<1>4. CASE Quiet
  <2>1. clock' \in Nat /\ UNCHANGED <<log, known, base, tip, shop, up>>
    BY <1>1, <1>4 DEF Quiet, Typed
  <2>2. Typed'
    BY <1>1, <2>1 DEF Typed, Shaped, IsLog, Sibling
  <2> QED BY <1>4, <2>2, StillNumbered DEF Quiet, Grown
<1> QED BY <1>1, <1>2, <1>3, <1>4, StepKinds

\* What a segment of a list holds is finite.
LEMMA SegmentFinite ==
  ASSUME NEW q, NEW n \in Nat
  PROVE  IsFiniteSet({q[i] : i \in 1 .. n})
<1> DEFINE T == {q[i] : i \in 1 .. n}
           f == [i \in 1 .. n |-> q[i]]
<1>1. f \in Surjection(1 .. n, T)
  BY DEF Surjection
<1>2. IsFiniteSet(1 .. n)
  BY FS_Interval
<1> HIDE DEF f, T
<1>3. IsFiniteSet(T)
  BY <1>1, <1>2, FS_Surjection
<1> QED BY <1>3 DEF T

\* What a till holds can be put in order of time.
LEMMA HoldingDated ==
  ASSUME Grown, NEW t \in Till, NEW n \in 0 .. Len(log[Sibling(t)])
  PROVE  Dated(Holding(t, n))
<1> DEFINE u == Sibling(t)
           M == Len(log[t])
<1>1. u \in Till /\ u # t /\ t \in Nat /\ u \in Nat
  BY TillsKnown
<1> HIDE DEF u
<1>2. /\ IsLog(log[t]) /\ IsLog(log[u]) /\ M \in Nat /\ Len(log[u]) \in Nat
      /\ DOMAIN log[t] = 1 .. M /\ DOMAIN log[u] = 1 .. Len(log[u])
  <2>1. IsLog(log[t]) /\ IsLog(log[u])
    BY <1>1 DEF Grown, Typed
  <2> QED BY <2>1, LogAppend
<1>3. n \in Nat /\ n <= Len(log[u])
  BY <1>2 DEF u
<1> DEFINE A == {log[t][i] : i \in 1 .. M}
           B == {log[u][i] : i \in 1 .. n}
<1>4. Holding(t, n) = A \cup B
  <2>1. Range(log[t]) = A
    BY <1>2 DEF Range
  <2>2. Range(SubSeq(log[u], 1, n)) = B
    <3>1. \A i \in 1 .. n : log[u][i] \in Range(log[u])
      BY <1>2, <1>3 DEF Range
    <3>2. /\ SubSeq(log[u], 1, n) \in Seq(Range(log[u]))
          /\ Len(SubSeq(log[u], 1, n)) = IF 1 <= n THEN n - 1 + 1 ELSE 0
          /\ \A i \in 1 .. n - 1 + 1 : SubSeq(log[u], 1, n)[i] = log[u][1 + i - 1]
      BY <1>3, <3>1, SubSeqProperties
    <3>3. /\ DOMAIN SubSeq(log[u], 1, n) = 1 .. n
          /\ \A i \in 1 .. n : SubSeq(log[u], 1, n)[i] = log[u][i]
      BY <1>3, <3>2
    <3> QED BY <3>3 DEF Range
  <2> QED BY <2>1, <2>2 DEF Holding, u
<1>5. /\ \A i \in 1 .. M : log[t][i].till = t /\ log[t][i].seq = i /\ log[t][i].at \in Nat
      /\ \A i \in 1 .. n : log[u][i].till = u /\ log[u][i].seq = i /\ log[u][i].at \in Nat
  BY <1>1, <1>2, <1>3 DEF Grown, Numbered
<1>6. IsFiniteSet(A \cup B)
  <2>2. IsFiniteSet(A)
    BY <1>2, SegmentFinite
  <2>3. IsFiniteSet(B)
    BY <1>3, SegmentFinite
  <2> QED BY <2>2, <2>3, FS_Union
<1>7. \A e \in A \cup B : e.at \in Int /\ e.till \in Int /\ e.seq \in Int
  BY <1>1, <1>3, <1>5, SMTT(60)
<1>8. \A e, f \in A \cup B : (e.till = f.till /\ e.seq = f.seq) => e = f
  BY <1>1, <1>5, SMTT(60)
<1> HIDE DEF A, B
<1> QED BY <1>4, <1>6, <1>7, <1>8 DEF Dated

-----------------------------------------------------------------------------
(***************************************************************************)
(* The catalogue: barcodes.                                                *)
(***************************************************************************)

\* A catalogue in which no barcode is two products'.
Sound(catalogue) ==
    /\ \A p \in Products(catalogue) :
          catalogue[p] = [price |-> catalogue[p].price, barcodes |-> catalogue[p].barcodes,
                          active |-> catalogue[p].active]
    /\ \A p, q \in Products(catalogue) :
          p # q => catalogue[p].barcodes \cap catalogue[q].barcodes = {}

\* Each part of a memory changes alone.
LEMMA PartsApart ==
  ASSUME NEW s, Shaped(s), NEW x
  PROVE  /\ [s EXCEPT !.stock = x].catalogue = s.catalogue
         /\ [s EXCEPT !.stock = x].staff = s.staff
         /\ [s EXCEPT !.orders = x].catalogue = s.catalogue
         /\ [s EXCEPT !.orders = x].staff = s.staff
         /\ [s EXCEPT !.staff = x].catalogue = s.catalogue
         /\ [s EXCEPT !.staff = x].staff = x
         /\ [s EXCEPT !.catalogue = x].catalogue = x
         /\ [s EXCEPT !.catalogue = x].staff = s.staff
         /\ [s EXCEPT !.floor = x].catalogue = s.catalogue
         /\ [s EXCEPT !.floor = x].staff = s.staff
         /\ [s EXCEPT !.outlet = x].catalogue = s.catalogue
         /\ [s EXCEPT !.outlet = x].staff = s.staff
<1> DEFINE R(a, b, c, d, e, f) == [stock |-> a, orders |-> b, staff |-> c, catalogue |-> d,
                                   floor |-> e, outlet |-> f]
<1>1. s = R(s.stock, s.orders, s.staff, s.catalogue, s.floor, s.outlet)
  BY DEF Shaped
<1>2. \A a, b, c, d, e, f : R(a, b, c, d, e, f).staff = c /\ R(a, b, c, d, e, f).catalogue = d
  OBVIOUS
<1>3. [s EXCEPT !.stock = x] = R(x, s.orders, s.staff, s.catalogue, s.floor, s.outlet)
  BY <1>1
<1>4. [s EXCEPT !.orders = x] = R(s.stock, x, s.staff, s.catalogue, s.floor, s.outlet)
  BY <1>1
<1>5. [s EXCEPT !.staff = x] = R(s.stock, s.orders, x, s.catalogue, s.floor, s.outlet)
  BY <1>1
<1>6. [s EXCEPT !.catalogue = x] = R(s.stock, s.orders, s.staff, x, s.floor, s.outlet)
  BY <1>1
<1>7. [s EXCEPT !.floor = x] = R(s.stock, s.orders, s.staff, s.catalogue, x, s.outlet)
  BY <1>1
<1>8. [s EXCEPT !.outlet = x] = R(s.stock, s.orders, s.staff, s.catalogue, s.floor, x)
  BY <1>1
<1> HIDE DEF R
<1> QED BY <1>2, <1>3, <1>4, <1>5, <1>6, <1>7, <1>8

\* What the catalogue accepts keeps barcodes apart.
LEMMA ApplySound ==
  ASSUME NEW c, Sound(c), NEW e, e.kind \in CatalogueKind, CatalogueAccepts(c, e)
  PROVE  Sound(CatalogueApply(c, e))
<1>1. CASE e.kind = "ProductAdded"
  <2> DEFINE new == ProductOf(e.data, TRUE)
             d == [id \in Products(c) \cup {e.id} |-> IF id = e.id THEN new ELSE c[id]]
  <2>1. CatalogueApply(c, e) = d
    BY <1>1 DEF CatalogueApply
  <2>2. e.id \notin Products(c) /\ BarcodesFree(c, e.id, e.data)
    BY <1>1 DEF CatalogueAccepts
  <2>3. Products(d) = Products(c) \cup {e.id}
    BY DEF Products
  <2>4. d[e.id] = new /\ \A id \in Products(c) : d[id] = c[id]
    BY <2>2
  <2>5. /\ new.barcodes = e.data.barcodes
        /\ new = [price |-> new.price, barcodes |-> new.barcodes, active |-> new.active]
    BY DEF ProductOf
  <2> HIDE DEF new, d
  <2>6. \A id \in Products(c) : c[id].barcodes \cap new.barcodes = {}
    BY <2>2, <2>5 DEF BarcodesFree
  <2>7. \A p \in Products(d) : d[p] = [price |-> d[p].price, barcodes |-> d[p].barcodes,
                                       active |-> d[p].active]
    BY <2>3, <2>4, <2>5 DEF Sound
  <2>8. \A p, q \in Products(d) : p # q => d[p].barcodes \cap d[q].barcodes = {}
    BY <2>3, <2>4, <2>6 DEF Sound
  <2> QED BY <2>1, <2>7, <2>8 DEF Sound
<1>2. CASE e.kind = "ProductUpdated"
  <2> DEFINE new == ProductOf(e.data, c[e.id].active)
             d == [c EXCEPT ![e.id] = new]
  <2>1. CatalogueApply(c, e) = d
    BY <1>2 DEF CatalogueApply
  <2>2. e.id \in Products(c) /\ BarcodesFree(c, e.id, e.data)
    BY <1>2 DEF CatalogueAccepts
  <2>3. Products(d) = Products(c)
    BY DEF Products
  <2>4. d[e.id] = new /\ \A id \in Products(c) \ {e.id} : d[id] = c[id]
    BY <2>2 DEF Products
  <2>5. /\ new.barcodes = e.data.barcodes
        /\ new = [price |-> new.price, barcodes |-> new.barcodes, active |-> new.active]
    BY DEF ProductOf
  <2> HIDE DEF new, d
  <2>6. \A id \in Products(c) \ {e.id} : c[id].barcodes \cap new.barcodes = {}
    BY <2>2, <2>5 DEF BarcodesFree
  <2>7. \A p \in Products(d) : d[p] = [price |-> d[p].price, barcodes |-> d[p].barcodes,
                                       active |-> d[p].active]
    BY <2>3, <2>4, <2>5 DEF Sound
  <2>8. \A p, q \in Products(d) : p # q => d[p].barcodes \cap d[q].barcodes = {}
    BY <2>3, <2>4, <2>6 DEF Sound
  <2> QED BY <2>1, <2>7, <2>8 DEF Sound
<1>3. ASSUME NEW active,
             CatalogueApply(c, e) = [c EXCEPT ![e.id].active = active]
      PROVE  Sound(CatalogueApply(c, e))
  <2> DEFINE new == [c[e.id] EXCEPT !.active = active]
             d == [c EXCEPT ![e.id] = new]
  <2>1. CatalogueApply(c, e) = d
    BY <1>3
  <2>2. Products(d) = Products(c)
    BY DEF Products
  <2>3. \A id \in Products(c) : d[id] = IF id = e.id THEN new ELSE c[id]
    BY DEF Products
  <2>4. e.id \in Products(c) =>
          /\ new.barcodes = c[e.id].barcodes
          /\ new = [price |-> new.price, barcodes |-> new.barcodes, active |-> new.active]
    <3> SUFFICES ASSUME e.id \in Products(c)
                 PROVE  /\ new.barcodes = c[e.id].barcodes
                        /\ new = [price |-> new.price, barcodes |-> new.barcodes,
                                  active |-> new.active]
      OBVIOUS
    <3>1. c[e.id] = [price |-> c[e.id].price, barcodes |-> c[e.id].barcodes,
                     active |-> c[e.id].active]
      BY DEF Sound
    <3>2. new = [price |-> c[e.id].price, barcodes |-> c[e.id].barcodes, active |-> active]
      BY <3>1
    <3> HIDE DEF new
    <3> QED BY <3>2
  <2> HIDE DEF new, d
  <2>5. \A p \in Products(d) : /\ d[p].barcodes = c[p].barcodes
                               /\ d[p] = [price |-> d[p].price, barcodes |-> d[p].barcodes,
                                          active |-> d[p].active]
    BY <2>2, <2>3, <2>4 DEF Sound
  <2>6. \A p, q \in Products(d) : p # q => d[p].barcodes \cap d[q].barcodes = {}
    BY <2>2, <2>5 DEF Sound
  <2> QED BY <2>1, <2>5, <2>6 DEF Sound
<1>4. CASE e.kind = "ProductWithdrawn"
  BY <1>3, <1>4 DEF CatalogueApply
<1>5. CASE e.kind = "ProductRestored"
  BY <1>3, <1>5 DEF CatalogueApply
<1> QED BY <1>1, <1>2, <1>4, <1>5 DEF CatalogueKind

\* An empty catalogue is sound.
LEMMA NoneSound == Sound(<< >>)
<1>1. DOMAIN << >> = {}
  OBVIOUS
<1> QED BY <1>1 DEF Sound, Products

\* However a till's events lie, the catalogue they make is sound.
LEMMA ReplaySound ==
  ASSUME NEW E, \A e \in E : e.kind \in CatalogueKind, NEW s \in Seq(E)
  PROVE  Sound(CatalogueRun!Run(s))
<1> DEFINE P == {q \in Seq(E) : Sound(CatalogueRun!Run(q))}
<1>1. << >> \in P
  BY CatalogueRun!RunEmpty, NoneSound
<1>2. ASSUME NEW q \in P, NEW e \in E PROVE Append(q, e) \in P
  <2>1. q \in Seq(E) /\ Append(q, e) \in Seq(E)
    OBVIOUS
  <2>2. CatalogueRun!Run(Append(q, e)) = CatalogueStep(CatalogueRun!Run(q), e)
    BY <2>1, CatalogueRun!RunAppend
  <2>3. Sound(CatalogueStep(CatalogueRun!Run(q), e))
    BY ApplySound DEF CatalogueStep, Leniently
  <2> QED BY <2>1, <2>2, <2>3
<1>3. P \in SUBSET Seq(E)
  OBVIOUS
<1> HIDE DEF P
<1>4. s \in P
  BY <1>1, <1>2, <1>3, CatalogueRun!SequenceInduction
<1> QED BY <1>4 DEF P

\* So is the catalogue of whatever is replayed.
LEMMA RebuiltSound ==
  ASSUME NEW S, Dated(S)
  PROVE  Sound(Rebuilt(S).catalogue)
<1> DEFINE E == {e \in S : e.kind \in CatalogueKind}
<1>1. Dated(E)
  BY FS_Subset DEF Dated
<1>2. Chronicle(S, CatalogueKind) \in Seq(E)
  BY <1>1, InOrderSorts DEF Chronicle
<1>3. Sound(CatalogueRun!Run(Chronicle(S, CatalogueKind)))
  <2>1. \A e \in E : e.kind \in CatalogueKind
    OBVIOUS
  <2> HIDE DEF E
  <2> QED BY <1>2, <2>1, ReplaySound
<1> QED BY <1>3, ReplaysAreRuns DEF Rebuilt

\* Some rows of a list and the next.
LEMMA SubSeqNext ==
  ASSUME NEW q, IsLog(q), NEW n \in Nat, n + 1 <= Len(q)
  PROVE  /\ SubSeq(q, 1, n) \in Seq(Range(q)) /\ q[n + 1] \in Range(q)
         /\ SubSeq(q, 1, n + 1) = Append(SubSeq(q, 1, n), q[n + 1])
<1> DEFINE S == Range(q)
           p == SubSeq(q, 1, n)
           r == SubSeq(q, 1, n + 1)
<1>1. q \in Seq(S) /\ Len(q) \in Nat /\ DOMAIN q = 1 .. Len(q)
  BY DEF IsLog
<1>2. \A i \in 1 .. n + 1 : q[i] \in S
  BY <1>1
<1> HIDE DEF S, p, r
<1>3. /\ p \in Seq(S) /\ Len(p) = n /\ \A i \in 1 .. n : p[i] = q[i]
  <2>1. /\ p \in Seq(S) /\ Len(p) = IF 1 <= n THEN n - 1 + 1 ELSE 0
        /\ \A i \in 1 .. n - 1 + 1 : p[i] = q[1 + i - 1]
    BY <1>2, SubSeqProperties DEF p
  <2> QED BY <2>1
<1>4. /\ r \in Seq(S) /\ Len(r) = n + 1 /\ \A i \in 1 .. n + 1 : r[i] = q[i]
  <2>1. /\ r \in Seq(S) /\ Len(r) = IF 1 <= n + 1 THEN (n + 1) - 1 + 1 ELSE 0
        /\ \A i \in 1 .. (n + 1) - 1 + 1 : r[i] = q[1 + i - 1]
    BY <1>2, SubSeqProperties DEF r
  <2> QED BY <2>1
<1>5. q[n + 1] \in S
  BY <1>2
<1>6. /\ Append(p, q[n + 1]) \in Seq(S) /\ Len(Append(p, q[n + 1])) = n + 1
      /\ \A i \in 1 .. n : Append(p, q[n + 1])[i] = p[i]
      /\ Append(p, q[n + 1])[n + 1] = q[n + 1]
  BY <1>3, <1>5, AppendProperties
<1>7. r = Append(p, q[n + 1])
  BY <1>3, <1>4, <1>6, SeqEqual
<1> QED BY <1>3, <1>5, <1>7 DEF S, p, r

\* The catalogue after each row of a file.
LEMMA ListedNext ==
  ASSUME NEW t, NEW q, IsLog(q)
  PROVE  /\ Listed(t, q, 0) = shop[t].catalogue
         /\ \A n \in Nat : n + 1 <= Len(q) =>
               Listed(t, q, n + 1) = CatalogueApply(Listed(t, q, n), q[n + 1])
<1> DEFINE c == shop[t].catalogue
<1>1. \A n : Listed(t, q, n) = ImportRun!From(c, SubSeq(q, 1, n))
  BY ReplaysAreRuns DEF Listed
<1>2. SubSeq(q, 1, 0) = << >>
  BY SubSeqEmpty
<1>3. ImportRun!From(c, << >>) = c
  BY ImportRun!FromEmpty
<1>4. ASSUME NEW n \in Nat, n + 1 <= Len(q)
      PROVE  Listed(t, q, n + 1) = CatalogueApply(Listed(t, q, n), q[n + 1])
  <2>1. /\ SubSeq(q, 1, n) \in Seq(Range(q)) /\ q[n + 1] \in Range(q)
        /\ SubSeq(q, 1, n + 1) = Append(SubSeq(q, 1, n), q[n + 1])
    BY <1>4, SubSeqNext
  <2>2. ImportRun!From(c, Append(SubSeq(q, 1, n), q[n + 1]))
          = CatalogueApply(ImportRun!From(c, SubSeq(q, 1, n)), q[n + 1])
    BY <2>1, ImportRun!FromAppend, ZenonT(60)
  <2> QED BY <1>1, <2>1, <2>2
<1> HIDE DEF c
<1>5. Listed(t, q, 0) = c
  BY <1>1, <1>2, <1>3
<1> QED BY <1>4, <1>5 DEF c

\* Rows each of which the catalogue took leave it sound.
LEMMA ListedSound ==
  ASSUME NEW t, NEW q, IsLog(q), Sound(shop[t].catalogue),
         \A i \in 1 .. Len(q) : /\ q[i].kind = "ProductAdded"
                                /\ CatalogueAccepts(Listed(t, q, i - 1), q[i])
  PROVE  Sound(Listed(t, q, Len(q)))
<1> DEFINE P == {n \in Nat : n <= Len(q) => Sound(Listed(t, q, n))}
<1>1. Len(q) \in Nat
  BY DEF IsLog
<1>2. 0 \in P
  BY ListedNext
<1>3. ASSUME NEW n \in P PROVE n + 1 \in P
  <2>1. CASE n + 1 <= Len(q)
    <3>1. n \in Nat /\ n <= Len(q) /\ n + 1 \in 1 .. Len(q) /\ (n + 1) - 1 = n
      BY <1>1, <2>1
    <3>2. Sound(Listed(t, q, n))
      BY <3>1
    <3>3. q[n + 1].kind \in CatalogueKind /\ CatalogueAccepts(Listed(t, q, n), q[n + 1])
      BY <3>1 DEF CatalogueKind
    <3>4. Listed(t, q, n + 1) = CatalogueApply(Listed(t, q, n), q[n + 1])
      BY <2>1, <3>1, ListedNext
    <3>5. Sound(Listed(t, q, n + 1))
      BY <3>2, <3>3, <3>4, ApplySound
    <3> QED BY <3>1, <3>5
  <2>2. CASE ~(n + 1 <= Len(q))
    BY <2>2
  <2> QED BY <2>1, <2>2
<1>4. P \in SUBSET Nat
  OBVIOUS
<1> HIDE DEF P
<1>5. Len(q) \in P
  BY <1>1, <1>2, <1>3, <1>4, CatalogueRun!Induction
<1> QED BY <1>1, <1>5 DEF P

\* Every till's catalogue is sound.
Catalogued == \A t \in Till : Sound(shop[t].catalogue)

\* A command leaves a sound catalogue, ...
LEMMA CommandSound ==
  ASSUME Typed, NEW t \in Till, NEW q, NEW next, Command(t, q, next),
         Sound(shop[t].catalogue)
  PROVE  Sound(next.catalogue)
<1> DEFINE s == shop[t]
<1>0. Shaped(s) /\ IsLog(q) /\ Lawful(t, q, next)
  BY DEF Typed, Command, Writes, Stamped
<1>1. CASE next = s
  BY <1>1
<1>2. ASSUME NEW e, \/ MovesStock(t, e, next) \/ Places(t, e, next) \/ Closes(t, e, next)
                    \/ Enrols(t, e, next) \/ Configures(t, e, next)
                    \/ EditsFloor(t, e, next)
      PROVE  next.catalogue = s.catalogue
  <2> HIDE DEF s
  <2>1. CASE MovesStock(t, e, next)
    BY <1>0, <2>1, PartsApart DEF MovesStock, s
  <2>2. CASE Places(t, e, next)
    BY <1>0, <2>2, PartsApart DEF Places, s
  <2>3. CASE Closes(t, e, next)
    <3> DEFINE orders == [shop[t].orders EXCEPT ![e.id] = OrderApply(@, e)]
    <3>1. next = [shop[t] EXCEPT !.orders = orders]
      BY <2>3 DEF Closes
    <3> HIDE DEF orders
    <3> QED BY <1>0, <3>1, PartsApart DEF s
  <2>4. CASE Enrols(t, e, next)
    BY <1>0, <2>4, PartsApart DEF Enrols, s
  <2>5. CASE Configures(t, e, next)
    BY <1>0, <2>5, PartsApart DEF Configures, s
  <2>6. CASE EditsFloor(t, e, next)
    BY <1>0, <2>6, PartsApart DEF EditsFloor, s
  <2> QED BY <1>2, <2>1, <2>2, <2>3, <2>4, <2>5, <2>6
<1>3. ASSUME NEW e, EditsCatalogue(t, e, next) PROVE Sound(next.catalogue)
  <2>1. next = [shop[t] EXCEPT !.catalogue = CatalogueApply(shop[t].catalogue, e)]
    BY <1>3 DEF EditsCatalogue
  <2>2. next.catalogue = CatalogueApply(shop[t].catalogue, e)
    BY <1>0, <2>1, PartsApart
  <2> QED BY <1>3, <2>2, ApplySound DEF EditsCatalogue
<1>4. ASSUME NEW e, NEW f, Receives(t, e, f, next) PROVE next.catalogue = s.catalogue
  <2> DEFINE orders == [shop[t].orders EXCEPT ![e.id] = OrderApply(@, e)]
             mid == [shop[t] EXCEPT !.orders = orders]
  <2>1. next = [shop[t] EXCEPT !.orders[e.id] = OrderApply(@, e), !.stock = StockApply(@, f)]
    BY <1>4 DEF Receives
  <2>2. next = [mid EXCEPT !.stock = StockApply(mid.stock, f)]
    BY <2>1
  <2> HIDE DEF orders
  <2>3. Shaped(mid) /\ mid.catalogue = s.catalogue
    BY <1>0, ShapedStays, PartsApart
  <2> HIDE DEF mid, s
  <2> QED BY <2>2, <2>3, PartsApart
<1>5. CASE Imports(t, q, next)
  <2>1. next = [shop[t] EXCEPT !.catalogue = Listed(t, q, Len(q))]
    BY <1>5 DEF Imports
  <2>2. next.catalogue = Listed(t, q, Len(q))
    BY <1>0, <2>1, PartsApart
  <2>3. Sound(Listed(t, q, Len(q)))
    BY <1>0, <1>5, ListedSound DEF Imports
  <2> QED BY <2>2, <2>3
<1> QED BY <1>0, <1>1, <1>2, <1>3, <1>4, <1>5 DEF Lawful

\* No events can be put in order.
LEMMA RangeOfNone == Dated(Range(<< >>))
<1>1. Range(<< >>) = {}
  BY NoEvents DEF Range
<1> QED BY <1>1, FS_EmptySet DEF Dated

\* ... tills fresh from the box have one, ...
LEMMA InitSound == Init => Catalogued
<1> SUFFICES ASSUME Init, NEW t \in Till PROVE Sound(shop[t].catalogue)
  BY DEF Catalogued
<1>1. shop[t] = Rebuilt(Range(<< >>))
  BY DEF Init, StartFrom
<1> QED BY <1>1, RangeOfNone, RebuiltSound

\* ... and every step keeps all of them sound.
LEMMA StepSound ==
  ASSUME Grown, Catalogued, [Next]_svars
  PROVE  Catalogued'
<1>1. Typed
  BY DEF Grown
<1>2. ASSUME NEW t \in Till, NEW q, NEW next, Command(t, q, next) PROVE Catalogued'
  <2>1. /\ shop'[t] = next /\ \A u \in Till : u # t => shop'[u] = shop[u]
    BY <1>1, <1>2, CommandLogs
  <2>2. Sound(next.catalogue)
    BY <1>1, <1>2, CommandSound DEF Catalogued
  <2>3. \A u \in Till : Sound(shop'[u].catalogue)
    BY <2>1, <2>2 DEF Catalogued
  <2> QED BY <2>3 DEF Catalogued, Sound, Products
<1>3. ASSUME NEW t \in Till, Learn(t) \/ Restart(t) PROVE Catalogued'
  <2>1. CASE UNCHANGED shop
    BY <2>1 DEF Catalogued, Sound, Products
  <2>2. CASE shop' = [shop EXCEPT ![t] = Rebuilt(Holding(t, known[t]))]
    <3>1. known[t] \in 0 .. Len(log[Sibling(t)])
      <4>1. known[t] \in Nat /\ known[t] <= Len(log[Sibling(t)])
        BY <1>1 DEF Typed
      <4>2. IsLog(log[Sibling(t)])
        BY <1>1, TillsKnown DEF Typed
      <4> QED BY <4>1, <4>2, LogAppend
    <3>2. Sound(Rebuilt(Holding(t, known[t])).catalogue)
      BY <3>1, HoldingDated, RebuiltSound
    <3>3. \A u \in Till : Sound(shop'[u].catalogue)
      BY <1>1, <2>2, <3>2 DEF Catalogued, Typed
    <3> QED BY <3>3 DEF Catalogued, Sound, Products
  <2> QED BY <1>3, <2>1, <2>2 DEF Learn, Restart
<1>4. CASE Quiet
  BY <1>4 DEF Quiet, Catalogued, Sound, Products
<1> QED BY <1>1, <1>2, <1>3, <1>4, StepKinds

\* A product's barcodes are refused while any other product of the till, on
\* sale or withdrawn, has one of them, row by row of a file too; and a replay
\* passes over what two tills gave to two products while apart.  So nothing
\* a till shows, however it came to it, sells two products under one barcode.
THEOREM ShopBarcodesApart == Spec => []BarcodesApart
<1>1. Catalogued => BarcodesApart
  BY DEF Catalogued, BarcodesApart, Sound
<1>2. Init => Grown /\ Catalogued
  BY InitTyped, InitSound
<1>3. Grown /\ Catalogued /\ [Next]_svars => (Grown /\ Catalogued)'
  BY StepTyped, StepSound
<1> QED BY <1>1, <1>2, <1>3, PTL DEF Spec

-----------------------------------------------------------------------------
(***************************************************************************)
(* Who may do what.                                                        *)
(***************************************************************************)

\* Some till recorded that somebody started in a role.
Vouched(logs, who, role) ==
    \E u \in Till : \E j \in DOMAIN logs[u] :
        logs[u][j].kind = "Enrolled" /\ logs[u][j].id = who /\ logs[u][j].data.role = role

\* Nothing but enrolments is recorded of staff; a till knows whom it enrolled,
\* and knows nobody whom no till did, in that role.
Staffed ==
    /\ \A t \in Till : \A i \in DOMAIN log[t] : log[t][i].kind \in StaffKind =>
          log[t][i].kind = "Enrolled" /\ log[t][i].id \in Members(shop[t].staff)
    /\ \A t \in Till : \A m \in Members(shop[t].staff) : Vouched(log, m, shop[t].staff[m].role)

\* A replay of enrolments that goes through knows just those enrolled, in the
\* roles they were given.
LEMMA ReplayStaff ==
  ASSUME NEW E, \A e \in E : e.kind = "Enrolled", NEW s \in Seq(E)
  PROVE  LET p == StaffRun!Run(s)
         IN  /\ \A m \in Members(p.is) : \E e \in E : e.id = m /\ e.data.role = p.is[m].role
             /\ p.ok => \A i \in 1 .. Len(s) : s[i].id \in Members(p.is)
<1> DEFINE Known(p) == \A m \in Members(p.is) :
                         \E e \in E : e.id = m /\ e.data.role = p.is[m].role
           Whole(q, p) == p.ok => \A i \in 1 .. Len(q) : q[i].id \in Members(p.is)
           P == {q \in Seq(E) : Known(StaffRun!Run(q)) /\ Whole(q, StaffRun!Run(q))}
<1>1. << >> \in P
  <2>1. StaffRun!Run(<< >>) = [ok |-> TRUE, is |-> Nobody]
    BY StaffRun!RunEmpty DEF Unbroken
  <2>2. Members(Nobody) = {}
    BY NoEvents DEF Members, Nobody
  <2>3. Known(StaffRun!Run(<< >>))
    BY <2>1, <2>2
  <2>4. Whole(<< >>, StaffRun!Run(<< >>))
    BY NoEvents
  <2> QED BY <2>3, <2>4
<1>2. ASSUME NEW q \in P, NEW e \in E PROVE Append(q, e) \in P
  <2> DEFINE p == StaffRun!Run(q)
             r == StaffRun!Run(Append(q, e))
  <2>1. q \in Seq(E) /\ Append(q, e) \in Seq(E) /\ Len(Append(q, e)) = Len(q) + 1
        /\ Len(q) \in Nat /\ Append(q, e)[Len(q) + 1] = e
        /\ \A i \in 1 .. Len(q) : Append(q, e)[i] = q[i]
    OBVIOUS
  <2>2. Known(p) /\ Whole(q, p)
    OBVIOUS
  <2>3. r = StaffStep(p, e)
    BY <2>1, StaffRun!RunAppend
  <2> HIDE DEF p, r
  <2>4. CASE p.ok /\ StaffAccepts(p.is, e)
    <3>1. r = [ok |-> TRUE, is |-> StaffApply(p.is, e)]
      BY <2>3, <2>4 DEF StaffStep, Strictly
    <3> DEFINE new == [role |-> e.data.role, pin |-> e.data.pin, active |-> TRUE, since |-> e.at]
               d == [m \in Members(p.is) \cup {e.id} |-> IF m = e.id THEN new ELSE p.is[m]]
    <3>2. e.kind = "Enrolled"
      OBVIOUS
    <3>3. StaffApply(p.is, e) = d
      BY <3>2 DEF StaffApply
    <3>4. Members(d) = Members(p.is) \cup {e.id}
      BY DEF Members
    <3>5. d[e.id] = new /\ \A m \in Members(p.is) : m # e.id => d[m] = p.is[m]
      OBVIOUS
    <3>6. new.role = e.data.role
      OBVIOUS
    <3> HIDE DEF d, new
    <3>7. r.is = d
      BY <3>1, <3>3
    <3>8. Known(r)
      BY <2>2, <3>4, <3>5, <3>6, <3>7
    <3>9. Whole(Append(q, e), r)
      <4>1. ASSUME NEW i \in 1 .. Len(q) + 1 PROVE Append(q, e)[i].id \in Members(d)
        <5>1. CASE i = Len(q) + 1
          BY <2>1, <3>4, <5>1
        <5>2. CASE i # Len(q) + 1
          <6>1. i \in 1 .. Len(q)
            BY <2>1, <5>2
          <6> QED BY <2>1, <2>2, <2>4, <3>4, <6>1
        <5> QED BY <5>1, <5>2
      <4> QED BY <2>1, <3>7, <4>1
    <3> QED BY <2>1, <3>8, <3>9 DEF r
  <2>5. CASE ~(p.ok /\ StaffAccepts(p.is, e))
    <3>1. r = [ok |-> FALSE, is |-> p.is]
      BY <2>3, <2>5 DEF StaffStep, Strictly
    <3>2. Known(r) /\ Whole(Append(q, e), r)
      BY <2>2, <3>1
    <3> QED BY <2>1, <3>2 DEF r
  <2> QED BY <2>4, <2>5
<1>3. P \in SUBSET Seq(E)
  OBVIOUS
<1> HIDE DEF P
<1>4. s \in P
  BY <1>1, <1>2, <1>3, StaffRun!SequenceInduction
<1> QED BY <1>4 DEF P

\* Which events a till holds.
LEMMA HoldingIs ==
  ASSUME Typed, NEW t \in Till, NEW n \in 0 .. Len(log[Sibling(t)])
  PROVE  Holding(t, n) = {log[t][i] : i \in DOMAIN log[t]}
                           \cup {log[Sibling(t)][i] : i \in 1 .. n}
<1> DEFINE u == Sibling(t)
<1>1. u \in Till
  BY TillsKnown
<1> HIDE DEF u
<1>2. IsLog(log[u]) /\ Len(log[u]) \in Nat /\ DOMAIN log[u] = 1 .. Len(log[u])
  <2>1. IsLog(log[u])
    BY <1>1 DEF Typed
  <2> QED BY <2>1, LogAppend
<1>3. n \in Nat /\ n <= Len(log[u])
  BY <1>2 DEF u
<1>4. \A i \in 1 .. n : log[u][i] \in Range(log[u])
  BY <1>2, <1>3 DEF Range
<1>5. /\ SubSeq(log[u], 1, n) \in Seq(Range(log[u]))
      /\ Len(SubSeq(log[u], 1, n)) = IF 1 <= n THEN n - 1 + 1 ELSE 0
      /\ \A i \in 1 .. n - 1 + 1 : SubSeq(log[u], 1, n)[i] = log[u][1 + i - 1]
  BY <1>3, <1>4, SubSeqProperties
<1>6. /\ DOMAIN SubSeq(log[u], 1, n) = 1 .. n
      /\ \A i \in 1 .. n : SubSeq(log[u], 1, n)[i] = log[u][i]
  BY <1>3, <1>5
<1> QED BY <1>6 DEF Range, Holding, u

\* What a start makes of the staff.
LEMMA RestartStaff ==
  ASSUME Grown, Staffed, NEW t \in Till, NEW n \in 0 .. Len(log[Sibling(t)]),
         Opens(Holding(t, n))
  PROVE  LET staff == Rebuilt(Holding(t, n)).staff
         IN  /\ \A i \in DOMAIN log[t] : log[t][i].kind \in StaffKind =>
                   log[t][i].id \in Members(staff)
             /\ \A m \in Members(staff) : Vouched(log, m, staff[m].role)
<1> DEFINE S == Holding(t, n)
           E == {e \in S : e.kind \in StaffKind}
           u == Sibling(t)
<1>1. S = {log[t][i] : i \in DOMAIN log[t]} \cup {log[u][i] : i \in 1 .. n}
  BY HoldingIs DEF Grown
<1>2. u \in Till
  BY TillsKnown
<1>3. \A i \in 1 .. n : i \in DOMAIN log[u]
  <2>1. IsLog(log[u])
    BY <1>2 DEF Grown, Typed
  <2>2. Len(log[u]) \in Nat /\ DOMAIN log[u] = 1 .. Len(log[u])
    BY <2>1, LogAppend
  <2> QED BY <2>2
<1>4. Dated(E)
  <2>1. Dated(S)
    BY HoldingDated
  <2> HIDE DEF S
  <2> QED BY <2>1, FS_Subset DEF Dated
<1> DEFINE s == Chronicle(S, StaffKind)
<1>5. s \in Seq(E) /\ \A e \in E : \E i \in 1 .. Len(s) : s[i] = e
  BY <1>4, InOrderSorts DEF Chronicle
<1> HIDE DEF u
<1>6. \A e \in S : \E v \in Till : \E j \in DOMAIN log[v] : e = log[v][j]
  BY <1>1, <1>2, <1>3
<1> HIDE DEF S
<1>7. \A e \in E : e.kind = "Enrolled" /\ Vouched(log, e.id, e.data.role)
  BY <1>6 DEF Staffed, Vouched
<1> DEFINE p == StaffRun!Run(s)
<1>8. StaffOf(S) = p /\ Rebuilt(S).staff = p.is /\ p.ok
  BY ReplaysAreRuns DEF StaffOf, Rebuilt, Opens, S
<1> HIDE DEF s, E
<1>9. /\ \A m \in Members(p.is) : \E e \in E : e.id = m /\ e.data.role = p.is[m].role
      /\ p.ok => \A i \in 1 .. Len(s) : s[i].id \in Members(p.is)
  BY <1>5, <1>7, ReplayStaff
<1> HIDE DEF p
<1>10. \A m \in Members(p.is) : Vouched(log, m, p.is[m].role)
  BY <1>7, <1>9
<1>11. \A i \in DOMAIN log[t] : log[t][i].kind \in StaffKind => log[t][i].id \in Members(p.is)
  BY <1>1, <1>5, <1>8, <1>9, ZenonT(60) DEF E
<1> QED BY <1>8, <1>10, <1>11 DEF S

\* Who an event of a command is recorded against.
Backed(t, e) ==
    /\ e.kind \in CatalogueKind \cup FloorKind => MayEdit(t, e)
    /\ e.kind \in {"Enrolled", "Configured"} => MayManage(t, e)
    /\ e.kind = "Enrolled" => (e.by = Founder => e.data.role = "owner")
    /\ e.kind \in StaffKind => e.kind = "Enrolled"

\* A command enrols one person, or leaves the staff alone.
LEMMA CommandStaff ==
  ASSUME Typed, NEW t \in Till, NEW q, NEW next, Command(t, q, next)
  PROVE  /\ \A i \in DOMAIN q : Backed(t, q[i])
         /\ \/ next.staff = shop[t].staff /\ \A i \in DOMAIN q : q[i].kind \notin StaffKind
            \/ \E e : /\ q = <<e>> /\ e.kind = "Enrolled"
                      /\ next.staff = StaffApply(shop[t].staff, e)
<1> DEFINE s == shop[t]
<1>0. Shaped(s) /\ IsLog(q) /\ Lawful(t, q, next)
  BY DEF Typed, Command, Writes, Stamped
<1>1. CASE q = << >> /\ next = s
  BY <1>1, NoEvents
<1>2. ASSUME NEW e, q = <<e>>
      PROVE  IsLog(q) /\ DOMAIN q = {1} /\ q[1] = e
  BY <1>2, <1>0
<1>3. ASSUME NEW e, q = <<e>>,
             \/ MovesStock(t, e, next) \/ Places(t, e, next) \/ Closes(t, e, next)
             \/ Configures(t, e, next)
             \/ EditsCatalogue(t, e, next) \/ EditsFloor(t, e, next)
      PROVE  next.staff = s.staff /\ Backed(t, e) /\ e.kind \notin StaffKind
  <2> HIDE DEF s
  <2>1. CASE MovesStock(t, e, next)
    <3>1. next.staff = s.staff
      BY <1>0, <2>1, PartsApart DEF MovesStock, s
    <3> QED BY <2>1, <3>1 DEF MovesStock, Backed, StockKind, CatalogueKind, FloorKind, StaffKind
  <2>2. CASE Places(t, e, next)
    <3>1. next.staff = s.staff
      BY <1>0, <2>2, PartsApart DEF Places, s
    <3> QED BY <2>2, <3>1 DEF Places, Backed, CatalogueKind, FloorKind, StaffKind
  <2>3. CASE Closes(t, e, next)
    <3> DEFINE orders == [shop[t].orders EXCEPT ![e.id] = OrderApply(@, e)]
    <3>1. next = [shop[t] EXCEPT !.orders = orders]
      BY <2>3 DEF Closes
    <3> HIDE DEF orders
    <3>2. next.staff = s.staff
      BY <1>0, <3>1, PartsApart DEF s
    <3> QED BY <2>3, <3>2 DEF Closes, Backed, CatalogueKind, FloorKind, StaffKind
  <2>4. CASE Configures(t, e, next)
    <3>1. next.staff = s.staff
      BY <1>0, <2>4, PartsApart DEF Configures, s
    <3> QED BY <2>4, <3>1 DEF Configures, Backed, CatalogueKind, FloorKind, StaffKind
  <2>5. CASE EditsCatalogue(t, e, next)
    <3>1. next.staff = s.staff
      BY <1>0, <2>5, PartsApart DEF EditsCatalogue, s
    <3> QED BY <2>5, <3>1 DEF EditsCatalogue, Backed, CatalogueKind, FloorKind, StaffKind
  <2>6. CASE EditsFloor(t, e, next)
    <3>1. next.staff = s.staff
      BY <1>0, <2>6, PartsApart DEF EditsFloor, s
    <3> QED BY <2>6, <3>1 DEF EditsFloor, Backed, CatalogueKind, FloorKind, StaffKind
  <2> QED BY <1>3, <2>1, <2>2, <2>3, <2>4, <2>5, <2>6
<1>4. ASSUME NEW e, q = <<e>>, Enrols(t, e, next)
      PROVE  /\ e.kind = "Enrolled" /\ Backed(t, e)
             /\ next.staff = StaffApply(s.staff, e)
  <2>1. next = [shop[t] EXCEPT !.staff = StaffApply(shop[t].staff, e)]
    BY <1>4 DEF Enrols
  <2>2. next.staff = StaffApply(s.staff, e)
    BY <1>0, <2>1, PartsApart
  <2> QED BY <1>4, <2>2 DEF Enrols, Backed, CatalogueKind, FloorKind
<1>5. ASSUME NEW e, NEW f, q = <<e, f>>, Receives(t, e, f, next)
      PROVE  /\ next.staff = s.staff /\ DOMAIN q = {1, 2} /\ q[1] = e /\ q[2] = f
             /\ Backed(t, e) /\ Backed(t, f)
             /\ e.kind \notin StaffKind /\ f.kind \notin StaffKind
  <2> DEFINE orders == [shop[t].orders EXCEPT ![e.id] = OrderApply(@, e)]
             mid == [shop[t] EXCEPT !.orders = orders]
  <2>1. next = [shop[t] EXCEPT !.orders[e.id] = OrderApply(@, e), !.stock = StockApply(@, f)]
    BY <1>5 DEF Receives
  <2>2. next = [mid EXCEPT !.stock = StockApply(mid.stock, f)]
    BY <2>1
  <2> HIDE DEF orders
  <2>3. Shaped(mid) /\ mid.staff = s.staff
    BY <1>0, ShapedStays, PartsApart
  <2> HIDE DEF mid, s
  <2>4. next.staff = s.staff
    BY <2>2, <2>3, PartsApart
  <2>5. e.kind = "LineReceived" /\ f.kind = "BatchReceived"
    BY <1>5 DEF Receives
  <2>6. /\ Backed(t, e) /\ Backed(t, f) /\ e.kind \notin StaffKind /\ f.kind \notin StaffKind
    BY <2>5 DEF Backed, CatalogueKind, FloorKind, StaffKind
  <2>7. DOMAIN q = {1, 2} /\ q[1] = e /\ q[2] = f
    BY <1>5
  <2> QED BY <2>4, <2>6, <2>7
<1>6. CASE Imports(t, q, next)
  <2>1. next = [shop[t] EXCEPT !.catalogue = Listed(t, q, Len(q))]
    BY <1>6 DEF Imports
  <2>2. next.staff = s.staff
    BY <1>0, <2>1, PartsApart
  <2>3. DOMAIN q = 1 .. Len(q)
    BY <1>0 DEF IsLog
  <2>4. \A i \in DOMAIN q : Backed(t, q[i]) /\ q[i].kind \notin StaffKind
    BY <1>6, <2>3 DEF Imports, Backed, CatalogueKind, FloorKind, StaffKind
  <2> QED BY <2>2, <2>4
<1>7. ASSUME NEW e, q = <<e>>,
             \/ MovesStock(t, e, next) \/ Places(t, e, next) \/ Closes(t, e, next)
             \/ Enrols(t, e, next) \/ Configures(t, e, next)
             \/ EditsCatalogue(t, e, next) \/ EditsFloor(t, e, next)
      PROVE  /\ \A i \in DOMAIN q : Backed(t, q[i])
             /\ \/ next.staff = s.staff /\ \A i \in DOMAIN q : q[i].kind \notin StaffKind
                \/ /\ e.kind = "Enrolled" /\ next.staff = StaffApply(s.staff, e)
  <2> HIDE DEF s
  <2>1. DOMAIN q = {1} /\ q[1] = e
    BY <1>2, <1>7
  <2> QED BY <1>3, <1>4, <1>7, <2>1
<1>8. CASE \E e, f : q = <<e, f>> /\ Receives(t, e, f, next)
  <2>1. PICK e, f : q = <<e, f>> /\ Receives(t, e, f, next)
    BY <1>8
  <2> HIDE DEF s
  <2>2. /\ next.staff = s.staff /\ DOMAIN q = {1, 2} /\ q[1] = e /\ q[2] = f
        /\ Backed(t, e) /\ Backed(t, f)
        /\ e.kind \notin StaffKind /\ f.kind \notin StaffKind
    BY <1>5, <2>1
  <2> QED BY <2>2 DEF s
<1>9. CASE \E e : /\ q = <<e>>
                  /\ \/ MovesStock(t, e, next) \/ Places(t, e, next) \/ Closes(t, e, next)
                     \/ Enrols(t, e, next) \/ Configures(t, e, next)
                     \/ EditsCatalogue(t, e, next) \/ EditsFloor(t, e, next)
  BY <1>7, <1>9
<1> QED BY <1>0, <1>1, <1>6, <1>8, <1>9 DEF Lawful

\* Who holds a permission, as Sanctioned has it.
Holder(logs, who, permission) ==
    \E u \in Till : \E j \in DOMAIN logs[u] :
        /\ logs[u][j].kind = "Enrolled" /\ logs[u][j].id = who
        /\ RoleCan(logs[u][j].data.role, permission)

\* Sanctioned, of the logs alone.
Authorised ==
    \A t \in Till : \A i \in DOMAIN log[t] :
        /\ log[t][i].kind \in CatalogueKind \cup FloorKind => Holder(log, log[t][i].by, "EditCatalogue")
        /\ log[t][i].kind \in {"Enrolled", "Configured"} =>
             \/ Holder(log, log[t][i].by, "ManageStaff")
             \/ /\ log[t][i].by = Founder
                /\ \A j \in 1 .. i - 1 : log[t][j].kind # "Enrolled"
                /\ log[t][i].kind = "Enrolled" => log[t][i].data.role = "owner"

\* Whoever a PIN approves was enrolled in a role that may.
LEMMA ApproverHolds ==
  ASSUME Staffed, NEW t \in Till, NEW permission, NEW pin,
         NEW who \in Approves(shop[t].staff, permission, pin)
  PROVE  Holder(log, who, permission)
<1>1. /\ who \in Members(shop[t].staff)
      /\ RoleCan(shop[t].staff[who].role, permission)
  BY DEF Approves, Approvers, MemberCan
<1>2. Vouched(log, who, shop[t].staff[who].role)
  BY <1>1 DEF Staffed
<1> QED BY <1>1, <1>2 DEF Vouched, Holder

\* The logs a command leaves: what was there, and what it wrote.
LEMMA CommandEntries ==
  ASSUME Typed, NEW t \in Till, NEW q, NEW next, Command(t, q, next)
  PROVE  /\ Len(log[t]) \in Nat /\ Len(q) \in Nat
         /\ DOMAIN log[t] = 1 .. Len(log[t]) /\ DOMAIN q = 1 .. Len(q)
         /\ \A u \in Till : \A i \in DOMAIN log[u] : i \in DOMAIN log'[u] /\ log'[u][i] = log[u][i]
         /\ \A u \in Till : \A i \in DOMAIN log'[u] :
               \/ i \in DOMAIN log[u]
               \/ u = t /\ i - Len(log[t]) \in DOMAIN q /\ log'[t][i] = q[i - Len(log[t])]
         /\ \A i \in DOMAIN q : /\ Len(log[t]) + i \in DOMAIN log'[t]
                                /\ log'[t][Len(log[t]) + i] = q[i]
<1>1. /\ IsLog(log[t]) /\ IsLog(q) /\ log'[t] = log[t] \o q
      /\ \A u \in Till : u # t => log'[u] = log[u]
  BY CommandLogs
<1>2. /\ Len(log[t]) \in Nat /\ Len(q) \in Nat
      /\ DOMAIN log[t] = 1 .. Len(log[t]) /\ DOMAIN q = 1 .. Len(q)
      /\ DOMAIN log'[t] = 1 .. Len(log[t]) + Len(q)
      /\ \A i \in 1 .. Len(log[t]) : log'[t][i] = log[t][i]
      /\ \A i \in 1 .. Len(q) : log'[t][Len(log[t]) + i] = q[i]
  BY <1>1, LogAppend
<1>3. ASSUME NEW u \in Till, NEW i \in DOMAIN log[u]
      PROVE  i \in DOMAIN log'[u] /\ log'[u][i] = log[u][i]
  <2>1. CASE u = t
    <3>1. i \in 1 .. Len(log[t]) /\ i \in 1 .. Len(log[t]) + Len(q)
      BY <1>2, <2>1
    <3> QED BY <1>2, <2>1, <3>1
  <2>2. CASE u # t
    BY <1>1, <2>2
  <2> QED BY <2>1, <2>2
<1>4. ASSUME NEW u \in Till, NEW i \in DOMAIN log'[u], i \notin DOMAIN log[u]
      PROVE  u = t /\ i - Len(log[t]) \in DOMAIN q /\ log'[t][i] = q[i - Len(log[t])]
  <2>1. u = t
    BY <1>1, <1>4
  <2>2. /\ i \in Int /\ i - Len(log[t]) \in 1 .. Len(q)
        /\ Len(log[t]) + (i - Len(log[t])) = i
    BY <1>2, <1>4, <2>1
  <2> QED BY <1>2, <2>1, <2>2
<1>5. ASSUME NEW i \in DOMAIN q
      PROVE  Len(log[t]) + i \in DOMAIN log'[t] /\ log'[t][Len(log[t]) + i] = q[i]
  BY <1>2
<1> QED BY <1>2, <1>3, <1>4, <1>5

\* A command leaves the staff vouched for, ...
LEMMA CommandStaffed ==
  ASSUME Grown, Staffed, NEW t \in Till, NEW q, NEW next, Command(t, q, next)
  PROVE  Staffed'
<1>0. Typed
  BY DEF Grown
<1>1. /\ Len(log[t]) \in Nat /\ Len(q) \in Nat
      /\ DOMAIN log[t] = 1 .. Len(log[t]) /\ DOMAIN q = 1 .. Len(q)
      /\ \A u \in Till : \A i \in DOMAIN log[u] : i \in DOMAIN log'[u] /\ log'[u][i] = log[u][i]
      /\ \A u \in Till : \A i \in DOMAIN log'[u] :
            \/ i \in DOMAIN log[u]
            \/ u = t /\ i - Len(log[t]) \in DOMAIN q /\ log'[t][i] = q[i - Len(log[t])]
      /\ \A i \in DOMAIN q : /\ Len(log[t]) + i \in DOMAIN log'[t]
                             /\ log'[t][Len(log[t]) + i] = q[i]
  BY <1>0, CommandEntries
<1>2. shop'[t] = next /\ \A u \in Till : u # t => shop'[u] = shop[u]
  BY <1>0, CommandLogs
<1>3. /\ \A i \in DOMAIN q : Backed(t, q[i])
      /\ \/ next.staff = shop[t].staff /\ \A i \in DOMAIN q : q[i].kind \notin StaffKind
         \/ \E e : /\ q = <<e>> /\ e.kind = "Enrolled"
                   /\ next.staff = StaffApply(shop[t].staff, e)
  BY <1>0, CommandStaff
<1>4. \A who, role : Vouched(log, who, role) => Vouched(log', who, role)
  BY <1>1 DEF Vouched
<1>5. CASE next.staff = shop[t].staff /\ \A i \in DOMAIN q : q[i].kind \notin StaffKind
  <2>1. \A u \in Till : shop'[u].staff = shop[u].staff
    BY <1>2, <1>5
  <2>2. \A u \in Till : \A i \in DOMAIN log'[u] : log'[u][i].kind \in StaffKind =>
          log'[u][i].kind = "Enrolled" /\ log'[u][i].id \in Members(shop'[u].staff)
    BY <1>1, <1>5, <2>1 DEF Staffed
  <2>3. \A u \in Till : \A m \in Members(shop'[u].staff) : Vouched(log', m, shop'[u].staff[m].role)
    BY <1>4, <2>1 DEF Staffed
  <2> QED BY <2>2, <2>3 DEF Staffed, Members
<1>6. CASE \E e : /\ q = <<e>> /\ e.kind = "Enrolled"
                  /\ next.staff = StaffApply(shop[t].staff, e)
  <2>1. PICK e : /\ q = <<e>> /\ e.kind = "Enrolled"
                 /\ next.staff = StaffApply(shop[t].staff, e)
    BY <1>6
  <2>2. DOMAIN q = {1} /\ q[1] = e
    BY <2>1
  <2> DEFINE staff == shop[t].staff
             new == [role |-> e.data.role, pin |-> e.data.pin, active |-> TRUE, since |-> e.at]
             d == [m \in Members(staff) \cup {e.id} |-> IF m = e.id THEN new ELSE staff[m]]
  <2>3. next.staff = d
    BY <2>1 DEF StaffApply
  <2>4. /\ Members(d) = Members(staff) \cup {e.id}
        /\ d[e.id] = new /\ \A m \in Members(staff) : m # e.id => d[m] = staff[m]
    BY DEF Members
  <2>5. new.role = e.data.role
    OBVIOUS
  <2> HIDE DEF d, new
  <2>6. Vouched(log', e.id, new.role)
    BY <1>1, <2>1, <2>2, <2>5 DEF Vouched
  <2>7. \A m \in Members(d) : Vouched(log', m, d[m].role)
    <3>1. \A m \in Members(staff) : Vouched(log', m, staff[m].role)
      BY <1>4 DEF Staffed
    <3> HIDE DEF staff
    <3> QED BY <2>4, <2>6, <3>1
  <2>8. \A i \in DOMAIN log'[t] : log'[t][i].kind \in StaffKind =>
          log'[t][i].kind = "Enrolled" /\ log'[t][i].id \in Members(d)
    <3>1. ASSUME NEW i \in DOMAIN log'[t], log'[t][i].kind \in StaffKind
          PROVE  log'[t][i].kind = "Enrolled" /\ log'[t][i].id \in Members(d)
      <4>1. CASE i \in DOMAIN log[t]
        BY <1>1, <2>4, <3>1, <4>1 DEF Staffed
      <4>2. CASE i \notin DOMAIN log[t]
        BY <1>1, <2>1, <2>2, <2>4, <4>2
      <4> QED BY <4>1, <4>2
    <3> QED BY <3>1
  <2>9. \A u \in Till : u # t =>
          /\ \A i \in DOMAIN log'[u] : log'[u][i].kind \in StaffKind =>
                log'[u][i].kind = "Enrolled" /\ log'[u][i].id \in Members(shop'[u].staff)
          /\ \A m \in Members(shop'[u].staff) : Vouched(log', m, shop'[u].staff[m].role)
    BY <1>1, <1>2, <1>4 DEF Staffed
  <2>10. shop'[t].staff = d
    BY <1>2, <2>3
  <2> HIDE DEF staff
  <2>11. \A u \in Till :
          /\ \A i \in DOMAIN log'[u] : log'[u][i].kind \in StaffKind =>
                log'[u][i].kind = "Enrolled" /\ log'[u][i].id \in Members(shop'[u].staff)
          /\ \A m \in Members(shop'[u].staff) : Vouched(log', m, shop'[u].staff[m].role)
    BY <2>7, <2>8, <2>9, <2>10
  <2> QED BY <2>11 DEF Staffed, Members
<1> QED BY <1>3, <1>5, <1>6

\* ... and what it writes was authorised.
LEMMA CommandAuthorised ==
  ASSUME Grown, Staffed, Authorised, NEW t \in Till, NEW q, NEW next, Command(t, q, next)
  PROVE  Authorised'
<1>0. Typed
  BY DEF Grown
<1>1. /\ Len(log[t]) \in Nat /\ Len(q) \in Nat
      /\ DOMAIN log[t] = 1 .. Len(log[t]) /\ DOMAIN q = 1 .. Len(q)
      /\ \A u \in Till : \A i \in DOMAIN log[u] : i \in DOMAIN log'[u] /\ log'[u][i] = log[u][i]
      /\ \A u \in Till : \A i \in DOMAIN log'[u] :
            \/ i \in DOMAIN log[u]
            \/ u = t /\ i - Len(log[t]) \in DOMAIN q /\ log'[t][i] = q[i - Len(log[t])]
  BY <1>0, CommandEntries
<1>2. /\ \A i \in DOMAIN q : Backed(t, q[i])
      /\ \/ next.staff = shop[t].staff /\ \A i \in DOMAIN q : q[i].kind \notin StaffKind
         \/ \E e : /\ q = <<e>> /\ e.kind = "Enrolled"
                   /\ next.staff = StaffApply(shop[t].staff, e)
  BY <1>0, CommandStaff
<1>3. \A who, permission : Holder(log, who, permission) => Holder(log', who, permission)
  BY <1>1 DEF Holder
<1>4. ASSUME NEW u \in Till, NEW i \in DOMAIN log[u]
      PROVE  /\ log'[u][i].kind \in CatalogueKind \cup FloorKind
                  => Holder(log', log'[u][i].by, "EditCatalogue")
             /\ log'[u][i].kind \in {"Enrolled", "Configured"} =>
                  \/ Holder(log', log'[u][i].by, "ManageStaff")
                  \/ /\ log'[u][i].by = Founder
                     /\ \A j \in 1 .. i - 1 : log'[u][j].kind # "Enrolled"
                     /\ log'[u][i].kind = "Enrolled" => log'[u][i].data.role = "owner"
  <2>1. \A j \in 1 .. i - 1 : j \in DOMAIN log[u]
    <3>1. IsLog(log[u])
      BY <1>0 DEF Typed
    <3>2. Len(log[u]) \in Nat /\ DOMAIN log[u] = 1 .. Len(log[u])
      BY <3>1, LogAppend
    <3> QED BY <3>2
  <2>2. log'[u][i] = log[u][i] /\ \A j \in 1 .. i - 1 : log'[u][j] = log[u][j]
    BY <1>1, <2>1
  <2> QED BY <1>3, <2>2 DEF Authorised
<1>5. ASSUME NEW i \in DOMAIN log'[t], i \notin DOMAIN log[t]
      PROVE  /\ log'[t][i].kind \in CatalogueKind \cup FloorKind
                  => Holder(log', log'[t][i].by, "EditCatalogue")
             /\ log'[t][i].kind \in {"Enrolled", "Configured"} =>
                  \/ Holder(log', log'[t][i].by, "ManageStaff")
                  \/ /\ log'[t][i].by = Founder
                     /\ \A j \in 1 .. i - 1 : log'[t][j].kind # "Enrolled"
                     /\ log'[t][i].kind = "Enrolled" => log'[t][i].data.role = "owner"
  <2> DEFINE e == q[i - Len(log[t])]
  <2>1. i - Len(log[t]) \in DOMAIN q /\ log'[t][i] = e /\ Backed(t, e)
    BY <1>1, <1>2, <1>5
  <2> HIDE DEF e
  <2>2. ASSUME e.kind \in CatalogueKind \cup FloorKind
        PROVE  Holder(log, e.by, "EditCatalogue")
    <3>1. PICK pin : e.by \in Editors(t, pin)
      BY <2>1, <2>2 DEF Backed, MayEdit
    <3> QED BY <3>1, ApproverHolds DEF Editors
  <2>3. ASSUME e.kind \in {"Enrolled", "Configured"}, Members(shop[t].staff) # {}
        PROVE  Holder(log, e.by, "ManageStaff")
    <3>1. PICK pin : e.by \in Managers(t, pin)
      BY <2>1, <2>3 DEF Backed, MayManage
    <3>2. e.by \in Approves(shop[t].staff, "ManageStaff", pin)
      BY <2>3, <3>1 DEF Managers
    <3> QED BY <3>2, ApproverHolds
  <2>4. ASSUME e.kind \in {"Enrolled", "Configured"}, Members(shop[t].staff) = {}
        PROVE  /\ e.by = Founder
               /\ \A j \in 1 .. i - 1 : log'[t][j].kind # "Enrolled"
               /\ e.kind = "Enrolled" => e.data.role = "owner"
    <3>1. e.by = Founder
      BY <2>1, <2>4 DEF Backed, MayManage, Managers
    <3>2. \A j \in DOMAIN log[t] : log[t][j].kind # "Enrolled"
      BY <2>4 DEF Staffed, StaffKind
    <3>3. ASSUME NEW j \in 1 .. i - 1 PROVE log'[t][j].kind # "Enrolled"
      <4>1. i \in Int /\ i - Len(log[t]) \in 1 .. Len(q)
        <5>1. i \in DOMAIN log'[t] /\ IsLog(log'[t])
          BY <1>0, CommandTyped DEF Typed, IsLog
        <5>2. DOMAIN log'[t] = 1 .. Len(log'[t])
          BY <5>1 DEF IsLog
        <5> QED BY <1>1, <2>1, <5>1, <5>2
      <4>2. CASE j <= Len(log[t])
        <5>1. j \in DOMAIN log[t]
          BY <1>1, <4>1, <4>2
        <5> QED BY <1>1, <3>2, <5>1
      <4>3. CASE ~(j <= Len(log[t]))
        <5>1. /\ 1 \in DOMAIN q /\ i - Len(log[t]) # 1
          BY <1>1, <4>1, <4>3
        <5>2. e.kind \notin StaffKind \/ DOMAIN q = {1}
          <6>1. ASSUME NEW f, q = <<f>> PROVE DOMAIN q = {1}
            BY <6>1
          <6> QED BY <1>2, <2>1, <6>1 DEF e
        <5>3. \A k \in DOMAIN q : q[k].kind # "Enrolled"
          <6>1. \A k \in DOMAIN q : q[k].kind = "Enrolled" => DOMAIN q = {1}
            <7>1. ASSUME NEW f, q = <<f>> PROVE DOMAIN q = {1}
              BY <7>1
            <7> QED BY <1>2, <7>1 DEF StaffKind
          <6> QED BY <2>1, <5>1, <6>1
        <5>4. /\ j - Len(log[t]) \in DOMAIN q /\ log'[t][j] = q[j - Len(log[t])]
          <6>1. j \notin DOMAIN log[t]
            BY <1>1, <4>3
          <6>2. j \in DOMAIN log'[t]
            <7>1. IsLog(log'[t])
              BY <1>0, CommandTyped, SMTT(60) DEF Typed, IsLog
            <7>2. DOMAIN log'[t] = 1 .. Len(log'[t]) /\ Len(log'[t]) \in Nat
              BY <7>1 DEF IsLog
            <7> QED BY <1>5, <4>1, <7>2
          <6> QED BY <1>1, <6>1, <6>2
        <5> QED BY <5>3, <5>4
      <4> QED BY <4>2, <4>3
    <3>4. e.kind = "Enrolled" => e.data.role = "owner"
      BY <2>1, <3>1 DEF Backed
    <3> QED BY <3>1, <3>3, <3>4
  <2> QED BY <1>3, <2>1, <2>2, <2>3, <2>4
<1>6. \A u \in Till : \A i \in DOMAIN log'[u] :
         /\ log'[u][i].kind \in CatalogueKind \cup FloorKind
              => Holder(log', log'[u][i].by, "EditCatalogue")
         /\ log'[u][i].kind \in {"Enrolled", "Configured"} =>
              \/ Holder(log', log'[u][i].by, "ManageStaff")
              \/ /\ log'[u][i].by = Founder
                 /\ \A j \in 1 .. i - 1 : log'[u][j].kind # "Enrolled"
                 /\ log'[u][i].kind = "Enrolled" => log'[u][i].data.role = "owner"
  BY <1>1, <1>4, <1>5
<1> QED BY <1>6 DEF Authorised

\* Both hold of tills fresh from the box, ...
LEMMA InitStaffed == Init => Staffed /\ Authorised
<1> SUFFICES ASSUME Init PROVE Staffed /\ Authorised
  OBVIOUS
<1>1. \A t \in Till : log[t] = << >> /\ shop[t] = Rebuilt(Range(<< >>))
  BY DEF Init, StartFrom
<1>2. \A t \in Till : DOMAIN log[t] = {}
  BY <1>1, NoEvents
<1>3. Members(Rebuilt(Range(<< >>)).staff) = {}
  <2> DEFINE S == Range(<< >>)
             E == {e \in S : e.kind \in StaffKind}
  <2>1. Dated(S) /\ S = {}
    BY RangeOfNone, NoEvents DEF Range
  <2>2. Chronicle(S, StaffKind) = << >>
    <3>1. E = {}
      BY <2>1
    <3>2. Chronicle(S, StaffKind) = InOrder({})
      BY <3>1 DEF Chronicle
    <3> QED BY <3>2, InOrderNone
  <2>3. Rebuilt(S).staff = StaffRun!Run(<< >>).is
    BY <2>2, ReplaysAreRuns DEF StaffOf, Rebuilt
  <2>4. StaffRun!Run(<< >>) = [ok |-> TRUE, is |-> Nobody]
    BY StaffRun!RunEmpty DEF Unbroken
  <2>5. Members(Nobody) = {}
    BY NoEvents DEF Members, Nobody
  <2> HIDE DEF S
  <2>6. Rebuilt(S).staff = Nobody
    BY <2>3, <2>4
  <2> QED BY <2>5, <2>6 DEF S
<1>4. Staffed
  BY <1>1, <1>2, <1>3 DEF Staffed
<1>5. Authorised
  BY <1>2 DEF Authorised
<1> QED BY <1>4, <1>5

\* ... and every step keeps them.
LEMMA StepStaffed ==
  ASSUME Grown, Staffed, Authorised, [Next]_svars
  PROVE  Staffed' /\ Authorised'
<1>1. Typed
  BY DEF Grown
<1>2. ASSUME NEW t \in Till, NEW q, NEW next, Command(t, q, next)
      PROVE  Staffed' /\ Authorised'
  BY <1>2, CommandStaffed, CommandAuthorised
<1>3. ASSUME UNCHANGED log PROVE Authorised'
  BY <1>3 DEF Authorised, Holder
<1>4. ASSUME UNCHANGED <<log, shop>> PROVE Staffed'
  BY <1>4 DEF Staffed, Vouched, Members
<1>5. ASSUME NEW t \in Till, Learn(t) \/ Restart(t) PROVE Staffed' /\ Authorised'
  <2> DEFINE S == Holding(t, known[t])
  <2>1. UNCHANGED log
    BY <1>5 DEF Learn, Restart
  <2>2. CASE UNCHANGED shop
    BY <1>3, <1>4, <2>1, <2>2
  <2>3. CASE Opens(S) /\ shop' = [shop EXCEPT ![t] = Rebuilt(S)]
    <3>1. known[t] \in 0 .. Len(log[Sibling(t)])
      <4>1. known[t] \in Nat /\ known[t] <= Len(log[Sibling(t)])
        BY <1>1 DEF Typed
      <4>2. IsLog(log[Sibling(t)])
        BY <1>1, TillsKnown DEF Typed
      <4> QED BY <4>1, <4>2, LogAppend
    <3>2. /\ \A i \in DOMAIN log[t] : log[t][i].kind \in StaffKind =>
                log[t][i].id \in Members(Rebuilt(S).staff)
          /\ \A m \in Members(Rebuilt(S).staff) : Vouched(log, m, Rebuilt(S).staff[m].role)
      BY <2>3, <3>1, RestartStaff
    <3> HIDE DEF S
    <3>3. shop'[t] = Rebuilt(S) /\ \A u \in Till : u # t => shop'[u] = shop[u]
      BY <1>1, <2>3 DEF Typed
    <3>4. \A u \in Till : \A i \in DOMAIN log[u] : log[u][i].kind \in StaffKind =>
             log[u][i].kind = "Enrolled" /\ log[u][i].id \in Members(shop'[u].staff)
      BY <3>2, <3>3 DEF Staffed
    <3>5. \A u \in Till : \A m \in Members(shop'[u].staff) :
             Vouched(log, m, shop'[u].staff[m].role)
      BY <3>2, <3>3 DEF Staffed
    <3>6. Staffed'
      BY <2>1, <3>4, <3>5 DEF Staffed, Members, Vouched
    <3> QED BY <1>3, <2>1, <3>6
  <2> QED BY <1>5, <2>2, <2>3 DEF Learn, Restart
<1>6. CASE Quiet
  BY <1>3, <1>4, <1>6 DEF Quiet
<1> QED BY <1>1, <1>2, <1>5, <1>6, StepKinds

\* What nobody may do alone, nobody did: the PIN typed at a till names a
\* person the till knows and, of those, one who may; a till knows only whom
\* some till enrolled, in the role they were given, whatever was learnt,
\* lost to a failed write or replayed at a start.  And the only unsigned
\* enrolment and settings of a till come before it enrolled anybody, the first
\* person being an owner.
THEOREM ShopSanctioned == Spec => []Sanctioned
<1>1. Authorised => Sanctioned
  <2> SUFFICES ASSUME Authorised PROVE Sanctioned
    OBVIOUS
  <2> DEFINE enrolled == {e \in UNION {Range(log[t]) : t \in Till} : e.kind = "Enrolled"}
             holds(who, permission) ==
               \E e \in enrolled : e.id = who /\ RoleCan(e.data.role, permission)
  <2>1. \A u \in Till : \A j \in DOMAIN log[u] :
          log[u][j].kind = "Enrolled" => log[u][j] \in enrolled
    BY DEF Range
  <2> HIDE DEF enrolled
  <2>2. \A who, permission : Holder(log, who, permission) => holds(who, permission)
    BY <2>1 DEF Holder
  <2> HIDE DEF holds
  <2>3. \A t \in Till : \A i \in DOMAIN log[t] :
          LET e == log[t][i]
          IN /\ e.kind \in CatalogueKind \cup FloorKind => holds(e.by, "EditCatalogue")
             /\ e.kind \in {"Enrolled", "Configured"} =>
                  \/ holds(e.by, "ManageStaff")
                  \/ /\ e.by = Founder
                     /\ \A j \in 1 .. i - 1 : log[t][j].kind # "Enrolled"
                     /\ e.kind = "Enrolled" => e.data.role = "owner"
    BY <2>2 DEF Authorised
  <2> QED BY <2>3 DEF Sanctioned, holds, enrolled
<1>2. Init => Grown /\ Staffed /\ Authorised
  BY InitTyped, InitStaffed
<1>3. Grown /\ Staffed /\ Authorised /\ [Next]_svars => (Grown /\ Staffed /\ Authorised)'
  BY StepTyped, StepStaffed
<1> QED BY <1>1, <1>2, <1>3, PTL DEF Spec
=============================================================================
