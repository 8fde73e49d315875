---------------------------- MODULE TicketProofs ----------------------------
(***************************************************************************)
(* Proofs about Ticket, for any number of tills and sales, any menu and    *)
(* any table plan.  The book is a fold over the store, so the facts about  *)
(* it are proved by induction over sequences of events, and the state of   *)
(* the tills only adds what order those sequences are in.                  *)
(***************************************************************************)
EXTENDS Ticket, FiniteSetTheorems, SequenceTheorems, TLAPS

Rebuild == INSTANCE Folding WITH Start <- EmptyBook, Advance <- ApplyOrSkip

AddValue(sum, line) == sum + LineValue(line)
AddAmount(sum, tender) == sum + Amount(tender)
AddNonCash(sum, tender) == sum + NonCashAmount(tender)

Values == INSTANCE Folding WITH Start <- 0, Advance <- AddValue
Amounts == INSTANCE Folding WITH Start <- 0, Advance <- AddAmount
NonCash == INSTANCE Folding WITH Start <- 0, Advance <- AddNonCash

-----------------------------------------------------------------------------
(***************************************************************************)
(* What the model's recursive functions compute.                           *)
(***************************************************************************)

\* A replay goes through the events from the front.
LEMMA ReplayIsRun == \A events : Replay(events) = Rebuild!Run(events)
BY DEF Replay, Rebuild!Run, Rebuild!From

\* A replay of nothing knows no sale.
LEMMA ReplayEmpty == Replay(<<>>) = EmptyBook
BY ReplayIsRun, Rebuild!RunEmpty

\* Replaying one more event is applying it, or skipping it, at the end.
LEMMA ReplayAppend ==
  ASSUME NEW S, NEW events \in Seq(S), NEW e \in S
  PROVE  Replay(Append(events, e)) = ApplyOrSkip(Replay(events), e)
BY ReplayIsRun, Rebuild!RunAppend

\* So does each of the sums of a sale.
LEMMA SumsAreRuns ==
  /\ \A seq : SumOf(LineValue, seq) = Values!Run(seq)
  /\ \A seq : SumOf(Amount, seq) = Amounts!Run(seq)
  /\ \A seq : SumOf(NonCashAmount, seq) = NonCash!Run(seq)
<1>1. ASSUME NEW seq PROVE SumOf(LineValue, seq) = Values!Run(seq)
  BY DEF SumOf, Values!Run, Values!From, AddValue
<1>2. ASSUME NEW seq PROVE SumOf(Amount, seq) = Amounts!Run(seq)
  BY DEF SumOf, Amounts!Run, Amounts!From, AddAmount
<1>3. ASSUME NEW seq PROVE SumOf(NonCashAmount, seq) = NonCash!Run(seq)
  BY DEF SumOf, NonCash!Run, NonCash!From, AddNonCash
<1> QED BY <1>1, <1>2, <1>3

LineSet == [id : Nat, price : Int, qty : Int, void : BOOLEAN]
TenderSet == [method : Method, amount : Int]

\* The sums of a sale are numbers.
LEMMA SumsAreNumbers ==
  /\ \A lines \in Seq(LineSet) : SumOf(LineValue, lines) \in Int
  /\ \A tenders \in Seq(TenderSet) :
        SumOf(Amount, tenders) \in Int /\ SumOf(NonCashAmount, tenders) \in Int
<1>0. 0 \in Int
  OBVIOUS
<1>1. ASSUME NEW lines \in Seq(LineSet) PROVE SumOf(LineValue, lines) \in Int
  <2>1. \A a \in Int, line \in LineSet : AddValue(a, line) \in Int
    BY DEF AddValue, LineValue, LineSet, IsActive
  <2>2. Values!Run(lines) \in Int
    BY <1>0, <2>1, Values!RunInvariant, ZenonT(60)
  <2> QED BY <2>2, SumsAreRuns
<1>2. ASSUME NEW tenders \in Seq(TenderSet)
      PROVE  SumOf(Amount, tenders) \in Int /\ SumOf(NonCashAmount, tenders) \in Int
  <2>1. \A a \in Int, tender \in TenderSet :
            AddAmount(a, tender) \in Int /\ AddNonCash(a, tender) \in Int
    BY DEF AddAmount, AddNonCash, Amount, NonCashAmount, TenderSet
  <2>2. Amounts!Run(tenders) \in Int /\ NonCash!Run(tenders) \in Int
    BY <1>0, <2>1, Amounts!RunInvariant, NonCash!RunInvariant, ZenonT(60)
  <2> QED BY <2>2, SumsAreRuns
<1> QED BY <1>1, <1>2

-----------------------------------------------------------------------------
(***************************************************************************)
(* Events, sales, and what one event does to one sale.                     *)
(***************************************************************************)

PlainEvents ==
    [at : Nat, by : Device, sale : Sales,
     kind : {"opened", "abandoned", "ticket_claimed", "ticket_released"}]
LineEvents ==
    [at : Nat, by : Device, sale : Sales, kind : {"line_added"}, price : Int, qty : Int]
QuantityEvents ==
    [at : Nat, by : Device, sale : Sales, kind : {"quantity_changed"}, line : Nat, qty : Int]
VoidEvents ==
    [at : Nat, by : Device, sale : Sales, kind : {"line_voided"}, line : Nat]
DiscountEvents ==
    [at : Nat, by : Device, sale : Sales, kind : {"order_discounted"}, amount : Int]
TenderEvents ==
    [at : Nat, by : Device, sale : Sales, kind : {"tender_recorded"},
     method : Method, amount : Int]
SeatEvents ==
    [at : Nat, by : Device, sale : Sales, kind : {"seated"}, table : Table]
FireEvents ==
    [at : Nat, by : Device, sale : Sales, kind : {"lines_fired"},
     lines : SUBSET Nat, round : Int]
CompletionEvents ==
    [at : Nat, by : Device, sale : Sales, kind : {"completed"}, total : Int, change : Int]

\* Everything a command may record.
Events ==
    PlainEvents \cup LineEvents \cup QuantityEvents \cup VoidEvents \cup DiscountEvents
        \cup TenderEvents \cup SeatEvents \cup FireEvents \cup CompletionEvents

LeaseSet == [holder : Int, claimed : Int]

KnownSales ==
    [status : {"open", "completed", "abandoned"}, by : Device, lines : Seq(LineSet),
     discount : Int, tenders : Seq(TenderSet), settled : Int, change : Int,
     lease : LeaseSet, table : Table \cup {NoTable}, fired : SUBSET Nat, rounds : Int]

SaleSet == KnownSales \cup {NoSale}

\* What a replay makes of a sale at an event of that sale.
Takes(sale, e) ==
    IF sale = NoSale THEN e.kind = "opened"
    ELSE \/ Accepts(sale, e)
         \/ e.kind = "tender_recorded" /\ sale.status = "open" /\ e.amount > 0

SaleStep(sale, e) ==
    IF ~Takes(sale, e) THEN sale
    ELSE IF sale = NoSale THEN Opened(e.by) ELSE Apply(sale, e)

\* What an event carries, by its kind.
LEMMA EventFields ==
  ASSUME NEW e \in Events
  PROVE  /\ e.at \in Nat /\ e.by \in Device /\ e.sale \in Sales
         /\ e.kind \in {"opened", "abandoned", "ticket_claimed", "ticket_released", "line_added",
                        "quantity_changed", "line_voided", "order_discounted",
                        "tender_recorded", "seated", "lines_fired", "completed"}
         /\ e.kind = "line_added" => e.price \in Int /\ e.qty \in Int
         /\ e.kind = "quantity_changed" => e.line \in Nat /\ e.qty \in Int
         /\ e.kind = "line_voided" => e.line \in Nat
         /\ e.kind = "order_discounted" => e.amount \in Int
         /\ e.kind = "tender_recorded" => e.method \in Method /\ e.amount \in Int
         /\ e.kind = "seated" => e.table \in Table
         /\ e.kind = "lines_fired" => e.lines \in SUBSET Nat /\ e.round \in Int
         /\ e.kind = "completed" => e.total \in Int /\ e.change \in Int
BY DEF Events, PlainEvents, LineEvents, QuantityEvents, VoidEvents, DiscountEvents,
       TenderEvents, SeatEvents, FireEvents, CompletionEvents

\* No sale that is known looks like one that is not.
LEMMA NoSaleUnknown ==
  /\ NoSale.status = "unknown"
  /\ NoSale \notin KnownSales
  /\ \A sale \in KnownSales : sale # NoSale
BY DEF NoSale, KnownSales

\* A sale as it is opened.
LEMMA OpenedTyped ==
  ASSUME NEW t \in Device
  PROVE  /\ Opened(t) \in KnownSales
         /\ Opened(t).status = "open" /\ Opened(t).lines = <<>> /\ Opened(t).tenders = <<>>
         /\ Opened(t).lease = NoLease /\ Opened(t).table = NoTable /\ Opened(t).fired = {}
         /\ Opened(t).change = 0 /\ Opened(t).discount = 0
<1>1. NoLease \in LeaseSet
  BY DEF NoLease, LeaseSet
<1>2. <<>> \in Seq(LineSet) /\ <<>> \in Seq(TenderSet)
  BY EmptySeq
<1> QED BY <1>1, <1>2 DEF Opened, KnownSales

\* Where a line that is there is found.
LEMMA LineFound ==
  ASSUME NEW sale \in KnownSales, NEW id \in LineIds(sale)
  PROVE  LineOf(sale, id) \in 1 .. Len(sale.lines) /\ sale.lines[LineOf(sale, id)].id = id
BY DEF LineIds, LineOf

\* A book is moved on at one sale.
LEMMA BookStep ==
  ASSUME NEW b \in [Sales -> SaleSet], NEW e \in Events
  PROVE  /\ ApplyOrSkip(b, e) = [b EXCEPT ![e.sale] = SaleStep(b[e.sale], e)]
         /\ BookAccepts(b, e) => BookApply(b, e) = ApplyOrSkip(b, e)
         /\ BookAccepts(b, e) => Takes(b[e.sale], e)
<1>1. e.sale \in Sales
  BY EventFields
<1>2. BookAccepts(b, e) \/ RefusedTooLate(b, e) <=> Takes(b[e.sale], e)
  BY NoSaleUnknown DEF BookAccepts, RefusedTooLate, Takes
<1>3. CASE Takes(b[e.sale], e)
  <2>1. ApplyOrSkip(b, e) = BookApply(b, e)
    BY <1>2, <1>3 DEF ApplyOrSkip
  <2>2. BookApply(b, e) = [b EXCEPT ![e.sale] = SaleStep(b[e.sale], e)]
    BY <1>1, <1>3 DEF BookApply, SaleStep
  <2> QED BY <1>3, <2>1, <2>2
<1>4. CASE ~Takes(b[e.sale], e)
  <2>1. ApplyOrSkip(b, e) = b /\ ~BookAccepts(b, e)
    BY <1>2, <1>4 DEF ApplyOrSkip
  <2>2. SaleStep(b[e.sale], e) = b[e.sale]
    BY <1>4 DEF SaleStep
  <2>3. b = [b EXCEPT ![e.sale] = b[e.sale]]
    BY <1>1
  <2> QED BY <2>1, <2>2, <2>3
<1> QED BY <1>3, <1>4

\* Lines, quantities and voids leave a sale's lines lines, with the ids they had.
LEMMA LinesAfter ==
  ASSUME NEW sale \in KnownSales, NEW e \in Events, Accepts(sale, e)
  PROVE  /\ e.kind = "line_added" =>
               LET line == [id |-> e.at, price |-> e.price, qty |-> e.qty, void |-> FALSE]
               IN /\ Apply(sale, e) = [sale EXCEPT !.lines = Append(sale.lines, line)]
                  /\ Append(sale.lines, line) \in Seq(LineSet)
                  /\ LineIds(Apply(sale, e)) = LineIds(sale) \cup {e.at}
         /\ e.kind \in {"quantity_changed", "line_voided"} =>
               \E lines \in Seq(LineSet) :
                  /\ Apply(sale, e) = [sale EXCEPT !.lines = lines]
                  /\ LineIds(Apply(sale, e)) = LineIds(sale)
<1>0. e.at \in Nat /\ sale.lines \in Seq(LineSet)
  BY EventFields DEF KnownSales
<1>1. ASSUME e.kind = "line_added"
      PROVE  LET line == [id |-> e.at, price |-> e.price, qty |-> e.qty, void |-> FALSE]
             IN /\ Apply(sale, e) = [sale EXCEPT !.lines = Append(sale.lines, line)]
                /\ Append(sale.lines, line) \in Seq(LineSet)
                /\ LineIds(Apply(sale, e)) = LineIds(sale) \cup {e.at}
  <2> DEFINE line == [id |-> e.at, price |-> e.price, qty |-> e.qty, void |-> FALSE]
  <2> DEFINE lines == Append(sale.lines, line)
  <2>1. Apply(sale, e) = [sale EXCEPT !.lines = lines]
    BY <1>1 DEF Apply
  <2>2. line \in LineSet
    BY <1>0, <1>1, EventFields DEF LineSet
  <2>3. /\ lines \in Seq(LineSet) /\ Len(lines) = Len(sale.lines) + 1
        /\ \A i \in 1 .. Len(sale.lines) : lines[i] = sale.lines[i]
        /\ lines[Len(sale.lines) + 1] = line
    BY <1>0, <2>2, AppendProperties
  <2>4. Apply(sale, e).lines = lines
    BY <2>1 DEF KnownSales
  <2>5. Len(sale.lines) \in Nat
    BY <1>0
  <2>6. line.id = e.at
    OBVIOUS
  <2> HIDE DEF line, lines
  <2>7. LineIds(Apply(sale, e)) = {lines[i].id : i \in 1 .. Len(sale.lines) + 1}
    BY <2>3, <2>4 DEF LineIds
  <2>8. {lines[i].id : i \in 1 .. Len(sale.lines) + 1} = LineIds(sale) \cup {e.at}
    BY <2>3, <2>5, <2>6, SMTT(60) DEF LineIds
  <2> QED BY <2>1, <2>3, <2>7, <2>8 DEF line, lines
<1>2. ASSUME e.kind \in {"quantity_changed", "line_voided"}
      PROVE  \E lines \in Seq(LineSet) :
                  /\ Apply(sale, e) = [sale EXCEPT !.lines = lines]
                  /\ LineIds(Apply(sale, e)) = LineIds(sale)
  <2>1. e.line \in LineIds(sale)
    BY <1>2 DEF Accepts
  <2>2. PICK i \in 1 .. Len(sale.lines) : i = LineOf(sale, e.line)
    BY <2>1, LineFound
  <2>3. PICK line \in LineSet :
            /\ Apply(sale, e) = [sale EXCEPT !.lines = [sale.lines EXCEPT ![i] = line]]
            /\ line.id = sale.lines[i].id
    <3>1. sale.lines[i] \in LineSet
      BY <1>0, ElementOfSeq
    <3>2. CASE e.kind = "quantity_changed"
      <4> DEFINE line == [sale.lines[i] EXCEPT !.qty = e.qty]
      <4>1. line \in LineSet /\ line.id = sale.lines[i].id
        BY <3>1, <3>2, EventFields DEF LineSet
      <4>2. Apply(sale, e) = [sale EXCEPT !.lines = [sale.lines EXCEPT ![i] = line]]
        BY <2>2, <3>2 DEF Apply
      <4> QED BY <4>1, <4>2
    <3>3. CASE e.kind = "line_voided"
      <4> DEFINE line == [sale.lines[i] EXCEPT !.void = TRUE]
      <4>1. line \in LineSet /\ line.id = sale.lines[i].id
        BY <3>1 DEF LineSet
      <4>2. Apply(sale, e) = [sale EXCEPT !.lines = [sale.lines EXCEPT ![i] = line]]
        BY <2>2, <3>3 DEF Apply
      <4> QED BY <4>1, <4>2
    <3> QED BY <1>2, <3>2, <3>3
  <2> DEFINE lines == [sale.lines EXCEPT ![i] = line]
  <2>4. /\ lines \in Seq(LineSet) /\ Len(lines) = Len(sale.lines)
        /\ \A j \in 1 .. Len(sale.lines) : lines[j] = IF j = i THEN line ELSE sale.lines[j]
    BY <1>0, ExceptSeq
  <2>5. Apply(sale, e).lines = lines
    BY <2>3 DEF KnownSales
  <2> HIDE DEF lines
  <2>6. \A j \in 1 .. Len(sale.lines) : lines[j].id = sale.lines[j].id
    BY <2>3, <2>4
  <2>7. LineIds(Apply(sale, e)) = LineIds(sale)
    BY <2>4, <2>5, <2>6 DEF LineIds
  <2> QED BY <2>3, <2>4, <2>7 DEF lines
<1> QED BY <1>1, <1>2

\* What an event that is taken changes of a sale, field by field, and what it
\* leaves alone.
LEMMA SaleAfter ==
  ASSUME NEW sale \in KnownSales, NEW e \in Events, Takes(sale, e),
         NEW new, new = Apply(sale, e)
  PROVE  /\ new \in KnownSales
         /\ sale.status = "open" /\ e.kind # "opened"
         /\ new.status = IF e.kind \in {"completed", "abandoned"} THEN e.kind ELSE "open"
         /\ new.by = sale.by
         /\ e.kind \notin {"line_added", "quantity_changed", "line_voided"} =>
               new.lines = sale.lines
         /\ LineIds(new) = LineIds(sale) \cup (IF e.kind = "line_added" THEN {e.at} ELSE {})
         /\ e.kind # "order_discounted" => new.discount = sale.discount
         /\ new.tenders = IF e.kind = "tender_recorded"
                          THEN Append(sale.tenders, [method |-> e.method, amount |-> e.amount])
                          ELSE sale.tenders
         /\ new.settled = IF e.kind = "completed" THEN e.total ELSE sale.settled
         /\ new.change = IF e.kind = "completed" THEN e.change ELSE sale.change
         /\ new.lease = IF e.kind = "ticket_claimed" THEN Claimed(sale, e)
                        ELSE IF e.kind = "ticket_released" THEN Released(sale, e)
                        ELSE sale.lease
         /\ new.table = IF e.kind = "seated" THEN e.table ELSE sale.table
         /\ new.fired = IF e.kind = "lines_fired" THEN sale.fired \cup e.lines ELSE sale.fired
<1>0. sale.status = "open" /\ e.kind # "opened"
  BY NoSaleUnknown DEF Takes, Accepts
<1>f. /\ e.at \in Nat /\ e.by \in Device
      /\ e.kind \in {"opened", "abandoned", "ticket_claimed", "ticket_released", "line_added",
                     "quantity_changed", "line_voided", "order_discounted",
                     "tender_recorded", "seated", "lines_fired", "completed"}
  BY EventFields
<1>l. new.lines = sale.lines => LineIds(new) = LineIds(sale)
  BY DEF LineIds
<1>1. CASE e.kind = "line_added"
  <2>1. Accepts(sale, e)
    BY <1>1, NoSaleUnknown DEF Takes
  <2>2. PICK lines \in Seq(LineSet) :
            /\ new = [sale EXCEPT !.lines = lines]
            /\ LineIds(new) = LineIds(sale) \cup {e.at}
    BY <1>1, <2>1, LinesAfter
  <2> QED BY <1>0, <1>1, <2>2 DEF KnownSales
<1>2. CASE e.kind \in {"quantity_changed", "line_voided"}
  <2>1. Accepts(sale, e)
    BY <1>2, NoSaleUnknown DEF Takes
  <2>2. PICK lines \in Seq(LineSet) :
            new = [sale EXCEPT !.lines = lines] /\ LineIds(new) = LineIds(sale)
    BY <1>2, <2>1, LinesAfter
  <2> QED BY <1>0, <1>2, <2>2 DEF KnownSales
<1>3. CASE e.kind = "order_discounted"
  <2>1. new = [sale EXCEPT !.discount = e.amount] /\ e.amount \in Int
    BY <1>3, EventFields DEF Apply
  <2>2. new.lines = sale.lines
    BY <2>1 DEF KnownSales
  <2> QED BY <1>0, <1>l, <1>3, <2>1, <2>2 DEF KnownSales
<1>4. CASE e.kind = "tender_recorded"
  <2> DEFINE tender == [method |-> e.method, amount |-> e.amount]
  <2>1. new = [sale EXCEPT !.tenders = Append(sale.tenders, tender)]
    BY <1>4 DEF Apply
  <2>2. tender \in TenderSet
    BY <1>4, EventFields DEF TenderSet
  <2>3. Append(sale.tenders, tender) \in Seq(TenderSet)
    BY <2>2, AppendProperties DEF KnownSales
  <2>4. new.lines = sale.lines
    BY <2>1 DEF KnownSales
  <2> QED BY <1>0, <1>l, <1>4, <2>1, <2>3, <2>4 DEF KnownSales
<1>5. CASE e.kind \in {"ticket_claimed", "ticket_released"}
  <2>1. e.by \in Nat
    BY <1>f, SaleAssumption
  <2>2. sale.lease \in LeaseSet /\ NoLease \in LeaseSet
    BY DEF KnownSales, NoLease, LeaseSet
  <2>3. Claimed(sale, e) \in LeaseSet /\ Released(sale, e) \in LeaseSet
    BY <1>f, <2>1, <2>2 DEF Claimed, Released, ResolveContest, Lease, LeaseSet
  <2>4. PICK lease \in LeaseSet :
            /\ new = [sale EXCEPT !.lease = lease]
            /\ lease = IF e.kind = "ticket_claimed" THEN Claimed(sale, e) ELSE Released(sale, e)
    BY <1>5, <2>3 DEF Apply
  <2>5. new.lines = sale.lines
    BY <2>4 DEF KnownSales
  <2> QED BY <1>0, <1>l, <1>5, <2>4, <2>5 DEF KnownSales
<1>6. CASE e.kind = "seated"
  <2>1. new = [sale EXCEPT !.table = e.table] /\ e.table \in Table
    BY <1>6, EventFields DEF Apply
  <2>2. new.lines = sale.lines
    BY <2>1 DEF KnownSales
  <2> QED BY <1>0, <1>l, <1>6, <2>1, <2>2 DEF KnownSales
<1>7. CASE e.kind = "lines_fired"
  <2>1. PICK rounds \in Int :
            new = [sale EXCEPT !.fired = sale.fired \cup e.lines, !.rounds = rounds]
    <3>1. (IF sale.rounds < e.round THEN e.round ELSE sale.rounds) \in Int
      BY <1>7, EventFields DEF KnownSales
    <3> QED BY <1>7, <3>1 DEF Apply, KnownSales
  <2>2. sale.fired \cup e.lines \in SUBSET Nat
    BY <1>7, EventFields DEF KnownSales
  <2>3. new.lines = sale.lines
    BY <2>1 DEF KnownSales
  <2> QED BY <1>0, <1>l, <1>7, <2>1, <2>2, <2>3 DEF KnownSales
<1>8. CASE e.kind = "completed"
  <2>1. /\ new = [sale EXCEPT !.status = "completed", !.settled = e.total, !.change = e.change]
        /\ e.total \in Int /\ e.change \in Int
    BY <1>8, EventFields DEF Apply
  <2>2. new.lines = sale.lines
    BY <2>1 DEF KnownSales
  <2> QED BY <1>0, <1>l, <1>8, <2>1, <2>2 DEF KnownSales
<1>9. CASE e.kind = "abandoned"
  <2>1. new = [sale EXCEPT !.status = "abandoned"]
    BY <1>9 DEF Apply
  <2>2. new.lines = sale.lines
    BY <2>1 DEF KnownSales
  <2> QED BY <1>0, <1>l, <1>9, <2>1, <2>2 DEF KnownSales
<1> QED BY <1>0, <1>f, <1>1, <1>2, <1>3, <1>4, <1>5, <1>6, <1>7, <1>8, <1>9

\* The same of a step of a replay, taken or not.
LEMMA StepFacts ==
  ASSUME NEW sale \in SaleSet, NEW e \in Events,
         NEW new, new = SaleStep(sale, e)
  PROVE  /\ new \in SaleSet
         /\ new = NoSale <=> sale = NoSale /\ e.kind # "opened"
         /\ sale = NoSale /\ e.kind = "opened" => new = Opened(e.by)
         /\ sale # NoSale /\ sale.status # "open" => new = sale
         /\ sale # NoSale /\ e.kind = "opened" => new = sale
         /\ sale # NoSale /\ new.status = "open" => sale.status = "open"
         /\ sale # NoSale /\ sale.status = "open" /\ new # sale
               => Takes(sale, e) /\ new = Apply(sale, e)
<1>1. CASE sale = NoSale
  <2>1. e.by \in Device
    BY EventFields
  <2> QED BY <1>1, <2>1, NoSaleUnknown, OpenedTyped DEF SaleStep, Takes, SaleSet
<1>2. CASE sale # NoSale
  <2>1. sale \in KnownSales
    BY <1>2 DEF SaleSet
  <2>2. CASE Takes(sale, e)
    <3>1. new = Apply(sale, e)
      BY <1>2, <2>2 DEF SaleStep
    <3>2. new \in KnownSales /\ sale.status = "open" /\ e.kind # "opened"
      BY <2>1, <2>2, <3>1, SaleAfter
    <3> QED BY <1>2, <2>2, <3>1, <3>2, NoSaleUnknown DEF SaleSet
  <2>3. CASE ~Takes(sale, e)
    <3>1. new = sale
      BY <2>3 DEF SaleStep
    <3> QED BY <1>2, <3>1
  <2> QED BY <2>2, <2>3
<1> QED BY <1>1, <1>2

\* A replay of events is a book of sales, and moves them one event at a time.
LEMMA ReplayTyped ==
  ASSUME NEW events \in Seq(Events)
  PROVE  Replay(events) \in [Sales -> SaleSet]
<1>1. EmptyBook \in [Sales -> SaleSet]
  BY DEF EmptyBook, SaleSet
<1>2. ASSUME NEW b \in [Sales -> SaleSet], NEW e \in Events
      PROVE  ApplyOrSkip(b, e) \in [Sales -> SaleSet]
  <2>1. e.sale \in Sales
    BY EventFields
  <2>2. SaleStep(b[e.sale], e) \in SaleSet
    BY <2>1, StepFacts
  <2> QED BY <2>1, <2>2, BookStep
<1>3. Rebuild!Run(events) \in [Sales -> SaleSet]
  <2> DEFINE Inv == [Sales -> SaleSet]
  <2>1. EmptyBook \in Inv
    BY <1>1
  <2>2. \A b \in Inv, e \in Events : ApplyOrSkip(b, e) \in Inv
    BY <1>2
  <2> HIDE DEF Inv
  <2>3. Rebuild!Run(events) \in Inv
    BY <2>1, <2>2, Rebuild!RunInvariant, ZenonT(60)
  <2> QED BY <2>3 DEF Inv
<1> QED BY <1>3, ReplayIsRun

\* One more event moves its own sale, and no other.
LEMMA ReplayStep ==
  ASSUME NEW events \in Seq(Events), NEW e \in Events, NEW k \in Sales
  PROVE  Replay(Append(events, e))[k] =
            IF e.sale = k THEN SaleStep(Replay(events)[k], e) ELSE Replay(events)[k]
<1>1. Replay(Append(events, e)) = ApplyOrSkip(Replay(events), e)
  BY ReplayAppend
<1>2. Replay(events) \in [Sales -> SaleSet]
  BY ReplayTyped
<1>3. ApplyOrSkip(Replay(events), e)
        = [Replay(events) EXCEPT ![e.sale] = SaleStep(Replay(events)[e.sale], e)]
  BY <1>2, BookStep
<1> QED BY <1>1, <1>2, <1>3

\* What holds of every sale nobody has heard of, and is kept at every step,
\* holds of every sale of every replay.
LEMMA ReplayInvariant ==
  ASSUME NEW Inv, NoSale \in Inv,
         \A sale \in SaleSet \cap Inv, e \in Events : SaleStep(sale, e) \in Inv,
         NEW events \in Seq(Events), NEW k \in Sales
  PROVE  Replay(events)[k] \in Inv
<1> DEFINE P == {s \in Seq(Events) : Replay(s)[k] \in Inv}
<1>1. <<>> \in P
  BY ReplayEmpty, EmptySeq DEF EmptyBook
<1>2. ASSUME NEW s \in P, NEW e \in Events PROVE Append(s, e) \in P
  <2>1. Replay(s)[k] \in SaleSet \cap Inv
    BY ReplayTyped
  <2>2. Replay(Append(s, e))[k] \in Inv
    BY <2>1, ReplayStep
  <2> QED BY <2>2, AppendProperties
<1> HIDE DEF P
<1>3. P \in SUBSET Seq(Events)
  BY DEF P
<1>4. events \in P
  BY <1>1, <1>2, <1>3, Rebuild!SequenceInduction
<1> QED BY <1>4 DEF P

-----------------------------------------------------------------------------
(***************************************************************************)
(* What every replay has brought a sale to.                                *)
(***************************************************************************)

\* What is owed, paid and given back are numbers, and go together.
LEMMA SaleSums ==
  ASSUME NEW sale \in KnownSales
  PROVE  /\ Total(sale) \in Int /\ Tendered(sale) \in Int
         /\ BalanceDue(sale) = Total(sale) - Tendered(sale)
         /\ ChangeDue(sale) = IF Total(sale) < Tendered(sale)
                              THEN Tendered(sale) - Total(sale) ELSE 0
<1>1. sale.lines \in Seq(LineSet) /\ sale.tenders \in Seq(TenderSet) /\ sale.discount \in Int
  BY DEF KnownSales
<1>2. SumOf(LineValue, sale.lines) \in Int /\ SumOf(Amount, sale.tenders) \in Int
  BY <1>1, SumsAreNumbers
<1>3. Total(sale) \in Int
  <2>1. ASSUME NEW sum \in Int PROVE sum - LeastOf(sale.discount, sum) \in Int
    BY <1>1 DEF LeastOf
  <2> QED BY <1>2, <2>1 DEF Total
<1>4. Tendered(sale) \in Int
  BY <1>2 DEF Tendered
<1>5. BalanceDue(sale) = Total(sale) - Tendered(sale)
  BY DEF BalanceDue
<1> QED BY <1>3, <1>4, <1>5 DEF ChangeDue

\* What a sale comes to is read off its lines and its discount.
LEMMA TotalOf ==
  ASSUME NEW s \in KnownSales, NEW n \in KnownSales
  PROVE  /\ n.lines = s.lines /\ n.discount = s.discount => Total(n) = Total(s)
         /\ n.tenders = s.tenders => Tendered(n) = Tendered(s)
BY DEF Total, Tendered

Priced(sale) ==
    sale.status = "completed" =>
        /\ sale.settled = Total(sale)
        /\ sale.change >= 0
        /\ Tendered(sale) - sale.change = sale.settled

\* A replayed sale that is completed was settled for what it comes to.
LEMMA ReplayPriced ==
  ASSUME NEW events \in Seq(Events), NEW k \in Sales
  PROVE  Priced(Replay(events)[k])
<1> DEFINE Inv == {sale \in SaleSet : Priced(sale)}
<1>1. NoSale \in Inv
  BY NoSaleUnknown DEF Priced, SaleSet
<1>2. ASSUME NEW sale \in SaleSet, Priced(sale), NEW e \in Events
      PROVE  SaleStep(sale, e) \in SaleSet /\ Priced(SaleStep(sale, e))
  <2>1. PICK new : new = SaleStep(sale, e)
    OBVIOUS
  <2>2. new \in SaleSet
    BY <2>1, StepFacts
  <2>3. CASE new = sale
    BY <1>2, <2>1, <2>3
  <2>4. CASE sale = NoSale /\ new # sale
    <3>1. new = Opened(e.by) /\ e.by \in Device
      BY <2>1, <2>4, StepFacts, EventFields
    <3>2. new.status = "open"
      BY <3>1, OpenedTyped
    <3> QED BY <2>1, <2>2, <3>2 DEF Priced
  <2>5. CASE sale # NoSale /\ new # sale
    <3>1. sale \in KnownSales /\ Takes(sale, e) /\ new = Apply(sale, e)
      BY <2>1, <2>5, StepFacts DEF SaleSet
    <3>2. SUFFICES ASSUME new.status = "completed" PROVE Priced(new)
      BY <2>1, <2>2 DEF Priced
    <3>3. /\ e.kind = "completed" /\ new \in KnownSales
          /\ new.lines = sale.lines /\ new.discount = sale.discount /\ new.tenders = sale.tenders
          /\ new.settled = e.total /\ new.change = e.change
      BY <3>1, <3>2, SaleAfter, ZenonT(60)
    <3>4. Total(sale) = e.total /\ BalanceDue(sale) <= 0 /\ ChangeDue(sale) = e.change
      <4>1. Accepts(sale, e)
        BY <3>1, <3>3, NoSaleUnknown DEF Takes
      <4> QED BY <3>3, <4>1 DEF Accepts
    <3>5. Total(new) = Total(sale) /\ Tendered(new) = Tendered(sale)
      BY <3>1, <3>3, TotalOf
    <3>6. /\ Total(sale) \in Int /\ Tendered(sale) \in Int
          /\ BalanceDue(sale) = Total(sale) - Tendered(sale)
          /\ ChangeDue(sale) = IF Total(sale) < Tendered(sale)
                               THEN Tendered(sale) - Total(sale) ELSE 0
      BY <3>1, SaleSums
    <3>7. e.change >= 0 /\ Tendered(sale) - e.change = e.total
      BY <3>4, <3>6
    <3> QED BY <3>3, <3>4, <3>5, <3>7 DEF Priced
  <2> QED BY <2>3, <2>4, <2>5
<1> HIDE DEF Inv
<1>3. \A sale \in SaleSet \cap Inv, e \in Events : SaleStep(sale, e) \in Inv
  BY <1>2 DEF Inv
<1>4. Replay(events)[k] \in Inv
  BY <1>1, <1>3, ReplayInvariant
<1> QED BY <1>4 DEF Inv

-----------------------------------------------------------------------------
(***************************************************************************)
(* What can be read off the events a book was replayed from, when they are *)
(* in order of time and a sale is opened before anything happens to it.    *)
(***************************************************************************)

Increasing(events) ==
    \A i, j \in 1 .. Len(events) : i < j => events[i].at < events[j].at

Opens(e, k) == e.sale = k /\ e.kind = "opened"

OpenedFirst(events, k) ==
    \A f \in Range(events) : f.sale = k /\ f.kind # "opened" =>
        \E o \in Range(events) : Opens(o, k) /\ o.at < f.at

\* One more at the end is one more in all.
LEMMA RangeAppend ==
  ASSUME NEW S, NEW s \in Seq(S), NEW e \in S
  PROVE  Range(Append(s, e)) = Range(s) \cup {e}
<1>1. /\ Append(s, e) \in Seq(S) /\ Len(Append(s, e)) = Len(s) + 1 /\ Len(s) \in Nat
      /\ \A i \in 1 .. Len(s) : Append(s, e)[i] = s[i]
      /\ Append(s, e)[Len(s) + 1] = e
  BY AppendProperties, LenProperties
<1>2. Range(Append(s, e)) = {Append(s, e)[i] : i \in 1 .. Len(s) + 1}
  BY <1>1, RangeEquality
<1>3. Range(s) = {s[i] : i \in 1 .. Len(s)}
  BY RangeEquality
<1> QED BY <1>1, <1>2, <1>3

\* An empty sequence has nothing in it.
LEMMA RangeEmpty == Range(<<>>) = {}
BY DEF Range

\* A sequence stays in order when what comes last is latest.
LEMMA IncreasingAppend ==
  ASSUME NEW s \in Seq(Events), NEW e \in Events
  PROVE  Increasing(Append(s, e)) <=> Increasing(s) /\ \A f \in Range(s) : f.at < e.at
<1>1. /\ Append(s, e) \in Seq(Events) /\ Len(Append(s, e)) = Len(s) + 1 /\ Len(s) \in Nat
      /\ \A i \in 1 .. Len(s) : Append(s, e)[i] = s[i]
      /\ Append(s, e)[Len(s) + 1] = e
  BY AppendProperties, LenProperties
<1>2. Range(s) = {s[i] : i \in 1 .. Len(s)}
  BY RangeEquality
<1>3. ASSUME Increasing(Append(s, e)) PROVE Increasing(s) /\ \A f \in Range(s) : f.at < e.at
  <2>1. ASSUME NEW i \in 1 .. Len(s), NEW j \in 1 .. Len(s), i < j PROVE s[i].at < s[j].at
    BY <1>1, <1>3, <2>1 DEF Increasing
  <2>2. ASSUME NEW i \in 1 .. Len(s) PROVE s[i].at < e.at
    <3>1. i \in 1 .. Len(s) + 1 /\ Len(s) + 1 \in 1 .. Len(s) + 1 /\ i < Len(s) + 1
      BY <1>1
    <3> QED BY <1>1, <1>3, <3>1 DEF Increasing
  <2> QED BY <1>2, <2>1, <2>2 DEF Increasing
<1>4. ASSUME Increasing(s), \A f \in Range(s) : f.at < e.at PROVE Increasing(Append(s, e))
  <2>1. ASSUME NEW i \in 1 .. Len(s) + 1, NEW j \in 1 .. Len(s) + 1, i < j
        PROVE  Append(s, e)[i].at < Append(s, e)[j].at
    <3>1. i \in 1 .. Len(s)
      BY <1>1, <2>1
    <3>2. CASE j \in 1 .. Len(s)
      BY <1>1, <1>4, <2>1, <3>1, <3>2 DEF Increasing
    <3>3. CASE j = Len(s) + 1
      BY <1>1, <1>2, <1>4, <3>1, <3>3
    <3> QED BY <1>1, <3>2, <3>3
  <2> QED BY <1>1, <2>1 DEF Increasing
<1> QED BY <1>3, <1>4

\* What holds of the openings in a sequence holds before its last event.
LEMMA OpenedFirstAppend ==
  ASSUME NEW s \in Seq(Events), NEW e \in Events, NEW k \in Sales,
         Increasing(Append(s, e)), OpenedFirst(Append(s, e), k)
  PROVE  /\ OpenedFirst(s, k)
         /\ e.sale = k /\ e.kind # "opened" => \E o \in Range(s) : Opens(o, k)
<1>1. Range(Append(s, e)) = Range(s) \cup {e}
  BY RangeAppend
<1>2. \A f \in Range(s) : f \in Events /\ f.at \in Nat
  BY RangeOfSeq, EventFields
<1>3. e.at \in Nat /\ \A f \in Range(s) : f.at < e.at
  BY IncreasingAppend, EventFields
<1>4. ASSUME NEW f \in Range(s), f.sale = k, f.kind # "opened"
      PROVE  \E o \in Range(s) : Opens(o, k) /\ o.at < f.at
  <2>1. PICK o \in Range(s) \cup {e} : Opens(o, k) /\ o.at < f.at
    BY <1>1, <1>4 DEF OpenedFirst
  <2>2. o # e
    BY <1>2, <1>3, <2>1
  <2> QED BY <2>1, <2>2
<1>5. ASSUME e.sale = k, e.kind # "opened" PROVE \E o \in Range(s) : Opens(o, k)
  <2>1. PICK o \in Range(s) \cup {e} : Opens(o, k) /\ o.at < e.at
    BY <1>1, <1>5 DEF OpenedFirst
  <2>2. o # e
    BY <1>3, <2>1
  <2> QED BY <2>1, <2>2
<1> QED BY <1>4, <1>5 DEF OpenedFirst

\* A replay has heard of the sales that were opened, and of no other.
LEMMA ReplayKnows ==
  ASSUME NEW events \in Seq(Events), NEW k \in Sales
  PROVE  Replay(events)[k] # NoSale <=> \E o \in Range(events) : Opens(o, k)
<1> DEFINE P == {s \in Seq(Events) :
                    Replay(s)[k] # NoSale <=> \E o \in Range(s) : Opens(o, k)}
<1>1. <<>> \in P
  BY ReplayEmpty, RangeEmpty, EmptySeq DEF EmptyBook
<1>2. ASSUME NEW s \in P, NEW e \in Events PROVE Append(s, e) \in P
  <2>1. Range(Append(s, e)) = Range(s) \cup {e}
    BY RangeAppend
  <2>2. Replay(s)[k] \in SaleSet
    BY ReplayTyped
  <2>3. Replay(Append(s, e))[k] = NoSale <=> Replay(s)[k] = NoSale /\ ~Opens(e, k)
    BY <2>2, ReplayStep, StepFacts DEF Opens
  <2> QED BY <2>1, <2>3, AppendProperties
<1> HIDE DEF P
<1>3. P \in SUBSET Seq(Events)
  BY DEF P
<1>4. events \in P
  BY <1>1, <1>2, <1>3, Rebuild!SequenceInduction
<1> QED BY <1>4 DEF P

LinesAdded(s, k) ==
    Replay(s)[k] # NoSale =>
        \A id \in LineIds(Replay(s)[k]) :
            \E f \in Range(s) : f.sale = k /\ f.kind = "line_added" /\ f.at = id

\* A line's id is the moment it was added, on that sale.
LEMMA ReplayLines ==
  ASSUME NEW k \in Sales
  PROVE  \A events \in Seq(Events) : LinesAdded(events, k)
<1>1. LinesAdded(<<>>, k)
  BY ReplayEmpty DEF EmptyBook, LinesAdded
<1>2. ASSUME NEW s \in Seq(Events), LinesAdded(s, k), NEW e \in Events
      PROVE  LinesAdded(Append(s, e), k)
  <2>1. Range(Append(s, e)) = Range(s) \cup {e}
    BY RangeAppend
  <2>2. PICK sale \in SaleSet : sale = Replay(s)[k]
    BY ReplayTyped
  <2>3. PICK new \in SaleSet : new = Replay(Append(s, e))[k]
    BY ReplayTyped, AppendProperties
  <2>4. CASE new = sale
    BY <1>2, <2>1, <2>2, <2>3, <2>4 DEF LinesAdded
  <2>5. CASE new # sale
    <3>1. e.sale = k /\ new = SaleStep(sale, e)
      BY <2>2, <2>3, <2>5, ReplayStep
    <3>2. CASE sale = NoSale
      <4>1. new = Opened(e.by) /\ e.by \in Device
        BY <2>5, <3>1, <3>2, StepFacts, EventFields
      <4>2. new.lines = <<>>
        BY <4>1, OpenedTyped
      <4>3. LineIds(new) = {}
        BY <4>2 DEF LineIds
      <4> QED BY <2>3, <4>3 DEF LinesAdded
    <3>3. CASE sale # NoSale
      <4>1. sale \in KnownSales /\ Takes(sale, e) /\ new = Apply(sale, e)
        BY <2>5, <3>1, <3>3, StepFacts DEF SaleSet
      <4>2. LineIds(new) = LineIds(sale) \cup (IF e.kind = "line_added" THEN {e.at} ELSE {})
        BY <4>1, SaleAfter, ZenonT(60)
      <4>3. ASSUME NEW x \in LineIds(new)
            PROVE  \E f \in Range(s) \cup {e} : f.sale = k /\ f.kind = "line_added" /\ f.at = x
        <5>1. CASE x \in LineIds(sale)
          BY <1>2, <2>2, <3>3, <5>1 DEF LinesAdded
        <5>2. CASE e.kind = "line_added" /\ x = e.at
          BY <3>1, <5>2
        <5> QED BY <4>2, <4>3, <5>1, <5>2
      <4> QED BY <2>1, <2>3, <4>3 DEF LinesAdded
    <3> QED BY <3>2, <3>3
  <2> QED BY <2>4, <2>5
<1> DEFINE P == {s \in Seq(Events) : LinesAdded(s, k)}
<1>3. /\ P \in SUBSET Seq(Events) /\ <<>> \in P
      /\ \A s \in P, e \in Events : Append(s, e) \in P
  BY <1>1, <1>2, EmptySeq, AppendProperties
<1> HIDE DEF P
<1>4. \A s \in Seq(Events) : s \in P
  BY <1>3, Rebuild!SequenceInduction
<1> QED BY <1>4 DEF P

FiredKept(s, k) ==
    (Increasing(s) /\ OpenedFirst(s, k) /\ Replay(s)[k].status = "open") =>
        \A f \in Range(s) :
            f.sale = k /\ f.kind = "lines_fired" => f.lines \subseteq Replay(s)[k].fired

\* On an open ticket, every line once sent to the kitchen counts as sent.
LEMMA ReplayFired ==
  ASSUME NEW k \in Sales
  PROVE  \A events \in Seq(Events) : FiredKept(events, k)
<1>1. FiredKept(<<>>, k)
  BY RangeEmpty DEF FiredKept
<1>2. ASSUME NEW s \in Seq(Events), FiredKept(s, k), NEW e \in Events
      PROVE  FiredKept(Append(s, e), k)
  <2>1. Range(Append(s, e)) = Range(s) \cup {e}
    BY RangeAppend
  <2>2. PICK sale \in SaleSet : sale = Replay(s)[k]
    BY ReplayTyped
  <2>3. PICK new \in SaleSet : new = Replay(Append(s, e))[k]
    BY ReplayTyped, AppendProperties
  <2>4. SUFFICES ASSUME Increasing(Append(s, e)), OpenedFirst(Append(s, e), k),
                        new.status = "open",
                        NEW f \in Range(s) \cup {e}, f.sale = k, f.kind = "lines_fired"
                 PROVE  f.lines \subseteq new.fired
    BY <2>1, <2>3 DEF FiredKept
  <2>5. /\ Increasing(s) /\ OpenedFirst(s, k)
        /\ e.sale = k /\ e.kind # "opened" => \E o \in Range(s) : Opens(o, k)
    BY <2>4, IncreasingAppend, OpenedFirstAppend
  <2>6. new = IF e.sale = k THEN SaleStep(sale, e) ELSE sale
    BY <2>2, <2>3, ReplayStep
  <2>7. CASE sale = NoSale
    <3>1. ~ \E o \in Range(s) : Opens(o, k)
      BY <2>2, <2>7, ReplayKnows
    <3>2. f # e
      BY <2>4, <2>5, <3>1
    <3>3. \E o \in Range(s) : Opens(o, k) /\ o.at < f.at
      BY <2>4, <2>5, <3>2 DEF OpenedFirst
    <3> QED BY <3>1, <3>3
  <2>8. CASE sale # NoSale
    <3>1. sale.status = "open"
      BY <2>4, <2>6, <2>8, StepFacts
    <3>2. sale \in KnownSales
      BY <2>8 DEF SaleSet
    <3>3. \A g \in Range(s) : g.sale = k /\ g.kind = "lines_fired" => g.lines \subseteq sale.fired
      BY <1>2, <2>2, <2>5, <3>1 DEF FiredKept
    <3>4. CASE e.sale = k /\ Takes(sale, e)
      <4>1. new = Apply(sale, e)
        BY <2>6, <2>8, <3>4 DEF SaleStep
      <4>2. new.fired = IF e.kind = "lines_fired" THEN sale.fired \cup e.lines ELSE sale.fired
        BY <3>2, <3>4, <4>1, SaleAfter
      <4> QED BY <2>4, <3>3, <4>2
    <3>5. CASE e.sale = k /\ ~Takes(sale, e)
      <4>1. e.kind # "lines_fired"
        BY <2>8, <3>1, <3>5 DEF Takes, Accepts
      <4>2. new = sale
        BY <2>6, <3>5 DEF SaleStep
      <4> QED BY <2>4, <3>3, <4>1, <4>2
    <3>6. CASE e.sale # k
      BY <2>4, <2>6, <3>3, <3>6
    <3> QED BY <3>4, <3>5, <3>6
  <2> QED BY <2>7, <2>8
<1> DEFINE P == {s \in Seq(Events) : FiredKept(s, k)}
<1>3. /\ P \in SUBSET Seq(Events) /\ <<>> \in P
      /\ \A s \in P, e \in Events : Append(s, e) \in P
  BY <1>1, <1>2, EmptySeq, AppendProperties
<1> HIDE DEF P
<1>4. \A s \in Seq(Events) : s \in P
  BY <1>3, Rebuild!SequenceInduction
<1> QED BY <1>4 DEF P

-----------------------------------------------------------------------------

ClaimsIn(events, k) == {e \in Range(events) : e.sale = k /\ e.kind = "ticket_claimed"}
Unreleased(events, k) ==
    \A e \in Range(events) : ~(e.sale = k /\ e.kind = "ticket_released")

ClaimKept(s, k) ==
    ( /\ Increasing(s) /\ OpenedFirst(s, k) /\ Unreleased(s, k)
      /\ Replay(s)[k].status = "open" ) =>
        /\ ClaimsIn(s, k) = {} => Replay(s)[k].lease = NoLease
        /\ ClaimsIn(s, k) # {} => /\ Replay(s)[k].lease.holder \in Nat
                                  /\ \E c \in ClaimsIn(s, k) : Replay(s)[k].lease.claimed = c.at
        /\ \A first \in ClaimsIn(s, k) :
              (\A c \in ClaimsIn(s, k) : first.at <= c.at)
                  => Replay(s)[k].lease.holder = first.by

\* On an open ticket nobody let go of, the first to claim it has it, and the
\* moment it counts from is that of some claim heard of.
LEMMA ReplayClaims ==
  ASSUME NEW k \in Sales
  PROVE  \A events \in Seq(Events) : ClaimKept(events, k)
<1>1. ClaimKept(<<>>, k)
  BY ReplayEmpty, NoSaleUnknown DEF ClaimKept, EmptyBook
<1>2. ASSUME NEW s \in Seq(Events), ClaimKept(s, k), NEW e \in Events
      PROVE  ClaimKept(Append(s, e), k)
  <2>1. Range(Append(s, e)) = Range(s) \cup {e}
    BY RangeAppend
  <2>2. PICK sale \in SaleSet : sale = Replay(s)[k]
    BY ReplayTyped
  <2>3. PICK new \in SaleSet : new = Replay(Append(s, e))[k]
    BY ReplayTyped, AppendProperties
  <2>4. SUFFICES ASSUME Increasing(Append(s, e)), OpenedFirst(Append(s, e), k),
                        Unreleased(Append(s, e), k), new.status = "open"
                 PROVE  /\ ClaimsIn(Append(s, e), k) = {} => new.lease = NoLease
                        /\ ClaimsIn(Append(s, e), k) # {} =>
                              /\ new.lease.holder \in Nat
                              /\ \E c \in ClaimsIn(Append(s, e), k) : new.lease.claimed = c.at
                        /\ \A first \in ClaimsIn(Append(s, e), k) :
                              (\A c \in ClaimsIn(Append(s, e), k) : first.at <= c.at)
                                  => new.lease.holder = first.by
    BY <2>3 DEF ClaimKept
  <2>5. /\ Increasing(s) /\ OpenedFirst(s, k) /\ Unreleased(s, k)
        /\ e.sale = k /\ e.kind # "opened" => \E o \in Range(s) : Opens(o, k)
        /\ \A f \in Range(s) : f.at < e.at
        /\ ~(e.sale = k /\ e.kind = "ticket_released")
    BY <2>1, <2>4, IncreasingAppend, OpenedFirstAppend DEF Unreleased
  <2>6. new = IF e.sale = k THEN SaleStep(sale, e) ELSE sale
    BY <2>2, <2>3, ReplayStep
  <2>7. ClaimsIn(Append(s, e), k) =
          ClaimsIn(s, k) \cup (IF e.sale = k /\ e.kind = "ticket_claimed" THEN {e} ELSE {})
    BY <2>1 DEF ClaimsIn
  <2>8. CASE sale = NoSale
    <3>1. ~ \E o \in Range(s) : Opens(o, k)
      BY <2>2, <2>8, ReplayKnows
    <3>2. ClaimsIn(s, k) = {}
      BY <2>5, <3>1 DEF OpenedFirst, ClaimsIn
    <3>3. ~(e.sale = k /\ e.kind = "ticket_claimed")
      BY <2>5, <3>1
    <3>4. e.sale = k /\ new = Opened(e.by) /\ e.by \in Device
      BY <2>4, <2>6, <2>8, NoSaleUnknown, StepFacts, EventFields
    <3> QED BY <2>7, <3>2, <3>3, <3>4, OpenedTyped
  <2>9. CASE sale # NoSale
    <3>1. sale.status = "open"
      BY <2>4, <2>6, <2>9, StepFacts
    <3>2. sale \in KnownSales
      BY <2>9 DEF SaleSet
    <3>3. /\ ClaimsIn(s, k) = {} => sale.lease = NoLease
          /\ ClaimsIn(s, k) # {} => /\ sale.lease.holder \in Nat
                                    /\ \E c \in ClaimsIn(s, k) : sale.lease.claimed = c.at
          /\ \A first \in ClaimsIn(s, k) :
                (\A c \in ClaimsIn(s, k) : first.at <= c.at) => sale.lease.holder = first.by
      BY <1>2, <2>2, <2>5, <3>1 DEF ClaimKept
    <3>4. CASE ~(e.sale = k /\ e.kind = "ticket_claimed")
      <4>1. new.lease = sale.lease
        <5>1. CASE e.sale = k /\ Takes(sale, e)
          <6>1. new = Apply(sale, e)
            BY <2>6, <2>9, <5>1 DEF SaleStep
          <6> QED BY <2>5, <3>2, <3>4, <5>1, <6>1, SaleAfter
        <5>2. CASE ~(e.sale = k /\ Takes(sale, e))
          BY <2>6, <5>2 DEF SaleStep
        <5> QED BY <5>1, <5>2
      <4> QED BY <2>7, <3>3, <3>4, <4>1
    <3>5. CASE e.sale = k /\ e.kind = "ticket_claimed"
      <4>1. Takes(sale, e)
        BY <2>9, <3>1, <3>5 DEF Takes, Accepts
      <4>2. new.lease = Claimed(sale, e)
        <5>1. new = Apply(sale, e)
          BY <2>6, <2>9, <3>5, <4>1 DEF SaleStep
        <5> QED BY <3>2, <3>5, <4>1, <5>1, SaleAfter
      <4>3. e.by \in Nat /\ e.at \in Nat /\ e \notin Range(s)
        <5>1. e.by \in Nat /\ e.at \in Nat
          BY SaleAssumption, EventFields
        <5>2. ~(e.at < e.at)
          BY <5>1
        <5> QED BY <2>5, <5>1, <5>2
      <4>4. \A c \in ClaimsIn(s, k) : c.by \in Nat /\ c.at \in Nat /\ c.at < e.at
        BY <2>5, SaleAssumption, EventFields, RangeOfSeq DEF ClaimsIn
      <4>5. CASE ClaimsIn(s, k) = {}
        <5>1. new.lease = Lease(e.by, e.at)
          BY <3>3, <4>2, <4>5 DEF Claimed
        <5> QED BY <2>7, <3>5, <4>3, <4>5, <5>1 DEF Lease
      <4>6. CASE ClaimsIn(s, k) # {}
        <5>1. PICK d \in ClaimsIn(s, k) : sale.lease.claimed = d.at
          BY <3>3, <4>6
        <5>2. new.lease = IF sale.lease.holder # e.by THEN sale.lease ELSE Lease(e.by, e.at)
          <6>1. sale.lease # NoLease
            BY <3>3, <4>6 DEF NoLease
          <6>2. sale.lease.claimed < e.at
            BY <4>4, <5>1
          <6> QED BY <4>2, <6>1, <6>2 DEF Claimed, ResolveContest, Lease
        <5>3. new.lease.holder = sale.lease.holder
          BY <5>2 DEF Lease
        <5>4. new.lease.claimed \in {d.at, e.at}
          BY <5>1, <5>2 DEF Lease
        <5>5. ASSUME NEW first \in ClaimsIn(s, k) \cup {e},
                     \A c \in ClaimsIn(s, k) \cup {e} : first.at <= c.at
              PROVE  new.lease.holder = first.by
          <6>1. first # e
            BY <4>3, <4>4, <5>1, <5>5
          <6> QED BY <3>3, <5>3, <5>5, <6>1
        <5> QED BY <2>7, <3>3, <3>5, <4>6, <5>1, <5>3, <5>4, <5>5
      <4> QED BY <4>5, <4>6
    <3> QED BY <3>4, <3>5
  <2> QED BY <2>8, <2>9
<1> DEFINE P == {s \in Seq(Events) : ClaimKept(s, k)}
<1>3. /\ P \in SUBSET Seq(Events) /\ <<>> \in P
      /\ \A s \in P, e \in Events : Append(s, e) \in P
  BY <1>1, <1>2, EmptySeq, AppendProperties
<1> HIDE DEF P
<1>4. \A s \in Seq(Events) : s \in P
  BY <1>3, Rebuild!SequenceInduction
<1> QED BY <1>4 DEF P

-----------------------------------------------------------------------------
(***************************************************************************)
(* Events in order of time.                                                *)
(***************************************************************************)

\* Every moment belongs to one event.
OfOneMoment(E) == \A e, f \in E : e.at = f.at => e = f

\* A finite set of events, each of a moment of its own, is put in order.
LEMMA InOrderSorts ==
  ASSUME NEW E \in SUBSET Events, IsFiniteSet(E), OfOneMoment(E)
  PROVE  /\ InOrder(E) \in Seq(Events)
         /\ Range(InOrder(E)) = E
         /\ Increasing(InOrder(E))
<1> DEFINE Before(e) == {f \in E : f.at < e.at}
<1> DEFINE n == Cardinality(E)
<1> DEFINE rank == [e \in E |-> Cardinality(Before(e))]
<1>1. n \in Nat
  BY FS_CardinalityType
<1>2. \A e \in E : e.at \in Nat
  BY EventFields
<1>3. ASSUME NEW e \in E
      PROVE  /\ IsFiniteSet(Before(e)) /\ Cardinality(Before(e)) \in Nat
             /\ Cardinality(Before(e)) \in 0 .. n - 1
  <2>1. Before(e) \in SUBSET E /\ e \notin Before(e)
    BY <1>2
  <2> HIDE DEF Before, rank
  <2>2. /\ IsFiniteSet(Before(e)) /\ Cardinality(Before(e)) <= n
        /\ Cardinality(E) = Cardinality(Before(e)) => E = Before(e)
    BY <2>1, FS_Subset
  <2>3. Cardinality(Before(e)) \in Nat
    BY <2>2, FS_CardinalityType
  <2>4. Cardinality(Before(e)) # n
    BY <2>1, <2>2
  <2> HIDE DEF n
  <2> QED BY <1>1, <2>2, <2>3, <2>4
<1>4. ASSUME NEW e \in E, NEW f \in E, e.at < f.at
      PROVE  Cardinality(Before(e)) < Cardinality(Before(f))
  <2>1. Before(e) \in SUBSET Before(f)
    BY <1>2, <1>4
  <2>2. e \in Before(f) /\ e \notin Before(e)
    BY <1>2, <1>4
  <2> HIDE DEF Before, rank
  <2>3. /\ Cardinality(Before(e)) <= Cardinality(Before(f))
        /\ Cardinality(Before(f)) = Cardinality(Before(e)) => Before(f) = Before(e)
    BY <1>3, <2>1, FS_Subset
  <2>4. Cardinality(Before(f)) # Cardinality(Before(e))
    BY <2>2, <2>3
  <2>5. Cardinality(Before(e)) \in Nat /\ Cardinality(Before(f)) \in Nat
    BY <1>3
  <2> QED BY <2>3, <2>4, <2>5
<1> HIDE DEF Before
<1>5. \A e, f \in E : Cardinality(Before(e)) = Cardinality(Before(f)) => e = f
  <2> SUFFICES ASSUME NEW e \in E, NEW f \in E, e # f
               PROVE  Cardinality(Before(e)) # Cardinality(Before(f))
    OBVIOUS
  <2>1. e.at < f.at \/ f.at < e.at
    <3>1. e.at # f.at
      BY DEF OfOneMoment
    <3> QED BY <1>2, <3>1
  <2>2. Cardinality(Before(e)) \in Nat /\ Cardinality(Before(f)) \in Nat
    BY <1>3
  <2> QED BY <1>4, <2>1, <2>2
<1>6. \A i \in 0 .. n - 1 : \E e \in E : Cardinality(Before(e)) = i
  <2>1. rank \in [E -> 0 .. n - 1]
    BY <1>3
  <2>2. rank \in Injection(E, 0 .. n - 1)
    BY <1>5, <2>1 DEF Injection, IsInjective
  <2>3. IsFiniteSet(0 .. n - 1) /\ Cardinality(0 .. n - 1) = n
    <3> HIDE DEF n
    <3>1. 0 \in Int /\ n - 1 \in Int
      BY <1>1
    <3>2. /\ IsFiniteSet(0 .. n - 1)
          /\ Cardinality(0 .. n - 1) = IF 0 > n - 1 THEN 0 ELSE (n - 1) - 0 + 1
      BY <3>1, FS_Interval
    <3> QED BY <1>1, <3>2
  <2>4. rank \in Surjection(E, 0 .. n - 1)
    <3> HIDE DEF rank
    <3> QED BY <2>2, <2>3, FS_Injection
  <2>5. \A i \in 0 .. n - 1 : \E e \in E : rank[e] = i
    <3> HIDE DEF rank
    <3> QED BY <2>4 DEF Surjection
  <2> QED BY <2>5
<1> DEFINE s == InOrder(E)
<1>7. s = [i \in 1 .. n |-> CHOOSE e \in E : Cardinality(Before(e)) = i - 1]
  BY DEF InOrder, Before
<1>8. \A i \in 1 .. n : s[i] \in E /\ Cardinality(Before(s[i])) = i - 1
  <2> SUFFICES ASSUME NEW i \in 1 .. n
               PROVE  s[i] \in E /\ Cardinality(Before(s[i])) = i - 1
    OBVIOUS
  <2>1. i - 1 \in 0 .. n - 1
    BY <1>1
  <2>2. \E e \in E : Cardinality(Before(e)) = i - 1
    BY <1>6, <2>1
  <2>3. s[i] = CHOOSE e \in E : Cardinality(Before(e)) = i - 1
    BY <1>7
  <2> HIDE DEF s
  <2> QED BY <2>2, <2>3
<1>9. s \in Seq(Events) /\ Len(s) = n
  BY <1>1, <1>7, <1>8
<1> HIDE DEF n, s, rank
<1>10. Range(s) = E
  <2>1. Range(s) = {s[i] : i \in 1 .. n}
    BY <1>9, RangeEquality
  <2>2. ASSUME NEW e \in E PROVE \E i \in 1 .. n : s[i] = e
    <3>1. Cardinality(Before(e)) + 1 \in 1 .. n /\ Cardinality(Before(e)) \in Nat
      BY <1>1, <1>3
    <3>2. PICK i \in 1 .. n : i = Cardinality(Before(e)) + 1
      BY <3>1
    <3>3. s[i] \in E /\ Cardinality(Before(s[i])) = Cardinality(Before(e))
      BY <1>8, <3>1, <3>2
    <3> QED BY <1>5, <3>3
  <2> QED BY <1>8, <2>1, <2>2
<1>11. Increasing(s)
  <2> SUFFICES ASSUME NEW i \in 1 .. n, NEW j \in 1 .. n, i < j PROVE s[i].at < s[j].at
    BY <1>9 DEF Increasing
  <2>1. /\ s[i] \in E /\ Cardinality(Before(s[i])) = i - 1
        /\ s[j] \in E /\ Cardinality(Before(s[j])) = j - 1
    BY <1>8
  <2>2. s[i].at \in Nat /\ s[j].at \in Nat
    BY <1>2, <2>1
  <2>3. CASE s[j].at < s[i].at
    <3>1. j - 1 < i - 1
      BY <1>4, <2>1, <2>3
    <3> QED BY <1>1, <3>1
  <2>4. CASE s[j].at = s[i].at
    <3>1. s[i] = s[j]
      BY <2>1, <2>4 DEF OfOneMoment
    <3>2. i - 1 = j - 1
      BY <2>1, <3>1
    <3> QED BY <1>1, <3>2
  <2> QED BY <2>2, <2>3, <2>4
<1> QED BY <1>9, <1>10, <1>11 DEF s

\* In order, the last event is later than the others.
LEMMA LastIsLatest ==
  ASSUME NEW s \in Seq(Events), NEW e \in Events, Increasing(Append(s, e))
  PROVE  /\ e \notin Range(s)
         /\ \A f \in Range(s) : f.at < e.at /\ f.at \in Nat
<1>1. \A f \in Range(s) : f.at < e.at /\ f.at \in Nat
  BY IncreasingAppend, RangeOfSeq, EventFields
<1>2. ASSUME e \in Range(s) PROVE FALSE
  <2>1. e.at < e.at /\ e.at \in Nat
    BY <1>1, <1>2
  <2> QED BY <2>1
<1> QED BY <1>1, <1>2

\* There is one way to put events in order.
LEMMA IncreasingUnique ==
  \A s, u \in Seq(Events) : Increasing(s) /\ Increasing(u) /\ Range(s) = Range(u) => s = u
<1> DEFINE Only(s) == \A u \in Seq(Events) :
                         Increasing(s) /\ Increasing(u) /\ Range(s) = Range(u) => s = u
<1>1. Only(<<>>)
  <2> SUFFICES ASSUME NEW u \in Seq(Events), Range(u) = {} PROVE u = <<>>
    BY RangeEmpty
  <2>1. Range(u) = {u[i] : i \in 1 .. Len(u)} /\ Len(u) \in Nat
    BY RangeEquality
  <2>2. Len(u) = 0
    <3> SUFFICES ASSUME Len(u) # 0 PROVE FALSE
      OBVIOUS
    <3>1. 1 \in 1 .. Len(u)
      BY <2>1
    <3>2. u[1] \in Range(u)
      BY <2>1, <3>1
    <3> QED BY <3>2
  <2> QED BY <2>2, EmptySeq
<1>2. ASSUME NEW s \in Seq(Events), Only(s), NEW e \in Events PROVE Only(Append(s, e))
  <2> SUFFICES ASSUME NEW u \in Seq(Events), Increasing(Append(s, e)), Increasing(u),
                      Range(Append(s, e)) = Range(u)
               PROVE  Append(s, e) = u
    OBVIOUS
  <2>1. Range(Append(s, e)) = Range(s) \cup {e}
    BY RangeAppend
  <2>2. u # <<>>
    BY <2>1, RangeEmpty
  <2>3. PICK v \in Seq(Events), g \in Events : u = Append(v, g)
    BY <2>2, SequenceEmptyOrAppend
  <2>4. Range(u) = Range(v) \cup {g}
    BY <2>3, RangeAppend
  <2>5. /\ e \notin Range(s) /\ \A f \in Range(s) : f.at < e.at /\ f.at \in Nat
        /\ g \notin Range(v) /\ \A f \in Range(v) : f.at < g.at /\ f.at \in Nat
    BY <2>3, LastIsLatest
  <2>6. e = g
    <3>1. e.at \in Nat /\ g.at \in Nat
      BY EventFields
    <3>2. e = g \/ e.at < g.at
      BY <2>1, <2>4, <2>5
    <3>3. e = g \/ g.at < e.at
      BY <2>1, <2>4, <2>5
    <3> QED BY <3>1, <3>2, <3>3
  <2>7. Range(s) = Range(v)
    <3>1. /\ Range(s) \cup {e} = Range(v) \cup {e}
          /\ e \notin Range(s) /\ e \notin Range(v)
      BY <2>1, <2>4, <2>5, <2>6
    <3>2. \A f \in Range(s) : f \in Range(v)
      BY <3>1
    <3>3. \A f \in Range(v) : f \in Range(s)
      BY <3>1
    <3> QED BY <3>2, <3>3
  <2>8. Increasing(s) /\ Increasing(v)
    BY <2>3, IncreasingAppend
  <2>9. s = v
    BY <1>2, <2>7, <2>8
  <2> QED BY <2>3, <2>6, <2>9
<1> DEFINE P == {s \in Seq(Events) : Only(s)}
<1>3. /\ P \in SUBSET Seq(Events) /\ <<>> \in P
      /\ \A s \in P, e \in Events : Append(s, e) \in P
  <2> HIDE DEF Only
  <2> QED BY <1>1, <1>2, EmptySeq, AppendProperties
<1> HIDE DEF P
<1>4. \A s \in Seq(Events) : s \in P
  BY <1>3, Rebuild!SequenceInduction
<1> QED BY <1>4 DEF P

\* The events of a sequence in order are finitely many, each of its own moment.
LEMMA RangeOfIncreasing ==
  ASSUME NEW s \in Seq(Events), Increasing(s)
  PROVE  Range(s) \in SUBSET Events /\ IsFiniteSet(Range(s)) /\ OfOneMoment(Range(s))
<1>1. Range(s) = {s[i] : i \in 1 .. Len(s)} /\ Len(s) \in Nat
  BY RangeEquality
<1>2. \A i \in 1 .. Len(s) : s[i] \in Events /\ s[i].at \in Nat
  BY EventFields
<1>3. IsFiniteSet(Range(s))
  <2>1. s \in Surjection(1 .. Len(s), Range(s))
    <3>1. s \in [1 .. Len(s) -> Range(s)]
      BY <1>1
    <3> QED BY <1>1, <3>1 DEF Surjection
  <2>2. IsFiniteSet(1 .. Len(s))
    BY <1>1, FS_Interval
  <2> QED BY <2>1, <2>2, FS_Surjection
<1>4. ASSUME NEW i \in 1 .. Len(s), NEW j \in 1 .. Len(s), s[i].at = s[j].at PROVE s[i] = s[j]
  <2>1. ~(i < j) /\ ~(j < i)
    <3>1. ~(s[i].at < s[j].at) /\ ~(s[j].at < s[i].at)
      BY <1>2, <1>4
    <3> QED BY <3>1 DEF Increasing
  <2>2. i = j
    BY <1>1, <2>1
  <2> QED BY <2>2
<1>5. OfOneMoment(Range(s))
  BY <1>1, <1>4 DEF OfOneMoment
<1> QED BY <1>3, <1>5, RangeOfSeq

-----------------------------------------------------------------------------

OfSale(E, k) == {e \in E : e.sale = k}

ReplayOfSale(s, k) ==
    Increasing(s) => Replay(s)[k] = Replay(InOrder(OfSale(Range(s), k)))[k]

\* What becomes of a sale is a matter of the events of that sale, and of no other.
LEMMA ReplayBySale ==
  ASSUME NEW k \in Sales
  PROVE  \A events \in Seq(Events) : ReplayOfSale(events, k)
<1>0. \A s \in Seq(Events) : Increasing(s) =>
        LET E == OfSale(Range(s), k)
        IN InOrder(E) \in Seq(Events) /\ Range(InOrder(E)) = E /\ Increasing(InOrder(E))
  <2> SUFFICES ASSUME NEW s \in Seq(Events), Increasing(s)
               PROVE  LET E == OfSale(Range(s), k)
                      IN InOrder(E) \in Seq(Events) /\ Range(InOrder(E)) = E
                         /\ Increasing(InOrder(E))
    OBVIOUS
  <2>1. Range(s) \in SUBSET Events /\ IsFiniteSet(Range(s)) /\ OfOneMoment(Range(s))
    BY RangeOfIncreasing
  <2>2. OfSale(Range(s), k) \in SUBSET Range(s)
    BY DEF OfSale
  <2>3. IsFiniteSet(OfSale(Range(s), k))
    BY <2>1, <2>2, FS_Subset
  <2>4. OfSale(Range(s), k) \in SUBSET Events /\ OfOneMoment(OfSale(Range(s), k))
    BY <2>1, <2>2 DEF OfOneMoment
  <2> QED BY <2>3, <2>4, InOrderSorts
<1>1. ReplayOfSale(<<>>, k)
  <2>1. <<>> \in Seq(Events) /\ Increasing(<<>>)
    BY EmptySeq DEF Increasing
  <2>2. OfSale(Range(<<>>), k) = {}
    BY RangeEmpty DEF OfSale
  <2>3. InOrder({}) \in Seq(Events) /\ Range(InOrder({})) = {} /\ Increasing(InOrder({}))
    BY <1>0, <2>1, <2>2
  <2>4. InOrder({}) = <<>>
    BY <2>1, <2>3, RangeEmpty, IncreasingUnique
  <2> QED BY <2>2, <2>4 DEF ReplayOfSale
<1>2. ASSUME NEW s \in Seq(Events), ReplayOfSale(s, k), NEW e \in Events
      PROVE  ReplayOfSale(Append(s, e), k)
  <2> SUFFICES ASSUME Increasing(Append(s, e))
               PROVE  Replay(Append(s, e))[k] =
                        Replay(InOrder(OfSale(Range(Append(s, e)), k)))[k]
    BY DEF ReplayOfSale
  <2>1. Append(s, e) \in Seq(Events) /\ Range(Append(s, e)) = Range(s) \cup {e}
    BY RangeAppend, AppendProperties
  <2>2. Increasing(s) /\ \A f \in Range(s) : f.at < e.at
    BY IncreasingAppend
  <2>3. Replay(s)[k] = Replay(InOrder(OfSale(Range(s), k)))[k]
    BY <1>2, <2>2 DEF ReplayOfSale
  <2>4. CASE e.sale # k
    <3>1. OfSale(Range(Append(s, e)), k) = OfSale(Range(s), k)
      BY <2>1, <2>4 DEF OfSale
    <3>2. Replay(Append(s, e))[k] = Replay(s)[k]
      BY <2>4, ReplayStep
    <3> QED BY <2>3, <3>1, <3>2
  <2>5. CASE e.sale = k
    <3> DEFINE E == OfSale(Range(s), k)
    <3>1. OfSale(Range(Append(s, e)), k) = E \cup {e}
      BY <2>1, <2>5 DEF OfSale
    <3>2. InOrder(E) \in Seq(Events) /\ Range(InOrder(E)) = E /\ Increasing(InOrder(E))
      BY <1>0, <2>2
    <3>3. /\ InOrder(E \cup {e}) \in Seq(Events) /\ Range(InOrder(E \cup {e})) = E \cup {e}
          /\ Increasing(InOrder(E \cup {e}))
      BY <1>0, <2>1, <3>1
    <3>4. E \in SUBSET Range(s)
      BY DEF OfSale
    <3> HIDE DEF E
    <3>5. Increasing(Append(InOrder(E), e))
      BY <2>2, <3>2, <3>4, IncreasingAppend
    <3>6. Append(InOrder(E), e) \in Seq(Events) /\ Range(Append(InOrder(E), e)) = E \cup {e}
      BY <3>2, RangeAppend, AppendProperties
    <3>7. InOrder(E \cup {e}) = Append(InOrder(E), e)
      BY <3>3, <3>5, <3>6, IncreasingUnique
    <3>8. Replay(Append(InOrder(E), e))[k] = SaleStep(Replay(InOrder(E))[k], e)
      BY <2>5, <3>2, ReplayStep
    <3>9. Replay(Append(s, e))[k] = SaleStep(Replay(s)[k], e)
      BY <2>5, ReplayStep
    <3> QED BY <2>3, <3>1, <3>7, <3>8, <3>9 DEF E
  <2> QED BY <2>4, <2>5
<1> DEFINE P == {s \in Seq(Events) : ReplayOfSale(s, k)}
<1>3. /\ P \in SUBSET Seq(Events) /\ <<>> \in P
      /\ \A s \in P, e \in Events : Append(s, e) \in P
  BY <1>1, <1>2, EmptySeq, AppendProperties
<1> HIDE DEF P
<1>4. \A s \in Seq(Events) : s \in P
  BY <1>3, Rebuild!SequenceInduction
<1> QED BY <1>4 DEF P

\* Two stores with the same events of a sale agree on it.
LEMMA SameSale ==
  ASSUME NEW s \in Seq(Events), NEW u \in Seq(Events), Increasing(s), Increasing(u),
         NEW k \in Sales, OfSale(Range(s), k) = OfSale(Range(u), k)
  PROVE  Replay(s)[k] = Replay(u)[k]
BY ReplayBySale DEF ReplayOfSale

-----------------------------------------------------------------------------
(***************************************************************************)
(* The tills.                                                              *)
(***************************************************************************)

Prepared == {"line_added", "quantity_changed", "completed", "abandoned", "seated"}

StateTyped ==
    /\ clock \in Nat
    /\ store \in [Device -> Seq(Events)]
    /\ book \in [Device -> [Sales -> SaleSet]]
    /\ doing \in [Device -> Events \cup {Nothing}]
    /\ \A t \in Device : ~Idle(t) => doing[t].by = t /\ doing[t].kind \in Prepared

\* What a step of a till may amount to.
RecordsAlone(t, e) ==
    /\ Idle(t)
    /\ e.kind \notin {"seated", "lines_fired"}
    /\ e.kind = "opened" =>
         e.sale = Cardinality({o \in EverRecorded : o.kind = "opened"}) + 1
    /\ UNCHANGED <<doing, slips>>

RecordsPrepared(t, e) ==
    /\ ~Idle(t)
    /\ e = [doing[t] EXCEPT !.at = clock]
    /\ doing' = [doing EXCEPT ![t] = Nothing]
    /\ UNCHANGED slips

RecordsFired(t, e) ==
    /\ Idle(t)
    /\ e.kind = "lines_fired"
    /\ book[t][e.sale] # NoSale
    /\ e.lines = Pending(book[t][e.sale])
    /\ slips' = slips \cup Slips(t, e.sale)
    /\ UNCHANGED doing

RecordsOne(t) ==
    \E e \in Events :
        /\ e.at = clock /\ e.by = t
        /\ Records(t, e)
        /\ RecordsAlone(t, e) \/ RecordsPrepared(t, e) \/ RecordsFired(t, e)

PreparesOne(t) ==
    \E e \in Events :
        /\ e.by = t /\ e.kind \in Prepared
        /\ e.kind = "seated" => Occupant(book[t], e.table) \in {0, e.sale}
        /\ Idle(t)
        /\ doing' = [doing EXCEPT ![t] = e]
        /\ UNCHANGED <<clock, store, book, slips>>

DropsCommand(t) ==
    /\ ~Idle(t)
    /\ doing' = [doing EXCEPT ![t] = Nothing]
    /\ UNCHANGED <<clock, store, book, slips>>

PrintsCancellations(t) ==
    \E k \in Sales :
        /\ book[t][k] # NoSale
        /\ Pending(book[t][k]) = {}
        /\ slips' = slips \cup Slips(t, k)
        /\ UNCHANGED <<clock, store, book, doing>>

\* What the commands put together are events.
LEMMA EventFormed ==
  ASSUME StateTyped, NEW t \in Device, NEW k \in Sales
  PROVE  /\ \A kind \in {"opened", "abandoned", "ticket_claimed", "ticket_released"} :
               Stamp(t, k, kind) \in Events
         /\ \A line \in Nat, qty \in Int :
               [at |-> clock, by |-> t, sale |-> k, kind |-> "quantity_changed",
                line |-> line, qty |-> qty] \in Events
         /\ \A line \in Nat :
               [at |-> clock, by |-> t, sale |-> k, kind |-> "line_voided", line |-> line] \in Events
         /\ \A amount \in Int :
               [at |-> clock, by |-> t, sale |-> k, kind |-> "order_discounted",
                amount |-> amount] \in Events
         /\ \A method \in Method, amount \in Int :
               [at |-> clock, by |-> t, sale |-> k, kind |-> "tender_recorded",
                method |-> method, amount |-> amount] \in Events
         /\ \A price, qty \in Int :
               [at |-> clock, by |-> t, sale |-> k, kind |-> "line_added",
                price |-> price, qty |-> qty] \in Events
         /\ \A total, change \in Int :
               [at |-> clock, by |-> t, sale |-> k, kind |-> "completed",
                total |-> total, change |-> change] \in Events
         /\ \A table \in Table :
               [at |-> clock, by |-> t, sale |-> k, kind |-> "seated", table |-> table] \in Events
         /\ \A lines \in SUBSET Nat, round \in Int :
               [at |-> clock, by |-> t, sale |-> k, kind |-> "lines_fired",
                lines |-> lines, round |-> round] \in Events
<1>1. clock \in Nat
  BY DEF StateTyped
<1> QED BY <1>1 DEF Stamp, Events, PlainEvents, LineEvents, QuantityEvents, VoidEvents,
              DiscountEvents, TenderEvents, SeatEvents, FireEvents, CompletionEvents

\* A command that reads nothing first.
LEMMA CommandMoves ==
  ASSUME NEW t \in Device, NEW e \in Events, e.at = clock, e.by = t, Command(t, e),
         e.kind \notin {"seated", "lines_fired"},
         e.kind = "opened" =>
            e.sale = Cardinality({o \in EverRecorded : o.kind = "opened"}) + 1
  PROVE  RecordsOne(t)
BY DEF Command, RecordsOne, RecordsAlone

\* A command that reads first, and has let go of the lock.
LEMMA PrepareMoves ==
  ASSUME NEW t \in Device, NEW e \in Events, e.by = t, e.kind \in Prepared, Prepares(t, e),
         e.kind = "seated" => Occupant(book[t], e.table) \in {0, e.sale}
  PROVE  PreparesOne(t)
BY DEF Prepares, PreparesOne

\* Its second half records it, or drops it.
LEMMA FinishMoves ==
  ASSUME StateTyped, NEW t \in Device, FinishCommand(t)
  PROVE  RecordsOne(t) \/ DropsCommand(t)
<1>1. ~Idle(t) /\ doing[t] \in Events /\ doing[t].by = t /\ clock \in Nat
  BY DEF StateTyped, FinishCommand, Idle
<1>2. PICK e : e = [doing[t] EXCEPT !.at = clock]
  OBVIOUS
<1>3. e \in Events /\ e.at = clock /\ e.by = t
  BY <1>1, <1>2 DEF Events, PlainEvents, LineEvents, QuantityEvents, VoidEvents,
              DiscountEvents, TenderEvents, SeatEvents, FireEvents, CompletionEvents
<1>4. CASE MayWrite(t, e) /\ BookAccepts(book[t], e)
  <2>1. Records(t, e) /\ doing' = [doing EXCEPT ![t] = Nothing] /\ UNCHANGED slips
    BY <1>2, <1>4 DEF FinishCommand
  <2> QED BY <1>1, <1>2, <1>3, <2>1 DEF RecordsOne, RecordsPrepared
<1>5. CASE ~(MayWrite(t, e) /\ BookAccepts(book[t], e))
  BY <1>1, <1>2, <1>5 DEF FinishCommand, DropsCommand
<1> QED BY <1>4, <1>5

\* A sale that a book knows is a sale.
LEMMA KnownSaleTyped ==
  ASSUME StateTyped, NEW t \in Device, NEW k \in Sales, book[t][k] # NoSale
  PROVE  book[t][k] \in KnownSales
BY DEF StateTyped, SaleSet

\* A line, new or merged into another, is prepared.
LEMMA AddLineMoves ==
  ASSUME StateTyped, NEW t \in Device, NEW k \in Sales,
         NEW price \in Price, NEW qty \in Qty, NEW options \in BOOLEAN,
         AddLine(t, k, price, qty, options)
  PROVE  PreparesOne(t)
<1> DEFINE sale == book[t][k]
<1> DEFINE same == {i \in 1 .. Len(sale.lines) :
                       IsActive(sale.lines[i]) /\ sale.lines[i].price = price /\ ~options}
<1>1. price \in Int /\ qty \in Int
  BY TicketAssumption, SMTT(60)
<1>2. sale \in KnownSales
  BY KnownSaleTyped, ZenonT(60) DEF AddLine
<1>3. CASE same = {}
  <2> DEFINE e == [at |-> clock, by |-> t, sale |-> k, kind |-> "line_added",
                   price |-> price, qty |-> qty]
  <2>1. Prepares(t, e)
    BY <1>3, ZenonT(60) DEF AddLine
  <2>2. e \in Events
    BY <1>1, EventFormed
  <2>3. e.by = t /\ e.kind = "line_added"
    OBVIOUS
  <2> HIDE DEF e
  <2> QED BY <2>1, <2>2, <2>3, PrepareMoves, SMTT(60) DEF Prepared
<1>4. CASE same # {}
  <2> DEFINE i == CHOOSE i \in same : \A j \in same : i <= j
  <2> DEFINE e == [at |-> clock, by |-> t, sale |-> k, kind |-> "quantity_changed",
                   line |-> sale.lines[i].id, qty |-> sale.lines[i].qty + qty]
  <2>1. Prepares(t, e)
    BY <1>4, ZenonT(60) DEF AddLine
  <2>2. i \in 1 .. Len(sale.lines)
    <3>1. same \in SUBSET Nat
      OBVIOUS
    <3> HIDE DEF same
    <3>2. \E m \in same : \A j \in same : m <= j
      BY <1>4, <3>1, Rebuild!LeastNumber
    <3>3. i \in same
      BY <3>2
    <3> QED BY <3>3, ZenonT(60) DEF same
  <2>3. sale.lines[i] \in LineSet
    <3> HIDE DEF i
    <3>1. sale.lines \in Seq(LineSet)
      BY <1>2 DEF KnownSales
    <3> QED BY <2>2, <3>1, ElementOfSeq
  <2>4. sale.lines[i].id \in Nat /\ sale.lines[i].qty + qty \in Int
    <3> HIDE DEF i
    <3> QED BY <1>1, <2>3 DEF LineSet
  <2>5. e \in Events
    <3> HIDE DEF i
    <3> QED BY <2>4, EventFormed
  <2>6. e.by = t /\ e.kind = "quantity_changed"
    OBVIOUS
  <2> HIDE DEF e
  <2> QED BY <2>1, <2>5, <2>6, PrepareMoves, SMTT(60) DEF Prepared
<1> QED BY <1>3, <1>4

\* The commands that record under one lock.
LEMMA RecordingMoves ==
  ASSUME StateTyped, NEW t \in Device, NEW k \in Sales
  PROVE  /\ OpenSale(t) => RecordsOne(t)
         /\ \A line \in 0 .. MaxEvents, qty \in Qty : ChangeQuantity(t, k, line, qty) => RecordsOne(t)
         /\ \A line \in 0 .. MaxEvents : VoidLine(t, k, line) => RecordsOne(t)
         /\ \A amount \in Discount : DiscountOrder(t, k, amount) => RecordsOne(t)
         /\ \A method \in Method, amount \in Tender :
               RecordTender(t, k, method, amount) => RecordsOne(t)
         /\ AbandonSale(t, k) \/ ClaimTicket(t, k) \/ ReleaseTicket(t, k) => RecordsOne(t)
<1>1. ASSUME OpenSale(t) PROVE RecordsOne(t)
  <2>1. PICK n \in Sales : /\ n = Cardinality({e \in EverRecorded : e.kind = "opened"}) + 1
                           /\ Command(t, Stamp(t, n, "opened"))
    BY <1>1 DEF OpenSale
  <2>2. Stamp(t, n, "opened") \in Events
    BY EventFormed
  <2>3. PICK e : e = Stamp(t, n, "opened")
    OBVIOUS
  <2>4. e.at = clock /\ e.by = t /\ e.sale = n /\ e.kind = "opened"
    BY <2>3 DEF Stamp
  <2> QED BY <2>1, <2>2, <2>3, <2>4, CommandMoves
<1>2. ASSUME NEW line \in 0 .. MaxEvents, NEW qty \in Qty, ChangeQuantity(t, k, line, qty)
      PROVE  RecordsOne(t)
  <2>1. PICK e : e = [at |-> clock, by |-> t, sale |-> k, kind |-> "quantity_changed",
                      line |-> line, qty |-> qty]
    OBVIOUS
  <2>2. e \in Events
    <3>1. line \in Nat /\ qty \in Int
      BY TicketAssumption
    <3> QED BY <2>1, <3>1, EventFormed
  <2>3. Command(t, e) /\ e.at = clock /\ e.by = t /\ e.kind = "quantity_changed"
    BY <1>2, <2>1 DEF ChangeQuantity
  <2> QED BY <2>2, <2>3, CommandMoves
<1>3. ASSUME NEW line \in 0 .. MaxEvents, VoidLine(t, k, line) PROVE RecordsOne(t)
  <2>1. PICK e : e = [at |-> clock, by |-> t, sale |-> k, kind |-> "line_voided", line |-> line]
    OBVIOUS
  <2>2. e \in Events
    <3>1. line \in Nat
      BY TicketAssumption
    <3> QED BY <2>1, <3>1, EventFormed
  <2>3. Command(t, e) /\ e.at = clock /\ e.by = t /\ e.kind = "line_voided"
    BY <1>3, <2>1 DEF VoidLine
  <2> QED BY <2>2, <2>3, CommandMoves
<1>4. ASSUME NEW amount \in Discount, DiscountOrder(t, k, amount) PROVE RecordsOne(t)
  <2>1. PICK e : e = [at |-> clock, by |-> t, sale |-> k, kind |-> "order_discounted",
                      amount |-> amount]
    OBVIOUS
  <2>2. e \in Events
    <3>1. amount \in Int
      BY TicketAssumption
    <3> QED BY <2>1, <3>1, EventFormed
  <2>3. Command(t, e) /\ e.at = clock /\ e.by = t /\ e.kind = "order_discounted"
    BY <1>4, <2>1 DEF DiscountOrder
  <2> QED BY <2>2, <2>3, CommandMoves
<1>5. ASSUME NEW method \in Method, NEW amount \in Tender, RecordTender(t, k, method, amount)
      PROVE  RecordsOne(t)
  <2>1. PICK e : e = [at |-> clock, by |-> t, sale |-> k, kind |-> "tender_recorded",
                      method |-> method, amount |-> amount]
    OBVIOUS
  <2>2. e \in Events
    <3>1. amount \in Int
      BY TicketAssumption
    <3> QED BY <2>1, <3>1, EventFormed
  <2>3. Command(t, e) /\ e.at = clock /\ e.by = t /\ e.kind = "tender_recorded"
    BY <1>5, <2>1 DEF RecordTender
  <2> QED BY <2>2, <2>3, CommandMoves
<1>6. ASSUME AbandonSale(t, k) \/ ClaimTicket(t, k) \/ ReleaseTicket(t, k) PROVE RecordsOne(t)
  <2>1. PICK kind \in {"abandoned", "ticket_claimed", "ticket_released"} :
            Command(t, Stamp(t, k, kind))
    BY <1>6 DEF AbandonSale, ClaimTicket, ReleaseTicket
  <2>2. PICK e : e = Stamp(t, k, kind)
    OBVIOUS
  <2>3. e \in Events /\ e.at = clock /\ e.by = t /\ e.kind = kind
    BY <2>2, EventFormed DEF Stamp
  <2> QED BY <2>1, <2>2, <2>3, CommandMoves
<1> QED BY <1>1, <1>2, <1>3, <1>4, <1>5, <1>6

\* The commands that prepare under one lock and record under the next.
LEMMA PreparingMoves ==
  ASSUME StateTyped, NEW t \in Device, NEW k \in Sales
  PROVE  /\ CompleteSale(t, k) => PreparesOne(t)
         /\ DiscardEmpty(t, k) => PreparesOne(t)
         /\ \A table \in Table : SeatSale(t, k, table) => PreparesOne(t)
<1>1. ASSUME CompleteSale(t, k) PROVE PreparesOne(t)
  <2>1. book[t][k] \in KnownSales
    BY <1>1, KnownSaleTyped DEF CompleteSale
  <2>2. Total(book[t][k]) \in Int /\ ChangeDue(book[t][k]) \in Int
    BY <2>1, SaleSums
  <2>3. PICK e : e = [at |-> clock, by |-> t, sale |-> k, kind |-> "completed",
                      total |-> Total(book[t][k]), change |-> ChangeDue(book[t][k])]
    OBVIOUS
  <2>4. e \in Events
    BY <2>2, <2>3, EventFormed
  <2>5. Prepares(t, e) /\ e.by = t /\ e.kind = "completed"
    BY <1>1, <2>3 DEF CompleteSale
  <2> QED BY <2>4, <2>5, PrepareMoves DEF Prepared
<1>2. ASSUME DiscardEmpty(t, k) PROVE PreparesOne(t)
  <2>1. PICK e : e = Stamp(t, k, "abandoned")
    OBVIOUS
  <2>2. e \in Events /\ e.by = t /\ e.kind = "abandoned"
    BY <2>1, EventFormed DEF Stamp
  <2>3. Prepares(t, e)
    BY <1>2, <2>1 DEF DiscardEmpty
  <2> QED BY <2>2, <2>3, PrepareMoves DEF Prepared
<1>3. ASSUME NEW table \in Table, SeatSale(t, k, table) PROVE PreparesOne(t)
  <2>1. PICK e : e = [at |-> clock, by |-> t, sale |-> k, kind |-> "seated", table |-> table]
    OBVIOUS
  <2>2. e \in Events
    BY <2>1, EventFormed
  <2>3. /\ Prepares(t, e) /\ e.by = t /\ e.kind = "seated" /\ e.table = table /\ e.sale = k
        /\ Occupant(book[t], table) \in {0, k}
    BY <1>3, <2>1 DEF SeatSale
  <2> QED BY <2>2, <2>3, PrepareMoves DEF Prepared
<1> QED BY <1>1, <1>2, <1>3

\* Sending to the kitchen records a round, or prints cancellations alone.
LEMMA FireMoves ==
  ASSUME StateTyped, NEW t \in Device, NEW k \in Sales, FireKitchen(t, k)
  PROVE  RecordsOne(t) \/ PrintsCancellations(t)
<1> DEFINE sale == book[t][k]
<1>1. Idle(t) /\ sale # NoSale /\ slips' = slips \cup Slips(t, k) /\ UNCHANGED doing
  BY DEF FireKitchen
<1>2. sale \in KnownSales
  BY <1>1, KnownSaleTyped
<1>3. CASE Pending(sale) = {}
  BY <1>1, <1>3 DEF FireKitchen, PrintsCancellations
<1>4. CASE Pending(sale) # {}
  <2>1. PICK e : e = [at |-> clock, by |-> t, sale |-> k, kind |-> "lines_fired",
                      lines |-> Pending(sale), round |-> sale.rounds + 1]
    OBVIOUS
  <2>2. Pending(sale) \in SUBSET Nat
    <3>1. sale.lines \in Seq(LineSet)
      BY <1>2 DEF KnownSales
    <3>2. \A i \in 1 .. Len(sale.lines) : sale.lines[i] \in LineSet
      BY <3>1, ElementOfSeq
    <3>3. \A line \in LineSet : line.id \in Nat
      BY DEF LineSet
    <3> QED BY <3>2, <3>3 DEF Pending
  <2>3. sale.rounds + 1 \in Int
    BY <1>2, SMTT(60) DEF KnownSales
  <2>4. e \in Events
    BY <2>1, <2>2, <2>3, EventFormed
  <2>5. /\ Records(t, e)
        /\ e.at = clock /\ e.by = t /\ e.sale = k /\ e.kind = "lines_fired"
        /\ e.lines = Pending(sale)
    BY <1>4, <2>1 DEF FireKitchen
  <2> QED BY <1>1, <2>4, <2>5 DEF RecordsOne, RecordsFired
<1> QED BY <1>3, <1>4

\* Whatever a till does, it is one of these.
LEMMA StepMoves ==
  ASSUME StateTyped, NEW t \in Device, Step(t)
  PROVE  \/ RecordsOne(t) \/ PreparesOne(t) \/ DropsCommand(t)
         \/ PrintsCancellations(t) \/ Learn(t) \/ Restart(t)
<1>1. CASE OpenSale(t)
  <2>1. PICK n \in Sales : TRUE
    BY <1>1 DEF OpenSale
  <2> QED BY <1>1, <2>1, RecordingMoves
<1>2. CASE FinishCommand(t)
  BY <1>2, FinishMoves
<1>3. CASE Learn(t) \/ Restart(t)
  BY <1>3
<1>4. ASSUME NEW k \in Sales, RingUp(t, k) PROVE RecordsOne(t) \/ PreparesOne(t)
  <2>1. CASE \E price \in Price, qty \in Qty, options \in BOOLEAN :
                AddLine(t, k, price, qty, options)
    BY <2>1, AddLineMoves
  <2>2. CASE ~ \E price \in Price, qty \in Qty, options \in BOOLEAN :
                  AddLine(t, k, price, qty, options)
    BY <1>4, <2>2, RecordingMoves, PreparingMoves DEF RingUp
  <2> QED BY <2>1, <2>2
<1>5. ASSUME NEW k \in Sales, Serve(t, k)
      PROVE  RecordsOne(t) \/ PreparesOne(t) \/ PrintsCancellations(t)
  BY <1>5, RecordingMoves, PreparingMoves, FireMoves DEF Serve
<1> QED BY <1>1, <1>2, <1>3, <1>4, <1>5 DEF Step

-----------------------------------------------------------------------------
(***************************************************************************)
(* The invariant about the stores: events are in order of time, one to a   *)
(* moment, kept where they were sealed, and those that open a sale are     *)
(* counted and come first.                                                 *)
(***************************************************************************)

Openings == {o \in EverRecorded : o.kind = "opened"}

InStores ==
    \A t \in Device : \A e \in Known(t) : e.at < clock /\ e \in Known(e.by)

OpeningsCounted ==
    /\ IsFiniteSet(Openings)
    /\ \A o \in Openings : o.sale \in 1 .. Cardinality(Openings)
    /\ \A o, p \in Openings : o.sale = p.sale => o = p

OpenedBefore ==
    \A e \in EverRecorded : e.kind # "opened" =>
        \E o \in EverRecorded : Opens(o, e.sale) /\ o.at < e.at

LogInv ==
    /\ StateTyped
    /\ BookIsReplay
    /\ \A t \in Device : Increasing(store[t])
    /\ InStores
    /\ OfOneMoment(EverRecorded)
    /\ OpeningsCounted
    /\ OpenedBefore

\* What a till knows are events.
LEMMA KnownTyped ==
  ASSUME StateTyped, NEW t \in Device
  PROVE  /\ Known(t) \in SUBSET Events
         /\ \A e \in Known(t) : e.at \in Nat /\ e.by \in Device /\ e.sale \in Sales
BY RangeOfSeq, EventFields DEF StateTyped, Known

\* What was ever recorded are past events, and all that any till knows.
LEMMA EverRecordedTyped ==
  ASSUME StateTyped
  PROVE  /\ EverRecorded \in SUBSET Events
         /\ \A e \in EverRecorded : e.at \in Nat /\ e.by \in Device /\ e.sale \in Sales
         /\ \A t \in Device : Own(t) \in SUBSET EverRecorded
         /\ InStores => \A t \in Device : Known(t) \in SUBSET EverRecorded
         /\ InStores => \A e \in EverRecorded : e.at < clock
<1>1. \A t \in Device : /\ Known(t) \in SUBSET Events
                        /\ \A e \in Known(t) : e.at \in Nat /\ e.by \in Device /\ e.sale \in Sales
  BY KnownTyped
<1>2. EverRecorded = {e \in UNION {Known(t) : t \in Device} : e \in Known(e.by)}
  BY <1>1 DEF EverRecorded, Own
<1>3. \A t \in Device : Own(t) \in SUBSET EverRecorded
  BY DEF EverRecorded
<1>4. ASSUME InStores PROVE \A t \in Device : Known(t) \in SUBSET EverRecorded
  BY <1>2, <1>4 DEF InStores
<1>5. ASSUME InStores PROVE \A e \in EverRecorded : e.at < clock
  BY <1>2, <1>5 DEF InStores
<1> QED BY <1>1, <1>2, <1>3, <1>4, <1>5

\* What recording an event changes.
LEMMA RecordsEffect ==
  ASSUME LogInv, NEW t \in Device, NEW e \in Events, e.at = clock, e.by = t, Records(t, e)
  PROVE  /\ clock' = clock + 1
         /\ store' \in [Device -> Seq(Events)]
         /\ book' \in [Device -> [Sales -> SaleSet]]
         /\ \A u \in Device : Increasing(store'[u]) /\ book'[u] = Replay(store'[u])
         /\ \A u \in Device : Known(u)' = IF u = t THEN Known(u) \cup {e} ELSE Known(u)
         /\ \A u \in Device : Own(u)' = IF u = t THEN Own(u) \cup {e} ELSE Own(u)
         /\ EverRecorded' = EverRecorded \cup {e}
         /\ e \notin EverRecorded
         /\ Takes(book[t][e.sale], e) /\ BookAccepts(book[t], e)
         /\ \A u \in Device : u # t => book'[u] = book[u]
         /\ \A k \in Sales :
               book'[t][k] = IF e.sale = k THEN SaleStep(book[t][k], e) ELSE book[t][k]
<1>1. /\ store' = [store EXCEPT ![t] = Append(store[t], e)]
      /\ book' = [book EXCEPT ![t] = BookApply(book[t], e)]
      /\ clock' = clock + 1
      /\ BookAccepts(book[t], e)
  BY DEF Records
<1>2. /\ store \in [Device -> Seq(Events)] /\ book \in [Device -> [Sales -> SaleSet]]
      /\ clock \in Nat
      /\ \A u \in Device : Increasing(store[u]) /\ book[u] = Replay(store[u])
      /\ \A u \in Device : \A f \in Known(u) : f.at < clock /\ f \in Known(f.by)
  BY DEF LogInv, StateTyped, BookIsReplay, InStores
<1>3. /\ store'[t] = Append(store[t], e) /\ \A u \in Device : u # t => store'[u] = store[u]
      /\ store' \in [Device -> Seq(Events)]
  BY <1>1, <1>2, AppendProperties
<1>4. Replay(Append(store[t], e)) = BookApply(book[t], e)
  <2>1. Replay(Append(store[t], e)) = ApplyOrSkip(Replay(store[t]), e)
    BY <1>2, ReplayAppend
  <2> QED BY <1>1, <1>2, <2>1, BookStep
<1>5. /\ book' \in [Device -> [Sales -> SaleSet]]
      /\ \A u \in Device : book'[u] = Replay(store'[u])
      /\ \A u \in Device : u # t => book'[u] = book[u]
  <2>1. Append(store[t], e) \in Seq(Events)
    BY <1>2, AppendProperties
  <2>2. BookApply(book[t], e) \in [Sales -> SaleSet]
    BY <1>4, <2>1, ReplayTyped
  <2>3. book'[t] = BookApply(book[t], e) /\ \A u \in Device : u # t => book'[u] = book[u]
    BY <1>1, <1>2
  <2>4. book' \in [Device -> [Sales -> SaleSet]]
    BY <1>1, <1>2, <2>2
  <2>5. \A u \in Device : book'[u] = Replay(store'[u])
    BY <1>2, <1>3, <1>4, <2>3
  <2> QED BY <2>3, <2>4, <2>5
<1>6. \A u \in Device : Increasing(store'[u])
  <2>1. Increasing(Append(store[t], e))
    BY <1>2, IncreasingAppend DEF Known
  <2> QED BY <1>2, <1>3, <2>1
<1>7. \A u \in Device : Known(u)' = IF u = t THEN Known(u) \cup {e} ELSE Known(u)
  <2>1. Range(Append(store[t], e)) = Range(store[t]) \cup {e}
    BY <1>2, RangeAppend
  <2> QED BY <1>3, <2>1 DEF Known
<1>8. \A u \in Device : Own(u)' = IF u = t THEN Own(u) \cup {e} ELSE Own(u)
  BY <1>7 DEF Own
<1>9. EverRecorded' = EverRecorded \cup {e}
  BY <1>8 DEF EverRecorded
<1>10. e \notin EverRecorded
  <2>1. \A f \in EverRecorded : f.at < clock
    BY EverRecordedTyped DEF LogInv
  <2> QED BY <1>2, <2>1
<1>11. Takes(book[t][e.sale], e)
  BY <1>1, <1>2, BookStep
<1>12. \A k \in Sales :
          book'[t][k] = IF e.sale = k THEN SaleStep(book[t][k], e) ELSE book[t][k]
  <2>1. /\ book'[t] = Replay(Append(store[t], e)) /\ book[t] = Replay(store[t])
        /\ store[t] \in Seq(Events)
    BY <1>2, <1>3, <1>5
  <2> QED BY <2>1, ReplayStep
<1> QED BY <1>1, <1>3, <1>5, <1>6, <1>7, <1>8, <1>9, <1>10, <1>11, <1>12

\* What learning changes: a sibling's own events are put among the others.
LEMMA LearnEffect ==
  ASSUME LogInv, NEW t \in Device, Learn(t)
  PROVE  \E s \in Device \ {t} : \E news \in SUBSET Own(s) :
         /\ store' \in [Device -> Seq(Events)]
         /\ book' \in [Device -> [Sales -> SaleSet]]
         /\ \A u \in Device : Increasing(store'[u]) /\ book'[u] = Replay(store'[u])
         /\ \A u \in Device : Known(u)' = IF u = t THEN Known(u) \cup news ELSE Known(u)
         /\ \A u \in Device : Own(u)' = Own(u)
         /\ EverRecorded' = EverRecorded
         /\ \A u \in Device : u # t => book'[u] = book[u]
         /\ UNCHANGED <<clock, doing, slips>>
<1>0. PICK s \in Device \ {t} : \E news \in Learnable(t, s) :
          /\ store' = [store EXCEPT ![t] = Merged(store[t], news)]
          /\ book' = [book EXCEPT ![t] = Replay(store'[t])]
          /\ UNCHANGED <<clock, doing, slips>>
  BY DEF Learn
<1>1. PICK news \in Learnable(t, s) :
          /\ store' = [store EXCEPT ![t] = Merged(store[t], news)]
          /\ book' = [book EXCEPT ![t] = Replay(store'[t])]
          /\ UNCHANGED <<clock, doing, slips>>
  BY <1>0
<1>2. news \in SUBSET Own(s)
  BY DEF Learnable
<1>3. /\ StateTyped /\ InStores /\ OfOneMoment(EverRecorded)
      /\ store \in [Device -> Seq(Events)] /\ book \in [Device -> [Sales -> SaleSet]]
      /\ \A u \in Device : Increasing(store[u]) /\ book[u] = Replay(store[u])
  BY DEF LogInv, StateTyped, BookIsReplay
<1>4. /\ Known(t) \cup news \in SUBSET EverRecorded
      /\ EverRecorded \in SUBSET Events
  BY <1>2, <1>3, EverRecordedTyped
<1>5. IsFiniteSet(Known(t) \cup news)
  <2>1. IsFiniteSet(Known(t)) /\ IsFiniteSet(Known(s))
    BY <1>3, RangeOfIncreasing DEF Known
  <2>2. news \in SUBSET Known(s)
    BY <1>2 DEF Own
  <2>3. IsFiniteSet(news)
    BY <2>1, <2>2, FS_Subset
  <2> QED BY <2>1, <2>3, FS_Union
<1>6. /\ Merged(store[t], news) \in Seq(Events)
      /\ Range(Merged(store[t], news)) = Known(t) \cup news
      /\ Increasing(Merged(store[t], news))
  <2>1. OfOneMoment(Known(t) \cup news)
    BY <1>3, <1>4 DEF OfOneMoment
  <2>2. Known(t) \cup news \in SUBSET Events
    BY <1>4
  <2>3. Merged(store[t], news) = InOrder(Known(t) \cup news)
    BY DEF Merged, Known
  <2> QED BY <1>5, <2>1, <2>2, <2>3, InOrderSorts
<1>7. /\ store'[t] = Merged(store[t], news) /\ \A u \in Device : u # t => store'[u] = store[u]
      /\ store' \in [Device -> Seq(Events)]
  BY <1>1, <1>3, <1>6
<1>8. /\ \A u \in Device : book'[u] = Replay(store'[u])
      /\ \A u \in Device : u # t => book'[u] = book[u]
      /\ book' \in [Device -> [Sales -> SaleSet]]
  BY <1>1, <1>3, <1>7, ReplayTyped
<1>9. \A u \in Device : Increasing(store'[u])
  BY <1>3, <1>6, <1>7
<1>10. \A u \in Device : Known(u)' = IF u = t THEN Known(u) \cup news ELSE Known(u)
  BY <1>6, <1>7 DEF Known
<1>11. \A u \in Device : Own(u)' = Own(u)
  <2>1. \A f \in news : f.by # t
    BY <1>2 DEF Own
  <2> QED BY <1>10, <2>1 DEF Own
<1>12. EverRecorded' = EverRecorded
  BY <1>11 DEF EverRecorded
<1> QED BY <1>1, <1>2, <1>7, <1>8, <1>9, <1>10, <1>11, <1>12

\* A ticket a till knows was opened by an event it has.
LEMMA KnownIsOpened ==
  ASSUME LogInv, NEW t \in Device, NEW k \in Sales
  PROVE  book[t][k] # NoSale <=> \E o \in Known(t) : Opens(o, k)
<1>1. store[t] \in Seq(Events) /\ book[t] = Replay(store[t])
  BY DEF LogInv, StateTyped, BookIsReplay
<1> QED BY <1>1, ReplayKnows DEF Known

\* Nothing is recorded yet.
LEMMA LogInit == Init => LogInv
<1> SUFFICES ASSUME Init PROVE LogInv
  OBVIOUS
<1>1. /\ clock = 0
      /\ store = [t \in Device |-> <<>>]
      /\ book = [t \in Device |-> EmptyBook]
      /\ doing = [t \in Device |-> Nothing]
  BY DEF Init
<1>2. StateTyped
  <2>1. EmptyBook \in [Sales -> SaleSet]
    BY DEF EmptyBook, SaleSet
  <2>2. store \in [Device -> Seq(Events)]
    BY <1>1, EmptySeq
  <2>3. book \in [Device -> [Sales -> SaleSet]]
    BY <1>1, <2>1
  <2> QED BY <1>1, <2>2, <2>3 DEF StateTyped, Idle
<1>3. BookIsReplay
  BY <1>1, ReplayEmpty DEF BookIsReplay
<1>4. \A t \in Device : Increasing(store[t])
  BY <1>1 DEF Increasing
<1>5. \A t \in Device : Known(t) = {}
  BY <1>1, RangeEmpty DEF Known
<1>6. EverRecorded = {}
  BY <1>5 DEF EverRecorded, Own
<1>7. OpeningsCounted
  <2>1. Openings = {}
    BY <1>6 DEF Openings
  <2> QED BY <2>1, FS_EmptySet DEF OpeningsCounted
<1> QED BY <1>2, <1>3, <1>4, <1>5, <1>6, <1>7 DEF LogInv, InStores, OfOneMoment, OpenedBefore

\* A recording keeps every store sound.
LEMMA LogRecords ==
  ASSUME LogInv, NEW t \in Device, RecordsOne(t)
  PROVE  LogInv'
<1>1. PICK e \in Events :
          /\ e.at = clock /\ e.by = t /\ Records(t, e)
          /\ RecordsAlone(t, e) \/ RecordsPrepared(t, e) \/ RecordsFired(t, e)
  BY DEF RecordsOne
<1>2. /\ clock' = clock + 1
      /\ store' \in [Device -> Seq(Events)]
      /\ book' \in [Device -> [Sales -> SaleSet]]
      /\ \A u \in Device : Increasing(store'[u]) /\ book'[u] = Replay(store'[u])
      /\ \A u \in Device : Known(u)' = IF u = t THEN Known(u) \cup {e} ELSE Known(u)
      /\ EverRecorded' = EverRecorded \cup {e}
      /\ e \notin EverRecorded
      /\ Takes(book[t][e.sale], e)
  BY <1>1, RecordsEffect
<1>3. StateTyped /\ InStores /\ OfOneMoment(EverRecorded) /\ OpeningsCounted /\ OpenedBefore
  BY DEF LogInv
<1>4. clock \in Nat /\ doing \in [Device -> Events \cup {Nothing}]
  BY <1>3 DEF StateTyped
<1>5. e.sale \in Sales /\ e.by \in Device /\ e.at \in Nat
  BY EventFields
<1>6. StateTyped'
  <2>1. doing' = doing \/ doing' = [doing EXCEPT ![t] = Nothing]
    BY <1>1 DEF RecordsAlone, RecordsPrepared, RecordsFired
  <2>2. doing' \in [Device -> Events \cup {Nothing}]
    BY <1>4, <2>1
  <2>3. \A u \in Device : doing'[u] # Nothing => doing'[u] = doing[u]
    BY <1>4, <2>1
  <2>4. \A u \in Device : doing'[u] # Nothing => doing'[u].by = u /\ doing'[u].kind \in Prepared
    BY <1>3, <2>3 DEF StateTyped, Idle
  <2> QED BY <1>2, <1>4, <2>2, <2>4 DEF StateTyped, Idle
<1>7. BookIsReplay' /\ (\A u \in Device : Increasing(store[u]))'
  BY <1>2 DEF BookIsReplay
<1>8. InStores'
  <2>1. ASSUME NEW u \in Device, NEW f \in Known(u)'
        PROVE  f.at < clock' /\ f \in Known(f.by)'
    <3>1. CASE f \in Known(u)
      <4>1. f.at < clock /\ f \in Known(f.by) /\ f.at \in Nat /\ f.by \in Device
        BY <1>3, <3>1, KnownTyped DEF InStores
      <4>2. f.at < clock'
        BY <1>2, <1>4, <4>1
      <4> QED BY <1>2, <4>1, <4>2
    <3>2. CASE u = t /\ f = e
      BY <1>1, <1>2, <1>4, <3>2
    <3> QED BY <1>2, <2>1, <3>1, <3>2
  <2> QED BY <2>1 DEF InStores
<1>9. OfOneMoment(EverRecorded)'
  <2>1. \A f \in EverRecorded : f.at < clock /\ f.at \in Nat
    BY <1>3, EverRecordedTyped
  <2>2. \A f \in EverRecorded : f.at # e.at
    BY <1>1, <1>4, <2>1
  <2>3. OfOneMoment(EverRecorded \cup {e})
    BY <1>3, <2>2 DEF OfOneMoment
  <2> QED BY <1>2, <2>3
<1>10. OpeningsCounted'
  <2>1. CASE e.kind # "opened"
    <3>1. Openings' = Openings
      BY <1>2, <2>1 DEF Openings
    <3> QED BY <1>3, <3>1 DEF OpeningsCounted
  <2>2. CASE e.kind = "opened"
    <3>1. e.sale = Cardinality(Openings) + 1
      <4>1. ~RecordsPrepared(t, e)
        <5>1. ASSUME RecordsPrepared(t, e) PROVE FALSE
          <6>1. doing[t] \in Events /\ doing[t].kind \in Prepared
            BY <1>3, <1>4, <5>1 DEF RecordsPrepared, StateTyped, Idle
          <6>2. e.kind = doing[t].kind
            BY <5>1, <6>1 DEF RecordsPrepared, Events, PlainEvents, LineEvents, QuantityEvents,
                  VoidEvents, DiscountEvents, TenderEvents, SeatEvents, FireEvents,
                  CompletionEvents
          <6> QED BY <2>2, <6>1, <6>2 DEF Prepared
        <5> QED BY <5>1
      <4>2. RecordsAlone(t, e)
        BY <1>1, <2>2, <4>1 DEF RecordsFired
      <4> QED BY <2>2, <4>2 DEF RecordsAlone, Openings
    <3>2. Openings' = Openings \cup {e} /\ e \notin Openings
      BY <1>2, <2>2 DEF Openings
    <3>3. /\ IsFiniteSet(Openings \cup {e})
          /\ Cardinality(Openings \cup {e}) = Cardinality(Openings) + 1
          /\ Cardinality(Openings) \in Nat
      BY <1>3, <3>2, FS_AddElement, FS_CardinalityType DEF OpeningsCounted
    <3>4. \A o \in Openings : o.sale \in 1 .. Cardinality(Openings)
      BY <1>3 DEF OpeningsCounted
    <3>5. \A o \in Openings \cup {e} : o.sale \in 1 .. Cardinality(Openings) + 1
      BY <3>1, <3>3, <3>4
    <3>6. \A o \in Openings : o.sale # e.sale
      BY <3>1, <3>3, <3>4
    <3>7. \A o, p \in Openings \cup {e} : o.sale = p.sale => o = p
      BY <1>3, <3>6 DEF OpeningsCounted
    <3> QED BY <3>2, <3>3, <3>5, <3>7 DEF OpeningsCounted
  <2> QED BY <2>1, <2>2
<1>11. OpenedBefore'
  <2>1. ASSUME NEW f \in EverRecorded \cup {e}, f.kind # "opened"
        PROVE  \E o \in EverRecorded \cup {e} : Opens(o, f.sale) /\ o.at < f.at
    <3>1. CASE f \in EverRecorded
      BY <1>3, <2>1, <3>1 DEF OpenedBefore
    <3>2. CASE f = e
      <4>1. book[t][e.sale] # NoSale
        BY <1>2, <2>1, <3>2 DEF Takes
      <4>2. PICK o \in Known(t) : Opens(o, e.sale)
        BY <1>5, <4>1, KnownIsOpened
      <4>3. o \in EverRecorded /\ o.at < clock
        BY <1>3, EverRecordedTyped DEF InStores
      <4> QED BY <1>1, <3>2, <4>2, <4>3
    <3> QED BY <2>1, <3>1, <3>2
  <2> QED BY <1>2, <2>1 DEF OpenedBefore
<1> QED BY <1>6, <1>7, <1>8, <1>9, <1>10, <1>11 DEF LogInv

\* Learning from a sibling keeps every store sound.
LEMMA LogLearns ==
  ASSUME LogInv, NEW t \in Device, Learn(t)
  PROVE  LogInv'
<1>1. PICK s \in Device \ {t} : \E news \in SUBSET Own(s) :
         /\ store' \in [Device -> Seq(Events)]
         /\ book' \in [Device -> [Sales -> SaleSet]]
         /\ \A u \in Device : Increasing(store'[u]) /\ book'[u] = Replay(store'[u])
         /\ \A u \in Device : Known(u)' = IF u = t THEN Known(u) \cup news ELSE Known(u)
         /\ EverRecorded' = EverRecorded
         /\ UNCHANGED <<clock, doing, slips>>
  BY LearnEffect
<1>2. PICK news \in SUBSET Own(s) :
         /\ store' \in [Device -> Seq(Events)]
         /\ book' \in [Device -> [Sales -> SaleSet]]
         /\ \A u \in Device : Increasing(store'[u]) /\ book'[u] = Replay(store'[u])
         /\ \A u \in Device : Known(u)' = IF u = t THEN Known(u) \cup news ELSE Known(u)
         /\ EverRecorded' = EverRecorded
         /\ UNCHANGED <<clock, doing, slips>>
  BY <1>1
<1>3. StateTyped /\ InStores /\ OfOneMoment(EverRecorded) /\ OpeningsCounted /\ OpenedBefore
  BY DEF LogInv
<1>4. StateTyped'
  BY <1>2, <1>3 DEF StateTyped, Idle
<1>5. InStores'
  <2>1. \A f \in news : f \in Known(s) /\ f.by = s
    BY <1>2 DEF Own
  <2>2. ASSUME NEW u \in Device, NEW f \in Known(u)'
        PROVE  f.at < clock' /\ f \in Known(f.by)'
    <3>1. f \in Known(u) \/ f \in Known(s)
      BY <1>2, <2>1, <2>2
    <3>2. f.at < clock /\ f \in Known(f.by) /\ f.by \in Device
      BY <1>1, <1>3, <3>1, KnownTyped DEF InStores
    <3> QED BY <1>2, <3>2
  <2> QED BY <2>2 DEF InStores
<1>6. OfOneMoment(EverRecorded)' /\ OpeningsCounted' /\ OpenedBefore'
  <2>1. Openings' = Openings
    BY <1>2 DEF Openings
  <2> QED BY <1>2, <1>3, <2>1 DEF OpeningsCounted, OpenedBefore
<1>7. BookIsReplay' /\ (\A u \in Device : Increasing(store[u]))'
  BY <1>2 DEF BookIsReplay
<1> QED BY <1>4, <1>5, <1>6, <1>7 DEF LogInv

\* A step that leaves the stores alone, and the books a replay of them.
LEMMA LogKept ==
  ASSUME LogInv, UNCHANGED <<clock, store>>, book' = book,
         doing' \in [Device -> Events \cup {Nothing}],
         \A t \in Device : doing'[t] # Nothing =>
             doing'[t] = doing[t] \/ (doing'[t].by = t /\ doing'[t].kind \in Prepared)
  PROVE  LogInv'
<1>1. StateTyped'
  BY DEF LogInv, StateTyped, Idle
<1>2. BookIsReplay' /\ (\A u \in Device : Increasing(store[u]))'
  BY DEF LogInv, BookIsReplay
<1>3. \A u \in Device : Known(u)' = Known(u)
  BY DEF Known
<1>4. EverRecorded' = EverRecorded
  BY <1>3 DEF EverRecorded, Own
<1>5. InStores'
  <2>1. ASSUME NEW u \in Device, NEW f \in Known(u) PROVE f \in Known(f.by) /\ f.by \in Device
    BY <2>1, KnownTyped DEF LogInv, InStores
  <2> QED BY <1>3, <2>1 DEF LogInv, InStores
<1>6. OfOneMoment(EverRecorded)' /\ OpeningsCounted' /\ OpenedBefore'
  <2>1. Openings' = Openings
    BY <1>4 DEF Openings
  <2> QED BY <1>4, <2>1 DEF LogInv, OpeningsCounted, OpenedBefore
<1> QED BY <1>1, <1>2, <1>5, <1>6 DEF LogInv

\* Starting again rebuilds the book there was.
LEMMA RestartKeepsBook ==
  ASSUME LogInv, NEW t \in Device, Restart(t)
  PROVE  book' = book /\ DropsCommand(t)
<1>1. book \in [Device -> [Sales -> SaleSet]] /\ book[t] = Replay(store[t])
  BY DEF LogInv, StateTyped, BookIsReplay
<1>2. book' = [book EXCEPT ![t] = book[t]]
  BY <1>1 DEF Restart
<1>3. book' = book
  BY <1>1, <1>2
<1> QED BY <1>3 DEF Restart, DropsCommand

\* Every step keeps every store sound.
LEMMA LogStep ==
  ASSUME LogInv, [Next]_vars
  PROVE  LogInv'
<1>1. CASE UNCHANGED vars
  <2>1. UNCHANGED <<clock, store>> /\ book' = book /\ doing' = doing
    BY <1>1 DEF vars
  <2>2. doing \in [Device -> Events \cup {Nothing}]
    BY DEF LogInv, StateTyped
  <2> QED BY <2>1, <2>2, LogKept
<1>2. ASSUME NEW t \in Device, Step(t) PROVE LogInv'
  <2>1. StateTyped /\ doing \in [Device -> Events \cup {Nothing}]
    BY DEF LogInv, StateTyped
  <2>2. CASE RecordsOne(t)
    BY <2>2, LogRecords
  <2>3. CASE PreparesOne(t)
    <3>1. PICK e \in Events : /\ e.by = t /\ e.kind \in Prepared
                              /\ doing' = [doing EXCEPT ![t] = e]
                              /\ UNCHANGED <<clock, store, book>>
      BY <2>3 DEF PreparesOne
    <3>2. doing' \in [Device -> Events \cup {Nothing}]
      BY <2>1, <3>1
    <3>3. \A u \in Device : doing'[u] = doing[u] \/ (doing'[u].by = u /\ doing'[u].kind \in Prepared)
      BY <2>1, <3>1
    <3> QED BY <3>1, <3>2, <3>3, LogKept
  <2>4. CASE DropsCommand(t)
    <3>1. /\ doing' = [doing EXCEPT ![t] = Nothing]
          /\ UNCHANGED <<clock, store, book>>
      BY <2>4 DEF DropsCommand
    <3>2. doing' \in [Device -> Events \cup {Nothing}]
      BY <2>1, <3>1
    <3>3. \A u \in Device : doing'[u] # Nothing => doing'[u] = doing[u]
      BY <2>1, <3>1
    <3> QED BY <3>1, <3>2, <3>3, LogKept
  <2>5. CASE PrintsCancellations(t)
    <3>1. UNCHANGED <<clock, store, book, doing>>
      BY <2>5 DEF PrintsCancellations
    <3> QED BY <2>1, <3>1, LogKept
  <2>6. CASE Learn(t)
    BY <2>6, LogLearns
  <2>7. CASE Restart(t)
    BY <2>4, <2>7, RestartKeepsBook
  <2> QED BY <1>2, <2>1, <2>2, <2>3, <2>4, <2>5, <2>6, <2>7, StepMoves
<1> QED BY <1>1, <1>2 DEF Next

\* The stores of every till are sound: in order, their own writers' events, each
\* ticket opened once and before anything else was done to it (Terminal::record
\* and Terminal::sync).
THEOREM StoresAreSound == Spec => []LogInv
<1>1. Spec => Init /\ [][Next]_vars
  BY DEF Spec
<1> QED BY <1>1, LogInit, LogStep, PTL

\* The book in memory is a replay of the disk: the incremental apply of
\* Terminal::record and the rebuild of Terminal::sync and Terminal::load agree.
THEOREM BookIsAReplay == Spec => []BookIsReplay
<1>1. LogInv => BookIsReplay
  BY DEF LogInv
<1> QED BY <1>1, StoresAreSound, PTL

\* A completed sale was settled for what its lines come to (Sale::apply
\* recomputes a completion), on every till and after any rebuild.
THEOREM CompletedIsPriced == Spec => []SettledIsPriced
<1>1. LogInv => SettledIsPriced
  <2> SUFFICES ASSUME LogInv, NEW t \in Device, NEW k \in Sales, book[t][k].status = "completed"
               PROVE  /\ book[t][k].settled = Total(book[t][k])
                      /\ book[t][k].change >= 0
                      /\ Tendered(book[t][k]) - book[t][k].change = book[t][k].settled
    BY DEF SettledIsPriced
  <2>1. store[t] \in Seq(Events) /\ book[t] = Replay(store[t])
    BY DEF LogInv, StateTyped, BookIsReplay
  <2>2. Priced(book[t][k])
    BY <2>1, ReplayPriced
  <2> QED BY <2>2 DEF Priced
<1> QED BY <1>1, StoresAreSound, PTL

-----------------------------------------------------------------------------
(***************************************************************************)
(* Claims.                                                                 *)
(***************************************************************************)

\* A till that knows of a ticket was told first that it was opened.
LEMMA StoreOpensFirst ==
  ASSUME LogInv, NEW t \in Device, NEW k \in Sales, book[t][k] # NoSale
  PROVE  OpenedFirst(store[t], k)
<1>1. PICK o \in Known(t) : Opens(o, k)
  BY KnownIsOpened
<1>2. Known(t) \in SUBSET EverRecorded /\ InStores
  BY EverRecordedTyped DEF LogInv
<1> SUFFICES ASSUME NEW f \in Range(store[t]), f.sale = k, f.kind # "opened"
             PROVE  \E p \in Range(store[t]) : Opens(p, k) /\ p.at < f.at
  BY DEF OpenedFirst
<1>3. f \in EverRecorded
  BY <1>2 DEF Known
<1>4. PICK p \in EverRecorded : Opens(p, k) /\ p.at < f.at
  BY <1>3 DEF LogInv, OpenedBefore
<1>5. o \in Openings /\ p \in Openings /\ o.sale = p.sale
  BY <1>1, <1>2, <1>4 DEF Openings, Opens
<1>6. o = p
  BY <1>5 DEF LogInv, OpeningsCounted
<1> QED BY <1>1, <1>4, <1>6 DEF Known

\* The first claim on an open ticket holds it, wherever it is known
\* (SaleBook and the lease's resolve_contest, over every order of arrival).
THEOREM FirstClaimWins == Spec => []FirstClaimHolds
<1>1. LogInv => FirstClaimHolds
  <2> SUFFICES ASSUME LogInv, NEW t \in Device, NEW k \in OpenSales(book[t]), ~ReleasedEver(t, k),
                      NEW first \in ClaimsOn(t, k), \A e \in ClaimsOn(t, k) : first.at <= e.at
               PROVE  book[t][k].lease.holder = first.by
    BY DEF FirstClaimHolds
  <2>1. store[t] \in Seq(Events) /\ book[t] = Replay(store[t]) /\ Increasing(store[t])
    BY DEF LogInv, StateTyped, BookIsReplay
  <2>2. k \in Sales /\ book[t][k].status = "open" /\ book[t][k] # NoSale
    BY NoSaleUnknown DEF OpenSales
  <2>3. OpenedFirst(store[t], k)
    BY <2>2, StoreOpensFirst
  <2>4. Unreleased(store[t], k) /\ ClaimsIn(store[t], k) = ClaimsOn(t, k)
    BY DEF Unreleased, ReleasedEver, ClaimsIn, ClaimsOn, Known
  <2>5. ClaimKept(store[t], k)
    BY <2>1, <2>2, ReplayClaims
  <2> QED BY <2>1, <2>2, <2>3, <2>4, <2>5 DEF ClaimKept
<1> QED BY <1>1, StoresAreSound, PTL

-----------------------------------------------------------------------------
(***************************************************************************)
(* The kitchen.                                                            *)
(***************************************************************************)

SlipSet == [by : Device, at : Nat, kind : {"order", "cancellation"}, line : Nat]

\* An order on paper is in a round the till recorded as sent.
OrdersRecorded ==
    \A s \in slips : s.kind = "order" =>
        \E f \in Own(s.by) : f.kind = "lines_fired" /\ f.at = s.at /\ s.line \in f.lines

\* What is sent was ordered, on the same ticket.
FiredWereAdded ==
    \A f \in EverRecorded : f.kind = "lines_fired" =>
        \A id \in f.lines :
            \E a \in EverRecorded : a.kind = "line_added" /\ a.sale = f.sale /\ a.at = id

\* No two rounds of a till have a line in common.
RoundsApart ==
    \A t \in Device : \A f, g \in Own(t) :
        (f.kind = "lines_fired" /\ g.kind = "lines_fired" /\ f.lines \cap g.lines # {}) => f = g

KitchenInv ==
    /\ slips \in SUBSET SlipSet
    /\ OrdersRecorded
    /\ FiredWereAdded
    /\ RoundsApart

\* Rounds that have no line in common put no line on two orders.
LEMMA KitchenEnough ==
  ASSUME KitchenInv, StateTyped
  PROVE  KitchenOnce
<1> SUFFICES ASSUME NEW s1 \in slips, NEW s2 \in slips, s1.kind = "order", s2.kind = "order",
                    s1.by = s2.by, s1.line = s2.line
             PROVE  s1 = s2
  BY DEF KitchenOnce
<1>1. s1 \in SlipSet /\ s2 \in SlipSet
  BY DEF KitchenInv
<1>2. PICK f \in Own(s1.by) : f.kind = "lines_fired" /\ f.at = s1.at /\ s1.line \in f.lines
  BY DEF KitchenInv, OrdersRecorded
<1>3. PICK g \in Own(s1.by) : g.kind = "lines_fired" /\ g.at = s2.at /\ s1.line \in g.lines
  BY DEF KitchenInv, OrdersRecorded
<1>4. s1.by \in Device
  BY <1>1 DEF SlipSet
<1>5. f = g
  BY <1>2, <1>3, <1>4 DEF KitchenInv, RoundsApart
<1> QED BY <1>1, <1>2, <1>3, <1>5 DEF SlipSet

\* What is printed when a ticket is sent to the kitchen.
LEMMA SlipsPrinted ==
  ASSUME StateTyped, NEW t \in Device, NEW k \in Sales, book[t][k] # NoSale
  PROVE  /\ Slips(t, k) \in SUBSET SlipSet
         /\ \A s \in Slips(t, k) : s.by = t /\ s.at = clock
         /\ \A s \in Slips(t, k) : s.kind = "order" => s.line \in Pending(book[t][k])
         /\ Pending(book[t][k]) \in SUBSET LineIds(book[t][k])
         /\ LineIds(book[t][k]) \in SUBSET Nat
         /\ Pending(book[t][k]) \cap book[t][k].fired = {}
<1>1. book[t][k] \in KnownSales
  BY KnownSaleTyped
<1>2. book[t][k].lines \in Seq(LineSet)
  BY <1>1 DEF KnownSales
<1>3. \A i \in 1 .. Len(book[t][k].lines) : book[t][k].lines[i] \in LineSet
  BY <1>2, ElementOfSeq
<1>4. \A i \in 1 .. Len(book[t][k].lines) : book[t][k].lines[i].id \in Nat
  BY <1>3 DEF LineSet
<1>5. LineIds(book[t][k]) \in SUBSET Nat
  BY <1>4 DEF LineIds
<1>6. /\ Pending(book[t][k]) \in SUBSET LineIds(book[t][k])
      /\ Cancellations(book[t][k]) \in SUBSET LineIds(book[t][k])
  BY DEF Pending, Cancellations, LineIds
<1>7. Pending(book[t][k]) \cap book[t][k].fired = {}
  BY DEF Pending
<1>8. clock \in Nat
  BY DEF StateTyped
<1>9. \A s \in Slips(t, k) :
         \/ \E line \in Pending(book[t][k]) :
               s = [by |-> t, at |-> clock, kind |-> "order", line |-> line]
         \/ \E line \in Cancellations(book[t][k]) :
               s = [by |-> t, at |-> clock, kind |-> "cancellation", line |-> line]
  BY DEF Slips
<1> QED BY <1>5, <1>6, <1>7, <1>8, <1>9 DEF SlipSet

\* A new round has none of the lines sent before.
LEMMA KitchenFires ==
  ASSUME LogInv, KitchenInv, NEW t \in Device, NEW e \in Events, e.at = clock, e.by = t,
         Records(t, e), RecordsFired(t, e)
  PROVE  KitchenInv'
<1> DEFINE k == e.sale
<1>1. StateTyped /\ k \in Sales /\ e.lines = Pending(book[t][k]) /\ book[t][k] # NoSale
  BY EventFields DEF LogInv, RecordsFired
<1>2. e.kind = "lines_fired" /\ slips' = slips \cup Slips(t, k)
  BY DEF RecordsFired
<1> DEFINE sale == book[t][k]
<1>3. /\ Slips(t, k) \in SUBSET SlipSet
      /\ \A s \in Slips(t, k) : s.by = t /\ s.at = clock
      /\ \A s \in Slips(t, k) : s.kind = "order" => s.line \in e.lines
      /\ e.lines \in SUBSET LineIds(sale)
      /\ e.lines \cap sale.fired = {}
  BY <1>1, SlipsPrinted
<1>4. /\ EverRecorded' = EverRecorded \cup {e}
      /\ \A u \in Device : Own(u)' = IF u = t THEN Own(u) \cup {e} ELSE Own(u)
      /\ e \notin EverRecorded
      /\ Takes(sale, e)
  BY RecordsEffect
<1>5. store[t] \in Seq(Events) /\ sale = Replay(store[t])[k] /\ Increasing(store[t])
  BY <1>1 DEF LogInv, StateTyped, BookIsReplay
<1>6. \A id \in e.lines :
         \E a \in Known(t) : a.kind = "line_added" /\ a.sale = k /\ a.at = id
  <2>1. LinesAdded(store[t], k)
    BY <1>1, <1>5, ReplayLines
  <2> QED BY <1>1, <1>3, <1>5, <2>1 DEF LinesAdded, Known
<1>7. Known(t) \in SUBSET EverRecorded
  BY <1>1, EverRecordedTyped DEF LogInv
<1>8. sale.status = "open"
  <2>1. sale \in KnownSales
    BY <1>1, KnownSaleTyped
  <2>2. Apply(sale, e) = Apply(sale, e)
    OBVIOUS
  <2> QED BY <1>4, <2>1, <2>2, SaleAfter
<1>9. \A f \in Own(t) : f.kind = "lines_fired" /\ f.sale = k => f.lines \subseteq sale.fired
  <2>1. OpenedFirst(store[t], k)
    BY <1>1, StoreOpensFirst
  <2>2. FiredKept(store[t], k)
    BY <1>1, <1>5, ReplayFired
  <2> QED BY <1>5, <1>8, <2>1, <2>2 DEF FiredKept, Own, Known
<1>10. \A f \in Own(t) : f.kind = "lines_fired" => f.lines \cap e.lines = {}
  <2> SUFFICES ASSUME NEW f \in Own(t), f.kind = "lines_fired", NEW id \in f.lines, id \in e.lines
               PROVE  FALSE
    OBVIOUS
  <2>1. PICK a \in Known(t) : a.kind = "line_added" /\ a.sale = k /\ a.at = id
    BY <1>6
  <2>2. f \in EverRecorded
    BY DEF EverRecorded
  <2>3. PICK b \in EverRecorded : b.kind = "line_added" /\ b.sale = f.sale /\ b.at = id
    BY <2>2 DEF KitchenInv, FiredWereAdded
  <2>4. a = b
    BY <1>7, <2>1, <2>3 DEF LogInv, OfOneMoment
  <2>5. f.lines \subseteq sale.fired
    BY <1>9, <2>1, <2>3, <2>4
  <2> QED BY <1>3, <2>5
<1> HIDE DEF k, sale
<1>11. (slips \in SUBSET SlipSet)'
  BY <1>2, <1>3 DEF KitchenInv
<1>12. OrdersRecorded'
  <2> SUFFICES ASSUME NEW s \in slips', s.kind = "order"
               PROVE  \E f \in Own(s.by)' :
                         f.kind = "lines_fired" /\ f.at = s.at /\ s.line \in f.lines
    BY DEF OrdersRecorded
  <2>1. CASE s \in slips
    <3>1. s.by \in Device
      BY <2>1 DEF KitchenInv, SlipSet
    <3>2. Own(s.by) \in SUBSET Own(s.by)'
      BY <1>4, <3>1
    <3> QED BY <2>1, <3>2 DEF KitchenInv, OrdersRecorded
  <2>2. CASE s \in Slips(t, k)
    <3>1. e \in Own(s.by)'
      BY <1>3, <1>4, <2>2
    <3> QED BY <1>2, <1>3, <2>2, <3>1
  <2> QED BY <1>2, <2>1, <2>2
<1>13. FiredWereAdded'
  BY <1>2, <1>4, <1>6, <1>7 DEF KitchenInv, FiredWereAdded, k
<1>14. RoundsApart'
  BY <1>4, <1>10 DEF KitchenInv, RoundsApart
<1> QED BY <1>11, <1>12, <1>13, <1>14 DEF KitchenInv

\* A step that prints no order and records none as sent.
LEMMA KitchenQuiet ==
  ASSUME KitchenInv, slips' \in SUBSET SlipSet,
         \A s \in slips' : s \in slips \/ s.kind # "order",
         \A u \in Device : Own(u) \in SUBSET Own(u)',
         \A u \in Device : \A e \in Own(u)' : e \in Own(u) \/ e.kind # "lines_fired"
  PROVE  KitchenInv'
<1>1. /\ EverRecorded \in SUBSET EverRecorded'
      /\ \A e \in EverRecorded' : e \in EverRecorded \/ e.kind # "lines_fired"
  BY DEF EverRecorded
<1>2. OrdersRecorded'
  <2> SUFFICES ASSUME NEW s \in slips', s.kind = "order"
               PROVE  \E f \in Own(s.by)' :
                         f.kind = "lines_fired" /\ f.at = s.at /\ s.line \in f.lines
    BY DEF OrdersRecorded
  <2>1. s \in slips /\ s.by \in Device
    BY DEF SlipSet
  <2> QED BY <2>1 DEF KitchenInv, OrdersRecorded
<1>3. FiredWereAdded'
  BY <1>1 DEF KitchenInv, FiredWereAdded
<1>4. RoundsApart'
  BY DEF KitchenInv, RoundsApart
<1> QED BY <1>2, <1>3, <1>4 DEF KitchenInv

\* Nothing is sent yet.
LEMMA KitchenInit == Init => KitchenInv
<1> SUFFICES ASSUME Init PROVE KitchenInv
  OBVIOUS
<1>1. \A t \in Device : Own(t) = {}
  BY RangeEmpty DEF Init, Own, Known
<1>2. EverRecorded = {}
  BY <1>1 DEF EverRecorded
<1>3. slips = {}
  BY DEF Init
<1> QED BY <1>1, <1>2, <1>3 DEF KitchenInv, OrdersRecorded, FiredWereAdded, RoundsApart

\* Every step keeps rounds apart.
LEMMA KitchenStep ==
  ASSUME LogInv, KitchenInv, [Next]_vars
  PROVE  KitchenInv'
<1>1. slips \in SUBSET SlipSet /\ StateTyped
  BY DEF KitchenInv, LogInv
<1>2. CASE UNCHANGED store /\ UNCHANGED slips
  <2>1. \A u \in Device : Own(u)' = Own(u)
    BY <1>2 DEF Own, Known
  <2> QED BY <1>1, <1>2, <2>1, KitchenQuiet
<1>3. ASSUME NEW t \in Device, Step(t)
      PROVE  KitchenInv'
  <2>1. CASE RecordsOne(t)
    <3>1. PICK e \in Events :
             /\ e.at = clock /\ e.by = t
             /\ Records(t, e)
             /\ RecordsAlone(t, e) \/ RecordsPrepared(t, e) \/ RecordsFired(t, e)
      BY <2>1 DEF RecordsOne
    <3>2. CASE RecordsFired(t, e)
      BY <3>1, <3>2, KitchenFires
    <3>3. CASE RecordsAlone(t, e) \/ RecordsPrepared(t, e)
      <4>1. slips' = slips
        BY <3>3 DEF RecordsAlone, RecordsPrepared
      <4>2. e.kind # "lines_fired"
        <5>1. CASE RecordsAlone(t, e)
          BY <5>1 DEF RecordsAlone
        <5>2. CASE RecordsPrepared(t, e)
          <6>1. doing[t] \in Events /\ doing[t].kind \in Prepared
            BY <1>1, <5>2 DEF StateTyped, RecordsPrepared, Idle
          <6>2. e.kind = doing[t].kind
            BY <5>2, <6>1 DEF RecordsPrepared, Events, PlainEvents, LineEvents, QuantityEvents,
               VoidEvents, DiscountEvents, TenderEvents, SeatEvents, FireEvents, CompletionEvents
          <6> QED BY <6>1, <6>2 DEF Prepared
        <5> QED BY <3>3, <5>1, <5>2
      <4>3. \A u \in Device : Own(u)' = IF u = t THEN Own(u) \cup {e} ELSE Own(u)
        BY <3>1, RecordsEffect
      <4> QED BY <1>1, <4>1, <4>2, <4>3, KitchenQuiet
    <3> QED BY <3>1, <3>2, <3>3
  <2>2. CASE PreparesOne(t) \/ DropsCommand(t) \/ Restart(t)
    <3>1. UNCHANGED store /\ UNCHANGED slips
      BY <2>2 DEF PreparesOne, DropsCommand, Restart
    <3> QED BY <1>2, <3>1
  <2>3. CASE PrintsCancellations(t)
    <3>1. PICK k \in Sales :
             /\ book[t][k] # NoSale
             /\ Pending(book[t][k]) = {}
             /\ slips' = slips \cup Slips(t, k)
             /\ UNCHANGED store
      BY <2>3 DEF PrintsCancellations
    <3>2. /\ Slips(t, k) \in SUBSET SlipSet
          /\ \A s \in Slips(t, k) : s.kind # "order"
      BY <1>1, <3>1, SlipsPrinted
    <3>3. \A u \in Device : Own(u)' = Own(u)
      BY <3>1 DEF Own, Known
    <3> QED BY <1>1, <3>1, <3>2, <3>3, KitchenQuiet
  <2>4. CASE Learn(t)
    <3>1. (\A u \in Device : Own(u)' = Own(u)) /\ slips' = slips
      BY <2>4, LearnEffect
    <3> QED BY <1>1, <3>1, KitchenQuiet
  <2> QED BY <1>1, <1>3, <2>1, <2>2, <2>3, <2>4, StepMoves
<1>4. CASE UNCHANGED vars
  BY <1>2, <1>4 DEF vars
<1> QED BY <1>3, <1>4 DEF Next

\* No till sends a line to the kitchen as an order twice (fire_kitchen), over
\* rounds, voids, siblings' rounds learnt and the book rebuilt.
THEOREM EachOrderOnce == Spec => []KitchenOnce
<1>1. Init => KitchenInv
  BY KitchenInit
<1>2. LogInv /\ KitchenInv /\ [Next]_vars => KitchenInv'
  BY KitchenStep
<1>3. LogInv /\ KitchenInv => KitchenOnce
  BY KitchenEnough DEF LogInv
<1>4. Spec => Init /\ [][Next]_vars
  BY DEF Spec
<1> QED BY <1>1, <1>2, <1>3, <1>4, StoresAreSound, PTL

-----------------------------------------------------------------------------
(***************************************************************************)
(* Tables.                                                                 *)
(***************************************************************************)

\* A till that knows these events has heard of a sibling writing to the ticket.
Shared(known, t, k) == \E e \in known : e.sale = k /\ e.by # t

\* No ticket but this one stands at the table, unless a sibling wrote to either.
KeptFree(b, known, t, k, table) ==
    \A j \in OpenSales(b) :
        (j # k /\ b[j].table = table) => Shared(known, t, j) \/ Shared(known, t, k)

\* Two tickets open at one table have a sibling in it; what is about to be seated
\* was checked against the book, and what was learnt since has not changed that.
SeatedApart(b, known, command, t) ==
    /\ \A k \in OpenSales(b) : b[k].table # NoTable => KeptFree(b, known, t, k, b[k].table)
    /\ (command.kind = "seated" /\ command.table # NoTable) =>
          KeptFree(b, known, t, command.sale, command.table)

SeatInv == \A t \in Device : SeatedApart(book[t], Known(t), doing[t], t)

\* Which is what is promised of the tables.
LEMMA SeatEnough == SeatInv => OwnTablesApart
BY DEF SeatInv, SeatedApart, KeptFree, Shared, Contested, OwnTablesApart

\* An open sale is a known one.
LEMMA OpenKnown ==
  ASSUME StateTyped, NEW t \in Device, NEW k \in OpenSales(book[t])
  PROVE  k \in Sales /\ book[t][k] # NoSale /\ book[t][k] \in KnownSales
<1>1. k \in Sales /\ book[t][k] # NoSale
  BY NoSaleUnknown DEF OpenSales
<1> QED BY <1>1, KnownSaleTyped

\* The ticket found at a table is an open one that stands there, and is found
\* whenever there is one.
LEMMA OccupantFound ==
  ASSUME StateTyped, NEW t \in Device, NEW table
  PROVE  /\ Occupant(book[t], table) = 0 =>
               \A j \in OpenSales(book[t]) : book[t][j].table # table
         /\ Occupant(book[t], table) # 0 =>
               /\ Occupant(book[t], table) \in OpenSales(book[t])
               /\ book[t][Occupant(book[t], table)].table = table
<1> DEFINE sitting == {j \in OpenSales(book[t]) : book[t][j].table = table}
<1>1. CASE sitting = {}
  <2>1. Occupant(book[t], table) = 0
    BY <1>1 DEF Occupant
  <2> QED BY <1>1, <2>1
<1>2. CASE sitting # {}
  <2>1. sitting \in SUBSET (1 .. MaxSales) /\ MaxSales \in Nat
    BY SaleAssumption DEF OpenSales, Sales
  <2> DEFINE Above == {n \in Nat : n <= MaxSales /\ \A j \in sitting : j <= n}
  <2>2. MaxSales \in Above
    BY <2>1
  <2>3. PICK n \in Above : \A m \in Above : n <= m
    <3>1. Above \in SUBSET Nat /\ Above # {}
      BY <2>2
    <3> HIDE DEF Above
    <3> QED BY <3>1, Rebuild!LeastNumber
  <2>4. n \in sitting
    <3> SUFFICES ASSUME n \notin sitting PROVE FALSE
      OBVIOUS
    <3>1. \A j \in sitting : j <= n - 1 /\ j \in Nat
      BY <2>1, <2>3
    <3>2. n - 1 \in Above
      BY <1>2, <2>1, <2>3, <3>1
    <3> QED BY <2>3, <3>2
  <2>5. \E k \in sitting : \A j \in sitting : j <= k
    BY <2>3, <2>4
  <2>6. Occupant(book[t], table) = CHOOSE k \in sitting : \A j \in sitting : j <= k
    BY <1>2 DEF Occupant
  <2>7. Occupant(book[t], table) \in sitting
    BY <2>5, <2>6
  <2>8. Occupant(book[t], table) # 0
    BY <2>1, <2>7
  <2> QED BY <2>7, <2>8
<1> QED BY <1>1, <1>2

\* A seating is prepared for a table nobody else is found at.
LEMMA SeatPrepares ==
  ASSUME StateTyped, NEW t \in Device, SeatedApart(book[t], Known(t), doing[t], t), PreparesOne(t)
  PROVE  SeatedApart(book'[t], Known(t)', doing'[t], t)
<1>1. PICK e \in Events : /\ e.kind = "seated" => Occupant(book[t], e.table) \in {0, e.sale}
                          /\ doing' = [doing EXCEPT ![t] = e]
                          /\ UNCHANGED <<clock, store, book, slips>>
  BY DEF PreparesOne
<1>2. doing'[t] = e /\ book'[t] = book[t] /\ Known(t)' = Known(t)
  BY <1>1 DEF StateTyped, Known
<1>5. ASSUME e.kind = "seated", e.table # NoTable
      PROVE  KeptFree(book[t], Known(t), t, e.sale, e.table)
  <2>1. CASE Occupant(book[t], e.table) = 0
    BY <2>1, OccupantFound DEF KeptFree
  <2>2. CASE Occupant(book[t], e.table) # 0
    <3>1. e.sale \in OpenSales(book[t]) /\ book[t][e.sale].table = e.table
      BY <1>1, <1>5, <2>2, OccupantFound
    <3> QED BY <1>5, <3>1 DEF SeatedApart
  <2> QED BY <2>1, <2>2
<1>6. \A k \in OpenSales(book'[t]) :
          book'[t][k].table # NoTable => KeptFree(book'[t], Known(t)', t, k, book'[t][k].table)
  BY <1>2 DEF SeatedApart
<1>7. (doing'[t].kind = "seated" /\ doing'[t].table # NoTable) =>
          KeptFree(book'[t], Known(t)', t, doing'[t].sale, doing'[t].table)
  BY <1>2, <1>5
<1> QED BY <1>6, <1>7 DEF SeatedApart

\* Recording moves no ticket but one to a table, and only to the table the
\* command had checked.
LEMMA SeatRecords ==
  ASSUME LogInv, NEW t \in Device, SeatedApart(book[t], Known(t), doing[t], t), NEW e \in Events, e.at = clock, e.by = t,
         Records(t, e), RecordsAlone(t, e) \/ RecordsPrepared(t, e) \/ RecordsFired(t, e)
  PROVE  SeatedApart(book'[t], Known(t)', doing'[t], t)
<1> DEFINE k == e.sale
           sale == book[t][k]
<1>1. StateTyped /\ k \in Sales /\ sale \in SaleSet
  BY EventFields DEF LogInv, StateTyped
<1>2. /\ Known(t)' = Known(t) \cup {e}
      /\ \A j \in Sales : book'[t][j] = IF k = j THEN SaleStep(book[t][j], e) ELSE book[t][j]
      /\ Takes(sale, e)
  BY RecordsEffect
<1>3. \A j : Shared(Known(t), t, j) => Shared(Known(t)', t, j)
  BY <1>2 DEF Shared
<1>4. \A j \in OpenSales(book'[t]) : j # k => j \in OpenSales(book[t]) /\ book'[t][j] = book[t][j]
  BY <1>2 DEF OpenSales
<1>5. ASSUME k \in OpenSales(book'[t])
      PROVE  \/ book'[t][k].table = NoTable
             \/ k \in OpenSales(book[t]) /\ book'[t][k].table = book[t][k].table
             \/ e.kind = "seated" /\ book'[t][k].table = e.table
  <2>1. book'[t][k] = SaleStep(sale, e)
    BY <1>1, <1>2
  <2>2. CASE sale = NoSale
    <3>1. SaleStep(sale, e) = Opened(e.by)
      BY <1>2, <2>2 DEF SaleStep
    <3> QED BY <2>1, <3>1 DEF Opened
  <2>3. CASE sale # NoSale
    <3>1. sale \in KnownSales /\ book'[t][k] = Apply(sale, e)
      BY <1>1, <1>2, <2>1, <2>3 DEF SaleSet, SaleStep
    <3>2. /\ sale.status = "open"
          /\ book'[t][k].table = IF e.kind = "seated" THEN e.table ELSE sale.table
      <4> DEFINE new == book'[t][k]
      <4>1. new = Apply(sale, e) /\ Takes(sale, e) /\ sale \in KnownSales
        BY <1>2, <3>1
      <4> HIDE DEF new, sale, k
      <4>2. /\ sale.status = "open"
            /\ new.table = IF e.kind = "seated" THEN e.table ELSE sale.table
        BY <4>1, SaleAfter
      <4> QED BY <4>2 DEF new, sale, k
    <3> QED BY <1>1, <3>1, <3>2 DEF OpenSales
  <2> QED BY <2>2, <2>3
<1>6. ASSUME e.kind = "seated", e.table # NoTable
      PROVE  KeptFree(book[t], Known(t), t, k, e.table)
  <2>1. RecordsPrepared(t, e)
    BY <1>6 DEF RecordsAlone, RecordsFired
  <2>2. doing[t] \in Events
    BY <1>1, <2>1 DEF StateTyped, RecordsPrepared, Idle
  <2>3. e.kind = doing[t].kind /\ e.sale = doing[t].sale
    BY <2>1, <2>2 DEF RecordsPrepared, Events, PlainEvents, LineEvents, QuantityEvents,
       VoidEvents, DiscountEvents, TenderEvents, SeatEvents, FireEvents, CompletionEvents
  <2>4. doing[t] \in SeatEvents
    BY <1>6, <2>2, <2>3 DEF Events, PlainEvents, LineEvents, QuantityEvents,
       VoidEvents, DiscountEvents, TenderEvents, SeatEvents, FireEvents, CompletionEvents
  <2>5. e.table = doing[t].table
    BY <2>1, <2>4 DEF RecordsPrepared, SeatEvents
  <2> QED BY <1>6, <2>3, <2>5 DEF SeatedApart
<1>7. \A j \in OpenSales(book'[t]) :
          book'[t][j].table # NoTable => KeptFree(book'[t], Known(t)', t, j, book'[t][j].table)
  <2> SUFFICES ASSUME NEW j \in OpenSales(book'[t]), NEW i \in OpenSales(book'[t]), i # j,
                      book'[t][j].table # NoTable, book'[t][i].table = book'[t][j].table
               PROVE  Shared(Known(t)', t, i) \/ Shared(Known(t)', t, j)
    BY DEF KeptFree
  <2>1. CASE i # k /\ j # k
    BY <1>3, <1>4, <2>1 DEF SeatedApart, KeptFree
  <2>2. CASE j = k
    <3>1. i \in OpenSales(book[t]) /\ book'[t][i] = book[t][i]
      BY <1>4, <2>2
    <3>2. CASE k \in OpenSales(book[t]) /\ book'[t][k].table = book[t][k].table
      BY <1>3, <2>2, <3>1, <3>2 DEF SeatedApart, KeptFree
    <3>3. CASE e.kind = "seated" /\ book'[t][k].table = e.table
      <4>1. KeptFree(book[t], Known(t), t, k, e.table)
        BY <1>6, <2>2, <3>3
      <4> QED BY <1>3, <2>2, <3>1, <3>3, <4>1 DEF KeptFree
    <3> QED BY <1>5, <2>2, <3>2, <3>3
  <2>3. CASE i = k
    <3>1. j \in OpenSales(book[t]) /\ book'[t][j] = book[t][j]
      BY <1>4, <2>3
    <3>2. CASE k \in OpenSales(book[t]) /\ book'[t][k].table = book[t][k].table
      BY <1>3, <2>3, <3>1, <3>2 DEF SeatedApart, KeptFree
    <3>3. CASE e.kind = "seated" /\ book'[t][k].table = e.table
      <4>1. KeptFree(book[t], Known(t), t, k, e.table)
        BY <1>6, <2>3, <3>3
      <4> QED BY <1>3, <2>3, <3>1, <3>3, <4>1 DEF KeptFree
    <3> QED BY <1>5, <2>3, <3>2, <3>3
  <2> QED BY <2>1, <2>2, <2>3
<1>8. doing'[t].kind # "seated"
  <2>1. CASE RecordsPrepared(t, e)
    BY <1>1, <2>1 DEF RecordsPrepared, StateTyped, Nothing
  <2>2. CASE RecordsAlone(t, e) \/ RecordsFired(t, e)
    BY <2>2 DEF RecordsAlone, RecordsFired, Idle, Nothing
  <2> QED BY <2>1, <2>2
<1> QED BY <1>7, <1>8 DEF SeatedApart

\* A ticket a sibling still has not written to is, after a round, what it was.
LEMMA SeatLearns ==
  ASSUME LogInv, NEW t \in Device, SeatedApart(book[t], Known(t), doing[t], t), Learn(t)
  PROVE  SeatedApart(book'[t], Known(t)', doing'[t], t)
<1>1. StateTyped
  BY DEF LogInv
<1>2. PICK s \in Device \ {t} : \E news \in SUBSET Own(s) :
         /\ store' \in [Device -> Seq(Events)]
         /\ \A u \in Device : Increasing(store'[u]) /\ book'[u] = Replay(store'[u])
         /\ \A u \in Device : Known(u)' = IF u = t THEN Known(u) \cup news ELSE Known(u)
         /\ UNCHANGED doing
  BY LearnEffect
<1>3. PICK news \in SUBSET Own(s) :
         /\ store' \in [Device -> Seq(Events)]
         /\ \A u \in Device : Increasing(store'[u]) /\ book'[u] = Replay(store'[u])
         /\ \A u \in Device : Known(u)' = IF u = t THEN Known(u) \cup news ELSE Known(u)
         /\ UNCHANGED doing
  BY <1>2
<1>4. Known(t)' = Known(t) \cup news /\ \A e \in news : e.by # t
  BY <1>3 DEF Own
<1>5. \A j : Shared(Known(t), t, j) => Shared(Known(t)', t, j)
  BY <1>4 DEF Shared
<1>6. ASSUME NEW j \in Sales, ~Shared(Known(t)', t, j)
      PROVE  book'[t][j] = book[t][j]
  <2>1. OfSale(Known(t)', j) = OfSale(Known(t), j)
    BY <1>4, <1>6 DEF OfSale, Shared
  <2>2. /\ store[t] \in Seq(Events) /\ store'[t] \in Seq(Events)
        /\ Increasing(store[t]) /\ Increasing(store'[t])
        /\ book[t] = Replay(store[t]) /\ book'[t] = Replay(store'[t])
    BY <1>1, <1>3 DEF LogInv, StateTyped, BookIsReplay
  <2>3. OfSale(Range(store'[t]), j) = OfSale(Range(store[t]), j)
    BY <2>1 DEF Known
  <2> QED BY <2>2, <2>3, SameSale
<1>7. ASSUME NEW i \in OpenSales(book'[t]), ~Shared(Known(t)', t, i)
      PROVE  i \in OpenSales(book[t]) /\ book'[t][i] = book[t][i]
  BY <1>6, <1>7 DEF OpenSales
<1>8. \A j \in OpenSales(book'[t]) :
          book'[t][j].table # NoTable => KeptFree(book'[t], Known(t)', t, j, book'[t][j].table)
  <2> SUFFICES ASSUME NEW j \in OpenSales(book'[t]), NEW i \in OpenSales(book'[t]), i # j,
                      book'[t][j].table # NoTable, book'[t][i].table = book'[t][j].table,
                      ~Shared(Known(t)', t, i), ~Shared(Known(t)', t, j)
               PROVE  FALSE
    BY DEF KeptFree
  <2> QED BY <1>5, <1>7 DEF SeatedApart, KeptFree
<1>9. (doing'[t].kind = "seated" /\ doing'[t].table # NoTable) =>
          KeptFree(book'[t], Known(t)', t, doing'[t].sale, doing'[t].table)
  <2> SUFFICES ASSUME doing[t].kind = "seated", doing[t].table # NoTable,
                      NEW i \in OpenSales(book'[t]), i # doing[t].sale,
                      book'[t][i].table = doing[t].table,
                      ~Shared(Known(t)', t, i), ~Shared(Known(t)', t, doing[t].sale)
               PROVE  FALSE
    BY <1>3 DEF KeptFree
  <2> QED BY <1>5, <1>7 DEF SeatedApart, KeptFree
<1> QED BY <1>8, <1>9 DEF SeatedApart

\* A till that has done nothing, or gave up what it was doing.
LEMMA SeatKept ==
  ASSUME NEW u \in Device, SeatedApart(book[u], Known(u), doing[u], u),
         book'[u] = book[u], Known(u)' = Known(u),
         doing'[u].kind = "seated" => doing'[u] = doing[u]
  PROVE  SeatedApart(book'[u], Known(u)', doing'[u], u)
BY DEF SeatedApart

\* Every step keeps the tables apart.
LEMMA SeatStep ==
  ASSUME LogInv, SeatInv, [Next]_vars
  PROVE  SeatInv'
<1>1. StateTyped
  BY DEF LogInv
<1>2. CASE UNCHANGED vars
  BY <1>2, SeatKept DEF vars, SeatInv, Known
<1>3. ASSUME NEW t \in Device, Step(t)
      PROVE  SeatInv'
  <2> SUFFICES ASSUME NEW u \in Device
               PROVE  SeatedApart(book'[u], Known(u)', doing'[u], u)
    BY DEF SeatInv
  <2>1. SeatedApart(book[u], Known(u), doing[u], u)
    BY DEF SeatInv
  <2>2. CASE RecordsOne(t)
    <3>1. PICK e \in Events :
             /\ e.at = clock /\ e.by = t
             /\ Records(t, e)
             /\ RecordsAlone(t, e) \/ RecordsPrepared(t, e) \/ RecordsFired(t, e)
      BY <2>2 DEF RecordsOne
    <3>2. CASE u = t
      BY <2>1, <3>1, <3>2, SeatRecords
    <3>3. CASE u # t
      <4>1. Known(u)' = Known(u) /\ book'[u] = book[u]
        BY <3>1, <3>3, RecordsEffect
      <4>2. doing'[u] = doing[u]
        BY <1>1, <3>1, <3>3 DEF StateTyped, RecordsAlone, RecordsPrepared, RecordsFired
      <4> QED BY <2>1, <4>1, <4>2, SeatKept
    <3> QED BY <3>2, <3>3
  <2>3. CASE PreparesOne(t)
    <3>1. CASE u = t
      BY <1>1, <2>1, <2>3, <3>1, SeatPrepares
    <3>2. CASE u # t
      <4>1. UNCHANGED <<store, book>> /\ doing'[u] = doing[u]
        BY <1>1, <2>3, <3>2 DEF PreparesOne, StateTyped
      <4> QED BY <2>1, <4>1, SeatKept DEF Known
    <3> QED BY <3>1, <3>2
  <2>4. CASE DropsCommand(t)
    <3>1. UNCHANGED <<store, book>> /\ (doing'[u] = doing[u] \/ doing'[u] = Nothing)
      BY <1>1, <2>4 DEF DropsCommand, StateTyped
    <3>2. Nothing.kind # "seated"
      BY DEF Nothing
    <3> QED BY <2>1, <3>1, <3>2, SeatKept DEF Known
  <2>5. CASE PrintsCancellations(t)
    <3>1. UNCHANGED <<store, book, doing>>
      BY <2>5 DEF PrintsCancellations
    <3> QED BY <2>1, <3>1, SeatKept DEF Known
  <2>6. CASE Learn(t)
    <3>1. CASE u = t
      BY <2>1, <2>6, <3>1, SeatLearns
    <3>2. CASE u # t
      <4>1. Known(u)' = Known(u) /\ book'[u] = book[u] /\ doing'[u] = doing[u]
        BY <2>6, <3>2, LearnEffect
      <4> QED BY <2>1, <4>1, SeatKept
    <3> QED BY <3>1, <3>2
  <2>7. CASE Restart(t)
    BY <2>4, <2>7, RestartKeepsBook
  <2> QED BY <1>1, <1>3, <2>2, <2>3, <2>4, <2>5, <2>6, <2>7, StepMoves
<1> QED BY <1>2, <1>3 DEF Next

\* Nobody sits anywhere yet.
LEMMA SeatInit == Init => SeatInv
<1> SUFFICES ASSUME Init, NEW t \in Device
             PROVE  SeatedApart(book[t], Known(t), doing[t], t)
  BY DEF SeatInv
<1>1. book[t] = EmptyBook /\ doing[t] = Nothing
  BY DEF Init
<1>2. OpenSales(book[t]) = {}
  BY <1>1, NoSaleUnknown DEF OpenSales, EmptyBook
<1>3. doing[t].kind # "seated"
  BY <1>1 DEF Nothing
<1> QED BY <1>2, <1>3 DEF SeatedApart

\* Two tickets open at one table have a sibling in one of them (seat_sale checks
\* under one lock what it records under the next, and the book is rebuilt between).
THEOREM TablesKeptApart == Spec => []OwnTablesApart
<1>1. Init => SeatInv
  BY SeatInit
<1>2. LogInv /\ SeatInv /\ [Next]_vars => SeatInv'
  BY SeatStep
<1>3. Spec => Init /\ [][Next]_vars
  BY DEF Spec
<1> QED BY <1>1, <1>2, <1>3, SeatEnough, StoresAreSound, PTL

-----------------------------------------------------------------------------
(***************************************************************************)
(* Bills: the refinement of Bill by the tickets only one till has written  *)
(* to.                                                                     *)
(***************************************************************************)

Bills == [k \in Sales |-> BillOf(k)]

\* What a customer sees of one till's sale.
BillFor(sale) ==
    [state |-> BillState[sale.status], owed |-> Total(sale),
     paid |-> Tendered(sale), change |-> sale.change]

BillSet ==
    [state : {"none", "disputed", "open", "settled", "dropped"}, owed : Int, paid : Int, change : Int]

\* The tills that recorded anything are finitely many.
Wrote == {t \in Device : Own(t) # {}}
WroteInv == IsFiniteSet(Wrote)

BillFacts(k) ==
    /\ Writers(k) = {} => BillOf(k) = Customer!None
    /\ \A w : Writers(k) = {w} => book[w][k] \in KnownSales /\ BillOf(k) = BillFor(book[w][k])
    /\ \A u, w \in Writers(k) : u # w => BillOf(k) = Customer!Disputed

\* The writers of a ticket, by the events each recorded.
LEMMA WritersAre ==
  ASSUME StateTyped, NEW k \in Sales
  PROVE  Writers(k) = {t \in Device : \E e \in Own(t) : e.sale = k}
<1> SUFFICES ASSUME NEW t \in Device
             PROVE  (\E i \in 1 .. Len(store[t]) : store[t][i].by = t /\ store[t][i].sale = k)
                      <=> \E e \in Own(t) : e.sale = k
  BY DEF Writers
<1>1. store[t] \in Seq(Events)
  BY DEF StateTyped
<1>2. DOMAIN store[t] = 1 .. Len(store[t])
  BY <1>1
<1> QED BY <1>2 DEF Own, Known, Range

WritersKnown ==
    \A k \in Sales : Writers(k) = {t \in Device : \E e \in Own(t) : e.sale = k}

\* The same, of every ticket.
LEMMA WritersHave == StateTyped => WritersKnown
BY WritersAre DEF WritersKnown

\* How a sale stands, in the words of the bill.
LEMMA BillStates ==
  /\ BillState["open"] = "open"
  /\ BillState["completed"] = "settled"
  /\ BillState["abandoned"] = "dropped"
BY DEF BillState

\* The bill of a sale is a bill.
LEMMA BillForTyped ==
  ASSUME NEW sale \in KnownSales
  PROVE  /\ BillFor(sale) \in BillSet
         /\ BillFor(sale).state = BillState[sale.status]
         /\ BillFor(sale).state \in {"open", "settled", "dropped"}
         /\ BillFor(sale).owed = Total(sale) /\ BillFor(sale).paid = Tendered(sale)
         /\ BillFor(sale).change = sale.change
<1>1. sale.status \in {"open", "completed", "abandoned"} /\ sale.change \in Int
  BY DEF KnownSales
<1>2. Total(sale) \in Int /\ Tendered(sale) \in Int
  BY SaleSums
<1>3. BillState[sale.status] \in {"open", "settled", "dropped"}
  BY <1>1, BillStates
<1> QED BY <1>1, <1>2, <1>3 DEF BillFor, BillSet

\* What is seen of a ticket: nothing, its one writer's sale, or a dispute.
LEMMA BillsSeen ==
  LogInv /\ WroteInv => \A k \in Sales : BillFacts(k)
<1> SUFFICES ASSUME LogInv, WroteInv, NEW k \in Sales
             PROVE  BillFacts(k)
  OBVIOUS
<1>1. StateTyped
  BY DEF LogInv
<1>2. Writers(k) = {t \in Device : \E e \in Own(t) : e.sale = k}
  BY <1>1, WritersAre
<1>3. IsFiniteSet(Writers(k))
  <2>1. Writers(k) \in SUBSET Wrote
    BY <1>2 DEF Wrote
  <2> QED BY <2>1, FS_Subset DEF WroteInv
<1>4. Writers(k) = {} => BillOf(k) = Customer!None
  BY DEF BillOf, Customer!None
<1>5. ASSUME NEW w, Writers(k) = {w}
      PROVE  book[w][k] \in KnownSales /\ BillOf(k) = BillFor(book[w][k])
  <2>1. w \in Device /\ \E e \in Own(w) : e.sale = k
    BY <1>2, <1>5
  <2>2. PICK e \in Own(w) : e.sale = k
    BY <2>1
  <2>3. e \in EverRecorded
    BY <2>1, <2>2 DEF EverRecorded
  <2>4. \E o \in EverRecorded : Opens(o, k)
    <3>1. CASE e.kind = "opened"
      BY <2>2, <2>3, <3>1 DEF Opens
    <3>2. CASE e.kind # "opened"
      BY <2>2, <2>3, <3>2 DEF LogInv, OpenedBefore
    <3> QED BY <3>1, <3>2
  <2>5. PICK o \in EverRecorded : Opens(o, k)
    BY <2>4
  <2>6. PICK u \in Device : o \in Own(u)
    BY <2>5 DEF EverRecorded
  <2>7. u \in Writers(k)
    BY <1>2, <2>5, <2>6 DEF Opens
  <2>8. o \in Known(w)
    BY <1>5, <2>6, <2>7 DEF Own
  <2>9. book[w][k] # NoSale
    BY <2>1, <2>5, <2>8, KnownIsOpened
  <2>10. book[w][k] \in KnownSales
    BY <1>1, <2>1, <2>9, KnownSaleTyped
  <2>11. Cardinality(Writers(k)) = 1
    BY <1>5, FS_Singleton
  <2>12. (CHOOSE t \in Writers(k) : TRUE) = w
    BY <1>5
  <2>13. Writers(k) # {} /\ ~(Cardinality(Writers(k)) > 1)
    BY <1>5, <2>11
  <2> QED BY <2>9, <2>10, <2>12, <2>13 DEF BillOf, BillFor
<1>6. ASSUME NEW u \in Writers(k), NEW w \in Writers(k), u # w
      PROVE  BillOf(k) = Customer!Disputed
  <2>1. IsFiniteSet({u}) /\ Cardinality({u}) = 1
    BY FS_Singleton
  <2>2. Cardinality({u} \cup {w}) = 2
    <3> DEFINE S == {u}
    <3>1. IsFiniteSet(S) /\ w \notin S
      BY <1>6, <2>1
    <3> HIDE DEF S
    <3>2. Cardinality(S \cup {w}) = Cardinality(S) + 1
      BY <3>1, FS_AddElement
    <3> QED BY <2>1, <3>2 DEF S
  <2>3. {u} \cup {w} \in SUBSET Writers(k)
    OBVIOUS
  <2>4. Cardinality({u} \cup {w}) <= Cardinality(Writers(k))
    BY <1>3, <2>3, FS_Subset
  <2>5. Cardinality(Writers(k)) \in Nat
    BY <1>3, FS_CardinalityType
  <2>6. Cardinality(Writers(k)) > 1 /\ Writers(k) # {}
    BY <2>2, <2>4, <2>5
  <2>7. BillOf(k) = [state |-> "disputed", owed |-> 0, paid |-> 0, change |-> 0]
    BY <2>6 DEF BillOf
  <2> QED BY <2>7 DEF Customer!Disputed, Customer!None
<1> QED BY <1>4, <1>5, <1>6 DEF BillFacts

\* An open bill charged, paid towards, settled or dropped.
BillMoves(before, after) ==
    /\ before.state = "open"
    /\ \/ after = [before EXCEPT !.owed = after.owed]
       \/ /\ after.paid > before.paid
          /\ after = [before EXCEPT !.paid = after.paid]
       \/ /\ before.paid >= before.owed
          /\ after = [before EXCEPT !.state = "settled",
                                    !.change = before.paid - before.owed]
       \/ after = [before EXCEPT !.state = "dropped"]

\* What an event a sale takes makes of the customer's bill.
LEMMA BillAfter ==
  ASSUME NEW sale \in KnownSales, NEW e \in Events, Accepts(sale, e),
         NEW new, new = Apply(sale, e),
         NEW before, before = BillFor(sale), NEW after, after = BillFor(new)
  PROVE  BillMoves(before, after)
<1>1. Takes(sale, e)
  BY NoSaleUnknown DEF Takes
<1>2. /\ new \in KnownSales
      /\ sale.status = "open" /\ e.kind # "opened"
      /\ new.status = IF e.kind \in {"completed", "abandoned"} THEN e.kind ELSE "open"
      /\ e.kind \notin {"line_added", "quantity_changed", "line_voided"} => new.lines = sale.lines
      /\ e.kind # "order_discounted" => new.discount = sale.discount
      /\ new.tenders = IF e.kind = "tender_recorded"
                       THEN Append(sale.tenders, [method |-> e.method, amount |-> e.amount])
                       ELSE sale.tenders
      /\ new.change = IF e.kind = "completed" THEN e.change ELSE sale.change
  BY <1>1, SaleAfter, ZenonT(60)
<1>3. /\ before \in BillSet /\ after \in BillSet
      /\ before.state = "open" /\ before.owed = Total(sale) /\ before.paid = Tendered(sale)
      /\ before.change = sale.change
      /\ after.state = BillState[new.status] /\ after.owed = Total(new)
      /\ after.paid = Tendered(new) /\ after.change = new.change
  BY <1>2, BillForTyped, BillStates
<1>4. e.kind # "tender_recorded" => after.paid = before.paid
  BY <1>2, <1>3, TotalOf
<1>5. e.kind \notin {"line_added", "quantity_changed", "line_voided", "order_discounted"} =>
         after.owed = before.owed
  BY <1>2, <1>3, TotalOf
<1>6. CASE e.kind = "tender_recorded"
  <2>1. after.owed = before.owed /\ after.change = before.change /\ after.state = "open"
    BY <1>2, <1>3, <1>5, <1>6, BillStates
  <2>2. e.amount > 0 /\ e.amount \in Int /\ e.method \in Method
    BY <1>6, EventFields DEF Accepts
  <2>3. Tendered(new) = Tendered(sale) + e.amount
    <3> DEFINE tender == [method |-> e.method, amount |-> e.amount]
    <3>1. sale.tenders \in Seq(TenderSet) /\ tender \in TenderSet
      BY <2>2 DEF KnownSales, TenderSet
    <3>2. new.tenders = Append(sale.tenders, tender)
      BY <1>2, <1>6
    <3> HIDE DEF tender
    <3>3. Amounts!Run(Append(sale.tenders, tender)) = AddAmount(Amounts!Run(sale.tenders), tender)
      BY <3>1, Amounts!RunAppend
    <3>4. Tendered(new) = Tendered(sale) + Amount(tender)
      BY <3>2, <3>3, SumsAreRuns DEF Tendered, AddAmount
    <3> QED BY <3>4 DEF tender, Amount
  <2>4. after.paid > before.paid
    BY <1>3, <2>2, <2>3 DEF BillSet
  <2>5. after = [before EXCEPT !.paid = after.paid]
    BY <1>3, <2>1 DEF BillSet
  <2> QED BY <1>3, <2>4, <2>5 DEF BillMoves
<1>7. CASE e.kind = "completed"
  <2>1. after.owed = before.owed /\ after.paid = before.paid /\ after.state = "settled"
    BY <1>2, <1>3, <1>4, <1>5, <1>7, BillStates
  <2>2. BalanceDue(sale) <= 0 /\ ChangeDue(sale) = e.change
    BY <1>7 DEF Accepts
  <2>3. before.paid >= before.owed /\ e.change = before.paid - before.owed
    BY <1>3, <2>2, SaleSums
  <2>4. after.change = before.paid - before.owed
    BY <1>2, <1>3, <1>7, <2>3
  <2>5. after = [before EXCEPT !.state = "settled", !.change = before.paid - before.owed]
    BY <1>3, <2>1, <2>4 DEF BillSet
  <2> QED BY <1>3, <2>3, <2>5 DEF BillMoves
<1>8. CASE e.kind = "abandoned"
  <2>1. /\ after.owed = before.owed /\ after.paid = before.paid /\ after.state = "dropped"
        /\ after.change = before.change
    BY <1>2, <1>3, <1>4, <1>5, <1>8, BillStates
  <2>2. after = [before EXCEPT !.state = "dropped"]
    BY <1>3, <2>1 DEF BillSet
  <2> QED BY <1>3, <2>2 DEF BillMoves
<1>9. CASE e.kind \notin {"tender_recorded", "completed", "abandoned"}
  <2>1. after.paid = before.paid /\ after.change = before.change /\ after.state = "open"
    BY <1>2, <1>3, <1>4, <1>9, BillStates
  <2>2. after = [before EXCEPT !.owed = after.owed]
    BY <1>3, <2>1 DEF BillSet
  <2> QED BY <1>3, <2>2 DEF BillMoves
<1> QED BY <1>6, <1>7, <1>8, <1>9

\* A sale just opened is a bill just started.
LEMMA OpenedBill ==
  ASSUME NEW t \in Device
  PROVE  BillFor(Opened(t)) = [Customer!None EXCEPT !.state = "open"]
<1>1. /\ Opened(t) \in KnownSales /\ Opened(t).lines = <<>> /\ Opened(t).tenders = <<>>
      /\ Opened(t).discount = 0 /\ Opened(t).change = 0 /\ Opened(t).status = "open"
  BY OpenedTyped
<1>2. SumOf(LineValue, <<>>) = 0 /\ SumOf(Amount, <<>>) = 0
  BY SumsAreRuns, Values!RunEmpty, Amounts!RunEmpty
<1>3. Total(Opened(t)) = 0 /\ Tendered(Opened(t)) = 0
  BY <1>1, <1>2 DEF Total, Tendered, LeastOf
<1> QED BY <1>1, <1>3, BillStates DEF BillFor, Customer!None

\* Nobody recorded anything yet.
LEMMA WroteInit == Init => WroteInv
<1> SUFFICES ASSUME Init PROVE WroteInv
  OBVIOUS
<1>1. \A t \in Device : Own(t) = {}
  BY RangeEmpty DEF Init, Own, Known
<1>2. Wrote = {}
  BY <1>1 DEF Wrote
<1> QED BY <1>2, FS_EmptySet DEF WroteInv

\* A till's own events come from its own recordings alone.
LEMMA OwnAfter ==
  ASSUME LogInv, NEW t \in Device, Step(t)
  PROVE  \/ \E e \in Events : e.at = clock /\ e.by = t /\ Records(t, e)
         \/ /\ \A u \in Device : Own(u)' = Own(u)
            /\ \A u \in Device : book'[u] = book[u] \/ (u = t /\ Learn(t))
<1>1. StateTyped
  BY DEF LogInv
<1>2. CASE RecordsOne(t)
  BY <1>2 DEF RecordsOne
<1>3. CASE PreparesOne(t) \/ DropsCommand(t) \/ PrintsCancellations(t)
  <2>1. UNCHANGED <<store, book>>
    BY <1>3 DEF PreparesOne, DropsCommand, PrintsCancellations
  <2> QED BY <2>1 DEF Own, Known
<1>4. CASE Learn(t)
  <2>1. /\ \A u \in Device : Own(u)' = Own(u)
        /\ \A u \in Device : u # t => book'[u] = book[u]
    BY <1>4, LearnEffect
  <2> QED BY <1>4, <2>1
<1>5. CASE Restart(t)
  BY <1>3, <1>5, RestartKeepsBook
<1> QED BY <1>1, <1>2, <1>3, <1>4, <1>5, StepMoves

\* One step makes at most one more till a writer.
LEMMA WroteStep ==
  ASSUME LogInv, WroteInv, [Next]_vars
  PROVE  WroteInv'
<1>1. CASE UNCHANGED vars
  BY <1>1 DEF vars, WroteInv, Wrote, Own, Known
<1>2. ASSUME NEW t \in Device, Step(t)
      PROVE  WroteInv'
  <2>1. CASE \E e \in Events : e.at = clock /\ e.by = t /\ Records(t, e)
    <3>1. PICK e \in Events : e.at = clock /\ e.by = t /\ Records(t, e)
      BY <2>1
    <3>2. \A u \in Device : Own(u)' = IF u = t THEN Own(u) \cup {e} ELSE Own(u)
      BY <3>1, RecordsEffect
    <3>3. Wrote' = Wrote \cup {t}
      BY <3>2 DEF Wrote
    <3> QED BY <3>3, FS_AddElement DEF WroteInv
  <2>2. CASE \A u \in Device : Own(u)' = Own(u)
    <3>1. Wrote' = Wrote
      BY <2>2 DEF Wrote
    <3> QED BY <3>1 DEF WroteInv
  <2> QED BY <1>2, <2>1, <2>2, OwnAfter
<1> QED BY <1>1, <1>2 DEF Next

\* Bills are the same where the same tills wrote and, if it was one, its book is
\* the same.
LEMMA SameBill ==
  ASSUME NEW k \in Sales, BillFacts(k), BillFacts(k)', Writers(k)' = Writers(k),
         \A w : Writers(k) = {w} => book'[w][k] = book[w][k]
  PROVE  BillOf(k)' = BillOf(k)
<1>1. CASE Writers(k) = {}
  BY <1>1 DEF BillFacts, Customer!None
<1>2. CASE \E w : Writers(k) = {w}
  <2>1. PICK w : Writers(k) = {w}
    BY <1>2
  <2>2. BillOf(k) = BillFor(book[w][k])
    BY <2>1 DEF BillFacts
  <2>3. BillOf(k)' = BillFor(book'[w][k])
    BY <2>1 DEF BillFacts, BillFor
  <2> QED BY <2>1, <2>2, <2>3
<1>3. CASE \E u, w \in Writers(k) : u # w
  BY <1>3 DEF BillFacts, Customer!Disputed, Customer!None
<1>4. Writers(k) = {} \/ (\E w : Writers(k) = {w}) \/ (\E u, w \in Writers(k) : u # w)
  <2> SUFFICES ASSUME Writers(k) # {}, \A u, w \in Writers(k) : u = w
               PROVE  \E w : Writers(k) = {w}
    OBVIOUS
  <2>1. PICK w : w \in Writers(k)
    OBVIOUS
  <2>2. Writers(k) = {w}
    BY <2>1
  <2> QED BY <2>2
<1> QED BY <1>1, <1>2, <1>3, <1>4

\* A step of the tickets is a step of one customer's bill, or of none.
LEMMA OneBillMoves ==
  ASSUME NEW k \in Sales, \A j \in Sales : j # k => BillOf(j)' = BillOf(j),
         NEW before, before = BillOf(k), NEW after, after = BillOf(k)',
         \/ before = Customer!None /\ after = [before EXCEPT !.state = "open"]
         \/ BillMoves(before, after)
         \/ before # Customer!None /\ after = Customer!Disputed
  PROVE  Customer!Next
<1>1. Bills[k] = before /\ Bills'[k] = after
  BY DEF Bills
<1>2. Bills' = [Bills EXCEPT ![k] = after]
  BY DEF Bills
<1>3. CASE before = Customer!None /\ after = [before EXCEPT !.state = "open"]
  <2>1. Bills' = [Bills EXCEPT ![k].state = "open"]
    BY <1>1, <1>2, <1>3
  <2> QED BY <1>1, <1>3, <2>1 DEF Customer!Next, Customer!Start, Bills
<1>4. CASE before.state = "open" /\ after = [before EXCEPT !.owed = after.owed]
  <2>1. Bills' = [Bills EXCEPT ![k].owed = after.owed]
    BY <1>1, <1>2, <1>4
  <2>2. Bills' = [Bills EXCEPT ![k].owed = Bills'[k].owed]
    BY <1>1, <2>1
  <2> QED BY <1>1, <1>4, <2>2 DEF Customer!Next, Customer!Charge, Bills
<1>5. CASE /\ before.state = "open" /\ after.paid > before.paid
           /\ after = [before EXCEPT !.paid = after.paid]
  <2>1. Bills' = [Bills EXCEPT ![k].paid = after.paid]
    BY <1>1, <1>2, <1>5
  <2>2. Bills' = [Bills EXCEPT ![k].paid = Bills'[k].paid]
    BY <1>1, <2>1
  <2> QED BY <1>1, <1>5, <2>2 DEF Customer!Next, Customer!Pay, Bills
<1>6. CASE /\ before.state = "open" /\ before.paid >= before.owed
           /\ after = [before EXCEPT !.state = "settled", !.change = before.paid - before.owed]
  <2>1. Bills' = [Bills EXCEPT ![k].state = "settled",
                               ![k].change = Bills[k].paid - Bills[k].owed]
    BY <1>1, <1>2, <1>6
  <2> QED BY <1>1, <1>6, <2>1 DEF Customer!Next, Customer!Settle, Bills
<1>7. CASE before.state = "open" /\ after = [before EXCEPT !.state = "dropped"]
  <2>1. Bills' = [Bills EXCEPT ![k].state = "dropped"]
    BY <1>1, <1>2, <1>7
  <2> QED BY <1>1, <1>7, <2>1 DEF Customer!Next, Customer!Drop, Bills
<1>8. CASE before # Customer!None /\ after = Customer!Disputed
  <2>1. Bills' = [Bills EXCEPT ![k] = Customer!Disputed]
    BY <1>2, <1>8
  <2> QED BY <1>1, <1>8, <2>1 DEF Customer!Next, Customer!Dispute, Bills
<1> QED BY <1>3, <1>4, <1>5, <1>6, <1>7, <1>8 DEF BillMoves

\* What a recording makes of the bills.
LEMMA RecordsBill ==
  ASSUME LogInv, LogInv', \A k \in Sales : BillFacts(k), (\A k \in Sales : BillFacts(k))',
         NEW t \in Device, NEW e \in Events, e.at = clock, e.by = t, Records(t, e)
  PROVE  [Customer!Next]_Bills
<1> DEFINE k == e.sale
           sale == book[t][k]
           new == book'[t][k]
<1>1. StateTyped /\ StateTyped' /\ k \in Sales
  BY EventFields DEF LogInv
<1>2. /\ \A u \in Device : Own(u)' = IF u = t THEN Own(u) \cup {e} ELSE Own(u)
      /\ Takes(sale, e) /\ BookAccepts(book[t], e)
      /\ \A u \in Device : u # t => book'[u] = book[u]
      /\ \A j \in Sales : book'[t][j] = IF k = j THEN SaleStep(book[t][j], e) ELSE book[t][j]
  BY RecordsEffect
<1>3. \A j \in Sales : Writers(j) = {u \in Device : \E f \in Own(u) : f.sale = j}
  BY <1>1, WritersHave DEF WritersKnown
<1>4. \A j \in Sales : Writers(j)' = {u \in Device : \E f \in Own(u)' : f.sale = j}
  <2>1. WritersKnown'
    BY <1>1, WritersHave, PTL
  <2> QED BY <2>1 DEF WritersKnown
<1>5. \A j \in Sales : Writers(j)' = IF j = k THEN Writers(j) \cup {t} ELSE Writers(j)
  <2> SUFFICES ASSUME NEW j \in Sales
               PROVE  Writers(j)' = IF j = k THEN Writers(j) \cup {t} ELSE Writers(j)
    OBVIOUS
  <2>1. Writers(j) = {u \in Device : \E f \in Own(u) : f.sale = j}
    BY <1>3
  <2>2. Writers(j)' = {u \in Device : \E f \in Own(u)' : f.sale = j}
    BY <1>4
  <2>3. \A u \in Device : (\E f \in Own(u)' : f.sale = j)
                             <=> (\E f \in Own(u) : f.sale = j) \/ (u = t /\ j = k)
    BY <1>2
  <2> QED BY <2>1, <2>2, <2>3
<1>6. ASSUME NEW j \in Sales, j # k
      PROVE  BillOf(j)' = BillOf(j)
  <2>1. Writers(j)' = Writers(j)
    BY <1>5, <1>6
  <2>2. \A w \in Device : book'[w][j] = book[w][j]
    BY <1>2, <1>6
  <2>3. \A w : Writers(j) = {w} => w \in Device
    BY DEF Writers
  <2>4. BillFacts(j) /\ BillFacts(j)'
    OBVIOUS
  <2> QED BY <2>1, <2>2, <2>3, <2>4, SameBill
<1>7. BillFacts(k) /\ BillFacts(k)' /\ Writers(k)' = Writers(k) \cup {t}
  BY <1>1, <1>5
<1>8. new = SaleStep(sale, e)
  BY <1>1, <1>2
<1>9. BookAccepts(book[t], e) <=> IF sale = NoSale THEN e.kind = "opened" ELSE Accepts(sale, e)
  BY DEF BookAccepts
<1>10. Writers(k) \in SUBSET Device
  BY DEF Writers
<1> HIDE DEF k, sale, new
<1>11. CASE Writers(k) = {}
  <2>1. \A o \in EverRecorded : ~Opens(o, k)
    BY <1>1, <1>3, <1>11 DEF EverRecorded, Opens
  <2>2. \A o \in Known(t) : ~Opens(o, k)
    BY <1>1, <2>1, EverRecordedTyped DEF LogInv
  <2>3. sale = NoSale
    BY <1>1, <2>2, KnownIsOpened DEF sale
  <2>4. new = Opened(t)
    BY <1>2, <1>8, <2>3 DEF SaleStep
  <2>5. BillOf(k) = Customer!None
    BY <1>7, <1>11 DEF BillFacts
  <2>6. BillOf(k)' = BillFor(new)
    <3>1. Writers(k)' = {t}
      BY <1>7, <1>11
    <3> QED BY <1>7, <3>1 DEF BillFacts, BillFor, new
  <2>7. BillOf(k)' = [BillOf(k) EXCEPT !.state = "open"]
    BY <2>4, <2>5, <2>6, OpenedBill
  <2> QED BY <1>1, <1>6, <2>5, <2>7, OneBillMoves
<1>12. CASE Writers(k) = {t}
  <2>1. sale \in KnownSales /\ BillOf(k) = BillFor(sale)
    BY <1>7, <1>12 DEF BillFacts, sale
  <2>2. Accepts(sale, e) /\ new = Apply(sale, e)
    BY <1>2, <1>8, <1>9, <2>1, NoSaleUnknown DEF SaleStep
  <2>3. BillOf(k)' = BillFor(new)
    <3>1. Writers(k)' = {t}
      BY <1>7, <1>12
    <3> QED BY <1>7, <3>1 DEF BillFacts, BillFor, new
  <2> DEFINE before == BillOf(k)
             after == BillOf(k)'
  <2>4. before = BillFor(sale) /\ after = BillFor(new)
    BY <2>1, <2>3
  <2>5. before = BillOf(k) /\ after = BillOf(k)'
    OBVIOUS
  <2> HIDE DEF before, after
  <2>6. BillMoves(before, after)
    BY <2>1, <2>2, <2>4, BillAfter
  <2> QED BY <1>1, <1>6, <2>5, <2>6, OneBillMoves
<1>13. CASE \E w \in Writers(k) : w # t /\ Writers(k) = {w}
  <2>1. PICK w : Writers(k) = {w} /\ w # t
    BY <1>13
  <2>2. book[w][k] \in KnownSales /\ BillOf(k) = BillFor(book[w][k])
    BY <1>7, <2>1 DEF BillFacts
  <2>3. BillOf(k) # Customer!None
    BY <2>2, BillForTyped DEF Customer!None
  <2>4. BillOf(k)' = Customer!Disputed
    BY <1>7, <2>1 DEF BillFacts, Customer!Disputed, Customer!None
  <2> QED BY <1>1, <1>6, <2>3, <2>4, OneBillMoves
<1>14. CASE \E u, w \in Writers(k) : u # w
  <2>1. BillOf(k)' = Customer!Disputed /\ BillOf(k) = Customer!Disputed
    BY <1>7, <1>14 DEF BillFacts, Customer!Disputed, Customer!None
  <2>2. \A j \in Sales : BillOf(j)' = BillOf(j)
    BY <1>6, <2>1
  <2> QED BY <2>2 DEF Bills
<1>15. \/ Writers(k) = {} \/ Writers(k) = {t}
       \/ \E w \in Writers(k) : w # t /\ Writers(k) = {w}
       \/ \E u, w \in Writers(k) : u # w
  <2> SUFFICES ASSUME Writers(k) # {}, \A u, w \in Writers(k) : u = w
               PROVE  Writers(k) = {t} \/ \E w \in Writers(k) : w # t /\ Writers(k) = {w}
    OBVIOUS
  <2>1. PICK w : w \in Writers(k)
    OBVIOUS
  <2>2. Writers(k) = {w}
    BY <2>1
  <2> QED BY <2>1, <2>2
<1> QED BY <1>11, <1>12, <1>13, <1>14, <1>15

\* Every step of the tills is a step of one bill, or of none.
LEMMA BillsStep ==
  ASSUME LogInv, LogInv', \A k \in Sales : BillFacts(k), (\A k \in Sales : BillFacts(k))',
         [Next]_vars
  PROVE  [Customer!Next]_Bills
<1>1. CASE UNCHANGED vars
  <2>1. \A k \in Sales : BillOf(k)' = BillOf(k)
    BY <1>1 DEF vars, BillOf, Writers
  <2> QED BY <2>1 DEF Bills
<1>2. ASSUME NEW t \in Device, Step(t)
      PROVE  [Customer!Next]_Bills
  <2>1. CASE \E e \in Events : e.at = clock /\ e.by = t /\ Records(t, e)
    BY <2>1, RecordsBill
  <2>2. CASE /\ \A u \in Device : Own(u)' = Own(u)
             /\ \A u \in Device : book'[u] = book[u] \/ (u = t /\ Learn(t))
    <3> SUFFICES ASSUME NEW k \in Sales
                 PROVE  BillOf(k)' = BillOf(k)
      BY DEF Bills
    <3>1. StateTyped /\ StateTyped'
      BY DEF LogInv
    <3>2. WritersKnown /\ WritersKnown'
      BY <3>1, WritersHave, PTL
    <3>3. Writers(k)' = Writers(k)
      BY <2>2, <3>2 DEF WritersKnown
    <3>4. ASSUME NEW w, Writers(k) = {w}
          PROVE  book'[w][k] = book[w][k]
      <4>1. w \in Device /\ \A u \in Device : \A e \in Own(u) : e.sale = k => u = w
        BY <3>2, <3>4 DEF WritersKnown
      <4>2. CASE book'[w] = book[w]
        BY <4>2
      <4>3. CASE w = t /\ Learn(t)
        <5>1. PICK s \in Device \ {t} : \E news \in SUBSET Own(s) :
                 /\ store' \in [Device -> Seq(Events)]
                 /\ \A u \in Device : Increasing(store'[u]) /\ book'[u] = Replay(store'[u])
                 /\ \A u \in Device : Known(u)' = IF u = t THEN Known(u) \cup news ELSE Known(u)
          BY <4>3, LearnEffect
        <5>2. PICK news \in SUBSET Own(s) :
                 /\ store' \in [Device -> Seq(Events)]
                 /\ \A u \in Device : Increasing(store'[u]) /\ book'[u] = Replay(store'[u])
                 /\ \A u \in Device : Known(u)' = IF u = t THEN Known(u) \cup news ELSE Known(u)
          BY <5>1
        <5>3. \A e \in news : e.sale # k
          BY <4>1, <4>3, <5>2
        <5>4. OfSale(Known(t)', k) = OfSale(Known(t), k)
          BY <5>2, <5>3 DEF OfSale
        <5>5. /\ store[t] \in Seq(Events) /\ store'[t] \in Seq(Events)
              /\ Increasing(store[t]) /\ Increasing(store'[t])
              /\ book[t] = Replay(store[t]) /\ book'[t] = Replay(store'[t])
          BY <5>2 DEF LogInv, StateTyped, BookIsReplay
        <5>6. OfSale(Range(store[t]), k) = OfSale(Range(store'[t]), k)
          BY <5>4 DEF Known
        <5> QED BY <4>3, <5>5, <5>6, SameSale
      <4> QED BY <2>2, <4>1, <4>2, <4>3
    <3> QED BY <3>3, <3>4, SameBill
  <2> QED BY <1>2, <2>1, <2>2, OwnAfter
<1> QED BY <1>1, <1>2 DEF Next

\* No bill is started yet.
LEMMA BillsInit == Init => Customer!Init
<1> SUFFICES ASSUME Init, NEW k \in Sales
             PROVE  BillOf(k) = Customer!None
  BY DEF Customer!Init
<1>1. \A t \in Device : store[t] = <<>>
  BY DEF Init
<1>2. Writers(k) = {}
  BY <1>1 DEF Writers
<1> QED BY <1>2 DEF BillOf, Customer!None

\* The tickets implement Bill: whatever the tills record, learn and rebuild, a
\* ticket only one till wrote to is charged, paid, settled once and then left
\* alone, as a customer's bill is (Sale::apply, Terminal::record and sync).
THEOREM TicketsAreBills == Spec => ImplementsBill
<1>1. Init => Customer!Init
  BY BillsInit
<1>2. LogInv /\ LogInv' /\ WroteInv /\ WroteInv' /\ [Next]_vars => [Customer!Next]_Bills
  <2>1. LogInv /\ WroteInv => \A k \in Sales : BillFacts(k)
    BY BillsSeen
  <2>2. LogInv' /\ WroteInv' => (\A k \in Sales : BillFacts(k))'
    BY BillsSeen, PTL
  <2> QED BY <2>1, <2>2, BillsStep
<1>3. Init => WroteInv
  BY WroteInit
<1>4. LogInv /\ WroteInv /\ [Next]_vars => WroteInv'
  BY WroteStep
<1>5. Spec => Init /\ [][Next]_vars
  BY DEF Spec
<1>6. ImplementsBill <=> Customer!Init /\ [][Customer!Next]_Bills
  BY DEF ImplementsBill, Customer!Spec, Bills
<1> QED BY <1>1, <1>2, <1>3, <1>4, <1>5, <1>6, StoresAreSound, PTL
=============================================================================
