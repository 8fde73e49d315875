-------------------------------- MODULE Shop --------------------------------
(***************************************************************************)
(* The back office of two tills of one outlet: stock, purchase orders,     *)
(* staff, catalogue, floor and settings.  Each command checks who asks,    *)
(* validates against what its till has in memory, seals, writes, and then  *)
(* adopts the change.  Syncing brings the sibling's events to disk, but    *)
(* nothing here is rebuilt from them until the till is opened again, when  *)
(* everything is replayed in the order of the clocks.                      *)
(***************************************************************************)
EXTENDS Stock, Purchasing, People, Catalogue, Outlet

CONSTANTS
    Till,        \* the two tills, numbers
    Skew,        \* how far each till's clock is ahead
    Product, Barcode, Pin, Label,
    Quantity,    \* what is received, issued or counted, in thousandths
    Cost,        \* a unit cost
    Files,       \* the files that may be imported: sequences of rows
    IdleTimeout, \* how long a session lasts
    MaxClock,    \* bound: operations and idle moments together
    MaxFaults    \* bound: failed writes and restarts together

ASSUME ShopAssumption ==
    /\ Till \subseteq Nat
    /\ \E t, u \in Till : t # u /\ Till = {t, u}
    /\ Skew \in [Till -> Nat]
    /\ Quantity \subseteq Int
    /\ MaxClock \in Nat

VARIABLES
    log,      \* what each till sealed and wrote, oldest first
    known,    \* how many of the sibling's events are on its disk
    base,     \* how many of them its memory was built from (history)
    tip,      \* the sequence its in-memory chain has reached
    shop,     \* its projections
    session,  \* who is signed in at it
    up,       \* whether it opened
    clock,    \* time
    faults    \* faults so far

svars == <<log, known, base, tip, shop, session, up, clock, faults>>

Nil == << >>
NewId(t, n) == <<t, clock + 1, n>>
Sibling(t) == CHOOSE other \in Till : other # t

-----------------------------------------------------------------------------
(***************************************************************************)
(* Loading: what stored events amount to.                                  *)
(***************************************************************************)

\* Faulty variant: till by till, each chain in its own order.
ByDevice(e, f) ==
    e.till < f.till \/ (e.till = f.till /\ e.seq < f.seq)

\* occurred_at, then the event id, which follows the clock and then chance.
InTime(e, f) ==
    \/ e.at < f.at
    \/ e.at = f.at /\ (e.till < f.till \/ (e.till = f.till /\ e.seq < f.seq))

\* Events in order of time: each comes after those that come before it.
InOrder(events) ==
    [i \in 1 .. Cardinality(events) |->
        CHOOSE e \in events : Cardinality({f \in events : InTime(f, e)}) = i - 1]

Chronicle(S, kinds) == InOrder({e \in S : e.kind \in kinds})

\* Replay that stops for good at what does not apply, and one that skips it.
Strictly(accepts(_, _), apply(_, _), p, e) ==
    IF p.ok /\ accepts(p.is, e) THEN [ok |-> TRUE, is |-> apply(p.is, e)]
    ELSE [ok |-> FALSE, is |-> p.is]
Leniently(accepts(_, _), apply(_, _), p, e) == IF accepts(p, e) THEN apply(p, e) ELSE p

StockStep(p, e) == Strictly(StockAccepts, StockApply, p, e)
StaffStep(p, e) == Strictly(StaffAccepts, StaffApply, p, e)
CatalogueStep(p, e) == Leniently(CatalogueAccepts, CatalogueApply, p, e)
FloorStep(p, e) == Leniently(FloorAccepts, FloorApply, p, e)

StockOf(S) == Through(StockStep, [ok |-> TRUE, is |-> EmptyBook], Chronicle(S, StockKind))
StaffOf(S) == Through(StaffStep, [ok |-> TRUE, is |-> Nobody], Chronicle(S, StaffKind))

Purchases(S) == {e \in S : e.kind \in PurchaseKind}
OrderIds(S) == {e.id : e \in Purchases(S)}

\* Faulty variant: one stream for all orders.
OrdersTogether(S) ==
    LET replay == OrderReplay(InOrder(Purchases(S)))
    IN [id \in {i \in OrderIds(S) : replay # Broken} |-> replay]

\* Each order from its own stream; one that does not replay is left out.
OrderOf(S, id) == OrderReplay(InOrder({e \in Purchases(S) : e.id = id}))
OrdersOf(S) == [id \in {i \in OrderIds(S) : OrderOf(S, i) # Broken} |-> OrderOf(S, id)]

Rebuilt(S) ==
    [stock |-> StockOf(S).is,
     orders |-> OrdersOf(S),
     staff |-> StaffOf(S).is,
     catalogue |-> Through(CatalogueStep, << >>, Chronicle(S, CatalogueKind)),
     floor |-> Through(FloorStep, << >>, Chronicle(S, FloorKind)),
     outlet |-> Through(OutletApply, Unconfigured, Chronicle(S, OutletKind))]

\* A stock or staff event that does not apply refuses the start.
Opens(S) == StockOf(S).ok /\ StaffOf(S).ok

\* What a till holds when it knows n of its sibling's events.
Holding(t, n) == Range(log[t]) \cup Range(SubSeq(log[Sibling(t)], 1, n))

-----------------------------------------------------------------------------
StartFrom(events) ==
    /\ log = [t \in Till |-> IF t = Min(Till) THEN events ELSE << >>]
    /\ known = [t \in Till |-> IF t = Min(Till) THEN 0 ELSE Len(events)]
    /\ base = known
    /\ tip = [t \in Till |-> Len(log[t])]
    /\ shop = [t \in Till |-> Rebuilt(Range(events))]
    /\ session = [t \in Till |-> SignedOut]
    /\ up = [t \in Till |-> TRUE]
    /\ clock = Len(events)
    /\ faults = 0

\* Two tills fresh from the box.
Init == StartFrom(<< >>)

Event(t, n, kind, id, by, data) ==
    [till |-> t, seq |-> tip[t] + n, at |-> clock + 1 + Skew[t],
     kind |-> kind, id |-> id, by |-> by, data |-> data]

\* append_within: the event's number must follow the disk's tip.
Follows(t) == tip[t] = Len(log[t])

\* An operation on an open till takes a moment, and count places of its chain.
Works(t, count) ==
    /\ up[t]
    /\ clock < MaxClock
    /\ clock' = clock + 1
    /\ tip' = [tip EXCEPT ![t] = @ + count]
    /\ UNCHANGED <<known, base, session, up>>

\* The store refuses what does not follow its own tip, or fails.
WriteFails(t) ==
    \/ ~Follows(t) /\ UNCHANGED faults
    \/ Follows(t) /\ faults < MaxFaults /\ faults' = faults + 1

\* Faulty variant: memory moves before the write, whether or not it succeeds.
RecordsEagerly(t, events, next) ==
    /\ Works(t, Len(events))
    /\ shop' = [shop EXCEPT ![t] = next]
    /\ \/ Follows(t) /\ log' = [log EXCEPT ![t] = @ \o events] /\ UNCHANGED faults
       \/ WriteFails(t) /\ UNCHANGED log

\* Seal, write all or nothing, adopt.
Records(t, events, next) ==
    /\ Works(t, Len(events))
    /\ \/ /\ Follows(t)
          /\ log' = [log EXCEPT ![t] = @ \o events]
          /\ shop' = [shop EXCEPT ![t] = next]
          /\ UNCHANGED faults
       \/ WriteFails(t) /\ UNCHANGED <<log, shop>>

AtTill(t) == CurrentSession(session[t], shop[t].staff, clock, IdleTimeout)
Configured(t) == shop[t].outlet.regime # "unset"

\* sign_in and sign_out seal nothing.
SignIn(t) ==
    /\ up[t]
    /\ \E who \in Members(shop[t].staff), pin \in Pin :
          /\ SignsIn(shop[t].staff, who, pin)
          /\ session' = [session EXCEPT ![t] = SignedIn(who, clock)]
    /\ UNCHANGED <<log, known, base, tip, shop, up, clock, faults>>

SignOut(t) ==
    /\ up[t]
    /\ session[t].in
    /\ session' = [session EXCEPT ![t] = SignedOut]
    /\ UNCHANGED <<log, known, base, tip, shop, up, clock, faults>>

-----------------------------------------------------------------------------
(***************************************************************************)
(* Stock.                                                                  *)
(***************************************************************************)

RecordStock(t, e) ==
    /\ StockAccepts(shop[t].stock, e)
    /\ Records(t, <<e>>, [shop[t] EXCEPT !.stock = StockApply(@, e)])

\* A delivery, always a batch of its own.
ReceiveStock(t) ==
    /\ Configured(t)
    /\ \E by \in AtTill(t), p \in Product, q \in Quantity, c \in Cost :
          RecordStock(t, Event(t, 1, "BatchReceived", NewId(t, 1), by,
                               [product |-> p, qty |-> q, cost |-> c, expires |-> NeverExpires]))

CountStock(t) ==
    \E by \in AtTill(t), b \in Batches(shop[t].stock), q \in Quantity :
        RecordStock(t, Event(t, 1, "BatchCounted", b, by, [qty |-> q]))

IssueStock(t) ==
    \E by \in AtTill(t), b \in Batches(shop[t].stock), q \in Quantity :
        RecordStock(t, Event(t, 1, "StockIssued", b, by, [qty |-> q]))

-----------------------------------------------------------------------------
(***************************************************************************)
(* Purchase orders.                                                        *)
(***************************************************************************)

Orders(t) == DOMAIN shop[t].orders

PlaceOrder(t) ==
    /\ Configured(t)
    /\ \E by \in AtTill(t), p \in Product, q \in Quantity, c \in Cost :
          LET e == Event(t, 1, "Placed", NewId(t, 1), by,
                         [lines |-> <<[product |-> p, qty |-> q, cost |-> c]>>])
          IN Records(t, <<e>>,
                     [shop[t] EXCEPT !.orders = [id \in Orders(t) \cup {e.id} |->
                                                   IF id = e.id THEN OrderReplay(<<e>>)
                                                   ELSE shop[t].orders[id]]])

\* Both events are validated before either is sealed.
Receipt(t, order, line, by, q, c) ==
    <<Event(t, 1, "LineReceived", order, by,
            [line |-> line, qty |-> q, cost |-> c, batch |-> NewId(t, 1)]),
      Event(t, 2, "BatchReceived", NewId(t, 1), by,
            [product |-> shop[t].orders[order].lines[line].line.product,
             qty |-> q, cost |-> c, expires |-> NeverExpires])>>

\* Faulty variant: two writes, the second of which may fail.
RecordReceiptInTwoWrites(t, events) ==
    /\ OrderAccepts(shop[t].orders[events[1].id], events[1])
    /\ StockAccepts(shop[t].stock, events[2])
    /\ Works(t, 2)
    /\ Follows(t)
    /\ faults < MaxFaults
    /\ faults' = faults + 1
    /\ log' = [log EXCEPT ![t] = Append(@, events[1])]
    /\ shop' = [shop EXCEPT ![t].orders[events[1].id] = OrderApply(@, events[1])]

\* record_receipt: the order's event and the shelf's in one transaction.
RecordReceipt(t, events) ==
    /\ OrderAccepts(shop[t].orders[events[1].id], events[1])
    /\ StockAccepts(shop[t].stock, events[2])
    /\ Records(t, events, [shop[t] EXCEPT !.orders[events[1].id] = OrderApply(@, events[1]),
                                          !.stock = StockApply(@, events[2])])

ReceiveAgainstOrder(t) ==
    /\ Configured(t)
    /\ \E by \in AtTill(t), order \in Orders(t), q \in Quantity, c \in Cost :
          \E line \in DOMAIN shop[t].orders[order].lines :
              RecordReceipt(t, Receipt(t, order, line, by, q, c))

CloseOrder(t) ==
    \E by \in AtTill(t), order \in Orders(t), reason \in CloseReason :
        LET e == Event(t, 1, "Closed", order, by, [reason |-> reason])
        IN /\ OrderAccepts(shop[t].orders[order], e)
           /\ Records(t, <<e>>, [shop[t] EXCEPT !.orders[order] = OrderApply(@, e)])

-----------------------------------------------------------------------------
(***************************************************************************)
(* Staff and settings.  The first person, and settings before there is     *)
(* anybody, need nobody's approval.                                        *)
(***************************************************************************)

Founder == Nil

\* Whoever a PIN says may manage the outlet, or the founder.
Managers(t, pin) ==
    IF Members(shop[t].staff) = {} THEN {Founder}
    ELSE Approves(shop[t].staff, "ManageStaff", pin)

EnrolStaff(t) ==
    \E pin, new \in Pin, role \in Role :
        \E by \in Managers(t, pin) :
            LET e == Event(t, 1, "Enrolled", NewId(t, 1), by, [role |-> role, pin |-> new])
            IN /\ by = Founder => role = "owner"
               /\ StaffAccepts(shop[t].staff, e)
               /\ Records(t, <<e>>, [shop[t] EXCEPT !.staff = StaffApply(@, e)])

ConfigureOutlet(t) ==
    \E pin \in Pin, regime \in FiscalRegime, registered \in BOOLEAN :
        \E by \in Managers(t, pin) :
            LET e == Event(t, 1, "Configured", "outlet", by,
                           [regime |-> regime, registered |-> registered])
            IN /\ ValidSettings(e.data)
               /\ Records(t, <<e>>, [shop[t] EXCEPT !.outlet = OutletApply(@, e)])

-----------------------------------------------------------------------------
(***************************************************************************)
(* Products and tables: whoever holds EditCatalogue, by PIN alone.         *)
(***************************************************************************)

Editors(t, pin) == Approves(shop[t].staff, "EditCatalogue", pin)
Details == [price : {-1, 1}, barcodes : SUBSET Barcode]

RecordCatalogue(t, kind, id, by, data) ==
    LET e == Event(t, 1, kind, id, by, data)
    IN /\ CatalogueAccepts(shop[t].catalogue, e)
       /\ Records(t, <<e>>, [shop[t] EXCEPT !.catalogue = CatalogueApply(@, e)])

SaveProduct(t) ==
    /\ Configured(t)
    /\ \E pin \in Pin, data \in Details : \E by \in Editors(t, pin) :
          \/ RecordCatalogue(t, "ProductAdded", NewId(t, 1), by, data)
          \/ \E id \in Products(shop[t].catalogue) :
                RecordCatalogue(t, "ProductUpdated", id, by, data)

SetProductActive(t) ==
    \E pin \in Pin, kind \in {"ProductWithdrawn", "ProductRestored"},
       id \in Products(shop[t].catalogue) :
        \E by \in Editors(t, pin) : RecordCatalogue(t, kind, id, by, Nil)

Additions(t, products, by) ==
    [n \in DOMAIN products |->
       Event(t, n, "ProductAdded", NewId(t, n), by, products[n].details)]

\* The catalogue after the first n additions, and whether it takes the next.
CatalogueAfter(t, additions, n) ==
    Through(CatalogueApply, shop[t].catalogue, SubSeq(additions, 1, n))
TakesRow(t, additions, n) ==
    /\ n \in DOMAIN additions
    /\ CatalogueAccepts(CatalogueAfter(t, additions, n - 1), additions[n])

\* commit_import: a file without a problem is written row by row, up to the
\* first row the catalogue refuses or the disk fails at.
CommitImport(t, file) ==
    LET read == FromDelimited(file)
    IN /\ read.problems = {}
       /\ Configured(t)
       /\ \E pin \in Pin : \E by \in Editors(t, pin), n \in 0 .. Len(read.products) :
             LET additions == Additions(t, read.products, by)
             IN /\ \A i \in 1 .. n : TakesRow(t, additions, i)
                /\ n > 0 => Follows(t)
                /\ log' = [log EXCEPT ![t] = @ \o SubSeq(additions, 1, n)]
                /\ shop' = [shop EXCEPT ![t].catalogue = CatalogueAfter(t, additions, n)]
                /\ \/ ~TakesRow(t, additions, n + 1) /\ Works(t, n) /\ UNCHANGED faults
                   \/ TakesRow(t, additions, n + 1) /\ Works(t, n + 1) /\ WriteFails(t)

RecordFloor(t, kind, id, by, data) ==
    LET e == Event(t, 1, kind, id, by, data)
    IN /\ FloorAccepts(shop[t].floor, e)
       /\ Records(t, <<e>>, [shop[t] EXCEPT !.floor = FloorApply(@, e)])

SaveTable(t) ==
    \E pin \in Pin, label \in Label, seats \in {0, MaxSeats} : \E by \in Editors(t, pin) :
        LET data == [label |-> label, section |-> "room", seats |-> seats]
        IN \/ RecordFloor(t, "TableAdded", NewId(t, 1), by, data)
           \/ \E id \in Tables(shop[t].floor) : RecordFloor(t, "TableUpdated", id, by, data)

\* A table somebody sits at is not removed; nobody sits here.
SetTableActive(t) ==
    \E pin \in Pin, kind \in {"TableRemoved", "TableRestored"}, id \in Tables(shop[t].floor) :
        \E by \in Editors(t, pin) : RecordFloor(t, kind, id, by, Nil)

-----------------------------------------------------------------------------
(***************************************************************************)
(* Syncing, restarting, idling.                                            *)
(***************************************************************************)

\* The sibling's next event reaches the disk; none of this is rebuilt.
Learn(t) ==
    /\ known[t] < Len(log[Sibling(t)])
    /\ known' = [known EXCEPT ![t] = @ + 1]
    /\ UNCHANGED <<log, base, tip, shop, session, up, clock, faults>>

\* Terminal::load, over all that is on the disk.
Restart(t) ==
    LET S == Holding(t, known[t])
    IN /\ faults < MaxFaults
       /\ faults' = faults + 1
       /\ up' = [up EXCEPT ![t] = Opens(S)]
       /\ session' = [session EXCEPT ![t] = SignedOut]
       /\ IF Opens(S)
          THEN /\ shop' = [shop EXCEPT ![t] = Rebuilt(S)]
               /\ base' = [base EXCEPT ![t] = known[t]]
               /\ tip' = [tip EXCEPT ![t] = Len(log[t])]
          ELSE UNCHANGED <<shop, base, tip>>
       /\ UNCHANGED <<log, known, clock>>

Idle ==
    /\ clock < MaxClock
    /\ clock' = clock + 1
    /\ UNCHANGED <<log, known, base, tip, shop, session, up, faults>>

Stores(t) == ReceiveStock(t) \/ CountStock(t) \/ IssueStock(t)
Buying(t) == PlaceOrder(t) \/ ReceiveAgainstOrder(t) \/ CloseOrder(t)
Office(t) == EnrolStaff(t) \/ ConfigureOutlet(t)
Catalog(t) == SaveProduct(t) \/ SetProductActive(t) \/ \E file \in Files : CommitImport(t, file)
Room(t) == SaveTable(t) \/ SetTableActive(t)
Next ==
    \/ \E t \in Till :
       \/ Stores(t) \/ Buying(t) \/ Office(t) \/ Catalog(t) \/ Room(t)
       \/ SignIn(t) \/ SignOut(t) \/ Learn(t) \/ Restart(t)
    \/ Idle

Spec == Init /\ [][Next]_svars

-----------------------------------------------------------------------------
(***************************************************************************)
(* What the back office promises.                                          *)
(***************************************************************************)

\* What an open till shows of stock, orders, staff, catalogue, floor and
\* settings is what replaying the events it started from, and its own since,
\* would give: a failed write left no trace, and nothing written is missing.
ShopIsReplay ==
    \A t \in Till : up[t] => shop[t] = Rebuilt(Holding(t, base[t]))

\* With clocks that agree, no till is kept from starting by what its sibling
\* recorded: stock and staff events apply in the order of time.
BootsAgain == \A t \in Till : up[t]

\* What events moved into one batch, less what they took out of it.
Movement(e) ==
    CASE e.kind \in {"BatchReceived", "StockReturned"} -> e.data.qty
      [] e.kind = "StockIssued" -> -e.data.qty
      [] e.kind = "BatchCounted" -> 0
Moves(sum, e) == IF e.id = sum.of THEN [sum EXCEPT !.is = @ + Movement(e)] ELSE sum

\* What counts of one batch said was missing or over.
Differs(sum, v) == IF v.batch = sum.of THEN [sum EXCEPT !.is = @ + v.delta] ELSE sum

Nought(of) == [of |-> of, is |-> 0]

\* Every unit on a shelf is accounted for: received and returned, less
\* issued, plus what each count said was missing or over.
StockExplained ==
    \A t \in Till : up[t] =>
        LET book == shop[t].stock
            events == Chronicle(Holding(t, base[t]), StockKind)
        IN \A b \in Batches(book) :
              book.levels[b].on_hand = Through(Moves, Nought(b), events).is
                                         + Through(Differs, Nought(b), book.variances).is

\* A delivery against an order is on the shelf, and what is on the shelf from
\* an order is in the order: the two events are written together or not at all.
ReceiptsPaired ==
    \A t \in Till : \A i \in DOMAIN log[t] : log[t][i].kind = "LineReceived" =>
        /\ i < Len(log[t])
        /\ log[t][i + 1].kind = "BatchReceived"
        /\ log[t][i + 1].id = log[t][i].data.batch
        /\ log[t][i + 1].data.qty = log[t][i].data.qty

\* What events brought of one line of an order.
Arrives(sum, e) ==
    IF e.kind = "LineReceived" /\ e.data.line = sum.of THEN [sum EXCEPT !.is = @ + e.data.qty]
    ELSE sum

\* Two tills working on one order do not lose it, nor what either booked in:
\* unless something was recorded of it after its close, it is there after any
\* restart with all of its deliveries.
OrdersKept ==
    \A t \in Till : up[t] =>
        LET held == Holding(t, base[t])
            of(id) == {e \in held : e.kind \in PurchaseKind /\ e.id = id}
        IN \A placed \in {e \in held : e.kind = "Placed"} :
              (\A c, e \in of(placed.id) : c.kind = "Closed" => ~InTime(c, e)) =>
                  /\ placed.id \in Orders(t)
                  /\ \A n \in DOMAIN placed.data.lines :
                        shop[t].orders[placed.id].lines[n].received =
                          Through(Arrives, Nought(n), InOrder(of(placed.id))).is

\* No scan can mean two products, on sale or not, whatever either till
\* registered while they were apart.
BarcodesApart ==
    \A t \in Till : \A p, q \in Products(shop[t].catalogue) :
        p # q => shop[t].catalogue[p].barcodes \cap shop[t].catalogue[q].barcodes = {}

\* Whoever a change is recorded against could make it: a product or a table
\* by somebody who edits the catalogue, staff and settings by an owner, or by
\* nobody while the till knew of nobody, and then the first person is an owner.
Sanctioned ==
    LET enrolled == {e \in UNION {Range(log[t]) : t \in Till} : e.kind = "Enrolled"}
        holds(who, permission) ==
            \E e \in enrolled : e.id = who /\ RoleCan(e.data.role, permission)
    IN \A t \in Till : \A i \in DOMAIN log[t] :
          LET e == log[t][i]
          IN /\ e.kind \in CatalogueKind \cup FloorKind => holds(e.by, "EditCatalogue")
             /\ e.kind \in {"Enrolled", "Configured"} =>
                  \/ holds(e.by, "ManageStaff")
                  \/ /\ e.by = Founder
                     /\ \A j \in 1 .. i - 1 : log[t][j].kind # "Enrolled"
                     /\ e.kind = "Enrolled" => e.data.role = "owner"
=============================================================================
