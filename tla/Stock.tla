-------------------------------- MODULE Stock --------------------------------
(***************************************************************************)
(* What is on the shelf, batch by batch: sahl-core's InventoryBook, the    *)
(* questions asked of it, and the outlet-wide check of movements.  A batch *)
(* may be issued below nothing, and a count always wins, but a count that  *)
(* disagrees leaves a variance behind.                                     *)
(***************************************************************************)
EXTENDS Money, SequencesExt

StockKind == {"BatchReceived", "StockIssued", "StockReturned", "BatchCounted"}
IssueReason == {"wastage", "transfer_out", "return_to_supplier", "internal"}

\* A batch that does not spoil outlasts every date.
NeverExpires == 1000000

\* levels and unit costs by batch, and what counts disagreed about.
EmptyBook == [levels |-> << >>, variances |-> << >>]

Batches(book) == DOMAIN book.levels

StockAccepts(book, e) ==
    CASE e.kind = "BatchReceived" -> e.id \notin Batches(book) /\ e.data.qty > 0
      [] e.kind = "BatchCounted" -> e.id \in Batches(book) /\ e.data.qty >= 0
      [] OTHER -> e.id \in Batches(book) /\ e.data.qty > 0

Moved(book, e, delta) == [book EXCEPT !.levels[e.id].on_hand = @ + delta]

\* Faulty variant: the count is stored before it is compared.
CountedBlindly(book, e) ==
    LET set == [book EXCEPT !.levels[e.id].on_hand = e.data.qty]
        delta == e.data.qty - set.levels[e.id].on_hand
    IN IF delta = 0 THEN set
       ELSE [set EXCEPT !.variances = Append(@, [batch |-> e.id, delta |-> delta, at |-> e.at])]

\* The count is the shelf; the disagreement is kept.
Counted(book, e) ==
    LET delta == e.data.qty - book.levels[e.id].on_hand
        set == Moved(book, e, delta)
    IN IF delta = 0 THEN set
       ELSE [set EXCEPT !.variances = Append(@, [batch |-> e.id, delta |-> delta, at |-> e.at])]

StockApply(book, e) ==
    CASE e.kind = "BatchReceived" ->
           [book EXCEPT !.levels =
              [batch \in Batches(book) \cup {e.id} |->
                 IF batch = e.id THEN [product |-> e.data.product, on_hand |-> e.data.qty,
                                       cost |-> e.data.cost, expires |-> e.data.expires,
                                       received |-> e.at]
                 ELSE book.levels[batch]]]
      [] e.kind = "StockIssued" -> Moved(book, e, -e.data.qty)
      [] e.kind = "StockReturned" -> Moved(book, e, e.data.qty)
      [] e.kind = "BatchCounted" -> Counted(book, e)

-----------------------------------------------------------------------------
(***************************************************************************)
(* Questions about a list of levels.                                       *)
(***************************************************************************)

IsExpired(level, now) == now >= level.expires
ExpiresWithin(level, now, window) ==
    LET remaining == level.expires - now
    IN level.expires # NeverExpires /\ 0 < remaining /\ remaining <= window

OnHand(levels) == [n \in DOMAIN levels |-> levels[n].on_hand]
TotalOnHand(levels, places) == SumOver(OnHand(levels), places)

Fresh(levels, now) == {n \in DOMAIN levels : ~IsExpired(levels[n], now)}
SellableOnHand(levels, now) == TotalOnHand(levels, Fresh(levels, now))

\* First expired, first out; of one date the first received.
FefoBefore(a, b) ==
    \/ a.expires < b.expires
    \/ a.expires = b.expires /\ a.received < b.received
    \/ a.expires = b.expires /\ a.received = b.received /\ a.batch < b.batch

\* The levels at some places, each after those that go first; no batch has two.
Ahead(levels, places, n) == {m \in places : FefoBefore(levels[m], levels[n])}
InFefoOrder(levels, places) ==
    [k \in 1 .. Cardinality(places) |->
        levels[CHOOSE n \in places : Cardinality(Ahead(levels, places, n)) = k - 1]]

Expired(levels, now) ==
    InFefoOrder(levels,
                {n \in DOMAIN levels : IsExpired(levels[n], now) /\ levels[n].on_hand > 0})
ExpiringSoon(levels, now, window) ==
    InFefoOrder(levels,
                {n \in DOMAIN levels :
                    ExpiresWithin(levels[n], now, window) /\ levels[n].on_hand > 0})

\* Faulty variant: what has expired is taken as well.
UsableWhateverTheDate(levels, now) ==
    InFefoOrder(levels, {n \in DOMAIN levels : levels[n].on_hand > 0})

Usable(levels, now) ==
    InFefoOrder(levels, {n \in Fresh(levels, now) : levels[n].on_hand > 0})

\* Take from each in turn until there is enough; never from what expired.
Take(pick, level) ==
    LET taken == IF level.on_hand < pick.shortfall THEN level.on_hand ELSE pick.shortfall
    IN IF pick.shortfall = 0 THEN pick
       ELSE [allocations |-> Append(pick.allocations, [batch |-> level.batch, taken |-> taken]),
             shortfall |-> pick.shortfall - taken]
PickFefo(levels, wanted, now) ==
    Through(Take, [allocations |-> << >>, shortfall |-> IF wanted > 0 THEN wanted ELSE 0],
            IF wanted > 0 THEN Usable(levels, now) ELSE << >>)

-----------------------------------------------------------------------------
(***************************************************************************)
(* The outlet's movements, each [product, delta, device].                  *)
(***************************************************************************)

LevelOf(movements, product) ==
    TrySum([i \in DOMAIN movements |->
              IF movements[i].product = product THEN movements[i].delta ELSE 0])

\* A sale is never blocked; what it falls short by is said.
Short(on_hand, wanted) == IF wanted > on_hand THEN wanted - on_hand ELSE 0

\* Products whose movements add up to less than nothing, and who took them.
MovedProducts(movements) == {movements[i].product : i \in DOMAIN movements}
Takers(movements, product) ==
    {movements[i].device : i \in {j \in DOMAIN movements :
                                    movements[j].product = product /\ movements[j].delta < 0}}
Oversold(movements, product) ==
    [product |-> product, shortfall |-> -LevelOf(movements, product),
     devices |-> Takers(movements, product)]
DetectOversells(movements) ==
    {Oversold(movements, p) : p \in {q \in MovedProducts(movements) : LevelOf(movements, q) < 0}}
=============================================================================
