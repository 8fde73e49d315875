-------------------------------- MODULE Sale --------------------------------
(***************************************************************************)
(* A sale as its events make it: sahl-core's Sale, the lease on an open    *)
(* ticket, what the kitchen still has to be told, and the SaleBook that    *)
(* holds them all.  Everything here is a function of events; the tills     *)
(* that record and exchange the events are in Ticket.                      *)
(***************************************************************************)
EXTENDS Integers, Sequences, FiniteSets, SequencesExt

CONSTANTS
    Device,      \* the outlet's tills, numbered: a tie between claims goes to the lower
    MaxSales,    \* bound: how many sales are opened
    LeaseIdle    \* LEASE_IDLE_TIMEOUT_MILLIS, on the model's clock

ASSUME SaleAssumption ==
    /\ Device \subseteq Nat
    /\ LeaseIdle \in Nat
    /\ MaxSales \in Nat

\* Sale ids are UUIDv7, which grow: a sale is named by its turn.
Sales == 1 .. MaxSales

\* How a customer pays.  Every method but cash is charged exactly.
Method == {"cash", "card"}

Cash(method) == method = "cash"

-----------------------------------------------------------------------------
(***************************************************************************)
(* The lease.                                                              *)
(***************************************************************************)

NoLease == [holder |-> -1, claimed |-> 0]
Lease(device, at) == [holder |-> device, claimed |-> at]

\* Idleness is counted from the claim: nothing in the code calls touched.
Expired(lease, now) == now - lease.claimed >= LeaseIdle

\* evaluate_claim: why a device may or may not take a ticket.
Verdict(lease, device, now) ==
    IF lease = NoLease THEN "free"
    ELSE IF lease.holder = device THEN "already_held"
    ELSE IF Expired(lease, now) THEN "stale"
    ELSE "held"

\* Faulty variant: the later claim wins.
LatestClaim(first, second) ==
    IF second.claimed >= first.claimed THEN second ELSE first

\* Of two claims made apart the earlier wins, then the lower device.
ResolveContest(first, second) ==
    IF \/ first.claimed < second.claimed
       \/ first.claimed = second.claimed /\ first.holder <= second.holder
    THEN first ELSE second

-----------------------------------------------------------------------------
(***************************************************************************)
(* The aggregate.                                                          *)
(***************************************************************************)

NoTable == "none"

\* The sale as the event that opens it leaves it.
Opened(device) ==
    [status |-> "open", by |-> device, lines |-> <<>>, discount |-> 0,
     tenders |-> <<>>, settled |-> 0, change |-> 0, lease |-> NoLease,
     table |-> NoTable, fired |-> {}, rounds |-> 0]

\* What a book says of a sale it has not heard of.
NoSale == [status |-> "unknown"]

IsActive(line) == ~line.void
HasActiveLine(sale) == \E i \in 1 .. Len(sale.lines) : IsActive(sale.lines[i])
LineIds(sale) == {sale.lines[i].id : i \in 1 .. Len(sale.lines)}
LineOf(sale, id) == CHOOSE i \in 1 .. Len(sale.lines) : sale.lines[i].id = id

SumOf(value(_), seq) ==
    LET sum[i \in 0 .. Len(seq)] == IF i = 0 THEN 0 ELSE sum[i - 1] + value(seq[i])
    IN sum[Len(seq)]

\* A voided line comes to nothing.
LineValue(line) == IF IsActive(line) THEN line.price * line.qty ELSE 0
LeastOf(a, b) == IF a < b THEN a ELSE b

\* The VAT engine's total over active lines, in a tax-inclusive shop: what the
\* lines come to, less the order discount, which cannot exceed it.
Total(sale) ==
    LET subtotal == SumOf(LineValue, sale.lines)
    IN subtotal - LeastOf(sale.discount, subtotal)

Amount(tender) == tender.amount
CashAmount(tender) == IF Cash(tender.method) THEN tender.amount ELSE 0
NonCashAmount(tender) == IF Cash(tender.method) THEN 0 ELSE tender.amount

Tendered(sale) == SumOf(Amount, sale.tenders)
BalanceDue(sale) == Total(sale) - Tendered(sale)
ChangeDue(sale) == IF BalanceDue(sale) < 0 THEN - BalanceDue(sale) ELSE 0

\* Cash that should be in the drawer from this sale.
NetCash(sale) == SumOf(CashAmount, sale.tenders) - sale.change

\* assert_non_cash_within_total, with one more tender.
NonCashWithinTotal(sale, e) ==
    \/ ~HasActiveLine(sale)
    \/ SumOf(NonCashAmount, sale.tenders) + NonCashAmount(e) <= Total(sale)

\* Faulty variant: a completion is believed.
AcceptsTrusting(sale, e) ==
    /\ sale.status = "open"
    /\ CASE e.kind = "opened" -> FALSE
         [] e.kind = "line_added" -> e.at \notin LineIds(sale)
         [] e.kind = "quantity_changed" -> e.line \in LineIds(sale)
         [] e.kind = "line_voided" ->
              e.line \in LineIds(sale) /\ ~sale.lines[LineOf(sale, e.line)].void
         [] e.kind = "tender_recorded" -> e.amount > 0 /\ NonCashWithinTotal(sale, e)
         [] OTHER -> TRUE

\* Sale::apply: whether it takes the event.  A line's id is the moment it was
\* added.  A completion is recomputed, never trusted.
Accepts(sale, e) ==
    /\ sale.status = "open"
    /\ CASE e.kind = "opened" -> FALSE
         [] e.kind = "line_added" -> e.at \notin LineIds(sale)
         [] e.kind = "quantity_changed" -> e.line \in LineIds(sale)
         [] e.kind = "line_voided" ->
              e.line \in LineIds(sale) /\ ~sale.lines[LineOf(sale, e.line)].void
         [] e.kind = "tender_recorded" -> e.amount > 0 /\ NonCashWithinTotal(sale, e)
         [] e.kind = "completed" ->
              /\ HasActiveLine(sale)
              /\ Total(sale) = e.total
              /\ BalanceDue(sale) <= 0
              /\ ChangeDue(sale) = e.change
         [] OTHER -> TRUE

\* A claim takes a free ticket, renews its own, and contests another's.
Claimed(sale, e) ==
    LET claim == Lease(e.by, e.at)
    IN IF sale.lease # NoLease /\ sale.lease.holder # e.by
       THEN ResolveContest(sale.lease, claim)
       ELSE claim

\* Only the holder's release counts.
Released(sale, e) == IF sale.lease.holder = e.by THEN NoLease ELSE sale.lease

\* Sale::apply: what the event does to a sale that takes it.
Apply(sale, e) ==
    CASE e.kind = "line_added" ->
           [sale EXCEPT !.lines =
               Append(@, [id |-> e.at, price |-> e.price, qty |-> e.qty, void |-> FALSE])]
      [] e.kind = "quantity_changed" ->
           [sale EXCEPT !.lines[LineOf(sale, e.line)].qty = e.qty]
      [] e.kind = "line_voided" ->
           [sale EXCEPT !.lines[LineOf(sale, e.line)].void = TRUE]
      [] e.kind = "order_discounted" -> [sale EXCEPT !.discount = e.amount]
      [] e.kind = "tender_recorded" ->
           [sale EXCEPT !.tenders = Append(@, [method |-> e.method, amount |-> e.amount])]
      [] e.kind = "ticket_claimed" -> [sale EXCEPT !.lease = Claimed(sale, e)]
      [] e.kind = "ticket_released" -> [sale EXCEPT !.lease = Released(sale, e)]
      [] e.kind = "seated" -> [sale EXCEPT !.table = e.table]
      [] e.kind = "lines_fired" ->
           [sale EXCEPT !.fired = @ \cup e.lines,
                        !.rounds = IF @ < e.round THEN e.round ELSE @]
      [] e.kind = "completed" ->
           [sale EXCEPT !.status = "completed", !.settled = e.total, !.change = e.change]
      [] e.kind = "abandoned" -> [sale EXCEPT !.status = "abandoned"]

-----------------------------------------------------------------------------
(***************************************************************************)
(* The book.                                                               *)
(***************************************************************************)

EmptyBook == [k \in Sales |-> NoSale]

\* SaleBook::apply: whether the book takes the event.
BookAccepts(book, e) ==
    IF book[e.sale] = NoSale THEN e.kind = "opened" ELSE Accepts(book[e.sale], e)

BookApply(book, e) ==
    [book EXCEPT ![e.sale] = IF @ = NoSale THEN Opened(e.by) ELSE Apply(@, e)]

\* A tender is put on the sale before it is compared with the total, so one that
\* is refused there stays.  A recording works on a copy and throws it away.
RefusedTooLate(book, e) ==
    e.kind = "tender_recorded" /\ book[e.sale].status = "open" /\ e.amount > 0

\* A replay keeps what applies and skips the rest, in place.
ApplyOrSkip(book, e) ==
    IF BookAccepts(book, e) \/ RefusedTooLate(book, e) THEN BookApply(book, e) ELSE book

\* Faulty variant: an event that does not apply ends the replay.
ReplayUntilRefused(events) ==
    LET after[i \in 0 .. Len(events)] ==
            IF i = 0 THEN [ok |-> TRUE, book |-> EmptyBook]
            ELSE IF after[i - 1].ok /\ BookAccepts(after[i - 1].book, events[i])
                 THEN [ok |-> TRUE, book |-> BookApply(after[i - 1].book, events[i])]
                 ELSE [after[i - 1] EXCEPT !.ok = FALSE]
    IN after[Len(events)].book

\* The rebuild of Terminal::sync and Terminal::load, over events in order.
Replay(events) ==
    LET after[i \in 0 .. Len(events)] ==
            IF i = 0 THEN EmptyBook ELSE ApplyOrSkip(after[i - 1], events[i])
    IN after[Len(events)]

OpenSales(book) == {k \in Sales : book[k].status = "open"}

\* occupied_tables: a map filled in id order, so of two sales at one table the
\* later stands in it.  0 is no sale.
Occupant(book, table) ==
    LET sitting == {k \in OpenSales(book) : book[k].table = table}
    IN IF sitting = {} THEN 0 ELSE CHOOSE k \in sitting : \A j \in sitting : j <= k

\* pending: active lines no station was told about.
Pending(sale) == {sale.lines[i].id : i \in {j \in 1 .. Len(sale.lines) :
                      IsActive(sale.lines[j]) /\ sale.lines[j].id \notin sale.fired}}

\* cancellations: voided lines a station had been told about.
Cancellations(sale) == {sale.lines[i].id : i \in {j \in 1 .. Len(sale.lines) :
                            ~IsActive(sale.lines[j]) /\ sale.lines[j].id \in sale.fired}}
=============================================================================
