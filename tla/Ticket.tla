------------------------------- MODULE Ticket -------------------------------
(***************************************************************************)
(* The tickets of an outlet, worked on from several tills: the commands of *)
(* sahl-terminal that ring, seat, fire, pay and close a sale, each of      *)
(* which reads the till under its lock and records under it a second time, *)
(* and the sync rounds that bring a sibling's events in between and        *)
(* rebuild the book.  Clocks agree here, and no write fails.               *)
(***************************************************************************)
EXTENDS Sale, TLC

CONSTANTS
    Price,       \* unit prices on the menu
    Qty,         \* quantities a cashier keys in
    Discount,    \* amounts taken off an order
    Tender,      \* amounts handed over
    Table,       \* tables on the floor plan
    MaxEvents    \* bound: events recorded by all tills together

ASSUME TicketAssumption ==
    /\ Price \subseteq Int /\ Qty \subseteq Int /\ Discount \subseteq Int /\ Tender \subseteq Int
    /\ MaxEvents \in Nat

VARIABLES
    clock,    \* the tills' common clock: every event has a moment of its own
    store,    \* per till, its own and the learnt events, in order of time
    book,     \* per till, the SaleBook in memory
    doing,    \* per till, the event a command under way is about to record
    slips     \* what came out of the station printers

vars == <<clock, store, book, doing, slips>>

Nothing == [kind |-> "nothing"]

Idle(t) == doing[t] = Nothing

Known(t) == Range(store[t])

\* The events a till sealed itself.
Own(t) == {e \in Known(t) : e.by = t}

EverRecorded == UNION {Own(t) : t \in Device}

Init ==
    /\ clock = 0
    /\ store = [t \in Device |-> <<>>]
    /\ book = [t \in Device |-> EmptyBook]
    /\ doing = [t \in Device |-> Nothing]
    /\ slips = {}

-----------------------------------------------------------------------------
(***************************************************************************)
(* Recording.                                                              *)
(***************************************************************************)

\* assert_may_write: not on a ticket a sibling is actively holding.
MayWrite(t, e) ==
    (e.kind \notin {"opened", "ticket_claimed"} /\ book[t][e.sale] # NoSale)
        => Verdict(book[t][e.sale].lease, t, clock) # "held"

\* Faulty variant: the event is on disk, the book in memory is not moved on.
RecordsWithoutAdopting(t, e) ==
    /\ MayWrite(t, e)
    /\ BookAccepts(book[t], e)
    /\ store' = [store EXCEPT ![t] = Append(@, e)]
    /\ book' = IF e.kind = "lines_fired" THEN book
               ELSE [book EXCEPT ![t] = BookApply(@, e)]
    /\ clock' = clock + 1

\* Terminal::record: guard, validate on a copy, persist, adopt.
Records(t, e) ==
    /\ MayWrite(t, e)
    /\ BookAccepts(book[t], e)
    /\ store' = [store EXCEPT ![t] = Append(@, e)]
    /\ book' = [book EXCEPT ![t] = BookApply(@, e)]
    /\ clock' = clock + 1

\* What every event carries: it was recorded now, by this till, on this sale.
Stamp(t, k, kind) == [at |-> clock, by |-> t, sale |-> k, kind |-> kind]

\* The commands that read nothing before they record.
Command(t, e) ==
    /\ Idle(t)
    /\ clock < MaxEvents
    /\ Records(t, e)
    /\ UNCHANGED <<doing, slips>>

\* A command that read the till, and has let go of the lock.
Prepares(t, e) ==
    /\ Idle(t)
    /\ clock < MaxEvents
    /\ doing' = [doing EXCEPT ![t] = e]
    /\ UNCHANGED <<clock, store, book, slips>>

\* The second half of such a command: what it prepared is recorded, at the time
\* it is by now, or refused if the book has moved on.
FinishCommand(t) ==
    LET e == [doing[t] EXCEPT !.at = clock]
    IN /\ ~Idle(t)
       /\ clock < MaxEvents
       /\ doing' = [doing EXCEPT ![t] = Nothing]
       /\ IF MayWrite(t, e) /\ BookAccepts(book[t], e)
          THEN Records(t, e)
          ELSE UNCHANGED <<clock, store, book>>
       /\ UNCHANGED slips

-----------------------------------------------------------------------------
(***************************************************************************)
(* The commands.                                                           *)
(***************************************************************************)

OpenSale(t) ==
    LET k == Cardinality({e \in EverRecorded : e.kind = "opened"}) + 1
    IN k \in Sales /\ Command(t, Stamp(t, k, "opened"))

\* add_line: the same supply on an active line becomes "two of those", and the
\* sum is what gets recorded.  The options chosen are compared with, and then
\* left out of, the new line: a line with options never merges.
AddLine(t, k, price, qty, options) ==
    LET sale == book[t][k]
        same == {i \in 1 .. Len(sale.lines) :
                    IsActive(sale.lines[i]) /\ sale.lines[i].price = price /\ ~options}
    IN /\ sale # NoSale
       /\ IF same = {}
          THEN Prepares(t, [at |-> clock, by |-> t, sale |-> k, kind |-> "line_added",
                            price |-> price, qty |-> qty])
          ELSE LET i == CHOOSE i \in same : \A j \in same : i <= j
               IN Prepares(t, [at |-> clock, by |-> t, sale |-> k, kind |-> "quantity_changed",
                               line |-> sale.lines[i].id, qty |-> sale.lines[i].qty + qty])

ChangeQuantity(t, k, line, qty) ==
    Command(t, [at |-> clock, by |-> t, sale |-> k, kind |-> "quantity_changed",
                line |-> line, qty |-> qty])

\* Who may void and discount is the business of People.
VoidLine(t, k, line) ==
    Command(t, [at |-> clock, by |-> t, sale |-> k, kind |-> "line_voided", line |-> line])

DiscountOrder(t, k, amount) ==
    Command(t, [at |-> clock, by |-> t, sale |-> k, kind |-> "order_discounted",
                amount |-> amount])

RecordTender(t, k, method, amount) ==
    Command(t, [at |-> clock, by |-> t, sale |-> k, kind |-> "tender_recorded",
                method |-> method, amount |-> amount])

\* complete_sale: the total and the change are read first.
CompleteSale(t, k) ==
    LET sale == book[t][k]
    IN /\ sale # NoSale
       /\ HasActiveLine(sale)
       /\ Prepares(t, [at |-> clock, by |-> t, sale |-> k, kind |-> "completed",
                       total |-> Total(sale), change |-> ChangeDue(sale)])

AbandonSale(t, k) == Command(t, Stamp(t, k, "abandoned"))

\* discard_empty_tickets: the empty ones are listed first, then abandoned one
\* by one, each under the lock again.
DiscardEmpty(t, k) ==
    /\ book[t][k].status = "open"
    /\ ~HasActiveLine(book[t][k])
    /\ Prepares(t, Stamp(t, k, "abandoned"))

\* Faulty variant: whether the table is free is not asked.
SeatAnywhere(t, k, table) ==
    Prepares(t, [at |-> clock, by |-> t, sale |-> k, kind |-> "seated", table |-> table])

\* seat_sale: refused when another ticket is seen at the table.
SeatSale(t, k, table) ==
    /\ Occupant(book[t], table) \in {0, k}
    /\ Prepares(t, [at |-> clock, by |-> t, sale |-> k, kind |-> "seated", table |-> table])

\* The slips one press of "send" prints: the orders, and every cancellation.
Slips(t, k) ==
    LET sale == book[t][k]
        slip(kind, line) == [by |-> t, at |-> clock, kind |-> kind, line |-> line]
    IN {slip("order", line) : line \in Pending(sale)}
         \cup {slip("cancellation", line) : line \in Cancellations(sale)}

\* fire_kitchen, under one lock: the new lines are recorded as sent, and then
\* everything is printed.  Cancellations are printed and not recorded.
FireKitchen(t, k) ==
    LET sale == book[t][k]
        fired == [at |-> clock, by |-> t, sale |-> k, kind |-> "lines_fired",
                  lines |-> Pending(sale), round |-> sale.rounds + 1]
    IN /\ Idle(t)
       /\ sale # NoSale
       /\ Slips(t, k) # {}
       /\ IF Pending(sale) = {}
          THEN UNCHANGED <<clock, store, book>>
          ELSE clock < MaxEvents /\ Records(t, fired)
       /\ slips' = slips \cup Slips(t, k)
       /\ UNCHANGED doing

\* Terminal::record takes claims and releases; no command records one yet.
ClaimTicket(t, k) == Command(t, Stamp(t, k, "ticket_claimed"))
ReleaseTicket(t, k) == Command(t, Stamp(t, k, "ticket_released"))

-----------------------------------------------------------------------------
(***************************************************************************)
(* Syncing.                                                                *)
(***************************************************************************)

\* Events in order of time: each comes after those that happened before it.
InOrder(events) ==
    [i \in 1 .. Cardinality(events) |->
        CHOOSE e \in events : Cardinality({f \in events : f.at < e.at}) = i - 1]

\* The store with more events, each in its place by time.
Merged(events, news) == InOrder(Range(events) \cup news)

\* What till t may learn from till s, in one go: the next of the events s
\* sealed, up to some moment.
Learnable(t, s) ==
    LET news == Own(s) \ Known(t)
    IN {{e \in news : e.at <= last.at} : last \in news}

\* Faulty variant: what was learnt is applied on top of the book.
LearnOnTop(t) ==
    \E s \in Device \ {t} :
        \E news \in Learnable(t, s) :
            /\ store' = [store EXCEPT ![t] = Merged(@, news)]
            /\ book' = [book EXCEPT ![t] = FoldLeft(ApplyOrSkip, @, InOrder(news))]
            /\ UNCHANGED <<clock, doing, slips>>

\* A sync round stores the next events of a sibling and rebuilds the book; a
\* command of this till may be between its two locks.
Learn(t) ==
    \E s \in Device \ {t} :
        \E news \in Learnable(t, s) :
            /\ store' = [store EXCEPT ![t] = Merged(@, news)]
            /\ book' = [book EXCEPT ![t] = Replay(store'[t])]
            /\ UNCHANGED <<clock, doing, slips>>

\* The application starts again: the command under way is gone.
Restart(t) ==
    /\ ~Idle(t)
    /\ doing' = [doing EXCEPT ![t] = Nothing]
    /\ book' = [book EXCEPT ![t] = Replay(store[t])]
    /\ UNCHANGED <<clock, store, slips>>

RingUp(t, k) ==
    \/ \E price \in Price, qty \in Qty, options \in BOOLEAN : AddLine(t, k, price, qty, options)
    \/ \E line \in 0 .. MaxEvents :
          (\E qty \in Qty : ChangeQuantity(t, k, line, qty)) \/ VoidLine(t, k, line)
    \/ \E amount \in Discount : DiscountOrder(t, k, amount)
    \/ \E method \in Method, amount \in Tender : RecordTender(t, k, method, amount)
    \/ CompleteSale(t, k) \/ AbandonSale(t, k) \/ DiscardEmpty(t, k)

Serve(t, k) ==
    \/ \E table \in Table : SeatSale(t, k, table)
    \/ FireKitchen(t, k) \/ ClaimTicket(t, k) \/ ReleaseTicket(t, k)

Step(t) ==
    \/ OpenSale(t) \/ FinishCommand(t) \/ Learn(t) \/ Restart(t)
    \/ \E k \in Sales : RingUp(t, k) \/ Serve(t, k)

Next == \E t \in Device : Step(t)

Spec == Init /\ [][Next]_vars

-----------------------------------------------------------------------------
(***************************************************************************)
(* What the tickets promise.                                               *)
(***************************************************************************)

\* What a till shows of its tickets is what a replay of its disk would show,
\* though own events are folded in as they are recorded and a sibling's are put
\* in their place in time (Terminal::record and Terminal::sync).
BookIsReplay == \A t \in Device : book[t] = Replay(store[t])

\* Whatever was voided, discounted, re-keyed or learnt on the way, a completed
\* sale was settled for what its lines come to, and what was handed over less
\* the change is exactly that (Sale::apply recomputes a completion).
SettledIsPriced ==
    \A t \in Device, k \in Sales :
        book[t][k].status = "completed" =>
            /\ book[t][k].settled = Total(book[t][k])
            /\ book[t][k].change >= 0
            /\ Tendered(book[t][k]) - book[t][k].change = book[t][k].settled

\* No till sends a line to the kitchen as an order twice, across rounds, voids
\* and rebuilds (fire_kitchen: "a duplicate is food in the bin").
KitchenOnce ==
    \A s1, s2 \in slips :
        (s1.kind = "order" /\ s2.kind = "order" /\ s1.by = s2.by /\ s1.line = s2.line)
            => s1 = s2

\* Whether the till has heard of a sibling writing to the ticket.
Contested(t, k) == \E e \in Known(t) : e.sale = k /\ e.by # t

\* Two open tickets share a table only when a sibling had a hand in one of them:
\* a till working alone never puts two parties on one table, though it checks
\* under one lock and writes under the next, and rebuilds its book in between
\* (seat_sale: "a bill nobody can split").
OwnTablesApart ==
    \A t \in Device : \A j, k \in OpenSales(book[t]) :
        (j # k /\ book[t][j].table # NoTable /\ book[t][j].table = book[t][k].table)
            => Contested(t, j) \/ Contested(t, k)

ClaimsOn(t, k) == {e \in Known(t) : e.sale = k /\ e.kind = "ticket_claimed"}
ReleasedEver(t, k) == \E e \in Known(t) : e.sale = k /\ e.kind = "ticket_released"

\* Whatever order the claims on an open ticket arrived in, the till that claimed
\* it first holds it on every till that has heard of that claim, until it lets
\* go (lease.rs: "Resolves it identically everywhere").
FirstClaimHolds ==
    \A t \in Device : \A k \in OpenSales(book[t]) :
        ~ReleasedEver(t, k) =>
            \A first \in ClaimsOn(t, k) :
                (\A e \in ClaimsOn(t, k) : first.at <= e.at)
                    => book[t][k].lease.holder = first.by

\* A ticket that only the till which opened it has written to is a bill in the
\* customer's sense, whatever is learnt meanwhile and whatever becomes of the
\* contested tickets beside it.
Writers(k) ==
    {t \in Device : \E i \in 1 .. Len(store[t]) : store[t][i].by = t /\ store[t][i].sale = k}

BillState == [open |-> "open", completed |-> "settled", abandoned |-> "dropped"]

BillOf(k) ==
    IF Writers(k) = {}
    THEN [state |-> "none", owed |-> 0, paid |-> 0, change |-> 0]
    ELSE IF Cardinality(Writers(k)) > 1
    THEN [state |-> "disputed", owed |-> 0, paid |-> 0, change |-> 0]
    ELSE LET t == CHOOSE t \in Writers(k) : TRUE
             sale == book[t][k]
         IN IF sale = NoSale
            THEN [state |-> "none", owed |-> 0, paid |-> 0, change |-> 0]
            ELSE [state |-> BillState[sale.status], owed |-> Total(sale),
                  paid |-> Tendered(sale), change |-> sale.change]

Customer == INSTANCE Bill WITH bill <- [k \in Sales |-> BillOf(k)]
ImplementsBill == Customer!Spec

\* A sale a till completed, and invoiced, stays completed (SaleStatus: "Paid and
\* closed. Immutable.").
CompletedIsFinal ==
    \A t \in Device : \A e \in Own(t) :
        e.kind = "completed" => book[t][e.sale].status = "completed"
=============================================================================
