-------------------------------- MODULE Till --------------------------------
(***************************************************************************)
(* One till's durability: sahl-terminal's Terminal over its EventStore.    *)
(* An operation validates against memory, seals onto the in-memory chain,  *)
(* writes to disk, and only then adopts the new projections.  Opening the  *)
(* till rebuilds everything in memory from the events on disk, its own and *)
(* the siblings', in the order of the clocks that stamped them.            *)
(***************************************************************************)
EXTENDS Naturals, Sequences, FiniteSets, Functions

CONSTANTS
    Ticket,       \* the sales this till rings up
    Shift,        \* the shifts its cashiers open
    Foreign,      \* a sibling's tickets and shifts
    SiblingLog,   \* a sibling's chain: a sequence of [kind, ref]
    Backdates,    \* whether the clock may be set back before own events
    MaxClock,     \* bound: the latest reading of any clock
    MaxTip,       \* bound: how far the in-memory chain advances
    MaxFaults     \* bound: failed writes and restarts together

ASSUME TillAssumption ==
    /\ Backdates \in BOOLEAN
    /\ MaxClock \in Nat
    /\ MaxTip \in Nat
    /\ Ticket \cap Foreign = {}
    /\ Shift \cap Foreign = {}

VARIABLES
    own,      \* own events on disk, oldest first (origin = 'local')
    seen,     \* the sibling's events on disk (origin = 'remote')
    tip,      \* device_seq of the in-memory chain's tip
    fiscal,   \* the in-memory invoice counter
    book,     \* the SaleBook: what the till believes of each sale
    drawer,   \* the running shift in memory
    up,       \* whether Terminal::load succeeded
    clock,    \* the till's clock
    faults    \* how many faults have struck

tvars == <<own, seen, tip, fiscal, book, drawer, up, clock, faults>>

SaleKind == {"sale_opened", "sale_completed"}
ShiftKind == {"shift_opened", "shift_moved", "shift_counted", "shift_closed"}
Kind == SaleKind \cup ShiftKind \cup {"invoice"}

ASSUME SiblingAssumption == SiblingLog \in Seq([kind : Kind, ref : Foreign])

Sale == Ticket \cup Foreign
Dev == {"own", "sibling"}

\* An envelope: who sealed it, its place in that chain, when, and what it
\* says of which sale or shift.  n is an invoice's counter, of which zero means
\* none.
Event ==
    {e \in [dev : Dev, seq : Nat, at : Nat, kind : Kind,
            ref : Sale \cup Shift, n : Nat] :
        /\ e.kind \in ShiftKind => e.ref \in Shift \cup Foreign
        /\ e.kind \notin ShiftKind => e.ref \in Sale
        /\ e.kind = "invoice" <=> e.n # 0}

\* The running shift, or none.
NoShift == [open |-> FALSE]
Running(id, counted) == [open |-> TRUE, id |-> id, counted |-> counted]
Drawer == {NoShift} \cup [open : {TRUE}, id : Shift \cup Foreign, counted : BOOLEAN]

-----------------------------------------------------------------------------
(***************************************************************************)
(* Replay: what a set of stored events amounts to.                         *)
(***************************************************************************)

\* load_projection_input's order: occurred_at, then event_id.  One device's
\* ids grow; between devices a tie may fall either way, here own events first.
Earlier(e, f) ==
    \/ e.at < f.at
    \/ /\ e.at = f.at
       /\ IF e.dev = f.dev THEN e.seq < f.seq ELSE e.dev = "own"

Of(S, kinds) == {e \in S : e.kind \in kinds}

\* The last event of S in that order, as a set of at most one.
Latest(S) == {e \in S : \A f \in S \ {e} : Earlier(f, e)}

\* The SaleBook over S.  A completion that comes before its opening does not
\* apply, and is skipped.
BookOf(S) ==
    [s \in Sale |->
        LET opened == {e \in Of(S, {"sale_opened"}) : e.ref = s}
            completed == {e \in Of(S, {"sale_completed"}) : e.ref = s}
        IN IF opened = {} THEN "unknown"
           ELSE IF \E o \in opened, c \in completed : Earlier(o, c) THEN "completed"
           ELSE "open"]

\* Faulty variant: any device's last invoice continues the counter.
FiscalTipOfAnyone(S) ==
    IF Of(S, {"invoice"}) = {} THEN 0
    ELSE (CHOOSE e \in Latest(Of(S, {"invoice"})) : TRUE).n

\* The counter of this device's last invoice.
FiscalTip(S) ==
    LET mine == {e \in Of(S, {"invoice"}) : e.dev = "own"}
    IN IF mine = {} THEN 0 ELSE (CHOOSE e \in Latest(mine) : TRUE).n

\* The shift that the last shift event belongs to, of whatever device.
LastStream(S) ==
    LET shifts == Of(S, ShiftKind)
    IN {e \in shifts : \E last \in Latest(shifts) : last.ref = e.ref}

\* Shift::replay accepts a stream that opens once, first, and adds nothing
\* after a close, which must follow a count.
Replays(T) ==
    /\ \E o \in Of(T, {"shift_opened"}) : \A e \in T \ {o} :
          Earlier(o, e) /\ e.kind # "shift_opened"
    /\ \A c \in Of(T, {"shift_closed"}) :
          /\ \A e \in T \ {c} : Earlier(e, c)
          /\ Of(T, {"shift_counted"}) # {}

\* latest_open_shift, on a stream that replays.
DrawerOf(S) ==
    LET T == LastStream(S)
        counted == Of(T, {"shift_counted"}) # {}
    IN IF T = {} \/ Of(T, {"shift_closed"}) # {} THEN NoShift
       ELSE Running((CHOOSE e \in T : TRUE).ref, counted)

\* The hash chain of own events: numbered from one without a gap.
ChainVerifies == \A i \in 1 .. Len(own) : own[i].seq = i

Stored == Range(own) \cup seen

-----------------------------------------------------------------------------
\* A freshly enrolled till, its database empty.
Init ==
    /\ own = <<>>
    /\ seen = {}
    /\ tip = 0
    /\ fiscal = 0
    /\ book = [s \in Sale |-> "unknown"]
    /\ drawer = NoShift
    /\ up = TRUE
    /\ clock = 0
    /\ faults = 0

Sealed(i, kind, ref, n) ==
    [dev |-> "own", seq |-> tip + i, at |-> clock, kind |-> kind, ref |-> ref, n |-> n]

\* Faulty variant: the store takes whatever it is given.
FollowsAnything == TRUE

\* append_within: the event's number must follow the disk's tip.
Follows == tip = Len(own)

\* The events were sealed and are on disk, all of them.
Persisted(events) ==
    /\ Follows
    /\ own' = own \o events
    /\ UNCHANGED faults

\* The events were sealed, and the write was refused or failed: none is on
\* disk, and the in-memory chain is past them all the same.
NotPersisted ==
    /\ UNCHANGED own
    /\ \/ ~Follows /\ UNCHANGED faults
       \/ Follows /\ faults < MaxFaults /\ faults' = faults + 1

\* Every operation runs on an open till and advances the in-memory chain.
Seals(count) ==
    /\ up
    /\ tip + count <= MaxTip
    /\ tip' = tip + count
    /\ UNCHANGED <<seen, up, clock>>

OpenSale(s) ==
    /\ s \in Ticket
    /\ book[s] = "unknown"
    /\ Seals(1)
    /\ \/ /\ Persisted(<<Sealed(1, "sale_opened", s, 0)>>)
          /\ book' = [book EXCEPT ![s] = "open"]
       \/ NotPersisted /\ UNCHANGED book
    /\ UNCHANGED <<fiscal, drawer>>

\* Faulty variant: the invoice bears the counter of the tip it follows.
CompletionUnnumbered(s) ==
    <<Sealed(1, "sale_completed", s, 0), Sealed(2, "invoice", s, fiscal)>>

Completion(s) ==
    <<Sealed(1, "sale_completed", s, 0), Sealed(2, "invoice", s, fiscal + 1)>>

\* Faulty variant: the invoice is sealed on the live fiscal chain.
CompleteSaleOnLiveChain(s) ==
    /\ book[s] = "open"
    /\ Seals(2)
    /\ fiscal' = fiscal + 1
    /\ \/ /\ Persisted(Completion(s))
          /\ book' = [book EXCEPT ![s] = "completed"]
       \/ NotPersisted /\ UNCHANGED book
    /\ UNCHANGED drawer

\* Faulty variant: two appends, the second of which may fail.
CompleteSaleInTwoWrites(s) ==
    /\ book[s] = "open"
    /\ Seals(2)
    /\ \/ /\ Persisted(Completion(s))
          /\ book' = [book EXCEPT ![s] = "completed"]
          /\ fiscal' = fiscal + 1
       \/ /\ Follows
          /\ faults < MaxFaults
          /\ faults' = faults + 1
          /\ own' = Append(own, Completion(s)[1])
          /\ UNCHANGED <<book, fiscal>>
       \/ NotPersisted /\ UNCHANGED <<book, fiscal>>
    /\ UNCHANGED drawer

\* complete_sale: the completion and its invoice in one transaction, the
\* invoice sealed on a copy of the fiscal chain.
CompleteSale(s) ==
    /\ book[s] = "open"
    /\ Seals(2)
    /\ \/ /\ Persisted(Completion(s))
          /\ book' = [book EXCEPT ![s] = "completed"]
          /\ fiscal' = fiscal + 1
       \/ NotPersisted /\ UNCHANGED <<book, fiscal>>
    /\ UNCHANGED drawer

\* The tail of record_shift: seal, persist, adopt.
RecordShift(kind, id, next) ==
    /\ Seals(1)
    /\ \/ Persisted(<<Sealed(1, kind, id, 0)>>) /\ drawer' = next
       \/ NotPersisted /\ UNCHANGED drawer
    /\ UNCHANGED <<fiscal, book>>

\* A shift opens over no running one, under an id never used.
OpenShift(id) ==
    /\ ~drawer.open
    /\ \A e \in Stored : e.ref # id
    /\ RecordShift("shift_opened", id, Running(id, FALSE))

MoveCash ==
    /\ drawer.open
    /\ RecordShift("shift_moved", drawer.id, drawer)

CountDrawer ==
    /\ drawer.open
    /\ RecordShift("shift_counted", drawer.id, Running(drawer.id, TRUE))

\* No close without a count.
CloseShift ==
    /\ drawer.open
    /\ drawer.counted
    /\ RecordShift("shift_closed", drawer.id, NoShift)

\* A sync round stores the sibling's next event, stamped by the sibling's own
\* clock, and rebuilds the book; nothing else in memory is rebuilt.
Learn ==
    LET k == Cardinality(seen) + 1
        counters == {e.n : e \in Of(seen, {"invoice"})}
    IN /\ up
       /\ k <= Len(SiblingLog)
       /\ \E at \in 0 .. MaxClock :
             /\ \A e \in seen : e.at <= at
             /\ seen' = seen \cup
                  {[dev |-> "sibling", seq |-> k, at |-> at,
                    kind |-> SiblingLog[k].kind, ref |-> SiblingLog[k].ref,
                    n |-> IF SiblingLog[k].kind = "invoice"
                          THEN Cardinality(counters) + 1 ELSE 0]}
       /\ book' = BookOf(Range(own) \cup seen')
       /\ UNCHANGED <<own, tip, fiscal, drawer, up, clock, faults>>

\* Faulty variant: a restart comes back without the drawer.
LoadWithoutDrawer ==
    /\ up' = (ChainVerifies /\ (LastStream(Stored) = {} \/ Replays(LastStream(Stored))))
    /\ IF up'
       THEN /\ tip' = Len(own)
            /\ book' = BookOf(Stored)
            /\ fiscal' = FiscalTip(Stored)
            /\ drawer' = NoShift
       ELSE UNCHANGED <<tip, book, fiscal, drawer>>

\* Terminal::load: verify the own chain, replay everything stored, resume
\* both chains.  A shift stream that does not replay refuses the start.
Load ==
    /\ up' = (ChainVerifies /\ (LastStream(Stored) = {} \/ Replays(LastStream(Stored))))
    /\ IF up'
       THEN /\ tip' = Len(own)
            /\ book' = BookOf(Stored)
            /\ fiscal' = FiscalTip(Stored)
            /\ drawer' = DrawerOf(Stored)
       ELSE UNCHANGED <<tip, book, fiscal, drawer>>

\* Power loss or the application reopened, at any moment.
Restart ==
    /\ faults < MaxFaults
    /\ faults' = faults + 1
    /\ Load
    /\ UNCHANGED <<own, seen, clock>>

Tick ==
    /\ clock < MaxClock
    /\ clock' = clock + 1
    /\ UNCHANGED <<own, seen, tip, fiscal, book, drawer, up, faults>>

\* Somebody, or a time server, sets the clock back.
StepBack ==
    /\ \E t \in 0 .. clock :
          /\ Backdates \/ \A e \in Range(own) : e.at <= t
          /\ clock' = t
    /\ UNCHANGED <<own, seen, tip, fiscal, book, drawer, up, faults>>

Next ==
    \/ \E s \in Ticket : OpenSale(s) \/ CompleteSale(s)
    \/ \E id \in Shift : OpenShift(id)
    \/ MoveCash \/ CountDrawer \/ CloseShift
    \/ Learn \/ Restart \/ Tick \/ StepBack

Spec == Init /\ [][Next]_tvars

-----------------------------------------------------------------------------
(***************************************************************************)
(* What the till promises its merchant.                                    *)
(***************************************************************************)

\* The kinds of fact on disk and in memory.
TillTypeOK ==
    /\ own \in Seq(Event)
    /\ seen \subseteq Event
    /\ tip \in Nat
    /\ fiscal \in Nat
    /\ book \in [Sale -> {"unknown", "open", "completed"}]
    /\ drawer \in Drawer
    /\ up \in BOOLEAN
    /\ clock \in Nat
    /\ faults \in Nat

\* The screen and the disk agree: what an open till believes of its sales,
\* its invoices and its drawer is what a replay of the disk would say, so a
\* crash at any moment neither loses nor invents anything.
MemoryIsReplay ==
    up => /\ book = BookOf(Stored)
          /\ fiscal = FiscalTip(Stored)
          /\ drawer = DrawerOf(Stored)

\* The own chain on disk has no gap, whatever writes failed before.
DiskUnbroken == ChainVerifies

\* Invoices of this device are numbered 1, 2, 3 ... in the order they were
\* issued: no number is burnt or issued twice.
InvoicesGapless ==
    \A i \in 1 .. Len(own) : own[i].kind = "invoice" =>
        own[i].n = Cardinality({j \in 1 .. i : own[j].kind = "invoice"})

\* A completed sale has one invoice, right after it, and no sale has two.
OneInvoicePerSale ==
    /\ \A i \in 1 .. Len(own) : own[i].kind = "sale_completed" =>
          /\ i < Len(own)
          /\ own[i + 1].kind = "invoice"
          /\ own[i + 1].ref = own[i].ref
    /\ \A i, j \in 1 .. Len(own) :
          (own[i].kind = "invoice" /\ own[j].kind = "invoice" /\ own[i].ref = own[j].ref)
             => i = j

\* There is one drawer: of two shifts this till opened, the earlier one was
\* closed before the later one was opened.
OneDrawer ==
    \A i, j \in 1 .. Len(own) :
        (i < j /\ own[i].kind = "shift_opened" /\ own[j].kind = "shift_opened")
           => \E k \in i .. j : own[k].kind = "shift_closed" /\ own[k].ref = own[i].ref

\* The till always starts again.
BootsAgain == up

\* After a failed write the till carries on where the disk left off.
CarriesOn == up => tip = Len(own)
=============================================================================
