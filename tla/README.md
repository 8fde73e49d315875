# Sahl: a verification project

Sahl is an offline-first point of sale: tills that sell without a network, seal every event onto a
per-device hash chain, push it to a server when they can, and learn each other's sales from it.
The repository has no design document; the rationale is in the comments of the Rust crates, and
that code is the reference for everything here.

## Inventory

| Component | State it keeps | Operations | Modelled in |
|---|---|---|---|
| Sync protocol, batch planning (`sahl-sync`) | none, pure | `plan_batch`, which refusals are retryable | SahlSync |
| Sync engine, scheduler, HTTP (`sahl-terminal/src/sync`) | the thread, the request under way | a round: push, acknowledge, pull, apply, advance; retry or stop | SahlSync |
| Event store (`sahl-terminal/src/store`) | SQLite: own events, siblings' events, `synced_at`, pull cursor | `append`, `append_all`, `mark_synced`, `insert_remote`, `set_pull_cursor` | SahlSync, Till, Shop |
| Till core (`terminal.rs`) | in-memory chain, projections, fiscal chain, running shift, session | `load`, `record*`, `complete_sale`, `sync`, `sign_in` | Till, SahlSync, Ticket, Shop |
| Server ingest and routes (`sahl-server/src/sync`, `routes`) | PostgreSQL: device tips, events with `server_seq`, `revoked_at` | authenticate, push, pull | SahlSync |
| Event chain (`sahl-core/src/event`) | tip | `append`, `verify_chain` | SahlSync, Till |
| Sale, lease, sale book, kitchen (`sale`, `policy/lease.rs`, `projection`, `kitchen`) | one aggregate per sale, its lease, the lines fired | lines, discounts, voids, tenders, completion, claims, seating, firing | Sale, Ticket, Bill |
| Till commands (`commands/mod.rs`) | a command between its two locks | one per button | Ticket, Shop |
| Shift and drawer (`shift`) | one aggregate per shift | open, move cash, count, close, replay, report | Till, Reports |
| Fiscal chain and documents (`ledger`, `sahl-fiscal`) | counter and last hash | seal, resume, verify, issue | Till, Paper |
| Stock (`inventory`, `policy/stock.rs`) | batches with their levels and costs, variances | receive, issue, return, count, pick | Stock, Shop |
| Purchasing (`purchasing`) | orders and transfers | place, receive, close | Purchasing, Shop |
| Staff (`staff`) | directory of people, roles, PINs; the session | enrol, sign in, approve, limit | People, Shop |
| Catalogue, floor, outlet (`catalogue`, `floor`, `outlet`) | products, tables, settings | add, change, withdraw, restore, import, configure | Catalogue, Outlet, Shop |
| Money, tax, quantity (`money`, `tax`, `sale/split.rs`) | none, pure | round, allocate, price, tax, split | Money, Tax |
| Reports, audit, anomaly scan (`report`, `staff/audit.rs`, `anomaly`) | none, pure | day, shift report, feeds | Reports |
| Scale labels (`scale`) | none, pure | parse, weigh, scan | Scale |
| Receipts (`sahl-escpos/src/receipt.rs`, `document.rs`) | none, pure | what is printed, and where on the roll | Paper |
| Enrolment (`routes/enroll.rs`, `device`, `enrollment.rs`) | tokens, device rows, `device.json` | issue, present, consume, insert, store, verify | Enrolment |
| Dashboard routes (`routes/reports.rs`) | dashboard tokens | read a day, list outlets | Dashboard |
| Printer transport, messaging, Svelte screens, bridge, seed data | none the log depends on | I/O, wording, tooling | not modelled |

How they interact: a cashier's command locks the till, reads, lets go, locks again and calls one of
the recording operations. The sync thread takes the same lock for a whole round and talks to the
server inside it. The server runs each request in one transaction. Tills learn of each other only
through the server. Every projection is a fold of events, done twice in the code: one by one as they
are recorded, and all at once, in order of the clocks, when a till is loaded.

What is hard here: requests that are lost, late or repeated while the server's transaction is still
open; two transactions of one device; sequence numbers that become visible out of order; restarts
between any two steps; a database file restored from a backup; revocation while requests are under
way; failed disk writes between memory and disk; clocks that step back; commands that read under one
lock and record under the next while a sync round moves the book in between; two tills that work on
one ticket, one order, one table or one barcode while apart; rounding at every step of a bill that
must add up at the end. `PROJECT.json` lists each hazard at its line, with the properties that watch
it.

What makes each part correct: nothing recorded is lost from the queue, the server never rewrites
history, every till eventually learns every sale (sync); memory and disk never disagree, invoice
numbers have no gap and no repeat, there is one drawer (till); a bill is settled once for what it
comes to, tills agree who holds an order, food is ordered once (tickets); whatever is on a shelf is
explained, deliveries and orders match, changes are made by those who may (back office); figures
add up to the last minor unit wherever they are restated (calculators); one token makes one device
(enrolment); the owner's screen says what the till says (dashboard).

## Modules

| Module | What it is |
|---|---|
| `OutletLog` | abstract: what the sync protocol promises of an outlet's log |
| `SahlSync` | tills, their sync threads, HTTP exchanges and the server; implements `OutletLog` |
| `SahlRestore` | extends it with disks that are put back to an earlier copy |
| `Till` | one till's durability: operations, failed writes, restarts and clocks |
| `Sale` | a sale as a fold of its events, with its lease, and the book of sales |
| `Bill` | abstract: what a bill is to the customer who pays it |
| `Ticket` | several tills working on open tickets, their commands and sync rounds; implements `Bill` |
| `Dashboard` | extends `Ticket` with what the server's day report answers |
| `Stock`, `Purchasing`, `People`, `Catalogue`, `Outlet` | the back office's aggregates as folds of events, with the questions asked of them |
| `Shop` | two tills' back offices over those: commands, failed writes, syncing, restarts |
| `Money`, `Tax`, `Scale`, `Reports`, `Paper` | the calculations |
| `Rules` | every calculation asked over given inputs, and what the answers owe each other |
| `Enrolment` | tokens, device rows, tills and their credentials, either process dying anywhere |
| `MC...` | one per specification, gives the constants values for TLC |
| `Folding` | what a sequence comes to when it is gone through from the front, with its induction; replays and sums are instances |
| `SahlSyncProofs`, `TillProofs`, `TicketProofs`, `EnrolmentProofs`, `ShopProofs`, `ShopReplayProofs`, `RulesProofs` | the theorems |

A definition with the comment "Faulty variant" is not part of the specification: it is the code with
a plausible bug, kept beside the definition it varies, to show that the properties tell the two
apart.

### SahlSync and the code

`log` is the table's own rows, `synced` the length of the prefix with `synced_at` set, `remote` the
siblings' rows, `cursor` is `sync_state.pull_cursor`, `book` the siblings' events that the live
`SaleBook` was built from. `held`, `pos` and `nextSeq` are the server's rows, their `server_seq` and
the `BIGSERIAL`; the device's stored tip is the end of `held`, since both move in one commit.
`thread` is the program counter of the scheduler's loop, `conn` the state of each HTTP exchange.

A hash covers its predecessor's hash, so it names the whole history up to its event: chains are
sequences of payloads, and a hash comparison is a prefix comparison. A batch therefore carries the
chain it was cut from, of which only the part from `first` on is sent. A sibling's event is named
by its device and its place; `verify` on it cannot fail, because nothing here tampers.

| Action | Code |
|---|---|
| `Record` | `Terminal::seal`; needs the lock, so the thread is between rounds |
| `SendPush`, `NothingToPush`, `AckPush` | `push_pending`, split where it waits |
| `SendPull`, `ReceivePage`, `ApplyRow`, `FinishRound` | `pull_new`, each row its own commit, then the rebuild in `Terminal::sync` |
| `Refuse`, `StoreFault`, `GiveUp`, `TornBody` | the ways a round ends early: `is_terminal_failure`, `decode` |
| `Restart` | the process ends anywhere and `Terminal::load` runs |
| `Unauthorised`, `AuthFault` | `authenticate`, every failure of which is a 401 |
| `PlanPush` | `load_device` and `plan_batch`: the tip read is a snapshot, not locked |
| `AnswerRepeat` | `ingest::push` when nothing is fresh: the tip read at the start is the answer |
| `InsertRow`, `UniqueViolation`, `CommitPush`, `Abort` | `ingest::push` and the commit; two open transactions of a device meet on the UNIQUE index |
| `OpenPull`, `AnswerPull` | `authenticate`, and then `ingest::pull` with the commit and the answer |
| `Revoke` | an administrator sets `revoked_at` |

`Retryable` and `PlanBatch` are `is_retryable` and `plan_batch` with every outcome the engine can
provoke. An empty batch and `WrongDevice` never arise: the engine sends own events only and no
empty request. A local fault in `mark_synced` leaves the same state as a lost answer.

### SahlRestore and the code

`TakeBackup` copies a till's disk and `Restore` brings the till up on the copy, as `Restart` does on
its own disk. Sales after that reuse sequence numbers: the forks `plan_batch` exists to find.

### Till and the code

`own` and `seen` are the two origins of the event table. `tip`, `fiscal`, `book`, `drawer` are
memory. Each operation seals first (`Seals` advances `tip`), then writes (`Persisted`, or
`NotPersisted` when the sequence check refuses or the write fails), then adopts: the order of
`record`, `record_shift` and `complete_sale`. `Load` is `Terminal::load`. Replay is stated over the
set of stored events and the order `Earlier`, which is `ORDER BY occurred_at, event_id`; a tie
between devices is resolved by random bits in the code, and one fixed way here. Amounts are left
out: whether a sale balances is the business of `Ticket`, what a shift's report says of `Reports`.
`drawer` is the running shift; a closed one, which the code keeps in memory for its report, counts
as none.

### Sale, Ticket, Bill and the code

`Sale` translates `Sale::apply` twice over: `Accepts` is what it refuses, `Apply` what it does.
`SaleBook` is a function of sales, folded leniently (`Replay`, as `load` and `sync` do) or event by
event (`BookApply`, as `record` does on a copy). One oddity is kept: a tender is pushed onto the sale
before it is compared with the total, so a replay keeps one that is refused there, while a recording
throws its copy away (`RefusedTooLate`).

In `Ticket`, `store` is a till's event table in order of time (`InOrder` is the query's `ORDER BY`),
`book` its memory, `doing` the event a command has prepared under its first lock and not recorded
yet, `slips` what the kitchen got. A prepared event gets its time when it is recorded.
Commands that read and record under one lock are one action (`VoidLine`, `DiscountOrder`,
`RecordTender`, `FireKitchen` and others); the others prepare an event (`AddLine`, `SeatSale`,
`CompleteSale`, `DiscardEmpty`) that `FinishCommand` records later, or drops when the book refuses
it by then. `Learn` is a sync round that stored some of a sibling's next events and rebuilt the book;
in between the two halves of a command it is the interleaving no test writes. `Restart` loses the
command under way. Prices, quantities and discounts are small numbers, since only whether sums agree
matters here; the arithmetic is in `Tax`. No command records a claim yet, but `Terminal::record`
takes them and refuses writes to a held ticket (`MayWrite`), so both are actions.

`Bill` is the specification a customer would write: open, charged, paid towards, settled once with
the rest handed back, then still. `ImplementsBill` maps each ticket through the book of the till that
wrote it; a ticket two tills wrote to maps to a disputed bill, of which nothing is promised, because
the code lets a later rebuild change it (`ticket_reopens`).

### Shop and the code

`log` holds what a till sealed and wrote, `known` how much of the sibling's log is on its disk, `base`
how much of that its memory was built from. Each command is one action: who asks (`AtTill` by
session, or somebody found by PIN), validation against the till's memory, sealing (`tip`), the write
(which may fail, or be refused since an earlier failure), the adoption. `Learn` brings a sibling's
event to disk only: `Terminal::sync` rebuilds nothing but the sale book. `Restart` replays
everything in order of the clocks: stock and staff strictly, so that an event that does not apply
keeps the till from opening (`up`); catalogue and floor leniently; an order that does not replay is
left out. `RecordReceipt` is the two events of a delivery in one transaction; `CommitImport` stops at
the first row refused.

### Rules, the calculators and the code

`Rules` has one action per calculation, each over inputs given as constants, and a property per
family that relates the answers to a definition of its own: exact shares by cross-multiplication
(`SplitsExactly`), sums of lines (`TaxAddsUp`), the day against the drawers of its shifts
(`BooksReconcile`), a list of movements against its reverse (`StockHolds`), a label against what was
printed, whether a digit was misread or not (`ReadsTrue`), a document against its receipt (`PaperAgrees`).
Amounts are minor units, quantities thousandths, rates basis points, as in the code; division
truncates toward zero as Rust's does. A text is its length, a barcode its digits. The threshold above
which a Mushak challan needs a buyer is a constant, so that small sales reach it.

Three exclusions are stated in the properties because the code does differ there: a sale that gives
change on two cash tenders (`BooksReconcile`), a percentage discount judged from the amount it left behind
(`FeedsFair`), the figure beside a receipt's line, which is the unit price (`PaperAgrees`).

### Enrolment and the code

The handler is five steps with the database between them: `LookUp`, `Consume` (the conditional
`UPDATE`, which waits for a row another transaction holds and then finds it consumed), `Insert`,
`Commit`, and `FailQuery`, which may lose the answer of a commit that took effect. `CrashServer` rolls
back whatever is open. The till's side is `Enroll`, `Hear` (which empties `device.json`), `Store`
(which fills it), `GiveUp`, `StopTill`, `StartTill`. A key and a device id are the attempt's number:
the code draws both fresh for every attempt.

### Dashboard and the code

`pushed` is how much of each till's log the server has. `Report` is `SaleBook::replay`, which ends at
the first event that does not apply, over the rows of a window the caller chose; `Scope` is what a
token may ask for. The day is compared with `Figures` of the till's own book.

## Runs

| Run | Shows |
|---|---|
| `sync_safety` | two tills, all fault kinds: `SyncedIsHeld`, `HeldIsSealed`, `NothingSkipped`, and the refinement `ImplementsOutletLog` |
| `sync_liveness` | `QueueDrains`, `SiblingsLearn`, `RevokedStops`; `StoppedForCause`, `BookShowsPulled`, `RevokedIsCutOff` |
| `restore_fork` | `ServerKeepsHistory`, `ForkStopsTill` |
| `restore_loss` | refuted: `SyncedIsHeld` after a restore |
| `three_tills` | refuted: `NothingSkipped` with two other tills |
| `till` | `MemoryIsReplay`, `DiskUnbroken`, `InvoicesGapless`, `OneInvoicePerSale`, `OneDrawer` |
| `ticket` | two tills on two tickets: `BookIsReplay`, `SettledIsPriced`, `KitchenOnce`, `OwnTablesApart`, `FirstClaimHolds`, and the refinement `ImplementsBill` |
| `ticket_reopens` | refuted: `CompletedIsFinal` when a sibling wrote to the ticket earlier by clock |
| `shop` | two tills' back offices: `ShopIsReplay`, `BootsAgain`, `StockExplained`, `ReceiptsPaired`, `OrdersKept`, `BarcodesApart`, `Sanctioned` |
| `rules` | the calculations: `SplitsExactly`, `TaxAddsUp`, `StockHolds`, `BooksReconcile`, `FeedsFair`, `ReadsTrue`, `PaperAgrees` |
| `enrol` | two tills, two tokens, three attempts: `OneDevicePerToken` |
| `dashboard_refuses` | refuted: `DashboardAgrees` after two tills worked on one ticket apart |

Five more configurations reproduce disagreements of the core:

| Module and configuration | Refutes |
|---|---|
| `MCSahlSync`, `TornAnswer.cfg` | `StoppedForCause` when an accepted answer's body breaks off |
| `MCTill`, `TillClock.cfg` | `InvoicesGapless` when the clock is set back |
| `MCTill`, `TillDrawer.cfg` | `OneDrawer` when a sibling runs a shift |
| `MCTill`, `TillWedge.cfg` | `CarriesOn` after a failed write |
| `MCTill`, `TillBoot.cfg` | `BootsAgain` when the clock is set back within a shift |

### Where the code and its comments part

The refuted properties are what the code's own comments say; `PROJECT.json` quotes them. In words:

- A batch that ends at or below the server's tip is taken for a retry without comparing a hash. A
  till restored from a backup that sold less than before has its new events acknowledged and
  dropped from its queue, though the server holds others (`plan.rs:77`).
- `server_seq` is drawn at insert and visible at commit, so a puller can pass a number that commits
  later and never see its event. With two tills this cannot happen, since a till skips its own rows
  and the other's transactions meet on their first row (`ingest.rs:205`).
- A success whose body breaks off is `Invalid` and ends the thread of a till in good standing; so
  does a database fault during authentication, which is answered 401 (`http.rs:133`, `auth.rs:122`;
  the latter is the fault kind "auth", under which `StoppedForCause` fails in the same way).
- The fiscal chain resumes from the invoice with the latest time: a clock set back makes the till
  issue a number twice (`store/mod.rs:358`).
- A restart resumes the shift of whatever device moved last (`terminal.rs:1483`).
- A failed write leaves the in-memory chain ahead of the disk for good (`terminal.rs:413`).
- A shift whose opening has a later time than what follows refuses the start (`terminal.rs:1495`).
- A completed sale is open again after a pull that put a sibling's earlier line before its
  completion (`terminal.rs:1397`).
- The day report answers 422 for a log that a till skips through: after two tills worked on one
  ticket, or when the window cuts a ticket off its opening (`reports.rs:213`).

Met while modelling, kept in the models as the code has them, and refuted by no run of their own:

- Sync: `revoked` is read once, when a request is authenticated (`auth.rs:79`). A device revoked after
  that still has the batch committed and acknowledged, or the page sent, that the request was for;
  `RevokedIsCutOff` says that it is nothing more than that.
- Tickets: `add_line` compares the chosen options and records none (`commands/mod.rs:375`); it
  records a sum as an absolute quantity, so two tills that add one each lose one; the idle timeout of
  a lease counts from the claim, since nothing calls `touch`; cancellations are printed on every
  press of "send"; a void or discount after a card tender gives change for it (`tender.rs:43`); a
  quantity may be zero or negative; a ticket that a pull reopens comes back to a table that may have
  been given to another party since, and one of two tickets at a table may be seated there again.
- Back office: an order that one till closed before the other received against it vanishes on load;
  with clocks apart, a count that precedes its batch keeps a till from starting; of two products
  registered under one barcode apart, the later stamped disappears at the next load; `commit_import`
  leaves the rows before the one that failed; a withdrawn product still scans; a table may be
  restored under a label in use; two people with one PIN are told apart by age.
- Sessions end five minutes after signing in however busy the till is, and a clock set back prolongs
  them (`session.rs:62`).
- Reports: change is taken off the cash row once per cash tender (`day.rs:124`); after a struck-off
  line products are paired with later lines' totals (`day.rs:129`); expected cash counts siblings'
  sales within the shift; a percentage discount within its limit is reported as unapproved; approvals
  are judged by today's role.
- Paper: a receipt's line shows the price of one whatever the quantity; above the Mushak threshold no
  challan can be issued, since no buyer is ever captured.
- Enrolment: a lost answer burns the token and leaves a device nobody holds; `device.json` is written
  in place, and a torn one keeps the till from starting (`enrollment.rs:160`).

### Bounds and why they are enough

`Quota` bounds the events a till records, `Conn` the exchanges under way at once, `MaxFaults`
timeouts, rollbacks, restarts and faults together; `MaxClock`, `MaxTip` and `MaxFaults` bound Till.
Two exchanges are what a late request and its retry need, and two faults what a lost answer and a
restart after it need. In `sync_safety` `MaxBatch` is 2 with two events per till, so a batch can be
new, repeated, and overlap what is stored; in `sync_liveness` it is 1, so that a queue takes several
rounds. A `PullPage` of 1 makes every pull a partial page. The sync runs use one payload:
without restores two chains of a device never differ in content, and the proofs cover any payload;
the restore runs use two, which is what a fork needs. Exchanges are symmetric in the runs without
liveness, and tills in `sync_safety`. Deadlock is not checked because the bounded system does stop when its quotas are used.

In `till`, two sales, two shifts and six sealed events allow a failed write before, between and
after the two completions and a restart with an open shift. There the clock may be set back only
as far as the newest own event (`Backdates = FALSE`) and the sibling runs no shift: the two
assumptions that `TillClock`, `TillBoot` and `TillDrawer` drop, one each, and that the theorems name.

In `ticket`, `MaxSales` is 2 (a table and a lease need no third), and a day is taken up after four
events, either with a line rung and a second ticket still empty, or with a ticket fired and paid for,
so that three more events (`MaxEvents` 7) reach a void after a tender, a completion, a second round, a
seating contest. `Visits` bounds to one what the second till writes: one foreign event at any place
of the first till's work, known or unknown to it, is what each hazard needs. No day mixes
seating and claiming with tenders and discounts (`Deeds`); the theorems cover days that do. `MCNext` moves only the till whose
command is between its locks: the first half of a command reads its own till only, so steps of
another can be put before it. Clocks agree and writes do not fail here: both are in `till`.
`OwnTablesApart` speaks of tickets no sibling wrote to: `seat_sale` keeps those apart at whatever
moment the book is rebuilt. Of the others it cannot be said (with `MaxEvents` 8 TLC finds the
reopened ticket above).

In `shop` each behaviour is about one desk (stores, buying, office, catalogue, room), because the
desks share nothing but the disk, the session and the settings; each still syncs, restarts and fails.
Signing out and idling, which are alike at every desk, happen in the stores. Where two quantities
would do alike, the larger is placed or delivered. A
behaviour takes up to `MaxClock` operations and idle moments from an outlet that has an owner, or from
empty tills in the office, with `MaxFaults` failed writes and restarts. The tills' clocks agree
(`Skew` 0): with skewed clocks TLC refutes `BootsAgain`, as said above.

In `rules` the inputs are lists of up to three or four members, small amounts on both sides of zero,
all rounding modes, rates with remainders, and quantities that are not whole. In `enrol` two tills,
two tokens that last a minute and three attempts allow two handlers on one token, with a third attempt after a lost
answer; `MaxFaults` 2 allows a crash on each side. The server is tried with each configuration it
refuses. `dashboard_refuses` is one ticket with a line and a payment, and two more events.

### Fairness

`FairSpec` asks weak fairness of each till's `Round` (the scheduler is a loop on its own thread with
bounded delays, and it holds the lock for the whole round) and of each exchange's `Serve` (a request
that arrived is carried through, and the transaction it waits for is too). Faults have none:
that they end is the bound `MaxFaults`, which stands for "the network eventually stays up long
enough". Recording has none: nobody has to sell. The other specifications state none: nothing in a
till or a shop has to happen unless somebody presses a button.

## Theorems

Constants such as `MaxFaults`, `Quota`, `MaxTip` or `MaxNow` occur only in guards, and no proof uses
them: each theorem holds for every number of faults, tills, events and attempts.

**`SahlSyncProofs`**, for every set of tills, exchanges and payloads, batch and page size. First:

- `TypeCorrect`: `Spec => []TypeOK`.
- `NothingDroppedFromTheQueue`: `Spec => []SyncedIsHeld`.
- `ServerHoldsOnlySealed`: `Spec => []HeldIsSealed`.
- `RevocationHolds`: `Spec => RevokedIsCutOff`: the transactions open for a device when it is revoked
  end, none is opened after them, and nothing is stored, acknowledged or sent but by one that ends.
- `Implements`: `Spec => ImplementsOutletLog`.

The only assumption used is `BatchAssumption`, which TLC evaluates on every run.

`SyncedIsHeld` and `HeldIsSealed` are not inductive: they say nothing of what is on its way. The
strengthening `IInv` adds what makes each exchange sound (`WireSound`: a batch under way was cut from
the chain on disk, an open transaction goes past the tip it read, an acknowledgement, sent
or about to be, names a tip the server holds, a page holds committed rows), the same of the page a till is applying (`PageSound`),
that a waiting thread's exchange is its own (`OwnsExchange`), that no till has marked more than the
server holds (`SyncedCovered`), and that each committed event has its number (`Numbered`). There is
one lemma per action, under `StepKeeps`. The step that carries the weight is `CommitGrows`: a
transaction planned on an old tip cannot commit, because the UNIQUE index makes it fail, so a
commit only ever extends the chain. `SyncedIsHeld` then follows from three prefix facts. The
refinement maps `AckPush` to `Acknowledge`, `ApplyRow` to `Learn`, `CommitPush` to `Accept`, `Record`
to `Sell`, and everything else to a stutter.

Over the same invariant:

- `BookIsUpToDate`: `Spec => []BookShowsPulled`, if the local database answers (`"store" \notin Flaky`).
- `StopsForCause`: `Spec => []StoppedForCause`, if no answer is torn and no authentication query
  fails (`Flaky \cap {"auth", "body"} = {}`).
- `TwoTillsSkipNothing`: `TwoTills => (Spec => []NothingSkipped)`.

Each hypothesis is a disagreement met in the code: a fault of the local database ends a round after
rows were stored and before the rebuild, `TornAnswer` refutes `StoppedForCause`, `ThreeTills` refutes
`NothingSkipped`. `BookInv` says where in a round the book may lag. `StopInv` follows a refusal from
the server to the thread: a batch under way fits the stored tip as long as only its own till cut it
(`BatchFits`), so the one refusal that ends a thread is for a revoked device. `PullInv` says that
numbers become visible in the order they were drawn (`InOrder`): with one other till, whose
transactions meet on their first row, an open transaction's numbers are above every committed one, so
whatever a page left out has a number above the page's cursor.

With disks put back to any earlier copy, any number of times (`SahlRestore`):

- `HistoryIsKept`: `SpecR => ServerKeepsHistory`, what the server committed it never changes or drops.

`IInv` is not kept there: a till's log no longer extends what the server holds. What is left is enough
(`HistoryInv`): a request carries the chain it was cut from (`Sent`), and a transaction under way
continues the tip it read by that chain (`Continues`), which holds whatever became of the till's disk,
because the server reads nothing but its own rows and the request.

**`TillProofs`**, for every set of sales and shifts and any sibling log:

- `ChainUnbroken`: `Spec => []DiskUnbroken`, with no further assumption.
- `TillTyped`, `NothingLostOrInvented`, `InvoicesNumbered`, `OneInvoiceEach`, `DrawerAlone`:
  `Orderly => (Spec => []P)` for `TillTypeOK`, `MemoryIsReplay`, `InvoicesGapless`,
  `OneInvoicePerSale` and `OneDrawer`.

`Orderly` says that the clock is not set back behind the newest own event and that the sibling's log
has no shift in it. Both are constants of the specification, both are needed (`TillClock`,
`TillBoot` and `TillDrawer` refute the theorems' conclusions without one or the other), and `Till.cfg`
satisfies them.

None of the five is inductive alone, because `Load` computes from the disk in the order of the
clocks what the operations computed step by step. The invariant `TillInv` says how the two meet: own
events stand in the order of their numbers and of the clock and share no sale or shift with the
sibling's (`Kept`), so the latest event of a kind by clock is the last one in the log (`HasLast`);
invoices carry the numbers 1, 2, 3 in log order (`Gapless`), each right after its completion and once
for each sale (`Paired`); between two openings of a shift the first is closed (`Shifts`); and memory
is what a replay gives (`MemoryIsReplay`). Each conjunct has one lemma per thing an append can add,
and `StepKeeps` puts them together action by action. A failed write leaves `tip` ahead of the disk,
after which nothing is written: that is why the invariant speaks of the disk, and of memory only
through it.

**`TicketProofs`**, for every set of tills and tickets, any menu, table plan and amounts, with
`SaleAssumption` and `TicketAssumption` (which TLC evaluates):

- `StoresAreSound`: `Spec => []LogInv`.
- `BookIsAReplay`, `CompletedIsPriced`, `EachOrderOnce`, `TablesKeptApart`, `FirstClaimWins`:
  `Spec => []P` for `BookIsReplay`, `SettledIsPriced`, `KitchenOnce`, `OwnTablesApart` and
  `FirstClaimHolds`.
- `TicketsAreBills`: `Spec => ImplementsBill`.

So every property of the run `ticket` is proved. The book is a fold over events, so what a book has
to do with its store is proved by induction over sequences. `Folding` provides it: a fold is a table
that some function describes (`TableExists`, `TablesAgree`), which makes one more element one more
step (`RunAppend`), and what every step keeps holds of every fold (`RunInvariant`). The induction is
stated over sets of numbers, by the least element of a set, where the library's theorems would need
an operator for an argument. From it come the facts about one sale: it depends on its own events only
(`SameSale`), a completed one was settled for what its lines come to (`Priced`), its lines and rounds
are in its events (`LinesAdded`, `FiredKept`), its holder is the earliest claim not released
(`ClaimKept`).

The state adds which sequences those are. `StepMoves` reduces the commands to six things that can
happen to a till: record one event, prepare one, drop it, print cancellations, learn, restart.
`LogInv` is kept by each: the book is the replay of a store in order of time, a store has its own till's
events and only events that some till recorded, no two events share a moment, every ticket is opened
once and before anything else. `KitchenInv` ties slips to recorded rounds and rounds to lines added
before, so an order on two slips would be a line in two rounds, which `fire_kitchen` leaves
out. `SeatInv` says of each pair of open tickets at one table, and of a seating between its two
locks, that a sibling wrote to one of them: a rebuild may change a ticket only if a sibling wrote to it, which is what
the second lock relies on.

For the refinement, `BillAfter` says what one event of its only writer makes of a bill, and `BillFacts`
that the bill shown is the one in that writer's book. A ticket's step is then `Open`, `Charge`, `Pay`
or another action of `Bill`; a second writer makes the bill disputed; and learning or restarting moves nothing
of a ticket with one writer.

**`EnrolmentProofs`**, for every set of tills, tokens, settings and attempts:

- `OneDevicePerTokenHolds`: `ESpec => []OneDevicePerToken`.

`EInv` adds what the handler knows at each stage: a device row belongs to the attempt that consumed
its token (`RowsEarned`), a token that passed the check is minted (`CheckedIsMinted`), a transaction
that updated a token has it to itself and the token is nobody's until the commit (`LocksExclusive`,
where the conditional `UPDATE` is used), success is answered after the commit
(`AnswersFollowCommit`), and what a till holds is a row's (`HeldIsARow`). It uses
`EnrolmentAssumption`.

**`ShopProofs`** and **`ShopReplayProofs`**, for any two tills, every set of products, people, files and
integer quantities, with `ShopAssumption`:

- `ShopReceiptsPaired`, `ShopBarcodesApart`, `ShopSanctioned`: `Spec => []P` for `ReceiptsPaired`,
  `BarcodesApart` and `Sanctioned`, whatever the clocks say.
- `ShopShowsReplay`, `ShopBootsAgain`, `ShopStockExplained`, `ShopOrdersKept`, the second module's:
  `Spec => []P` for `ShopIsReplay`, `BootsAgain`, `StockExplained` and `OrdersKept`, on the
  hypothesis `OneTime`, that the tills' clocks agree. The first two are false without it: memory adopts a
  change last where a replay puts it at the time its clock gave it, and a till with a slow clock
  records a movement before the delivery it learned of. The run `shop` has the same hypothesis
  (`Skew` is zero).

For `ReceiptsPaired` only the logs matter (`LogsPaired`): whatever a command validates, it appends
one event that is no delivery, the rows of an import (`ImportPaired`), or a delivery with its batch
(`ReceiptPaired`).

The others need what was validated. `StepKinds` reduces every operation to a `Command`: the events
it writes, one after another in its chain and at one moment, and the memory that goes with them
(`MovesStock`, `Places`, `Receives`, `Closes`, `Enrols`, `Configures`, `EditsCatalogue`, `EditsFloor`,
`Imports`), or nothing; the rest is learning, restarting and `Quiet`. `Grown` says that the events of a
log are numbered and dated no later than its till's clock.

- `Catalogued` (every till's catalogue is `Sound`) is kept because an addition or a change is refused
  while another product has the barcode, also by a replay, which then passes over the event.
- `Staffed` says that whoever a till knows was enrolled somewhere in the role it shows, and that a
  till knows whom it enrolled itself: which is why a founder, accepted only while nobody is known,
  comes before every enrolment of that log.
- `Mirrored` is `ShopIsReplay` and that the replay goes through. A command's events are later than
  all its till holds (`StampedLatest`), what is later than all comes last in order (`InOrderAppend`, on
  the ranks of a finite set), and a replay with one event more is one step more (`RebuiltAppend`, on
  `Folding`). For orders, each replayed from a stream of its own, this needs that an order is placed
  under a number nobody used (`Born`).
- `Distinct` (a batch, a person or an order begins once, at one till) and `Grounded` (every event of
  a log makes sense by itself and rests on the delivery of its batch, or the placement of its order,
  in its own log or in what its till's memory was built from) make every replay go through, however
  much of the sibling's log is on the disk: `HoldingGrounded`, `HoldingOpens`.
- Stock: along a replay that goes through, a level is the run of what events moved (`Moves`) and of
  what counts differed by (`Differs`), step by step (`ReplayExplained`). A count sets a level to
  what was seen and records the variance, so it is the one event that changes both runs' sum through
  the book and not through its own quantity.
- Orders: the stream of an order begins with its only placement, holds nothing after a close, and
  each delivery adds to its own line (`Brought`), so the replay goes through and comes to what
  arrived (`ReplayOrder`, `OrderStands`).

`Mirrored`, `Distinct`, `Grounded`, `Staffed`, `Born` and what they rest on are one inductive
invariant, `Sane` (`StaysSane`); both sums are instances of the fold of `Folding`.

TLC agrees with `Mirrored`, `Distinct`, `Grounded`, `Staffed` and `Born` as invariants of `shop`.

**`RulesProofs`**, for every list, amount, rate and date the assumptions on the constants admit:

- `SplitsAreExact`: `Spec => []SplitsExactly`.
- `TaxAlwaysAddsUp`: `Spec => []TaxAddsUp`.
- `ReadsAreTrue`: `Spec => []ReadsTrue`.
- `FeedsAreFair`: `Spec => []FeedsFair`.
- `StockIsHeld`: `Spec => []StockHolds`.
- `BooksAlwaysReconcile`: `Spec => []BooksReconcile`.
- `PaperAlwaysAgrees`: `Spec => []PaperAgrees`.

So every property of the run `rules` is proved.

The assumptions (`SplitsAssumption`, `OrdersAssumption`, `OptionsAssumption`, `LabelsAssumption`,
`EditsAssumption`, `StaffAssumption`, `TalliesAssumption`, `StockAssumption`, `DeliveriesAssumption`,
`SalesAssumption`, `ShiftsAssumption`, `PaperAssumption`, `InvoicesAssumption`) say what sort of thing an input is, and TLC evaluates each on the
run's inputs. Six say more. A rate of tax is above minus a hundred percent
(`ValidRate`); a rate is a signed number in the code and nothing stops a lower one, at which taking tax
out of a price would divide by nothing. The server gives one number to one edit. A list of levels has one level of a batch, as the book that
makes it is keyed by batch. A settled sale was tendered what it came to and its change: that is how
`Sale::apply` lets one complete. Of a list of shifts each opens after the one before it closed, the first
before any sale: the code counts both ends of a shift, so one that opened at the very moment another closed would share
that moment's sales with it, and a sale outside every shift is in no report. A bill to print is a
settled sale tendered in methods the till names, with change that is not negative, as `change_due` never
is; lines of nothing and returned lines are admitted, since no command refuses them.

A state of `Rules` is one question and its answer, so the invariants need no strengthening: all the work
is in what the operators compute.

- Sums. The community modules' folds pick the elements of a finite set in an order nobody knows.
  `Adds` describes the table of sums over the parts of a set; by induction over the parts there is one
  (`AddsExists`), any two agree (`AddsAgree`), and so a sum is integer (`SumIsInt`), can be taken apart
  at any element (`Sums`) or between two sets (`SumsApart`), and is the same for lists that agree.
- Splitting. Each share is rounded down, so what is left is less than the number of entries with a
  weight; the entries are ranked by remainder, each rank is taken once (`PlacesFill`), so the hand-out
  gives exactly what was left, to nobody who has no weight.
- Tax. Rounding moves a quotient by less than one whatever the mode (`Rounds`). A line's net and tax add
  up by construction when tax is on top and by subtraction when it is within; what remains is that sums
  of sums over lines and over classes are one sum, and that a discount spread over lines stays
  within each.
- Options. An option is charged only after `Tap` found it in its group.
- Check digits. One digit misread changes the weighted sum by one or three times a difference
  of less than ten, which ten never divides (`OneDigitOff`).
- Edits. The latest edit is one that no other comes after; the order is total, so there is only one.
- Feeds. Whoever may do a thing alone is permitted to by the audit's own table, and whoever is recorded as
  having approved is not who acted; of two people, each found by the other's rate, both products would
  have to exceed each other.
- Picks. No batch has two levels, so first expired, first out is a strict order: a level's rank is how many
  go ahead of it, no rank is skipped (`FefoRanks`), and so the list of usable levels holds each once, in
  order (`UsableRanks`). The loop then has an invariant (`TakesNext`, `PicksInTurn`): every level
  passed has been emptied unless the shortfall is nothing, what is taken and what is short add up to what was
  wanted, and nothing was taken of a level not yet met.
- Oversells. Who moved a product does not depend on the order of the movements, and a sum over places is the
  same for any renaming of the places (`SumMoved`), reversal among them; a sum below nothing has a term below
  nothing (`SumHasSign`), so an oversell names somebody.
- Orders and transfers. Half-up rounding moves a delivery's value by at most half a unit (`RoundsHalfUp`),
  so after any number of deliveries at the agreed price what was received is worth what was ordered to within
  a unit for each (`OrdersArePriced`, by induction over the deliveries).
- Books. Sales fall into heaps by who opened each, and by the shift that covers its moment: shifts one after the
  other cover each moment exactly once (`ShiftsCover`, by induction over the shifts), so the sums of the heaps
  are the day's (`CashiersAddUp`, `ShiftsAddUp`). A table of what each sale took by each method comes to the same by
  rows, which are the sales' totals (`SaleByMethod`), and by columns, which are the payment rows (`SumSwaps`). The cash
  column is what the drawers took, since no change comes off twice (`RowOfMethod`).
- Receipts. A receipt's net and tax are the sums of its lines' (`LinesAddUp`), and its tenders less change are
  its total (`ReceiptHolds`). The widest amount, sign, point and all, is 21 characters: in the code an
  amount has 64 bits, so at most seventeen digits before the point (`MostPlaces`, `PlacesBounds`), and the
  narrowest roll has room for 32 (`RollAlwaysHolds`). A row for a discount or for change is printed only when
  there is some.
- Documents. One is issued only if nothing it needs is missing (`NothingMissing`); each challan line has
  the line's own net, and the price of one times the quantity differs from it by at most a minor unit for each
  unit sold or returned (`ChallanLineHolds`).
  The QR's figures are read back (`WrittenReadsBack`) and each of its five fields fits its length byte (`QrHolds`).
- Invoices. What was sealed is linked and verifies (`SealedIsLinked`, `VerifiedIsLinked`); of two linked
  chains with one tip, both are as long as its counter, and the hash of each invoice contains the one
  before, so they are the same from the last back to the first (`OneChain`).

Only model-checked: liveness, `ForkStopsTill` included (no prover here handles fairness), and what the
runs that expect a violation show. Of `Dashboard` nothing is proved.

## Plan

Line discounts in `Sale`, once a command records them; transfers in `Shop`, once one exists.

## Not modelled

Cryptography (hashes are histories, signatures always verify for their owner, a PIN is compared by
equality), byte encodings (ESC/POS commands, XML, base64, canonical JSON), the printer's transport,
digest texts and the channel that sends them, configuration parsing, `erase_everything` and seed
data, which release builds do not have, the development bridge, and the Svelte screens, which keep no
state the log depends on. Delays are not modelled: a retry comes at some later moment, so backoff and
its jitter are not told apart, and the models show that a sale has to wait for a round that holds the
lock, not for how long.
