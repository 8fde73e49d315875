------------------------------ MODULE SahlSync ------------------------------
(***************************************************************************)
(* Tills of one outlet pushing their event chains to the server and        *)
(* pulling their siblings' events: sahl-terminal's sync engine and         *)
(* scheduler, sahl-sync's batch planning, sahl-server's ingest.            *)
(*                                                                         *)
(* An event's hash covers its predecessor's hash, so a hash names the      *)
(* whole history up to that event.  A chain is therefore the sequence of   *)
(* its payloads, and comparing two hashes is comparing two prefixes.       *)
(***************************************************************************)
EXTENDS Naturals, Sequences, SequencesExt

CONSTANTS
    Device,      \* the outlet's tills
    Payload,     \* what an event can say
    Conn,        \* HTTP exchanges under way at once; bounds late requests
    MaxBatch,    \* MAX_BATCH of the protocol
    PullPage,    \* PULL_PAGE of the engine
    Revocable,   \* the devices an administrator may revoke
    Flaky,       \* optional fault kinds, out of {"auth", "body", "store"}
    Quota,       \* bound: how many events each till records
    MaxFaults    \* bound: timeouts, aborts, restarts and faults together

ASSUME BatchAssumption == MaxBatch \in Nat \ {0} /\ PullPage \in Nat \ {0}

VARIABLES
    log,      \* own chain on each till's disk (origin = 'local')
    synced,   \* how many leading own events have synced_at set
    remote,   \* sibling events on each till's disk (origin = 'remote')
    cursor,   \* sync_state.pull_cursor
    book,     \* the sibling events each live SaleBook was built from
    thread,   \* where each till's sync thread is
    held,     \* each device's committed chain on the server, its tip the end
    pos,      \* server_seq of each committed event
    nextSeq,  \* the server_seq sequence; never rolled back
    revoked,  \* devices with revoked_at set
    conn,     \* what each HTTP exchange is at
    faults    \* how many faults have struck

vars == <<log, synced, remote, cursor, book, thread,
          held, pos, nextSeq, revoked, conn, faults>>

Min2(a, b) == IF a <= b THEN a ELSE b
Max2(a, b) == IF a <= b THEN b ELSE a

Rejection == {"NotAuthorised", "Invalid", "Forked", "Gap", "Unavailable"}

\* Faulty variant: every refusal is retried.
RetryAnything(r) == r \in Rejection

\* Whether sending the same batch again could ever succeed.
Retryable(r) == r = "Unavailable"

(***************************************************************************)
(* The states of an exchange.  "push" and "pull" are requests on their     *)
(* way.  The next three are server transactions, open since the device was *)
(* authenticated: "writing" has planned the batch and is inserting its     *)
(* fresh events, "repeating" was sent nothing fresh and has its tip to     *)
(* answer with, "reading" is about to read a page.  The others are answers *)
(* on their way.                                                           *)
(***************************************************************************)
Row == [dev : Device, seq : Nat, pos : Nat]
Idle == [phase |-> "idle"]
Push(d, first, chain) ==
    [phase |-> "push", dev |-> d, first |-> first, chain |-> chain]
Writing(d, tip, chain, at) ==
    [phase |-> "writing", dev |-> d, tip |-> tip, chain |-> chain, pos |-> at]
Repeating(d, tip) == [phase |-> "repeating", dev |-> d, tip |-> tip]
Pushed(d, tip) == [phase |-> "pushed", dev |-> d, tip |-> tip]
Pull(d, from) == [phase |-> "pull", dev |-> d, cursor |-> from]
Reading(d, from) == [phase |-> "reading", dev |-> d, cursor |-> from]
Pulled(d, page, upto) ==
    [phase |-> "pulled", dev |-> d, page |-> page, cursor |-> upto]
Refused(d, why) == [phase |-> "refused", dev |-> d, why |-> why]

Exchange ==
    {Idle}
    \cup [phase : {"push"}, dev : Device, first : Nat, chain : Seq(Payload)]
    \cup [phase : {"writing"}, dev : Device, tip : Nat,
          chain : Seq(Payload), pos : Seq(Nat)]
    \cup [phase : {"repeating", "pushed"}, dev : Device, tip : Nat]
    \cup [phase : {"pull", "reading"}, dev : Device, cursor : Nat]
    \cup [phase : {"pulled"}, dev : Device, page : SUBSET Row, cursor : Nat]
    \cup [phase : {"refused"}, dev : Device, why : Rejection]

(***************************************************************************)
(* The states of a sync thread.  Between rounds it sleeps; ok says whether *)
(* the badge shows UpToDate or Retrying.  In every other live state it     *)
(* holds the till's lock.                                                  *)
(***************************************************************************)
Asleep(ok) == [at |-> "asleep", ok |-> ok]
Stopped == [at |-> "stopped"]
Drained == [at |-> "drained"]
AwaitPush(c, last) == [at |-> "push", conn |-> c, last |-> last]
AwaitPull(c) == [at |-> "pull", conn |-> c]
Applying(page, upto, fresh) ==
    [at |-> "apply", page |-> page, cursor |-> upto, fresh |-> fresh]

Thread ==
    {Stopped, Drained}
    \cup [at : {"asleep"}, ok : BOOLEAN]
    \cup [at : {"push"}, conn : Conn, last : Nat]
    \cup [at : {"pull"}, conn : Conn]
    \cup [at : {"apply"}, page : SUBSET Row, cursor : Nat, fresh : BOOLEAN]

Request(c) == conn[c].phase \in {"push", "pull"}
InTransaction(c) == conn[c].phase \in {"writing", "repeating", "reading"}

Waiting(d) == thread[d].at \in {"push", "pull"}
WaitsOn(d, c) == Waiting(d) /\ thread[d].conn = c

\* The kinds of fact the disks, the server and the wire may hold.
TypeOK ==
    /\ log \in [Device -> Seq(Payload)]
    /\ synced \in [Device -> Nat]
    /\ remote \in [Device -> SUBSET (Device \X Nat)]
    /\ cursor \in [Device -> Nat]
    /\ book \in [Device -> SUBSET (Device \X Nat)]
    /\ thread \in [Device -> Thread]
    /\ held \in [Device -> Seq(Payload)]
    /\ pos \in [Device -> Seq(Nat)]
    /\ nextSeq \in Nat
    /\ revoked \subseteq Device
    /\ conn \in [Conn -> Exchange]
    /\ faults \in Nat

Init ==
    /\ log = [d \in Device |-> <<>>]
    /\ synced = [d \in Device |-> 0]
    /\ remote = [d \in Device |-> {}]
    /\ cursor = [d \in Device |-> 0]
    /\ book = [d \in Device |-> {}]
    /\ thread = [d \in Device |-> Asleep(TRUE)]
    /\ held = [d \in Device |-> <<>>]
    /\ pos = [d \in Device |-> <<>>]
    /\ nextSeq = 1
    /\ revoked = {}
    /\ conn = [c \in Conn |-> Idle]
    /\ faults = 0

-----------------------------------------------------------------------------
(***************************************************************************)
(* The till.                                                               *)
(***************************************************************************)

\* A cashier's action seals an event onto the chain and persists it.  It
\* needs the till's lock, which the sync thread keeps for a whole round.
Record(d, p) ==
    /\ thread[d].at \in {"asleep", "stopped"}
    /\ Len(log[d]) < Quota[d]
    /\ log' = [log EXCEPT ![d] = Append(@, p)]
    /\ UNCHANGED <<synced, remote, cursor, book, thread,
                   held, pos, nextSeq, revoked, conn, faults>>

\* Faulty variant: the batch is marked synced as it is sent.
SendPushOptimistic(d) ==
    /\ thread[d].at = "asleep"
    /\ synced[d] < Len(log[d])
    /\ LET last == Min2(synced[d] + MaxBatch, Len(log[d]))
       IN /\ synced' = [synced EXCEPT ![d] = last]
          /\ \E c \in Conn :
                /\ conn[c] = Idle
                /\ conn' = [conn EXCEPT ![c] =
                      Push(d, synced[d] + 1, SubSeq(log[d], 1, last))]
                /\ thread' = [thread EXCEPT ![d] = AwaitPush(c, last)]
    /\ UNCHANGED <<log, remote, cursor, book,
                   held, pos, nextSeq, revoked, faults>>

\* A round opens: the oldest unsynced events, at most MaxBatch of them.
SendPush(d) ==
    /\ thread[d].at = "asleep"
    /\ synced[d] < Len(log[d])
    /\ LET last == Min2(synced[d] + MaxBatch, Len(log[d]))
       IN \E c \in Conn :
            /\ conn[c] = Idle
            /\ conn' = [conn EXCEPT ![c] =
                  Push(d, synced[d] + 1, SubSeq(log[d], 1, last))]
            /\ thread' = [thread EXCEPT ![d] = AwaitPush(c, last)]
    /\ UNCHANGED <<log, synced, remote, cursor, book,
                   held, pos, nextSeq, revoked, faults>>

\* Nothing to push: the round goes straight to the pull.
NothingToPush(d) ==
    /\ thread[d].at = "asleep"
    /\ synced[d] = Len(log[d])
    /\ thread' = [thread EXCEPT ![d] = Drained]
    /\ UNCHANGED <<log, synced, remote, cursor, book,
                   held, pos, nextSeq, revoked, conn, faults>>

\* mark_synced: every local event up to the server's tip, if the log has it.
MarkSynced(d, tip) == Max2(synced[d], Min2(tip, Len(log[d])))

\* The push was accepted.  The acknowledgement is trusted only when the
\* server's tip covers what was sent.
AckPush(d) ==
    /\ thread[d].at = "push"
    /\ LET c == thread[d].conn
           answer == conn[c]
       IN /\ answer.phase = "pushed"
          /\ conn' = [conn EXCEPT ![c] = Idle]
          /\ \/ /\ answer.tip < thread[d].last
                /\ thread' = [thread EXCEPT ![d] = Stopped]
                /\ UNCHANGED synced
             \/ /\ answer.tip >= thread[d].last
                /\ synced' = [synced EXCEPT ![d] = MarkSynced(d, answer.tip)]
                /\ thread' = [thread EXCEPT ![d] = Drained]
    /\ UNCHANGED <<log, remote, cursor, book,
                   held, pos, nextSeq, revoked, faults>>

SendPull(d) ==
    /\ thread[d].at = "drained"
    /\ \E c \in Conn :
          /\ conn[c] = Idle
          /\ conn' = [conn EXCEPT ![c] = Pull(d, cursor[d])]
          /\ thread' = [thread EXCEPT ![d] = AwaitPull(c)]
    /\ UNCHANGED <<log, synced, remote, cursor, book,
                   held, pos, nextSeq, revoked, faults>>

ReceivePage(d) ==
    /\ thread[d].at = "pull"
    /\ LET c == thread[d].conn
           answer == conn[c]
       IN /\ answer.phase = "pulled"
          /\ conn' = [conn EXCEPT ![c] = Idle]
          /\ thread' = [thread EXCEPT ![d] =
                Applying(answer.page, answer.cursor, FALSE)]
    /\ UNCHANGED <<log, synced, remote, cursor, book,
                   held, pos, nextSeq, revoked, faults>>

\* insert_remote, one row at a time in server order, each its own commit.
\* A row already held is ignored; only a new one counts as pulled.
ApplyRow(d) ==
    /\ thread[d].at = "apply"
    /\ \E row \in thread[d].page :
          /\ \A other \in thread[d].page : row.pos <= other.pos
          /\ remote' = [remote EXCEPT ![d] = @ \cup {<<row.dev, row.seq>>}]
          /\ thread' = [thread EXCEPT ![d] =
                Applying(@.page \ {row}, @.cursor,
                         @.fresh \/ <<row.dev, row.seq>> \notin remote[d])]
    /\ UNCHANGED <<log, synced, cursor, book,
                   held, pos, nextSeq, revoked, conn, faults>>

\* Faulty variant: a page of rows already held leaves the cursor alone.
FinishRoundIfFresh(d) ==
    /\ thread[d].at = "apply"
    /\ thread[d].page = {}
    /\ cursor' = [cursor EXCEPT ![d] =
                     IF thread[d].fresh THEN Max2(@, thread[d].cursor) ELSE @]
    /\ book' = [book EXCEPT ![d] = IF thread[d].fresh THEN remote[d] ELSE @]
    /\ thread' = [thread EXCEPT ![d] = Asleep(TRUE)]
    /\ UNCHANGED <<log, synced, remote,
                   held, pos, nextSeq, revoked, conn, faults>>

\* Faulty variant: the pulled events stay out of the SaleBook.
FinishRoundUnseen(d) ==
    /\ thread[d].at = "apply"
    /\ thread[d].page = {}
    /\ cursor' = [cursor EXCEPT ![d] = Max2(@, thread[d].cursor)]
    /\ thread' = [thread EXCEPT ![d] = Asleep(TRUE)]
    /\ UNCHANGED <<log, synced, remote, book,
                   held, pos, nextSeq, revoked, conn, faults>>

\* The page is in: advance the cursor, never backwards, and rebuild the
\* SaleBook if this round stored anything new.
FinishRound(d) ==
    /\ thread[d].at = "apply"
    /\ thread[d].page = {}
    /\ cursor' = [cursor EXCEPT ![d] = Max2(@, thread[d].cursor)]
    /\ book' = [book EXCEPT ![d] = IF thread[d].fresh THEN remote[d] ELSE @]
    /\ thread' = [thread EXCEPT ![d] = Asleep(TRUE)]
    /\ UNCHANGED <<log, synced, remote,
                   held, pos, nextSeq, revoked, conn, faults>>

\* Either request was refused.  Only "Unavailable" is worth retrying; any
\* other reason ends the thread.
Refuse(d) ==
    /\ Waiting(d)
    /\ LET c == thread[d].conn
       IN /\ conn[c].phase = "refused"
          /\ thread' = [thread EXCEPT ![d] =
                IF Retryable(conn[c].why) THEN Asleep(FALSE) ELSE Stopped]
          /\ conn' = [conn EXCEPT ![c] = Idle]
    /\ UNCHANGED <<log, synced, remote, cursor, book,
                   held, pos, nextSeq, revoked, faults>>

\* The page request or its rows hit a local database error, or the cursor
\* moved and the rebuild's read failed.  Retried: the rows stay stored.
StoreFault(d) ==
    /\ "store" \in Flaky
    /\ faults < MaxFaults
    /\ faults' = faults + 1
    /\ thread[d].at \in {"drained", "apply"}
    /\ thread' = [thread EXCEPT ![d] = Asleep(FALSE)]
    /\ \/ UNCHANGED cursor
       \/ /\ thread[d].at = "apply"
          /\ thread[d].page = {}
          /\ cursor' = [cursor EXCEPT ![d] = Max2(@, thread[d].cursor)]
    /\ UNCHANGED <<log, synced, remote, book,
                   held, pos, nextSeq, revoked, conn>>

\* Faulty variant: the exchange is left half closed.
AbandonHalfClosed(c) == conn' = [conn EXCEPT ![c].phase = "closed"]

\* Nobody listens on c any more.  A request may be lost or arrive late; an
\* open transaction carries on; an answer is lost.
Abandon(c) ==
    \/ /\ Request(c) \/ InTransaction(c)
       /\ UNCHANGED conn
    \/ /\ ~InTransaction(c)
       /\ conn' = [conn EXCEPT ![c] = Idle]

\* The client's timeout, or a broken connection: "Unavailable" either way.
GiveUp(d) ==
    /\ faults < MaxFaults
    /\ faults' = faults + 1
    /\ Waiting(d)
    /\ Abandon(thread[d].conn)
    /\ thread' = [thread EXCEPT ![d] = Asleep(FALSE)]
    /\ UNCHANGED <<log, synced, remote, cursor, book,
                   held, pos, nextSeq, revoked>>

\* An accepted answer breaks off after its headers: the unreadable body of a
\* success is "Invalid", which ends the thread.
TornBody(d) ==
    /\ "body" \in Flaky
    /\ faults < MaxFaults
    /\ faults' = faults + 1
    /\ Waiting(d)
    /\ LET c == thread[d].conn
       IN /\ conn[c].phase \in {"pushed", "pulled"}
          /\ conn' = [conn EXCEPT ![c] = Idle]
    /\ thread' = [thread EXCEPT ![d] = Stopped]
    /\ UNCHANGED <<log, synced, remote, cursor, book,
                   held, pos, nextSeq, revoked>>

\* Faulty variant: unsynced events were still in the page cache.
RestartLosingTail(d) ==
    /\ faults < MaxFaults
    /\ faults' = faults + 1
    /\ IF Waiting(d) THEN Abandon(thread[d].conn) ELSE UNCHANGED conn
    /\ thread' = [thread EXCEPT ![d] = Asleep(TRUE)]
    /\ book' = [book EXCEPT ![d] = remote[d]]
    /\ log' = [log EXCEPT ![d] = SubSeq(@, 1, synced[d])]
    /\ UNCHANGED <<synced, remote, cursor, held, pos, nextSeq, revoked>>

\* The till loses power or is reopened: the disk is what it was, and
\* Terminal::load rebuilds the book from it.
Restart(d) ==
    /\ faults < MaxFaults
    /\ faults' = faults + 1
    /\ IF Waiting(d) THEN Abandon(thread[d].conn) ELSE UNCHANGED conn
    /\ thread' = [thread EXCEPT ![d] = Asleep(TRUE)]
    /\ book' = [book EXCEPT ![d] = remote[d]]
    /\ UNCHANGED <<log, synced, remote, cursor, held, pos, nextSeq, revoked>>

-----------------------------------------------------------------------------
(***************************************************************************)
(* The server.  Each request is one database transaction.                  *)
(***************************************************************************)

\* An answer reaches the till only if its thread still waits for it.
Answer(c, answer) ==
    conn' = [conn EXCEPT ![c] =
                IF \E d \in Device : WaitsOn(d, c) THEN answer ELSE Idle]

Revoke(d) ==
    /\ d \in Revocable \ revoked
    /\ revoked' = revoked \cup {d}
    /\ UNCHANGED <<log, synced, remote, cursor, book, thread,
                   held, pos, nextSeq, conn, faults>>

\* Faulty variant: a signature is enough.
AuthorisedBySignature(c) == conn[c].dev \in Device

\* authenticate: the device row is read in the request's own transaction.
Authorised(c) == conn[c].dev \notin revoked

Unauthorised(c) ==
    /\ Request(c)
    /\ ~Authorised(c)
    /\ Answer(c, Refused(conn[c].dev, "NotAuthorised"))
    /\ UNCHANGED <<log, synced, remote, cursor, book, thread,
                   held, pos, nextSeq, revoked, faults>>

\* Reading the device row fails during authentication: every failure there
\* is the same 401.
AuthFault(c) ==
    /\ "auth" \in Flaky
    /\ faults < MaxFaults
    /\ faults' = faults + 1
    /\ Request(c)
    /\ Answer(c, Refused(conn[c].dev, "NotAuthorised"))
    /\ UNCHANGED <<log, synced, remote, cursor, book, thread,
                   held, pos, nextSeq, revoked>>

\* Faulty variant: only a batch that starts right after the tip will do.
PlanNoOverlap(first, chain, tip) ==
    IF first # Len(tip) + 1 THEN "Gap"
    ELSE IF IsPrefix(tip, chain) THEN "insert" ELSE "Invalid"

\* Faulty variant: a repeated batch runs into its own rows.
PlanRepeatFails(first, chain, tip) ==
    IF first > Len(tip) + 1 THEN "Gap"
    ELSE IF Len(chain) <= Len(tip) THEN "Unavailable"
    ELSE IF IsPrefix(tip, chain) THEN "insert" ELSE "Forked"

\* Faulty variant: sequence numbers are compared, hashes are not.
PlanBySequence(first, chain, tip) ==
    IF first > Len(tip) + 1 THEN "Gap"
    ELSE IF Len(chain) <= Len(tip) THEN "noop" ELSE "insert"

\* What plan_batch decides of the events first .. Len(chain), for a device
\* whose chain the server holds up to tip.
PlanBatch(first, chain, tip) ==
    IF Len(chain) + 1 > first + MaxBatch THEN "Invalid"
    ELSE IF first > Len(tip) + 1 THEN "Gap"
    ELSE IF Len(chain) <= Len(tip) THEN "noop"
    ELSE IF IsPrefix(tip, chain) THEN "insert"
    ELSE IF first <= Len(tip) THEN "Forked" ELSE "Invalid"

\* load_device and plan_batch: the tip read here, with the device's standing,
\* is a snapshot that the rest of the transaction relies on.
PlanPush(c) ==
    /\ conn[c].phase = "push"
    /\ Authorised(c)
    /\ LET d == conn[c].dev
           chain == conn[c].chain
           plan == PlanBatch(conn[c].first, chain, held[d])
       IN \/ /\ plan \in Rejection
             /\ Answer(c, Refused(d, plan))
          \/ /\ plan = "noop"
             /\ conn' = [conn EXCEPT ![c] = Repeating(d, Len(held[d]))]
          \/ /\ plan = "insert"
             /\ conn' = [conn EXCEPT ![c] =
                   Writing(d, Len(held[d]), chain, <<>>)]
    /\ UNCHANGED <<log, synced, remote, cursor, book, thread,
                   held, pos, nextSeq, revoked, faults>>

\* A repeated batch: the tip read at the start acknowledges it.
AnswerRepeat(c) ==
    /\ conn[c].phase = "repeating"
    /\ Answer(c, Pushed(conn[c].dev, conn[c].tip))
    /\ UNCHANGED <<log, synced, remote, cursor, book, thread,
                   held, pos, nextSeq, revoked, faults>>

\* Two open transactions of one device insert the same first row: the later
\* one waits for the earlier one on the UNIQUE index.
Blocked(c) ==
    /\ conn[c].pos # <<>>
    /\ \E k \in Conn \ {c} :
          /\ conn[k].phase = "writing"
          /\ conn[k].dev = conn[c].dev
          /\ conn[k].tip = conn[c].tip
          /\ conn[k].pos # <<>>
          /\ conn[k].pos[1] < conn[c].pos[1]

\* Faulty variant: no UNIQUE constraint.
ConflictUnseen(c) == FALSE

\* The earlier one committed: UNIQUE (device_id, device_seq) is violated.
Conflict(c) == conn[c].pos # <<>> /\ Len(held[conn[c].dev]) # conn[c].tip

InsertRow(c) ==
    /\ conn[c].phase = "writing"
    /\ conn[c].tip + Len(conn[c].pos) < Len(conn[c].chain)
    /\ ~Blocked(c)
    /\ ~Conflict(c)
    /\ conn' = [conn EXCEPT ![c].pos = Append(@, nextSeq)]
    /\ nextSeq' = nextSeq + 1
    /\ UNCHANGED <<log, synced, remote, cursor, book, thread,
                   held, pos, revoked, faults>>

UniqueViolation(c) ==
    /\ conn[c].phase = "writing"
    /\ ~Blocked(c)
    /\ Conflict(c)
    /\ Answer(c, Refused(conn[c].dev, "Unavailable"))
    /\ UNCHANGED <<log, synced, remote, cursor, book, thread,
                   held, pos, nextSeq, revoked, faults>>

\* Every fresh row is in: move the device's tip and commit.
CommitPush(c) ==
    /\ conn[c].phase = "writing"
    /\ conn[c].tip + Len(conn[c].pos) = Len(conn[c].chain)
    /\ ~Blocked(c)
    /\ ~Conflict(c)
    /\ LET d == conn[c].dev
       IN /\ held' = [held EXCEPT ![d] = conn[c].chain]
          /\ pos' = [pos EXCEPT ![d] = @ \o conn[c].pos]
          /\ Answer(c, Pushed(d, Len(conn[c].chain)))
    /\ UNCHANGED <<log, synced, remote, cursor, book, thread,
                   nextSeq, revoked, faults>>

\* The database fails the transaction, or the server goes down: rolled back.
Abort(c) ==
    /\ faults < MaxFaults
    /\ faults' = faults + 1
    /\ Request(c) \/ InTransaction(c)
    /\ Answer(c, Refused(conn[c].dev, "Unavailable"))
    /\ UNCHANGED <<log, synced, remote, cursor, book, thread,
                   held, pos, nextSeq, revoked>>

\* Committed events of the outlet's other devices above a cursor.
Visible(d, from) ==
    {row \in UNION {{[dev |-> e, seq |-> n, pos |-> pos[e][n]] :
                        n \in 1 .. Len(held[e])} : e \in Device \ {d}} :
        row.pos > from}

\* The first PullPage of them in server order.
Page(d, from) ==
    {row \in Visible(d, from) :
        Cardinality({r \in Visible(d, from) : r.pos <= row.pos}) <= PullPage}

\* Faulty variant: the cursor jumps to the newest server_seq.
PageEndHighWater(page, from) == {Max2(from, nextSeq - 1)}

\* Where the next page starts, as a singleton: the last row's server_seq, or
\* the cursor that was asked for when there is no row above it.
PageEnd(page, from) ==
    {upto \in {from} \cup {row.pos : row \in page} :
        \A row \in page : row.pos <= upto}

\* A pull is authenticated, in the transaction that will read its page.
OpenPull(c) ==
    /\ conn[c].phase = "pull"
    /\ Authorised(c)
    /\ conn' = [conn EXCEPT ![c] = Reading(conn[c].dev, conn[c].cursor)]
    /\ UNCHANGED <<log, synced, remote, cursor, book, thread,
                   held, pos, nextSeq, revoked, faults>>

\* The page is read and answered, whatever became of the device meanwhile.
AnswerPull(c) ==
    /\ conn[c].phase = "reading"
    /\ LET d == conn[c].dev
           page == Page(d, conn[c].cursor)
       IN \E upto \in PageEnd(page, conn[c].cursor) :
             Answer(c, Pulled(d, page, upto))
    /\ UNCHANGED <<log, synced, remote, cursor, book, thread,
                   held, pos, nextSeq, revoked, faults>>

-----------------------------------------------------------------------------
Round(d) ==
    \/ SendPush(d) \/ NothingToPush(d) \/ AckPush(d) \/ SendPull(d)
    \/ ReceivePage(d) \/ ApplyRow(d) \/ FinishRound(d) \/ Refuse(d)

Serve(c) ==
    \/ Unauthorised(c) \/ PlanPush(c) \/ AnswerRepeat(c) \/ InsertRow(c)
    \/ UniqueViolation(c) \/ CommitPush(c) \/ OpenPull(c) \/ AnswerPull(c)

Next ==
    \/ \E d \in Device, p \in Payload : Record(d, p)
    \/ \E d \in Device :
          \/ Round(d) \/ StoreFault(d) \/ GiveUp(d) \/ TornBody(d)
          \/ Restart(d) \/ Revoke(d)
    \/ \E c \in Conn : Serve(c) \/ AuthFault(c) \/ Abort(c)

Spec == Init /\ [][Next]_vars

\* The scheduler's loop runs rounds for ever, and a request that reached the
\* server is carried through.  Faults need no fairness: MaxFaults ends them.
Fairness ==
    /\ \A d \in Device : WF_vars(Round(d))
    /\ \A c \in Conn : WF_vars(Serve(c))

FairSpec == Spec /\ Fairness

-----------------------------------------------------------------------------
\* The promise this protocol has to keep, over the same four variables.
Promise == INSTANCE OutletLog

\* Every step of tills, network and server is a step of the promise or none.
ImplementsOutletLog == Promise!Spec

-----------------------------------------------------------------------------
(***************************************************************************)
(* What syncing promises.                                                  *)
(***************************************************************************)

\* An event the till counts as synced is on the server, and it is the same
\* event: mark_synced never drops one that exists nowhere else.
SyncedIsHeld ==
    \A d \in Device : IsPrefix(SubSeq(log[d], 1, synced[d]), held[d])

\* Whatever arrives late, twice or after a restart, the server's chain of a
\* device is the beginning of the chain on that device's disk.
HeldIsSealed == \A d \in Device : IsPrefix(held[d], log[d])

\* The pull cursor never passes a sibling's event the till does not hold.
NothingSkipped ==
    \A d \in Device : \A e \in Device \ {d} : \A n \in 1 .. Len(held[e]) :
        pos[e][n] <= cursor[d] => <<e, n>> \in remote[d]

\* A till whose badge says UpToDate shows every sibling sale it has pulled.
BookShowsPulled ==
    \A d \in Device : thread[d] = Asleep(TRUE) => book[d] = remote[d]

\* Lost answers, late duplicates and restarts never end a sync thread: only
\* a revoked device stops for good.  Flaky adds faults that break this.
StoppedForCause ==
    \A d \in Device : thread[d] = Stopped => d \in revoked

\* The transactions the server has open for a device, and the answers it has
\* on their way to it that acknowledge events or carry some.
OpenFor(d) == {c \in Conn : InTransaction(c) /\ conn[c].dev = d}
ServedTo(d) == {c \in Conn : conn[c].phase \in {"pushed", "pulled"} /\ conn[c].dev = d}

\* A revoked device is cut off, but for what it had open: the transactions
\* authenticated before it was revoked end one by one and no more are opened
\* for it, and only as one of them ends is anything of it stored or
\* acknowledged or a page of its siblings' sales sent to it (authenticate).
RevokedIsCutOff ==
    [][\A d \in revoked :
          LET ended == OpenFor(d) \ OpenFor(d)'
          IN /\ OpenFor(d)' \subseteq OpenFor(d)
             /\ ServedTo(d)' \subseteq ServedTo(d) \cup ended
             /\ held'[d] # held[d] => ended # {}]_vars

\* A stolen till stops for good: however its requests are lost or it is
\* restarted, its thread hears of the revocation and ends.
RevokedStops ==
    \A d \in Revocable : d \in revoked ~> thread[d] = Stopped

\* Every recorded event of a device in good standing reaches the server and
\* leaves the till's queue.
QueueDrains ==
    \A d \in Device : \A n \in 1 .. Quota[d] :
        (Len(log[d]) >= n) ~> (synced[d] >= n \/ d \in revoked)

\* Every event the server holds reaches every sibling in good standing.
SiblingsLearn ==
    \A d \in Device : \A e \in Device \ {d} : \A n \in 1 .. Quota[e] :
        (Len(held[e]) >= n) ~> (<<e, n>> \in remote[d] \/ d \in revoked)
=============================================================================
