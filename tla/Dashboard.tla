------------------------------ MODULE Dashboard ------------------------------
(***************************************************************************)
(* What an owner reads on a phone: the server's day report, projected from *)
(* the log the outlet's tills have pushed, beside what a till that knows   *)
(* the same events says of the day.  The tills are those of Ticket; of     *)
(* their sync only what has reached the server matters here.               *)
(***************************************************************************)
EXTENDS Ticket

CONSTANTS
    Tokens,      \* per dashboard token, the outlet it reads or Everywhere
    Windows,     \* the days asked for: [from, to], chosen by whoever asks
    Unreadable   \* event kinds of a till newer than the server

VARIABLES
    pushed,      \* per till, how many of its own events the server has
    minted,      \* the tokens handed out
    revoked,     \* the tokens an operator took back
    answer       \* what the server has just answered, if that is what happened last

dashboardVars == <<clock, store, book, doing, slips, pushed, minted, revoked, answer>>

Here == "here"
Elsewhere == "elsewhere"
Everywhere == "everywhere"
Unasked == "unasked"
OutletIds == {Here, Elsewhere}

Fine == 200
BadRequest == 400
Unauthorized == 401
Forbidden == 403
Unprocessable == 422
Unavailable == 503

NoAnswer == [status |-> 0]
Status(code) == [status |-> code]

-----------------------------------------------------------------------------
(***************************************************************************)
(* The projection.                                                         *)
(***************************************************************************)

\* Day::of, as far as a sale's own figures go.
Figures(sales) ==
    LET completed == {k \in Sales : sales[k].status = "completed"}
        over(figure(_)) == FoldSet(LAMBDA k, sum : sum + figure(sales[k]), 0, completed)
    IN [sales |-> Cardinality(completed), takings |-> over(Total), cash |-> over(NetCash)]

\* The outlet's sale events, in order of time; another outlet of the tenant has
\* traded nothing.
Logged(outlet) ==
    LET has(t) == Range(SubSeq(InOrder(Own(t)), 1, pushed[t]))
    IN IF outlet = Here THEN InOrder(UNION {has(t) : t \in Device}) ELSE << >>

\* The rows between two moments, both included, less those of a newer till.
Rows(outlet, window) ==
    SelectSeq(Logged(outlet), LAMBDA e : e.at \in window.from .. window.to /\ e.kind \notin Unreadable)

\* SaleBook::replay: the first event that does not apply ends it.
StrictReplay(events) ==
    FoldLeft(LAMBDA replay, e :
                IF replay.ok /\ BookAccepts(replay.book, e)
                THEN [replay EXCEPT !.book = BookApply(@, e)]
                ELSE [replay EXCEPT !.ok = FALSE],
             [ok |-> TRUE, book |-> EmptyBook], events)

Report(outlet, window) ==
    LET replay == StrictReplay(Rows(outlet, window))
    IN IF replay.ok THEN [status |-> Fine, day |-> Figures(replay.book)]
       ELSE Status(Unprocessable)

-----------------------------------------------------------------------------
(***************************************************************************)
(* The requests.                                                           *)
(***************************************************************************)

Authentic(token) == token \in minted \ revoked

\* Whether a token is answered for the outlet it asks for: one scoped to an
\* outlet may leave the outlet out, the others may not.
Scope(token, asked) ==
    CASE ~Authentic(token) -> Status(Unauthorized)
      [] Authentic(token) /\ Tokens[token] = Everywhere /\ asked = Unasked -> Status(BadRequest)
      [] Authentic(token) /\ Tokens[token] = Everywhere /\ asked # Unasked ->
           [status |-> Fine, outlet |-> asked]
      [] Authentic(token) /\ asked \in {Unasked, Tokens[token]} ->
           [status |-> Fine, outlet |-> Tokens[token]]
      [] OTHER -> Status(Forbidden)

\* GET /api/report/day, with the database there or not.
ReadsDay(token, asked, window) ==
    LET scope == Scope(token, asked)
    IN /\ answer' \in {Status(Unavailable),
                       IF scope.status = Fine
                       THEN Report(scope.outlet, window) @@ scope @@ window
                       ELSE scope}
       /\ UNCHANGED <<vars, pushed, minted, revoked>>

\* GET /api/outlets.
ReadsOutlets(token) ==
    /\ answer' \in {Status(Unavailable),
                    IF ~Authentic(token) THEN Status(Unauthorized)
                    ELSE [status |-> Fine,
                          outlets |-> {o \in OutletIds : Tokens[token] \in {o, Everywhere}}]}
    /\ UNCHANGED <<vars, pushed, minted, revoked>>

\* issue-dashboard-token: for one outlet, or spelled out for the whole tenant.
IssuesToken(token) ==
    /\ token \notin minted
    /\ minted' = minted \cup {token}
    /\ answer' = NoAnswer
    /\ UNCHANGED <<vars, pushed, revoked>>

\* revoked_at is set by hand in the database.
Revokes(token) ==
    /\ token \in minted \ revoked
    /\ revoked' = revoked \cup {token}
    /\ answer' = NoAnswer
    /\ UNCHANGED <<vars, pushed, minted>>

\* A push of SahlSync: a till's next events are in the server's log.
Pushes(t) ==
    /\ \E n \in pushed[t] + 1 .. Cardinality(Own(t)) : pushed' = [pushed EXCEPT ![t] = n]
    /\ answer' = NoAnswer
    /\ UNCHANGED <<vars, minted, revoked>>

Trades(t) == Step(t) /\ answer' = NoAnswer /\ UNCHANGED <<pushed, minted, revoked>>

Asks(token) ==
    \/ ReadsOutlets(token)
    \/ \E asked \in OutletIds \cup {Unasked}, window \in Windows :
          ReadsDay(token, asked, window)

DashboardInit ==
    /\ Init
    /\ pushed = [t \in Device |-> 0] /\ minted = {} /\ revoked = {} /\ answer = NoAnswer

DashboardNext ==
    \/ \E t \in Device : Trades(t) \/ Pushes(t)
    \/ \E token \in DOMAIN Tokens : Asks(token) \/ IssuesToken(token) \/ Revokes(token)

DashboardSpec == DashboardInit /\ [][DashboardNext]_dashboardVars

-----------------------------------------------------------------------------
(***************************************************************************)
(* Properties.                                                             *)
(***************************************************************************)

WholeDay(reply) == reply.from = 0 /\ reply.to = MaxEvents

\* An owner who is answered about the whole log is told what a till that knows
\* exactly the same events shows (Terminal::day: "the dashboard and the till
\* cannot reach different answers for the same day").
DashboardAgrees ==
    ("outlet" \in DOMAIN answer /\ answer.outlet = Here /\ WholeDay(answer)) =>
        \A t \in Device :
            Known(t) = Range(Logged(Here)) =>
                answer.status = Fine /\ answer.day = Figures(book[t])
=============================================================================
