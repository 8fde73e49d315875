------------------------------- MODULE Reports -------------------------------
(***************************************************************************)
(* What sahl-core reads out of a log: the day, a shift's report, the audit *)
(* feed and the scan for anomalies.  A settled sale is a record of what    *)
(* its events left: who opened it, when it settled, its lines (as Tax      *)
(* takes them, with their product and whether they were struck off), its   *)
(* discount and how it was paid.                                           *)
(***************************************************************************)
EXTENDS Tax, People, SequencesExt

ActiveLines(sale) == SelectSeq(sale.lines, LAMBDA line : ~line.void)
VoidCount(sale) == Len(sale.lines) - Len(ActiveLines(sale))

\* What was charged: the engine's figures over the active lines.
Charged(sale) == [sale EXCEPT !.lines = ActiveLines(sale)]
Totals(sale) == Calculate(Charged(sale))

Methods(sale) == {sale.tenders[i].method : i \in DOMAIN sale.tenders}
AcceptsOvertender(method) == method = "cash"
Taken(sale, method) ==
    TrySum([i \in DOMAIN sale.tenders |->
              IF sale.tenders[i].method = method THEN sale.tenders[i].amount ELSE 0])
NetCash(sale) == Taken(sale, "cash") - sale.change

-----------------------------------------------------------------------------
(***************************************************************************)
(* The day.                                                                *)
(***************************************************************************)

\* Change comes off every cash tender of its sale.
MethodTotal(sale, method) ==
    LET those == {i \in DOMAIN sale.tenders : sale.tenders[i].method = method}
    IN IF AcceptsOvertender(method)
       THEN Taken(sale, method) - sale.change * Cardinality(those)
       ELSE Taken(sale, method)

\* The lines are paired with the totals in order, but only active lines have
\* totals: after a struck-off line, each is paired with a later one's.
ProductPairs(sale) ==
    LET computed == Totals(sale).lines
    IN {[line |-> sale.lines[i], total |-> computed[i].total, at |-> i] :
          i \in {j \in DOMAIN computed : ~sale.lines[j].void}}

\* Each sale's totals, and how many of its lines were struck off.
Figures(sales, field) == [i \in DOMAIN sales |-> Totals(sales[i])[field]]
Voids(sales) == [i \in DOMAIN sales |-> VoidCount(sales[i])]

OpenedBy(sales, who) == {i \in DOMAIN sales : sales[i].by = who}
ByCashier(sales) ==
    [who \in {sales[i].by : i \in DOMAIN sales} |->
        LET own == OpenedBy(sales, who)
        IN [sales |-> Cardinality(own), takings |-> SumOver(Figures(sales, "total"), own),
            discount |-> SumOver(Figures(sales, "discount"), own),
            voids |-> SumOver(Voids(sales), own)]]

PaidWith(sales, method) == [i \in DOMAIN sales |-> MethodTotal(sales[i], method)]
ByPayment(sales) ==
    [method \in UNION {Methods(sales[i]) : i \in DOMAIN sales} |-> TrySum(PaidWith(sales, method))]

ByProduct(sales) ==
    LET of(sale, p) == {pair \in ProductPairs(sale) : pair.line.product = p}
        sold == UNION {ProductPairs(sales[i]) : i \in DOMAIN sales}
    IN [p \in {pair.line.product : pair \in sold} |->
          TrySum([i \in DOMAIN sales |-> MapThenSumSet(LAMBDA pair : pair.total, of(sales[i], p))])]

\* Day::of, over settled sales.
Day(sales) ==
    [sales |-> Len(sales), takings |-> TrySum(Figures(sales, "total")),
     net |-> TrySum(Figures(sales, "net")), tax |-> TrySum(Figures(sales, "tax")),
     discount |-> TrySum(Figures(sales, "discount")), voids |-> TrySum(Voids(sales)),
     average |-> IF sales = << >> THEN 0
                 ELSE InParts(TrySum(Figures(sales, "total")), Len(sales))[1],
     by_cashier |-> ByCashier(sales), by_payment |-> ByPayment(sales),
     by_product |-> ByProduct(sales)]

-----------------------------------------------------------------------------
(***************************************************************************)
(* A shift: what a drawer should hold.                                     *)
(***************************************************************************)

StillOpen == -1

\* Faulty variant: a sale at the moment of closing is left to the next shift.
CoversBefore(shift, at) == shift.from <= at /\ (shift.until = StillOpen \/ at < shift.until)

\* Both ends belong to the shift.
Covers(shift, at) == shift.from <= at /\ (shift.until = StillOpen \/ at <= shift.until)

NetMovements(shift) == TrySum(shift.movements)

SettledIn(shift, sales) == {i \in DOMAIN sales : Covers(shift, sales[i].at)}
DrawerCash(sales) == [i \in DOMAIN sales |-> NetCash(sales[i])]

ShiftReport(shift, sales) ==
    LET mine == SettledIn(shift, sales)
        cash == SumOver(DrawerCash(sales), mine)
        expected == shift.float + cash + NetMovements(shift)
        counted == IF shift.counts = << >> THEN {} ELSE {Last(shift.counts)}
    IN [sales |-> Cardinality(mine), cash_from_sales |-> cash, expected |-> expected,
        takings |-> SumOver(Figures(sales, "total"), mine),
        variance |-> {c - expected : c \in counted},
        attempts |-> Len(shift.counts)]

-----------------------------------------------------------------------------
(***************************************************************************)
(* The audit feed.  An entry is read off an event; who acted is whoever    *)
(* opened the sale or the shift it belongs to.                             *)
(***************************************************************************)

Severity == [routine |-> 0, notable |-> 1, alert |-> 2]
NoAmount == {}
Unaided == {}

CashSeverity(reason) ==
    CASE reason = "correction" -> Severity.alert
      [] reason \in {"skim", "petty_cash", "refund"} -> Severity.notable
      [] reason = "float_top_up" -> Severity.routine

\* from_sales and from_shifts, for the events that move money without selling.
\* A void is worth what its line was when it was added; a percentage, nothing
\* that could be named.
EntriesOf(e, actor, value) ==
    CASE e.kind = "line_voided" ->
           {[at |-> e.at, severity |-> Severity.notable, kind |-> e.kind, actor |-> actor,
             by |-> {e.by}, amount |-> {value}]}
      [] e.kind = "order_discounted" ->
           {[at |-> e.at, severity |-> Severity.notable, kind |-> e.kind, actor |-> actor,
             by |-> {e.by},
             amount |-> IF e.discount.kind = "amount" THEN {e.discount.amount} ELSE NoAmount]}
      [] e.kind = "abandoned" ->
           {[at |-> e.at, severity |-> Severity.routine, kind |-> e.kind, actor |-> actor,
             by |-> Unaided, amount |-> NoAmount]}
      [] e.kind = "cash_moved" ->
           {[at |-> e.at, severity |-> CashSeverity(e.reason), kind |-> e.kind, actor |-> actor,
             by |-> {e.by}, amount |-> {e.amount}]}
      [] e.kind = "counted" ->
           {[at |-> e.at, severity |-> Severity.routine, kind |-> e.kind, actor |-> e.by,
             by |-> Unaided, amount |-> {e.amount}]}
      [] OTHER -> {}

IsSelfApproved(entry) == entry.by = {entry.actor}

\* Whether a role had the authority; without an amount, only if it has it
\* whatever the amount.
Permits(role, entry, policy) ==
    CASE entry.kind = "line_voided" ->
           \/ RoleCan(role, "VoidLine")
           \/ \E value \in entry.amount : AllowsVoid(role, value, policy)
      [] entry.kind = "order_discounted" ->
           \/ RoleCan(role, "ApplyDiscount")
           \/ \E value \in entry.amount : AllowsDiscount(role, value, policy)
      [] entry.kind = "cash_moved" -> RoleCan(role, "MoveCash")
      [] OTHER -> TRUE

\* Of all entries, those to worry about: whoever acted approved it, and is
\* unknown or lacked the authority.
Unapproved(entries, staff, policy) ==
    {entry \in entries :
        /\ IsSelfApproved(entry)
        /\ entry.actor \in Members(staff) => ~Permits(staff[entry.actor].role, entry, policy)}

\* Terminal::authorize_for: who an action is recorded against.  Whoever is
\* signed in if their role may do it unaided, or whoever else's PIN allows it.
AuthorizeFor(staff, signed_in, permission, unaided, pin) ==
    LET alone == {who \in signed_in : staff[who].role \in unaided}
    IN IF alone # {} THEN alone ELSE Approves(staff, permission, pin)

-----------------------------------------------------------------------------
(***************************************************************************)
(* The anomaly scan.  A tally is a part, the whole, and a number of sales. *)
(***************************************************************************)

StartingPoint(currency) ==
    [minimum_sales |-> 20, outlier_multiple |-> 2,
     near_limit |-> MinorPerMajor(currency), near_limit_occurrences |-> 3]

TallyOf(sales, who, part(_), gross(_)) ==
    LET mine == SelectSeq(sales, LAMBDA sale : sale.by = who)
    IN [part |-> TrySum([i \in DOMAIN mine |-> part(mine[i])]),
        gross |-> TrySum([i \in DOMAIN mine |-> gross(mine[i])]), sales |-> Len(mine)]

Tallies(sales, part(_), gross(_)) ==
    [who \in {sales[i].by : i \in DOMAIN sales} |-> TallyOf(sales, who, part, gross)]

\* A sale with every line struck off counts for voids and not for discounts.
DiscountTallies(sales) ==
    Tallies(SelectSeq(sales, LAMBDA sale : ActiveLines(sale) # << >>),
            LAMBDA sale : Totals(sale).discount, LAMBDA sale : Totals(sale).gross)
VoidTallies(sales) == Tallies(sales, VoidCount, LAMBDA sale : Len(sale.lines))

Parts(tallies) == [p \in DOMAIN tallies |-> tallies[p].part]
Grosses(tallies) == [p \in DOMAIN tallies |-> tallies[p].gross]
Pool(tallies, people) ==
    [part |-> SumOver(Parts(tallies), people), gross |-> SumOver(Grosses(tallies), people)]

\* Faulty variant: each is compared with everybody, themselves included.
Everybody(tallies, who) == Pool(tallies, DOMAIN tallies)

\* Everybody else's tally: whoever is judged is not in the pool.
Others(tallies, who) == Pool(tallies, DOMAIN tallies \ {who})

StandsOut(person, others, multiple) ==
    IF others.gross = 0 \/ others.part = 0 THEN person.part > 0
    ELSE person.part * others.gross > others.part * person.gross * multiple

Outliers(tallies, sensitivity) ==
    {who \in DOMAIN tallies :
        /\ tallies[who].sales >= sensitivity.minimum_sales
        /\ tallies[who].part # 0
        /\ tallies[who].gross # 0
        /\ StandsOut(tallies[who], Others(tallies, who), sensitivity.outlier_multiple)}

LimitOn(kind, policy) ==
    CASE kind = "order_discounted" -> policy.discount_limit
      [] kind = "line_voided" -> policy.void_limit
      [] OTHER -> 0

Finding(kind, severity, person, count) ==
    [kind |-> kind, severity |-> severity, person |-> person, count |-> count]

\* Amounts just short of a limit, taken on one's own authority.
JustShort(entry, policy, sensitivity) ==
    LET limit == LimitOn(entry.kind, policy)
    IN /\ limit # 0
       /\ IsSelfApproved(entry)
       /\ \E value \in entry.amount : limit - sensitivity.near_limit < value /\ value <= limit

\* Who stops there too often, and how often.
NearLimit(entries, policy, sensitivity) ==
    LET close == {entry \in entries : JustShort(entry, policy, sensitivity)}
        times(e) == Cardinality({f \in close : f.actor = e.actor /\ f.kind = e.kind})
    IN {Finding("near_approval_limit", Severity.notable, e.actor, times(e)) :
            e \in {f \in close : times(f) >= sensitivity.near_limit_occurrences}}

\* Everything the scan has to say, each finding with how often it happened.
ScanFindings(sales, entries, staff, policy, sensitivity) ==
    LET bypassed == Unapproved(entries, staff, policy)
    IN {Finding("self_approved", Severity.alert, who, Cardinality({e \in bypassed : e.actor = who})) :
            who \in {e.actor : e \in bypassed}}
       \cup {Finding("discount_rate_outlier", Severity.notable, who, DiscountTallies(sales)[who].sales) :
                who \in Outliers(DiscountTallies(sales), sensitivity)}
       \cup {Finding("void_rate_outlier", Severity.notable, who, VoidTallies(sales)[who].part) :
                who \in Outliers(VoidTallies(sales), sensitivity)}
       \cup NearLimit(entries, policy, sensitivity)

=============================================================================
