-------------------------------- MODULE Rules --------------------------------
(***************************************************************************)
(* The till's calculations, one at a time over given inputs: what each is  *)
(* asked, what it answers, and what the answers owe each other.  The       *)
(* calculations themselves are in Money, Tax, Stock, Purchasing, Scale,    *)
(* Catalogue, People, Reports and Paper.                                   *)
(***************************************************************************)
EXTENDS Stock, Purchasing, Scale, Paper

CONSTANTS
    Amounts, WeightLists,     \* what is split, and how
    PartLists,                \* who takes which lines of a bill
    Orders,                   \* orders to price
    Groups, Taps,          \* option groups, and what is tapped
    LevelLists, Wanted,       \* what is on the shelf, and what is asked for
    MovementLists,            \* what left and reached the shelves
    Deliveries,               \* the events after a dispatch of two lines
    Receipts,                 \* what arrives of an order of one line
    SaleLists, Shifts,        \* settled sales, in order of time
    Staff, Policies, Requests,   \* who works here, and what they try
    TallyPairs, Sensitivity,  \* two people's figures
    Formats, Codes, Digits,  \* labels, and digits they are misread as
    EditLists,                \* edits of one product by several devices
    Bills, Rolls, Outlets,    \* settled sales, paper, and who prints on it
    Invoices, Edited          \* what was sealed, and what is shown instead

\* Amounts are whole, weights unsigned; a bill's parts are lists of its lines.
ASSUME SplitsAssumption ==
    /\ Amounts \subseteq Int
    /\ \A weights \in WeightLists : weights \in Seq(Nat)
    /\ \A parts \in PartLists : parts \in Seq(Seq(Nat))

\* An order is a list of lines.  A rate of tax may be negative, as in the code;
\* at minus a hundred percent or below, tax within a price would be divided by
\* nothing or less, which Money's division leaves out.
ValidRate(rate) == rate \in Int /\ BasisPointsPerUnit + rate > 0
ValidDiscount(discount) ==
    /\ discount.kind = "percentage" => discount.rate \in Int
    /\ discount.kind = "amount" => discount.amount \in Int
ValidLine(line) ==
    /\ line.price \in Int /\ line.milli \in Int /\ line.deltas \in Seq(Int)
    /\ ValidRate(line.class.rate) /\ ValidDiscount(line.discount)
ValidOrder(order) ==
    /\ order.lines \in Seq(Range(order.lines))
    /\ \A i \in DOMAIN order.lines : ValidLine(order.lines[i])
    /\ ValidDiscount(order.discount)
    /\ order.pricing \in PricingMode
ASSUME OrdersAssumption == \A order \in Orders : ValidOrder(order)

\* What is tapped, and the groups it is tapped in, are lists.
ASSUME OptionsAssumption ==
    /\ \A groups \in Groups : groups \in Seq(Range(groups))
    /\ \A chosen \in Taps : chosen \in Seq(Range(chosen))

\* A batch has one level.  Nobody asks for less than nothing, and what arrives
\* is some of the line.
ValidLevels(levels) ==
    /\ levels \in Seq(Range(levels))
    /\ \A n \in DOMAIN levels :
          /\ levels[n].batch \in Int /\ levels[n].on_hand \in Int
          /\ levels[n].expires \in Int /\ levels[n].received \in Int
    /\ \A m, n \in DOMAIN levels : levels[m].batch = levels[n].batch => m = n
ASSUME StockAssumption ==
    /\ Wanted \subseteq Nat
    /\ \A levels \in LevelLists : ValidLevels(levels)
    /\ \A movements \in MovementLists :
          /\ movements \in Seq(Range(movements))
          /\ \A n \in DOMAIN movements : movements[n].delta \in Int
ASSUME DeliveriesAssumption ==
    /\ \A events \in Deliveries :
          /\ events \in Seq(Range(events))
          /\ \A n \in DOMAIN events :
                events[n].kind \in {"Received", "Settled"} /\ events[n].data.qty \in Int
    /\ \A deliveries \in Receipts :
          deliveries \in Seq([qty : Nat \ {0}, cost : Int]) /\ deliveries # << >>

\* A sale settles on what was tendered for it, less change.  Of the shifts, the
\* first was open before the first sale, each starts when the one before it has
\* ended, and the last has not.
SettledSale(sale) ==
    /\ sale.at \in Nat /\ sale.change \in Int
    /\ sale.tenders \in Seq(Range(sale.tenders))
    /\ \A i \in DOMAIN sale.tenders : sale.tenders[i].amount \in Int
    /\ ValidOrder(Charged(sale))
    /\ TrySum([i \in DOMAIN sale.tenders |-> sale.tenders[i].amount])
          = Totals(sale).total + sale.change
ASSUME SalesAssumption ==
    \A sales \in SaleLists :
        /\ sales \in Seq(Range(sales))
        /\ \A i \in DOMAIN sales : SettledSale(sales[i])
Consecutive(shifts) ==
    /\ shifts[1].from = 0 /\ shifts[Len(shifts)].until = StillOpen
    /\ \A n \in 1 .. Len(shifts) - 1 :
          /\ shifts[n].until \in Nat /\ shifts[n].from <= shifts[n].until
          /\ shifts[n + 1].from = shifts[n].until + 1
ASSUME ShiftsAssumption ==
    \A shifts \in Shifts :
        /\ shifts \in Seq(Range(shifts)) /\ shifts # << >> /\ Consecutive(shifts)
        /\ \A n \in DOMAIN shifts :
              shifts[n].float \in Int /\ shifts[n].movements \in Seq(Int)

\* A bill is a settled sale; a roll is one the printer takes, and lengths are
\* whole.
ValidBill(sale) ==
    /\ "lines" \in DOMAIN sale /\ SettledSale(sale) /\ sale.change >= 0
    /\ \A i \in DOMAIN sale.tenders : sale.tenders[i].method \in DOMAIN TenderLabel
ASSUME PaperAssumption ==
    /\ BuyerRequiredAbove \in Int /\ Rolls \subseteq DOMAIN PaperWidth
    /\ \A sale \in Bills : ValidBill(sale)
    /\ \A outlet \in Outlets :
          outlet.seller.name \in Nat /\ outlet.seller.registration \in Seq(Nat)
ASSUME InvoicesAssumption ==
    /\ \A sales \in Invoices : sales \in Seq(Range(sales)) /\ sales # << >>
    /\ \A edit \in Edited : edit \in Seq(Range(edit))

\* Enrolments are dated; a request is a void, or a discount of one of two kinds.
ASSUME StaffAssumption ==
    /\ \A m \in Members(Staff) : Staff[m].role \in Role /\ Staff[m].since \in Nat
    /\ \A request \in Requests :
          /\ request.kind \in {"line_voided", "order_discounted"}
          /\ request.discount \in {"amount", "percentage"}

\* Two people.  Nobody gives off what they did not sell, or voids what they did
\* not ring.
ASSUME TalliesAssumption ==
    /\ Sensitivity.minimum_sales \in Nat /\ Sensitivity.outlier_multiple \in Nat \ {0}
    /\ \A tallies \in TallyPairs :
          /\ \E p, q \in DOMAIN tallies : p # q /\ DOMAIN tallies = {p, q}
          /\ \A who \in DOMAIN tallies :
                /\ tallies[who].part \in Nat /\ tallies[who].gross \in Nat
                /\ tallies[who].sales \in Nat
                /\ tallies[who].part > 0 => tallies[who].gross > 0

\* Twelve digits, the check digit left out; a digit is misread as a digit.
ASSUME LabelsAssumption ==
    /\ \A format \in Formats : ValidFormat(format)
    /\ \A format \in Formats :
          /\ {format.item, format.value, format.filler, format.decimals} \subseteq Nat
          /\ format.prefix \in Seq(0 .. 9) /\ format.embedded \in {"weight", "price"}
    /\ \A twelve \in Codes : twelve \in Seq(0 .. 9) /\ Len(twelve) = LabelLength - 1
    /\ Digits \subseteq 0 .. 9

\* The server gives no sequence number twice.
ASSUME EditsAssumption ==
    \A edits \in EditLists :
        /\ edits \in Seq(Range(edits)) /\ edits # << >>
        /\ \A e \in Range(edits) : e.server_seq \in Int /\ e.device \in Int
        /\ \A e, f \in Range(edits) : e.server_seq = f.server_seq /\ e.device = f.device => e = f

VARIABLE calc

None == [of |-> "nothing"]
Answers(question) == calc' = question

Init == calc = None

\* Today, between the dates of LevelLists.
Today == 10

Allocates ==
    \E amount \in Amounts, weights \in WeightLists :
        /\ Weighs(weights)
        /\ Answers([of |-> "allocate", amount |-> amount, weights |-> weights,
                    parts |-> Allocate(amount, weights)])

\* split_bill by lines, where what the lines come to is given.
Splits ==
    \E totals \in WeightLists, parts \in PartLists :
        /\ SplitsByLines(totals, parts)
        /\ Answers([of |-> "split", totals |-> totals, due |-> ByLines(totals, parts)])

Prices ==
    \E order \in Orders :
        Answers([of |-> "order", order |-> order, totals |-> Calculate(order)])

Chooses ==
    \E groups \in Groups, chosen \in Taps :
        /\ \A g \in DOMAIN groups : ValidGroup(groups[g])
        /\ Answers([of |-> "options", groups |-> groups, chosen |-> chosen,
                    charged |-> ResolveModifiers(groups, chosen)])

Picks ==
    \E levels \in LevelLists, wanted \in Wanted :
        Answers([of |-> "pick", levels |-> levels, wanted |-> wanted,
                 picked |-> PickFefo(levels, wanted, Today)])

Oversells ==
    \E movements \in MovementLists :
        Answers([of |-> "oversold", movements |-> movements,
                 found |-> DetectOversells(movements)])

\* Events the till refuses leave a transfer as it was.
TransferStep(transfer, e) ==
    IF TransferAccepts(transfer, e) THEN TransferApply(transfer, e) ELSE transfer
TransferAfter(dispatch, events) == Through(TransferStep, Dispatched(dispatch), events)

Transfers ==
    \E events \in Deliveries :
        LET dispatch == [data |-> [lines |-> <<2, 2>>, from |-> "here", to |-> "there"]]
            transfer == TransferAfter(dispatch, events)
        IN /\ DispatchAccepts(dispatch)
           /\ Answers([of |-> "transfer", transfer |-> transfer,
                       status |-> TransferStatus(transfer)])

\* An order of one line, quoted at 50, and its deliveries.
Placement(qty) == [kind |-> "Placed", data |-> [lines |-> <<[qty |-> qty, cost |-> 50]>>]]
Arrivals(deliveries) ==
    [n \in DOMAIN deliveries |->
        [kind |-> "LineReceived",
         data |-> [line |-> 1, qty |-> deliveries[n].qty, cost |-> deliveries[n].cost]]]

Receives ==
    \E qty \in {500, 2000}, deliveries \in Receipts :
        Answers([of |-> "purchase", deliveries |-> deliveries,
                 order |-> OrderReplay(<<Placement(qty)>> \o Arrivals(deliveries))])

Closes ==
    \E sales \in SaleLists, shifts \in Shifts :
        Answers([of |-> "day", sales |-> sales, day |-> Day(sales), shifts |-> shifts,
                 reports |-> [n \in DOMAIN shifts |-> ShiftReport(shifts[n], sales)]])

\* What a role may do with nobody's approval.
MayAlone(role, request, policy) ==
    \/ request.kind = "line_voided" /\ AllowsVoid(role, request.amount, policy)
    \/ /\ request.kind = "order_discounted"
       /\ \/ request.discount = "amount" /\ AllowsDiscount(role, request.amount, policy)
          \/ request.discount = "percentage" /\ AllowsDiscountRate(role, request.amount, policy)

Refusal(who, pin, permission) ==
    [of |-> "refusal", who |-> who, pin |-> pin, permission |-> permission,
     needs |-> MinimumFor(permission)]

\* What the feed finds in a day of nothing but the request, allowed by somebody.
Audited(who, by, request, policy) ==
    LET e == [kind |-> request.kind, at |-> 1, by |-> by,
              discount |-> IF request.discount = "percentage"
                           THEN Percentage(request.amount) ELSE AmountOff(request.amount)]
    IN [of |-> "audit", who |-> who, by |-> by, request |-> request,
        alone |-> MayAlone(Staff[who].role, request, policy), policy |-> policy,
        found |-> ScanFindings(<< >>, EntriesOf(e, who, request.amount), Staff, policy,
                               StartingPoint("BDT"))]

PermissionFor(request) == IF request.kind = "line_voided" THEN "VoidLine" ELSE "ApplyDiscount"

\* Somebody signed in tries a discount or a void on a sale of their own, types
\* a PIN if need be, and the feed is read.
Judges ==
    \E policy \in Policies, who \in Members(Staff), request \in Requests, pin \in {1, 2} :
        LET permission == PermissionFor(request)
            roles == {role \in Role : MayAlone(role, request, policy)}
            allowed == AuthorizeFor(Staff, {who}, permission, roles, pin)
        IN \/ /\ allowed = {}
              /\ Answers(Refusal(who, pin, permission))
           \/ \E by \in allowed : Answers(Audited(who, by, request, policy))

Compares ==
    \E tallies \in TallyPairs :
        Answers([of |-> "outliers", tallies |-> tallies,
                 found |-> Outliers(tallies, Sensitivity)])

\* A label of the outlet's format, sealed as the scale prints it, is scanned,
\* one digit misread or none.
Scans ==
    \E format \in Formats, twelve \in Codes, at \in 1 .. LabelLength, digit \in Digits,
       unit \in Unit :
        LET code == Append(twelve, CheckDigit(twelve))
            item == ItemCode(format, code)
            shelf == [id \in {item} |-> [unit |-> unit, barcodes |-> {id}]]
        IN /\ Matches(format, code)
           /\ Answers([of |-> "scan", format |-> format, label |-> code, unit |-> unit,
                       misread |-> digit # code[at],
                       sold |-> Scan({format}, shelf, [code EXCEPT ![at] = digit], "BDT")])

Edits ==
    \E edits \in EditLists :
        Answers([of |-> "edits", edits |-> edits, stands |-> LatestOf(edits)])

\* A settled sale is printed, and its document issued; one that was never
\* invoiced has a receipt all the same.
Prints ==
    \E sale \in Bills, outlet \in Outlets, roll \in Rolls, number \in {NotInvoiced, 7} :
        Answers([of |-> "paper", sale |-> sale, roll |-> roll, outlet |-> outlet,
                 receipt |-> Receipt(sale, number),
                 document |-> FiscalDocument(sale, number, outlet)])

Shown(seals, edit) ==
    [n \in DOMAIN edit |->
        IF edit[n].content = "as sealed" THEN seals[edit[n].at]
        ELSE [seals[edit[n].at] EXCEPT !.content = edit[n].content]]

\* Sealed invoices, and what somebody shows instead: some of them, in some
\* order, the content of any altered.
Verifies ==
    \E sales \in Invoices, edit \in Edited :
        LET seals == SealAll(sales)
            shown == Shown(seals, edit)
        IN /\ \A n \in DOMAIN edit : edit[n].at \in DOMAIN seals
           /\ Answers([of |-> "chain", seals |-> seals, shown |-> shown,
                       tip |-> VerifyInvoiceChain(shown)])

Finishes == calc # None /\ calc' = None

Next ==
    \/ /\ calc = None
       /\ \/ Allocates \/ Splits \/ Prices \/ Chooses \/ Picks \/ Oversells \/ Transfers
          \/ Receives \/ Closes \/ Judges \/ Compares \/ Scans \/ Edits
          \/ Prints \/ Verifies
    \/ Finishes

Spec == Init /\ [][Next]_calc

-----------------------------------------------------------------------------
(***************************************************************************)
(* Properties.                                                             *)
(***************************************************************************)

\* Splitting an amount, or a bill's lines, makes and loses nothing: the parts
\* add up, each is within a unit of its exact share, and nobody without a
\* share pays (Money::allocate, by_lines).
SplitsExactly ==
    /\ calc.of = "allocate" =>
          LET whole == TrySum(calc.weights)
          IN /\ TrySum(calc.parts) = calc.amount
             /\ \A i \in DOMAIN calc.parts :
                   /\ Abs(calc.parts[i] * whole - calc.amount * calc.weights[i]) < whole
                   /\ calc.weights[i] = 0 => calc.parts[i] = 0
    /\ calc.of = "split" => TrySum(calc.due) = TrySum(calc.totals)

GroupBase(groups) == MapThenSumSet(LAMBDA g : g.base, groups)
GroupTax(groups) == MapThenSumSet(LAMBDA g : g.tax, groups)

OrderAddsUp(order, t) ==
    LET inclusive == order.pricing = "tax_inclusive"
        taxed(line) == IF inclusive THEN line.total ELSE line.net
        whole(line) == BasisPointsPerUnit + (IF inclusive THEN line.class.rate ELSE 0)
    IN /\ t.net + t.tax = t.total
       /\ t.gross - t.discount = IF inclusive THEN t.total ELSE t.net
       /\ GroupBase(t.groups) = t.net
       /\ GroupTax(t.groups) = t.tax
       /\ \A line \in Range(t.lines) :
             Abs(line.tax * whole(line) - taxed(line) * line.class.rate) < whole(line)
       /\ (\A line \in Range(t.lines) : line.gross >= 0) =>
             \A line \in Range(t.lines) : line.discount \in 0 .. line.gross

\* An order's figures are its lines' figures, whichever way the tax is quoted
\* and the discount spread: what was listed less what was given off is paid,
\* the tax groups add up, each line's tax is its rate's to within a unit, a
\* discount never takes a line below nothing, and only chosen options are
\* charged (calculate, resolve_modifiers).
TaxAddsUp ==
    /\ calc.of = "order" => OrderAddsUp(calc.order, calc.totals)
    /\ calc.of = "options" =>
        \A option \in Range(calc.charged) :
            /\ option \in Range(calc.chosen)
            /\ \E g \in DOMAIN calc.groups : option \in calc.groups[g].options

\* What a pick takes of a batch, and whether it leaves some of a level.
Given(picked) == [i \in DOMAIN picked.allocations |-> picked.allocations[i].taken]
TakenOf(picked, batch) ==
    SumOver(Given(picked), {i \in DOMAIN picked.allocations : picked.allocations[i].batch = batch})
Leaves(picked, level) == level.on_hand > 0 /\ TakenOf(picked, level.batch) < level.on_hand

PicksFirst(levels, wanted, picked) ==
    LET fresh == Fresh(levels, Today)
    IN /\ TrySum(Given(picked)) + picked.shortfall = wanted
       /\ picked.shortfall <= Short(SellableOnHand(levels, Today), wanted)
       /\ picked.shortfall > 0 => ~\E n \in fresh : Leaves(picked, levels[n])
       /\ \A n \in DOMAIN levels : TakenOf(picked, levels[n].batch) > 0 =>
            /\ n \in fresh
            /\ ~\E m \in fresh : levels[m].expires < levels[n].expires
                                 /\ Leaves(picked, levels[m])
       /\ Range(Expired(levels, Today)) \cap Range(ExpiringSoon(levels, Today, 1)) = {}

OversoldEitherWay(movements, found) ==
    /\ found = DetectOversells(Reverse(movements))
    /\ \A oversold \in found : oversold.shortfall > 0 /\ oversold.devices # {}

ArrivesWhole(transfer, status) ==
    /\ status \in {"arrived", "settled"} <=>
          \A n \in DOMAIN transfer.lines : transfer.lines[n].received >= transfer.lines[n].qty
    /\ status = "in_transit" => ~HasOverReceipt(transfer)

PricedAsAgreed(order, deliveries) ==
    LET agreed == \A n \in DOMAIN deliveries : deliveries[n].cost = 50
        line == order.lines[1]
    IN /\ OrderStatus(order) = "fully_received" <=>
             TrySum([n \in DOMAIN deliveries |-> deliveries[n].qty]) >= line.line.qty
       /\ (agreed /\ Outstanding(line) = 0) =>
             Abs(ReceivedValue(order) - OrderedValue(order)) <= Len(deliveries)
       /\ (agreed /\ Len(deliveries) = 1) => PriceDiscrepancies(order) = {}

\* Stock is promised only where it is: a pick takes nothing expired, leaves
\* nothing that expires sooner, and finds all there is; the outlet's oversells
\* do not depend on the order its tills' movements are met in; a transfer has
\* arrived only when every line has; an order's price is questioned only when
\* more was off than its deliveries' rounding (pick_fefo, detect_oversells,
\* Transfer, price_discrepancies).
StockHolds ==
    /\ calc.of = "pick" => PicksFirst(calc.levels, calc.wanted, calc.picked)
    /\ calc.of = "oversold" => OversoldEitherWay(calc.movements, calc.found)
    /\ calc.of = "transfer" => ArrivesWhole(calc.transfer, calc.status)
    /\ calc.of = "purchase" => PricedAsAgreed(calc.order, calc.deliveries)

CashTenders(sale) == {i \in DOMAIN sale.tenders : AcceptsOvertender(sale.tenders[i].method)}
ChangeFromOneTender(sale) == sale.change = 0 \/ Cardinality(CashTenders(sale)) = 1

\* What all the rows, or all the reports, say.
Told(rows, field) == TrySum([n \in DOMAIN rows |-> rows[n][field]])

DayReconciles(sales, day, shifts, reports) ==
    /\ day.net + day.tax = day.takings
    /\ Abs(day.takings - day.average * day.sales) <= day.sales
    /\ Told(day.by_cashier, "sales") = day.sales
    /\ Told(day.by_cashier, "takings") = day.takings
    /\ Told(day.by_cashier, "discount") = day.discount
    /\ Told(reports, "sales") = day.sales
    /\ Told(reports, "takings") = day.takings
    /\ Told(reports, "expected") =
          Told(reports, "cash_from_sales") + Told(shifts, "float")
            + TrySum([n \in DOMAIN shifts |-> NetMovements(shifts[n])])
    /\ (\A i \in DOMAIN sales : ChangeFromOneTender(sales[i])) =>
          /\ TrySum(day.by_payment) = day.takings
          /\ Told(reports, "cash_from_sales") =
                IF "cash" \in DOMAIN day.by_payment THEN day.by_payment["cash"] ELSE 0

\* The day and the drawer tell one story: takings are what was paid, by
\* cashier and by method; of shifts, one after the other, each sale is in
\* exactly one; and together they expect the cash the day took (Day::of,
\* report).  A sale that gives change on two cash tenders is left out: its
\* change comes off the cash row twice.
BooksReconcile ==
    calc.of = "day" => DayReconciles(calc.sales, calc.day, calc.shifts, calc.reports)

\* The feeds accuse nobody of what the till allowed, and miss nobody: what was
\* done within a limit, or approved by another, raises no alert; of two people
\* the scan never names both, and always names the only one who does it, once
\* there are enough sales to tell; nobody who could approve is turned away
\* (unapproved, discount_outliers, authorize_for).  A percentage leaves no
\* amount behind, so one within its limit does raise an alert.
FeedsFair ==
    /\ calc.of = "audit" =>
        /\ calc.by = calc.who => calc.alone \/ RoleCan(Staff[calc.who].role, "VoidLine")
        /\ calc.request.discount = "amount" =>
              \A finding \in calc.found : finding.kind # "self_approved"
    /\ calc.of = "refusal" =>
        /\ RoleCan(calc.needs, calc.permission)
        /\ ~RoleCan(Staff[calc.who].role, calc.permission)
        /\ ~\E m \in Approvers(Staff, calc.permission) : Staff[m].pin = calc.pin
    /\ calc.of = "outliers" =>
        /\ Cardinality(calc.found) < 2
        /\ \A who \in DOMAIN calc.tallies :
              LET t == calc.tallies[who]
                  other == calc.tallies[CHOOSE p \in DOMAIN calc.tallies : p # who]
              IN /\ (t.sales >= Sensitivity.minimum_sales /\ t.part > 0 /\ other.part = 0)
                      => who \in calc.found
                 /\ who \in calc.found => t.part * other.gross > other.part * t.gross
                                          \/ other.gross = 0

\* The number a scale printed, and how much of it makes a whole kilogram, or a
\* whole taka.
Printed(scan) == RawValue(scan.format, scan.label)
PerWhole(scan) == 10 ^ scan.format.decimals

\* The till holds as many decimals as the scale printed; and of a weighed item
\* there is some, and a whole number of them if it is sold by the piece.
CanBeSold(scan) ==
    /\ scan.format.decimals <= Holds(scan.format, "BDT")
    /\ scan.format.embedded = "weight" =>
          /\ Printed(scan) > 0
          /\ IsDivisible(scan.unit) \/ Printed(scan) % PerWhole(scan) = 0

SoldAsPrinted(scan) ==
    /\ scan.sold.product = ItemCode(scan.format, scan.label)
    /\ scan.format.embedded = "weight" =>
          /\ scan.sold.price = AtCatalogue
          /\ scan.sold.milli * PerWhole(scan) = Printed(scan) * MilliPerUnit
    /\ scan.format.embedded = "price" =>
          /\ scan.sold.milli = MilliPerUnit
          /\ scan.sold.price * PerWhole(scan) = Printed(scan) * MinorPerMajor("BDT")

\* A label of which the scanner read one digit wrong is never sold; a label it
\* read right is sold whenever it can be, as the item and for the weight or
\* the price the scale printed; whatever order a product's edits are met in,
\* the same one stands (ScaleFormat::parse, weigh, Terminal::scan, latest_of).
ReadsTrue ==
    /\ calc.of = "scan" =>
          /\ calc.sold.kind = "found" <=> ~calc.misread /\ CanBeSold(calc)
          /\ calc.sold.kind = "found" => SoldAsPrinted(calc)
    /\ calc.of = "edits" => calc.stands = LatestOf(Reverse(calc.edits))

ReceiptAddsUp(r) ==
    LET paid == TrySum([i \in DOMAIN r.tenders |-> r.tenders[i].amount])
    IN r.net + GroupTax(r.tax_groups) = r.total /\ paid - r.change = r.total

LineAgrees(line, milli) ==
    /\ line.total_value + line.vat = line.total_with_tax
    /\ milli # 0 =>
          Abs(line.unit_value * milli - line.total_value * MilliPerUnit) <= Abs(milli)

DocumentAgrees(sale, outlet, r, d) ==
    /\ d.regime \notin {"none", "refused"} =>
         /\ d.number = r.invoice /\ d.number # NotInvoiced
         /\ d.net = r.net /\ d.tax = r.tax /\ d.total = r.total
         /\ Column(d.lines, "total_value") = r.net
         /\ \A i \in DOMAIN d.lines : LineAgrees(d.lines[i], ActiveLines(sale)[i].milli)
    /\ d.regime = "zatca" =>
         /\ ReadBack(d.qr[4].value) = r.total /\ ReadBack(d.qr[5].value) = r.tax
         /\ QrPrints(d.qr)
    /\ (outlet.regime = "bd_mushak" /\ r.total > BuyerRequiredAbove) => d.regime = "refused"

RollHolds(r, roll) ==
    \A row \in RowsOf(r) :
        LET width == PaperWidth[roll]
            laid == Columns(row.label, row.amount, width)
        IN laid.amount = row.amount /\ laid.label + laid.gap + laid.amount <= width

\* What is handed over says what was charged: the receipt's figures add up and
\* are what was paid; the fiscal document states the same figures, line by
\* line net of tax, and in its QR, or is refused; no amount is cut off the
\* roll; and invoices that verify to the till's tip are the invoices it sealed
\* (receipt, render, issue, verify_invoice_chain).  The figure beside a line
\* is left out: it is the price of one, whatever the quantity.
PaperAgrees ==
    /\ calc.of = "paper" =>
          /\ ReceiptAddsUp(calc.receipt)
          /\ DocumentAgrees(calc.sale, calc.outlet, calc.receipt, calc.document)
          /\ RollHolds(calc.receipt, calc.roll)
    /\ calc.of = "chain" =>
          (calc.tip = TipOf(Last(calc.seals)) => calc.shown = calc.seals)
=============================================================================
