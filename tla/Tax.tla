--------------------------------- MODULE Tax ---------------------------------
(***************************************************************************)
(* What an order comes to: sahl-core's discount, tax and split arithmetic. *)
(* A line is priced, its own discount taken, its share of the order's      *)
(* discount taken, and what is left is taxed line by line; the order's     *)
(* figures are sums of the lines', so they agree by addition alone.        *)
(***************************************************************************)
EXTENDS Money, FiniteSetsExt

PricingMode == {"tax_exclusive", "tax_inclusive"}

Standard(rate) == [kind |-> "standard", rate |-> rate]
ZeroRated == [kind |-> "zero_rated", rate |-> 0]
Exempt == [kind |-> "exempt", rate |-> 0]
IsTaxable(class) == class.rate # 0

NoDiscount == [kind |-> "none"]
Percentage(rate) == [kind |-> "percentage", rate |-> rate]
AmountOff(amount) == [kind |-> "amount", amount |-> amount]

\* A discount takes no more than there is, nothing from a return, and never
\* gives more.
Resolve(discount, base, mode) ==
    LET raw == CASE discount.kind = "percentage" -> ApplyRate(base, discount.rate, mode)
                 [] discount.kind = "amount" -> discount.amount
                 [] OTHER -> 0
    IN IF base <= 0 \/ raw < 0 THEN 0 ELSE IF raw > base THEN base ELSE raw

\* What options add to a price.
ModifierTotal(line) == TrySum(line.deltas)
EffectiveUnitPrice(line) == line.price + ModifierTotal(line)

Evenly(amount, parts) == [number \in 1 .. parts |-> InParts(amount, parts)[number]]

\* A discount on the whole order, borne by the lines in proportion to size.
Apportion(amount, bases) ==
    LET weights == [i \in DOMAIN bases |-> Abs(bases[i])]
    IN IF amount = 0 THEN [i \in DOMAIN bases |-> 0]
       ELSE IF Weighs(weights) THEN Allocate(amount, weights)
       ELSE Evenly(amount, Len(bases))

\* Faulty variant: the rate is taken from an inclusive price as it stands.
TaxOnTop(taxable, class, pricing, mode) ==
    LET tax == ApplyRate(taxable, class.rate, mode)
    IN IF pricing = "tax_exclusive" THEN [net |-> taxable, tax |-> tax]
       ELSE [net |-> taxable - tax, tax |-> tax]

\* Tax added to a price, or found inside one that includes it.
ResolveTax(taxable, class, pricing, mode) ==
    IF ~IsTaxable(class) THEN [net |-> taxable, tax |-> 0]
    ELSE IF pricing = "tax_exclusive"
    THEN [net |-> taxable, tax |-> ApplyRate(taxable, class.rate, mode)]
    ELSE LET tax == MulRatio(taxable, class.rate, BasisPointsPerUnit + class.rate, mode)
         IN [net |-> taxable - tax, tax |-> tax]

LinesNet(lines, S) == MapThenSumSet(LAMBDA i : lines[i].net, S)
LinesTax(lines, S) == MapThenSumSet(LAMBDA i : lines[i].tax, S)

OfClass(lines, c) == {i \in DOMAIN lines : lines[i].class = c}

\* One entry per class met, standard rates first.
TaxGroups(lines) ==
    {[class |-> c, base |-> LinesNet(lines, OfClass(lines, c)),
      tax |-> LinesTax(lines, OfClass(lines, c))] : c \in {lines[i].class : i \in DOMAIN lines}}

Column(lines, field) == TrySum([i \in DOMAIN lines |-> lines[i][field]])

LineTotals(gross, discount, due, class) ==
    [gross |-> gross, discount |-> discount, net |-> due.net, tax |-> due.tax,
     total |-> due.net + due.tax, class |-> class]

OrderTotals(lines) ==
    [lines |-> lines, groups |-> TaxGroups(lines),
     gross |-> Column(lines, "gross"), discount |-> Column(lines, "discount"),
     net |-> Column(lines, "net"), tax |-> Column(lines, "tax"),
     total |-> Column(lines, "total")]

\* Given what each line comes to, what its own discount takes, and its share of
\* the order's.
Taxed(order, gross, off, share) ==
    OrderTotals([i \in DOMAIN order.lines |->
        LineTotals(gross[i], off[i] + share[i],
                   ResolveTax(gross[i] - off[i] - share[i], order.lines[i].class,
                              order.pricing, order.rounding),
                   order.lines[i].class)])

Shared(order, gross, off) ==
    LET bases == [i \in DOMAIN gross |-> gross[i] - off[i]]
    IN Taxed(order, gross, off,
             Apportion(Resolve(order.discount, TrySum(bases), order.rounding), bases))

Discounted(order, gross) ==
    Shared(order, gross, [i \in DOMAIN gross |->
                             Resolve(order.lines[i].discount, gross[i], order.rounding)])

\* calculate, for an order with at least one line.
Calculate(order) ==
    Discounted(order, [i \in DOMAIN order.lines |->
        Extend(EffectiveUnitPrice(order.lines[i]), order.lines[i].milli, order.rounding)])

-----------------------------------------------------------------------------
(***************************************************************************)
(* Splitting a bill.                                                       *)
(***************************************************************************)

\* Every line is paid for by one part, once.  totals gives what each active
\* line comes to.
SplitsByLines(totals, parts) ==
    /\ parts # << >>
    /\ \A p \in DOMAIN parts : IsInjective(parts[p])
    /\ \A p, q \in DOMAIN parts : p # q => Range(parts[p]) \cap Range(parts[q]) = {}
    /\ UNION {Range(parts[p]) : p \in DOMAIN parts} = DOMAIN totals

ByLines(totals, parts) ==
    [p \in DOMAIN parts |-> MapThenSumSet(LAMBDA line : totals[line], Range(parts[p]))]
=============================================================================
