-------------------------------- MODULE Paper --------------------------------
(***************************************************************************)
(* What is handed over with a sale: the receipt, its layout on the roll,   *)
(* the document the outlet's fiscal regime asks for, and the chain that    *)
(* numbers invoices.  A text is its length (a name's in bytes, as the      *)
(* QR counts it), a registration number its digits.                        *)
(***************************************************************************)
EXTENDS Reports

CONSTANT BuyerRequiredAbove   \* of the code: 2 500 000 poisha; a run's is within its sales

-----------------------------------------------------------------------------
(***************************************************************************)
(* Figures as text.                                                        *)
(***************************************************************************)

\* An amount as plain decimals, with its currency's places always shown; the
\* printer and the QR write the same figures.
Written(minor) ==
    [minus |-> minor < 0, major |-> Abs(minor) \div MinorPerMajor("BDT"),
     rest |-> Abs(minor) % MinorPerMajor("BDT")]
ReadBack(text) ==
    (IF text.minus THEN -1 ELSE 1) * (text.major * MinorPerMajor("BDT") + text.rest)

\* How many digits a whole number has; an amount of 64 bits has no more than
\* seventeen before the point.
MostPlaces == 17
Places(n) ==
    LET left[k \in 0 .. MostPlaces - 1] == IF k = 0 THEN n ELSE left[k - 1] \div 10
    IN 1 + Cardinality({k \in 1 .. MostPlaces - 1 : left[k] > 0})
AmountWidth(minor) == Places(Written(minor).major) + 1 + Exponent("BDT")
                      + (IF minor < 0 THEN 1 ELSE 0)

\* A quantity without the zeros that say nothing.  Division drops the sign of
\* a quantity between minus one and nothing.
QuantityWidth(milli) ==
    LET rest == Abs(milli) % MilliPerUnit
        whole == Places(Abs(milli) \div MilliPerUnit)
                 + (IF milli <= -MilliPerUnit THEN 1 ELSE 0)
    IN IF rest = 0 THEN whole
       ELSE whole + 1 + (IF rest % 10 # 0 THEN 3 ELSE IF rest % 100 # 0 THEN 2 ELSE 1)

\* Printable columns of a roll.
PaperWidth == [mm58 |-> 32, mm80 |-> 48]

Monus(a, b) == IF a > b THEN a - b ELSE 0

\* Label left, amount hard right: the label is cut, with a mark, so that the
\* amount is not.
Columns(label, amount, width) ==
    LET room == Monus(width - amount, 1)
    IN CASE amount >= width -> [label |-> 0, gap |-> 0, amount |-> width]
         [] amount < width /\ label > room ->
              [label |-> Monus(room, 1) + 1, gap |-> 1, amount |-> amount]
         [] OTHER -> [label |-> label, gap |-> width - label - amount, amount |-> amount]

-----------------------------------------------------------------------------
(***************************************************************************)
(* The receipt.                                                            *)
(***************************************************************************)

NotInvoiced == 0

ChangeDue(sale) ==
    LET paid == TrySum([i \in DOMAIN sale.tenders |-> sale.tenders[i].amount])
    IN Monus(paid, Totals(sale).total)

\* A line's figure is its price for one, whatever the quantity; a struck-off
\* line is printed, and adds nothing.
Receipt(sale, number) ==
    LET totals == Totals(sale)
    IN [invoice |-> number,
        lines |-> [i \in DOMAIN sale.lines |->
                     [milli |-> sale.lines[i].milli, unit_price |-> sale.lines[i].price,
                      total |-> IF sale.lines[i].void THEN 0 ELSE sale.lines[i].price,
                      voided |-> sale.lines[i].void]],
        tax_groups |-> totals.groups, discount |-> totals.discount, net |-> totals.net,
        tax |-> totals.tax, total |-> totals.total, tenders |-> sale.tenders,
        change |-> ChangeDue(sale)]

TenderLabel == [cash |-> 4, card |-> 4, wallet |-> 6]
TaxGroupLabel(class) ==
    CASE class.kind = "standard" -> 7 [] class.kind = "zero_rated" -> 10 [] OTHER -> 6

Row(label, minor) == [label |-> label, amount |-> AmountWidth(minor)]

\* A row left out when there is nothing to say.
UnlessNothing(label, sign, minor) == IF minor = 0 THEN {} ELSE {Row(label, sign * minor)}

\* The rows that carry an amount.
RowsOf(receipt) ==
    LET line(l) == Row(2 + QuantityWidth(l.milli) + 3 + AmountWidth(l.unit_price), l.total)
        group(g) == Row(TaxGroupLabel(g.class), g.tax)
        tender(t) == Row(TenderLabel[t.method], t.amount)
    IN {line(l) : l \in Range(receipt.lines)}
       \cup UnlessNothing(8, -1, receipt.discount)
       \cup {Row(8, receipt.net), Row(9, receipt.total)}
       \cup {group(g) : g \in receipt.tax_groups}
       \cup {tender(t) : t \in Range(receipt.tenders)}
       \cup UnlessNothing(6, 1, receipt.change)

-----------------------------------------------------------------------------
(***************************************************************************)
(* The fiscal document.  Each regime refuses what it may not issue, and    *)
(* names the first thing missing.                                          *)
(***************************************************************************)

FiscalLine(computed, milli) == [milli |-> milli, computed |-> computed]

Invoice(sale, number, seller, buyer) ==
    LET totals == Totals(sale)
        active == ActiveLines(sale)
    IN [number |-> number, seller |-> seller, buyer |-> buyer, totals |-> totals,
        lines |-> [i \in DOMAIN active |-> FiscalLine(totals.lines[i], active[i].milli)]]

FirstMissing(needs) ==
    LET missing == {i \in DOMAIN needs : ~needs[i].given}
    IN IF missing = {} THEN "nothing" ELSE needs[Min(missing)].what
Needs(what, given) == [what |-> what, given |-> given]

\* The per-unit figure, back from the line's.  A return's quantity is negative.
UnitValue(net, milli) ==
    IF milli = 0 THEN 0
    ELSE MulRatio(net, Sign(milli) * MilliPerUnit, Abs(milli), "half_up")

\* Mushak 6.3: a supply above the threshold names its buyer.
MushakNeeds(invoice) ==
    LET named == invoice.totals.total <= BuyerRequiredAbove
    IN << Needs("lines", invoice.lines # << >>),
          Needs("BIN", invoice.seller.registration # << >>),
          Needs("name", invoice.seller.name > 0),
          Needs("address", invoice.seller.address > 0),
          Needs("buyer", named \/ invoice.buyer) >>

\* Faulty variant: the shelf price, tax and all, in the column for the value
\* without it.
ChallanLineAtShelfPrice(l) ==
    [unit_value |-> UnitValue(l.computed.gross, l.milli), total_value |-> l.computed.gross,
     vat |-> l.computed.tax, total_with_tax |-> l.computed.total]

\* Columns 5, 6, 9 and 10.
ChallanLine(l) ==
    [unit_value |-> UnitValue(l.computed.net, l.milli), total_value |-> l.computed.net,
     vat |-> l.computed.tax, total_with_tax |-> l.computed.total]

Mushak63(invoice) ==
    LET lines == [i \in DOMAIN invoice.lines |-> ChallanLine(invoice.lines[i])]
    IN [regime |-> "bd_mushak", number |-> invoice.number, lines |-> lines,
        net |-> Column(lines, "total_value"), tax |-> Column(lines, "vat"),
        total |-> Column(lines, "total_with_tax")]

\* A Saudi VAT number.
VatDigits == 15
IsVatNumber(registration) ==
    /\ Len(registration) = VatDigits
    /\ registration[1] = 3 /\ registration[VatDigits] = 3

MaxFieldBytes == 255
TimestampBytes == 20

\* The five triplets of the QR; an amount in it is text.
QrPayload(seller, totals) ==
    LET field(tag, bytes, value) == [tag |-> tag, length |-> bytes, value |-> value]
    IN << field(1, seller.name, 0), field(2, Len(seller.registration), 0),
          field(3, TimestampBytes, 0),
          field(4, AmountWidth(totals.total), Written(totals.total)),
          field(5, AmountWidth(totals.tax), Written(totals.tax)) >>
QrFits(payload) == \A i \in DOMAIN payload : payload[i].length <= MaxFieldBytes

\* What the printer's QR command takes of it, in base64.
QrPrints(payload) ==
    LET bytes == TrySum([i \in DOMAIN payload |-> payload[i].length + 2])
    IN bytes > 0 /\ 4 * ((bytes + 2) \div 3) <= 7089

ZatcaNeeds(invoice) ==
    << Needs("lines", invoice.lines # << >>), Needs("name", invoice.seller.name > 0),
       Needs("VAT number", IsVatNumber(invoice.seller.registration)),
       Needs("riyals", invoice.seller.currency = "SAR"),
       Needs("a short QR", QrFits(QrPayload(invoice.seller, invoice.totals))) >>

SimplifiedTaxInvoice(invoice) ==
    [regime |-> "zatca", number |-> invoice.number,
     lines |-> [i \in DOMAIN invoice.lines |-> ChallanLine(invoice.lines[i])],
     net |-> invoice.totals.net, tax |-> invoice.totals.tax, total |-> invoice.totals.total,
     qr |-> QrPayload(invoice.seller, invoice.totals)]

NoDocument == [regime |-> "none"]
Unissued(what) == [regime |-> "refused", missing |-> what]

\* The document under the outlet's regime; an unconfigured outlet has none.
FiscalDocument(sale, number, outlet) ==
    LET invoice == Invoice(sale, number, outlet.seller, FALSE)
        needs == CASE outlet.regime = "bd_mushak" -> MushakNeeds(invoice)
                   [] outlet.regime = "zatca" -> ZatcaNeeds(invoice)
                   [] OTHER -> << Needs("lines", invoice.lines # << >>) >>
        missing == FirstMissing(needs)
    IN CASE number = NotInvoiced -> Unissued("an invoice")
         [] number # NotInvoiced /\ missing # "nothing" -> Unissued(missing)
         [] OTHER -> CASE outlet.regime = "bd_mushak" -> Mushak63(invoice)
                       [] outlet.regime = "zatca" -> SimplifiedTaxInvoice(invoice)
                       [] OTHER -> NoDocument

-----------------------------------------------------------------------------
(***************************************************************************)
(* The invoice chain: a counter, and each invoice's hash inside the next.  *)
(* A digest is what it was taken of.                                       *)
(***************************************************************************)

FiscalGenesis == [counter |-> 0, hash |-> << >>]

Digest(counter, sale, previous, content) == <<counter, sale, previous, content>>

Seal(tip, sale, content) ==
    [counter |-> tip.counter + 1, sale |-> sale, content |-> content, previous |-> tip.hash,
     hash |-> Digest(tip.counter + 1, sale, tip.hash, content)]
TipOf(seal) == [counter |-> seal.counter, hash |-> seal.hash]

\* Sales sealed one after the other.
TipAfter(seals) == IF seals = << >> THEN FiscalGenesis ELSE TipOf(Last(seals))
SealNext(seals, s) == Append(seals, Seal(TipAfter(seals), s.sale, s.content))
SealAll(sales) == Through(SealNext, << >>, sales)

FiscallyBroken == [counter |-> -1, hash |-> << >>]

\* One seal after a tip: its number, its predecessor, its own digest.
Follow(tip, seal) ==
    IF /\ tip # FiscallyBroken
       /\ seal.counter = tip.counter + 1
       /\ seal.previous = tip.hash
       /\ seal.hash = Digest(seal.counter, seal.sale, seal.previous, seal.content)
    THEN TipOf(seal) ELSE FiscallyBroken

VerifyInvoiceChain(seals) == Through(Follow, FiscalGenesis, seals)
=============================================================================
