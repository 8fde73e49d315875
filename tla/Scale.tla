-------------------------------- MODULE Scale --------------------------------
(***************************************************************************)
(* What a scan means.  A counter scale prints an ordinary thirteen-digit   *)
(* barcode with a weight or a price in its digits; how they are laid out   *)
(* is the outlet's setting.  A barcode is a sequence of digits here; a     *)
(* product's own barcodes are such sequences too.                          *)
(***************************************************************************)
EXTENDS Money, Catalogue

LabelLength == 13

\* The field widths that make a label: they and the check digit fill it.
ValidFormat(format) ==
    /\ Len(format.prefix) \in 1 .. 3
    /\ format.item > 0
    /\ format.value > 0
    /\ Len(format.prefix) + format.item + format.value + format.filler + 1 = LabelLength

Matches(format, code) == Len(code) = LabelLength /\ IsPrefix(format.prefix, code)

\* Faulty variant: the second weight is even.
CheckDigitEvenly(twelve) ==
    (10 - (TrySum([i \in DOMAIN twelve |-> twelve[i] * (IF i % 2 = 1 THEN 1 ELSE 2)]) % 10)) % 10

\* EAN-13: weights one and three in turn, from the left.
CheckDigit(twelve) ==
    (10 - (TrySum([i \in DOMAIN twelve |-> twelve[i] * (IF i % 2 = 1 THEN 1 ELSE 3)]) % 10)) % 10

NextDigit(n, digit) == 10 * n + digit
Number(digits) == Through(NextDigit, 0, digits)

\* The digits of the item and of the value; the filler is passed over.
ItemCode(format, code) ==
    SubSeq(code, Len(format.prefix) + 1, Len(format.prefix) + format.item)
RawValue(format, code) ==
    Number(SubSeq(code, Len(format.prefix) + format.item + 1,
                  Len(format.prefix) + format.item + format.value))

\* How many decimals a label may carry: thousandths, or minor units.
Holds(format, currency) == IF format.embedded = "weight" THEN 3 ELSE Exponent(currency)

Corrupt == [kind |-> "corrupt"]
TooPrecise == [kind |-> "too_precise"]

\* What a label of this format says.
Parse(format, code, currency) ==
    IF CheckDigit(SubSeq(code, 1, LabelLength - 1)) # code[LabelLength] THEN Corrupt
    ELSE IF format.decimals > Holds(format, currency) THEN TooPrecise
    ELSE [kind |-> format.embedded, item |-> ItemCode(format, code),
          value |-> RawValue(format, code) * 10 ^ (Holds(format, currency) - format.decimals)]

\* Nothing, less than nothing, and part of what is sold whole are not sold.
Weigh(unit, milli) ==
    /\ milli > 0
    /\ IsDivisible(unit) \/ milli % MilliPerUnit = 0

NotFound == [kind |-> "not_found"]
Refused == [kind |-> "refused"]
Found(id, milli, price) == [kind |-> "found", product |-> id, milli |-> milli, price |-> price]
AtCatalogue == -1

Sold(catalogue, id, parsed) ==
    IF parsed.kind = "price" THEN Found(id, MilliPerUnit, parsed.value)
    ELSE IF Weigh(catalogue[id].unit, parsed.value) THEN Found(id, parsed.value, AtCatalogue)
    ELSE Refused

\* Terminal::scan, for the formats an outlet has: none or one.
Scan(formats, catalogue, code, currency) ==
    IF ~\E format \in formats : Matches(format, code)
    THEN IF ByBarcode(catalogue, code) = {} THEN NotFound
         ELSE Found(CHOOSE id \in ByBarcode(catalogue, code) : TRUE, MilliPerUnit, AtCatalogue)
    ELSE LET parsed == Parse(CHOOSE format \in formats : TRUE, code, currency)
             ids == IF parsed \in {Corrupt, TooPrecise} THEN {}
                    ELSE ByBarcode(catalogue, parsed.item)
         IN IF parsed \in {Corrupt, TooPrecise} THEN Refused
            ELSE IF ids = {} THEN NotFound
            ELSE Sold(catalogue, CHOOSE id \in ids : TRUE, parsed)
=============================================================================
