-------------------------------- MODULE Money --------------------------------
(***************************************************************************)
(* sahl-core's arithmetic: amounts in whole minor units, quantities in     *)
(* thousandths, rates in basis points, and one place where rounding        *)
(* happens.  Amounts here carry no currency: the code refuses to mix two.  *)
(* Its integers are 64 bits wide and every operation checked, so an        *)
(* overflow is a refusal, never a wrapped number; the amounts used here    *)
(* stay far from that.                                                     *)
(***************************************************************************)
EXTENDS Integers, Sequences, FiniteSets, Functions

MilliPerUnit == 1000
BasisPointsPerUnit == 10000
Currency == {"BDT", "SAR", "AED", "USD"}
Exponent(currency) == 2
MinorPerMajor(currency) == 10 ^ Exponent(currency)

Rounding == {"half_up", "half_even", "toward_zero"}

Abs(n) == IF n < 0 THEN -n ELSE n
Sign(n) == IF n < 0 THEN -1 ELSE 1

\* f over S, added up.
SumOver(f, S) == FoldFunctionOnSet(LAMBDA a, b : a + b, 0, f, S)

\* What a list of amounts comes to.
TrySum(amounts) == FoldFunction(LAMBDA a, b : a + b, 0, amounts)

\* What a list gone through from the front makes of a start.
Through(step(_, _), start, list) ==
    LET after[i \in 0 .. Len(list)] ==
            IF i = 0 THEN start ELSE step(after[i - 1], list[i])
    IN after[Len(list)]

-----------------------------------------------------------------------------
RoundsAway(quotient, twice, divisor, mode) ==
    \/ mode = "half_up" /\ twice >= divisor
    \/ mode = "half_even" /\ (twice > divisor \/ (twice = divisor /\ quotient % 2 = 1))

\* Division truncates toward zero; rounding moves away from it or not at all.
\* Divisors are positive.
Rounded(quotient, twice, divisor, mode) ==
    IF RoundsAway(quotient, twice, divisor, mode) THEN quotient + 1 ELSE quotient
DivideRounded(numerator, divisor, mode) ==
    Sign(numerator) * Rounded(Abs(numerator) \div divisor, 2 * (Abs(numerator) % divisor),
                              divisor, mode)

MulRatio(amount, numerator, denominator, mode) ==
    DivideRounded(amount * numerator, denominator, mode)

ApplyRate(amount, rate, mode) == MulRatio(amount, rate, BasisPointsPerUnit, mode)

\* What a quantity in thousandths costs at a unit price.
Extend(price, milli, mode) == MulRatio(price, milli, MilliPerUnit, mode)

-----------------------------------------------------------------------------
\* The places a list's entries take when the largest come first, and of equal
\* ones the first: how many go before entry i.
Before(remainders, i) ==
    {j \in DOMAIN remainders :
        remainders[j] > remainders[i] \/ (remainders[j] = remainders[i] /\ j < i)}

\* Every part's whole units, and what is left for each of dividing them out.
Shares(amount, weights, whole) == [i \in DOMAIN weights |-> (Abs(amount) * weights[i]) \div whole]
Remainders(amount, weights, whole) == [i \in DOMAIN weights |-> (Abs(amount) * weights[i]) % whole]

\* Faulty variant: whatever does not divide goes to the first parts.
HandOutInOrder(amount, shares, remainders) ==
    LET leftover == Abs(amount) - TrySum(shares)
    IN [i \in DOMAIN shares |-> Sign(amount) * (shares[i] + (IF i <= leftover THEN 1 ELSE 0))]

\* The units left go one each to the largest fractions.
HandOut(amount, shares, remainders) ==
    LET leftover == Abs(amount) - TrySum(shares)
        extra(i) == IF Cardinality(Before(remainders, i)) < leftover THEN 1 ELSE 0
    IN [i \in DOMAIN shares |-> Sign(amount) * (shares[i] + extra(i))]

\* Largest remainder.
Allocate(amount, weights) ==
    LET whole == TrySum(weights)
    IN HandOut(amount, Shares(amount, weights, whole), Remainders(amount, weights, whole))

\* A list of weights the code accepts.
Weighs(weights) == weights # << >> /\ TrySum(weights) > 0

\* An amount in equal parts.
InParts(amount, parts) == Allocate(amount, [i \in 1 .. parts |-> 1])
=============================================================================
