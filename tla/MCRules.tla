------------------------------- MODULE MCRules -------------------------------
(***************************************************************************)
(* Inputs for Rules.                                                       *)
(***************************************************************************)
EXTENDS Rules

Lists(S, n) == UNION {[1 .. k -> S] : k \in 1 .. n}

MCAmounts == -7 .. 13
MCWeightLists == Lists({0, 1, 2, 5}, 4)
MCPartLists == {<< <<1, 2>> >>, << <<1>>, <<2>> >>, << <<2, 1>>, <<3>> >>, << <<1, 1>>, <<2>> >>,
                << <<1>>, <<3>> >>, << <<1, 2>>, <<2, 3>> >>, << <<1, 4>>, <<2>>, <<3>> >>}

MCLine == [price : {1, 33}, milli : {1000, 333, -1000}, deltas : {<< >>, <<-2, 7>>},
           class : {Standard(1500), ZeroRated}, discount : {NoDiscount, AmountOff(5)}]
         \cup [price : {250}, milli : {1000}, deltas : {<< >>},
               class : {Standard(1500), Standard(500), Exempt}, discount : {Percentage(1250)}]
\* A few lines of every sort in orders of up to three, all sorts in orders of one.
MCFew == {line \in MCLine : line.deltas = << >> /\ line.milli # 333}
MCOrderLines == [1 .. 1 -> MCLine] \cup [1 .. 2 -> MCLine] \cup
                {<<a, b, c>> : a, b, c \in {line \in MCFew : line.price # 1 /\ line.milli > 0}}
MCOrders == [lines : MCOrderLines, discount : {NoDiscount, Percentage(1000), AmountOff(40)},
             pricing : PricingMode, rounding : {"half_up"}]
         \cup [lines : [1 .. 1 -> MCLine], discount : {Percentage(333)},
               pricing : PricingMode, rounding : Rounding]

MCGroups == Lists({[options |-> {"s", "m"}, min |-> 1, max |-> 1],
                   [options |-> {"x", "y", "z"}, min |-> 0, max |-> 2],
                   [options |-> {"x"}, min |-> 2, max |-> 2]}, 2)
MCTaps == {<< >>} \cup Lists({"s", "m", "x", "y", "other"}, 3)

MCLevel == [on_hand : {-1, 0, 2, 3}, expires : {10, 11, NeverExpires}, received : {1}]
MCLevelLists == {[n \in DOMAIN l |-> [batch |-> n] @@ l[n]] : l \in Lists(MCLevel, 3)}
MCWanted == {0, 1, 4, 9}

MCMovementLists == Lists([product : {"p", "q"}, delta : {-2, -1, 2}, device : {1, 2}], 3)
MCDeliveries == Lists({[kind |-> "Received", data |-> [line |-> l, qty |-> q]] :
                          l \in 1 .. 2, q \in {1, 2, 4}}
                      \cup {[kind |-> "Settled", data |-> [line |-> 0, qty |-> 0]]}, 3)

Rung(by, lines, tenders, change) ==
    [by |-> by, lines |-> lines, discount |-> NoDiscount, pricing |-> "tax_inclusive",
     rounding |-> "half_up", tenders |-> tenders, change |-> change]
Rice(price, void) ==
    [product |-> "rice", price |-> price, milli |-> 1000, deltas |-> << >>, void |-> void,
     class |-> Standard(1500), discount |-> NoDiscount]
Paid(method, amount) == [method |-> method, amount |-> amount]
MCReceipts == Lists([qty : {250, 333, 500, 1000, 1667}, cost : {50, 51}], 3)

MCSale == {Rung(by, <<Rice(10, FALSE)>>, <<Paid("cash", 15)>>, 5) : by \in {1, 2}} \cup
          {Rung(1, <<Rice(10, FALSE), Rice(7, TRUE)>>, <<Paid("card", 10)>>, 0),
           Rung(2, <<Rice(10, FALSE), Rice(23, FALSE)>>, <<Paid("card", 20), Paid("cash", 20)>>, 7),
           Rung(2, <<Rice(23, FALSE)>>, <<Paid("cash", 20), Paid("cash", 5)>>, 2)}
\* Sales at moments 1 to 3, and a shift that ends at each of them.
MCSaleLists == {[n \in DOMAIN l |-> [at |-> n] @@ l[n]] : l \in Lists(MCSale, 3)}
Drawer(from, until, float, counts) ==
    [from |-> from, until |-> until, float |-> float, movements |-> <<-4, 1>>, counts |-> counts]
MCShifts ==
    {<<Drawer(0, end, 50, <<40, 47>>), Drawer(end + 1, StillOpen, 20, << >>)>> : end \in 1 .. 3}
    \cup {<<Drawer(0, StillOpen, 5, <<9>>)>>,
          <<Drawer(0, 1, 50, << >>), Drawer(2, 2, 30, <<30>>), Drawer(3, StillOpen, 20, << >>)>>}

MCStaff == (1 :> [role |-> "cashier", pin |-> 1, active |-> TRUE, since |-> 1]) @@
           (2 :> [role |-> "manager", pin |-> 2, active |-> TRUE, since |-> 2]) @@
           (3 :> [role |-> "owner", pin |-> 1, active |-> FALSE, since |-> 3])
MCPolicies == {Strictest} \cup
              [discount_limit : {0, 100}, void_limit : {0, 50}, discount_rate_limit : {1000}]
MCRequests == [kind : {"order_discounted", "line_voided"}, amount : {1, 50, 100, 101},
               discount : {"amount"}]
              \cup [kind : {"order_discounted"}, amount : {500, 1001}, discount : {"percentage"}]

MCTally == [part : {0, 1, 3, 40}, gross : {0, 10, 60}, sales : {19, 20}]
MCTallyPairs == [1 .. 2 -> {t \in MCTally : t.gross > 0 \/ t.part = 0}]
MCSensitivity == StartingPoint("BDT")

MCFormats == {[prefix |-> <<2, 0>>, item |-> 5, embedded |-> "weight", value |-> 5,
               decimals |-> 3, filler |-> 0],
              [prefix |-> <<2>>, item |-> 5, embedded |-> "price", value |-> 4,
               decimals |-> 2, filler |-> 2],
              [prefix |-> <<2>>, item |-> 6, embedded |-> "weight", value |-> 2,
               decimals |-> 0, filler |-> 3],
              [prefix |-> <<2, 0>>, item |-> 4, embedded |-> "price", value |-> 6,
               decimals |-> 3, filler |-> 0]}
MCCodes == {<<2, 0, 1, 2, 3, 4, 5, 0, 1, 2, 5, 0>>, <<2, 0, 1, 2, 3, 4, 5, 0, 0, 0, 0, 0>>,
            <<2, 0, 0, 0, 0, 7, 1, 9, 9, 9, 9, 9>>}
MCDigits == 0 .. 9

MCEditLists == Lists([device : {1, 2}, server_seq : {0, 1, 2}, price : {5}], 3)

\* Those, one too large to invoice to nobody: 1.25 at 260.03, and 0.333 at 0.99
\* less 0.07; and a return: two at 0.99, 0.333 brought back, and none of a third.
MCBills == {[at |-> 1] @@ sale : sale \in MCSale \cup
    {Rung(2, <<[Rice(26003, FALSE) EXCEPT !.milli = 1250],
               [Rice(99, FALSE) EXCEPT !.milli = 333, !.discount = AmountOff(7)]>>,
          <<Paid("wallet", 32530)>>, 0),
     Rung(1, <<[Rice(99, FALSE) EXCEPT !.milli = 2000], [Rice(99, FALSE) EXCEPT !.milli = -333],
               [Rice(99, FALSE) EXCEPT !.milli = 0]>>,
          <<Paid("cash", 200)>>, 35)}}
MCRolls == {"mm58", "mm80"}
Digits15 == <<3, 0, 0, 0, 0, 0, 0, 0, 0, 0, 0, 0, 0, 0, 3>>
MCOutlets == [regime : {"none", "bd_mushak", "zatca"},
              seller : [name : {0, 12, 300}, address : {0, 20}, currency : {"BDT", "SAR"},
                        registration : {<< >>, SubSeq(Digits15, 1, 13), Digits15}]]
MCInvoices == Lists([sale : {1, 2}, content : {"totals", "others"}], 3)
MCEdited == {<< >>} \cup Lists([at : 1 .. 3, content : {"as sealed", "totals"}], 3)
=============================================================================
