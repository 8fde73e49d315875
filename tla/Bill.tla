-------------------------------- MODULE Bill --------------------------------
(***************************************************************************)
(* What a bill is to the customer who pays it.  It is started, charged to, *)
(* and paid towards while it is open; it is settled once, for what it      *)
(* comes to, when what was handed over covers it; and after that, or once  *)
(* it is dropped, it does not move.  Two tills writing to one bill while   *)
(* apart dispute it, and nothing is promised of a disputed bill.           *)
(***************************************************************************)
EXTENDS Integers

CONSTANT Sales

VARIABLE bill

None == [state |-> "none", owed |-> 0, paid |-> 0, change |-> 0]
Disputed == [None EXCEPT !.state = "disputed"]

\* A bill may be followed from any moment before it is settled or dropped.
Init == \A k \in Sales : bill[k] = None \/ bill[k].state = "open"

Start(k) ==
    /\ bill[k] = None
    /\ bill' = [bill EXCEPT ![k].state = "open"]

\* Lines, quantities, voids and discounts move what is owed.
Charge(k) ==
    /\ bill[k].state = "open"
    /\ bill' = [bill EXCEPT ![k].owed = bill'[k].owed]

Pay(k) ==
    /\ bill[k].state = "open"
    /\ bill'[k].paid > bill[k].paid
    /\ bill' = [bill EXCEPT ![k].paid = bill'[k].paid]

\* Settled for what is owed, the rest handed back.
Settle(k) ==
    /\ bill[k].state = "open"
    /\ bill[k].paid >= bill[k].owed
    /\ bill' = [bill EXCEPT ![k].state = "settled",
                            ![k].change = bill[k].paid - bill[k].owed]

Drop(k) ==
    /\ bill[k].state = "open"
    /\ bill' = [bill EXCEPT ![k].state = "dropped"]

Dispute(k) ==
    /\ bill[k] # None
    /\ bill' = [bill EXCEPT ![k] = Disputed]

Next == \E k \in Sales :
            Start(k) \/ Charge(k) \/ Pay(k) \/ Settle(k) \/ Drop(k) \/ Dispute(k)

Spec == Init /\ [][Next]_bill
=============================================================================
