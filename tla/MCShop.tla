------------------------------- MODULE MCShop -------------------------------
(***************************************************************************)
(* Shop for TLC.  Each behaviour is about one desk of the office, so that  *)
(* the desks do not multiply: signing in happens where a command asks who  *)
(* is signed in, signing out and idling in the stores, syncing and         *)
(* restarting in all of them, with one fault in the office and at the      *)
(* catalogue.                                                              *)
(* The office starts from empty tills, the others from an outlet with an   *)
(* owner and settings.                                                     *)
(***************************************************************************)
EXTENDS Shop

VARIABLE focus
mcvars == <<svars, focus>>

MCTill == {1, 2}
MCSkew == [t \in MCTill |-> 0]

Row(reads, codes) ==
    [name |-> "readable", price |-> reads, unit |-> "absent", vat |-> "absent",
     details |-> [price |-> 1, barcodes |-> codes]]
\* A clean file, one whose rows share a barcode, and one with a bad cell.
MCFiles ==
    {<<Row("readable", {b}), Row("readable", {})>> : b \in Barcode} \cup
    {<<Row("readable", {b}), Row("readable", {b})>> : b \in Barcode} \cup
    {<<Row("unreadable", {})>>}

Owner == <<1, 1, 1>>
First(n, kind, id, by, data) ==
    [till |-> 1, seq |-> n, at |-> n, kind |-> kind, id |-> id, by |-> by, data |-> data]
Setup == <<First(1, "Enrolled", Owner, Founder,
                 [role |-> "owner", pin |-> CHOOSE p \in Pin : TRUE]),
           First(2, "Configured", "outlet", Owner, [regime |-> "none", registered |-> FALSE])>>

MCInit ==
    \/ focus = "office" /\ Init
    \/ focus \in {"stores", "buying", "range", "room"} /\ StartFrom(Setup)

\* What is ordered, and what arrives without an order, is the larger quantity;
\* counts, issues and deliveries against an order are either.
Large == CHOOSE q \in Quantity : \A r \in Quantity : r <= q
Full(e) ==
    /\ e.kind = "Placed" => \A line \in Range(e.data.lines) : line.qty = Large
    /\ e.kind = "BatchReceived" /\ focus = "stores" => e.data.qty = Large

\* Where it matters who is signed in.
Manned == {"stores", "buying"}

MCNext ==
    /\ UNCHANGED focus
    /\ \/ \E t \in Till :
            \/ focus \in Manned /\ SignIn(t)
            \/ focus = "stores" /\ SignOut(t)
            \/ Learn(t) \/ Restart(t)
            \/ focus = "stores" /\ Stores(t)
            \/ focus = "buying" /\ Buying(t)
            \/ focus = "office" /\ Office(t)
            \/ focus = "range" /\ Catalog(t)
            \/ focus = "room" /\ Room(t)
       \/ focus = "stores" /\ Idle
    /\ focus \in {"office", "range"} => faults' <= 1
    /\ focus = "office" => clock' <= 3
    /\ \A t \in Till : \A e \in Range(log'[t]) : Full(e)

MCSpec == MCInit /\ [][MCNext]_mcvars
=============================================================================
