------------------------------ MODULE MCTicket ------------------------------
(***************************************************************************)
(* Instances of Ticket for TLC.                                            *)
(***************************************************************************)
EXTENDS Ticket

CONSTANT Visits    \* bound: events recorded at the second till

At(at, k, kind) == [at |-> at, by |-> 1, sale |-> k, kind |-> kind]

\* Where the day is taken up: one ticket with a line and one still empty, the
\* first of them at the table; or one ticket already fired and paid for.
Begun ==
    { << At(0, 1, "opened"), At(1, 1, "line_added") @@ [price |-> 1, qty |-> 2],
         At(2, 2, "opened"), At(3, 1, "seated") @@ [table |-> "T"] >>,
      << At(0, 1, "opened"), At(1, 1, "line_added") @@ [price |-> 1, qty |-> 2],
         At(2, 1, "lines_fired") @@ [lines |-> {1}, round |-> 1],
         At(3, 1, "tender_recorded") @@ [method |-> "cash", amount |-> 2] >> }

\* What is done at a table, and what at the counter: a day is about one of them.
Seating == {"seated", "ticket_claimed", "ticket_released"}
Paying == {"tender_recorded", "order_discounted"}
Deeds ==
    {e.kind : e \in EverRecorded} \cup {doing[t].kind : t \in {s \in Device : ~Idle(s)}}

MCInit ==
    \E day \in Begun :
        /\ clock = Len(day)
        /\ store = [t \in Device |-> day]
        /\ book = [t \in Device |-> Replay(day)]
        /\ doing = [t \in Device |-> Nothing]
        /\ slips = {}

\* A command's first half reads nothing but its own till, so another till's
\* steps can always be put before it: while one command is under way, only its
\* own till moves.
MCNext ==
    \E t \in Device :
        /\ \A s \in Device \ {t} : Idle(s)
        /\ Step(t)
        /\ Deeds' \cap Seating = {} \/ Deeds' \cap Paying = {}
        /\ Cardinality(Own(2)') <= Visits

MCSpec == MCInit /\ [][MCNext]_vars
=============================================================================
