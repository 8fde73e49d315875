---------------------------- MODULE MCDashboard ----------------------------
(***************************************************************************)
(* An instance of Dashboard for TLC: a line is on the ticket, and paid.    *)
(***************************************************************************)
EXTENDS Dashboard

\* The whole log, and a day that starts after the ticket was opened.
MCWindows == {[from |-> 0, to |-> MaxEvents], [from |-> 1, to |-> MaxEvents]}
MCTokens == ("counter" :> Here) @@ ("owner" :> Everywhere)

At(at, kind) == [at |-> at, by |-> 1, sale |-> 1, kind |-> kind]
Begun == << At(0, "opened"), At(1, "line_added") @@ [price |-> 1, qty |-> 2],
            At(2, "tender_recorded") @@ [method |-> "cash", amount |-> 2] >>

MCInit ==
    /\ clock = Len(Begun)
    /\ store = [t \in Device |-> Begun]
    /\ book = [t \in Device |-> Replay(Begun)]
    /\ doing = [t \in Device |-> Nothing]
    /\ slips = {}
    /\ pushed = [t \in Device |-> IF t = 1 THEN Len(Begun) ELSE 0]
    /\ minted = {"owner"}
    /\ revoked = {}
    /\ answer = NoAnswer

MCSpec == MCInit /\ [][DashboardNext]_dashboardVars
=============================================================================
