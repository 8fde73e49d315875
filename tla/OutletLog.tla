----------------------------- MODULE OutletLog -----------------------------
(***************************************************************************)
(* What a merchant is promised about the outlet's event log, with no       *)
(* network, no transactions and no threads: each till's chain only grows,  *)
(* the server accepts beginnings of it, a till counts as synced only what  *)
(* the server accepted, and siblings learn only what the server accepted.  *)
(***************************************************************************)
EXTENDS Naturals, Sequences

CONSTANTS Device, Payload

VARIABLES log, synced, remote, held

vars == <<log, synced, remote, held>>

Init ==
    /\ log = [d \in Device |-> <<>>]
    /\ synced = [d \in Device |-> 0]
    /\ remote = [d \in Device |-> {}]
    /\ held = [d \in Device |-> <<>>]

\* The till seals one more event; nothing else is needed to have sold.
Sell(d, p) ==
    /\ log' = [log EXCEPT ![d] = Append(@, p)]
    /\ UNCHANGED <<synced, remote, held>>

\* The server accepts some events that follow those it holds.
Accept(d, n) ==
    /\ Len(held[d]) < n
    /\ n <= Len(log[d])
    /\ held' = [held EXCEPT ![d] = SubSeq(log[d], 1, n)]
    /\ UNCHANGED <<log, synced, remote>>

\* The till learns that the server holds its first n events.
Acknowledge(d, n) ==
    /\ synced[d] < n
    /\ n <= Len(held[d])
    /\ synced' = [synced EXCEPT ![d] = n]
    /\ UNCHANGED <<log, remote, held>>

\* A till learns one event of a sibling from the server.
Learn(d, e, n) ==
    /\ e # d
    /\ n \in 1 .. Len(held[e])
    /\ remote' = [remote EXCEPT ![d] = @ \cup {<<e, n>>}]
    /\ UNCHANGED <<log, synced, held>>

Next ==
    \E d \in Device :
        \/ \E p \in Payload : Sell(d, p)
        \/ \E n \in 1 .. Len(log[d]) : Accept(d, n)
        \/ \E n \in 1 .. Len(held[d]) : Acknowledge(d, n)
        \/ \E e \in Device : \E n \in 1 .. Len(held[e]) : Learn(d, e, n)

Spec == Init /\ [][Next]_vars
=============================================================================
