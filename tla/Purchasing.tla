----------------------------- MODULE Purchasing -----------------------------
(***************************************************************************)
(* Goods on their way in: sahl-core's PurchaseOrder and Transfer.  Each is *)
(* a stream that begins with its placement and ends with its close; what   *)
(* arrives in between is recorded even when it is too much.                *)
(***************************************************************************)
EXTENDS Money, SequencesExt, FiniteSetsExt

PurchaseKind == {"Placed", "LineReceived", "Closed"}
CloseReason == {"complete", "short_shipped", "cancelled"}

\* An order whose stream did not replay, and which is therefore left out.
Broken == [state |-> "broken"]

Value(cost, milli) == Extend(cost, milli, "half_up")

Placed(e) ==
    [state |-> "open",
     lines |-> [n \in DOMAIN e.data.lines |->
                  [line |-> e.data.lines[n], received |-> 0, received_value |-> 0]]]

OrderAccepts(order, e) ==
    /\ order.state = "open"
    /\ \/ /\ e.kind = "LineReceived"
          /\ e.data.line \in DOMAIN order.lines
          /\ e.data.qty > 0
       \/ e.kind = "Closed"

OrderApply(order, e) ==
    IF e.kind = "Closed" THEN [order EXCEPT !.state = e.data.reason]
    ELSE [order EXCEPT !.lines[e.data.line].received = @ + e.data.qty,
                       !.lines[e.data.line].received_value = @ + Value(e.data.cost, e.data.qty)]

\* An order before its first event.
Unplaced == [state |-> "unplaced"]

\* A placement with lines first, then only what applies.
OrderStep(order, e) ==
    IF order = Unplaced
    THEN IF e.kind = "Placed" /\ e.data.lines # << >> THEN Placed(e) ELSE Broken
    ELSE IF OrderAccepts(order, e) THEN OrderApply(order, e) ELSE Broken

OrderReplay(events) == Through(OrderStep, Unplaced, events)

Outstanding(progress) == progress.line.qty - progress.received
IsFulfilled(progress) == Outstanding(progress) <= 0
Waiting(order) == {n \in DOMAIN order.lines : ~IsFulfilled(order.lines[n])}

OrderStatus(order) ==
    CASE order.state # "open" -> order.state
      [] order.state = "open" /\ Waiting(order) = {} -> "fully_received"
      [] order.state = "open" /\ Waiting(order) # {} ->
           IF \E n \in DOMAIN order.lines : order.lines[n].received # 0
           THEN "partly_received" ELSE "awaiting"

OrderedValue(order) ==
    TrySum([n \in DOMAIN order.lines |-> Value(order.lines[n].line.cost, order.lines[n].line.qty)])
ReceivedValue(order) ==
    TrySum([n \in DOMAIN order.lines |-> order.lines[n].received_value])

\* Lines that did not cost what was agreed for what arrived.
PriceDiscrepancies(order) ==
    {n \in DOMAIN order.lines :
        /\ order.lines[n].received # 0
        /\ order.lines[n].received_value #
             Value(order.lines[n].line.cost, order.lines[n].received)}

-----------------------------------------------------------------------------
(***************************************************************************)
(* Transfers between outlets.                                              *)
(***************************************************************************)

TransferKind == {"Dispatched", "Received", "Settled"}

Dispatched(e) ==
    [settled |-> FALSE,
     lines |-> [n \in DOMAIN e.data.lines |-> [qty |-> e.data.lines[n], received |-> 0]]]

DispatchAccepts(e) == e.data.lines # << >> /\ e.data.from # e.data.to

TransferAccepts(transfer, e) ==
    /\ ~transfer.settled
    /\ \/ e.kind = "Settled"
       \/ /\ e.kind = "Received"
          /\ e.data.line \in DOMAIN transfer.lines
          /\ e.data.qty > 0

TransferApply(transfer, e) ==
    IF e.kind = "Settled" THEN [transfer EXCEPT !.settled = TRUE]
    ELSE [transfer EXCEPT !.lines[e.data.line].received = @ + e.data.qty]

\* The lines something is still missing of.
InTransit(transfer) ==
    {n \in DOMAIN transfer.lines : transfer.lines[n].qty > transfer.lines[n].received}

HasOverReceipt(transfer) ==
    \E n \in DOMAIN transfer.lines : transfer.lines[n].received > transfer.lines[n].qty

TransferStatus(transfer) ==
    LET arrived == InTransit(transfer) = {}
    IN CASE transfer.settled -> IF arrived THEN "settled" ELSE "settled_short"
         [] ~transfer.settled /\ arrived -> "arrived"
         [] ~transfer.settled /\ ~arrived ->
              IF \E n \in DOMAIN transfer.lines : transfer.lines[n].received # 0
              THEN "partly_arrived" ELSE "in_transit"
=============================================================================
