-------------------------- MODULE ShopReplayProofs --------------------------
(***************************************************************************)
(* Shop, proved for any two tills, products, people, files and faults, if  *)
(* the clocks agree:                                                       *)
(*   - memory is what a replay of the disk would make (ShopShowsReplay);   *)
(*   - a till always starts again (ShopBootsAgain);                        *)
(*   - every unit on a shelf is accounted for (ShopStockExplained);        *)
(*   - no order is lost, nor what was received of it (ShopOrdersKept).     *)
(* Commands are those of ShopProofs.  What is new is the order of time: an *)
(* event is later than all its till holds, so the replay of a disk with    *)
(* one event more is the replay without it and one step more.              *)
(***************************************************************************)
EXTENDS ShopProofs

-----------------------------------------------------------------------------
(***************************************************************************)
(* One more event, the latest, and what memory holds.                      *)
(***************************************************************************)

\* A record put together again from its parts.
LEMMA PartsTogether ==
  ASSUME NEW s, NEW r, Shaped(s), Shaped(r), NEW x
  PROVE  /\ (r.stock = x /\ r.orders = s.orders /\ r.staff = s.staff
              /\ r.catalogue = s.catalogue /\ r.floor = s.floor /\ r.outlet = s.outlet)
              => r = [s EXCEPT !.stock = x]
         /\ (r.stock = s.stock /\ r.orders = x /\ r.staff = s.staff
              /\ r.catalogue = s.catalogue /\ r.floor = s.floor /\ r.outlet = s.outlet)
              => r = [s EXCEPT !.orders = x]
         /\ (r.stock = s.stock /\ r.orders = s.orders /\ r.staff = x
              /\ r.catalogue = s.catalogue /\ r.floor = s.floor /\ r.outlet = s.outlet)
              => r = [s EXCEPT !.staff = x]
         /\ (r.stock = s.stock /\ r.orders = s.orders /\ r.staff = s.staff
              /\ r.catalogue = x /\ r.floor = s.floor /\ r.outlet = s.outlet)
              => r = [s EXCEPT !.catalogue = x]
         /\ (r.stock = s.stock /\ r.orders = s.orders /\ r.staff = s.staff
              /\ r.catalogue = s.catalogue /\ r.floor = x /\ r.outlet = s.outlet)
              => r = [s EXCEPT !.floor = x]
         /\ (r.stock = s.stock /\ r.orders = s.orders /\ r.staff = s.staff
              /\ r.catalogue = s.catalogue /\ r.floor = s.floor /\ r.outlet = x)
              => r = [s EXCEPT !.outlet = x]
<1> DEFINE R(a, b, c, d, e, f) == [stock |-> a, orders |-> b, staff |-> c, catalogue |-> d,
                                   floor |-> e, outlet |-> f]
<1>1. /\ s = R(s.stock, s.orders, s.staff, s.catalogue, s.floor, s.outlet)
      /\ r = R(r.stock, r.orders, r.staff, r.catalogue, r.floor, r.outlet)
  BY DEF Shaped
<1>3. [s EXCEPT !.stock = x] = R(x, s.orders, s.staff, s.catalogue, s.floor, s.outlet)
  BY <1>1
<1>4. [s EXCEPT !.orders = x] = R(s.stock, x, s.staff, s.catalogue, s.floor, s.outlet)
  BY <1>1
<1>5. [s EXCEPT !.staff = x] = R(s.stock, s.orders, x, s.catalogue, s.floor, s.outlet)
  BY <1>1
<1>6. [s EXCEPT !.catalogue = x] = R(s.stock, s.orders, s.staff, x, s.floor, s.outlet)
  BY <1>1
<1>7. [s EXCEPT !.floor = x] = R(s.stock, s.orders, s.staff, s.catalogue, x, s.outlet)
  BY <1>1
<1>8. [s EXCEPT !.outlet = x] = R(s.stock, s.orders, s.staff, s.catalogue, s.floor, x)
  BY <1>1
<1> HIDE DEF R
<1> QED BY <1>1, <1>3, <1>4, <1>5, <1>6, <1>7, <1>8

\* The kinds of events are told apart.
LEMMA KindsApart ==
  ASSUME NEW kind
  PROVE  /\ kind \in StockKind => kind \notin StaffKind \cup CatalogueKind \cup FloorKind
                                               \cup OutletKind \cup PurchaseKind
         /\ kind \in StaffKind => kind \notin StockKind \cup CatalogueKind \cup FloorKind
                                               \cup OutletKind \cup PurchaseKind
         /\ kind \in CatalogueKind => kind \notin StockKind \cup StaffKind \cup FloorKind
                                               \cup OutletKind \cup PurchaseKind
         /\ kind \in FloorKind => kind \notin StockKind \cup StaffKind \cup CatalogueKind
                                               \cup OutletKind \cup PurchaseKind
         /\ kind \in OutletKind => kind \notin StockKind \cup StaffKind \cup CatalogueKind
                                               \cup FloorKind \cup PurchaseKind
         /\ kind \in PurchaseKind => kind \notin StockKind \cup StaffKind \cup CatalogueKind
                                               \cup FloorKind \cup OutletKind
BY DEF StockKind, StaffKind, CatalogueKind, FloorKind, OutletKind, PurchaseKind

\* What a memory built from some events becomes with one more of each kind,
\* when it takes it.
LEMMA MemoryAppend ==
  ASSUME NEW S, NEW e, Latest(S, e), Opens(S)
  PROVE  LET T == S \cup {e}
             old == Rebuilt(S)
         IN  /\ (e.kind \in StockKind /\ StockAccepts(old.stock, e)) =>
                   Rebuilt(T) = [old EXCEPT !.stock = StockApply(old.stock, e)] /\ Opens(T)
             /\ (e.kind \in StaffKind /\ StaffAccepts(old.staff, e)) =>
                   Rebuilt(T) = [old EXCEPT !.staff = StaffApply(old.staff, e)] /\ Opens(T)
             /\ (e.kind \in CatalogueKind /\ CatalogueAccepts(old.catalogue, e)) =>
                   Rebuilt(T) = [old EXCEPT !.catalogue = CatalogueApply(old.catalogue, e)]
                     /\ Opens(T)
             /\ (e.kind \in FloorKind /\ FloorAccepts(old.floor, e)) =>
                   Rebuilt(T) = [old EXCEPT !.floor = FloorApply(old.floor, e)] /\ Opens(T)
             /\ e.kind \in OutletKind =>
                   Rebuilt(T) = [old EXCEPT !.outlet = OutletApply(old.outlet, e)] /\ Opens(T)
             /\ e.kind \in PurchaseKind =>
                   Rebuilt(T) = [old EXCEPT !.orders = OrdersOf(T)] /\ Opens(T)
<1> DEFINE T == S \cup {e}
           old == Rebuilt(S)
           new == Rebuilt(T)
<1>1. /\ StockOf(T) = IF e.kind \in StockKind THEN StockStep(StockOf(S), e) ELSE StockOf(S)
      /\ StaffOf(T) = IF e.kind \in StaffKind THEN StaffStep(StaffOf(S), e) ELSE StaffOf(S)
      /\ new.catalogue = IF e.kind \in CatalogueKind THEN CatalogueStep(old.catalogue, e)
                         ELSE old.catalogue
      /\ new.floor = IF e.kind \in FloorKind THEN FloorStep(old.floor, e) ELSE old.floor
      /\ new.outlet = IF e.kind \in OutletKind THEN OutletApply(old.outlet, e) ELSE old.outlet
  BY RebuiltAppend
<1>2. e.kind \notin PurchaseKind => OrdersOf(T) = OrdersOf(S)
  BY OrdersAppend
<1>3. /\ old.stock = StockOf(S).is /\ old.staff = StaffOf(S).is /\ old.orders = OrdersOf(S)
      /\ new.stock = StockOf(T).is /\ new.staff = StaffOf(T).is /\ new.orders = OrdersOf(T)
  BY DEF Rebuilt
<1>4. Shaped(old) /\ Shaped(new)
  BY RebuiltShaped
<1>5. StockOf(S).ok /\ StaffOf(S).ok
  BY DEF Opens
<1> HIDE DEF old, new
<1>6. ASSUME e.kind \in StockKind, StockAccepts(old.stock, e)
      PROVE  new = [old EXCEPT !.stock = StockApply(old.stock, e)] /\ Opens(T)
  <2>1. StockOf(T) = [ok |-> TRUE, is |-> StockApply(StockOf(S).is, e)]
    BY <1>1, <1>3, <1>5, <1>6 DEF StockStep, Strictly
  <2>2. e.kind \notin StaffKind \cup CatalogueKind \cup FloorKind \cup OutletKind \cup PurchaseKind
    BY <1>6, KindsApart
  <2>3. StaffOf(T) = StaffOf(S)
    BY <1>1, <2>2
  <2>4. Opens(T)
    BY <1>5, <2>1, <2>3 DEF Opens
  <2> HIDE DEF T
  <2>5. /\ new.stock = StockApply(old.stock, e) /\ new.orders = old.orders
        /\ new.staff = old.staff /\ new.catalogue = old.catalogue /\ new.floor = old.floor
        /\ new.outlet = old.outlet
    BY <1>1, <1>2, <1>3, <2>1, <2>2, <2>3
  <2>6. new = [old EXCEPT !.stock = StockApply(old.stock, e)]
    BY <1>4, <2>5, PartsTogether
  <2> QED BY <2>4, <2>6
<1>7. ASSUME e.kind \in StaffKind, StaffAccepts(old.staff, e)
      PROVE  new = [old EXCEPT !.staff = StaffApply(old.staff, e)] /\ Opens(T)
  <2>1. StaffOf(T) = [ok |-> TRUE, is |-> StaffApply(StaffOf(S).is, e)]
    BY <1>1, <1>3, <1>5, <1>7 DEF StaffStep, Strictly
  <2>2. e.kind \notin StockKind \cup CatalogueKind \cup FloorKind \cup OutletKind \cup PurchaseKind
    BY <1>7, KindsApart
  <2>3. StockOf(T) = StockOf(S)
    BY <1>1, <2>2
  <2>4. Opens(T)
    BY <1>5, <2>1, <2>3 DEF Opens
  <2> HIDE DEF T
  <2>5. /\ new.stock = old.stock /\ new.orders = old.orders
        /\ new.staff = StaffApply(old.staff, e) /\ new.catalogue = old.catalogue
        /\ new.floor = old.floor /\ new.outlet = old.outlet
    BY <1>1, <1>2, <1>3, <2>1, <2>2, <2>3
  <2>6. new = [old EXCEPT !.staff = StaffApply(old.staff, e)]
    BY <1>4, <2>5, PartsTogether
  <2> QED BY <2>4, <2>6
<1>8. ASSUME e.kind \notin StockKind \cup StaffKind
      PROVE  Opens(T) /\ new.stock = old.stock /\ new.staff = old.staff
  <2>1. StockOf(T) = StockOf(S) /\ StaffOf(T) = StaffOf(S)
    BY <1>1, <1>8
  <2> QED BY <1>3, <1>5, <2>1 DEF Opens
<1>9. ASSUME e.kind \in CatalogueKind, CatalogueAccepts(old.catalogue, e)
      PROVE  new = [old EXCEPT !.catalogue = CatalogueApply(old.catalogue, e)] /\ Opens(T)
  <2>1. e.kind \notin StockKind \cup StaffKind \cup FloorKind \cup OutletKind \cup PurchaseKind
    BY <1>9, KindsApart
  <2>2. CatalogueStep(old.catalogue, e) = CatalogueApply(old.catalogue, e)
    BY <1>9 DEF CatalogueStep, Leniently
  <2>3. /\ new.stock = old.stock /\ new.orders = old.orders /\ new.staff = old.staff
        /\ new.catalogue = CatalogueApply(old.catalogue, e)
        /\ new.floor = old.floor /\ new.outlet = old.outlet /\ Opens(T)
    BY <1>1, <1>2, <1>3, <1>8, <1>9, <2>1, <2>2
  <2> QED BY <1>4, <2>3, PartsTogether
<1>10. ASSUME e.kind \in FloorKind, FloorAccepts(old.floor, e)
       PROVE  new = [old EXCEPT !.floor = FloorApply(old.floor, e)] /\ Opens(T)
  <2>1. e.kind \notin StockKind \cup StaffKind \cup CatalogueKind \cup OutletKind \cup PurchaseKind
    BY <1>10, KindsApart
  <2>2. FloorStep(old.floor, e) = FloorApply(old.floor, e)
    BY <1>10 DEF FloorStep, Leniently
  <2>3. /\ new.stock = old.stock /\ new.orders = old.orders /\ new.staff = old.staff
        /\ new.catalogue = old.catalogue
        /\ new.floor = FloorApply(old.floor, e) /\ new.outlet = old.outlet /\ Opens(T)
    BY <1>1, <1>2, <1>3, <1>8, <1>10, <2>1, <2>2
  <2> QED BY <1>4, <2>3, PartsTogether
<1>11. ASSUME e.kind \in OutletKind
       PROVE  new = [old EXCEPT !.outlet = OutletApply(old.outlet, e)] /\ Opens(T)
  <2>1. e.kind \notin StockKind \cup StaffKind \cup CatalogueKind \cup FloorKind \cup PurchaseKind
    BY <1>11, KindsApart
  <2>2. /\ new.stock = old.stock /\ new.orders = old.orders /\ new.staff = old.staff
        /\ new.catalogue = old.catalogue
        /\ new.floor = old.floor /\ new.outlet = OutletApply(old.outlet, e) /\ Opens(T)
    BY <1>1, <1>2, <1>3, <1>8, <1>11, <2>1
  <2> QED BY <1>4, <2>2, PartsTogether
<1>12. ASSUME e.kind \in PurchaseKind
       PROVE  new = [old EXCEPT !.orders = OrdersOf(T)] /\ Opens(T)
  <2>1. e.kind \notin StockKind \cup StaffKind \cup CatalogueKind \cup FloorKind \cup OutletKind
    BY <1>12, KindsApart
  <2>2. /\ new.stock = old.stock /\ new.orders = OrdersOf(T) /\ new.staff = old.staff
        /\ new.catalogue = old.catalogue
        /\ new.floor = old.floor /\ new.outlet = old.outlet /\ Opens(T)
    BY <1>1, <1>3, <1>8, <1>12, <2>1
  <2> HIDE DEF T
  <2> QED BY <1>4, <2>2, PartsTogether
<1> QED BY <1>6, <1>7, <1>9, <1>10, <1>11, <1>12 DEF old, new

\* An order that was placed: its state and its lines.
Entered(order) == order = [state |-> order.state, lines |-> order.lines]

\* What applies to an order leaves an order, closed only by a reason to.
LEMMA ApplyEntered ==
  ASSUME NEW o, Entered(o), NEW e, OrderAccepts(o, e)
  PROVE  /\ Entered(OrderApply(o, e)) /\ DOMAIN OrderApply(o, e).lines = DOMAIN o.lines
         /\ OrderApply(o, e).state = IF e.kind = "Closed" THEN e.data.reason ELSE "open"
<1>1. o.state = "open"
  BY DEF OrderAccepts
<1>2. CASE e.kind = "Closed"
  <2>1. OrderApply(o, e) = [o EXCEPT !.state = e.data.reason]
    BY <1>2 DEF OrderApply
  <2>2. OrderApply(o, e) = [state |-> e.data.reason, lines |-> o.lines]
    BY <2>1 DEF Entered
  <2> QED BY <1>2, <2>2 DEF Entered
<1>3. CASE e.kind # "Closed"
  <2> DEFINE x == e.data.line
             a == e.data.qty
             b == Value(e.data.cost, e.data.qty)
  <2>1. OrderApply(o, e) = [o EXCEPT !.lines[x].received = @ + a,
                                     !.lines[x].received_value = @ + b]
    BY <1>3 DEF OrderApply
  <2> HIDE DEF x, a, b
  <2> DEFINE l1 == [o.lines EXCEPT ![x].received = @ + a]
             o1 == [o EXCEPT !.lines[x].received = @ + a]
             l2 == [o1.lines EXCEPT ![x].received_value = @ + b]
             o2 == [o1 EXCEPT !.lines[x].received_value = @ + b]
  <2>2. [o EXCEPT !.lines[x].received = @ + a, !.lines[x].received_value = @ + b] = o2
    BY DEF Entered
  <2>3. o1 = [o EXCEPT !.lines = l1]
    OBVIOUS
  <2>4. o1 = [state |-> o.state, lines |-> l1]
    <3> HIDE DEF l1, o1
    <3> QED BY <2>3 DEF Entered
  <2>5. o2 = [o1 EXCEPT !.lines = l2]
    OBVIOUS
  <2>6. OrderApply(o, e) = o2
    BY <2>1, <2>2
  <2> HIDE DEF l2, o2
  <2>7. o2 = [state |-> o.state, lines |-> l2]
    <3> HIDE DEF l1, o1
    <3> QED BY <2>4, <2>5
  <2>8. DOMAIN l2 = DOMAIN o.lines
    <3>1. DOMAIN l1 = DOMAIN o.lines /\ o1.lines = l1
      BY <2>4
    <3> HIDE DEF l1, o1
    <3> QED BY <3>1 DEF l2
  <2> QED BY <1>1, <1>3, <2>6, <2>7, <2>8 DEF Entered
<1> QED BY <1>2, <1>3

\* An order as placed is entered.
LEMMA PlacedEntered ==
  ASSUME NEW e
  PROVE  /\ Entered(Placed(e)) /\ Placed(e).state = "open"
         /\ DOMAIN Placed(e).lines = DOMAIN e.data.lines
BY DEF Placed, Entered

\* An order's state tells it from none and from a broken one.
LEMMA OrderStates ==
  /\ Unplaced.state = "unplaced" /\ Broken.state = "broken"
  /\ \A o : o.state \in {"open"} \cup CloseReason => o # Unplaced /\ o # Broken
BY DEF Unplaced, Broken, CloseReason

\* Every order a stream comes to, if it does, was placed, with its lines.
LEMMA ReplayEntered ==
  ASSUME NEW E, NEW s \in Seq(E)
  PROVE  LET o == OrderRun!Run(s)
         IN  \/ o = Unplaced \/ o = Broken
             \/ Entered(o) /\ \E f \in E : f.kind = "Placed" /\ DOMAIN o.lines = DOMAIN f.data.lines
<1> DEFINE Begun(o) == \E f \in E : f.kind = "Placed" /\ DOMAIN o.lines = DOMAIN f.data.lines
           Fine(o) == o = Unplaced \/ o = Broken \/ (Entered(o) /\ Begun(o))
           P == {q \in Seq(E) : Fine(OrderRun!Run(q))}
<1>1. << >> \in P
  BY OrderRun!RunEmpty
<1>2. ASSUME NEW q \in P, NEW e \in E PROVE Append(q, e) \in P
  <2> DEFINE o == OrderRun!Run(q)
  <2>1. q \in Seq(E) /\ Append(q, e) \in Seq(E) /\ Fine(o)
    OBVIOUS
  <2>2. OrderRun!Run(Append(q, e)) = OrderStep(o, e)
    BY <2>1, OrderRun!RunAppend
  <2> HIDE DEF o
  <2>3. CASE o = Unplaced
    <3>1. (OrderStep(o, e) = Placed(e) /\ e.kind = "Placed") \/ OrderStep(o, e) = Broken
      BY <2>3 DEF OrderStep
    <3>2. e.kind = "Placed" => Begun(Placed(e))
      BY PlacedEntered
    <3> QED BY <2>1, <2>2, <3>1, <3>2, PlacedEntered
  <2>4. CASE o # Unplaced /\ OrderAccepts(o, e)
    <3>1. OrderStep(o, e) = OrderApply(o, e)
      BY <2>4 DEF OrderStep
    <3>2. Entered(o) /\ Begun(o)
      <4>1. o # Broken
        BY <2>4, OrderStates DEF OrderAccepts
      <4> QED BY <2>1, <2>4, <4>1
    <3>3. Entered(OrderApply(o, e)) /\ Begun(OrderApply(o, e))
      BY <2>4, <3>2, ApplyEntered
    <3> QED BY <2>1, <2>2, <3>1, <3>3
  <2>5. CASE o # Unplaced /\ ~OrderAccepts(o, e)
    <3>1. OrderStep(o, e) = Broken
      BY <2>5 DEF OrderStep
    <3> QED BY <2>1, <2>2, <3>1
  <2> QED BY <2>3, <2>4, <2>5
<1>3. P \in SUBSET Seq(E)
  OBVIOUS
<1> HIDE DEF P
<1>4. s \in P
  BY <1>1, <1>2, <1>3, OrderRun!SequenceInduction
<1> QED BY <1>4 DEF P

\* An order that replays is entered.
LEMMA OrderEntered ==
  ASSUME NEW S, Dated(S), NEW id
  PROVE  LET o == OrderOf(S, id) IN o = Unplaced \/ o = Broken \/ Entered(o)
<1> DEFINE E == {e \in Purchases(S) : e.id = id}
<1>1. E \in SUBSET S
  BY DEF Purchases
<1>2. Dated(E)
  <2> HIDE DEF E
  <2> QED BY <1>1, FS_Subset DEF Dated
<1> HIDE DEF E
<1>3. InOrder(E) \in Seq(E)
  BY <1>2, InOrderSorts
<1> QED BY <1>3, ReplayEntered, ReplaysAreRuns DEF OrderOf, E

\* A placement under a new id enters the order it places.
LEMMA PlacementAppend ==
  ASSUME NEW S, NEW e, Latest(S, e), e.kind = "Placed", e.data.lines # << >>,
         e.id \notin OrderIds(S)
  PROVE  OrdersOf(S \cup {e}) = [id \in DOMAIN OrdersOf(S) \cup {e.id} |->
                                   IF id = e.id THEN OrderReplay(<<e>>) ELSE OrdersOf(S)[id]]
<1> DEFINE T == S \cup {e}
<1>1. e.kind \in PurchaseKind
  BY DEF PurchaseKind
<1>2. /\ OrderIds(T) = OrderIds(S) \cup {e.id}
      /\ OrderOf(T, e.id) = OrderStep(OrderOf(S, e.id), e)
      /\ \A id : id # e.id => OrderOf(T, id) = OrderOf(S, id)
  BY <1>1, OrdersAppend
<1>3. OrderOf(S, e.id) = Unplaced
  <2>1. {f \in Purchases(S) : f.id = e.id} = {}
    BY DEF OrderIds
  <2>2. OrderOf(S, e.id) = OrderReplay(<< >>)
    BY <2>1, InOrderNone DEF OrderOf
  <2> QED BY <2>2, ReplaysAreRuns, OrderRun!RunEmpty
<1>4. OrderStep(Unplaced, e) = Placed(e)
  BY DEF OrderStep
<1>5. OrderReplay(<<e>>) = Placed(e)
  <2>1. << >> \in Seq({e}) /\ e \in {e} /\ Append(<< >>, e) = <<e>>
    OBVIOUS
  <2>2. OrderRun!Run(Append(<< >>, e)) = OrderStep(OrderRun!Run(<< >>), e)
    BY <2>1, OrderRun!RunAppend
  <2> QED BY <1>4, <2>1, <2>2, ReplaysAreRuns, OrderRun!RunEmpty
<1>6. Placed(e) # Broken
  BY PlacedEntered, OrderStates
<1> HIDE DEF T
<1>7. /\ OrdersOf(T) = [id \in {i \in OrderIds(T) : OrderOf(T, i) # Broken} |-> OrderOf(T, id)]
      /\ OrdersOf(S) = [id \in {i \in OrderIds(S) : OrderOf(S, i) # Broken} |-> OrderOf(S, id)]
  BY DEF OrdersOf
<1>8. {i \in OrderIds(T) : OrderOf(T, i) # Broken} = DOMAIN OrdersOf(S) \cup {e.id}
  BY <1>2, <1>3, <1>4, <1>6, <1>7
<1>9. \A id \in DOMAIN OrdersOf(S) \cup {e.id} :
        OrderOf(T, id) = IF id = e.id THEN OrderReplay(<<e>>) ELSE OrdersOf(S)[id]
  BY <1>2, <1>3, <1>4, <1>5, <1>7
<1> QED BY <1>7, <1>8, <1>9 DEF T

\* What an order takes changes that order.
LEMMA OrderAppend ==
  ASSUME NEW S, NEW e, Latest(S, e), e.kind \in {"LineReceived", "Closed"},
         e.kind = "Closed" => e.data.reason \in CloseReason,
         e.id \in DOMAIN OrdersOf(S), OrderAccepts(OrdersOf(S)[e.id], e)
  PROVE  OrdersOf(S \cup {e}) = [OrdersOf(S) EXCEPT ![e.id] = OrderApply(@, e)]
<1> DEFINE T == S \cup {e}
           o == OrderOf(S, e.id)
<1>1. e.kind \in PurchaseKind
  BY DEF PurchaseKind
<1>2. /\ OrderIds(T) = OrderIds(S) \cup {e.id}
      /\ OrderOf(T, e.id) = OrderStep(o, e)
      /\ \A id : id # e.id => OrderOf(T, id) = OrderOf(S, id)
  BY <1>1, OrdersAppend
<1>3. OrdersOf(S)[e.id] = o /\ e.id \in OrderIds(S) /\ o # Broken
  BY DEF OrdersOf
<1>4. OrderAccepts(o, e) /\ o.state = "open" /\ o # Unplaced
  BY <1>3, OrderStates DEF OrderAccepts
<1>5. Entered(o)
  <2>1. Dated(S)
    BY FS_Subset DEF Latest, Dated
  <2> QED BY <1>3, <1>4, <2>1, OrderEntered
<1> HIDE DEF T, o
<1>6. OrderOf(T, e.id) = OrderApply(o, e)
  BY <1>2, <1>4 DEF OrderStep
<1>7. OrderApply(o, e) # Broken
  <2>1. OrderApply(o, e).state \in {"open"} \cup CloseReason
    BY <1>4, <1>5, ApplyEntered
  <2> QED BY <2>1, OrderStates
<1>8. /\ OrdersOf(T) = [id \in {i \in OrderIds(T) : OrderOf(T, i) # Broken} |-> OrderOf(T, id)]
      /\ OrdersOf(S) = [id \in {i \in OrderIds(S) : OrderOf(S, i) # Broken} |-> OrderOf(S, id)]
  BY DEF OrdersOf
<1>9. {i \in OrderIds(T) : OrderOf(T, i) # Broken} = DOMAIN OrdersOf(S)
  BY <1>2, <1>3, <1>6, <1>7, <1>8 DEF o
<1>10. \A id \in DOMAIN OrdersOf(S) :
         OrderOf(T, id) = IF id = e.id THEN OrderApply(OrdersOf(S)[e.id], e) ELSE OrdersOf(S)[id]
  BY <1>2, <1>3, <1>6, <1>8
<1> QED BY <1>8, <1>9, <1>10 DEF T

-----------------------------------------------------------------------------
(***************************************************************************)
(* Memory and disk, when the clocks agree.                                 *)
(***************************************************************************)

\* The clocks agree.
OneTime == \A t, u \in Till : Skew[t] = Skew[u]

\* A set of events and the first few of some more.
Plus(S, q, n) == S \cup {q[i] : i \in 1 .. n}

\* What a command writes comes after all its till holds, one by one.
LEMMA StampedLatest ==
  ASSUME Grown, OneTime, NEW t \in Till, NEW m \in 0 .. Len(log[Sibling(t)]),
         NEW q, Stamped(t, q), Follows(t), NEW n \in Nat, n + 1 <= Len(q)
  PROVE  LET S == Holding(t, m)
         IN  /\ Latest(Plus(S, q, n), q[n + 1])
             /\ Plus(S, q, n + 1) = Plus(S, q, n) \cup {q[n + 1]}
<1> DEFINE S == Holding(t, m)
           u == Sibling(t)
           M == Len(log[t])
           at == clock + 1 + Skew[t]
           T == Plus(S, q, n)
           e == q[n + 1]
<1>1. u \in Till /\ u # t /\ t \in Nat /\ u \in Nat /\ Skew[t] \in Nat /\ Skew[u] = Skew[t]
  BY TillsKnown DEF OneTime
<1>2. S = {log[t][i] : i \in DOMAIN log[t]} \cup {log[u][i] : i \in 1 .. m}
  BY HoldingIs DEF Grown
<1>3. Dated(S)
  BY HoldingDated
<1> HIDE DEF S
<1>4. /\ IsLog(log[t]) /\ IsLog(log[u]) /\ M \in Nat /\ Len(log[u]) \in Nat
      /\ DOMAIN log[t] = 1 .. M /\ DOMAIN log[u] = 1 .. Len(log[u])
  <2>1. IsLog(log[t]) /\ IsLog(log[u])
    BY <1>1 DEF Grown, Typed
  <2> QED BY <2>1, LogAppend
<1>5. m \in Nat /\ \A i \in 1 .. m : i \in DOMAIN log[u]
  BY <1>4
<1> HIDE DEF u
<1>6. clock \in Nat /\ at \in Nat
  BY <1>1, SMTT(60) DEF Grown, Typed
<1>7. ASSUME NEW f \in S
      PROVE  /\ f.at \in Nat /\ f.at < at /\ f.till \in Nat /\ f.seq \in Nat
             /\ f.till = t => f.seq <= M
  <2>1. CASE \E i \in DOMAIN log[t] : f = log[t][i]
    <3>1. PICK i \in DOMAIN log[t] : f = log[t][i]
      BY <2>1
    <3>2. f.till = t /\ f.seq = i /\ f.at \in Nat /\ f.at <= clock + Skew[t]
      BY <3>1 DEF Grown, Numbered
    <3> QED BY <1>1, <1>4, <1>6, <3>2, SMTT(60)
  <2>2. CASE \E i \in 1 .. m : f = log[u][i]
    <3>1. PICK i \in 1 .. m : f = log[u][i]
      BY <2>2
    <3>2. f.till = u /\ f.seq = i /\ f.at \in Nat /\ f.at <= clock + Skew[u]
      BY <1>1, <1>5, <3>1 DEF Grown, Numbered
    <3> QED BY <1>1, <1>5, <1>6, <3>2
  <2> QED BY <1>2, <2>1, <2>2
<1>8. /\ Len(q) \in Nat /\ tip[t] = M
      /\ \A i \in 1 .. Len(q) : q[i].till = t /\ q[i].seq = M + i /\ q[i].at = at
  BY LogAppend DEF Stamped, Follows
<1> HIDE DEF at, M
<1>9. /\ n + 1 \in 1 .. Len(q) /\ \A i \in 1 .. n : i \in 1 .. Len(q) /\ i < n + 1
  BY <1>8
<1>10. Plus(S, q, n + 1) = T \cup {e}
  <2>1. 1 .. n + 1 = (1 .. n) \cup {n + 1}
    OBVIOUS
  <2> QED BY <2>1 DEF Plus
<1>11. IsFiniteSet(T \cup {e})
  <2>0. IsFiniteSet({q[i] : i \in 1 .. n})
    BY SegmentFinite
  <2>1. IsFiniteSet({q[i] : i \in 1 .. n}) /\ IsFiniteSet({e})
    <3> HIDE DEF e
    <3> QED BY <2>0, FS_Singleton
  <2>2. IsFiniteSet(T)
    BY <1>3, <2>1, FS_Union DEF Plus, Dated
  <2> HIDE DEF T, e
  <2> QED BY <2>1, <2>2, FS_Union
<1>12. ASSUME NEW f \in T \cup {e}
       PROVE  f.at \in Int /\ f.till \in Int /\ f.seq \in Int
  <2>1. CASE f \in S
    BY <1>7, <2>1
  <2>2. CASE \E i \in 1 .. Len(q) : f = q[i]
    BY <1>1, <1>4, <1>6, <1>8, <2>2, SMTT(60) DEF M
  <2> QED BY <1>9, <2>1, <2>2 DEF Plus
<1>13. ASSUME NEW f \in T \cup {e}, NEW g \in T \cup {e}, f.till = g.till, f.seq = g.seq
       PROVE  f = g
  <2>1. \A h \in T \cup {e} : h \in S \/ \E i \in 1 .. Len(q) : h = q[i]
    BY <1>9 DEF Plus
  <2>2. CASE f \in S /\ g \in S
    BY <1>3, <1>13, <2>2 DEF Dated
  <2>3. ASSUME NEW h \in S, NEW i \in 1 .. Len(q), h.till = q[i].till PROVE h.seq # q[i].seq
    BY <1>4, <1>7, <1>8, <2>3 DEF M
  <2>4. CASE \E i, j \in 1 .. Len(q) : f = q[i] /\ g = q[j]
    <3>1. PICK i, j \in 1 .. Len(q) : f = q[i] /\ g = q[j]
      BY <2>4
    <3>2. i = j
      BY <1>4, <1>8, <1>13, <3>1 DEF M
    <3> QED BY <3>1, <3>2
  <2>5. CASE \E i \in 1 .. Len(q) : g = q[i] /\ f \in S
    BY <1>13, <2>3, <2>5
  <2>6. CASE \E i \in 1 .. Len(q) : f = q[i] /\ g \in S
    BY <1>13, <2>3, <2>6
  <2> QED BY <2>1, <2>2, <2>4, <2>5, <2>6
<1>14. ASSUME NEW f \in T PROVE InTime(f, e) /\ f # e
  <2>1. e.till = t /\ e.seq = M + (n + 1) /\ e.at = at
    BY <1>8, <1>9
  <2>2. CASE f \in S
    BY <1>6, <1>7, <2>1, <2>2 DEF InTime
  <2>3. CASE \E i \in 1 .. n : f = q[i]
    <3>1. PICK i \in 1 .. n : f = q[i]
      BY <2>3
    <3>2. f.till = t /\ f.seq = M + i /\ f.at = at
      BY <1>8, <1>9, <3>1
    <3>3. M \in Nat
      BY <1>4
    <3> HIDE DEF e
    <3>4. M + i < M + (n + 1)
      BY <3>3
    <3> QED BY <3>3, <2>1, <1>6, <3>2, <3>4 DEF InTime
  <2> QED BY <2>2, <2>3 DEF Plus
<1>15. Latest(T, e)
  BY <1>11, <1>12, <1>13, <1>14 DEF Latest, Dated
<1> QED BY <1>10, <1>15 DEF S

\* What tills hold after a command of one.
LEMMA HoldingAfter ==
  ASSUME Typed, NEW t \in Till, NEW q, NEW next, Command(t, q, next)
  PROVE  /\ Holding(t, base[t])' = Plus(Holding(t, base[t]), q, Len(q))
         /\ \A u \in Till : u # t => Holding(u, base[u])' = Holding(u, base[u])
<1>1. /\ IsLog(log[t]) /\ IsLog(q) /\ log'[t] = log[t] \o q
      /\ \A u \in Till : u # t => log'[u] = log[u]
  BY CommandLogs
<1>2. base' = base /\ Len(q) \in Nat
  BY <1>1, LogAppend DEF Command, Writes
<1>3. /\ Len(log[t]) \in Nat
      /\ DOMAIN log[t] = 1 .. Len(log[t])
      /\ DOMAIN log'[t] = 1 .. Len(log[t]) + Len(q)
      /\ \A i \in 1 .. Len(log[t]) : log'[t][i] = log[t][i]
      /\ \A i \in 1 .. Len(q) : log'[t][Len(log[t]) + i] = q[i]
  BY <1>1, LogAppend
<1>4. Range(log'[t]) = Range(log[t]) \cup {q[i] : i \in 1 .. Len(q)}
  <2>1. ASSUME NEW i \in 1 .. Len(log[t]) + Len(q)
        PROVE  log'[t][i] \in Range(log[t]) \cup {q[j] : j \in 1 .. Len(q)}
    <3>1. CASE i \in 1 .. Len(log[t])
      BY <1>3, <3>1 DEF Range
    <3>2. CASE i \notin 1 .. Len(log[t])
      <4>1. i - Len(log[t]) \in 1 .. Len(q) /\ Len(log[t]) + (i - Len(log[t])) = i
        BY <1>2, <1>3, <3>2
      <4>2. log'[t][i] = q[i - Len(log[t])]
        BY <1>3, <4>1
      <4> QED BY <4>1, <4>2
    <3> QED BY <3>1, <3>2
  <2>2. \A i \in 1 .. Len(log[t]) : i \in 1 .. Len(log[t]) + Len(q)
    BY <1>2, <1>3
  <2>3. \A i \in 1 .. Len(q) : Len(log[t]) + i \in 1 .. Len(log[t]) + Len(q)
    BY <1>2, <1>3
  <2>4. Range(log[t]) \subseteq Range(log'[t])
    BY <1>3, <2>2 DEF Range
  <2>5. {q[i] : i \in 1 .. Len(q)} \subseteq Range(log'[t])
    BY <1>3, <2>3 DEF Range
  <2>6. Range(log'[t]) \subseteq Range(log[t]) \cup {q[i] : i \in 1 .. Len(q)}
    BY <1>3, <2>1 DEF Range
  <2> QED BY <2>4, <2>5, <2>6
<1>5. Holding(t, base[t])' = Plus(Holding(t, base[t]), q, Len(q))
  <2>1. log'[Sibling(t)] = log[Sibling(t)]
    BY <1>1, TillsKnown
  <2> QED BY <1>2, <1>4, <2>1 DEF Holding, Plus
<1>6. ASSUME NEW u \in Till, u # t
      PROVE  Holding(u, base[u])' = Holding(u, base[u])
  <2> DEFINE n == base[u]
  <2>1. log'[u] = log[u]
    BY <1>1, <1>6
  <2>2. SubSeq(log'[Sibling(u)], 1, n) = SubSeq(log[Sibling(u)], 1, n)
    <3>1. CASE Sibling(u) # t
      BY <1>1, <3>1, TillsKnown
    <3>2. CASE Sibling(u) = t
      <4>1. n \in Nat /\ n <= Len(log[t])
        <5>1. base[u] <= known[u] /\ known[u] <= Len(log[Sibling(u)])
          BY DEF Typed
        <5>2. base[u] \in Nat /\ known[u] \in Nat
          BY DEF Typed
        <5> QED BY <1>3, <3>2, <5>1, <5>2
      <4> DEFINE S == Range(log'[t])
      <4>2. \A i \in 1 .. n : log[t][i] \in S /\ log'[t][i] \in S /\ log'[t][i] = log[t][i]
        <5>1. \A i \in 1 .. n : i \in 1 .. Len(log[t]) /\ i \in DOMAIN log[t] /\ i \in DOMAIN log'[t]
          BY <1>2, <1>3, <4>1
        <5>2. \A i \in DOMAIN log[t] : log[t][i] \in Range(log[t])
          BY DEF Range
        <5>3. Range(log[t]) \subseteq S
          BY <1>4
        <5> HIDE DEF S, n
        <5> QED BY <1>3, <5>1, <5>2, <5>3
      <4> HIDE DEF S, n
      <4>3. /\ SubSeq(log[t], 1, n) \in Seq(S)
            /\ Len(SubSeq(log[t], 1, n)) = IF 1 <= n THEN n - 1 + 1 ELSE 0
            /\ \A i \in 1 .. n - 1 + 1 : SubSeq(log[t], 1, n)[i] = log[t][1 + i - 1]
        BY <4>1, <4>2, SubSeqProperties
      <4>4. /\ SubSeq(log'[t], 1, n) \in Seq(S)
            /\ Len(SubSeq(log'[t], 1, n)) = IF 1 <= n THEN n - 1 + 1 ELSE 0
            /\ \A i \in 1 .. n - 1 + 1 : SubSeq(log'[t], 1, n)[i] = log'[t][1 + i - 1]
        BY <4>1, <4>2, SubSeqProperties
      <4>5. /\ Len(SubSeq(log'[t], 1, n)) = n /\ Len(SubSeq(log[t], 1, n)) = n
            /\ \A i \in 1 .. n : SubSeq(log'[t], 1, n)[i] = SubSeq(log[t], 1, n)[i]
        BY <4>1, <4>2, <4>3, <4>4
      <4> QED BY <3>2, <4>3, <4>4, <4>5, SeqEqual
    <3> QED BY <3>1, <3>2
  <2> QED BY <1>2, <2>1, <2>2 DEF Holding
<1> QED BY <1>5, <1>6

\* What an open till has in memory is what its events amount to, and they do.
Mirrored ==
    \A t \in Till : up[t] =>
        /\ shop[t] = Rebuilt(Holding(t, base[t]))
        /\ Opens(Holding(t, base[t]))

\* The kinds whose events are about an order, a batch or a person.
NewKind == PurchaseKind \cup {"BatchReceived", "Enrolled"}

\* A number given only later than now.
Unborn(id, now) == \E u \in Till, n, k \in Nat : k > now /\ id = <<u, k, n>>

\* No event in any log is about what is yet to be numbered.
Born == \A t \in Till : \A i \in DOMAIN log[t] :
            log[t][i].kind \in NewKind => ~Unborn(log[t][i].id, clock)

\* The next number is unborn until its moment passes.
LEMMA NextUnborn ==
  ASSUME Typed, NEW t \in Till, NEW n \in Nat
  PROVE  /\ Unborn(NewId(t, n), clock) /\ ~Unborn(NewId(t, n), clock + 1)
         /\ \A id : ~Unborn(id, clock) => ~Unborn(id, clock + 1)
<1>1. clock \in Nat /\ clock + 1 \in Nat /\ clock + 1 > clock
  BY DEF Typed
<1>2. Unborn(NewId(t, n), clock)
  BY <1>1 DEF Unborn, NewId
<1>3. ~Unborn(NewId(t, n), clock + 1)
  BY <1>1 DEF Unborn, NewId
<1>4. \A k \in Nat : k > clock + 1 => k > clock
  BY <1>1
<1> QED BY <1>2, <1>3, <1>4 DEF Unborn

\* A till's next order has a number of its own.
LEMMA OrderUnborn ==
  ASSUME Grown, Born, NEW t \in Till, NEW m \in 0 .. Len(log[Sibling(t)]), NEW n \in Nat
  PROVE  NewId(t, n) \notin OrderIds(Holding(t, m))
<1> DEFINE S == Holding(t, m)
           u == Sibling(t)
<1>1. S = {log[t][i] : i \in DOMAIN log[t]} \cup {log[u][i] : i \in 1 .. m}
  BY HoldingIs DEF Grown
<1>2. u \in Till /\ \A i \in 1 .. m : i \in DOMAIN log[u]
  <2>1. u \in Till
    BY TillsKnown
  <2>2. IsLog(log[u])
    BY <2>1 DEF Grown, Typed
  <2>3. Len(log[u]) \in Nat /\ DOMAIN log[u] = 1 .. Len(log[u])
    BY <2>2, LogAppend
  <2> QED BY <2>1, <2>3
<1> HIDE DEF S, u
<1>3. \A e \in S : e.kind \in PurchaseKind => ~Unborn(e.id, clock)
  BY <1>1, <1>2 DEF Born, NewKind
<1>4. Unborn(NewId(t, n), clock)
  BY NextUnborn DEF Grown
<1> QED BY <1>3, <1>4 DEF OrderIds, Purchases, S

\* One event and the memory that goes with it.
LEMMA OneMirrors ==
  ASSUME Grown, Born, NEW t \in Till, NEW m \in 0 .. Len(log[Sibling(t)]), NEW e, NEW next,
         shop[t] = Rebuilt(Holding(t, m)), Opens(Holding(t, m)), Latest(Holding(t, m), e),
         \/ MovesStock(t, e, next) \/ Places(t, e, next) \/ Closes(t, e, next)
         \/ Enrols(t, e, next) \/ Configures(t, e, next)
         \/ EditsCatalogue(t, e, next) \/ EditsFloor(t, e, next)
  PROVE  LET T == Holding(t, m) \cup {e} IN next = Rebuilt(T) /\ Opens(T)
<1> DEFINE S == Holding(t, m)
           T == S \cup {e}
           old == Rebuilt(S)
<1>0. Latest(S, e) /\ Opens(S) /\ shop[t] = old
  OBVIOUS
<1>1. /\ (e.kind \in StockKind /\ StockAccepts(old.stock, e)) =>
            Rebuilt(T) = [old EXCEPT !.stock = StockApply(old.stock, e)] /\ Opens(T)
      /\ (e.kind \in StaffKind /\ StaffAccepts(old.staff, e)) =>
            Rebuilt(T) = [old EXCEPT !.staff = StaffApply(old.staff, e)] /\ Opens(T)
      /\ (e.kind \in CatalogueKind /\ CatalogueAccepts(old.catalogue, e)) =>
            Rebuilt(T) = [old EXCEPT !.catalogue = CatalogueApply(old.catalogue, e)] /\ Opens(T)
      /\ (e.kind \in FloorKind /\ FloorAccepts(old.floor, e)) =>
            Rebuilt(T) = [old EXCEPT !.floor = FloorApply(old.floor, e)] /\ Opens(T)
      /\ e.kind \in OutletKind =>
            Rebuilt(T) = [old EXCEPT !.outlet = OutletApply(old.outlet, e)] /\ Opens(T)
      /\ e.kind \in PurchaseKind =>
            Rebuilt(T) = [old EXCEPT !.orders = OrdersOf(T)] /\ Opens(T)
  <2> HIDE DEF S
  <2> QED BY <1>0, MemoryAppend
<1>2. old.orders = OrdersOf(S)
  BY DEF Rebuilt
<1>3. NewId(t, 1) \notin OrderIds(S)
  BY OrderUnborn
<1> HIDE DEF S, T, old
<1>4. CASE MovesStock(t, e, next)
  BY <1>0, <1>1, <1>4 DEF MovesStock, S, T
<1>5. CASE Places(t, e, next)
  <2>1. /\ e.kind = "Placed" /\ e.id = NewId(t, 1) /\ e.data.lines # << >>
        /\ next = [shop[t] EXCEPT !.orders = [id \in Orders(t) \cup {e.id} |->
                                                IF id = e.id THEN OrderReplay(<<e>>)
                                                ELSE shop[t].orders[id]]]
    BY <1>5 DEF Places
  <2>2. e.id \notin OrderIds(S)
    BY <1>3, <2>1
  <2>3. OrdersOf(T) = [id \in DOMAIN OrdersOf(S) \cup {e.id} |->
                         IF id = e.id THEN OrderReplay(<<e>>) ELSE OrdersOf(S)[id]]
    <3>1. e.kind = "Placed" /\ e.data.lines # << >> /\ Latest(S, e)
      BY <1>0, <2>1
    <3> QED BY ONLY <2>2, <3>1, PlacementAppend, ZenonT(60) DEF T
  <2>4. next = [old EXCEPT !.orders = OrdersOf(T)]
    BY <1>0, <1>2, <2>1, <2>3 DEF Orders
  <2>5. e.kind \in PurchaseKind
    BY <2>1 DEF PurchaseKind
  <2> QED BY <1>1, <2>4, <2>5 DEF S, T
<1>6. CASE Closes(t, e, next)
  <2>1. /\ e.kind = "Closed" /\ e.id \in DOMAIN OrdersOf(S) /\ e.data.reason \in CloseReason
        /\ OrderAccepts(OrdersOf(S)[e.id], e)
        /\ next = [old EXCEPT !.orders[e.id] = OrderApply(@, e)]
    BY <1>0, <1>2, <1>6 DEF Closes, Orders
  <2>2. OrdersOf(T) = [OrdersOf(S) EXCEPT ![e.id] = OrderApply(@, e)]
    BY <1>0, <2>1, OrderAppend DEF T
  <2>3. next = [old EXCEPT !.orders = OrdersOf(T)]
    BY <1>2, <2>1, <2>2
  <2>4. e.kind \in PurchaseKind
    BY <2>1 DEF PurchaseKind
  <2> QED BY <1>1, <2>3, <2>4 DEF S, T
<1>7. CASE Enrols(t, e, next)
  BY <1>0, <1>1, <1>7 DEF Enrols, StaffKind, S, T
<1>8. CASE Configures(t, e, next)
  BY <1>0, <1>1, <1>8 DEF Configures, OutletKind, S, T
<1>9. CASE EditsCatalogue(t, e, next)
  BY <1>0, <1>1, <1>9 DEF EditsCatalogue, S, T
<1>10. CASE EditsFloor(t, e, next)
  BY <1>0, <1>1, <1>10 DEF EditsFloor, S, T
<1> QED BY <1>4, <1>5, <1>6, <1>7, <1>8, <1>9, <1>10

\* A delivery and its batch.
LEMMA TwoMirror ==
  ASSUME Grown, NEW t \in Till, NEW S, NEW e, NEW f, NEW next,
         shop[t] = Rebuilt(S), Opens(S), Latest(S, e), Latest(S \cup {e}, f),
         Receives(t, e, f, next)
  PROVE  LET T == (S \cup {e}) \cup {f} IN next = Rebuilt(T) /\ Opens(T)
<1> DEFINE T == S \cup {e}
           U == T \cup {f}
           old == Rebuilt(S)
           mid == Rebuilt(T)
<1>1. /\ e.kind = "LineReceived" /\ e.id \in DOMAIN OrdersOf(S)
      /\ OrderAccepts(OrdersOf(S)[e.id], e)
      /\ f.kind = "BatchReceived" /\ StockAccepts(old.stock, f)
      /\ next = [old EXCEPT !.orders[e.id] = OrderApply(@, e), !.stock = StockApply(@, f)]
  <2>1. old.orders = OrdersOf(S)
    BY DEF Rebuilt
  <2> HIDE DEF old
  <2> QED BY <2>1 DEF Receives, Orders, old
<1>2. OrdersOf(T) = [OrdersOf(S) EXCEPT ![e.id] = OrderApply(@, e)]
  BY <1>1, OrderAppend
<1>3. e.kind \in PurchaseKind /\ f.kind \in StockKind
  BY <1>1 DEF PurchaseKind, StockKind
<1>4. mid = [old EXCEPT !.orders = OrdersOf(T)] /\ Opens(T)
  BY <1>3, MemoryAppend
<1>5. old.orders = OrdersOf(S) /\ Shaped(old) /\ Shaped(mid)
  BY RebuiltShaped DEF Rebuilt
<1> HIDE DEF T, old, mid
<1>6. mid.stock = old.stock
  BY <1>4, <1>5 DEF Shaped
<1>7. Rebuilt(U) = [mid EXCEPT !.stock = StockApply(mid.stock, f)] /\ Opens(U)
  <2>1. Latest(T, f) /\ StockAccepts(Rebuilt(T).stock, f)
    BY <1>1, <1>6 DEF T, mid
  <2>2. Rebuilt(U) = [Rebuilt(T) EXCEPT !.stock = StockApply(Rebuilt(T).stock, f)] /\ Opens(U)
    BY <1>3, <1>4, <2>1, MemoryAppend
  <2> QED BY <2>2 DEF mid
<1>8. mid = [old EXCEPT !.orders[e.id] = OrderApply(@, e)]
  BY <1>2, <1>4, <1>5
<1>9. next = [mid EXCEPT !.stock = StockApply(mid.stock, f)]
  BY <1>1, <1>6, <1>8
<1> QED BY <1>7, <1>9 DEF T

\* Rows of a file.
LEMMA ImportMirrors ==
  ASSUME Grown, OneTime, NEW t \in Till, NEW m \in 0 .. Len(log[Sibling(t)]), NEW q, NEW next,
         shop[t] = Rebuilt(Holding(t, m)), Opens(Holding(t, m)),
         Stamped(t, q), Follows(t), Imports(t, q, next)
  PROVE  LET T == Plus(Holding(t, m), q, Len(q)) IN next = Rebuilt(T) /\ Opens(T)
<1> DEFINE S == Holding(t, m)
           old == Rebuilt(S)
           P == {n \in Nat : n <= Len(q) =>
                   /\ Rebuilt(Plus(S, q, n)) = [old EXCEPT !.catalogue = Listed(t, q, n)]
                   /\ Opens(Plus(S, q, n))}
<1>1. IsLog(q) /\ Len(q) \in Nat
  BY LogAppend DEF Stamped
<1>2. Shaped(old)
  BY RebuiltShaped
<1>3. /\ Listed(t, q, 0) = shop[t].catalogue
      /\ \A n \in Nat : n + 1 <= Len(q) =>
            Listed(t, q, n + 1) = CatalogueApply(Listed(t, q, n), q[n + 1])
  BY <1>1, ListedNext
<1>4. \A n \in Nat : n + 1 <= Len(q) => /\ Latest(Plus(S, q, n), q[n + 1])
                                        /\ Plus(S, q, n + 1) = Plus(S, q, n) \cup {q[n + 1]}
  BY StampedLatest
<1>5. shop[t] = old /\ Opens(S)
  OBVIOUS
<1> HIDE DEF S, old
<1>6. 0 \in P
  <2>1. Plus(S, q, 0) = S
    BY DEF Plus
  <2>2. old = [old EXCEPT !.catalogue = old.catalogue]
    BY <1>2, PartsTogether
  <2>3. Listed(t, q, 0) = old.catalogue
    BY <1>3, <1>5
  <2>4. Rebuilt(S) = [old EXCEPT !.catalogue = Listed(t, q, 0)]
    BY <2>2, <2>3 DEF old
  <2> QED BY <1>5, <2>1, <2>4
<1>7. ASSUME NEW n \in P PROVE n + 1 \in P
  <2>0. n \in Nat /\ n + 1 \in Nat
    OBVIOUS
  <2>1. ASSUME n + 1 <= Len(q)
        PROVE  /\ Rebuilt(Plus(S, q, n + 1)) = [old EXCEPT !.catalogue = Listed(t, q, n + 1)]
               /\ Opens(Plus(S, q, n + 1))
    <3> DEFINE U == Plus(S, q, n)
               e == q[n + 1]
               a == Listed(t, q, n)
               b == CatalogueApply(a, e)
               mid == [old EXCEPT !.catalogue = a]
    <3>1. n <= Len(q) /\ n + 1 \in 1 .. Len(q) /\ (n + 1) - 1 = n
      BY <1>1, <2>0, <2>1
    <3>2. Rebuilt(U) = mid /\ Opens(U)
      BY <3>1
    <3>3. e.kind \in CatalogueKind /\ CatalogueAccepts(a, e)
      BY <3>1 DEF Imports, CatalogueKind
    <3>4. Latest(U, e) /\ Plus(S, q, n + 1) = U \cup {e}
      BY <1>4, <2>0, <2>1
    <3>5. Listed(t, q, n + 1) = b
      BY <1>3, <2>0, <2>1
    <3> HIDE DEF U, e, a, b
    <3>6. mid.catalogue = a /\ Shaped(mid)
      <4>1. \A x : /\ [old EXCEPT !.catalogue = x].catalogue = x
                   /\ Shaped([old EXCEPT !.catalogue = x])
        <5> TAKE x
        <5>1. [old EXCEPT !.catalogue = x].catalogue = x
          BY ONLY <1>2, PartsApart
        <5>2. Shaped([old EXCEPT !.catalogue = x])
          BY ONLY <1>2, ShapedStays
        <5> QED BY ONLY <5>1, <5>2
      <4> QED BY ONLY <4>1
    <3>7. CatalogueAccepts(Rebuilt(U).catalogue, e)
      BY <3>2, <3>3, <3>6
    <3>8. Rebuilt(U \cup {e}) = [Rebuilt(U) EXCEPT !.catalogue
                                                = CatalogueApply(Rebuilt(U).catalogue, e)]
          /\ Opens(U \cup {e})
      BY <3>2, <3>3, <3>4, <3>7, MemoryAppend
    <3>9. Rebuilt(U \cup {e}) = [mid EXCEPT !.catalogue = b]
      BY <3>2, <3>6, <3>8 DEF b
    <3>10. [mid EXCEPT !.catalogue = b] = [old EXCEPT !.catalogue = b]
      BY <1>2 DEF Shaped
    <3> QED BY <3>4, <3>5, <3>8, <3>9, <3>10
  <2> QED BY <2>0, <2>1
<1>8. P \in SUBSET Nat
  OBVIOUS
<1> HIDE DEF P
<1>9. Len(q) \in P
  BY <1>1, <1>6, <1>7, <1>8, CatalogueRun!Induction
<1>10. /\ Rebuilt(Plus(S, q, Len(q))) = [old EXCEPT !.catalogue = Listed(t, q, Len(q))]
       /\ Opens(Plus(S, q, Len(q)))
  BY <1>1, <1>9 DEF P
<1>11. next = [old EXCEPT !.catalogue = Listed(t, q, Len(q))]
  BY <1>5 DEF Imports
<1> QED BY <1>10, <1>11 DEF S

\* A till knows no more of its sibling's log than there is.
LEMMA KnownWithin ==
  ASSUME Typed, NEW t \in Till
  PROVE  known[t] \in 0 .. Len(log[Sibling(t)]) /\ base[t] \in 0 .. Len(log[Sibling(t)])
<1>1. /\ known[t] \in Nat /\ base[t] \in Nat /\ base[t] <= known[t]
      /\ known[t] <= Len(log[Sibling(t)])
  BY DEF Typed
<1>2. IsLog(log[Sibling(t)])
  BY TillsKnown DEF Typed
<1>3. Len(log[Sibling(t)]) \in Nat
  BY <1>2, LogAppend
<1> QED BY <1>1, <1>3

\* What a command leaves in memory is what its till then holds amounts to.
LEMMA CommandMirrors ==
  ASSUME Grown, OneTime, Born, Mirrored, NEW t \in Till, NEW q, NEW next, Command(t, q, next)
  PROVE  LET T == Plus(Holding(t, base[t]), q, Len(q)) IN next = Rebuilt(T) /\ Opens(T)
<1> DEFINE m == base[t]
           S == Holding(t, m)
<1>1. /\ up[t] /\ Stamped(t, q) /\ (q = << >> \/ Follows(t)) /\ Lawful(t, q, next)
      /\ IsLog(q) /\ Len(q) \in Nat
  BY LogAppend DEF Command, Writes, Stamped
<1>2. shop[t] = Rebuilt(S) /\ Opens(S)
  BY <1>1 DEF Mirrored
<1>3. m \in 0 .. Len(log[Sibling(t)])
  BY KnownWithin DEF Grown
<1> HIDE DEF m
<1>4. CASE q = << >> /\ next = shop[t]
  <2>1. Plus(S, q, Len(q)) = S
    BY <1>4, NoEvents DEF Plus
  <2> QED BY <1>2, <1>4, <2>1 DEF m
<1>5. CASE \E e : /\ q = <<e>>
                  /\ \/ MovesStock(t, e, next) \/ Places(t, e, next) \/ Closes(t, e, next)
                     \/ Enrols(t, e, next) \/ Configures(t, e, next)
                     \/ EditsCatalogue(t, e, next) \/ EditsFloor(t, e, next)
  <2>1. PICK e : /\ q = <<e>>
                 /\ \/ MovesStock(t, e, next) \/ Places(t, e, next) \/ Closes(t, e, next)
                    \/ Enrols(t, e, next) \/ Configures(t, e, next)
                    \/ EditsCatalogue(t, e, next) \/ EditsFloor(t, e, next)
    BY <1>5
  <2>2. Len(q) = 1 /\ q[1] = e /\ q # << >>
    BY <2>1
  <2>3. Follows(t)
    BY <1>1, <2>2
  <2>4. Latest(Plus(S, q, 0), q[0 + 1]) /\ Plus(S, q, 0 + 1) = Plus(S, q, 0) \cup {q[0 + 1]}
    <3>1. 0 \in Nat /\ 0 + 1 <= Len(q)
      BY <2>2
    <3> QED BY <1>1, <1>3, <2>3, <3>1, StampedLatest
  <2>5. Plus(S, q, 0) = S
    BY DEF Plus
  <2>6. Latest(S, e) /\ Plus(S, q, Len(q)) = S \cup {e}
    BY <2>2, <2>4, <2>5
  <2>7. next = Rebuilt(S \cup {e}) /\ Opens(S \cup {e})
    BY <1>2, <1>3, <2>1, <2>6, OneMirrors
  <2> QED BY <2>6, <2>7 DEF m
<1>6. CASE \E e, f : q = <<e, f>> /\ Receives(t, e, f, next)
  <2>1. PICK e, f : q = <<e, f>> /\ Receives(t, e, f, next)
    BY <1>6
  <2>2. Len(q) = 2 /\ q[1] = e /\ q[2] = f /\ q # << >>
    BY <2>1
  <2>3. Follows(t)
    BY <1>1, <2>2
  <2>4. Latest(Plus(S, q, 0), q[0 + 1]) /\ Plus(S, q, 0 + 1) = Plus(S, q, 0) \cup {q[0 + 1]}
    <3>1. 0 \in Nat /\ 0 + 1 <= Len(q)
      BY <2>2
    <3> QED BY <1>1, <1>3, <2>3, <3>1, StampedLatest
  <2>5. Latest(Plus(S, q, 1), q[1 + 1]) /\ Plus(S, q, 1 + 1) = Plus(S, q, 1) \cup {q[1 + 1]}
    <3>1. 1 \in Nat /\ 1 + 1 <= Len(q)
      BY <2>2
    <3> QED BY <1>1, <1>3, <2>3, <3>1, StampedLatest
  <2>6. Plus(S, q, 0) = S
    BY DEF Plus
  <2> HIDE DEF S
  <2>a. 0 + 1 = 1 /\ 1 + 1 = 2
    OBVIOUS
  <2>b. Latest(S, e) /\ Plus(S, q, 1) = S \cup {e}
    BY <2>2, <2>4, <2>6, <2>a
  <2>c. Latest(Plus(S, q, 1), f) /\ Plus(S, q, 2) = Plus(S, q, 1) \cup {f}
    BY <2>2, <2>5, <2>a
  <2>7. /\ Latest(S, e) /\ Latest(S \cup {e}, f)
        /\ Plus(S, q, Len(q)) = (S \cup {e}) \cup {f}
    BY <2>2, <2>b, <2>c
  <2>8. next = Rebuilt((S \cup {e}) \cup {f}) /\ Opens((S \cup {e}) \cup {f})
    BY <1>2, <2>1, <2>7, TwoMirror
  <2> QED BY <2>7, <2>8 DEF m, S
<1>7. CASE Imports(t, q, next)
  <2>1. CASE Follows(t)
    <3>1. next = Rebuilt(Plus(S, q, Len(q))) /\ Opens(Plus(S, q, Len(q)))
      BY <1>1, <1>2, <1>3, <1>7, <2>1, ImportMirrors
    <3> QED BY <3>1 DEF m
  <2>2. CASE q = << >>
    <3>1. Len(q) = 0 /\ Plus(S, q, Len(q)) = S
      BY <2>2, NoEvents DEF Plus
    <3>2. Listed(t, q, 0) = shop[t].catalogue
      BY <1>1, ListedNext
    <3>3. Shaped(shop[t])
      BY MemoryShaped DEF Grown
    <3>4. next = [shop[t] EXCEPT !.catalogue = shop[t].catalogue]
      BY <1>7, <3>1, <3>2 DEF Imports
    <3>5. next = shop[t]
      BY <3>3, <3>4, PartsTogether
    <3> QED BY <1>2, <3>1, <3>5 DEF m
  <2> QED BY <1>1, <2>1, <2>2
<1> QED BY <1>1, <1>4, <1>5, <1>6, <1>7 DEF Lawful

\* The events a till holds are not about what is yet to be numbered.
LEMMA HeldBorn ==
  ASSUME Grown, Born, NEW t \in Till, NEW m \in 0 .. Len(log[Sibling(t)]),
         NEW e \in Holding(t, m), e.kind \in NewKind
  PROVE  ~Unborn(e.id, clock)
<1> DEFINE u == Sibling(t)
<1>1. e \in {log[t][i] : i \in DOMAIN log[t]} \cup {log[u][i] : i \in 1 .. m}
  BY HoldingIs DEF Grown
<1>2. u \in Till /\ \A i \in 1 .. m : i \in DOMAIN log[u]
  <2>1. u \in Till
    BY TillsKnown
  <2>2. IsLog(log[u])
    BY <2>1 DEF Grown, Typed
  <2>3. Len(log[u]) \in Nat /\ DOMAIN log[u] = 1 .. Len(log[u])
    BY <2>2, LogAppend
  <2> QED BY <2>1, <2>3
<1> QED BY <1>1, <1>2 DEF Born

\* Nor are those a command writes.
LEMMA CommandIds ==
  ASSUME Grown, Born, Mirrored, NEW t \in Till, NEW q, NEW next, Command(t, q, next),
         NEW i \in DOMAIN q, q[i].kind \in NewKind
  PROVE  ~Unborn(q[i].id, clock + 1)
<1>1. IsLog(q) /\ up[t] /\ Lawful(t, q, next)
  BY DEF Command, Writes, Stamped
<1>2. ~Unborn(NewId(t, 1), clock + 1)
  BY NextUnborn DEF Grown
<1>3. ASSUME NEW id \in Orders(t) PROVE ~Unborn(id, clock + 1)
  <2>1. shop[t].orders = OrdersOf(Holding(t, base[t]))
    <3>1. shop[t] = Rebuilt(Holding(t, base[t]))
      BY <1>1 DEF Mirrored
    <3> QED BY <3>1 DEF Rebuilt
  <2>2. id \in OrderIds(Holding(t, base[t]))
    BY <1>3, <2>1 DEF Orders, OrdersOf
  <2>3. PICK e \in Holding(t, base[t]) : e.kind \in PurchaseKind /\ e.id = id
    BY <2>2 DEF OrderIds, Purchases
  <2>4. base[t] \in 0 .. Len(log[Sibling(t)])
    BY KnownWithin DEF Grown
  <2>5. ~Unborn(id, clock)
    BY <2>3, <2>4, HeldBorn DEF NewKind
  <2> QED BY <2>5, NextUnborn DEF Grown
<1>4. CASE q = << >> /\ next = shop[t]
  BY <1>4, NoEvents
<1>5. CASE \E e : /\ q = <<e>>
                  /\ \/ MovesStock(t, e, next) \/ Places(t, e, next) \/ Closes(t, e, next)
                     \/ Enrols(t, e, next) \/ Configures(t, e, next)
                     \/ EditsCatalogue(t, e, next) \/ EditsFloor(t, e, next)
  <2>1. PICK e : /\ q = <<e>>
                 /\ \/ MovesStock(t, e, next) \/ Places(t, e, next) \/ Closes(t, e, next)
                    \/ Enrols(t, e, next) \/ Configures(t, e, next)
                    \/ EditsCatalogue(t, e, next) \/ EditsFloor(t, e, next)
    BY <1>5
  <2>2. q[i] = e
    BY <2>1
  <2>3. e.kind \in {"Placed", "LineReceived", "Closed", "BatchReceived", "Enrolled"}
    BY <2>2 DEF NewKind, PurchaseKind
  <2>4. e.id = NewId(t, 1) \/ e.id \in Orders(t)
    BY <2>1, <2>3 DEF MovesStock, Places, Closes, Enrols, Configures, EditsCatalogue,
                      EditsFloor, StockKind, CatalogueKind, FloorKind
  <2> QED BY <1>2, <1>3, <2>2, <2>4
<1>6. CASE \E e, f : q = <<e, f>> /\ Receives(t, e, f, next)
  <2>1. PICK e, f : q = <<e, f>> /\ Receives(t, e, f, next)
    BY <1>6
  <2>2. q[i] = e \/ q[i] = f
    BY <2>1
  <2> QED BY <1>2, <1>3, <2>1, <2>2 DEF Receives
<1>7. CASE Imports(t, q, next)
  <2>1. q[i].kind = "ProductAdded"
    BY <1>1, <1>7, LogAppend DEF Imports
  <2> QED BY <2>1 DEF NewKind, PurchaseKind
<1> QED BY <1>1, <1>4, <1>5, <1>6, <1>7 DEF Lawful

\* So no event is about what is yet to be numbered after a command, ...
LEMMA CommandBorn ==
  ASSUME Grown, Born, Mirrored, NEW t \in Till, NEW q, NEW next, Command(t, q, next)
  PROVE  Born'
<1> SUFFICES ASSUME NEW u \in Till, NEW i \in DOMAIN log'[u], log'[u][i].kind \in NewKind
             PROVE  ~Unborn(log'[u][i].id, clock + 1)
  BY DEF Born, Unborn, Command, Writes
<1>1. /\ \A v \in Till : \A j \in DOMAIN log[v] : log'[v][j] = log[v][j]
      /\ \/ i \in DOMAIN log[u]
         \/ u = t /\ i - Len(log[t]) \in DOMAIN q /\ log'[t][i] = q[i - Len(log[t])]
  BY CommandEntries DEF Grown
<1>2. CASE i \in DOMAIN log[u]
  BY <1>1, <1>2, NextUnborn DEF Born, Grown
<1>3. CASE u = t /\ i - Len(log[t]) \in DOMAIN q /\ log'[t][i] = q[i - Len(log[t])]
  BY <1>3, CommandIds
<1> QED BY <1>1, <1>2, <1>3

\* ... nor after time passes.
LEMMA StillBorn ==
  ASSUME Typed, Born, UNCHANGED log, clock' \in {clock, clock + 1}
  PROVE  Born'
<1> SUFFICES ASSUME NEW t \in Till, NEW i \in DOMAIN log[t], log[t][i].kind \in NewKind
             PROVE  ~Unborn(log[t][i].id, clock')
  BY DEF Born, Unborn
<1>1. ~Unborn(log[t][i].id, clock)
  BY DEF Born
<1>2. ~Unborn(log[t][i].id, clock + 1)
  BY <1>1, NextUnborn
<1> QED BY <1>1, <1>2

\* Tills fresh from the box show what no events amount to.
LEMMA InitMirrors == Init => Born /\ Mirrored
<1> SUFFICES ASSUME Init PROVE Born /\ Mirrored
  OBVIOUS
<1>1. /\ base = known /\ shop = [t \in Till |-> Rebuilt(Range(<< >>))]
      /\ log = [t \in Till |-> << >>] /\ known = [t \in Till |-> 0]
  BY NoEvents DEF Init, StartFrom
<1>2. Born
  BY <1>1, NoEvents DEF Born
<1>3. Grown
  BY InitTyped
<1>4. Range(<< >>) = {}
  BY NoEvents DEF Range
<1>5. ASSUME NEW t \in Till PROVE Holding(t, base[t]) = {} /\ shop[t] = Rebuilt({})
  <2>1. base[t] \in 0 .. Len(log[Sibling(t)]) /\ base[t] = 0 /\ DOMAIN log[t] = {}
    BY <1>1, <1>3, KnownWithin, NoEvents DEF Grown
  <2>2. Holding(t, base[t]) = {log[t][i] : i \in DOMAIN log[t]}
                                 \cup {log[Sibling(t)][i] : i \in 1 .. base[t]}
    BY <1>3, <2>1, HoldingIs DEF Grown
  <2>3. 1 .. base[t] = {}
    BY <2>1
  <2>4. {log[t][i] : i \in DOMAIN log[t]} = {}
    BY <2>1
  <2>5. {log[Sibling(t)][i] : i \in 1 .. base[t]} = {}
    BY <2>3
  <2> QED BY <1>1, <1>4, <2>2, <2>4, <2>5
<1>6. Opens({})
  <2>1. Chronicle({}, StockKind) = << >> /\ Chronicle({}, StaffKind) = << >>
    <3>1. \A kinds : {e \in {} : e.kind \in kinds} = {}
      OBVIOUS
    <3> QED BY <3>1, InOrderNone DEF Chronicle
  <2>2. StockOf({}) = Unbroken(EmptyBook) /\ StaffOf({}) = Unbroken(Nobody)
    <3>1. StockOf({}) = StockRun!Run(<< >>) /\ StaffOf({}) = StaffRun!Run(<< >>)
      BY <2>1, ReplaysAreRuns DEF StockOf, StaffOf
    <3> QED BY <3>1, StockRun!RunEmpty, StaffRun!RunEmpty
  <2> QED BY <2>2 DEF Opens, Unbroken
<1> QED BY <1>2, <1>5, <1>6 DEF Mirrored

\* Every step leaves an open till's memory what its events amount to.
LEMMA StepMirrors ==
  ASSUME Grown, OneTime, Born, Mirrored, [Next]_svars
  PROVE  Born' /\ Mirrored'
<1>1. Typed
  BY DEF Grown
<1>2. ASSUME NEW t \in Till, NEW q, NEW next, Command(t, q, next) PROVE Born' /\ Mirrored'
  <2>1. Born'
    BY <1>2, CommandBorn
  <2>2. /\ shop'[t] = next /\ \A u \in Till : u # t => shop'[u] = shop[u]
    BY <1>1, <1>2, CommandLogs
  <2>3. next = Rebuilt(Plus(Holding(t, base[t]), q, Len(q)))
        /\ Opens(Plus(Holding(t, base[t]), q, Len(q)))
    BY <1>2, CommandMirrors
  <2>4. /\ Holding(t, base[t])' = Plus(Holding(t, base[t]), q, Len(q))
        /\ \A u \in Till : u # t => Holding(u, base[u])' = Holding(u, base[u])
    BY <1>1, <1>2, HoldingAfter
  <2>5. up' = up
    BY <1>2 DEF Command, Writes
  <2>6. ASSUME NEW u \in Till, up[u]
        PROVE  shop'[u] = Rebuilt(Holding(u, base[u])') /\ Opens(Holding(u, base[u])')
    <3>1. CASE u = t
      BY <2>2, <2>3, <2>4, <3>1
    <3>2. CASE u # t
      BY <2>2, <2>4, <2>6, <3>2 DEF Mirrored
    <3> QED BY <3>1, <3>2
  <2> QED BY <2>1, <2>5, <2>6 DEF Mirrored
<1>3. ASSUME NEW t \in Till, Learn(t) PROVE Born' /\ Mirrored'
  <2>1. UNCHANGED <<log, base, shop, up, clock>>
    BY <1>3 DEF Learn
  <2> QED BY <1>1, <2>1, StillBorn DEF Mirrored, Holding, Sibling
<1>4. ASSUME NEW t \in Till, Restart(t) PROVE Born' /\ Mirrored'
  <2> DEFINE S == Holding(t, known[t])
  <2>1. /\ up' = [up EXCEPT ![t] = Opens(S)] /\ UNCHANGED <<log, clock>>
        /\ IF Opens(S)
           THEN /\ shop' = [shop EXCEPT ![t] = Rebuilt(S)]
                /\ base' = [base EXCEPT ![t] = known[t]]
           ELSE UNCHANGED <<shop, base>>
    BY <1>4 DEF Restart
  <2>2. Born'
    BY <1>1, <2>1, StillBorn
  <2>3. ASSUME NEW u \in Till, up'[u]
        PROVE  shop'[u] = Rebuilt(Holding(u, base'[u])) /\ Opens(Holding(u, base'[u]))
    <3>1. CASE u = t
      <4>1. Opens(S)
        BY <1>1, <2>1, <2>3, <3>1 DEF Typed
      <4>2. shop'[t] = Rebuilt(S) /\ base'[t] = known[t]
        BY <1>1, <2>1, <4>1 DEF Typed
      <4> QED BY <3>1, <4>1, <4>2
    <3>2. CASE u # t
      <4>1. up[u] /\ shop'[u] = shop[u] /\ base'[u] = base[u]
        BY <1>1, <2>1, <2>3, <3>2 DEF Typed
      <4> QED BY <4>1 DEF Mirrored
    <3> QED BY <3>1, <3>2
  <2> QED BY <2>1, <2>2, <2>3 DEF Mirrored, Holding, Sibling
<1>5. CASE Quiet
  <2>1. UNCHANGED <<log, base, shop, up>> /\ clock' \in {clock, clock + 1}
    BY <1>5 DEF Quiet
  <2> QED BY <1>1, <2>1, StillBorn DEF Mirrored, Holding, Sibling
<1> QED BY <1>1, <1>2, <1>3, <1>4, <1>5, StepKinds

\* Memory is what the disk amounts to: what an open till shows of stock, orders,
\* staff, catalogue, floor and settings, one change at a time as commands made
\* them, is what a replay of all the events it started from and its own since
\* would make of them.  A write that failed left no trace, a delivery and its
\* batch came together, and an import that stopped half way shows the rows it
\* wrote.  The clocks must agree for that: memory adopts a change last, and a
\* replay puts it where its clock says.
THEOREM ShopShowsReplay ==
  ASSUME OneTime
  PROVE  Spec => []ShopIsReplay
<1>1. Mirrored => ShopIsReplay
  BY DEF Mirrored, ShopIsReplay
<1>2. Init => Grown /\ Born /\ Mirrored
  BY InitTyped, InitMirrors
<1>3. Grown /\ Born /\ Mirrored /\ [Next]_svars => (Grown /\ Born /\ Mirrored)'
  BY StepTyped, StepMirrors
<1> QED BY <1>1, <1>2, <1>3, PTL DEF Spec

-----------------------------------------------------------------------------
(***************************************************************************)
(* Starting again.                                                         *)
(***************************************************************************)

\* A delivery of a batch.
Arrival(id, e) == e.kind = "BatchReceived" /\ e.id = id

\* A movement that applies as soon as its batch is there, and a delivery as
\* long as it is not.
Sensible(e) ==
    /\ e.data.qty \in Int
    /\ e.kind \in {"BatchReceived", "StockIssued", "StockReturned"} => e.data.qty > 0
    /\ e.kind = "BatchCounted" => e.data.qty >= 0

\* A book of levels and variances.
Shelved(book) == book = [levels |-> book.levels, variances |-> book.variances]

\* Only a delivery brings a batch, and nothing takes one away.
LEMMA StockMoves ==
  ASSUME NEW book, NEW e, Shelved(book), e.kind \in StockKind
  PROVE  /\ Shelved(StockApply(book, e))
         /\ Batches(StockApply(book, e)) =
              IF e.kind = "BatchReceived" THEN Batches(book) \cup {e.id} ELSE Batches(book)
<1>1. ASSUME NEW delta
      PROVE  Shelved(Moved(book, e, delta)) /\ Batches(Moved(book, e, delta)) = Batches(book)
  BY DEF Shelved, Moved, Batches
<1>2. CASE e.kind = "BatchReceived"
  <2> DEFINE new == [product |-> e.data.product, on_hand |-> e.data.qty,
                     cost |-> e.data.cost, expires |-> e.data.expires, received |-> e.at]
             levels == [batch \in Batches(book) \cup {e.id} |->
                          IF batch = e.id THEN new ELSE book.levels[batch]]
  <2>1. StockApply(book, e) = [book EXCEPT !.levels = levels]
    BY <1>2 DEF StockApply
  <2>2. DOMAIN levels = Batches(book) \cup {e.id}
    OBVIOUS
  <2> HIDE DEF levels
  <2> QED BY <1>2, <2>1, <2>2 DEF Shelved, Batches
<1>3. CASE e.kind = "StockIssued"
  BY <1>1, <1>3 DEF StockApply
<1>4. CASE e.kind = "StockReturned"
  BY <1>1, <1>4 DEF StockApply
<1>5. CASE e.kind = "BatchCounted"
  <2> DEFINE delta == e.data.qty - book.levels[e.id].on_hand
             set == Moved(book, e, delta)
             more == Append(set.variances, [batch |-> e.id, delta |-> delta, at |-> e.at])
  <2>1. StockApply(book, e) = IF delta = 0 THEN set ELSE [set EXCEPT !.variances = more]
    BY <1>5 DEF StockApply, Counted
  <2>2. Shelved(set) /\ Batches(set) = Batches(book)
    BY <1>1
  <2> HIDE DEF delta, set, more
  <2>3. Shelved([set EXCEPT !.variances = more])
        /\ Batches([set EXCEPT !.variances = more]) = Batches(set)
    BY <2>2 DEF Shelved, Batches
  <2> QED BY <1>5, <2>1, <2>2, <2>3
<1> QED BY <1>2, <1>3, <1>4, <1>5 DEF StockKind

\* A movement of a batch that is there, and a delivery of one that is not, apply.
LEMMA SensibleApplies ==
  ASSUME NEW book, NEW e, e.kind \in StockKind, Sensible(e),
         (e.kind = "BatchReceived") # (e.id \in Batches(book))
  PROVE  StockAccepts(book, e)
BY DEF StockAccepts, Sensible, StockKind

\* And what applies is sensible.
LEMMA AppliesSensible ==
  ASSUME NEW book, NEW e, e.kind \in StockKind, e.data.qty \in Int, StockAccepts(book, e)
  PROVE  Sensible(e) /\ (e.kind # "BatchReceived" => e.id \in Batches(book))
BY DEF StockAccepts, Sensible, StockKind

\* Growing beginnings of a list.
LEMMA PrefixNext ==
  ASSUME NEW E, NEW s \in Seq(E), NEW n \in Nat, n + 1 <= Len(s)
  PROVE  /\ SubSeq(s, 1, n) \in Seq(E)
         /\ SubSeq(s, 1, n + 1) = Append(SubSeq(s, 1, n), s[n + 1])
<1>1. IsLog(s) /\ Len(s) \in Nat
  BY LogOfAny
<1>2. \A i \in 1 .. n : s[i] \in E
  BY <1>1
<1>3. SubSeq(s, 1, n) \in Seq(E)
  BY <1>2, SubSeqProperties
<1> QED BY <1>1, <1>3, SubSeqNext

\* A replay that went through the deliveries of some batches has just those,
\* and goes through movements whose deliveries come first.
LEMMA ReplayStock ==
  ASSUME NEW E, \A e \in E : e.kind \in StockKind /\ Sensible(e), NEW s \in Seq(E),
         \A i, j \in 1 .. Len(s) :
            (Arrival(s[j].id, s[i]) /\ Arrival(s[i].id, s[j])) => i = j,
         \A i \in 1 .. Len(s) : s[i].kind # "BatchReceived" =>
            \E j \in 1 .. i - 1 : Arrival(s[i].id, s[j])
  PROVE  StockRun!Run(s).ok
<1> DEFINE R(n) == StockRun!Run(SubSeq(s, 1, n))
           There(n) == {b \in {s[i].id : i \in 1 .. n} : \E i \in 1 .. n : Arrival(b, s[i])}
           P == {n \in Nat : n <= Len(s) =>
                   /\ R(n) = Unbroken(R(n).is) /\ Shelved(R(n).is)
                   /\ Batches(R(n).is) = There(n)}
<1>1. Len(s) \in Nat /\ SubSeq(s, 1, 0) = << >> /\ SubSeq(s, 1, Len(s)) = s
  OBVIOUS
<1>2. 0 \in P
  <2>1. R(0) = Unbroken(EmptyBook)
    BY <1>1, StockRun!RunEmpty
  <2>2. Shelved(EmptyBook) /\ Batches(EmptyBook) = {}
    BY NoEvents DEF EmptyBook, Shelved, Batches
  <2>3. There(0) = {}
    OBVIOUS
  <2> HIDE DEF R, There
  <2>4. R(0).is = EmptyBook
    BY <2>1 DEF Unbroken
  <2>5. R(0) = Unbroken(R(0).is) /\ Batches(R(0).is) = There(0) /\ Shelved(R(0).is)
    BY <2>1, <2>2, <2>3, <2>4
  <2> QED BY <2>5
<1>3. ASSUME NEW n \in P PROVE n + 1 \in P
  <2>1. CASE n + 1 <= Len(s)
    <3> DEFINE e == s[n + 1]
               book == R(n).is
    <3>1. n \in Nat /\ n <= Len(s) /\ n + 1 \in 1 .. Len(s) /\ (n + 1) - 1 = n
      BY <1>1, <2>1
    <3>2. R(n) = Unbroken(book) /\ Shelved(book) /\ Batches(book) = There(n)
      BY <3>1
    <3>3. e \in E /\ e.kind \in StockKind /\ Sensible(e)
      BY <3>1
    <3>4. R(n + 1) = StockStep(R(n), e)
      <4>1. SubSeq(s, 1, n + 1) = Append(SubSeq(s, 1, n), s[n + 1]) /\ SubSeq(s, 1, n) \in Seq(E)
        BY <3>1, PrefixNext
      <4> QED BY <3>3, <4>1, StockRun!RunAppend
    <3> HIDE DEF R
    <3>5. e.kind # "BatchReceived" => e.id \in There(n)
      <4>1. SUFFICES ASSUME e.kind # "BatchReceived" PROVE e.id \in There(n)
        OBVIOUS
      <4>2. PICK j \in 1 .. n : Arrival(e.id, s[j])
        BY <3>1, <4>1
      <4> QED BY <4>2 DEF Arrival
    <3>6. e.kind = "BatchReceived" => e.id \notin There(n)
      <4>1. SUFFICES ASSUME e.kind = "BatchReceived", e.id \in There(n) PROVE FALSE
        OBVIOUS
      <4>2. PICK i \in 1 .. n : Arrival(e.id, s[i])
        BY <4>1
      <4>3. Arrival(s[i].id, e) /\ i \in 1 .. Len(s) /\ i # n + 1
        BY <3>1, <4>1, <4>2 DEF Arrival
      <4> QED BY <3>1, <4>2, <4>3
    <3>7. There(n + 1) = IF e.kind = "BatchReceived" THEN There(n) \cup {e.id} ELSE There(n)
      <4>1. 1 .. n + 1 = (1 .. n) \cup {n + 1}
        BY <3>1
      <4>2. CASE e.kind = "BatchReceived"
        BY <4>1, <4>2 DEF Arrival
      <4>3. CASE e.kind # "BatchReceived"
        BY <3>5, <4>1, <4>3, SMTT(60) DEF Arrival
      <4> QED BY <4>2, <4>3
    <3> HIDE DEF e, There, book
    <3>8. StockAccepts(book, e)
      BY <3>2, <3>3, <3>5, <3>6, SensibleApplies
    <3>9. R(n + 1) = Unbroken(StockApply(book, e))
      BY <3>2, <3>4, <3>8 DEF StockStep, Strictly, Unbroken
    <3>10. /\ Shelved(StockApply(book, e)) /\ Batches(StockApply(book, e)) = There(n + 1)
      BY <3>2, <3>3, <3>7, StockMoves
    <3>11. R(n + 1).is = StockApply(book, e)
      BY <3>9 DEF Unbroken
    <3> QED BY <3>1, <3>9, <3>10, <3>11
  <2>2. CASE ~(n + 1 <= Len(s))
    BY <2>2
  <2> QED BY <2>1, <2>2
<1>4. P \in SUBSET Nat
  OBVIOUS
<1> HIDE DEF P, R
<1>5. Len(s) \in P
  BY <1>1, <1>2, <1>3, <1>4, StockRun!Induction
<1>6. R(Len(s)).ok
  BY <1>5 DEF P, Unbroken
<1> QED BY <1>1, <1>6 DEF R

\* A replay of enrolments of people who are all different goes through.
LEMMA ReplayPeople ==
  ASSUME NEW E, \A e \in E : e.kind = "Enrolled", NEW s \in Seq(E),
         \A i, j \in 1 .. Len(s) : s[i].id = s[j].id => i = j
  PROVE  StaffRun!Run(s).ok
<1> DEFINE R(n) == StaffRun!Run(SubSeq(s, 1, n))
           There(n) == {s[i].id : i \in 1 .. n}
           P == {n \in Nat : n <= Len(s) =>
                   R(n) = Unbroken(R(n).is) /\ Members(R(n).is) = There(n)}
<1>1. Len(s) \in Nat /\ SubSeq(s, 1, 0) = << >> /\ SubSeq(s, 1, Len(s)) = s
  OBVIOUS
<1>2. 0 \in P
  <2>1. R(0) = Unbroken(Nobody)
    BY <1>1, StaffRun!RunEmpty
  <2>2. Members(Nobody) = {}
    BY NoEvents DEF Nobody, Members
  <2>3. There(0) = {}
    OBVIOUS
  <2> HIDE DEF R, There
  <2>4. R(0).is = Nobody
    BY <2>1 DEF Unbroken
  <2>5. R(0) = Unbroken(R(0).is) /\ Members(R(0).is) = There(0)
    BY <2>1, <2>2, <2>3, <2>4
  <2> QED BY <2>5
<1>3. ASSUME NEW n \in P PROVE n + 1 \in P
  <2>1. CASE n + 1 <= Len(s)
    <3> DEFINE e == s[n + 1]
               staff == R(n).is
    <3>1. n \in Nat /\ n <= Len(s) /\ n + 1 \in 1 .. Len(s) /\ (n + 1) - 1 = n
      BY <1>1, <2>1
    <3>2. R(n) = Unbroken(staff) /\ Members(staff) = There(n)
      BY <3>1
    <3>3. e \in E /\ e.kind = "Enrolled"
      BY <3>1
    <3>4. R(n + 1) = StaffStep(R(n), e)
      <4>1. SubSeq(s, 1, n + 1) = Append(SubSeq(s, 1, n), s[n + 1]) /\ SubSeq(s, 1, n) \in Seq(E)
        BY <3>1, PrefixNext
      <4> QED BY <3>3, <4>1, StaffRun!RunAppend
    <3> HIDE DEF R
    <3>5. e.id \notin There(n)
      <4>1. \A i \in 1 .. n : i \in 1 .. Len(s) /\ i # n + 1
        BY <3>1
      <4> QED BY <3>1, <4>1
    <3>6. There(n + 1) = There(n) \cup {e.id}
      <4>1. 1 .. n + 1 = (1 .. n) \cup {n + 1}
        BY <3>1
      <4> QED BY <4>1
    <3> HIDE DEF e, There, staff
    <3>7. StaffAccepts(staff, e)
      BY <3>2, <3>3, <3>5 DEF StaffAccepts
    <3>8. R(n + 1) = Unbroken(StaffApply(staff, e))
      BY <3>2, <3>4, <3>7 DEF StaffStep, Strictly, Unbroken
    <3>9. Members(StaffApply(staff, e)) = There(n + 1)
      BY <3>2, <3>3, <3>6 DEF StaffApply, Members
    <3>10. R(n + 1).is = StaffApply(staff, e)
      BY <3>8 DEF Unbroken
    <3> QED BY <3>1, <3>8, <3>9, <3>10
  <2>2. CASE ~(n + 1 <= Len(s))
    BY <2>2
  <2> QED BY <2>1, <2>2
<1>4. P \in SUBSET Nat
  OBVIOUS
<1> HIDE DEF P, R
<1>5. Len(s) \in P
  BY <1>1, <1>2, <1>3, <1>4, StaffRun!Induction
<1>6. R(Len(s)).ok
  BY <1>5 DEF P, Unbroken
<1> QED BY <1>1, <1>6 DEF R

\* The batches of a replay, gone through or not, were all delivered.
LEMMA ReplayVouched ==
  ASSUME NEW E, \A e \in E : e.kind \in StockKind, NEW s \in Seq(E)
  PROVE  \A b \in Batches(StockRun!Run(s).is) : \E e \in E : Arrival(b, e)
<1> DEFINE Known(p) == Shelved(p.is) /\ \A b \in Batches(p.is) : \E e \in E : Arrival(b, e)
           P == {q \in Seq(E) : Known(StockRun!Run(q))}
<1>1. << >> \in P
  <2>1. StockRun!Run(<< >>) = [ok |-> TRUE, is |-> EmptyBook]
    BY StockRun!RunEmpty DEF Unbroken
  <2>2. Shelved(EmptyBook) /\ Batches(EmptyBook) = {}
    BY NoEvents DEF EmptyBook, Shelved, Batches
  <2>3. Known(StockRun!Run(<< >>))
    BY <2>1, <2>2
  <2> QED BY <2>3
<1>2. ASSUME NEW q \in P, NEW e \in E PROVE Append(q, e) \in P
  <2> DEFINE p == StockRun!Run(q)
             r == StockRun!Run(Append(q, e))
  <2>1. q \in Seq(E) /\ Append(q, e) \in Seq(E) /\ Known(p)
    OBVIOUS
  <2>2. r = StockStep(p, e)
    BY <2>1, StockRun!RunAppend
  <2> HIDE DEF p, r
  <2>3. r.is = p.is \/ r.is = StockApply(p.is, e)
    BY <2>2 DEF StockStep, Strictly
  <2>4. e.kind \in StockKind
    OBVIOUS
  <2>5. Known(r)
    <3>1. CASE r.is = p.is
      BY <2>1, <3>1
    <3>2. CASE r.is = StockApply(p.is, e)
      <4> DEFINE book == p.is
      <4>1. Shelved(book)
        BY <2>1
      <4> HIDE DEF book
      <4>2. /\ Shelved(StockApply(book, e))
            /\ Batches(StockApply(book, e)) =
                 IF e.kind = "BatchReceived" THEN Batches(book) \cup {e.id} ELSE Batches(book)
        BY <2>4, <4>1, StockMoves
      <4>3. r.is = StockApply(book, e) /\ \A b \in Batches(book) : \E f \in E : Arrival(b, f)
        BY <2>1, <3>2 DEF book
      <4>4. ASSUME NEW b \in Batches(StockApply(book, e)) PROVE \E f \in E : Arrival(b, f)
        BY <4>2, <4>3, <4>4 DEF Arrival
      <4> QED BY <4>2, <4>3, <4>4
    <3> QED BY <2>3, <3>1, <3>2
  <2> QED BY <2>1, <2>5 DEF r
<1>3. P \in SUBSET Seq(E)
  OBVIOUS
<1> HIDE DEF P
<1>4. s \in P
  BY <1>1, <1>2, <1>3, StockRun!SequenceInduction
<1> QED BY <1>4 DEF P

\* A delivery begins a batch, an enrolment a person, a placement an order.
Founding(e) == e.kind \in {"BatchReceived", "Enrolled", "Placed"}

\* Each batch, person and order once, at either till.
Distinct ==
    \A t, u \in Till : \A i \in DOMAIN log[t], j \in DOMAIN log[u] :
        (/\ Founding(log[t][i]) /\ log[u][j].kind = log[t][i].kind
         /\ log[u][j].id = log[t][i].id) => t = u /\ i = j

\* What may be recorded of an order: lines, a quantity, a reason.
Proper(e) ==
    /\ e.kind = "Placed" => e.data.lines # << >>
    /\ e.kind = "LineReceived" => e.data.qty \in Int /\ e.data.qty > 0
    /\ e.kind = "Closed" => e.data.reason \in CloseReason

\* The placement of the order an event is about, with the line it is about.
Placement(e, f) ==
    /\ f.kind = "Placed" /\ f.id = e.id
    /\ e.kind = "LineReceived" => e.data.line \in DOMAIN f.data.lines

\* What takes something to have been recorded before it, and what that is: the
\* delivery of the batch, the placement of the order.
Rests(e) == e.kind \in (StockKind \cup PurchaseKind) \ {"BatchReceived", "Placed"}
RestsOn(e, f) ==
    /\ InTime(f, e)
    /\ e.kind \in StockKind => Arrival(e.id, f)
    /\ e.kind \in PurchaseKind => Placement(e, f)

\* Events make sense, and follow what they rest on in their own till's log or
\* in what its memory was built from of the other's.
MakesSense(e) == (e.kind \in StockKind => Sensible(e)) /\ (e.kind \in PurchaseKind => Proper(e))
Grounded ==
    \A t \in Till : \A i \in DOMAIN log[t] :
        /\ MakesSense(log[t][i])
        /\ Rests(log[t][i]) =>
             \/ \E j \in 1 .. i - 1 : RestsOn(log[t][i], log[t][j])
             \/ \E j \in 1 .. base[t] : RestsOn(log[t][i], log[Sibling(t)][j])

\* The log and the place of an event a till holds.
LEMMA HeldAt ==
  ASSUME Typed, NEW t \in Till, NEW n \in 0 .. Len(log[Sibling(t)]), NEW e
  PROVE  e \in Holding(t, n) <=>
           \E u \in Till : \E i \in DOMAIN log[u] : e = log[u][i] /\ (u = t \/ i <= n)
<1> DEFINE v == Sibling(t)
<1>1. Holding(t, n) = {log[t][i] : i \in DOMAIN log[t]} \cup {log[v][i] : i \in 1 .. n}
  BY HoldingIs
<1>2. v \in Till /\ v # t /\ \A u \in Till : u = t \/ u = v
  BY TillsKnown
<1>3. DOMAIN log[v] = 1 .. Len(log[v]) /\ Len(log[v]) \in Nat
  <2>1. IsLog(log[v])
    BY <1>2 DEF Typed
  <2> QED BY <2>1, LogAppend
<1>4. \A i : i \in 1 .. n <=> i \in DOMAIN log[v] /\ i <= n
  BY <1>3
<1> HIDE DEF v
<1> QED BY <1>1, <1>2, <1>4

\* Whatever a till knows of its sibling's events beyond what its memory was
\* built from, it holds with every event what that rests on.
LEMMA HoldingGrounded ==
  ASSUME Grown, Distinct, Grounded, NEW t \in Till,
         NEW n \in 0 .. Len(log[Sibling(t)]), base[t] <= n
  PROVE  LET S == Holding(t, n)
         IN  /\ Dated(S)
             /\ \A e \in S : \E u \in Till : \E i \in DOMAIN log[u] : e = log[u][i]
             /\ \A e, f \in S : (Founding(e) /\ f.kind = e.kind /\ f.id = e.id) => f = e
             /\ \A e \in S : MakesSense(e) /\ (Rests(e) => \E f \in S : RestsOn(e, f))
<1> DEFINE S == Holding(t, n)
           v == Sibling(t)
<1>1. Typed
  BY DEF Grown
<1>2. v \in Till /\ v # t /\ Sibling(v) = t /\ \A u \in Till : u = t \/ u = v
  BY TillsKnown
<1>3. Dated(S)
  BY HoldingDated
<1>4. \A e : e \in S <=> \E u \in Till : \E i \in DOMAIN log[u] : e = log[u][i] /\ (u = t \/ i <= n)
  BY <1>1, HeldAt
<1>5. \A u \in Till : DOMAIN log[u] = 1 .. Len(log[u]) /\ Len(log[u]) \in Nat
  BY <1>1, LogAppend DEF Typed
<1>0. n \in Nat /\ base[t] \in Nat
  BY <1>1, <1>2, <1>5 DEF Typed
<1> HIDE DEF S, v
<1>6. \A e, f \in S : (Founding(e) /\ f.kind = e.kind /\ f.id = e.id) => f = e
  <2> SUFFICES ASSUME NEW e \in S, NEW f \in S, Founding(e), f.kind = e.kind, f.id = e.id
               PROVE  f = e
    OBVIOUS
  <2>1. PICK u \in Till : \E i \in DOMAIN log[u] : e = log[u][i]
    BY <1>4
  <2>2. PICK i \in DOMAIN log[u] : e = log[u][i]
    BY <2>1
  <2>3. PICK w \in Till : \E j \in DOMAIN log[w] : f = log[w][j]
    BY <1>4
  <2>4. PICK j \in DOMAIN log[w] : f = log[w][j]
    BY <2>3
  <2>5. u = w /\ i = j
    BY <2>2, <2>4 DEF Distinct
  <2> QED BY <2>2, <2>4, <2>5
<1>7. ASSUME NEW e \in S
      PROVE  MakesSense(e) /\ (Rests(e) => \E f \in S : RestsOn(e, f))
  <2>1. PICK u \in Till : \E i \in DOMAIN log[u] : e = log[u][i] /\ (u = t \/ i <= n)
    BY <1>4
  <2>2. PICK i \in DOMAIN log[u] : e = log[u][i] /\ (u = t \/ i <= n)
    BY <2>1
  <2>3. /\ MakesSense(e)
        /\ Rests(e) => \/ \E j \in 1 .. i - 1 : RestsOn(e, log[u][j])
                       \/ \E j \in 1 .. base[u] : RestsOn(e, log[Sibling(u)][j])
    BY <2>2 DEF Grounded
  <2>4. ASSUME NEW j \in 1 .. i - 1 PROVE log[u][j] \in S
    <3>1. j \in DOMAIN log[u] /\ (u = t \/ j <= n)
      BY <1>0, <1>5, <2>2
    <3> QED BY <1>4, <3>1
  <2>5. ASSUME NEW j \in 1 .. base[u] PROVE log[Sibling(u)][j] \in S
    <3>1. base[u] \in 0 .. Len(log[Sibling(u)])
      BY <1>1, KnownWithin
    <3>2. Sibling(u) \in Till /\ (Sibling(u) = t \/ u = t)
      BY <1>2, TillsKnown
    <3>3. j \in DOMAIN log[Sibling(u)] /\ (u = t => j <= n)
      BY <1>0, <1>5, <3>1, <3>2
    <3> QED BY <1>4, <3>2, <3>3
  <2> QED BY <2>3, <2>4, <2>5
<1> QED BY <1>3, <1>4, <1>6, <1>7 DEF S

\* Some of the events of a set, gone through in order: each once, and what is
\* earlier before what is later.
LEMMA ListedInOrder ==
  ASSUME NEW S, Dated(S), NEW K, K \subseteq S
  PROVE  LET s == InOrder(K)
         IN  /\ s \in Seq(K) /\ Len(s) \in Nat
             /\ \A e \in K : \E i \in 1 .. Len(s) : s[i] = e
             /\ \A i \in 1 .. Len(s) : s[i] \in K
             /\ \A i, j \in 1 .. Len(s) : s[i] = s[j] => i = j
             /\ \A i, j \in 1 .. Len(s) : InTime(s[j], s[i]) <=> j < i
<1> DEFINE s == InOrder(K)
<1>1. Dated(K)
  <2>1. IsFiniteSet(K)
    BY FS_Subset DEF Dated
  <2> QED BY <2>1 DEF Dated
<1> HIDE DEF s
<1>2. s \in Seq(K) /\ (\A e \in K : \E i \in 1 .. Len(s) : s[i] = e) /\ Sorted(s)
  BY <1>1, InOrderSorts DEF s
<1>3. Len(s) \in Nat /\ \A i \in 1 .. Len(s) : s[i] \in K
  BY <1>2
<1>4. /\ \A e \in K : ~InTime(e, e)
      /\ \A e, f, g \in K : InTime(e, f) /\ InTime(f, g) => InTime(e, g)
  BY <1>1, InTimeOrders
<1>5. \A i, j \in 1 .. Len(s) : i < j => InTime(s[i], s[j])
  BY <1>2 DEF Sorted
<1>6. ASSUME NEW i \in 1 .. Len(s), NEW j \in 1 .. Len(s), s[i] = s[j] PROVE i = j
  <2>1. ~(i < j) /\ ~(j < i)
    BY <1>3, <1>4, <1>5, <1>6
  <2> QED BY <1>3, <2>1
<1>7. ASSUME NEW i \in 1 .. Len(s), NEW j \in 1 .. Len(s), InTime(s[j], s[i]) PROVE j < i
  <2>1. i # j /\ ~(i < j)
    BY <1>3, <1>4, <1>5, <1>7
  <2> QED BY <1>3, <2>1
<1> QED BY <1>2, <1>3, <1>5, <1>6, <1>7 DEF s

\* What a till holds, whatever it knows, replays: who is enrolled is enrolled
\* once, and a movement from either till comes after its batch.
LEMMA HoldingOpens ==
  ASSUME Grown, Distinct, Grounded, Staffed, NEW t \in Till
  PROVE  Opens(Holding(t, known[t]))
<1> DEFINE S == Holding(t, known[t])
<1>1. known[t] \in 0 .. Len(log[Sibling(t)]) /\ base[t] <= known[t]
  BY KnownWithin DEF Grown, Typed
<1>2. /\ Dated(S)
      /\ \A e \in S : \E u \in Till : \E i \in DOMAIN log[u] : e = log[u][i]
      /\ \A e, f \in S : (Founding(e) /\ f.kind = e.kind /\ f.id = e.id) => f = e
      /\ \A e \in S : MakesSense(e) /\ (Rests(e) => \E f \in S : RestsOn(e, f))
  BY <1>1, HoldingGrounded
<1> HIDE DEF S
<1>3. StockOf(S).ok
  <2> DEFINE K == {e \in S : e.kind \in StockKind}
             s == InOrder(K)
  <2>0. K \subseteq S
    OBVIOUS
  <2>1. /\ s \in Seq(K) /\ Len(s) \in Nat
        /\ \A e \in K : \E i \in 1 .. Len(s) : s[i] = e
        /\ \A i \in 1 .. Len(s) : s[i] \in K
        /\ \A i, j \in 1 .. Len(s) : s[i] = s[j] => i = j
        /\ \A i, j \in 1 .. Len(s) : InTime(s[j], s[i]) => j < i
    <3> HIDE DEF K
    <3> QED BY <1>2, <2>0, ListedInOrder
  <2>2. \A e \in K : e.kind \in StockKind /\ Sensible(e)
    BY <1>2 DEF MakesSense
  <2>3. ASSUME NEW e \in K, e.kind # "BatchReceived"
        PROVE  \E f \in K : Arrival(e.id, f) /\ InTime(f, e)
    <3>1. Rests(e) /\ e.kind \in StockKind
      BY <2>3 DEF Rests, StockKind
    <3>2. PICK f \in S : RestsOn(e, f)
      BY <1>2, <3>1
    <3>3. f \in K
      BY <3>1, <3>2 DEF RestsOn, Arrival, StockKind
    <3> QED BY <3>1, <3>2, <3>3 DEF RestsOn
  <2>4. \A e, f \in K : (Arrival(f.id, e) /\ Arrival(e.id, f)) => e = f
    BY <1>2 DEF Arrival, Founding
  <2> HIDE DEF K, s
  <2>5. \A i, j \in 1 .. Len(s) : (Arrival(s[j].id, s[i]) /\ Arrival(s[i].id, s[j])) => i = j
    BY <2>1, <2>4
  <2>6. ASSUME NEW i \in 1 .. Len(s), s[i].kind # "BatchReceived"
        PROVE  \E j \in 1 .. i - 1 : Arrival(s[i].id, s[j])
    <3>1. PICK f \in K : Arrival(s[i].id, f) /\ InTime(f, s[i])
      BY <2>1, <2>3, <2>6
    <3>2. PICK j \in 1 .. Len(s) : s[j] = f
      BY <2>1
    <3>3. j < i
      BY <2>1, <3>1, <3>2
    <3>4. j \in 1 .. i - 1
      BY <2>1, <3>3
    <3> QED BY <3>1, <3>2, <3>4
  <2>7. StockRun!Run(s).ok
    BY <2>1, <2>2, <2>5, <2>6, ReplayStock
  <2> QED BY <2>7, ReplaysAreRuns DEF StockOf, Chronicle, K, s
<1>4. StaffOf(S).ok
  <2> DEFINE K == {e \in S : e.kind \in StaffKind}
             s == InOrder(K)
  <2>0. K \subseteq S
    OBVIOUS
  <2>1. /\ s \in Seq(K) /\ Len(s) \in Nat
        /\ \A i \in 1 .. Len(s) : s[i] \in K
        /\ \A i, j \in 1 .. Len(s) : s[i] = s[j] => i = j
    <3> HIDE DEF K
    <3> QED BY <1>2, <2>0, ListedInOrder
  <2>2. \A e \in K : e.kind = "Enrolled"
    BY <1>2 DEF Staffed
  <2>3. \A e, f \in K : f.id = e.id => f = e
    BY <1>2, <2>2 DEF Founding
  <2> HIDE DEF K, s
  <2>4. \A i, j \in 1 .. Len(s) : s[i].id = s[j].id => i = j
    BY <2>1, <2>3
  <2>5. StaffRun!Run(s).ok
    BY <2>1, <2>2, <2>4, ReplayPeople
  <2> QED BY <2>5, ReplaysAreRuns DEF StaffOf, Chronicle, K, s
<1> QED BY <1>3, <1>4 DEF Opens, S

\* The batches an open till shows were delivered, and its events say so.
LEMMA ShownDelivered ==
  ASSUME Grown, Mirrored, NEW t \in Till, up[t], NEW b \in Batches(shop[t].stock)
  PROVE  \E f \in Holding(t, base[t]) : Arrival(b, f)
<1> DEFINE S == Holding(t, base[t])
           K == {e \in S : e.kind \in StockKind}
<1>1. shop[t].stock = StockOf(S).is
  <2>1. shop[t] = Rebuilt(S)
    BY DEF Mirrored
  <2> HIDE DEF S
  <2> QED BY <2>1 DEF Rebuilt
<1>2. Dated(S)
  BY KnownWithin, HoldingDated DEF Grown
<1> HIDE DEF S
<1>3. InOrder(K) \in Seq(K)
  <2>1. Dated(K)
    <3>1. IsFiniteSet(K) /\ K \subseteq S
      BY <1>2, FS_Subset DEF Dated
    <3> QED BY <1>2, <3>1 DEF Dated
  <2> HIDE DEF K
  <2> QED BY <2>1, InOrderSorts
<1>4. StockOf(S).is = StockRun!Run(InOrder(K)).is
  BY ReplaysAreRuns DEF StockOf, Chronicle
<1>5. \A e \in K : e.kind \in StockKind
  OBVIOUS
<1>6. K \subseteq S
  OBVIOUS
<1> HIDE DEF K
<1>7. \A a \in Batches(StockRun!Run(InOrder(K)).is) : \E e \in K : Arrival(a, e)
  BY <1>3, <1>5, ReplayVouched
<1> QED BY <1>1, <1>4, <1>6, <1>7 DEF S

\* So were its orders placed, with the lines they have.
LEMMA ShownPlaced ==
  ASSUME Grown, Mirrored, NEW t \in Till, up[t], NEW id \in Orders(t),
         shop[t].orders[id].state = "open"
  PROVE  \E f \in Holding(t, base[t]) :
           /\ f.kind = "Placed" /\ f.id = id
           /\ DOMAIN shop[t].orders[id].lines = DOMAIN f.data.lines
<1> DEFINE S == Holding(t, base[t])
           E == {e \in Purchases(S) : e.id = id}
           o == OrderOf(S, id)
<1>1. shop[t].orders = OrdersOf(S)
  <2>1. shop[t] = Rebuilt(S)
    BY DEF Mirrored
  <2> HIDE DEF S
  <2> QED BY <2>1 DEF Rebuilt
<1>2. Dated(S)
  BY KnownWithin, HoldingDated DEF Grown
<1> HIDE DEF S
<1>3. shop[t].orders[id] = o
  BY <1>1 DEF Orders, OrdersOf
<1>4. o # Unplaced /\ o # Broken
  BY <1>3, OrderStates
<1>5. E \subseteq S /\ \A f \in E : f.id = id
  BY DEF Purchases
<1>6. o = OrderRun!Run(InOrder(E))
  BY ReplaysAreRuns DEF OrderOf
<1> HIDE DEF E, o
<1>7. InOrder(E) \in Seq(E)
  BY <1>2, <1>5, ListedInOrder
<1>8. \E f \in E : f.kind = "Placed" /\ DOMAIN o.lines = DOMAIN f.data.lines
  BY <1>4, <1>6, <1>7, ReplayEntered
<1> QED BY <1>3, <1>5, <1>8 DEF S

\* What a command writes makes sense, and rests on what its till holds.
LEMMA CommandMoves ==
  ASSUME Grown, OneTime, Mirrored, NEW t \in Till, NEW q, NEW next, Command(t, q, next),
         NEW i \in DOMAIN q
  PROVE  /\ Founding(q[i]) => /\ q[i].id = NewId(t, 1)
                              /\ \A j \in DOMAIN q : Founding(q[j]) => j = i
         /\ MakesSense(q[i])
         /\ Rests(q[i]) => \E f \in Holding(t, base[t]) : RestsOn(q[i], f)
<1>1. IsLog(q) /\ up[t] /\ Lawful(t, q, next) /\ Stamped(t, q) /\ (q = << >> \/ Follows(t))
  BY DEF Command, Writes, Stamped
<1>0. ASSUME NEW f \in Holding(t, base[t]), Len(q) >= 1, q # << >> PROVE InTime(f, q[1])
  <2>1. base[t] \in 0 .. Len(log[Sibling(t)])
    BY KnownWithin DEF Grown
  <2>2. Follows(t) /\ 0 \in Nat /\ 0 + 1 <= Len(q)
    BY <1>0, <1>1, LogAppend
  <2>3. Latest(Plus(Holding(t, base[t]), q, 0), q[0 + 1])
    BY <1>1, <2>1, <2>2, StampedLatest
  <2>4. f \in Plus(Holding(t, base[t]), q, 0)
    BY DEF Plus
  <2> QED BY <2>3, <2>4 DEF Latest
<1>2. CASE q = << >> /\ next = shop[t]
  BY <1>2, NoEvents
<1>3. CASE \E e : /\ q = <<e>>
                  /\ \/ MovesStock(t, e, next) \/ Places(t, e, next) \/ Closes(t, e, next)
                     \/ Enrols(t, e, next) \/ Configures(t, e, next)
                     \/ EditsCatalogue(t, e, next) \/ EditsFloor(t, e, next)
  <2>1. PICK e : /\ q = <<e>>
                 /\ \/ MovesStock(t, e, next) \/ Places(t, e, next) \/ Closes(t, e, next)
                    \/ Enrols(t, e, next) \/ Configures(t, e, next)
                    \/ EditsCatalogue(t, e, next) \/ EditsFloor(t, e, next)
    BY <1>3
  <2>2. q[i] = e /\ DOMAIN q = {1} /\ i = 1 /\ q[1] = e /\ Len(q) = 1 /\ q # << >>
    BY <2>1
  <2>3. Founding(e) => e.id = NewId(t, 1)
    BY <2>1 DEF Founding, MovesStock, Places, Closes, Enrols, Configures, EditsCatalogue,
                EditsFloor, StockKind, CatalogueKind, FloorKind
  <2>4. ASSUME e.kind \in StockKind
        PROVE  Sensible(e) /\ (e.kind # "BatchReceived" => e.id \in Batches(shop[t].stock))
    <3>1. StockAccepts(shop[t].stock, e) /\ e.data.qty \in Int
      BY <2>1, <2>4 DEF MovesStock, Places, Closes, Enrols, Configures, EditsCatalogue,
                  EditsFloor, StockKind, CatalogueKind, FloorKind
    <3> QED BY <2>4, <3>1, AppliesSensible
  <2>5. ASSUME e.kind \in StockKind, e.kind # "BatchReceived"
        PROVE  \E f \in Holding(t, base[t]) : RestsOn(e, f)
    <3>1. PICK f \in Holding(t, base[t]) : Arrival(e.id, f)
      BY <1>1, <2>4, <2>5, ShownDelivered
    <3>2. InTime(f, e)
      BY <1>0, <2>2
    <3> QED BY <2>5, <3>1, <3>2, KindsApart DEF RestsOn
  <2>6. ASSUME e.kind \in PurchaseKind
        PROVE  Proper(e) /\ (e.kind # "Placed" => \E f \in Holding(t, base[t]) : RestsOn(e, f))
    <3>1. Places(t, e, next) \/ Closes(t, e, next)
      BY <2>1, <2>6, KindsApart DEF MovesStock, Enrols, Configures, EditsCatalogue, EditsFloor,
                                   PurchaseKind
    <3>2. CASE Places(t, e, next)
      BY <3>2 DEF Places, Proper
    <3>3. CASE Closes(t, e, next)
      <4>1. e.kind = "Closed" /\ e.id \in Orders(t) /\ shop[t].orders[e.id].state = "open"
        BY <3>3 DEF Closes, OrderAccepts
      <4>2. PICK f \in Holding(t, base[t]) : f.kind = "Placed" /\ f.id = e.id
        BY <1>1, <4>1, ShownPlaced
      <4>3. InTime(f, e)
        BY <1>0, <2>2
      <4>4. RestsOn(e, f)
        BY <4>1, <4>2, <4>3 DEF RestsOn, Placement, StockKind
      <4> QED BY <3>3, <4>4 DEF Closes, Proper
    <3> QED BY <3>1, <3>2, <3>3
  <2>7. MakesSense(e) /\ (Rests(e) => \E f \in Holding(t, base[t]) : RestsOn(e, f))
    BY <2>4, <2>5, <2>6 DEF MakesSense, Rests
  <2> QED BY <2>2, <2>3, <2>7
<1>4. CASE \E e, f : q = <<e, f>> /\ Receives(t, e, f, next)
  <2>1. PICK e, f : q = <<e, f>> /\ Receives(t, e, f, next)
    BY <1>4
  <2>2. DOMAIN q = {1, 2} /\ q[1] = e /\ q[2] = f /\ Len(q) >= 1 /\ q # << >>
    BY <2>1
  <2>3. /\ e.kind = "LineReceived" /\ f.kind = "BatchReceived" /\ f.id = NewId(t, 1)
        /\ StockAccepts(shop[t].stock, f) /\ f.data.qty \in Int
        /\ e.data.qty \in Int /\ e.id \in Orders(t) /\ OrderAccepts(shop[t].orders[e.id], e)
    BY <2>1 DEF Receives
  <2>4. MakesSense(f) /\ ~Rests(f) /\ Founding(f) /\ ~Founding(e)
    <3>1. Sensible(f)
      BY <2>3, AppliesSensible DEF StockKind
    <3> QED BY <2>3, <3>1 DEF MakesSense, Rests, Founding, PurchaseKind
  <2>5. /\ shop[t].orders[e.id].state = "open"
        /\ e.data.line \in DOMAIN shop[t].orders[e.id].lines /\ e.data.qty > 0
    BY <2>3 DEF OrderAccepts
  <2>6. MakesSense(e)
    BY <2>3, <2>5 DEF MakesSense, Proper, StockKind
  <2>7. PICK g \in Holding(t, base[t]) :
          /\ g.kind = "Placed" /\ g.id = e.id
          /\ DOMAIN shop[t].orders[e.id].lines = DOMAIN g.data.lines
    BY <1>1, <2>3, <2>5, ShownPlaced
  <2>8. InTime(g, e)
    BY <1>0, <2>2
  <2>9. RestsOn(e, g)
    BY <2>3, <2>5, <2>7, <2>8 DEF RestsOn, Placement, StockKind
  <2>10. i = 1 \/ i = 2
    BY <2>2
  <2> QED BY <2>2, <2>3, <2>4, <2>6, <2>9, <2>10
<1>5. CASE Imports(t, q, next)
  <2>1. \A j \in DOMAIN q : q[j].kind = "ProductAdded"
    BY <1>1, <1>5, LogAppend DEF Imports
  <2> QED BY <2>1 DEF Founding, MakesSense, Rests, StockKind, PurchaseKind
<1> QED BY <1>1, <1>2, <1>3, <1>4, <1>5 DEF Lawful

\* Places in the logs a command leaves are numbers.
LEMMA NewPlaces ==
  ASSUME Typed, NEW t \in Till, NEW q, NEW next, Command(t, q, next),
         NEW u \in Till, NEW i \in DOMAIN log'[u]
  PROVE  i \in Int
<1>1. Typed'
  BY CommandTyped
<1>2. IsLog(log'[u])
  BY <1>1 DEF Typed, IsLog
<1>3. DOMAIN log'[u] = 1 .. Len(log'[u]) /\ Len(log'[u]) \in Nat
  BY <1>2, LogAppend
<1> QED BY <1>3

\* A command begins one thing at most, under a number never used, ...
LEMMA CommandDistinct ==
  ASSUME Grown, OneTime, Born, Mirrored, Distinct,
         NEW t \in Till, NEW q, NEW next, Command(t, q, next)
  PROVE  Distinct'
<1>1. /\ Len(log[t]) \in Nat
      /\ DOMAIN log[t] = 1 .. Len(log[t])
      /\ DOMAIN q = 1 .. Len(q)
      /\ \A u \in Till : \A i \in DOMAIN log[u] : log'[u][i] = log[u][i]
      /\ \A u \in Till : \A i \in DOMAIN log'[u] :
            \/ i \in DOMAIN log[u]
            \/ u = t /\ i - Len(log[t]) \in DOMAIN q /\ log'[t][i] = q[i - Len(log[t])]
  BY CommandEntries DEF Grown
<1>2. \A u \in Till : \A i \in DOMAIN log'[u] : i \in Int
  BY NewPlaces DEF Grown
<1> SUFFICES ASSUME NEW u \in Till, NEW w \in Till,
                    NEW i \in DOMAIN log'[u], NEW j \in DOMAIN log'[w],
                    Founding(log'[u][i]), log'[w][j].kind = log'[u][i].kind,
                    log'[w][j].id = log'[u][i].id
             PROVE  u = w /\ i = j
  BY DEF Distinct, Founding
<1>3. Founding(log'[w][j])
  BY DEF Founding
<1>4. ASSUME NEW v \in Till, NEW k \in DOMAIN log[v], Founding(log[v][k])
      PROVE  ~Unborn(log[v][k].id, clock)
  BY <1>4 DEF Born, Founding, NewKind, PurchaseKind
<1>5. Unborn(NewId(t, 1), clock)
  BY NextUnborn DEF Grown
<1>6. CASE i \in DOMAIN log[u] /\ j \in DOMAIN log[w]
  BY <1>1, <1>6 DEF Distinct
<1>7. CASE i \in DOMAIN log[u] /\ j \notin DOMAIN log[w]
  <2>1. log'[w][j].id = NewId(t, 1)
    BY <1>1, <1>3, <1>7, CommandMoves
  <2>2. log'[u][i] = log[u][i]
    BY <1>1, <1>7
  <2>3. ~Unborn(log'[u][i].id, clock)
    BY <1>4, <1>7, <2>2
  <2> QED BY <1>5, <2>1, <2>3
<1>8. CASE i \notin DOMAIN log[u] /\ j \in DOMAIN log[w]
  <2>1. log'[u][i].id = NewId(t, 1)
    BY <1>1, <1>8, CommandMoves
  <2>2. log'[w][j] = log[w][j]
    BY <1>1, <1>8
  <2>3. ~Unborn(log'[w][j].id, clock)
    BY <1>3, <1>4, <1>8, <2>2
  <2> QED BY <1>5, <2>1, <2>3
<1>9. CASE i \notin DOMAIN log[u] /\ j \notin DOMAIN log[w]
  <2> DEFINE a == i - Len(log[t])
             b == j - Len(log[t])
  <2>1. /\ u = t /\ a \in DOMAIN q /\ log'[t][i] = q[a]
        /\ w = t /\ b \in DOMAIN q /\ log'[t][j] = q[b]
    BY <1>1, <1>9
  <2>2. Founding(q[a]) /\ Founding(q[b])
    BY <1>3, <2>1
  <2> HIDE DEF a, b
  <2>3. a = b
    BY <2>1, <2>2, CommandMoves
  <2> QED BY <1>1, <1>2, <2>1, <2>3 DEF a, b
<1> QED BY <1>6, <1>7, <1>8, <1>9

\* ... and rests only on what its till holds.
LEMMA CommandGrounded ==
  ASSUME Grown, OneTime, Mirrored, Grounded,
         NEW t \in Till, NEW q, NEW next, Command(t, q, next)
  PROVE  Grounded'
<1>1. /\ Len(log[t]) \in Nat /\ Len(q) \in Nat
      /\ DOMAIN log[t] = 1 .. Len(log[t])
      /\ DOMAIN q = 1 .. Len(q)
      /\ \A u \in Till : \A i \in DOMAIN log[u] : i \in DOMAIN log'[u] /\ log'[u][i] = log[u][i]
      /\ \A u \in Till : \A i \in DOMAIN log'[u] :
            \/ i \in DOMAIN log[u]
            \/ u = t /\ i - Len(log[t]) \in DOMAIN q /\ log'[t][i] = q[i - Len(log[t])]
  BY CommandEntries DEF Grown
<1>2. \A u \in Till : DOMAIN log[u] = 1 .. Len(log[u]) /\ Len(log[u]) \in Nat
  BY LogAppend DEF Grown, Typed
<1>3. base' = base
  BY DEF Command, Writes
<1>4. \A u \in Till : /\ Sibling(u) \in Till
                      /\ \A j \in 1 .. base[u] : log'[Sibling(u)][j] = log[Sibling(u)][j]
  <2> SUFFICES ASSUME NEW u \in Till
               PROVE  /\ Sibling(u) \in Till
                      /\ \A j \in 1 .. base[u] : log'[Sibling(u)][j] = log[Sibling(u)][j]
    OBVIOUS
  <2>1. Sibling(u) \in Till
    BY TillsKnown
  <2>2. base[u] \in 0 .. Len(log[Sibling(u)])
    BY KnownWithin DEF Grown
  <2>3. \A j \in 1 .. base[u] : j \in DOMAIN log[Sibling(u)]
    BY <1>2, <2>1, <2>2, SMTT(60)
  <2> QED BY <1>1, <2>1, <2>3
<1> SUFFICES ASSUME NEW u \in Till, NEW i \in DOMAIN log'[u]
             PROVE  /\ MakesSense(log'[u][i])
                    /\ Rests(log'[u][i]) =>
                         \/ \E j \in 1 .. i - 1 : RestsOn(log'[u][i], log'[u][j])
                         \/ \E j \in 1 .. base[u] : RestsOn(log'[u][i], log'[Sibling(u)][j])
  BY <1>3 DEF Grounded, Sibling, MakesSense, Sensible, Proper, Rests, RestsOn, Arrival,
              Placement, InTime, StockKind, PurchaseKind, CloseReason
<1>5. CASE i \in DOMAIN log[u]
  <2>1. \A j \in 1 .. i - 1 : log'[u][j] = log[u][j]
    <3>1. \A j \in 1 .. i - 1 : j \in DOMAIN log[u]
      BY <1>2, <1>5
    <3> QED BY <1>1, <3>1
  <2>2. log'[u][i] = log[u][i]
    BY <1>1, <1>5
  <2>3. /\ MakesSense(log[u][i])
        /\ Rests(log[u][i]) =>
             \/ \E j \in 1 .. i - 1 : RestsOn(log[u][i], log[u][j])
             \/ \E j \in 1 .. base[u] : RestsOn(log[u][i], log[Sibling(u)][j])
    BY <1>5, <2>2 DEF Grounded
  <2> QED BY <1>4, <2>1, <2>2, <2>3
<1>6. CASE i \notin DOMAIN log[u]
  <2> DEFINE a == i - Len(log[t])
             e == log'[u][i]
  <2>1. u = t /\ a \in DOMAIN q /\ e = q[a]
    BY <1>1, <1>6
  <2>2. Len(log[t]) + a = i /\ i \in Nat /\ Len(log[t]) <= i - 1
    <3>1. i \in Int
      BY NewPlaces DEF Grown
    <3> QED BY <1>1, <2>1, <3>1
  <2> HIDE DEF a
  <2>3. MakesSense(e) /\ (Rests(e) => \E f \in Holding(t, base[t]) : RestsOn(e, f))
    BY <2>1, CommandMoves
  <2>4. ASSUME NEW f \in Holding(t, base[t])
        PROVE  \/ \E j \in 1 .. i - 1 : f = log'[t][j]
               \/ \E j \in 1 .. base[t] : f = log'[Sibling(t)][j]
    <3>1. base[t] \in 0 .. Len(log[Sibling(t)])
      BY KnownWithin DEF Grown
    <3>2. Holding(t, base[t]) = {log[t][j] : j \in DOMAIN log[t]}
                                   \cup {log[Sibling(t)][j] : j \in 1 .. base[t]}
      BY <3>1, HoldingIs DEF Grown
    <3>3. CASE f \in {log[t][j] : j \in DOMAIN log[t]}
      <4>1. PICK j \in DOMAIN log[t] : f = log[t][j]
        BY <3>3
      <4>2. j \in 1 .. i - 1 /\ f = log'[t][j]
        BY <1>1, <2>2, <4>1
      <4> QED BY <4>2
    <3>4. CASE f \in {log[Sibling(t)][j] : j \in 1 .. base[t]}
      <4>1. PICK j \in 1 .. base[t] : f = log[Sibling(t)][j]
        BY <3>4
      <4> QED BY <1>4, <4>1
    <3> QED BY <3>2, <3>3, <3>4
  <2> HIDE DEF e
  <2>5. ASSUME Rests(e)
        PROVE  \/ \E j \in 1 .. i - 1 : RestsOn(e, log'[t][j])
               \/ \E j \in 1 .. base[t] : RestsOn(e, log'[Sibling(t)][j])
    <3>1. PICK f \in Holding(t, base[t]) : RestsOn(e, f)
      BY <2>3, <2>5
    <3> QED BY <2>4, <3>1
  <2> QED BY <2>1, <2>3, <2>5 DEF e
<1> QED BY <1>5, <1>6

\* Nothing but writing changes what is distinct.
LEMMA StillDistinct == ASSUME Distinct, UNCHANGED log PROVE Distinct'
BY DEF Distinct, Founding

\* Memory built from more of the other till's log leaves every event what it
\* rests on.
LEMMA StillGrounded ==
  ASSUME Typed, Grounded, UNCHANGED log, Typed', \A t \in Till : base[t] <= base'[t]
  PROVE  Grounded'
<1>1. \A t \in Till : \A j \in 1 .. base[t] : j \in 1 .. base'[t]
  <2>1. \A t \in Till : base[t] \in Nat /\ base'[t] \in Nat
    BY SMTT(60) DEF Typed
  <2> QED BY <2>1
<1> SUFFICES ASSUME NEW t \in Till, NEW i \in DOMAIN log[t]
             PROVE  /\ MakesSense(log[t][i])
                    /\ Rests(log[t][i]) =>
                         \/ \E j \in 1 .. i - 1 : RestsOn(log[t][i], log[t][j])
                         \/ \E j \in 1 .. base'[t] : RestsOn(log[t][i], log[Sibling(t)][j])
  BY DEF Grounded, Sibling, MakesSense, Sensible, Proper, Rests, RestsOn, Arrival,
         Placement, InTime, StockKind, PurchaseKind, CloseReason
<1> QED BY <1>1 DEF Grounded

\* Tills fresh from the box are open.
LEMMA InitOpens == Init => Distinct /\ Grounded /\ BootsAgain
<1> SUFFICES ASSUME Init PROVE Distinct /\ Grounded /\ BootsAgain
  OBVIOUS
<1>1. log = [t \in Till |-> << >>] /\ up = [t \in Till |-> TRUE]
  BY NoEvents DEF Init, StartFrom
<1>2. \A t \in Till : DOMAIN log[t] = {}
  BY <1>1, NoEvents
<1> QED BY <1>1, <1>2 DEF Distinct, Grounded, BootsAgain

\* Every step leaves every till open.
LEMMA StepOpens ==
  ASSUME Grown, OneTime, Born, Mirrored, Staffed, Distinct, Grounded, BootsAgain, [Next]_svars
  PROVE  Distinct' /\ Grounded' /\ BootsAgain'
<1>1. Typed /\ Typed'
  BY StepTyped DEF Grown
<1>2. ASSUME NEW t \in Till, NEW q, NEW next, Command(t, q, next)
      PROVE  Distinct' /\ Grounded' /\ BootsAgain'
  <2>1. up' = up
    BY <1>2 DEF Command, Writes
  <2> QED BY <1>2, <2>1, CommandDistinct, CommandGrounded DEF BootsAgain
<1>3. ASSUME NEW t \in Till, Learn(t) PROVE Distinct' /\ Grounded' /\ BootsAgain'
  <2>1. UNCHANGED <<log, up, base>>
    BY <1>3 DEF Learn
  <2>2. \A u \in Till : base[u] <= base'[u]
    BY <1>1, <2>1 DEF Typed
  <2> QED BY <1>1, <2>1, <2>2, StillDistinct, StillGrounded DEF BootsAgain
<1>4. ASSUME NEW t \in Till, Restart(t) PROVE Distinct' /\ Grounded' /\ BootsAgain'
  <2>1. UNCHANGED <<log, known>> /\ up' = [up EXCEPT ![t] = Opens(Holding(t, known[t]))]
    BY <1>4 DEF Restart
  <2>2. Opens(Holding(t, known[t]))
    BY HoldingOpens
  <2>3. \A u \in Till : up'[u]
    BY <1>1, <2>1, <2>2 DEF BootsAgain, Typed
  <2>4. \A u \in Till : base[u] <= base'[u]
    <3>1. base' = [base EXCEPT ![t] = known[t]]
      BY <1>4, <2>2 DEF Restart
    <3>2. \A u \in Till : base[u] <= known[u] /\ base[u] \in Nat /\ base \in [Till -> Nat]
      BY <1>1 DEF Typed
    <3> QED BY <3>1, <3>2
  <2> QED BY <1>1, <2>1, <2>3, <2>4, StillDistinct, StillGrounded DEF BootsAgain
<1>5. CASE Quiet
  <2>1. UNCHANGED <<log, base, up>>
    BY <1>5 DEF Quiet
  <2>2. \A u \in Till : base[u] <= base'[u]
    BY <1>1, <2>1 DEF Typed
  <2> QED BY <1>1, <2>1, <2>2, StillDistinct, StillGrounded DEF BootsAgain
<1> QED BY <1>1, <1>2, <1>3, <1>4, <1>5, StepKinds

\* The inductive invariant, when the clocks agree.
Sane ==
    /\ Grown /\ Born /\ Mirrored /\ Staffed /\ Authorised
    /\ Distinct /\ Grounded /\ BootsAgain
LEMMA StaysSane == ASSUME OneTime PROVE Spec => []Sane
<1>1. Init => Sane
  BY InitTyped, InitMirrors, InitStaffed, InitOpens DEF Sane
<1>2. Sane /\ [Next]_svars => Sane'
  BY StepTyped, StepMirrors, StepStaffed, StepOpens DEF Sane
<1> QED BY <1>1, <1>2, PTL DEF Spec

\* A stock or staff event that does not apply refuses the start, so every till
\* must find what both tills recorded in an order in which it applies.  It
\* does, however little or much it knows of its sibling's events and whenever
\* it is opened: a batch or a person is begun once, under a number of its own,
\* and a movement is recorded where its delivery is known, hence later by the
\* clock.  That last step is where the clocks must agree.
THEOREM ShopBootsAgain ==
  ASSUME OneTime
  PROVE  Spec => []BootsAgain
<1>1. Sane => BootsAgain
  BY DEF Sane
<1> QED BY <1>1, StaysSane, PTL

-----------------------------------------------------------------------------
(***************************************************************************)
(* Every unit on a shelf.                                                  *)
(***************************************************************************)

\* What a book says is on the shelf of a batch, nothing if it has none.
Standing(book, b) == IF b \in Batches(book) THEN book.levels[b].on_hand ELSE 0

\* A book that counts what it has of each batch.
Counts(book) ==
    /\ Shelved(book)
    /\ \A b \in Batches(book) : /\ "on_hand" \in DOMAIN book.levels[b]
                                /\ book.levels[b].on_hand \in Int

\* A batch's quantity moved.
LEMMA MovedStands ==
  ASSUME NEW book, Counts(book), NEW e, e.id \in Batches(book), NEW delta \in Int
  PROVE  LET set == Moved(book, e, delta)
         IN  /\ Counts(set) /\ set.variances = book.variances
             /\ Batches(set) = Batches(book)
             /\ \A b : Standing(set, b) = Standing(book, b) + (IF b = e.id THEN delta ELSE 0)
<1> DEFINE set == Moved(book, e, delta)
           levels == [book.levels EXCEPT ![e.id].on_hand = @ + delta]
<1>1. Shelved(set) /\ set.levels = levels /\ set.variances = book.variances
  BY DEF Counts, Shelved, Moved
<1>2. DOMAIN levels = Batches(book)
  BY DEF Batches
<1>3. Batches(set) = Batches(book)
  BY <1>1, <1>2 DEF Batches
<1>4. ASSUME NEW b \in Batches(book)
      PROVE  /\ "on_hand" \in DOMAIN levels[b]
             /\ levels[b].on_hand = book.levels[b].on_hand + (IF b = e.id THEN delta ELSE 0)
             /\ levels[b].on_hand \in Int
  <2>1. "on_hand" \in DOMAIN book.levels[b] /\ book.levels[b].on_hand \in Int
    BY DEF Counts
  <2>2. CASE b = e.id
    <3>1. levels[b] = [book.levels[b] EXCEPT !.on_hand = @ + delta]
      BY <2>2 DEF Batches
    <3> QED BY <2>1, <2>2, <3>1
  <2>3. CASE b # e.id
    <3>1. levels[b] = book.levels[b]
      BY <2>3 DEF Batches
    <3> QED BY <2>1, <2>3, <3>1
  <2> QED BY <2>2, <2>3
<1> HIDE DEF levels, set
<1>5. Counts(set)
  BY <1>1, <1>3, <1>4 DEF Counts
<1>6. ASSUME NEW b
      PROVE  Standing(set, b) = Standing(book, b) + (IF b = e.id THEN delta ELSE 0)
  <2>1. CASE b \in Batches(book)
    BY <1>1, <1>3, <1>4, <2>1 DEF Standing
  <2>2. CASE b \notin Batches(book)
    BY <1>3, <2>2 DEF Standing
  <2> QED BY <2>1, <2>2
<1> QED BY <1>1, <1>3, <1>5, <1>6 DEF set

\* What a movement that applies does to every batch: a delivery, an issue and
\* a return move their quantity; a count moves what it writes down as missing
\* or over, if anything.
LEMMA ApplyStands ==
  ASSUME NEW book, Counts(book), NEW e, e.kind \in StockKind, e.data.qty \in Int,
         StockAccepts(book, e)
  PROVE  LET next == StockApply(book, e)
         IN  /\ Counts(next)
             /\ Movement(e) \in Int
             /\ \E delta \in Int :
                   /\ IF delta = 0 THEN next.variances = book.variances
                      ELSE /\ e.kind = "BatchCounted"
                           /\ next.variances = Append(book.variances,
                                [batch |-> e.id, delta |-> delta, at |-> e.at])
                   /\ \A b : Standing(next, b) =
                        Standing(book, b) + (IF b = e.id THEN Movement(e) + delta ELSE 0)
<1> DEFINE next == StockApply(book, e)
           Comes(set, moved) ==
             /\ Counts(set) /\ set.variances = book.variances
             /\ \A b : Standing(set, b) = Standing(book, b) + (IF b = e.id THEN moved ELSE 0)
<1>1. Movement(e) \in Int
  BY DEF Movement, StockKind
<1>2. CASE e.kind = "BatchReceived"
  <2> DEFINE new == [product |-> e.data.product, on_hand |-> e.data.qty,
                     cost |-> e.data.cost, expires |-> e.data.expires, received |-> e.at]
             levels == [batch \in Batches(book) \cup {e.id} |->
                          IF batch = e.id THEN new ELSE book.levels[batch]]
  <2>1. e.id \notin Batches(book) /\ Movement(e) = e.data.qty
    BY <1>2 DEF StockAccepts, Movement
  <2>2. next = [book EXCEPT !.levels = levels]
    BY <1>2 DEF StockApply
  <2>3. DOMAIN levels = Batches(book) \cup {e.id}
    OBVIOUS
  <2>4. levels[e.id].on_hand = e.data.qty /\ "on_hand" \in DOMAIN levels[e.id]
    OBVIOUS
  <2>5. \A b \in Batches(book) : levels[b] = book.levels[b]
    BY <2>1
  <2> HIDE DEF levels, next
  <2>6. next.levels = levels /\ next.variances = book.variances /\ Shelved(next)
    BY <2>2 DEF Counts, Shelved
  <2>7. Batches(next) = Batches(book) \cup {e.id}
    BY <2>3, <2>6 DEF Batches
  <2>8. Counts(next)
    BY <2>4, <2>5, <2>6, <2>7 DEF Counts
  <2>9. ASSUME NEW b
        PROVE  Standing(next, b) = Standing(book, b) + (IF b = e.id THEN e.data.qty ELSE 0)
    <3>1. b \in Batches(book) => book.levels[b].on_hand \in Int
      BY DEF Counts
    <3> QED BY <2>1, <2>4, <2>5, <2>6, <2>7, <3>1 DEF Standing
  <2>10. Comes(next, Movement(e) + 0)
    BY <1>1, <2>1, <2>6, <2>8, <2>9
  <2> QED BY <1>1, <2>10 DEF next
<1>3. CASE e.kind = "StockIssued"
  <2>1. e.id \in Batches(book) /\ Movement(e) = -e.data.qty
    BY <1>3 DEF StockAccepts, Movement
  <2>2. next = Moved(book, e, -e.data.qty)
    BY <1>3 DEF StockApply
  <2> HIDE DEF next
  <2>3. Comes(next, Movement(e) + 0)
    BY <1>1, <2>1, <2>2, MovedStands
  <2> QED BY <1>1, <2>3 DEF next
<1>4. CASE e.kind = "StockReturned"
  <2>1. e.id \in Batches(book) /\ Movement(e) = e.data.qty
    BY <1>4 DEF StockAccepts, Movement
  <2>2. next = Moved(book, e, e.data.qty)
    BY <1>4 DEF StockApply
  <2> HIDE DEF next
  <2>3. Comes(next, Movement(e) + 0)
    BY <1>1, <2>1, <2>2, MovedStands
  <2> QED BY <1>1, <2>3 DEF next
<1>5. CASE e.kind = "BatchCounted"
  <2> DEFINE delta == e.data.qty - book.levels[e.id].on_hand
             set == Moved(book, e, delta)
             more == Append(set.variances, [batch |-> e.id, delta |-> delta, at |-> e.at])
  <2>1. e.id \in Batches(book) /\ Movement(e) = 0
    BY <1>5 DEF StockAccepts, Movement
  <2>2. next = IF delta = 0 THEN set ELSE [set EXCEPT !.variances = more]
    BY <1>5 DEF StockApply, Counted
  <2>3. delta \in Int
    BY <2>1 DEF Counts
  <2> HIDE DEF delta, next
  <2>4. Comes(set, delta)
    BY <2>1, <2>3, MovedStands
  <2> HIDE DEF set
  <2>5. CASE delta = 0
    <3>1. Comes(next, Movement(e) + 0)
      BY <2>1, <2>2, <2>4, <2>5
    <3> QED BY <1>1, <3>1 DEF next
  <2>6. CASE delta # 0
    <3>1. next.levels = set.levels /\ next.variances = more /\ Shelved(next)
      BY <2>2, <2>4, <2>6 DEF Counts, Shelved
    <3>2. Batches(next) = Batches(set)
      BY <3>1 DEF Batches
    <3>3. Counts(next) /\ \A b : Standing(next, b) = Standing(set, b)
      BY <2>4, <3>1, <3>2 DEF Counts, Standing
    <3>4. /\ next.variances = Append(book.variances,
               [batch |-> e.id, delta |-> delta, at |-> e.at])
          /\ \A b : Standing(next, b) =
                Standing(book, b) + (IF b = e.id THEN Movement(e) + delta ELSE 0)
      BY <2>1, <2>3, <2>4, <3>1, <3>3
    <3> QED BY <1>1, <1>5, <2>3, <2>6, <3>3, <3>4 DEF next
  <2> QED BY <2>5, <2>6
<1> QED BY <1>2, <1>3, <1>4, <1>5 DEF StockKind

\* The two sums of the property: what events moved of a batch, and what counts
\* said.
Ledger == INSTANCE Folding WITH Start <- 0, Advance <- Moves
Drift == INSTANCE Folding WITH Start <- 0, Advance <- Differs
Booked(b, q) == Ledger!From(Nought(b), q)
Missed(b, vs) == Drift!From(Nought(b), vs)

\* The sum a run has come to.
Sums(sum, b) == sum = [of |-> b, is |-> sum.is] /\ sum.is \in Int

\* A book all of whose batches are what events moved and counts corrected.
Explained(book, q) ==
    /\ Counts(book)
    /\ IsLog(book.variances)
    /\ \A b : /\ Sums(Booked(b, q), b) /\ Sums(Missed(b, book.variances), b)
              /\ Standing(book, b) = Booked(b, q).is + Missed(b, book.variances).is

\* One more movement that applies is one more entry of its batch.
LEMMA ApplyExplained ==
  ASSUME NEW E, NEW q \in Seq(E), NEW e \in E, NEW book, Explained(book, q),
         e.kind \in StockKind, e.data.qty \in Int, StockAccepts(book, e)
  PROVE  Explained(StockApply(book, e), Append(q, e))
<1> DEFINE next == StockApply(book, e)
<1>1. Counts(next) /\ Movement(e) \in Int
  BY ApplyStands DEF Explained
<1>2. PICK delta \in Int :
        /\ IF delta = 0 THEN next.variances = book.variances
           ELSE /\ e.kind = "BatchCounted"
                /\ next.variances = Append(book.variances,
                     [batch |-> e.id, delta |-> delta, at |-> e.at])
        /\ \A b : Standing(next, b) =
             Standing(book, b) + (IF b = e.id THEN Movement(e) + delta ELSE 0)
  BY ApplyStands DEF Explained
<1> HIDE DEF next
<1>3. IsLog(next.variances)
  <2>1. CASE delta = 0
    BY <1>2, <2>1 DEF Explained
  <2>2. CASE delta # 0
    <3> DEFINE v == [batch |-> e.id, delta |-> delta, at |-> e.at]
               V == Range(book.variances) \cup {v}
    <3>1. book.variances \in Seq(Range(book.variances))
      BY DEF Explained, IsLog
    <3>2. Range(book.variances) \subseteq V /\ v \in V
      OBVIOUS
    <3> HIDE DEF v, V
    <3>3. book.variances \in Seq(V)
      BY <3>1, <3>2, SeqMonotonic
    <3>4. next.variances = Append(book.variances, v)
      BY <1>2, <2>2 DEF v
    <3>5. next.variances \in Seq(V)
      BY <3>2, <3>3, <3>4, AppendProperties
    <3> QED BY <3>5, LogOfAny
  <2> QED BY <2>1, <2>2
<1>4. ASSUME NEW b
      PROVE  /\ Sums(Booked(b, Append(q, e)), b)
             /\ Booked(b, Append(q, e)).is =
                  Booked(b, q).is + (IF b = e.id THEN Movement(e) ELSE 0)
  <2> DEFINE old == Booked(b, q)
  <2>1. Booked(b, Append(q, e)) = Moves(old, e)
    BY Ledger!FromAppend DEF Booked
  <2>2. Sums(old, b)
    BY DEF Explained
  <2> HIDE DEF old
  <2>3. Sums(Moves(old, e), b) /\ Moves(old, e).is = old.is + (IF b = e.id THEN Movement(e) ELSE 0)
    <3>1. old.of = b /\ old.is \in Int
      BY <2>2 DEF Sums
    <3>2. CASE b = e.id
      BY <1>1, <2>2, <3>1, <3>2 DEF Moves, Sums
    <3>3. CASE b # e.id
      BY <2>2, <3>1, <3>3 DEF Moves
    <3> QED BY <3>2, <3>3
  <2> QED BY <2>1, <2>3 DEF old
<1>5. ASSUME NEW b
      PROVE  /\ Sums(Missed(b, next.variances), b)
             /\ Missed(b, next.variances).is =
                  Missed(b, book.variances).is + (IF b = e.id THEN delta ELSE 0)
  <2> DEFINE old == Missed(b, book.variances)
  <2>1. Sums(old, b)
    BY DEF Explained
  <2>2. CASE delta = 0
    <3>1. old.is \in Int
      BY <2>1 DEF Sums
    <3> QED BY <1>2, <2>1, <2>2, <3>1
  <2>3. CASE delta # 0
    <3> DEFINE v == [batch |-> e.id, delta |-> delta, at |-> e.at]
               V == Range(book.variances) \cup {v}
               vs == book.variances
    <3>1. book.variances \in Seq(Range(book.variances))
      BY DEF Explained, IsLog
    <3>2. Range(book.variances) \subseteq V /\ v \in V
      OBVIOUS
    <3>3. v.batch = e.id /\ v.delta = delta
      OBVIOUS
    <3>4. next.variances = Append(vs, v)
      BY <1>2, <2>3
    <3> HIDE DEF v, V
    <3>5. vs \in Seq(V)
      BY <3>1, <3>2, SeqMonotonic
    <3>6. Missed(b, Append(vs, v)) = Differs(old, v)
      <4> HIDE DEF vs
      <4>1. Drift!From(Nought(b), Append(vs, v)) = Differs(Drift!From(Nought(b), vs), v)
        BY <3>2, <3>5, Drift!FromAppend
      <4> QED BY <4>1 DEF Missed, vs
    <3> HIDE DEF old, vs
    <3>7. Sums(Differs(old, v), b) /\ Differs(old, v).is = old.is + (IF b = e.id THEN delta ELSE 0)
      <4>1. old.of = b /\ old.is \in Int
        BY <2>1 DEF Sums
      <4>2. CASE b = e.id
        BY <2>1, <3>3, <4>1, <4>2 DEF Differs, Sums
      <4>3. CASE b # e.id
        BY <2>1, <3>3, <4>1, <4>3 DEF Differs
      <4> QED BY <4>2, <4>3
    <3> QED BY <3>4, <3>6, <3>7 DEF old
  <2> QED BY <2>2, <2>3
<1>6. ASSUME NEW b
      PROVE  Standing(next, b) = Booked(b, Append(q, e)).is + Missed(b, next.variances).is
  <2>1. /\ Booked(b, q).is \in Int /\ Missed(b, book.variances).is \in Int
        /\ Standing(book, b) = Booked(b, q).is + Missed(b, book.variances).is
    BY DEF Explained, Sums
  <2> QED BY <1>1, <1>2, <1>4, <1>5, <2>1
<1> QED BY <1>1, <1>3, <1>4, <1>5, <1>6 DEF Explained, next

\* As long as every movement applies, every batch is explained.
LEMMA ReplayExplained ==
  ASSUME NEW E, \A e \in E : e.kind \in StockKind /\ e.data.qty \in Int, NEW s \in Seq(E),
         StockRun!Run(s).ok
  PROVE  Explained(StockRun!Run(s).is, s)
<1> DEFINE Fine(p, q) == p.ok => Explained(p.is, q)
           P == {q \in Seq(E) : Fine(StockRun!Run(q), q)}
<1>1. << >> \in P
  <2>1. StockRun!Run(<< >>) = [ok |-> TRUE, is |-> EmptyBook]
    BY StockRun!RunEmpty DEF Unbroken
  <2>2. Counts(EmptyBook) /\ Batches(EmptyBook) = {} /\ EmptyBook.variances = << >>
    BY NoEvents DEF EmptyBook, Counts, Shelved, Batches
  <2>3. \A b : Booked(b, << >>) = Nought(b) /\ Missed(b, << >>) = Nought(b)
    BY Ledger!FromEmpty, Drift!FromEmpty DEF Booked, Missed
  <2>4. \A b : Sums(Nought(b), b) /\ Nought(b).is = 0
    BY DEF Nought, Sums
  <2>5. \A b : Standing(EmptyBook, b) = 0
    BY <2>2 DEF Standing
  <2>6. Explained(EmptyBook, << >>)
    BY <2>2, <2>3, <2>4, <2>5, NoEvents DEF Explained
  <2>7. Fine(StockRun!Run(<< >>), << >>)
    BY <2>1, <2>6
  <2> QED BY <2>7
<1>2. ASSUME NEW q \in P, NEW e \in E PROVE Append(q, e) \in P
  <2> DEFINE p == StockRun!Run(q)
             r == StockRun!Run(Append(q, e))
  <2>1. q \in Seq(E) /\ Append(q, e) \in Seq(E) /\ Fine(p, q)
    OBVIOUS
  <2>2. r = StockStep(p, e)
    BY <2>1, StockRun!RunAppend
  <2> HIDE DEF p, r
  <2>3. Fine(r, Append(q, e))
    <3>1. SUFFICES ASSUME r.ok PROVE Explained(r.is, Append(q, e))
      OBVIOUS
    <3>2. p.ok /\ StockAccepts(p.is, e) /\ r.is = StockApply(p.is, e)
      BY <2>2, <3>1 DEF StockStep, Strictly
    <3> DEFINE book == p.is
    <3>3. Explained(book, q) /\ StockAccepts(book, e) /\ r.is = StockApply(book, e)
      BY <2>1, <3>2
    <3> HIDE DEF book
    <3>4. e.kind \in StockKind /\ e.data.qty \in Int
      OBVIOUS
    <3>5. Explained(StockApply(book, e), Append(q, e))
      BY <2>1, <3>3, <3>4, ApplyExplained
    <3> QED BY <3>3, <3>5
  <2> QED BY <2>1, <2>3 DEF r
<1>3. P \in SUBSET Seq(E)
  OBVIOUS
<1> HIDE DEF P
<1>4. s \in P
  BY <1>1, <1>2, <1>3, StockRun!SequenceInduction
<1> QED BY <1>4 DEF P

\* What open tills show of their shelves is explained.
LEMMA ShelvesExplained ==
  ASSUME Grown, Mirrored, Grounded
  PROVE  StockExplained
<1> SUFFICES ASSUME NEW t \in Till, up[t]
             PROVE  LET book == shop[t].stock
                        events == Chronicle(Holding(t, base[t]), StockKind)
                    IN \A b \in Batches(book) :
                          book.levels[b].on_hand = Through(Moves, Nought(b), events).is
                            + Through(Differs, Nought(b), book.variances).is
  BY DEF StockExplained
<1> DEFINE S == Holding(t, base[t])
           K == {e \in S : e.kind \in StockKind}
           s == InOrder(K)
<1>1. shop[t].stock = StockOf(S).is /\ StockOf(S).ok
  <2>1. shop[t] = Rebuilt(S) /\ Opens(S)
    BY DEF Mirrored
  <2> HIDE DEF S
  <2> QED BY <2>1 DEF Rebuilt, Opens
<1>2. Dated(S)
  BY KnownWithin, HoldingDated DEF Grown
<1>3. \A e \in K : e.kind \in StockKind /\ e.data.qty \in Int
  <2>1. base[t] \in 0 .. Len(log[Sibling(t)])
    BY KnownWithin DEF Grown
  <2>2. ASSUME NEW e \in S, e.kind \in StockKind PROVE e.data.qty \in Int
    <3>1. \E u \in Till : \E i \in DOMAIN log[u] : e = log[u][i]
      BY <2>1, HeldAt DEF Grown
    <3> HIDE DEF S
    <3> QED BY <2>2, <3>1 DEF Grounded, MakesSense, Sensible
  <2> HIDE DEF S
  <2> QED BY <2>2
<1> HIDE DEF S
<1>4. s \in Seq(K)
  <2>1. Dated(K)
    <3>1. IsFiniteSet(K) /\ K \subseteq S
      BY <1>2, FS_Subset DEF Dated
    <3> QED BY <1>2, <3>1 DEF Dated
  <2> HIDE DEF K
  <2> QED BY <2>1, InOrderSorts
<1>5. StockOf(S) = StockRun!Run(s) /\ Chronicle(S, StockKind) = s
  BY ReplaysAreRuns DEF StockOf, Chronicle
<1> HIDE DEF K, s
<1> DEFINE book == StockRun!Run(s).is
<1>6. Explained(book, s)
  BY <1>1, <1>3, <1>4, <1>5, ReplayExplained
<1>7. shop[t].stock = book
  BY <1>1, <1>5
<1> HIDE DEF book
<1>8. \A b : /\ Through(Moves, Nought(b), s) = Booked(b, s)
             /\ Through(Differs, Nought(b), book.variances) = Missed(b, book.variances)
  BY DEF Through, Booked, Missed, Ledger!From, Drift!From
<1>9. \A b \in Batches(book) :
        book.levels[b].on_hand = Booked(b, s).is + Missed(b, book.variances).is
  BY <1>6 DEF Explained, Standing
<1> QED BY <1>5, <1>7, <1>8, <1>9 DEF S

\* Every unit on a shelf is accounted for: received and returned, less issued,
\* plus what counts said was missing or over.  A count overwrites the shelf
\* with what was found, and only the variance it leaves tells what changed.
THEOREM ShopStockExplained ==
  ASSUME OneTime
  PROVE  Spec => []StockExplained
<1>1. Sane => StockExplained
  BY ShelvesExplained DEF Sane
<1> QED BY <1>1, StaysSane, PTL

-----------------------------------------------------------------------------
(***************************************************************************)
(* Every order, with all its deliveries.                                   *)
(***************************************************************************)

\* Lines that add up what they have received.
Adds(lines) ==
    \A n \in DOMAIN lines : "received" \in DOMAIN lines[n] /\ lines[n].received \in Int

\* An order as placed has received nothing.
LEMMA PlacedAdds ==
  ASSUME NEW e
  PROVE  Adds(Placed(e).lines) /\ \A n \in DOMAIN e.data.lines : Placed(e).lines[n].received = 0
BY DEF Placed, Adds

\* What an order takes it adds to its line, and to no other; a close leaves them.
LEMMA ApplyAdds ==
  ASSUME NEW o, Entered(o), Adds(o.lines), NEW e, OrderAccepts(o, e), Proper(e)
  PROVE  LET next == OrderApply(o, e)
         IN  /\ Adds(next.lines)
             /\ \A n \in DOMAIN o.lines : next.lines[n].received = o.lines[n].received
                  + (IF e.kind = "LineReceived" /\ e.data.line = n THEN e.data.qty ELSE 0)
<1>1. o.state = "open" /\ (e.kind = "LineReceived" \/ e.kind = "Closed")
  BY DEF OrderAccepts
<1>2. CASE e.kind = "Closed"
  <2>1. OrderApply(o, e) = [o EXCEPT !.state = e.data.reason]
    BY <1>2 DEF OrderApply
  <2>2. OrderApply(o, e).lines = o.lines
    BY <2>1 DEF Entered
  <2>3. \A n \in DOMAIN o.lines : o.lines[n].received \in Int
    BY DEF Adds
  <2> QED BY <1>2, <2>2, <2>3
<1>3. CASE e.kind = "LineReceived"
  <2> DEFINE x == e.data.line
             a == e.data.qty
             b == Value(e.data.cost, e.data.qty)
  <2>0. a \in Int
    BY <1>3 DEF Proper
  <2>1. OrderApply(o, e) = [o EXCEPT !.lines[x].received = @ + a,
                                     !.lines[x].received_value = @ + b]
    BY <1>3 DEF OrderApply
  <2> HIDE DEF b
  <2> DEFINE l1 == [o.lines EXCEPT ![x].received = @ + a]
             o1 == [o EXCEPT !.lines[x].received = @ + a]
             l2 == [o1.lines EXCEPT ![x].received_value = @ + b]
             o2 == [o1 EXCEPT !.lines[x].received_value = @ + b]
  <2>2. OrderApply(o, e) = o2
    BY <2>1 DEF Entered
  <2>3. o1 = [o EXCEPT !.lines = l1]
    OBVIOUS
  <2>4. o1.lines = l1 /\ o1 = [state |-> o.state, lines |-> l1]
    <3> HIDE DEF l1, o1
    <3> QED BY <2>3 DEF Entered
  <2>5. o2 = [o1 EXCEPT !.lines = l2]
    OBVIOUS
  <2>6. o2.lines = l2
    <3> HIDE DEF l1, l2, o1, o2
    <3> QED BY <2>4, <2>5
  <2>7. DOMAIN l1 = DOMAIN o.lines /\ DOMAIN l2 = DOMAIN l1
    <3>1. DOMAIN l1 = DOMAIN o.lines
      OBVIOUS
    <3> HIDE DEF l1, o1
    <3> QED BY <2>4, <3>1
  <2>8. ASSUME NEW n \in DOMAIN o.lines
        PROVE  /\ "received" \in DOMAIN l1[n] /\ l1[n].received \in Int
               /\ l1[n].received = o.lines[n].received + (IF n = x THEN a ELSE 0)
    <3>1. "received" \in DOMAIN o.lines[n] /\ o.lines[n].received \in Int
      BY DEF Adds
    <3> HIDE DEF x, a
    <3>2. CASE n = x
      <4>1. l1[n] = [o.lines[n] EXCEPT !.received = @ + a]
        BY <3>2
      <4> HIDE DEF l1
      <4> QED BY <2>0, <3>1, <3>2, <4>1
    <3>3. CASE n # x
      <4>1. l1[n] = o.lines[n]
        BY <3>3
      <4> HIDE DEF l1
      <4> QED BY <3>1, <3>3, <4>1
    <3> QED BY <3>2, <3>3
  <2> HIDE DEF l1, o1
  <2>9. ASSUME NEW n \in DOMAIN o.lines
        PROVE  l2[n].received = l1[n].received /\ DOMAIN l2[n] = DOMAIN l1[n]
    <3>1. l2[n] = IF n = x THEN [l1[n] EXCEPT !.received_value = @ + b] ELSE l1[n]
      BY <2>4, <2>7
    <3> HIDE DEF l2
    <3>2. DOMAIN l2[n] = DOMAIN l1[n]
      BY <3>1
    <3>3. "received" \in DOMAIN l1[n] /\ "received" # "received_value"
      BY <2>8
    <3>4. l2[n].received = l1[n].received
      BY <3>1, <3>3
    <3> QED BY <3>2, <3>4
  <2> HIDE DEF l2, o2
  <2>10. OrderApply(o, e).lines = l2
    BY <2>2, <2>6
  <2>11. Adds(l2)
    BY <2>7, <2>8, <2>9 DEF Adds
  <2> QED BY <1>3, <2>8, <2>9, <2>10, <2>11
<1> QED BY <1>1, <1>2, <1>3

\* What deliveries brought of a line.
Deliveries == INSTANCE Folding WITH Start <- 0, Advance <- Arrives
Brought(n, q) == Deliveries!From(Nought(n), q)

\* Each delivery is one more entry of its line.
LEMMA BroughtNext ==
  ASSUME NEW E, NEW q \in Seq(E), NEW e \in E, NEW n, Sums(Brought(n, q), n), Proper(e)
  PROVE  /\ Sums(Brought(n, Append(q, e)), n)
         /\ Brought(n, Append(q, e)).is = Brought(n, q).is
              + (IF e.kind = "LineReceived" /\ e.data.line = n THEN e.data.qty ELSE 0)
<1> DEFINE old == Brought(n, q)
<1>1. Brought(n, Append(q, e)) = Arrives(old, e)
  BY Deliveries!FromAppend DEF Brought
<1> HIDE DEF old
<1>2. old.of = n /\ old.is \in Int
  BY DEF Sums, old
<1>3. CASE e.kind = "LineReceived" /\ e.data.line = n
  <2>1. Arrives(old, e) = [old EXCEPT !.is = @ + e.data.qty] /\ e.data.qty \in Int
    BY <1>2, <1>3 DEF Arrives, Proper
  <2>2. Sums(Arrives(old, e), n) /\ Arrives(old, e).is = old.is + e.data.qty
    <3>1. old = [of |-> n, is |-> old.is]
      BY DEF Sums, old
    <3> QED BY <1>2, <2>1, <3>1 DEF Sums
  <2> QED BY <1>1, <1>3, <2>2 DEF old
<1>4. CASE ~(e.kind = "LineReceived" /\ e.data.line = n)
  <2>1. Arrives(old, e) = old
    BY <1>2, <1>4, SMTT(60) DEF Arrives
  <2> QED BY <1>1, <1>2, <1>4, <2>1 DEF old
<1> QED BY <1>3, <1>4

\* A stream that begins with its placement and has nothing after a close
\* replays, with each line's deliveries added up.
LEMMA ReplayOrder ==
  ASSUME NEW E, NEW s \in Seq(E), Len(s) >= 1,
         s[1].kind = "Placed", \A i \in 1 .. Len(s) : Proper(s[i]),
         \A i \in 2 .. Len(s) : /\ s[i].kind \in {"LineReceived", "Closed"}
                                /\ s[i].kind = "LineReceived" =>
                                     s[i].data.line \in DOMAIN s[1].data.lines,
         \A i \in 1 .. Len(s) : s[i].kind = "Closed" => i = Len(s)
  PROVE  LET o == OrderRun!Run(s)
         IN  /\ o # Broken
             /\ \A n \in DOMAIN s[1].data.lines : o.lines[n].received = Brought(n, s).is
<1> DEFINE R(n) == OrderRun!Run(SubSeq(s, 1, n))
           Open(n) == R(n).state = "open" \/ (R(n).state \in CloseReason /\ n = Len(s))
           Good(n) ==
             /\ Entered(R(n)) /\ Open(n) /\ Adds(R(n).lines)
             /\ DOMAIN R(n).lines = DOMAIN s[1].data.lines
             /\ \A x \in DOMAIN s[1].data.lines :
                  /\ Sums(Brought(x, SubSeq(s, 1, n)), x)
                  /\ R(n).lines[x].received = Brought(x, SubSeq(s, 1, n)).is
           P == {n \in Nat : 1 <= n /\ n <= Len(s) => Good(n)}
<1>1. /\ Len(s) \in Nat /\ \A i \in 1 .. Len(s) : s[i] \in E
      /\ SubSeq(s, 1, Len(s)) = s /\ SubSeq(s, 1, 0) = << >>
  BY LogOfAny
<1>2. 0 \in P
  OBVIOUS
<1> HIDE DEF Good
<1>3. ASSUME NEW n \in Nat, 1 <= n /\ n <= Len(s) => Good(n), n + 1 <= Len(s) PROVE Good(n + 1)
  <2> DEFINE q == SubSeq(s, 1, n)
             e == s[n + 1]
  <2>1. n + 1 \in 1 .. Len(s)
    BY ONLY <1>1, n \in Nat, n + 1 <= Len(s), SMTT(60)
  <2>2. e \in E
    BY <1>1, <2>1
  <2>3. q \in Seq(E) /\ SubSeq(s, 1, n + 1) = Append(q, e)
    BY <1>3, PrefixNext
  <2>4. R(n + 1) = OrderStep(R(n), e)
    <3> HIDE DEF q, e
    <3>1. OrderRun!Run(Append(q, e)) = OrderStep(OrderRun!Run(q), e)
      BY <2>2, <2>3, OrderRun!RunAppend
    <3> QED BY <2>3, <3>1 DEF q
  <2>5. Proper(e)
    BY <2>1
  <2>6. CASE n = 0
    <3>1. e = s[1] /\ q = << >>
      <4>1. n + 1 = 1
        BY <2>6
      <4>2. e = s[1]
        BY <4>1
      <4> QED BY <1>1, <2>6, <4>2
    <3>2. R(n) = Unplaced
      BY <3>1, OrderRun!RunEmpty
    <3>3. R(n + 1) = Placed(e)
      BY <2>4, <2>5, <3>1, <3>2 DEF OrderStep, Proper
    <3>4. \A x : Brought(x, q) = Nought(x)
      BY <3>1, Deliveries!FromEmpty DEF Brought
    <3>5. \A x : Sums(Nought(x), x) /\ Nought(x).is = 0
      BY DEF Nought, Sums
    <3>6. e.kind # "LineReceived"
      BY <3>1
    <3> DEFINE o == Placed(e)
    <3>7. Entered(o) /\ o.state = "open" /\ Adds(o.lines) /\ DOMAIN o.lines = DOMAIN e.data.lines
      BY PlacedEntered, PlacedAdds
    <3>8. \A x \in DOMAIN e.data.lines : o.lines[x].received = 0
      BY PlacedAdds
    <3> HIDE DEF o, q, e, R
    <3>9. \A x : Sums(Brought(x, Append(q, e)), x) /\ Brought(x, Append(q, e)).is = 0
      <4> SUFFICES ASSUME NEW x
                   PROVE  Sums(Brought(x, Append(q, e)), x) /\ Brought(x, Append(q, e)).is = 0
        OBVIOUS
      <4>1. Sums(Brought(x, q), x) /\ Brought(x, q).is = 0
        BY <3>4, <3>5
      <4>2. /\ Sums(Brought(x, Append(q, e)), x)
            /\ Brought(x, Append(q, e)).is = Brought(x, q).is
                 + (IF e.kind = "LineReceived" /\ e.data.line = x THEN e.data.qty ELSE 0)
        BY <2>2, <2>3, <2>5, <4>1, BroughtNext
      <4> QED BY <3>6, <4>1, <4>2
    <3>10. R(n + 1) = o
      BY <3>3 DEF o
    <3> QED BY <2>3, <3>1, <3>7, <3>8, <3>9, <3>10 DEF Good
  <2>7. CASE n # 0
    <3>1. Good(n)
      <4>1. 1 <= n /\ n <= Len(s)
        BY ONLY <1>1, n \in Nat, n + 1 <= Len(s), <2>7
      <4> QED BY <1>3, <4>1
    <3>2. /\ n + 1 \in 2 .. Len(s) /\ n # Len(s)
          /\ e.kind = "Closed" => n + 1 = Len(s)
      <4>1. n + 1 \in 2 .. Len(s) /\ n # Len(s)
        <5>1. Len(s) \in Nat
          BY <1>1
        <5> QED BY ONLY <5>1, n \in Nat, n + 1 <= Len(s), <2>7, SMTT(60)
      <4> QED BY <2>1, <4>1
    <3>3. /\ e.kind \in {"LineReceived", "Closed"}
          /\ e.kind = "LineReceived" => e.data.line \in DOMAIN s[1].data.lines
      BY <3>2
    <3> DEFINE o == R(n)
               next == OrderApply(o, e)
    <3>4. /\ Entered(o) /\ o.state = "open" /\ Adds(o.lines)
          /\ DOMAIN o.lines = DOMAIN s[1].data.lines
          /\ \A x \in DOMAIN s[1].data.lines :
               Sums(Brought(x, q), x) /\ o.lines[x].received = Brought(x, q).is
      BY <3>1, <3>2 DEF Good
    <3> HIDE DEF R, o, q, e
    <3>5. OrderAccepts(o, e)
      BY <2>5, <3>3, <3>4 DEF OrderAccepts, Proper
    <3>6. R(n + 1) = next
      <4>1. o # Unplaced
        BY <3>4, OrderStates
      <4> QED BY <2>4, <3>5, <4>1 DEF OrderStep, o
    <3>7. /\ Entered(next) /\ DOMAIN next.lines = DOMAIN o.lines
          /\ next.state = IF e.kind = "Closed" THEN e.data.reason ELSE "open"
      BY <3>4, <3>5, ApplyEntered
    <3>8. /\ Adds(next.lines)
          /\ \A x \in DOMAIN o.lines : next.lines[x].received = o.lines[x].received
               + (IF e.kind = "LineReceived" /\ e.data.line = x THEN e.data.qty ELSE 0)
      BY <2>5, <3>4, <3>5, ApplyAdds
    <3> HIDE DEF next
    <3>9. next.state = "open" \/ (next.state \in CloseReason /\ n + 1 = Len(s))
      BY <2>5, <3>2, <3>7 DEF Proper
    <3>10. ASSUME NEW x \in DOMAIN s[1].data.lines
           PROVE  /\ Sums(Brought(x, Append(q, e)), x)
                  /\ next.lines[x].received = Brought(x, Append(q, e)).is
      <4>1. Sums(Brought(x, q), x) /\ o.lines[x].received = Brought(x, q).is
        BY <3>4
      <4>2. /\ Sums(Brought(x, Append(q, e)), x)
            /\ Brought(x, Append(q, e)).is = Brought(x, q).is
                 + (IF e.kind = "LineReceived" /\ e.data.line = x THEN e.data.qty ELSE 0)
        BY <2>2, <2>3, <2>5, <4>1, BroughtNext
      <4> QED BY <3>4, <3>8, <4>1, <4>2
    <3> QED BY <2>3, <3>4, <3>6, <3>7, <3>8, <3>9, <3>10 DEF Good
  <2> QED BY <2>6, <2>7
<1>4. P \in SUBSET Nat /\ \A n \in P : n + 1 \in P
  <2>1. ASSUME NEW n \in P PROVE n + 1 \in P
    <3>1. n \in Nat /\ (1 <= n /\ n <= Len(s) => Good(n))
      BY ZenonT(60)
    <3>2. n + 1 \in Nat
      BY ONLY n \in Nat, <3>1
    <3>3. n + 1 <= Len(s) => Good(n + 1)
      BY <1>3, <3>1, ZenonT(60)
    <3> QED BY <3>2, <3>3, ZenonT(60)
  <2> QED BY <2>1
<1> HIDE DEF P
<1>5. Len(s) \in P
  BY <1>1, <1>2, <1>4, OrderRun!Induction
<1>6. Good(Len(s))
  <2>1. \A n \in P : 1 <= n /\ n <= Len(s) => Good(n)
    BY DEF P
  <2>2. 1 <= Len(s) /\ Len(s) <= Len(s)
    BY ONLY <1>1, Len(s) >= 1, SMTT(60)
  <2> QED BY <1>5, <2>1, <2>2, ZenonT(60)
<1>7. R(Len(s)) = OrderRun!Run(s)
  BY <1>1
<1> HIDE DEF R
<1>8. R(Len(s)) # Broken
  BY <1>6, OrderStates DEF Good
<1> QED BY <1>1, <1>6, <1>7, <1>8 DEF Good

\* In what is grounded, an order nothing was recorded of after its close is
\* there, with all its deliveries.
LEMMA OrderStands ==
  ASSUME NEW S, Dated(S),
         \A e, f \in S : (Founding(e) /\ f.kind = e.kind /\ f.id = e.id) => f = e,
         \A e \in S : MakesSense(e) /\ (Rests(e) => \E f \in S : RestsOn(e, f)),
         NEW placed \in S, placed.kind = "Placed",
         \A c, e \in {x \in Purchases(S) : x.id = placed.id} : c.kind = "Closed" => ~InTime(c, e)
  PROVE  /\ placed.id \in OrderIds(S) /\ OrderOf(S, placed.id) # Broken
         /\ \A n \in DOMAIN placed.data.lines :
              OrderOf(S, placed.id).lines[n].received =
                Brought(n, InOrder({x \in Purchases(S) : x.id = placed.id})).is
<1> DEFINE K == {x \in Purchases(S) : x.id = placed.id}
           s == InOrder(K)
<1>1. /\ K \subseteq S /\ placed \in K
      /\ \A e \in K : e.id = placed.id /\ e.kind \in PurchaseKind
      /\ \A e \in S : e.kind \in PurchaseKind /\ e.id = placed.id => e \in K
  BY DEF Purchases, PurchaseKind
<1>2. placed.id \in OrderIds(S)
  BY DEF OrderIds, Purchases, PurchaseKind
<1>3. OrderOf(S, placed.id) = OrderRun!Run(s)
  BY ReplaysAreRuns DEF OrderOf
<1>4. \A c, e \in K : c.kind = "Closed" => ~InTime(c, e)
  OBVIOUS
<1> HIDE DEF K, s
<1>5. /\ s \in Seq(K) /\ Len(s) \in Nat
      /\ \A e \in K : \E i \in 1 .. Len(s) : s[i] = e
      /\ \A i \in 1 .. Len(s) : s[i] \in K
      /\ \A i, j \in 1 .. Len(s) : InTime(s[j], s[i]) <=> j < i
  <2>1. K \subseteq S /\ Dated(S)
    BY <1>1
  <2> QED BY ONLY <2>1, ListedInOrder DEF s
<1>6. ASSUME NEW e \in K, e # placed
      PROVE  /\ e.kind \in {"LineReceived", "Closed"} /\ InTime(placed, e)
             /\ e.kind = "LineReceived" => e.data.line \in DOMAIN placed.data.lines
  <2>1. e.kind # "Placed"
    BY <1>1, <1>6 DEF Founding
  <2>2. e \in S /\ e.kind \in PurchaseKind
    BY <1>1
  <2>3. Rests(e)
    BY <2>1, <2>2 DEF Rests, PurchaseKind
  <2>4. PICK f \in S : RestsOn(e, f)
    BY <2>2, <2>3
  <2>5. Placement(e, f) /\ InTime(f, e)
    BY <2>2, <2>4 DEF RestsOn
  <2>6. f = placed
    <3>1. f.kind = placed.kind /\ f.id = placed.id /\ Founding(placed)
      BY <1>1, <2>5 DEF Placement, Founding
    <3> QED BY <3>1
  <2> QED BY <2>1, <2>2, <2>5, <2>6 DEF Placement, PurchaseKind
<1>7. PICK p \in 1 .. Len(s) : s[p] = placed
  BY <1>1, <1>5
<1>8. p = 1
  <2>1. SUFFICES ASSUME p # 1 PROVE FALSE
    OBVIOUS
  <2>2. 1 \in 1 .. Len(s) /\ 1 < p
    BY <1>5, <2>1
  <2>3. InTime(s[1], s[p]) /\ ~InTime(s[p], s[1])
    BY <1>5, <2>2
  <2>4. s[1] \in K
    BY <1>5, <2>2
  <2>5. s[1] = placed
    BY <1>6, <1>7, <2>3, <2>4
  <2>6. ~InTime(s[1], s[1])
    BY <1>5, <2>2
  <2> QED BY <1>7, <2>3, <2>5, <2>6
<1>9. Len(s) >= 1 /\ s[1] = placed /\ 1 \in 1 .. Len(s)
  BY <1>5, <1>7, <1>8
<1>10. ASSUME NEW i \in 2 .. Len(s)
       PROVE  s[i] \in K /\ s[i] # placed
  <2>1. i \in 1 .. Len(s) /\ 1 < i
    BY <1>5
  <2>2. InTime(s[1], s[i]) /\ ~InTime(s[1], s[1])
    BY <1>5, <1>9, <2>1, SMTT(60)
  <2> QED BY <1>5, <1>9, <2>1, <2>2
<1>11. \A i \in 1 .. Len(s) : Proper(s[i])
  BY <1>1, <1>5 DEF MakesSense
<1>12. ASSUME NEW i \in 1 .. Len(s), s[i].kind = "Closed" PROVE i = Len(s)
  <2>1. Len(s) \in 1 .. Len(s)
    BY <1>5, <1>9
  <2>2. ~InTime(s[i], s[Len(s)])
    BY <1>4, <1>5, <1>12, <2>1
  <2>3. ~(i < Len(s))
    BY <1>5, <2>1, <2>2
  <2> QED BY <1>5, <2>3
<1>13. \A i \in 2 .. Len(s) : /\ s[i].kind \in {"LineReceived", "Closed"}
                              /\ s[i].kind = "LineReceived" =>
                                   s[i].data.line \in DOMAIN s[1].data.lines
  BY <1>6, <1>9, <1>10
<1>14. /\ OrderRun!Run(s) # Broken
       /\ \A n \in DOMAIN s[1].data.lines : OrderRun!Run(s).lines[n].received = Brought(n, s).is
  BY <1>5, <1>9, <1>11, <1>12, <1>13, ReplayOrder
<1> QED BY <1>2, <1>3, <1>9, <1>14 DEF s, K

\* What open tills show of their orders stands.
LEMMA OrdersStand ==
  ASSUME Grown, Mirrored, Distinct, Grounded
  PROVE  OrdersKept
<1> SUFFICES ASSUME NEW t \in Till, up[t]
             PROVE  LET held == Holding(t, base[t])
                        of(id) == {e \in held : e.kind \in PurchaseKind /\ e.id = id}
                    IN \A placed \in {e \in held : e.kind = "Placed"} :
                          (\A c, e \in of(placed.id) : c.kind = "Closed" => ~InTime(c, e)) =>
                              /\ placed.id \in Orders(t)
                              /\ \A n \in DOMAIN placed.data.lines :
                                    shop[t].orders[placed.id].lines[n].received =
                                      Through(Arrives, Nought(n), InOrder(of(placed.id))).is
  BY DEF OrdersKept
<1> DEFINE S == Holding(t, base[t])
           of(id) == {e \in S : e.kind \in PurchaseKind /\ e.id = id}
<1>1. shop[t].orders = OrdersOf(S)
  <2>1. shop[t] = Rebuilt(S)
    BY DEF Mirrored
  <2> HIDE DEF S
  <2> QED BY <2>1 DEF Rebuilt
<1>2. /\ Dated(S)
      /\ \A e, f \in S : (Founding(e) /\ f.kind = e.kind /\ f.id = e.id) => f = e
      /\ \A e \in S : MakesSense(e) /\ (Rests(e) => \E f \in S : RestsOn(e, f))
  <2>1. base[t] \in 0 .. Len(log[Sibling(t)]) /\ base[t] <= base[t]
    <3>1. base[t] \in 0 .. Len(log[Sibling(t)]) /\ base[t] \in Nat
      BY KnownWithin DEF Grown, Typed
    <3> QED BY <3>1
  <2> QED BY <2>1, HoldingGrounded
<1> HIDE DEF S
<1>3. ASSUME NEW placed \in S, placed.kind = "Placed",
             \A c, e \in of(placed.id) : c.kind = "Closed" => ~InTime(c, e)
      PROVE  /\ placed.id \in Orders(t)
             /\ \A n \in DOMAIN placed.data.lines :
                  shop[t].orders[placed.id].lines[n].received =
                    Through(Arrives, Nought(n), InOrder(of(placed.id))).is
  <2> DEFINE id == placed.id
  <2>1. of(id) = {x \in Purchases(S) : x.id = id}
    BY DEF Purchases
  <2>2. \A c, e \in {x \in Purchases(S) : x.id = id} : c.kind = "Closed" => ~InTime(c, e)
    BY <1>3, <2>1
  <2> HIDE DEF of
  <2>3. /\ id \in OrderIds(S) /\ OrderOf(S, id) # Broken
        /\ \A n \in DOMAIN placed.data.lines :
             OrderOf(S, id).lines[n].received = Brought(n, InOrder(of(id))).is
    BY <1>2, <1>3, <2>1, <2>2, OrderStands
  <2>4. id \in Orders(t) /\ shop[t].orders[id] = OrderOf(S, id)
    BY <1>1, <2>3 DEF Orders, OrdersOf
  <2>5. \A n, q : Through(Arrives, Nought(n), q) = Brought(n, q)
    BY DEF Through, Brought, Deliveries!From
  <2> QED BY <2>3, <2>4, <2>5
<1> QED BY <1>3 DEF S

\* Two tills working on one order do not lose it, nor what either booked in:
\* unless something was recorded of it after its close, it is there with all of
\* its deliveries, whichever till they were recorded at.
THEOREM ShopOrdersKept ==
  ASSUME OneTime
  PROVE  Spec => []OrdersKept
<1>1. Sane => OrdersKept
  BY OrdersStand DEF Sane
<1> QED BY <1>1, StaysSane, PTL
=============================================================================
