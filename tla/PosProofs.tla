------------------------------ MODULE PosProofs ------------------------------
(***************************************************************************)
(* The point of sale keeps its promises for any number of orders, lines,   *)
(* tickets, tables, checkouts and payments.                                *)
(*                                                                         *)
(* Nothing is inductive alone.  That a bill is covered rests on the order  *)
(* standing still while a checkout is open, which rests on each order      *)
(* having one charging checkout at most; that what the kitchen got and     *)
(* what was paid add up rests on the sums of SumTheorems.                  *)
(***************************************************************************)
EXTENDS PosSystem, SumTheorems

-----------------------------------------------------------------------------
(* The inductive invariant *)

\* An order nobody created has no contents and sits at no table.
NewOrdersAreEmpty ==
  \A o \in Orders : order[o].status = "NONE" =>
    /\ order[o] = NoOrder /\ attached[o] = Nowhere
    /\ \A l \in LinesOf(o) : quantity[l] = 0

\* The total of an order is what its lines and discounts come to.
TotalsFollowLines ==
  \A o \in Orders :
    /\ order[o].total = Subtotal(o) - DiscountOf(order[o].discounts)
    /\ DiscountOf(order[o].discounts) <= Subtotal(o)

\* A display that shows the current version shows the current total.
DisplaysFollowOrders ==
  \A o \in Orders :
    /\ shown[o].version <= order[o].version
    /\ shown[o].version = order[o].version => shown[o].total = order[o].total

\* Every payment is of a checkout, for something, and never refunded beyond that.
PaymentsAreOfCheckouts ==
  \A p \in Payments : payment[p].status # "NONE" =>
    /\ payment[p].checkout \in Checkouts
    /\ checkout[payment[p].checkout].status # "NONE"
    /\ payment[p].amount > 0

RefundsStayBelow == \A p \in Payments : payment[p].refunded <= payment[p].amount

Charging(c) == checkout[c].status \in {"OPEN", "COMPLETED"}

\* What the payments of a checkout were captured for, refunded or not.
Taken(c) ==
  Amount({p \in PaymentsOf(c) :
            payment[p].status \in {"CAPTURED", "PARTIALLY_REFUNDED", "REFUNDED"}})

\* A checkout that is open or completed asks for the total of an order that stands still.
CheckoutsFollowOrders ==
  \A c \in Checkouts :
    /\ checkout[c].status # "NONE" => checkout[c].order \in Orders
    /\ Charging(c) => checkout[c].total = order[checkout[c].order].total
    /\ checkout[c].status = "OPEN" =>
         order[checkout[c].order].status = "AWAITING_PAYMENT" /\ Captured(c) < checkout[c].total
    /\ checkout[c].status = "COMPLETED" =>
         order[checkout[c].order].status = "PAID" /\ Taken(c) >= checkout[c].total
    /\ Captured(c) + Pending(c) <= checkout[c].total

OneChargingCheckout ==
  \A c, d \in Checkouts :
    Charging(c) /\ Charging(d) /\ checkout[c].order = checkout[d].order => c = d

OrdersFollowCheckouts ==
  \A o \in Orders :
    /\ order[o].status = "AWAITING_PAYMENT" =>
         \E c \in Checkouts : checkout[c].order = o /\ checkout[c].status = "OPEN"
    /\ order[o].status = "PAID" =>
         \E c \in Checkouts : checkout[c].order = o /\ checkout[c].status = "COMPLETED"

OrdersInv == NewOrdersAreEmpty /\ TotalsFollowLines /\ DisplaysFollowOrders
MoneyInv ==
  /\ PaymentsAreOfCheckouts /\ RefundsStayBelow /\ NoPaymentLeftPending
  /\ CheckoutsFollowOrders /\ OneChargingCheckout /\ OrdersFollowCheckouts

-----------------------------------------------------------------------------
(* What the operators of the model return *)

LEMMA SubtotalType ==
  ASSUME NEW o \in Orders, NEW q \in [Lines -> Nat]
  PROVE  SubtotalOf(o, q) \in Nat
<1> DEFINE cost == [l \in LinesOf(o) |-> Price[l] * q[l]]
<1>1. IsFiniteSet(LinesOf(o))
  BY FiniteTables, FS_Subset DEF LinesOf
<1>2. ASSUME NEW l \in LinesOf(o) PROVE cost[l] \in Nat
  <2>1. Price[l] \in Nat /\ q[l] \in Nat /\ cost[l] = Price[l] * q[l]
    BY PosAssumption DEF LinesOf
  <2> HIDE DEF cost
  <2> QED
    BY <2>1
<1>3. SumFunction(cost) = SumFunctionOnSet(cost, LinesOf(o))
  BY DEF SumFunction
<1> HIDE DEF cost
<1>4. SumFunction(cost) \in Nat
  BY <1>1, <1>2, <1>3, SumIsNat
<1> QED
  BY <1>4 DEF cost, SubtotalOf

LEMMA DiscountType ==
  ASSUME NEW D \in SUBSET Discounts
  PROVE  DiscountOf(D) \in Nat
<1> DEFINE value == [d \in D |-> d]
<1>1. IsFiniteSet(D)
  BY FiniteTables, FS_Subset
<1>2. \A d \in D : value[d] \in Nat
  BY PosAssumption
<1>3. SumFunction(value) = SumFunctionOnSet(value, D)
  BY DEF SumFunction
<1> HIDE DEF value
<1>4. SumFunction(value) \in Nat
  BY <1>1, <1>2, <1>3, SumIsNat
<1> QED
  BY <1>4 DEF value, DiscountOf

\* No discount, and lines of nothing.
LEMMA NothingCostsNothing ==
  /\ DiscountOf({}) = 0
  /\ \A o \in Orders : \A q : (\A l \in LinesOf(o) : q[l] = 0) => SubtotalOf(o, q) = 0
<1>1. DiscountOf({}) = 0
  <2>1. DOMAIN [d \in {} |-> d] = {}
    OBVIOUS
  <2> QED
    BY <2>1, SumOfNone DEF DiscountOf, SumFunction
<1>2. ASSUME NEW o \in Orders, NEW q, \A l \in LinesOf(o) : q[l] = 0
      PROVE  SubtotalOf(o, q) = 0
  <2> DEFINE cost == [l \in LinesOf(o) |-> Price[l] * q[l]]
  <2>1. IsFiniteSet(LinesOf(o))
    BY FiniteTables, FS_Subset DEF LinesOf
  <2>2. ASSUME NEW l \in LinesOf(o) PROVE cost[l] = 0
    <3>1. Price[l] \in Nat /\ q[l] = 0
      BY <1>2, PosAssumption DEF LinesOf
    <3> QED
      BY <3>1
  <2>3. SumFunction(cost) = SumFunctionOnSet(cost, LinesOf(o))
    BY DEF SumFunction
  <2> HIDE DEF cost
  <2>4. SumFunction(cost) = 0
    BY <2>1, <2>2, <2>3, SumOfZeros
  <2> QED
    BY <2>4 DEF cost, SubtotalOf
<1> QED
  BY <1>1, <1>2

\* The subtotal of an order looks at its own lines only.
LEMMA SubtotalOfOwnLines ==
  ASSUME NEW o \in Orders, NEW q, NEW r, \A l \in LinesOf(o) : q[l] = r[l]
  PROVE  SubtotalOf(o, q) = SubtotalOf(o, r)
<1>1. [l \in LinesOf(o) |-> Price[l] * q[l]] = [l \in LinesOf(o) |-> Price[l] * r[l]]
  OBVIOUS
<1> QED
  BY <1>1 DEF SubtotalOf

-----------------------------------------------------------------------------
(* What a step does to the orders *)

Quantities == [Lines -> 0..MaxQuantity]

\* The row of an order that moves to another status, and of one recalculated.
Moved(o, to) ==
  [status |-> to, version |-> order[o].version + 1, mode |-> order[o].mode,
   total |-> order[o].total, discounts |-> order[o].discounts]

Recomposed(o, q, D) ==
  [status |-> order[o].status, version |-> order[o].version + 1, mode |-> order[o].mode,
   total |-> SubtotalOf(o, q) - DiscountOf(D), discounts |-> D]

\* The lines or the discounts of an open order change.
Composes(o) ==
  /\ Mutable(o)
  /\ \E q \in Quantities, D \in SUBSET Discounts :
       /\ \A l \in Lines \ LinesOf(o) : q[l] = quantity[l]
       /\ Recalculate(o, q, D)

LEMMA OrderType ==
  ASSUME TypeOK, NEW o \in Orders
  PROVE  /\ order[o] = [status |-> order[o].status, version |-> order[o].version,
                        mode |-> order[o].mode, total |-> order[o].total,
                        discounts |-> order[o].discounts]
         /\ order[o].status \in OrderStatus /\ order[o].version \in Nat
         /\ order[o].mode \in ServiceModes /\ order[o].total \in Nat
         /\ order[o].discounts \in SUBSET Discounts
  BY DEF TypeOK

LEMMA BumpedOrder ==
  ASSUME TypeOK, NEW o \in Orders
  PROVE  Bumped(o) = [order EXCEPT ![o] = Moved(o, order[o].status)]
<1> DEFINE row == order[o]
<1>1. row = [status |-> row.status, version |-> row.version, mode |-> row.mode,
             total |-> row.total, discounts |-> row.discounts]
  BY OrderType
<1>2. [row EXCEPT !.version = row.version + 1] = Moved(o, row.status)
  <2> HIDE DEF row
  <2>1. [row EXCEPT !.version = row.version + 1]
          = [status |-> row.status, version |-> row.version + 1, mode |-> row.mode,
             total |-> row.total, discounts |-> row.discounts]
    BY <1>1
  <2> QED
    BY <2>1 DEF Moved, row
<1> QED
  BY <1>2 DEF Bumped

LEMMA Moves ==
  ASSUME TypeOK, NEW o \in Orders, NEW to, order' = [Bumped(o) EXCEPT ![o].status = to]
  PROVE  order' = [order EXCEPT ![o] = Moved(o, to)]
<1>1. Bumped(o) = [order EXCEPT ![o] = Moved(o, order[o].status)]
  BY BumpedOrder
<1> DEFINE row == Moved(o, order[o].status)
           b == [order EXCEPT ![o] = row]
<1>2. [row EXCEPT !.status = to] = Moved(o, to)
  BY DEF Moved
<1>3. b[o] = row
  <2> HIDE DEF row
  <2> QED
    BY DEF TypeOK
<1>0. order' = [b EXCEPT ![o] = [b[o] EXCEPT !.status = to]]
  BY <1>1
<1> HIDE DEF row
<1> QED
  BY <1>0, <1>2, <1>3

LEMMA Recalculates ==
  ASSUME TypeOK, NEW o \in Orders, NEW q, NEW D, Recalculate(o, q, D)
  PROVE  /\ quantity' = q
         /\ order' = [order EXCEPT ![o] = Recomposed(o, q, D)]
         /\ DiscountOf(D) <= SubtotalOf(o, q)
<1> DEFINE total == SubtotalOf(o, q) - DiscountOf(D)
<1>1. order' = [Bumped(o) EXCEPT ![o].discounts = D, ![o].total = total]
  BY DEF Recalculate
<1> HIDE DEF total
<1>2. order' = [order EXCEPT ![o] = [status |-> order[o].status, version |-> order[o].version + 1,
                  mode |-> order[o].mode, total |-> total, discounts |-> D]]
  <2>1. Bumped(o) = [order EXCEPT ![o] = Moved(o, order[o].status)]
    BY BumpedOrder
  <2> DEFINE row == Moved(o, order[o].status)
             b == [order EXCEPT ![o] = row]
             recomposed == [status |-> order[o].status, version |-> order[o].version + 1,
                            mode |-> order[o].mode, total |-> total, discounts |-> D]
             discounted == [status |-> order[o].status, version |-> order[o].version + 1,
                            mode |-> order[o].mode, total |-> order[o].total, discounts |-> D]
  <2>2. [row EXCEPT !.discounts = D, !.total = total] = recomposed
    <3>1. [row EXCEPT !.discounts = D] = discounted
      BY DEF Moved
    <3>2. [discounted EXCEPT !.total = total] = recomposed
      OBVIOUS
    <3>3. [row EXCEPT !.discounts = D, !.total = total]
            = [[row EXCEPT !.discounts = D] EXCEPT !.total = total]
      <4> HIDE DEF row, discounted, recomposed
      <4> QED
        OBVIOUS
    <3> HIDE DEF row, discounted, recomposed
    <3> QED
      BY <3>1, <3>2, <3>3
  <2>3. b[o] = row
    <3> HIDE DEF row
    <3> QED
      BY DEF TypeOK
  <2>0. order' = [b EXCEPT ![o] = [b[o] EXCEPT !.discounts = D, !.total = total]]
    <3> HIDE DEF row
    <3> QED
      BY <1>1, <2>1 DEF row
  <2> HIDE DEF row, recomposed
  <2>4. order' = [order EXCEPT ![o] = recomposed]
    BY <2>0, <2>2, <2>3
  <2> QED
    BY <2>4 DEF recomposed
<1> QED
  BY <1>2 DEF Recalculate, Recomposed, total

LEMMA OrderSteps ==
  ASSUME TypeOK, OrdersNext
  PROVE  /\ KeepsTheRest
         /\ \E o \in Orders :
              \/ \E mode \in ServiceModes : CreateOrder(o, mode)
              \/ Composes(o)
              \/ Hold(o) \/ Resume(o) \/ Cancel(o)
<1>1. ASSUME NEW l \in Lines, NEW n \in 1..MaxQuantity
      PROVE  /\ AddItem(l, n) => Composes(OrderOf[l]) /\ KeepsTheRest
             /\ UpdateItem(l, n) => Composes(OrderOf[l]) /\ KeepsTheRest
  <2> DEFINE q == [quantity EXCEPT ![l] = n]
  <2>1. q \in Quantities /\ OrderOf[l] \in Orders
        /\ \A k \in Lines \ LinesOf(OrderOf[l]) : q[k] = quantity[k]
    BY PosAssumption DEF TypeOK, Quantities, LinesOf
  <2>2. order[OrderOf[l]].discounts \in SUBSET Discounts
    BY <2>1, OrderType
  <2> QED
    BY <2>1, <2>2 DEF AddItem, UpdateItem, Composes
<1>2. ASSUME NEW l \in Lines, DeleteItem(l)
      PROVE  Composes(OrderOf[l]) /\ KeepsTheRest /\ OrderOf[l] \in Orders
  <2> DEFINE q == [quantity EXCEPT ![l] = 0]
  <2>1. q \in Quantities /\ OrderOf[l] \in Orders
        /\ \A k \in Lines \ LinesOf(OrderOf[l]) : q[k] = quantity[k]
    BY PosAssumption DEF TypeOK, Quantities, LinesOf
  <2>2. order[OrderOf[l]].discounts \in SUBSET Discounts
    BY <2>1, OrderType
  <2> QED
    BY <1>2, <2>1, <2>2 DEF DeleteItem, DeleteAllowed, Composes
<1>3. ASSUME NEW o \in Orders, NEW d \in Discounts, AddAdjustment(o, d) \/ DeleteAdjustment(o, d)
      PROVE  Composes(o) /\ KeepsTheRest
  <2>1. quantity \in Quantities /\ order[o].discounts \in SUBSET Discounts
    BY OrderType DEF TypeOK, Quantities
  <2>2. order[o].discounts \cup {d} \in SUBSET Discounts
        /\ order[o].discounts \ {d} \in SUBSET Discounts
    BY <2>1
  <2> QED
    BY <1>3, <2>1, <2>2 DEF AddAdjustment, DeleteAdjustment, Composes
<1>4. ASSUME NEW l \in Lines, AddManualItem(l) PROVE AddItem(l, 1) /\ 1 \in 1..MaxQuantity
  BY <1>4, PosAssumption DEF AddManualItem
<1>5. \A l \in Lines : OrderOf[l] \in Orders
  BY PosAssumption
<1>6. CASE \E o \in Orders :
             \/ \E mode \in ServiceModes : CreateOrder(o, mode)
             \/ Hold(o) \/ Resume(o) \/ Cancel(o)
             \/ \E d \in Discounts : AddAdjustment(o, d) \/ DeleteAdjustment(o, d)
  BY <1>3, <1>6 DEF CreateOrder, Hold, Resume, Cancel, Transition
<1>7. CASE \E l \in Lines :
             \/ \E n \in 1..MaxQuantity : AddItem(l, n) \/ UpdateItem(l, n)
             \/ AddManualItem(l) \/ DeleteItem(l)
  BY <1>1, <1>2, <1>4, <1>5, <1>7
<1> QED
  BY <1>6, <1>7 DEF OrdersNext

-----------------------------------------------------------------------------
(* Types *)

OrderRow == [status : OrderStatus, version : Nat, mode : ServiceModes, total : Nat,
             discounts : SUBSET Discounts]

LEMMA RowTypes ==
  ASSUME TypeOK, NEW o \in Orders
  PROVE  /\ order[o] \in OrderRow
         /\ \A to \in OrderStatus : Moved(o, to) \in OrderRow
         /\ \A q \in Quantities, D \in SUBSET Discounts :
              DiscountOf(D) <= SubtotalOf(o, q) => Recomposed(o, q, D) \in OrderRow
<1>1. order[o].version + 1 \in Nat
  <2>1. order[o].version \in Nat
    BY OrderType
  <2> QED
    BY <2>1
<1>2. ASSUME NEW to \in OrderStatus PROVE Moved(o, to) \in OrderRow
  BY <1>1, OrderType DEF Moved, OrderRow
<1>3. ASSUME NEW q \in Quantities, NEW D \in SUBSET Discounts,
             DiscountOf(D) <= SubtotalOf(o, q)
      PROVE  Recomposed(o, q, D) \in OrderRow
  <2>1. q \in [Lines -> Nat]
    BY PosAssumption DEF Quantities
  <2>2. SubtotalOf(o, q) - DiscountOf(D) \in Nat
    BY <1>3, <2>1, SubtotalType, DiscountType
  <2> QED
    BY <1>1, <2>2, OrderType DEF Recomposed, OrderRow
<1>4. order[o] \in OrderRow
  BY DEF TypeOK, OrderRow
<1> QED
  BY <1>2, <1>3, <1>4

\* One order is rewritten, and perhaps its lines.
LEMMA OrderWritten ==
  ASSUME TypeOK, NEW o \in Orders, NEW row \in OrderRow, order' = [order EXCEPT ![o] = row],
         quantity' \in Quantities
  PROVE  order' \in [Orders -> OrderRow] /\ quantity' \in [Lines -> 0..MaxQuantity]
  BY DEF TypeOK, OrderRow, Quantities

LEMMA OrdersKeepTypes ==
  ASSUME TypeOK, OrdersNext
  PROVE  TypeOK'
<1>1. KeepsTheRest
  BY OrderSteps
<1>2. PICK o \in Orders :
        \/ \E mode \in ServiceModes : CreateOrder(o, mode)
        \/ Composes(o)
        \/ Hold(o) \/ Resume(o) \/ Cancel(o)
  BY OrderSteps
<1>3. quantity \in Quantities
  BY DEF TypeOK, Quantities
<1>4. order' \in [Orders -> OrderRow] /\ quantity' \in [Lines -> 0..MaxQuantity]
  <2>1. CASE \E mode \in ServiceModes : CreateOrder(o, mode)
    <3>1. PICK mode \in ServiceModes : CreateOrder(o, mode)
      BY <2>1
    <3>2. [NoOrder EXCEPT !.status = "OPEN", !.version = 1, !.mode = mode] \in OrderRow
      BY DEF NoOrder, OrderRow, OrderStatus, ServiceModes
    <3> QED
      BY <1>3, <3>1, <3>2, OrderWritten DEF CreateOrder
  <2>2. CASE Composes(o)
    <3>1. PICK q \in Quantities, D \in SUBSET Discounts : Recalculate(o, q, D)
      BY <2>2 DEF Composes
    <3> QED
      BY <3>1, Recalculates, RowTypes, OrderWritten
  <2>3. CASE Hold(o) \/ Resume(o) \/ Cancel(o)
    <3>1. PICK to \in OrderStatus : order' = [Bumped(o) EXCEPT ![o].status = to]
      BY <2>3 DEF Hold, Resume, Cancel, Transition, OrderStatus
    <3>2. quantity' = quantity
      BY <2>3 DEF Hold, Resume, Cancel, Transition
    <3>3. order' = [order EXCEPT ![o] = Moved(o, to)]
      BY <3>1, Moves
    <3>4. Moved(o, to) \in OrderRow
      BY RowTypes
    <3> QED
      BY <1>3, <3>2, <3>3, <3>4, OrderWritten
  <2> QED
    BY <1>2, <2>1, <2>2, <2>3
<1> QED
  BY <1>1, <1>4 DEF KeepsTheRest, TypeOK, OrderRow, kitchenVars, tableVars, moneyVars

LEMMA DisplaysKeepTypes ==
  ASSUME TypeOK, DisplayNext
  PROVE  TypeOK'
<1>1. PICK o \in Orders : Show(o)
  BY DEF DisplayNext
<1>2. order[o].version \in Nat /\ order[o].total \in Nat
  BY OrderType
<1>3. shown' \in [Orders -> [version : Nat, total : Nat]]
  BY <1>1, <1>2 DEF Show, TypeOK
<1> QED
  BY <1>1, <1>3 DEF Show, TypeOK, kitchenVars, tableVars, moneyVars

TicketRow == [status : TicketStatus, order : Orders \cup {Nowhere},
              station : Stations \cup {Nowhere}, items : [Lines -> 0..MaxQuantity]]

\* What remains of a line is no more than the row holds.
LEMMA RemainingType ==
  ASSUME TypeOK, NEW l \in Lines, Sent(l) \in Nat
  PROVE  Remaining(l) \in 0..MaxQuantity
<1>1. quantity[l] \in 0..MaxQuantity /\ MaxQuantity \in Nat
  BY PosAssumption DEF TypeOK
<1> QED
  BY <1>1 DEF Remaining

\* What one ticket adds to what the kitchen was sent of a line.
SentBy(l, tickets) ==
  [t \in Tickets |->
     IF tickets[t].status \notin {"NONE", "CANCELLED"} THEN tickets[t].items[l] ELSE 0]

LEMMA SentIsSum ==
  ASSUME NEW l \in Lines, NEW tickets \in [Tickets -> TicketRow]
  PROVE  /\ SumFunction([t \in {x \in Tickets : tickets[x].status \notin {"NONE", "CANCELLED"}}
                           |-> tickets[t].items[l]])
              = SumFunctionOnSet(SentBy(l, tickets), Tickets)
         /\ SumFunctionOnSet(SentBy(l, tickets), Tickets) \in Nat
         /\ \A t \in Tickets : SentBy(l, tickets)[t] \in Nat
<1> DEFINE T == {x \in Tickets : tickets[x].status \notin {"NONE", "CANCELLED"}}
           f == [t \in T |-> tickets[t].items[l]]
           g == SentBy(l, tickets)
<1>1. ASSUME NEW t \in Tickets PROVE tickets[t].items[l] \in Nat
  BY PosAssumption DEF TicketRow
<1>2. \A t \in Tickets : g[t] \in Nat
  BY <1>1 DEF SentBy
<1>3. T \in SUBSET Tickets /\ T = DOMAIN f /\ IsFiniteSet(Tickets)
  BY FiniteTables
<1>4. \A t \in T : f[t] \in Int /\ g[t] = f[t]
  BY <1>1 DEF SentBy
<1>5. \A t \in Tickets \ T : g[t] = 0
  BY DEF SentBy
<1> HIDE DEF f, g, T
<1>6. SumFunction(f) = SumFunctionOnSet(g, Tickets)
  BY <1>3, <1>4, <1>5, SumSelected
<1>7. SumFunctionOnSet(g, Tickets) \in Nat
  BY <1>2, <1>3, SumIsNat
<1> QED
  BY <1>2, <1>6, <1>7 DEF f, g, T

LEMMA SentType ==
  ASSUME TypeOK, NEW l \in Lines
  PROVE  /\ ticket \in [Tickets -> TicketRow]
         /\ Sent(l) = SumFunctionOnSet(SentBy(l, ticket), Tickets)
         /\ Sent(l) \in Nat
<1>1. ticket \in [Tickets -> TicketRow]
  BY DEF TypeOK, TicketRow
<1> QED
  BY <1>1, SentIsSum DEF Sent, SentToKitchen

\* A dispatch: each station with something to do gets a ticket of its own.
StationsOf(o) == {route[Category[l]] : l \in ToDispatch(o)}
Unused == {t \in Tickets : ticket[t].status = "NONE"}
NewTicket(o, s) ==
  [status |-> "QUEUED", order |-> o, station |-> s,
   items |-> [l \in Lines |->
     IF l \in ToDispatch(o) /\ route[Category[l]] = s THEN Remaining(l) ELSE 0]]

LEMMA Dispatches ==
  ASSUME NEW o \in Orders, Dispatch(o)
  PROVE  \E ticketOf \in [StationsOf(o) -> Unused] :
           /\ \A s, z \in StationsOf(o) : ticketOf[s] = ticketOf[z] => s = z
           /\ ticket' = [t \in Tickets |->
                IF \E s \in StationsOf(o) : ticketOf[s] = t
                  THEN NewTicket(o, CHOOSE s \in StationsOf(o) : ticketOf[s] = t)
                  ELSE ticket[t]]
  BY DEF Dispatch, StationsOf, Unused, NewTicket

LEMMA RouteType ==
  ASSUME TypeOK, NEW o \in Orders
  PROVE  StationsOf(o) \subseteq Stations
<1>1. ASSUME NEW l \in ToDispatch(o) PROVE route[Category[l]] \in Stations
  <2>1. l \in Lines /\ route[Category[l]] # Nowhere
    BY DEF ToDispatch, LinesOf
  <2>2. Category[l] \in Categories
    BY <2>1 DEF Categories
  <2> QED
    BY <2>1, <2>2 DEF TypeOK
<1> QED
  BY <1>1 DEF StationsOf

LEMMA KitchenKeepsTypes ==
  ASSUME TypeOK, KitchenNext
  PROVE  TypeOK'
<1>1. ASSUME NEW s \in Stations, UpdateStation(s) PROVE TypeOK'
  <2>1. active' \subseteq Stations \cup Tables
    BY <1>1 DEF UpdateStation, TypeOK
  <2> QED
    BY <1>1, <2>1 DEF UpdateStation, TypeOK, orderVars, kitchenVars, tableVars, moneyVars
<1>2. ASSUME NEW s \in Stations, NEW c \in Categories,
             RouteCategory(s, c) \/ UnrouteCategory(s, c)
      PROVE  TypeOK'
  <2>1. route' \in [Categories -> Stations \cup {Nowhere}]
    BY <1>2 DEF RouteCategory, UnrouteCategory, TypeOK
  <2> QED
    BY <1>2, <2>1 DEF RouteCategory, UnrouteCategory, TypeOK, orderVars, tableVars, moneyVars
<1>3. ASSUME NEW o \in Orders, Dispatch(o) PROVE TypeOK'
  <2>1. PICK ticketOf \in [StationsOf(o) -> Unused] :
          ticket' = [t \in Tickets |->
            IF \E s \in StationsOf(o) : ticketOf[s] = t
              THEN NewTicket(o, CHOOSE s \in StationsOf(o) : ticketOf[s] = t)
              ELSE ticket[t]]
    BY <1>3, Dispatches
  <2>2. ASSUME NEW s \in Stations PROVE NewTicket(o, s) \in TicketRow
    <3>1. ASSUME NEW l \in Lines
          PROVE  (IF l \in ToDispatch(o) /\ route[Category[l]] = s THEN Remaining(l) ELSE 0)
                   \in 0..MaxQuantity
      <4>1. Remaining(l) \in 0..MaxQuantity /\ MaxQuantity \in Nat
        BY SentType, RemainingType, PosAssumption
      <4> QED
        BY <4>1
    <3> QED
      BY <3>1 DEF NewTicket, TicketRow, TicketStatus
  <2>3. ASSUME NEW t \in Tickets PROVE ticket'[t] \in TicketRow
    <3>1. CASE \E s \in StationsOf(o) : ticketOf[s] = t
      <4>1. (CHOOSE s \in StationsOf(o) : ticketOf[s] = t) \in Stations
        BY <3>1, RouteType
      <4> QED
        BY <2>1, <2>2, <3>1, <4>1
    <3>2. CASE ~ \E s \in StationsOf(o) : ticketOf[s] = t
      BY <2>1, <3>2, SentType DEF TypeOK, TicketRow
    <3> QED
      BY <3>1, <3>2
  <2>4. ticket' \in [Tickets -> TicketRow]
    BY <2>1, <2>3
  <2>5. UNCHANGED <<orderVars, route, active, tableVars, moneyVars>>
    BY <1>3 DEF Dispatch
  <2> QED
    BY <2>4, <2>5 DEF TypeOK, TicketRow, orderVars, tableVars, moneyVars
<1>4. ASSUME NEW t \in Tickets, NEW next \in TicketStatus, TransitionTicket(t, next) PROVE TypeOK'
  <2> DEFINE row == ticket[t]
  <2>0. row \in TicketRow /\ ticket \in [Tickets -> TicketRow]
    BY SentType DEF TypeOK, TicketRow
  <2>1. ticket' \in [Tickets -> TicketRow]
    <3>1. ticket' = [ticket EXCEPT ![t] = [row EXCEPT !.status = next]]
      BY <1>4 DEF TransitionTicket
    <3> HIDE DEF row
    <3>2. [row EXCEPT !.status = next] \in TicketRow
      BY <2>0 DEF TicketRow
    <3> QED
      BY <2>0, <3>1, <3>2
  <2> QED
    BY <1>4, <2>1 DEF TransitionTicket, TypeOK, TicketRow, orderVars, tableVars, moneyVars
<1> QED
  BY <1>1, <1>2, <1>3, <1>4 DEF KitchenNext

LEMMA TablesKeepTypes ==
  ASSUME TypeOK, TablesNext
  PROVE  TypeOK'
<1> USE DEF orderVars, kitchenVars, moneyVars
<1>1. ASSUME NEW s \in Sessions, NEW t \in Tables, CheckOpen(s, t) \/ CheckMove(s, t) PROVE TypeOK'
  BY <1>1 DEF CheckOpen, CheckMove, TypeOK, Request
<1>2. ASSUME NEW s \in Sessions, NEW t \in Tables, OpenSession(s, t) PROVE TypeOK'
  BY <1>2 DEF OpenSession, TypeOK, RefuseOlder, SessionStatus
<1>3. ASSUME NEW s \in Sessions, NEW t \in Tables, MoveSession(s, t) PROVE TypeOK'
  BY <1>3 DEF MoveSession, TypeOK, RefuseOlder
<1>4. ASSUME NEW s \in Sessions, NEW o \in Orders, AttachOrder(s, o) PROVE TypeOK'
  <2>1. order' \in [Orders -> OrderRow]
    <3>1. CASE order[o].mode = "TABLE"
      BY <1>4, <3>1 DEF AttachOrder, TypeOK, OrderRow
    <3>2. CASE order[o].mode # "TABLE"
      <4> DEFINE b == [order EXCEPT ![o] = Moved(o, order[o].status)]
      <4>1. order' = [b EXCEPT ![o].mode = "TABLE"]
        BY <1>4, <3>2, BumpedOrder DEF AttachOrder
      <4>2. b \in [Orders -> OrderRow]
        BY RowTypes, OrderType DEF TypeOK, OrderRow
      <4> HIDE DEF b
      <4> QED
        BY <4>1, <4>2 DEF OrderRow, ServiceModes
    <3> QED
      BY <3>1, <3>2
  <2>2. attached' \in [Orders -> Sessions \cup {Nowhere}] /\ checked' \subseteq checked
    BY <1>4 DEF AttachOrder, TypeOK, RefuseOlder
  <2> QED
    BY <1>4, <2>1, <2>2 DEF AttachOrder, TypeOK, OrderRow
<1>5. ASSUME NEW s \in Sessions, NEW next \in {"CLOSED", "CANCELLED"}, FinishSession(s, next)
      PROVE  TypeOK'
  BY <1>5 DEF FinishSession, TypeOK, RefuseOlder, SessionStatus
<1>6. ASSUME NEW s \in Sessions, UpdateSession(s) PROVE TypeOK'
  BY <1>6 DEF UpdateSession, TypeOK, RefuseOlder
<1>7. ASSUME NEW t \in Tables, CheckDeactivate(t) \/ DeactivateTable(t) \/ ActivateTable(t)
      PROVE  TypeOK'
  BY <1>7 DEF CheckDeactivate, DeactivateTable, ActivateTable, TypeOK, Request, tableVars
<1>8. ASSUME NEW r \in checked, Refuse(r) PROVE TypeOK'
  BY <1>8 DEF Refuse, TypeOK
<1> QED
  BY <1>1, <1>2, <1>3, <1>4, <1>5, <1>6, <1>7, <1>8 DEF TablesNext

CheckoutRow == [status : CheckoutStatus, order : Orders \cup {Nowhere}, total : Nat]
PaymentRow == [status : PaymentStatus, checkout : Checkouts \cup {Nowhere},
               method : {"CASH", "CARD", "OTHER"}, amount : Nat, refunded : Nat]

LEMMA MoneyTypes ==
  ASSUME TypeOK
  PROVE  checkout \in [Checkouts -> CheckoutRow] /\ payment \in [Payments -> PaymentRow]
  BY DEF TypeOK, CheckoutRow, PaymentRow

LEMMA MoneyWritten ==
  ASSUME TypeOK, checkout' \in [Checkouts -> CheckoutRow], payment' \in [Payments -> PaymentRow],
         order' \in [Orders -> OrderRow], UNCHANGED <<quantity, shown, kitchenVars, active, tableVars>>
  PROVE  TypeOK'
  BY DEF TypeOK, CheckoutRow, PaymentRow, OrderRow, kitchenVars, tableVars

\* The row of an open checkout names an order.
OrdersOfOpenCheckouts ==
  \A c \in Checkouts : checkout[c].status = "OPEN" => checkout[c].order \in Orders

\* One checkout, one payment or one order gets another status.
LEMMA StatusTypes ==
  ASSUME TypeOK
  PROVE  /\ \A c \in Checkouts, to \in CheckoutStatus :
              [checkout EXCEPT ![c].status = to] \in [Checkouts -> CheckoutRow]
         /\ \A p \in Payments, to \in PaymentStatus :
              [payment EXCEPT ![p].status = to] \in [Payments -> PaymentRow]
         /\ \A o \in Orders, to \in OrderStatus :
              [Bumped(o) EXCEPT ![o].status = to] \in [Orders -> OrderRow]
<1>1. ASSUME NEW c \in Checkouts, NEW to \in CheckoutStatus
      PROVE  [checkout EXCEPT ![c].status = to] \in [Checkouts -> CheckoutRow]
  <2> DEFINE row == checkout[c]
  <2>1. row \in CheckoutRow
    BY MoneyTypes
  <2> HIDE DEF row
  <2>2. [row EXCEPT !.status = to] \in CheckoutRow
    BY <2>1 DEF CheckoutRow
  <2> QED
    BY <2>2, MoneyTypes DEF row
<1>2. ASSUME NEW p \in Payments, NEW to \in PaymentStatus
      PROVE  [payment EXCEPT ![p].status = to] \in [Payments -> PaymentRow]
  <2> DEFINE row == payment[p]
  <2>1. row \in PaymentRow
    BY MoneyTypes
  <2> HIDE DEF row
  <2>2. [row EXCEPT !.status = to] \in PaymentRow
    BY <2>1 DEF PaymentRow
  <2> QED
    BY <2>2, MoneyTypes DEF row
<1>3. ASSUME NEW o \in Orders, NEW to \in OrderStatus
      PROVE  [Bumped(o) EXCEPT ![o].status = to] \in [Orders -> OrderRow]
  <2> DEFINE b == [order EXCEPT ![o] = Moved(o, order[o].status)]
             row == b[o]
  <2>1. Bumped(o) = b
    BY BumpedOrder
  <2>2. b \in [Orders -> OrderRow]
    BY RowTypes, OrderType DEF TypeOK, OrderRow
  <2> HIDE DEF b
  <2>3. row \in OrderRow
    BY <2>2
  <2> HIDE DEF row
  <2>4. [row EXCEPT !.status = to] \in OrderRow
    BY <2>3 DEF OrderRow
  <2> QED
    BY <2>1, <2>2, <2>4 DEF row
<1> QED
  BY <1>1, <1>2, <1>3

LEMMA RefreshKeepsTypes ==
  ASSUME TypeOK, NEW c \in Checkouts, checkout[c].order \in Orders,
         NEW ps \in [Payments -> PaymentRow], RefreshCheckout(c, ps)
  PROVE  TypeOK'
<1>1. order \in [Orders -> OrderRow]
  BY DEF TypeOK, OrderRow
<1>2. payment' \in [Payments -> PaymentRow]
  BY DEF RefreshCheckout
<1>3. checkout' \in [Checkouts -> CheckoutRow] /\ order' \in [Orders -> OrderRow]
  <2>1. "COMPLETED" \in CheckoutStatus /\ "PAID" \in OrderStatus
    BY DEF CheckoutStatus, OrderStatus
  <2> QED
    BY <1>1, <2>1, StatusTypes, MoneyTypes DEF RefreshCheckout
<1> QED
  BY <1>2, <1>3, MoneyWritten DEF RefreshCheckout

LEMMA CheckoutKeepsTypes ==
  ASSUME TypeOK, OrdersOfOpenCheckouts, PaymentsAreOfCheckouts, CheckoutNext
  PROVE  TypeOK'
<1>0. order \in [Orders -> OrderRow]
  BY DEF TypeOK, OrderRow
<1>1. ASSUME NEW c \in Checkouts, NEW o \in Orders, OpenCheckout(o, c) PROVE TypeOK'
  <2>1. order' \in [Orders -> OrderRow]
    BY <1>1, StatusTypes DEF OpenCheckout, OrderStatus
  <2>2. [status |-> "OPEN", order |-> o, total |-> order[o].total] \in CheckoutRow
    BY OrderType DEF CheckoutRow, CheckoutStatus
  <2>3. checkout' \in [Checkouts -> CheckoutRow]
    BY <1>1, <2>2, MoneyTypes DEF OpenCheckout
  <2> QED
    BY <1>1, <2>1, <2>3, MoneyTypes, MoneyWritten DEF OpenCheckout
<1>2. ASSUME NEW c \in Checkouts, NEW p \in Payments, NEW method \in {"CASH", "CARD", "OTHER"},
             NEW a \in Amounts(c), CreatePayment(c, p, method, a)
      PROVE  TypeOK'
  <2> DEFINE row == [status |-> IF method = "CASH" THEN "CAPTURED" ELSE "PENDING",
                     checkout |-> c, method |-> method, amount |-> a, refunded |-> 0]
             ps == [payment EXCEPT ![p] = row]
  <2>1. a \in Nat /\ checkout[c].order \in Orders
    <3>1. checkout[c].total \in Nat
      BY DEF TypeOK
    <3> QED
      BY <1>2, <3>1 DEF Amounts, CreatePayment, CheckoutOpen, OrdersOfOpenCheckouts
  <2>2. row \in PaymentRow
    BY <2>1 DEF PaymentRow, PaymentStatus
  <2>3. ps \in [Payments -> PaymentRow]
    BY <2>2, MoneyTypes
  <2>4. CASE method = "CASH"
    <3>1. RefreshCheckout(c, ps)
      BY <1>2, <2>4 DEF CreatePayment
    <3> HIDE DEF ps
    <3> QED
      BY <2>1, <2>3, <3>1, RefreshKeepsTypes
  <2>5. CASE method # "CASH"
    <3>1. payment' = ps /\ UNCHANGED <<orderVars, kitchenVars, active, tableVars, checkout>>
      BY <1>2, <2>5 DEF CreatePayment
    <3> HIDE DEF ps
    <3> QED
      BY <1>0, <2>3, <3>1, MoneyTypes, MoneyWritten DEF orderVars
  <2> QED
    BY <2>4, <2>5
<1>3. ASSUME NEW c \in Checkouts, CancelCheckout(c) PROVE TypeOK'
  <2>1. checkout[c].order \in Orders
    BY <1>3 DEF CancelCheckout, CheckoutOpen, OrdersOfOpenCheckouts
  <2>2. order' \in [Orders -> OrderRow] /\ checkout' \in [Checkouts -> CheckoutRow]
    BY <1>3, <2>1, StatusTypes DEF CancelCheckout, OrderStatus, CheckoutStatus
  <2>3. ASSUME NEW p \in Payments
        PROVE  [payment[p] EXCEPT !.status = "CANCELLED"] \in PaymentRow
    <3>1. payment[p] \in PaymentRow
      BY MoneyTypes
    <3> QED
      BY <3>1 DEF PaymentRow, PaymentStatus
  <2>4. payment' \in [Payments -> PaymentRow]
    BY <1>3, <2>3, MoneyTypes DEF CancelCheckout, WithoutPending
  <2> QED
    BY <1>3, <2>2, <2>4, MoneyWritten DEF CancelCheckout
<1>4. ASSUME NEW p \in Payments, NEW to \in {"CAPTURED", "FAILED", "CANCELLED"},
             ResolvePayment(p, to)
      PROVE  TypeOK'
  <2>1. payment[p].checkout \in Checkouts /\ checkout[payment[p].checkout].order \in Orders
    BY <1>4 DEF ResolvePayment, CheckoutOpen, OrdersOfOpenCheckouts, PaymentsAreOfCheckouts
  <2>2. [payment EXCEPT ![p].status = to] \in [Payments -> PaymentRow]
    BY StatusTypes DEF PaymentStatus
  <2> QED
    BY <1>4, <2>1, <2>2, RefreshKeepsTypes DEF ResolvePayment
<1>5. ASSUME NEW p \in Payments, NEW a \in 1..payment[p].amount, RefundPayment(p, a)
      PROVE  TypeOK'
  <2> DEFINE row == payment[p]
             to == IF row.refunded + a >= row.amount THEN "REFUNDED" ELSE "PARTIALLY_REFUNDED"
             new == [row EXCEPT !.refunded = row.refunded + a, !.status = to]
  <2>1. row \in PaymentRow /\ row.refunded + a \in Nat
    <3>1. row \in PaymentRow
      BY MoneyTypes
    <3>2. row.refunded \in Nat /\ row.amount \in Nat
      BY <3>1 DEF PaymentRow
    <3> QED
      BY <3>1, <3>2
  <2>2. payment' = [payment EXCEPT ![p] = new]
    BY <1>5 DEF RefundPayment
  <2>3. new \in PaymentRow
    <3> HIDE DEF row
    <3> QED
      BY <2>1 DEF PaymentRow, PaymentStatus
  <2>4. payment' \in [Payments -> PaymentRow]
    <3> HIDE DEF new
    <3> QED
      BY <2>2, <2>3, MoneyTypes
  <2> QED
    BY <1>0, <1>5, <2>4, MoneyTypes, MoneyWritten DEF RefundPayment, orderVars
<1> QED
  BY <1>1, <1>2, <1>3, <1>4, <1>5 DEF CheckoutNext, CapturePayment, FailPayment, CancelPayment

-----------------------------------------------------------------------------
(* The books of a checkout *)

\* What a payment contributes to the payments of a checkout in certain states.
Part(c, ps, states) ==
  [p \in Payments |-> IF ps[p].checkout = c /\ ps[p].status \in states THEN ps[p].amount ELSE 0]

Booked(c, ps, states) == SumFunctionOnSet(Part(c, ps, states), Payments)

TakenStates == {"CAPTURED", "PARTIALLY_REFUNDED", "REFUNDED"}

LEMMA PartType ==
  ASSUME NEW c, NEW states, NEW ps \in [Payments -> PaymentRow]
  PROVE  \A p \in Payments : Part(c, ps, states)[p] \in Nat /\ Part(c, ps, states)[p] \in Int
<1>1. \A p \in Payments : ps[p].amount \in Nat
  BY DEF PaymentRow
<1> QED
  BY <1>1 DEF Part

LEMMA BookedType ==
  ASSUME NEW c, NEW states, NEW ps \in [Payments -> PaymentRow]
  PROVE  Booked(c, ps, states) \in Nat
  BY PartType, FiniteTables, SumIsNat DEF Booked

LEMMA BookedIsSum ==
  ASSUME NEW c, NEW states, NEW ps \in [Payments -> PaymentRow], NEW T \in SUBSET Payments,
         \A p \in Payments : p \in T <=> ps[p].checkout = c /\ ps[p].status \in states
  PROVE  SumFunction([p \in T |-> ps[p].amount]) = Booked(c, ps, states)
<1> DEFINE f == [p \in T |-> ps[p].amount]
           g == Part(c, ps, states)
<1>1. \A p \in T : f[p] \in Int /\ g[p] = f[p]
  BY DEF Part, PaymentRow
<1>2. \A p \in Payments \ T : g[p] = 0
  BY DEF Part
<1>3. T = DOMAIN f /\ IsFiniteSet(Payments)
  BY FiniteTables
<1> HIDE DEF f, g
<1>4. SumFunction(f) = SumFunctionOnSet(g, Payments)
  BY <1>1, <1>2, <1>3, SumSelected
<1> QED
  BY <1>4 DEF f, g, Booked

LEMMA BooksOf ==
  ASSUME NEW c, payment \in [Payments -> PaymentRow]
  PROVE  /\ Captured(c) = Booked(c, payment, {"CAPTURED"})
         /\ Pending(c) = Booked(c, payment, {"PENDING"})
         /\ Taken(c) = Booked(c, payment, TakenStates)
  BY BookedIsSum DEF Captured, Pending, Taken, Amount, PaymentsOf, TakenStates

LEMMA BooksOfNext ==
  ASSUME NEW c, payment' \in [Payments -> PaymentRow]
  PROVE  /\ Captured(c)' = Booked(c, payment', {"CAPTURED"})
         /\ Pending(c)' = Booked(c, payment', {"PENDING"})
         /\ Taken(c)' = Booked(c, payment', TakenStates)
  BY BookedIsSum DEF Captured, Pending, Taken, Amount, PaymentsOf, TakenStates

LEMMA CompleteIsBooked ==
  ASSUME NEW c, NEW ps
  PROVE  Complete(c, ps) <=> Booked(c, ps, {"CAPTURED"}) = checkout[c].total
<1> DEFINE f == [p \in Payments |->
                   IF ps[p].checkout = c /\ ps[p].status = "CAPTURED" THEN ps[p].amount ELSE 0]
<1>1. f = Part(c, ps, {"CAPTURED"})
  BY DEF Part
<1>2. SumFunction(f) = SumFunctionOnSet(f, Payments)
  BY DEF SumFunction
<1> HIDE DEF f
<1> QED
  BY <1>1, <1>2 DEF f, Complete, Booked

\* Payments that contribute the same, and one of which contributes something else.
LEMMA BookedSame ==
  ASSUME NEW c, NEW states, NEW ps, NEW qs,
         \A p \in Payments : Part(c, ps, states)[p] = Part(c, qs, states)[p]
  PROVE  Booked(c, ps, states) = Booked(c, qs, states)
  BY FiniteTables, SumAgree DEF Booked

LEMMA BookedLess ==
  ASSUME NEW c, NEW states, NEW more, NEW ps \in [Payments -> PaymentRow],
         NEW qs \in [Payments -> PaymentRow],
         \A p \in Payments : Part(c, ps, states)[p] <= Part(c, qs, more)[p]
  PROVE  Booked(c, ps, states) <= Booked(c, qs, more)
  BY PartType, FiniteTables, SumMonotone DEF Booked

LEMMA BookedChange ==
  ASSUME NEW c, NEW states, NEW ps \in [Payments -> PaymentRow],
         NEW qs \in [Payments -> PaymentRow], NEW p \in Payments,
         \A q \in Payments \ {p} : qs[q] = ps[q]
  PROVE  Booked(c, qs, states)
           = Booked(c, ps, states) - Part(c, ps, states)[p] + Part(c, qs, states)[p]
<1> DEFINE f == Part(c, ps, states)
           g == Part(c, qs, states)
<1>1. \A q \in Payments : f[q] \in Int /\ g[q] \in Int
  BY PartType
<1>2. \A q \in Payments \ {p} : g[q] = f[q]
  BY DEF Part
<1>3. IsFiniteSet(Payments)
  BY FiniteTables
<1> HIDE DEF f, g
<1>4. SumFunctionOnSet(g, Payments) = SumFunctionOnSet(f, Payments) - f[p] + g[p]
  BY <1>1, <1>2, <1>3, SumChange
<1> QED
  BY <1>4 DEF f, g, Booked

LEMMA BookedOfOne ==
  ASSUME NEW c, NEW states, NEW ps \in [Payments -> PaymentRow], NEW p \in Payments
  PROVE  Part(c, ps, states)[p] <= Booked(c, ps, states)
  BY PartType, FiniteTables, SumOfOne DEF Booked

-----------------------------------------------------------------------------
(* The money of the orders *)

Frozen(o) == order[o].status \in {"AWAITING_PAYMENT", "PAID"}

\* A step that leaves the books alone, and the orders the books are about.
LEMMA MoneyStandsStill ==
  ASSUME TypeOK, MoneyInv, UNCHANGED moneyVars,
         \A o \in Orders : Frozen(o) \/ Frozen(o)' =>
           order'[o].status = order[o].status /\ order'[o].total = order[o].total
  PROVE  MoneyInv'
<1>0. payment' = payment /\ checkout' = checkout
  BY DEF moneyVars
<1>1. \A c : Captured(c)' = Captured(c) /\ Pending(c)' = Pending(c) /\ Taken(c)' = Taken(c)
  BY <1>0 DEF Captured, Pending, Taken, Amount, PaymentsOf
<1>2. PaymentsAreOfCheckouts' /\ RefundsStayBelow' /\ NoPaymentLeftPending' /\ OneChargingCheckout'
  BY <1>0 DEF MoneyInv, PaymentsAreOfCheckouts, RefundsStayBelow, NoPaymentLeftPending,
              OneChargingCheckout, Charging
<1>3. CheckoutsFollowOrders'
  BY <1>0, <1>1 DEF MoneyInv, CheckoutsFollowOrders, Charging, Frozen
<1>4. OrdersFollowCheckouts'
  BY <1>0 DEF MoneyInv, OrdersFollowCheckouts, Frozen
<1> QED
  BY <1>2, <1>3, <1>4 DEF MoneyInv

LEMMA OrdersKeepMoney ==
  ASSUME TypeOK, MoneyInv, OrdersNext
  PROVE  MoneyInv'
<1>1. UNCHANGED moneyVars
  BY OrderSteps DEF KeepsTheRest
<1>2. PICK o \in Orders :
        \/ \E mode \in ServiceModes : CreateOrder(o, mode)
        \/ Composes(o)
        \/ Hold(o) \/ Resume(o) \/ Cancel(o)
  BY OrderSteps
<1>3. PICK row : order' = [order EXCEPT ![o] = row]
                 /\ row.status \notin {"AWAITING_PAYMENT", "PAID"} /\ ~ Frozen(o)
  <2>1. CASE \E mode \in ServiceModes : CreateOrder(o, mode)
    BY <2>1 DEF CreateOrder, NoOrder, Frozen
  <2>2. CASE Composes(o)
    <3>1. PICK q \in Quantities, D \in SUBSET Discounts : Recalculate(o, q, D)
      BY <2>2 DEF Composes
    <3>2. order' = [order EXCEPT ![o] = Recomposed(o, q, D)]
      BY <3>1, Recalculates
    <3>3. order[o].status = "OPEN"
      BY <2>2 DEF Composes, Mutable
    <3>4. Recomposed(o, q, D).status = order[o].status
      BY DEF Recomposed
    <3> QED
      BY <3>2, <3>3, <3>4 DEF Frozen
  <2>3. CASE Hold(o) \/ Resume(o) \/ Cancel(o)
    <3>1. PICK to \in {"OPEN", "HELD", "CANCELLED"} : order' = [Bumped(o) EXCEPT ![o].status = to]
      BY <2>3 DEF Hold, Resume, Cancel, Transition
    <3>2. order' = [order EXCEPT ![o] = Moved(o, to)] /\ Moved(o, to).status = to
      BY <3>1, Moves DEF Moved
    <3>3. order[o].status \in {"OPEN", "HELD"}
      BY <2>3 DEF Hold, Resume, Cancel, Transition, CancellableStatus
    <3> QED
      BY <3>2, <3>3 DEF Frozen
  <2> QED
    BY <1>2, <2>1, <2>2, <2>3
<1>4. \A x \in Orders : Frozen(x) \/ Frozen(x)' =>
         order'[x].status = order[x].status /\ order'[x].total = order[x].total
  BY <1>3 DEF TypeOK, Frozen
<1> QED
  BY <1>1, <1>4, MoneyStandsStill

LEMMA TablesKeepMoney ==
  ASSUME TypeOK, MoneyInv, TablesNext
  PROVE  MoneyInv'
<1>1. UNCHANGED moneyVars
  BY DEF TablesNext, CheckOpen, OpenSession, CheckMove, MoveSession, AttachOrder, FinishSession,
         UpdateSession, CheckDeactivate, DeactivateTable, ActivateTable, Refuse
<1>2. CASE UNCHANGED order
  BY <1>1, <1>2, MoneyStandsStill DEF Frozen
<1>3. CASE \E s \in Sessions, o \in Orders : AttachOrder(s, o)
  <2>1. PICK s \in Sessions, o \in Orders : AttachOrder(s, o)
    BY <1>3
  <2>2. order[o].status \in {"OPEN", "HELD"}
    BY <2>1 DEF AttachOrder
  <2>3. CASE order[o].mode = "TABLE"
    <3>1. UNCHANGED order
      BY <2>1, <2>3 DEF AttachOrder
    <3> QED
      BY <1>2, <3>1
  <2>4. CASE order[o].mode # "TABLE"
    <3> DEFINE row == Moved(o, order[o].status)
               b == [order EXCEPT ![o] = row]
    <3>1. order' = [b EXCEPT ![o].mode = "TABLE"]
      BY <2>1, <2>4, BumpedOrder DEF AttachOrder
    <3>2. row.status = order[o].status
      BY DEF Moved
    <3>3. [row EXCEPT !.mode = "TABLE"].status = row.status
      BY DEF Moved
    <3> HIDE DEF row
    <3>4. order' = [order EXCEPT ![o] = [row EXCEPT !.mode = "TABLE"]]
      BY <3>1 DEF TypeOK
    <3>5. \A x \in Orders : Frozen(x) \/ Frozen(x)' =>
             order'[x].status = order[x].status /\ order'[x].total = order[x].total
      BY <2>2, <3>2, <3>3, <3>4 DEF TypeOK, Frozen
    <3> QED
      BY <1>1, <3>5, MoneyStandsStill
  <2> QED
    BY <2>3, <2>4
<1> QED
  BY <1>2, <1>3 DEF TablesNext, CheckOpen, OpenSession, CheckMove, MoveSession, FinishSession,
         UpdateSession, CheckDeactivate, DeactivateTable, ActivateTable, Refuse, orderVars

LEMMA OthersKeepMoney ==
  ASSUME TypeOK, MoneyInv, DisplayNext \/ KitchenNext
  PROVE  MoneyInv'
<1>1. UNCHANGED <<order, moneyVars>>
  BY DEF DisplayNext, Show, KitchenNext, UpdateStation, RouteCategory, UnrouteCategory, Dispatch,
         TransitionTicket, orderVars
<1> QED
  BY <1>1, MoneyStandsStill DEF Frozen

\* The order of a checkout gets another status, with nothing else in it but the version.
LEMMA OrderMoves ==
  ASSUME TypeOK, NEW o \in Orders, NEW to, order' = [Bumped(o) EXCEPT ![o].status = to]
  PROVE  /\ order'[o].status = to /\ order'[o].total = order[o].total
         /\ order'[o].discounts = order[o].discounts
         /\ order'[o].version = order[o].version + 1
         /\ \A x \in Orders \ {o} : order'[x] = order[x]
<1>1. order' = [order EXCEPT ![o] = Moved(o, to)]
  BY Moves
<1>2. order'[o] = Moved(o, to) /\ \A x \in Orders \ {o} : order'[x] = order[x]
  <2> DEFINE row == Moved(o, to)
  <2> HIDE DEF row
  <2> QED
    BY <1>1 DEF TypeOK, row
<1> QED
  BY <1>2 DEF Moved

LEMMA OpeningKeepsMoney ==
  ASSUME TypeOK, TypeOK', MoneyInv, TotalsFollowLines,
         NEW c \in Checkouts, NEW o \in Orders, OpenCheckout(o, c)
  PROVE  MoneyInv'
<1> DEFINE row == [status |-> "OPEN", order |-> o, total |-> order[o].total]
<1>1. /\ checkout[c].status = "NONE" /\ order[o].status = "OPEN" /\ order[o].total > 0
      /\ checkout' = [checkout EXCEPT ![c] = row]
      /\ payment' = payment
  BY DEF OpenCheckout
<1>2. checkout'[c] = row /\ \A d \in Checkouts \ {c} : checkout'[d] = checkout[d]
  BY <1>1, MoneyTypes
<1>3. /\ order'[o].status = "AWAITING_PAYMENT" /\ order'[o].total = order[o].total
      /\ \A x \in Orders \ {o} : order'[x] = order[x]
  BY OrderMoves DEF OpenCheckout
<1>4. \A d : Captured(d)' = Captured(d) /\ Pending(d)' = Pending(d) /\ Taken(d)' = Taken(d)
  BY <1>1 DEF Captured, Pending, Taken, Amount, PaymentsOf
<1>5. \A p \in Payments : payment[p].status # "NONE" => payment[p].checkout # c
  BY <1>1 DEF MoneyInv, PaymentsAreOfCheckouts
<1>6. Captured(c) = 0 /\ Pending(c) = 0
  <2>1. \A p \in Payments : Part(c, payment, {"CAPTURED"})[p] = 0
                            /\ Part(c, payment, {"PENDING"})[p] = 0
    BY <1>5 DEF Part
  <2>2. Booked(c, payment, {"CAPTURED"}) = 0 /\ Booked(c, payment, {"PENDING"}) = 0
    BY <2>1, FiniteTables, SumOfZeros DEF Booked
  <2> QED
    BY <2>2, BooksOf, MoneyTypes
<1>7. PaymentsAreOfCheckouts' /\ RefundsStayBelow' /\ NoPaymentLeftPending'
  <2>1. ASSUME NEW p \in Payments, payment[p].status # "NONE"
        PROVE  checkout'[payment[p].checkout] = checkout[payment[p].checkout]
    BY <1>2, <1>5, <2>1 DEF MoneyInv, PaymentsAreOfCheckouts
  <2> QED
    BY <1>1, <2>1 DEF MoneyInv, PaymentsAreOfCheckouts, RefundsStayBelow, NoPaymentLeftPending
<1>8. CheckoutsFollowOrders'
  <2>1. ASSUME NEW d \in Checkouts, d # c
        PROVE  /\ checkout'[d].status # "NONE" => checkout'[d].order \in Orders
               /\ Charging(d)' => checkout'[d].total = order'[checkout'[d].order].total
               /\ checkout'[d].status = "OPEN" =>
                    order'[checkout'[d].order].status = "AWAITING_PAYMENT"
                    /\ Captured(d)' < checkout'[d].total
               /\ checkout'[d].status = "COMPLETED" =>
                    order'[checkout'[d].order].status = "PAID" /\ Taken(d)' >= checkout'[d].total
               /\ Captured(d)' + Pending(d)' <= checkout'[d].total
    <3>1. checkout'[d] = checkout[d]
      BY <1>2, <2>1
    <3>2. Charging(d) => checkout[d].order # o
      BY <1>1 DEF MoneyInv, CheckoutsFollowOrders, Charging
    <3>3. Charging(d) => order'[checkout[d].order] = order[checkout[d].order]
      BY <1>3, <3>2 DEF MoneyInv, CheckoutsFollowOrders, Charging
    <3> QED
      BY <1>4, <3>1, <3>3 DEF MoneyInv, CheckoutsFollowOrders, Charging
  <2>2. order[o].total \in Nat
    BY OrderType
  <2>3. /\ checkout'[c].order = o /\ checkout'[c].total = order[o].total
        /\ checkout'[c].status = "OPEN"
    BY <1>2
  <2>4. Captured(c)' = 0 /\ Pending(c)' = 0
    BY <1>4, <1>6
  <2>5. /\ checkout'[c].status # "NONE" => checkout'[c].order \in Orders
        /\ Charging(c)' => checkout'[c].total = order'[checkout'[c].order].total
        /\ checkout'[c].status = "OPEN" =>
             order'[checkout'[c].order].status = "AWAITING_PAYMENT"
             /\ Captured(c)' < checkout'[c].total
        /\ checkout'[c].status # "COMPLETED"
        /\ Captured(c)' + Pending(c)' <= checkout'[c].total
    BY <1>1, <1>3, <2>2, <2>3, <2>4
  <2> QED
    BY <2>1, <2>5 DEF CheckoutsFollowOrders, Charging
<1>9. OneChargingCheckout'
  BY <1>1, <1>2 DEF MoneyInv, OneChargingCheckout, CheckoutsFollowOrders, Charging
<1>10. OrdersFollowCheckouts'
  <2>1. ASSUME NEW x \in Orders, NEW d \in Checkouts, checkout[d].order = x,
               checkout[d].status \in {"OPEN", "COMPLETED"}
        PROVE  checkout'[d] = checkout[d]
    BY <1>1, <1>2, <2>1
  <2> QED
    BY <1>2, <1>3, <2>1 DEF MoneyInv, OrdersFollowCheckouts
<1> QED
  BY <1>7, <1>8, <1>9, <1>10 DEF MoneyInv

\* A payment of an open checkout is written and the checkout refreshed.
LEMMA RefreshKeepsMoney ==
  ASSUME TypeOK, MoneyInv, NEW c \in Checkouts, CheckoutOpen(c), NEW p \in Payments,
         payment[p].status = "NONE" \/ payment[p].checkout = c,
         NEW ps \in [Payments -> PaymentRow], \A q \in Payments \ {p} : ps[q] = payment[q],
         ps[p].checkout = c, ps[p].amount > 0, ps[p].refunded <= ps[p].amount,
         ps[p].status \in {"CAPTURED", "FAILED", "CANCELLED"},
         Booked(c, ps, {"CAPTURED"}) + Booked(c, ps, {"PENDING"}) <= checkout[c].total,
         RefreshCheckout(c, ps)
  PROVE  MoneyInv'
<1> DEFINE o == checkout[c].order
<1>1. payment' = ps
  BY DEF RefreshCheckout
<1>2. /\ o \in Orders /\ order[o].status = "AWAITING_PAYMENT" /\ order[o].total = checkout[c].total
      /\ checkout[c].status = "OPEN"
  BY DEF CheckoutOpen, MoneyInv, CheckoutsFollowOrders
<1> DEFINE cap == Booked(c, ps, {"CAPTURED"})
           pend == Booked(c, ps, {"PENDING"})
<1>3. cap \in Nat /\ pend \in Nat /\ checkout[c].total \in Nat
  BY <1>1, BookedType, MoneyTypes DEF CheckoutRow
<1>4. \A d : /\ Captured(d)' = Booked(d, ps, {"CAPTURED"})
             /\ Pending(d)' = Booked(d, ps, {"PENDING"})
             /\ Taken(d)' = Booked(d, ps, TakenStates)
  BY <1>1, BooksOfNext
<1>5. ASSUME NEW d \in Checkouts, d # c
      PROVE  Captured(d)' = Captured(d) /\ Pending(d)' = Pending(d) /\ Taken(d)' = Taken(d)
  <2>1. /\ Booked(d, ps, {"CAPTURED"}) = Booked(d, payment, {"CAPTURED"})
        /\ Booked(d, ps, {"PENDING"}) = Booked(d, payment, {"PENDING"})
        /\ Booked(d, ps, TakenStates) = Booked(d, payment, TakenStates)
    <3>1. ASSUME NEW states, "NONE" \notin states
          PROVE  Booked(d, ps, states) = Booked(d, payment, states)
      <4>1. \A q \in Payments : Part(d, ps, states)[q] = Part(d, payment, states)[q]
        BY <1>5, <3>1 DEF Part
      <4> QED
        BY <4>1, BookedSame
    <3>2. "NONE" \notin {"CAPTURED"} /\ "NONE" \notin {"PENDING"} /\ "NONE" \notin TakenStates
      BY DEF TakenStates
    <3> QED
      BY <3>1, <3>2
  <2> QED
    BY <1>4, <2>1, BooksOf, MoneyTypes
<1>6. Complete(c, ps) <=> cap = checkout[c].total
  BY CompleteIsBooked
<1>7. RefundsStayBelow'
  BY <1>1 DEF MoneyInv, RefundsStayBelow
<1>8. CASE Complete(c, ps)
  <2>1. checkout' = [checkout EXCEPT ![c].status = "COMPLETED"]
        /\ order' = [Bumped(o) EXCEPT ![o].status = "PAID"]
    BY <1>8 DEF RefreshCheckout
  <2>2. /\ checkout'[c].status = "COMPLETED" /\ checkout'[c].order = o
        /\ checkout'[c].total = checkout[c].total
        /\ \A d \in Checkouts \ {c} : checkout'[d] = checkout[d]
    <3> DEFINE old == checkout[c]
    <3>1. checkout' = [checkout EXCEPT ![c] = [old EXCEPT !.status = "COMPLETED"]]
      BY <2>1
    <3>2. [old EXCEPT !.status = "COMPLETED"].status = "COMPLETED"
          /\ [old EXCEPT !.status = "COMPLETED"].order = old.order
          /\ [old EXCEPT !.status = "COMPLETED"].total = old.total
      BY MoneyTypes DEF CheckoutRow
    <3> QED
      BY <3>1, <3>2, MoneyTypes
  <2>3. /\ order'[o].status = "PAID" /\ order'[o].total = order[o].total
        /\ \A x \in Orders \ {o} : order'[x] = order[x]
    BY <1>2, <2>1, OrderMoves
  <2>4. pend = 0 /\ cap = checkout[c].total
    BY <1>3, <1>6, <1>8
  <2>5. ASSUME NEW q \in Payments, ps[q].checkout = c, ps[q].status = "PENDING" PROVE FALSE
    <3>1. q # p /\ ps[q] = payment[q] /\ ps[q].amount \in Nat
      BY <1>1, <2>5 DEF PaymentRow
    <3>2. ps[q].amount > 0
      BY <2>5, <3>1 DEF MoneyInv, PaymentsAreOfCheckouts
    <3>3. Part(c, ps, {"PENDING"})[q] = ps[q].amount
      BY <2>5 DEF Part
    <3>4. Part(c, ps, {"PENDING"})[q] <= pend
      BY <1>1, BookedOfOne
    <3> QED
      BY <2>4, <3>1, <3>2, <3>3, <3>4
  <2>6. PaymentsAreOfCheckouts'
    <3>1. ASSUME NEW q \in Payments, ps[q].status # "NONE"
          PROVE  ps[q].checkout \in Checkouts /\ checkout'[ps[q].checkout].status # "NONE"
                 /\ ps[q].amount > 0
      BY <1>1, <2>2, <3>1 DEF MoneyInv, PaymentsAreOfCheckouts
    <3> QED
      BY <1>1, <3>1 DEF PaymentsAreOfCheckouts
  <2>7. NoPaymentLeftPending'
    <3>1. ASSUME NEW q \in Payments, ps[q].status = "PENDING"
          PROVE  checkout'[ps[q].checkout].status = "OPEN"
      <4>1. q # p /\ ps[q] = payment[q] /\ ps[q].checkout \in Checkouts /\ ps[q].checkout # c
        BY <1>1, <2>5, <3>1 DEF MoneyInv, PaymentsAreOfCheckouts
      <4> QED
        BY <2>2, <3>1, <4>1 DEF MoneyInv, NoPaymentLeftPending
    <3> QED
      BY <1>1, <3>1 DEF NoPaymentLeftPending
  <2>8. CheckoutsFollowOrders'
    <3>1. ASSUME NEW d \in Checkouts, d # c
          PROVE  /\ checkout'[d] = checkout[d]
                 /\ Charging(d) => order'[checkout[d].order] = order[checkout[d].order]
      BY <1>2, <2>2, <2>3, <3>1 DEF MoneyInv, OneChargingCheckout, CheckoutsFollowOrders, Charging
    <3>2. Taken(c)' >= checkout[c].total
      <4>1. \A q \in Payments :
              Part(c, ps, {"CAPTURED"})[q] <= Part(c, ps, TakenStates)[q]
        BY <1>1 DEF Part, TakenStates, PaymentRow
      <4>2. cap <= Booked(c, ps, TakenStates)
        BY <1>1, <4>1, BookedLess
      <4> QED
        BY <1>4, <2>4, <4>2
    <3>3. Captured(c)' + Pending(c)' <= checkout[c].total
      BY <1>4
    <3> HIDE DEF o, cap, pend
    <3>4. ASSUME NEW d \in Checkouts, d # c
          PROVE  /\ checkout'[d].status # "NONE" => checkout'[d].order \in Orders
                 /\ Charging(d)' => checkout'[d].total = order'[checkout'[d].order].total
                 /\ checkout'[d].status = "OPEN" =>
                      order'[checkout'[d].order].status = "AWAITING_PAYMENT"
                      /\ Captured(d)' < checkout'[d].total
                 /\ checkout'[d].status = "COMPLETED" =>
                      order'[checkout'[d].order].status = "PAID"
                      /\ Taken(d)' >= checkout'[d].total
                 /\ Captured(d)' + Pending(d)' <= checkout'[d].total
      BY <1>5, <3>1, <3>4 DEF MoneyInv, CheckoutsFollowOrders, Charging
    <3> QED
      BY <1>2, <2>2, <2>3, <3>2, <3>3, <3>4 DEF CheckoutsFollowOrders, Charging, o
  <2>9. OneChargingCheckout'
    BY <1>2, <2>2 DEF MoneyInv, OneChargingCheckout, Charging
  <2>10. OrdersFollowCheckouts'
    <3>1. ASSUME NEW x \in Orders, x # o, NEW d \in Checkouts, checkout[d].order = x
          PROVE  checkout'[d] = checkout[d] /\ order'[x] = order[x]
      BY <2>2, <2>3, <3>1
    <3>2. ASSUME NEW x \in Orders, x # o PROVE order'[x] = order[x]
      BY <2>3, <3>2
    <3> HIDE DEF o, cap, pend
    <3> QED
      BY <2>2, <2>3, <3>1, <3>2 DEF MoneyInv, OrdersFollowCheckouts
  <2> QED
    BY <1>7, <2>6, <2>7, <2>8, <2>9, <2>10 DEF MoneyInv
<1>9. CASE ~ Complete(c, ps)
  <2>1. checkout' = checkout /\ order' = order
    BY <1>9 DEF RefreshCheckout
  <2>2. PaymentsAreOfCheckouts' /\ NoPaymentLeftPending'
    <3>1. ASSUME NEW q \in Payments, ps[q].status # "NONE"
          PROVE  ps[q].checkout \in Checkouts /\ checkout[ps[q].checkout].status # "NONE"
                 /\ ps[q].amount > 0
                 /\ (ps[q].status = "PENDING" => checkout[ps[q].checkout].status = "OPEN")
      BY <1>1, <1>2, <3>1 DEF MoneyInv, PaymentsAreOfCheckouts, NoPaymentLeftPending
    <3>2. payment' = ps
      BY <1>1
    <3>3. PaymentsAreOfCheckouts'
      BY <2>1, <3>1, <3>2 DEF PaymentsAreOfCheckouts
    <3>4. NoPaymentLeftPending'
      BY <2>1, <3>1, <3>2 DEF NoPaymentLeftPending
    <3> QED
      BY <3>3, <3>4
  <2>3. Captured(c)' < checkout[c].total /\ Captured(c)' + Pending(c)' <= checkout[c].total
    <3>1. Captured(c)' = cap /\ Pending(c)' = pend
      BY <1>4
    <3>2. cap # checkout[c].total /\ cap + pend <= checkout[c].total
      BY <1>6, <1>9
    <3> HIDE DEF cap, pend
    <3> QED
      BY <1>3, <3>1, <3>2
  <2>4. CheckoutsFollowOrders'
    <3> HIDE DEF o, cap, pend
    <3>1. ASSUME NEW d \in Checkouts
          PROVE  /\ checkout[d].status # "NONE" => checkout[d].order \in Orders
                 /\ Charging(d) => checkout[d].total = order[checkout[d].order].total
                 /\ checkout[d].status = "OPEN" =>
                      order[checkout[d].order].status = "AWAITING_PAYMENT"
                      /\ Captured(d)' < checkout[d].total
                 /\ checkout[d].status = "COMPLETED" =>
                      order[checkout[d].order].status = "PAID" /\ Taken(d)' >= checkout[d].total
                 /\ Captured(d)' + Pending(d)' <= checkout[d].total
      <4>1. CASE d = c
        BY <1>2, <2>3, <4>1 DEF MoneyInv, CheckoutsFollowOrders, Charging
      <4>2. CASE d # c
        BY <1>5, <4>2 DEF MoneyInv, CheckoutsFollowOrders, Charging
      <4> QED
        BY <4>1, <4>2
    <3> QED
      BY <2>1, <3>1 DEF CheckoutsFollowOrders, Charging
  <2>5. OneChargingCheckout' /\ OrdersFollowCheckouts'
    BY <2>1 DEF MoneyInv, OneChargingCheckout, Charging, OrdersFollowCheckouts
  <2> QED
    BY <1>7, <2>2, <2>4, <2>5 DEF MoneyInv
<1> QED
  BY <1>8, <1>9

\* A new payment fits what is neither captured nor pending.
LEMMA CreatingKeepsMoney ==
  ASSUME TypeOK, MoneyInv, NEW c \in Checkouts, NEW p \in Payments,
         NEW method \in {"CASH", "CARD", "OTHER"}, NEW a \in Amounts(c),
         CreatePayment(c, p, method, a)
  PROVE  MoneyInv'
<1> DEFINE row == [status |-> IF method = "CASH" THEN "CAPTURED" ELSE "PENDING",
                   checkout |-> c, method |-> method, amount |-> a, refunded |-> 0]
           ps == [payment EXCEPT ![p] = row]
           cap(qs) == Booked(c, qs, {"CAPTURED"})
           pend(qs) == Booked(c, qs, {"PENDING"})
<1>1. /\ payment[p].status = "NONE" /\ CheckoutOpen(c)
      /\ a <= checkout[c].total - cap(payment) - pend(payment)
  BY BooksOf, MoneyTypes DEF CreatePayment, Available
<1>2. checkout[c].total \in Nat /\ a \in Nat /\ a > 0
  <2>1. checkout[c].total \in Nat
    BY MoneyTypes DEF CheckoutRow
  <2> QED
    BY <2>1 DEF Amounts
<1>3. row \in PaymentRow
  BY <1>2 DEF PaymentRow, PaymentStatus
<1>4. /\ ps \in [Payments -> PaymentRow] /\ ps[p] = row
      /\ \A q \in Payments \ {p} : ps[q] = payment[q]
  BY <1>3, MoneyTypes
<1>5. /\ row.checkout = c /\ row.amount = a /\ row.refunded = 0
      /\ row.status = IF method = "CASH" THEN "CAPTURED" ELSE "PENDING"
  OBVIOUS
<1>6. Part(c, payment, {"CAPTURED"})[p] = 0 /\ Part(c, payment, {"PENDING"})[p] = 0
  BY <1>1 DEF Part
<1>7. /\ cap(payment) \in Nat /\ pend(payment) \in Nat
      /\ cap(ps) = cap(payment) + (IF method = "CASH" THEN a ELSE 0)
      /\ pend(ps) = pend(payment) + (IF method = "CASH" THEN 0 ELSE a)
  <2> HIDE DEF row
  <2>1. cap(payment) \in Nat /\ pend(payment) \in Nat
    BY BookedType, MoneyTypes
  <2>2. Part(c, ps, {"CAPTURED"})[p] = (IF method = "CASH" THEN a ELSE 0)
        /\ Part(c, ps, {"PENDING"})[p] = (IF method = "CASH" THEN 0 ELSE a)
    <3> HIDE DEF ps
    <3> QED
      BY <1>4, <1>5 DEF Part
  <2> HIDE DEF ps
  <2>3. cap(ps) = cap(payment) - Part(c, payment, {"CAPTURED"})[p] + Part(c, ps, {"CAPTURED"})[p]
    BY <1>4, BookedChange, MoneyTypes
  <2>4. pend(ps) = pend(payment) - Part(c, payment, {"PENDING"})[p] + Part(c, ps, {"PENDING"})[p]
    BY <1>4, BookedChange, MoneyTypes
  <2> HIDE DEF cap, pend
  <2> QED
    BY <1>2, <1>6, <2>1, <2>2, <2>3, <2>4
<1>8. cap(ps) + pend(ps) <= checkout[c].total
  <2> HIDE DEF cap, pend, ps
  <2> QED
    BY <1>1, <1>2, <1>7
<1>9. CASE method = "CASH"
  <2>1. RefreshCheckout(c, ps)
    BY <1>9 DEF CreatePayment
  <2>2. ps[p].checkout = c /\ ps[p].amount > 0 /\ ps[p].refunded <= ps[p].amount
        /\ ps[p].status \in {"CAPTURED", "FAILED", "CANCELLED"}
    BY <1>2, <1>4, <1>5, <1>9
  <2> HIDE DEF row, ps
  <2> QED
    BY <1>1, <1>4, <1>8, <2>1, <2>2, RefreshKeepsMoney
<1>10. CASE method # "CASH"
  <2>1. payment' = ps /\ order' = order /\ checkout' = checkout
    BY <1>10 DEF CreatePayment, orderVars
  <2> HIDE DEF row, ps
  <2>2. ASSUME NEW d \in Checkouts
        PROVE  /\ Captured(d)' = Captured(d) /\ Taken(d)' = Taken(d)
               /\ d # c => Pending(d)' = Pending(d)
               /\ d = c => Pending(d)' = pend(ps)
    <3>1. \A q \in Payments :
            /\ Part(d, ps, {"CAPTURED"})[q] = Part(d, payment, {"CAPTURED"})[q]
            /\ Part(d, ps, TakenStates)[q] = Part(d, payment, TakenStates)[q]
            /\ d # c => Part(d, ps, {"PENDING"})[q] = Part(d, payment, {"PENDING"})[q]
      BY <1>1, <1>4, <1>5, <1>10 DEF Part, TakenStates
    <3>2. /\ Booked(d, ps, {"CAPTURED"}) = Booked(d, payment, {"CAPTURED"})
          /\ Booked(d, ps, TakenStates) = Booked(d, payment, TakenStates)
      BY <3>1, BookedSame
    <3>3. d # c => Booked(d, ps, {"PENDING"}) = Booked(d, payment, {"PENDING"})
      BY <3>1, BookedSame
    <3>4. payment \in [Payments -> PaymentRow] /\ payment' \in [Payments -> PaymentRow]
      BY <1>4, <2>1, MoneyTypes
    <3>5. /\ Captured(d)' = Booked(d, ps, {"CAPTURED"}) /\ Taken(d)' = Booked(d, ps, TakenStates)
          /\ Pending(d)' = Booked(d, ps, {"PENDING"})
      BY <2>1, <3>4, BooksOfNext
    <3>6. /\ Captured(d) = Booked(d, payment, {"CAPTURED"})
          /\ Taken(d) = Booked(d, payment, TakenStates)
          /\ Pending(d) = Booked(d, payment, {"PENDING"})
      BY <3>4, BooksOf
    <3> QED
      BY <3>2, <3>3, <3>5, <3>6
  <2>3. PaymentsAreOfCheckouts'
    <3>1. checkout[c].status # "NONE"
      BY <1>1 DEF CheckoutOpen
    <3> QED
      BY <1>2, <1>4, <1>5, <2>1, <3>1 DEF MoneyInv, PaymentsAreOfCheckouts
  <2>4. RefundsStayBelow' /\ NoPaymentLeftPending'
    <3>1. checkout[c].status = "OPEN"
      BY <1>1 DEF CheckoutOpen
    <3> QED
      BY <1>2, <1>4, <1>5, <2>1, <3>1 DEF MoneyInv, RefundsStayBelow, NoPaymentLeftPending
  <2>5. CheckoutsFollowOrders'
    <3>1. cap(ps) = Captured(c)
      <4>1. cap(payment) = Captured(c)
        BY BooksOf, MoneyTypes
      <4> HIDE DEF cap, pend
      <4> QED
        BY <1>7, <1>10, <4>1
    <3>2. ASSUME NEW d \in Checkouts PROVE Captured(d)' + Pending(d)' <= checkout[d].total
      <4>1. CASE d = c
        <5>1. Captured(d)' = cap(ps) /\ Pending(d)' = pend(ps)
          BY <2>2, <3>1, <4>1
        <5> HIDE DEF cap, pend
        <5> QED
          BY <1>8, <4>1, <5>1
      <4>2. CASE d # c
        BY <2>2, <4>2 DEF MoneyInv, CheckoutsFollowOrders
      <4> QED
        BY <4>1, <4>2
    <3>3. \A d \in Checkouts : Captured(d)' = Captured(d) /\ Taken(d)' = Taken(d)
      BY <2>2
    <3> HIDE DEF cap, pend
    <3> QED
      BY <2>1, <3>2, <3>3 DEF MoneyInv, CheckoutsFollowOrders, Charging
  <2>6. OneChargingCheckout' /\ OrdersFollowCheckouts'
    BY <2>1 DEF MoneyInv, OneChargingCheckout, Charging, OrdersFollowCheckouts
  <2> QED
    BY <2>3, <2>4, <2>5, <2>6 DEF MoneyInv
<1> QED
  BY <1>9, <1>10

LEMMA ResolvingKeepsMoney ==
  ASSUME TypeOK, MoneyInv, NEW p \in Payments, NEW to \in {"CAPTURED", "FAILED", "CANCELLED"},
         ResolvePayment(p, to)
  PROVE  MoneyInv'
<1> DEFINE c == payment[p].checkout
           ps == [payment EXCEPT ![p].status = to]
           row == ps[p]
           cap(qs) == Booked(c, qs, {"CAPTURED"})
           pend(qs) == Booked(c, qs, {"PENDING"})
<1>1. /\ payment[p].status = "PENDING" /\ CheckoutOpen(c) /\ RefreshCheckout(c, ps)
      /\ c \in Checkouts /\ payment[p].amount > 0
  BY DEF ResolvePayment, MoneyInv, PaymentsAreOfCheckouts
<1>2. ps \in [Payments -> PaymentRow]
  BY StatusTypes DEF PaymentStatus
<1>3. /\ row.status = to /\ row.checkout = c /\ row.amount = payment[p].amount
      /\ row.refunded = payment[p].refunded /\ row \in PaymentRow
      /\ \A q \in Payments \ {p} : ps[q] = payment[q]
  <2> DEFINE old == payment[p]
             new == [old EXCEPT !.status = to]
  <2>1. ps = [payment EXCEPT ![p] = new]
    OBVIOUS
  <2>2. new.status = to /\ new.checkout = old.checkout /\ new.amount = old.amount
        /\ new.refunded = old.refunded
    BY MoneyTypes DEF PaymentRow
  <2> HIDE DEF new
  <2>3. ps[p] = new /\ \A q \in Payments \ {p} : ps[q] = payment[q]
    BY <2>1, MoneyTypes
  <2> HIDE DEF ps
  <2> QED
    BY <1>2, <2>2, <2>3
<1>4. Part(c, payment, {"CAPTURED"})[p] = 0 /\ Part(c, payment, {"PENDING"})[p] = payment[p].amount
  BY <1>1 DEF Part
<1> HIDE DEF ps
<1>5. /\ Part(c, ps, {"CAPTURED"})[p] = (IF to = "CAPTURED" THEN payment[p].amount ELSE 0)
      /\ Part(c, ps, {"PENDING"})[p] = 0
  BY <1>3 DEF Part
<1>6. /\ cap(ps) = cap(payment) - 0 + (IF to = "CAPTURED" THEN payment[p].amount ELSE 0)
      /\ pend(ps) = pend(payment) - payment[p].amount + 0
  <2>1. cap(ps) = cap(payment) - Part(c, payment, {"CAPTURED"})[p] + Part(c, ps, {"CAPTURED"})[p]
    BY <1>2, <1>3, BookedChange, MoneyTypes
  <2>2. pend(ps) = pend(payment) - Part(c, payment, {"PENDING"})[p] + Part(c, ps, {"PENDING"})[p]
    BY <1>2, <1>3, BookedChange, MoneyTypes
  <2> HIDE DEF cap, pend
  <2> QED
    BY <1>4, <1>5, <2>1, <2>2
<1>7. cap(payment) \in Nat /\ pend(payment) \in Nat /\ payment[p].amount \in Nat
      /\ cap(payment) + pend(payment) <= checkout[c].total
  <2>1. cap(payment) = Captured(c) /\ pend(payment) = Pending(c)
    BY BooksOf, MoneyTypes
  <2>2. Captured(c) + Pending(c) <= checkout[c].total
    BY <1>1 DEF MoneyInv, CheckoutsFollowOrders
  <2>3. cap(payment) \in Nat /\ pend(payment) \in Nat
    BY BookedType, MoneyTypes
  <2>4. payment[p].amount \in Nat
    BY MoneyTypes DEF PaymentRow
  <2> HIDE DEF cap, pend
  <2> QED
    BY <2>1, <2>2, <2>3, <2>4
<1>8. checkout[c].total \in Nat
  BY <1>1, MoneyTypes DEF CheckoutRow
<1>9. cap(ps) + pend(ps) <= checkout[c].total
  <2> HIDE DEF cap, pend
  <2> QED
    BY <1>3, <1>6, <1>7, <1>8
<1>10. /\ ps[p].checkout = c /\ ps[p].amount > 0 /\ ps[p].refunded <= ps[p].amount
       /\ ps[p].status \in {"CAPTURED", "FAILED", "CANCELLED"}
  BY <1>1, <1>3 DEF row, MoneyInv, RefundsStayBelow
<1>11. payment[p].status = "NONE" \/ payment[p].checkout = c
  OBVIOUS
<1> HIDE DEF c
<1> QED
  BY <1>1, <1>2, <1>3, <1>9, <1>10, <1>11, RefreshKeepsMoney

\* A checkout that is given up: its order is open again, and nothing of it is pending.
LEMMA ReleasingKeepsMoney ==
  ASSUME TypeOK, MoneyInv, NEW c \in Checkouts, CancelCheckout(c)
  PROVE  MoneyInv'
<1> DEFINE o == checkout[c].order
           ps == WithoutPending(c)
<1>1. /\ checkout[c].status = "OPEN" /\ order[o].status = "AWAITING_PAYMENT"
      /\ payment' = ps /\ o \in Orders
      /\ checkout' = [checkout EXCEPT ![c].status = "CANCELLED"]
      /\ order' = [Bumped(o) EXCEPT ![o].status = "OPEN"]
  BY DEF CancelCheckout, CheckoutOpen, MoneyInv, CheckoutsFollowOrders
<1>2. ASSUME NEW q \in Payments
      PROVE  /\ ps[q] \in PaymentRow
             /\ ps[q].checkout = payment[q].checkout /\ ps[q].amount = payment[q].amount
             /\ ps[q].refunded = payment[q].refunded
             /\ IF payment[q].checkout = c /\ payment[q].status = "PENDING"
                  THEN ps[q].status = "CANCELLED" ELSE ps[q].status = payment[q].status
  <2> DEFINE old == payment[q]
  <2>1. old \in PaymentRow
    BY MoneyTypes
  <2>2. ps[q] = IF old.checkout = c /\ old.status = "PENDING"
                  THEN [old EXCEPT !.status = "CANCELLED"] ELSE old
    BY DEF WithoutPending
  <2> HIDE DEF old, ps
  <2>3. ps[q] \in PaymentRow
        /\ ps[q].checkout = old.checkout /\ ps[q].amount = old.amount
        /\ ps[q].refunded = old.refunded
        /\ IF old.checkout = c /\ old.status = "PENDING"
             THEN ps[q].status = "CANCELLED" ELSE ps[q].status = old.status
    BY <2>1, <2>2 DEF PaymentRow, PaymentStatus
  <2> QED
    BY <2>3 DEF old
<1>3. ps \in [Payments -> PaymentRow]
  <2>1. ps = [q \in Payments |-> ps[q]]
    BY DEF WithoutPending
  <2> HIDE DEF ps
  <2> QED
    BY <1>2, <2>1
<1> HIDE DEF ps
<1>4. ASSUME NEW d \in Checkouts
      PROVE  /\ Captured(d)' = Captured(d) /\ Taken(d)' = Taken(d)
             /\ d # c => Pending(d)' = Pending(d)
             /\ Pending(d)' <= Pending(d)
             /\ {Captured(d), Pending(d), Pending(d)'} \subseteq Nat
  <2>1. \A q \in Payments :
          /\ Part(d, ps, {"CAPTURED"})[q] = Part(d, payment, {"CAPTURED"})[q]
          /\ Part(d, ps, TakenStates)[q] = Part(d, payment, TakenStates)[q]
          /\ d # c => Part(d, ps, {"PENDING"})[q] = Part(d, payment, {"PENDING"})[q]
    BY <1>2 DEF Part, TakenStates
  <2>2. \A q \in Payments : Part(d, ps, {"PENDING"})[q] <= Part(d, payment, {"PENDING"})[q]
    BY <1>2, MoneyTypes DEF Part, PaymentRow
  <2>3. /\ Booked(d, ps, {"CAPTURED"}) = Booked(d, payment, {"CAPTURED"})
        /\ Booked(d, ps, TakenStates) = Booked(d, payment, TakenStates)
    BY <2>1, BookedSame
  <2>4. d # c => Booked(d, ps, {"PENDING"}) = Booked(d, payment, {"PENDING"})
    BY <2>1, BookedSame
  <2>5. Booked(d, ps, {"PENDING"}) <= Booked(d, payment, {"PENDING"})
    BY <1>3, <2>2, BookedLess, MoneyTypes
  <2>6. /\ Captured(d)' = Booked(d, ps, {"CAPTURED"}) /\ Taken(d)' = Booked(d, ps, TakenStates)
        /\ Pending(d)' = Booked(d, ps, {"PENDING"})
    BY <1>1, <1>3, BooksOfNext
  <2>7. /\ Captured(d) = Booked(d, payment, {"CAPTURED"})
        /\ Taken(d) = Booked(d, payment, TakenStates)
        /\ Pending(d) = Booked(d, payment, {"PENDING"})
    BY BooksOf, MoneyTypes
  <2>8. /\ Booked(d, payment, {"CAPTURED"}) \in Nat /\ Booked(d, payment, {"PENDING"}) \in Nat
        /\ Booked(d, ps, {"PENDING"}) \in Nat
    BY <1>3, BookedType, MoneyTypes
  <2> QED
    BY <2>3, <2>4, <2>5, <2>6, <2>7, <2>8
<1>5. /\ checkout'[c].status = "CANCELLED" /\ checkout'[c].order = o
      /\ checkout'[c].total = checkout[c].total
      /\ \A d \in Checkouts \ {c} : checkout'[d] = checkout[d]
  <2> DEFINE old == checkout[c]
             new == [old EXCEPT !.status = "CANCELLED"]
  <2>1. checkout' = [checkout EXCEPT ![c] = new]
    BY <1>1
  <2>2. new.status = "CANCELLED" /\ new.order = old.order /\ new.total = old.total
    BY MoneyTypes DEF CheckoutRow
  <2> HIDE DEF new
  <2> QED
    BY <2>1, <2>2, MoneyTypes
<1>6. order'[o].status = "OPEN" /\ \A x \in Orders \ {o} : order'[x] = order[x]
  BY <1>1, OrderMoves
<1>7. PaymentsAreOfCheckouts'
  <2>1. ASSUME NEW q \in Payments, ps[q].status # "NONE"
        PROVE  ps[q].checkout \in Checkouts /\ checkout'[ps[q].checkout].status # "NONE"
               /\ ps[q].amount > 0
    BY <1>2, <1>5, <2>1 DEF MoneyInv, PaymentsAreOfCheckouts
  <2> QED
    BY <1>1, <2>1 DEF PaymentsAreOfCheckouts
<1>8. RefundsStayBelow'
  BY <1>1, <1>2 DEF MoneyInv, RefundsStayBelow
<1>9. NoPaymentLeftPending'
  <2>1. ASSUME NEW q \in Payments, ps[q].status = "PENDING"
        PROVE  checkout'[ps[q].checkout].status = "OPEN"
    BY <1>2, <1>5, <2>1 DEF MoneyInv, PaymentsAreOfCheckouts, NoPaymentLeftPending
  <2> QED
    BY <1>1, <2>1 DEF NoPaymentLeftPending
<1>10. CheckoutsFollowOrders'
  <2>1. ASSUME NEW d \in Checkouts, d # c
        PROVE  /\ checkout'[d] = checkout[d]
               /\ Charging(d) => order'[checkout[d].order] = order[checkout[d].order]
    BY <1>1, <1>5, <1>6, <2>1 DEF MoneyInv, OneChargingCheckout, CheckoutsFollowOrders, Charging
  <2>2. ASSUME NEW d \in Checkouts PROVE Captured(d)' + Pending(d)' <= checkout[d].total
    <3>1. Captured(d) + Pending(d) <= checkout[d].total /\ checkout[d].total \in Nat
      BY MoneyTypes DEF MoneyInv, CheckoutsFollowOrders, CheckoutRow
    <3> QED
      BY <1>4, <3>1
  <2> HIDE DEF o
  <2>3. ASSUME NEW d \in Checkouts, d # c
        PROVE  /\ checkout'[d].status # "NONE" => checkout'[d].order \in Orders
               /\ Charging(d)' => checkout'[d].total = order'[checkout'[d].order].total
               /\ checkout'[d].status = "OPEN" =>
                    order'[checkout'[d].order].status = "AWAITING_PAYMENT"
                    /\ Captured(d)' < checkout'[d].total
               /\ checkout'[d].status = "COMPLETED" =>
                    order'[checkout'[d].order].status = "PAID"
                    /\ Taken(d)' >= checkout'[d].total
               /\ Captured(d)' + Pending(d)' <= checkout'[d].total
    BY <1>4, <2>1, <2>2, <2>3 DEF MoneyInv, CheckoutsFollowOrders, Charging
  <2> QED
    BY <1>1, <1>5, <2>2, <2>3 DEF CheckoutsFollowOrders, Charging
<1>11. OneChargingCheckout'
  BY <1>5 DEF MoneyInv, OneChargingCheckout, Charging
<1>12. OrdersFollowCheckouts'
  <2>1. ASSUME NEW x \in Orders, x # o, NEW d \in Checkouts, checkout[d].order = x
        PROVE  checkout'[d] = checkout[d] /\ order'[x] = order[x]
    BY <1>5, <1>6, <2>1
  <2>2. ASSUME NEW x \in Orders, x # o PROVE order'[x] = order[x]
    BY <1>6, <2>2
  <2> HIDE DEF o
  <2> QED
    BY <1>6, <2>1, <2>2 DEF MoneyInv, OrdersFollowCheckouts
<1> QED
  BY <1>7, <1>8, <1>9, <1>10, <1>11, <1>12 DEF MoneyInv

\* A refund takes from what a checkout has captured, and no more than that.
LEMMA RefundingKeepsMoney ==
  ASSUME TypeOK, MoneyInv, NEW p \in Payments, NEW a \in 1..payment[p].amount,
         RefundPayment(p, a)
  PROVE  MoneyInv'
<1> DEFINE old == payment[p]
           refunded == old.refunded + a
           status == IF refunded >= old.amount THEN "REFUNDED" ELSE "PARTIALLY_REFUNDED"
           new == [old EXCEPT !.refunded = refunded, !.status = status]
<1>1. payment' = [payment EXCEPT ![p] = new] /\ checkout' = checkout /\ order' = order
      /\ old.status \in {"CAPTURED", "PARTIALLY_REFUNDED"} /\ a <= old.amount - old.refunded
  BY DEF RefundPayment, Refundable, orderVars
<1>2. old \in PaymentRow /\ a \in Nat /\ a > 0
  <2>1. old \in PaymentRow /\ old.amount \in Nat
    BY MoneyTypes DEF PaymentRow
  <2> QED
    BY <2>1
<1>3. /\ new \in PaymentRow /\ new.checkout = old.checkout /\ new.amount = old.amount
      /\ new.status \in {"REFUNDED", "PARTIALLY_REFUNDED"} /\ new.refunded <= new.amount
  <2> HIDE DEF old
  <2>1. old.refunded \in Nat /\ old.amount \in Nat
    BY <1>2 DEF PaymentRow
  <2>2. refunded \in Nat /\ refunded <= old.amount
    BY <1>1, <1>2, <2>1
  <2>3. status \in {"REFUNDED", "PARTIALLY_REFUNDED"}
    OBVIOUS
  <2> HIDE DEF refunded, status
  <2> QED
    BY <1>2, <2>1, <2>2, <2>3 DEF PaymentRow, PaymentStatus
<1> HIDE DEF new
<1>4. /\ payment' \in [Payments -> PaymentRow] /\ payment'[p] = new
      /\ \A q \in Payments \ {p} : payment'[q] = payment[q]
  BY <1>1, <1>3, MoneyTypes
<1>5. ASSUME NEW d
      PROVE  /\ Captured(d)' <= Captured(d) /\ Pending(d)' = Pending(d) /\ Taken(d)' = Taken(d)
             /\ {Captured(d), Captured(d)', Pending(d)} \subseteq Nat
  <2>1. \A q \in Payments :
          /\ Part(d, payment', {"PENDING"})[q] = Part(d, payment, {"PENDING"})[q]
          /\ Part(d, payment', TakenStates)[q] = Part(d, payment, TakenStates)[q]
    BY <1>1, <1>3, <1>4 DEF Part, TakenStates
  <2>2. \A q \in Payments :
          Part(d, payment', {"CAPTURED"})[q] <= Part(d, payment, {"CAPTURED"})[q]
    BY <1>1, <1>3, <1>4, MoneyTypes DEF Part, PaymentRow
  <2>3. /\ Booked(d, payment', {"PENDING"}) = Booked(d, payment, {"PENDING"})
        /\ Booked(d, payment', TakenStates) = Booked(d, payment, TakenStates)
    BY <2>1, BookedSame
  <2>4. Booked(d, payment', {"CAPTURED"}) <= Booked(d, payment, {"CAPTURED"})
    BY <1>4, <2>2, BookedLess, MoneyTypes
  <2>5. /\ Captured(d)' = Booked(d, payment', {"CAPTURED"})
        /\ Taken(d)' = Booked(d, payment', TakenStates)
        /\ Pending(d)' = Booked(d, payment', {"PENDING"})
    BY <1>4, BooksOfNext
  <2>6. /\ Captured(d) = Booked(d, payment, {"CAPTURED"})
        /\ Taken(d) = Booked(d, payment, TakenStates)
        /\ Pending(d) = Booked(d, payment, {"PENDING"})
    BY BooksOf, MoneyTypes
  <2>7. /\ Booked(d, payment, {"CAPTURED"}) \in Nat /\ Booked(d, payment, {"PENDING"}) \in Nat
        /\ Booked(d, payment', {"CAPTURED"}) \in Nat
    BY <1>4, BookedType, MoneyTypes
  <2> QED
    BY <2>3, <2>4, <2>5, <2>6, <2>7
<1>6. PaymentsAreOfCheckouts' /\ RefundsStayBelow' /\ NoPaymentLeftPending'
  BY <1>1, <1>3, <1>4 DEF MoneyInv, PaymentsAreOfCheckouts, RefundsStayBelow,
                           NoPaymentLeftPending
<1>7. CheckoutsFollowOrders'
  <2>1. ASSUME NEW d \in Checkouts
        PROVE  /\ Captured(d)' + Pending(d)' <= checkout[d].total
               /\ Captured(d) < checkout[d].total => Captured(d)' < checkout[d].total
    <3>1. Captured(d) + Pending(d) <= checkout[d].total /\ checkout[d].total \in Nat
      BY MoneyTypes DEF MoneyInv, CheckoutsFollowOrders, CheckoutRow
    <3> QED
      BY <1>5, <3>1
  <2>2. \A d \in Checkouts : Taken(d)' = Taken(d)
    BY <1>5
  <2> QED
    BY <1>1, <2>1, <2>2 DEF MoneyInv, CheckoutsFollowOrders, Charging
<1>8. OneChargingCheckout' /\ OrdersFollowCheckouts'
  BY <1>1 DEF MoneyInv, OneChargingCheckout, Charging, OrdersFollowCheckouts
<1> QED
  BY <1>6, <1>7, <1>8 DEF MoneyInv

LEMMA CheckoutKeepsMoney ==
  ASSUME TypeOK, TypeOK', MoneyInv, TotalsFollowLines, CheckoutNext
  PROVE  MoneyInv'
<1>1. ASSUME NEW c \in Checkouts, NEW o \in Orders, OpenCheckout(o, c) PROVE MoneyInv'
  BY <1>1, OpeningKeepsMoney
<1>2. ASSUME NEW c \in Checkouts, NEW p \in Payments, NEW method \in {"CASH", "CARD", "OTHER"},
             NEW a \in Amounts(c), CreatePayment(c, p, method, a)
      PROVE  MoneyInv'
  BY <1>2, CreatingKeepsMoney
<1>3. ASSUME NEW c \in Checkouts, CancelCheckout(c) PROVE MoneyInv'
  BY <1>3, ReleasingKeepsMoney
<1>4. ASSUME NEW p \in Payments, NEW to \in {"CAPTURED", "FAILED", "CANCELLED"},
             ResolvePayment(p, to)
      PROVE  MoneyInv'
  BY <1>4, ResolvingKeepsMoney
<1>5. ASSUME NEW p \in Payments, NEW a \in 1..payment[p].amount, RefundPayment(p, a)
      PROVE  MoneyInv'
  BY <1>5, RefundingKeepsMoney
<1> QED
  BY <1>1, <1>2, <1>3, <1>4, <1>5 DEF CheckoutNext, CapturePayment, FailPayment, CancelPayment

-----------------------------------------------------------------------------
(* The contents of the orders *)

LEMMA NextVersion ==
  ASSUME TypeOK, NEW o \in Orders, NEW n, n = order[o].version + 1
  PROVE  n > order[o].version
<1>1. order[o].version \in Nat
  BY OrderType
<1> QED
  BY <1>1

\* One order is written under its next version, and adds up.
LEMMA WritingKeepsOrders ==
  ASSUME TypeOK, TypeOK', OrdersInv, NEW o \in Orders,
         \A x \in Orders \ {o} : order'[x] = order[x] /\ attached'[x] = attached[x],
         \A l \in Lines \ LinesOf(o) : quantity'[l] = quantity[l],
         order'[o].version > order[o].version,
         order'[o].status # "NONE",
         order'[o].total = SubtotalOf(o, quantity') - DiscountOf(order'[o].discounts),
         DiscountOf(order'[o].discounts) <= SubtotalOf(o, quantity'),
         shown' = shown
  PROVE  OrdersInv'
<1>1. ASSUME NEW x \in Orders, x # o PROVE \A l \in LinesOf(x) : quantity'[l] = quantity[l]
  BY <1>1 DEF LinesOf
<1>2. ASSUME NEW x \in Orders, x # o PROVE SubtotalOf(x, quantity') = SubtotalOf(x, quantity)
  BY <1>1, <1>2, SubtotalOfOwnLines
<1>3. NewOrdersAreEmpty'
  <2>1. ASSUME NEW x \in Orders, order'[x].status = "NONE"
        PROVE  /\ order'[x] = NoOrder /\ attached'[x] = Nowhere
               /\ \A l \in LinesOf(x) : quantity'[l] = 0
    BY <1>1, <2>1 DEF OrdersInv, NewOrdersAreEmpty
  <2> QED
    BY <2>1 DEF NewOrdersAreEmpty, NoOrder, LinesOf
<1>4. TotalsFollowLines'
  <2>1. ASSUME NEW x \in Orders
        PROVE  /\ order'[x].total = SubtotalOf(x, quantity') - DiscountOf(order'[x].discounts)
               /\ DiscountOf(order'[x].discounts) <= SubtotalOf(x, quantity')
    BY <1>2 DEF OrdersInv, TotalsFollowLines, Subtotal
  <2> QED
    BY <2>1 DEF TotalsFollowLines, Subtotal, SubtotalOf, DiscountOf, LinesOf
<1>5. DisplaysFollowOrders'
  <2>1. ASSUME NEW x \in Orders
        PROVE  /\ shown[x].version <= order'[x].version
               /\ shown[x].version = order'[x].version => shown[x].total = order'[x].total
    <3>1. CASE x # o
      BY <3>1 DEF OrdersInv, DisplaysFollowOrders
    <3>2. CASE x = o
      <4>1. shown[o].version \in Nat /\ order[o].version \in Nat /\ order'[o].version \in Nat
        BY DEF TypeOK
      <4>2. shown[o].version <= order[o].version
        BY DEF OrdersInv, DisplaysFollowOrders
      <4> QED
        BY <3>2, <4>1, <4>2
    <3> QED
      BY <3>1, <3>2
  <2> QED
    BY <2>1 DEF DisplaysFollowOrders
<1> QED
  BY <1>3, <1>4, <1>5 DEF OrdersInv

\* A step that writes no order.
LEMMA StandingKeepsOrders ==
  ASSUME OrdersInv, UNCHANGED <<order, quantity, shown>>,
         \A o \in Orders : order[o].status = "NONE" => attached'[o] = attached[o]
  PROVE  OrdersInv'
<1>1. NewOrdersAreEmpty'
  <2>1. ASSUME NEW x \in Orders, order[x].status = "NONE"
        PROVE  /\ order[x] = NoOrder /\ attached'[x] = Nowhere
               /\ \A l \in LinesOf(x) : quantity[l] = 0
    BY <2>1 DEF OrdersInv, NewOrdersAreEmpty
  <2> QED
    BY <2>1 DEF NewOrdersAreEmpty, NoOrder, LinesOf
<1>2. TotalsFollowLines'
  BY DEF OrdersInv, TotalsFollowLines, Subtotal, SubtotalOf, DiscountOf, LinesOf
<1>3. DisplaysFollowOrders'
  BY DEF OrdersInv, DisplaysFollowOrders
<1> QED
  BY <1>1, <1>2, <1>3 DEF OrdersInv

LEMMA MovingKeepsOrders ==
  ASSUME TypeOK, TypeOK', OrdersInv, NEW o \in Orders, NEW to, to # "NONE",
         order' = [Bumped(o) EXCEPT ![o].status = to],
         UNCHANGED <<quantity, shown, attached>>
  PROVE  OrdersInv'
<1>1. /\ order'[o].status = to /\ order'[o].total = order[o].total
      /\ order'[o].discounts = order[o].discounts
      /\ order'[o].version = order[o].version + 1
      /\ \A x \in Orders \ {o} : order'[x] = order[x]
  BY OrderMoves
<1>2. order'[o].version > order[o].version
  BY <1>1, NextVersion
<1>3. /\ order'[o].total = SubtotalOf(o, quantity') - DiscountOf(order'[o].discounts)
      /\ DiscountOf(order'[o].discounts) <= SubtotalOf(o, quantity')
  BY <1>1 DEF OrdersInv, TotalsFollowLines, Subtotal
<1> QED
  BY <1>1, <1>2, <1>3, WritingKeepsOrders

LEMMA OrdersKeepOrders ==
  ASSUME TypeOK, TypeOK', OrdersInv, OrdersNext
  PROVE  OrdersInv'
<1>1. shown' = shown /\ attached' = attached
  BY OrderSteps DEF KeepsTheRest, tableVars
<1>2. PICK o \in Orders :
        \/ \E mode \in ServiceModes : CreateOrder(o, mode)
        \/ Composes(o)
        \/ Hold(o) \/ Resume(o) \/ Cancel(o)
  BY OrderSteps
<1>3. CASE \E mode \in ServiceModes : CreateOrder(o, mode)
  <2>1. PICK mode \in ServiceModes : CreateOrder(o, mode)
    BY <1>3
  <2> DEFINE row == [NoOrder EXCEPT !.status = "OPEN", !.version = 1, !.mode = mode]
  <2>2. row.status = "OPEN" /\ row.version = 1 /\ row.total = 0 /\ row.discounts = {}
    BY DEF NoOrder
  <2>3. order' = [order EXCEPT ![o] = row] /\ quantity' = quantity /\ order[o].status = "NONE"
    BY <2>1 DEF CreateOrder
  <2> HIDE DEF row
  <2>4. order'[o] = row /\ \A x \in Orders \ {o} : order'[x] = order[x]
    BY <2>3 DEF TypeOK
  <2>5. order[o].version = 0 /\ \A l \in LinesOf(o) : quantity[l] = 0
    BY <2>3 DEF OrdersInv, NewOrdersAreEmpty, NoOrder
  <2>6. SubtotalOf(o, quantity') = 0 /\ DiscountOf({}) = 0
    BY <2>3, <2>5, NothingCostsNothing
  <2>7. /\ order'[o].version > order[o].version /\ order'[o].status # "NONE"
        /\ order'[o].discounts = {} /\ order'[o].total = 0
    BY <2>2, <2>4, <2>5
  <2>8. /\ order'[o].total = SubtotalOf(o, quantity') - DiscountOf(order'[o].discounts)
        /\ DiscountOf(order'[o].discounts) <= SubtotalOf(o, quantity')
    <3>1. DiscountOf(order'[o].discounts) = 0
      BY <2>6, <2>7
    <3> QED
      BY <2>6, <2>7, <3>1
  <2> QED
    BY <1>1, <2>3, <2>4, <2>7, <2>8, WritingKeepsOrders
<1>4. CASE Composes(o)
  <2>1. PICK q \in Quantities, D \in SUBSET Discounts :
          /\ \A l \in Lines \ LinesOf(o) : q[l] = quantity[l]
          /\ Recalculate(o, q, D)
    BY <1>4 DEF Composes
  <2> DEFINE row == Recomposed(o, q, D)
  <2>2. quantity' = q /\ order' = [order EXCEPT ![o] = row] /\ DiscountOf(D) <= SubtotalOf(o, q)
    BY <2>1, Recalculates
  <2>3. /\ row.status = "OPEN" /\ row.version = order[o].version + 1
        /\ row.total = SubtotalOf(o, q) - DiscountOf(D) /\ row.discounts = D
    BY <1>4 DEF Recomposed, Composes, Mutable
  <2> HIDE DEF row
  <2>4. order'[o] = row /\ \A x \in Orders \ {o} : order'[x] = order[x]
    BY <2>2 DEF TypeOK
  <2>5. order'[o].version > order[o].version
    BY <2>3, <2>4, NextVersion
  <2> QED
    BY <1>1, <2>1, <2>2, <2>3, <2>4, <2>5, WritingKeepsOrders
<1>5. CASE Hold(o) \/ Resume(o) \/ Cancel(o)
  <2>1. PICK to \in {"OPEN", "HELD", "CANCELLED"} : order' = [Bumped(o) EXCEPT ![o].status = to]
    BY <1>5 DEF Hold, Resume, Cancel, Transition
  <2>2. quantity' = quantity
    BY <1>5 DEF Hold, Resume, Cancel, Transition
  <2> QED
    BY <1>1, <2>1, <2>2, MovingKeepsOrders
<1> QED
  BY <1>2, <1>3, <1>4, <1>5

LEMMA DisplaysKeepOrders ==
  ASSUME TypeOK, OrdersInv, DisplayNext
  PROVE  OrdersInv'
<1>1. PICK o \in Orders : Show(o)
  BY DEF DisplayNext
<1>2. UNCHANGED <<order, quantity, attached>>
  BY <1>1 DEF Show, tableVars
<1>3. DisplaysFollowOrders'
  <2>1. order[o].version \in Nat
    BY OrderType
  <2>2. shown'[o].version = order[o].version /\ shown'[o].total = order[o].total
        /\ \A x \in Orders \ {o} : shown'[x] = shown[x]
    BY <1>1 DEF Show, TypeOK
  <2>3. \A x \in Orders : /\ shown'[x].version <= order[x].version
                          /\ shown'[x].version = order[x].version => shown'[x].total = order[x].total
    BY <2>1, <2>2 DEF OrdersInv, DisplaysFollowOrders
  <2> QED
    BY <1>2, <2>3 DEF DisplaysFollowOrders
<1>4. NewOrdersAreEmpty'
  BY <1>2 DEF OrdersInv, NewOrdersAreEmpty, NoOrder, LinesOf
<1>5. TotalsFollowLines'
  BY <1>2 DEF OrdersInv, TotalsFollowLines, Subtotal, SubtotalOf, DiscountOf, LinesOf
<1> QED
  BY <1>3, <1>4, <1>5 DEF OrdersInv

LEMMA TablesKeepOrders ==
  ASSUME TypeOK, TypeOK', OrdersInv, TablesNext
  PROVE  OrdersInv'
<1>1. UNCHANGED <<quantity, shown>>
  BY DEF TablesNext, CheckOpen, OpenSession, CheckMove, MoveSession, AttachOrder, FinishSession,
         UpdateSession, CheckDeactivate, DeactivateTable, ActivateTable, Refuse, orderVars
<1>2. CASE UNCHANGED <<order, attached>>
  BY <1>1, <1>2, StandingKeepsOrders
<1>3. CASE \E s \in Sessions, o \in Orders : AttachOrder(s, o)
  <2>1. PICK s \in Sessions, o \in Orders : AttachOrder(s, o)
    BY <1>3
  <2>2. order[o].status \in {"OPEN", "HELD"}
        /\ \A x \in Orders \ {o} : attached'[x] = attached[x]
    BY <2>1 DEF AttachOrder, TypeOK
  <2>3. CASE order[o].mode = "TABLE"
    <3>1. UNCHANGED order
      BY <2>1, <2>3 DEF AttachOrder
    <3> QED
      BY <1>1, <2>2, <3>1, StandingKeepsOrders
  <2>4. CASE order[o].mode # "TABLE"
    <3> DEFINE row == Moved(o, order[o].status)
               new == [row EXCEPT !.mode = "TABLE"]
               b == [order EXCEPT ![o] = row]
    <3>1. order' = [b EXCEPT ![o].mode = "TABLE"]
      BY <2>1, <2>4, BumpedOrder DEF AttachOrder
    <3>2. /\ new.status = order[o].status /\ new.version = order[o].version + 1
          /\ new.total = order[o].total /\ new.discounts = order[o].discounts
      BY DEF Moved
    <3> HIDE DEF row
    <3>3. order' = [order EXCEPT ![o] = new]
      BY <3>1 DEF TypeOK
    <3> HIDE DEF new
    <3>4. order'[o] = new /\ \A x \in Orders \ {o} : order'[x] = order[x]
      BY <3>3 DEF TypeOK
    <3>5. order'[o].version > order[o].version
      BY <3>2, <3>4, NextVersion
    <3>6. /\ order'[o].total = SubtotalOf(o, quantity') - DiscountOf(order'[o].discounts)
          /\ DiscountOf(order'[o].discounts) <= SubtotalOf(o, quantity')
      BY <1>1, <3>2, <3>4 DEF OrdersInv, TotalsFollowLines, Subtotal
    <3>7. order'[o].status # "NONE"
      BY <2>2, <3>2, <3>4
    <3> QED
      BY <1>1, <2>2, <3>4, <3>5, <3>6, <3>7, WritingKeepsOrders
  <2> QED
    BY <2>3, <2>4
<1> QED
  BY <1>2, <1>3 DEF TablesNext, CheckOpen, OpenSession, CheckMove, MoveSession, FinishSession,
         UpdateSession, CheckDeactivate, DeactivateTable, ActivateTable, Refuse, orderVars, tableVars

\* At the cash desk, an order stands still or moves to another status.
LEMMA DeskMovesOrders ==
  ASSUME MoneyInv, CheckoutNext
  PROVE  /\ UNCHANGED <<quantity, shown, kitchenVars, active, tableVars>>
         /\ \/ UNCHANGED order
            \/ \E o \in Orders, to \in {"AWAITING_PAYMENT", "PAID", "OPEN"} :
                 /\ order' = [Bumped(o) EXCEPT ![o].status = to]
                 /\ order[o].status \in {"OPEN", "AWAITING_PAYMENT"}
<1> DEFINE Goal ==
      /\ UNCHANGED <<quantity, shown, kitchenVars, active, tableVars>>
      /\ \/ UNCHANGED order
         \/ \E o \in Orders, to \in {"AWAITING_PAYMENT", "PAID", "OPEN"} :
              /\ order' = [Bumped(o) EXCEPT ![o].status = to]
              /\ order[o].status \in {"OPEN", "AWAITING_PAYMENT"}
<1>1. ASSUME NEW c \in Checkouts, NEW o \in Orders, OpenCheckout(o, c) PROVE Goal
  BY <1>1 DEF OpenCheckout
<1>2. ASSUME NEW c \in Checkouts, NEW ps, CheckoutOpen(c), RefreshCheckout(c, ps) PROVE Goal
  <2>1. checkout[c].order \in Orders /\ order[checkout[c].order].status = "AWAITING_PAYMENT"
    BY <1>2 DEF MoneyInv, CheckoutsFollowOrders, CheckoutOpen
  <2> QED
    BY <1>2, <2>1 DEF RefreshCheckout
<1>3. ASSUME NEW c \in Checkouts, NEW p \in Payments, NEW method \in {"CASH", "CARD", "OTHER"},
             NEW a \in Amounts(c), CreatePayment(c, p, method, a)
      PROVE  Goal
  <2>1. CASE method = "CASH"
    <3>1. PICK ps : RefreshCheckout(c, ps)
      BY <1>3, <2>1 DEF CreatePayment
    <3>2. CheckoutOpen(c)
      BY <1>3 DEF CreatePayment
    <3> QED
      BY <1>2, <3>1, <3>2
  <2>2. CASE method # "CASH"
    BY <1>3, <2>2 DEF CreatePayment, orderVars
  <2> QED
    BY <2>1, <2>2
<1>4. ASSUME NEW c \in Checkouts, CancelCheckout(c) PROVE Goal
  <2>1. checkout[c].order \in Orders /\ order[checkout[c].order].status = "AWAITING_PAYMENT"
    BY <1>4 DEF MoneyInv, CheckoutsFollowOrders, CheckoutOpen, CancelCheckout
  <2> QED
    BY <1>4, <2>1 DEF CancelCheckout
<1>5. ASSUME NEW p \in Payments, NEW to, ResolvePayment(p, to) PROVE Goal
  <2>1. payment[p].checkout \in Checkouts
    BY <1>5 DEF ResolvePayment, MoneyInv, PaymentsAreOfCheckouts
  <2>2. PICK ps : RefreshCheckout(payment[p].checkout, ps)
    BY <1>5 DEF ResolvePayment
  <2>3. CheckoutOpen(payment[p].checkout)
    BY <1>5 DEF ResolvePayment
  <2> HIDE DEF Goal
  <2> QED
    BY <1>2, <2>1, <2>2, <2>3
<1>6. ASSUME NEW p \in Payments, NEW a, RefundPayment(p, a) PROVE Goal
  BY <1>6 DEF RefundPayment, orderVars
<1> HIDE DEF Goal
<1>7. Goal
  BY <1>1, <1>3, <1>4, <1>5, <1>6 DEF CheckoutNext, CapturePayment, FailPayment, CancelPayment
<1> QED
  BY <1>7 DEF Goal

LEMMA DeskKeepsOrders ==
  ASSUME TypeOK, TypeOK', OrdersInv, MoneyInv, CheckoutNext
  PROVE  OrdersInv'
<1>1. UNCHANGED <<quantity, shown, attached>>
  BY DeskMovesOrders DEF tableVars
<1>2. CASE UNCHANGED order
  BY <1>1, <1>2, StandingKeepsOrders
<1>3. CASE \E o \in Orders, to \in {"AWAITING_PAYMENT", "PAID", "OPEN"} :
             order' = [Bumped(o) EXCEPT ![o].status = to]
  BY <1>1, <1>3, MovingKeepsOrders
<1> QED
  BY <1>2, <1>3, DeskMovesOrders

LEMMA KitchenKeepsOrders ==
  ASSUME OrdersInv, KitchenNext
  PROVE  OrdersInv'
<1>1. UNCHANGED <<order, quantity, shown, attached>>
  BY DEF KitchenNext, UpdateStation, RouteCategory, UnrouteCategory, Dispatch, TransitionTicket,
         orderVars, tableVars
<1> QED
  BY <1>1, StandingKeepsOrders

-----------------------------------------------------------------------------
(* What the kitchen gets *)

\* A line is only taken back as far as the kitchen was not sent it.
LEMMA LinesKeepWhatWasSent ==
  ASSUME TypeOK, OrdersNext, NEW l \in Lines
  PROVE  quantity'[l] >= quantity[l] \/ quantity'[l] >= Sent(l)
<1>0. quantity \in Quantities /\ quantity[l] \in Nat /\ Sent(l) \in Nat
  <2>1. quantity[l] \in 0..MaxQuantity /\ MaxQuantity \in Nat
    BY PosAssumption DEF TypeOK
  <2> QED
    BY <2>1, SentType DEF TypeOK, Quantities
<1>1. CASE quantity' = quantity
  BY <1>0, <1>1
<1>2. ASSUME NEW k \in Lines, NEW n \in 1..MaxQuantity, AddItem(k, n)
      PROVE  quantity'[l] >= quantity[l]
  <2>1. quantity' = [quantity EXCEPT ![k] = n] /\ quantity[k] = 0
    BY <1>2, PosAssumption, Recalculates DEF AddItem
  <2>2. n \in Nat
    BY PosAssumption
  <2>3. quantity'[l] = IF l = k THEN n ELSE quantity[l]
    BY <1>0, <2>1 DEF Quantities
  <2> QED
    BY <1>0, <2>1, <2>2, <2>3
<1>3. ASSUME NEW k \in Lines, NEW n \in 1..MaxQuantity, UpdateItem(k, n)
      PROVE  quantity'[l] >= quantity[l] \/ quantity'[l] >= Sent(l)
  <2>1. quantity' = [quantity EXCEPT ![k] = n] /\ n >= Sent(k)
    BY <1>3, PosAssumption, Recalculates DEF UpdateItem
  <2>2. quantity'[l] = IF l = k THEN n ELSE quantity[l]
    BY <1>0, <2>1 DEF Quantities
  <2>3. CASE l = k
    BY <2>1, <2>2, <2>3
  <2>4. CASE l # k
    BY <1>0, <2>2, <2>4
  <2> QED
    BY <2>3, <2>4
<1>4. ASSUME NEW k \in Lines, DeleteItem(k)
      PROVE  quantity'[l] >= quantity[l] \/ quantity'[l] >= Sent(l)
  <2>1. quantity' = [quantity EXCEPT ![k] = 0] /\ Sent(k) = 0
    BY <1>4, PosAssumption, Recalculates DEF DeleteItem, DeleteAllowed
  <2>2. quantity'[l] = IF l = k THEN 0 ELSE quantity[l]
    BY <1>0, <2>1 DEF Quantities
  <2>3. CASE l = k
    BY <2>1, <2>2, <2>3
  <2>4. CASE l # k
    BY <1>0, <2>2, <2>4
  <2> QED
    BY <2>3, <2>4
<1>5. ASSUME NEW o \in Orders, NEW d \in Discounts, AddAdjustment(o, d) \/ DeleteAdjustment(o, d)
      PROVE  quantity' = quantity
  BY <1>5, Recalculates DEF AddAdjustment, DeleteAdjustment
<1>6. ASSUME NEW o \in Orders,
             (\E mode \in ServiceModes : CreateOrder(o, mode)) \/ Hold(o) \/ Resume(o) \/ Cancel(o)
      PROVE  quantity' = quantity
  BY <1>6 DEF CreateOrder, Hold, Resume, Cancel, Transition
<1>7. ASSUME NEW k \in Lines, AddManualItem(k) PROVE quantity'[l] >= quantity[l]
  <2>1. 1 \in 1..MaxQuantity
    BY PosAssumption
  <2> QED
    BY <1>2, <1>7, <2>1 DEF AddManualItem
<1>8. CASE \E k \in Lines :
             \/ \E n \in 1..MaxQuantity : AddItem(k, n) \/ UpdateItem(k, n)
             \/ AddManualItem(k) \/ DeleteItem(k)
  BY <1>2, <1>3, <1>4, <1>7, <1>8
<1>9. CASE \E o \in Orders :
             \/ \E mode \in ServiceModes : CreateOrder(o, mode)
             \/ Hold(o) \/ Resume(o) \/ Cancel(o)
             \/ \E d \in Discounts : AddAdjustment(o, d) \/ DeleteAdjustment(o, d)
  BY <1>1, <1>5, <1>6, <1>9
<1> QED
  BY <1>8, <1>9 DEF OrdersNext

LEMMA SentTypeNext ==
  ASSUME TypeOK', NEW l \in Lines
  PROVE  /\ ticket' \in [Tickets -> TicketRow]
         /\ Sent(l)' = SumFunctionOnSet(SentBy(l, ticket'), Tickets)
         /\ Sent(l)' \in Nat
<1>1. ticket' \in [Tickets -> TicketRow]
  BY DEF TypeOK, TicketRow
<1> QED
  BY <1>1, SentIsSum DEF Sent, SentToKitchen

\* A ticket that is cancelled gives its lines back; no other transition counts.
LEMMA TransitionsSendNothing ==
  ASSUME TypeOK, TypeOK', NEW x \in Tickets, NEW next \in TicketStatus,
         TransitionTicket(x, next), NEW l \in Lines
  PROVE  Sent(l)' <= Sent(l)
<1> DEFINE f == SentBy(l, ticket)
           g == SentBy(l, ticket')
           old == ticket[x]
           new == [old EXCEPT !.status = next]
<1>1. \A t \in Tickets : f[t] \in Nat /\ g[t] \in Nat
  BY SentType, SentTypeNext, SentIsSum
<1>2. ticket' = [ticket EXCEPT ![x] = new] /\ old.status \notin {"NONE", "CANCELLED"}
  BY DEF TransitionTicket, TicketTransitions
<1>3. new.items = old.items
  BY SentType DEF TicketRow
<1> HIDE DEF new
<1>4. ticket'[x] = new /\ \A t \in Tickets \ {x} : ticket'[t] = ticket[t]
  BY <1>2, SentType
<1>5. \A t \in Tickets : g[t] = f[t] \/ g[t] = 0
  BY <1>2, <1>3, <1>4 DEF SentBy
<1> HIDE DEF f, g
<1>6. \A t \in Tickets : g[t] \in Int /\ f[t] \in Int /\ g[t] <= f[t]
  BY <1>1, <1>5
<1>7. SumFunctionOnSet(g, Tickets) <= SumFunctionOnSet(f, Tickets)
  BY <1>6, FiniteTables, SumMonotone
<1> QED
  BY <1>7, SentType, SentTypeNext DEF f, g

\* A dispatch sends what remains of a line once, or nothing of it.
LEMMA DispatchSendsTheRest ==
  ASSUME TypeOK, TypeOK', NEW o \in Orders, Dispatch(o), NEW l \in Lines
  PROVE  Sent(l)' <= Sent(l) + Remaining(l)
<1> DEFINE f == SentBy(l, ticket)
           g == SentBy(l, ticket')
<1>1. PICK ticketOf \in [StationsOf(o) -> Unused] :
        /\ \A s, z \in StationsOf(o) : ticketOf[s] = ticketOf[z] => s = z
        /\ ticket' = [t \in Tickets |->
             IF \E s \in StationsOf(o) : ticketOf[s] = t
               THEN NewTicket(o, CHOOSE s \in StationsOf(o) : ticketOf[s] = t)
               ELSE ticket[t]]
  BY Dispatches
<1>2. \A t \in Tickets : f[t] \in Nat /\ g[t] \in Nat
  BY SentType, SentTypeNext, SentIsSum
<1>3. Remaining(l) \in Nat /\ Sent(l) \in Nat
  <2>1. Remaining(l) \in 0..MaxQuantity /\ MaxQuantity \in Nat
    BY SentType, RemainingType, PosAssumption
  <2> QED
    BY <2>1, SentType
<1>4. ASSUME NEW s \in StationsOf(o)
      PROVE  /\ ticketOf[s] \in Tickets /\ ticket[ticketOf[s]].status = "NONE"
             /\ ticket'[ticketOf[s]] = NewTicket(o, s)
  <2>1. ticketOf[s] \in Tickets /\ ticket[ticketOf[s]].status = "NONE"
    BY DEF Unused
  <2>2. (CHOOSE z \in StationsOf(o) : ticketOf[z] = ticketOf[s]) = s
    BY <1>1
  <2> QED
    BY <1>1, <2>1, <2>2
<1>5. ASSUME NEW t \in Tickets, ~ \E s \in StationsOf(o) : ticketOf[s] = t
      PROVE  g[t] = f[t]
  <2>1. ticket'[t] = ticket[t]
    BY <1>1, <1>5
  <2> QED
    BY <2>1 DEF SentBy
<1>6. ASSUME NEW s \in StationsOf(o)
      PROVE  /\ f[ticketOf[s]] = 0
             /\ g[ticketOf[s]] = IF l \in ToDispatch(o) /\ route[Category[l]] = s
                                   THEN Remaining(l) ELSE 0
  <2>1. f[ticketOf[s]] = 0
    BY <1>4 DEF SentBy
  <2>2. /\ NewTicket(o, s).status = "QUEUED"
        /\ NewTicket(o, s).items[l] = IF l \in ToDispatch(o) /\ route[Category[l]] = s
                                        THEN Remaining(l) ELSE 0
    BY DEF NewTicket
  <2> QED
    BY <1>4, <2>1, <2>2 DEF SentBy
<1> HIDE DEF f, g
<1>7. CASE l \in ToDispatch(o)
  <2> DEFINE x == ticketOf[route[Category[l]]]
  <2>1. route[Category[l]] \in StationsOf(o)
    BY <1>7 DEF StationsOf
  <2>2. x \in Tickets /\ f[x] = 0 /\ g[x] = Remaining(l)
    BY <1>4, <1>6, <1>7, <2>1
  <2>3. ASSUME NEW t \in Tickets, t # x PROVE g[t] = f[t]
    <3>1. CASE \E s \in StationsOf(o) : ticketOf[s] = t
      BY <1>6, <2>3, <3>1
    <3>2. CASE ~ \E s \in StationsOf(o) : ticketOf[s] = t
      BY <1>5, <3>2
    <3> QED
      BY <3>1, <3>2
  <2> HIDE DEF x
  <2>4. SumFunctionOnSet(g, Tickets) = SumFunctionOnSet(f, Tickets) - f[x] + g[x]
    <3>1. \A t \in Tickets : f[t] \in Int /\ g[t] \in Int
      BY <1>2
    <3>2. \A t \in Tickets \ {x} : g[t] = f[t]
      BY <2>3
    <3>3. IsFiniteSet(Tickets)
      BY FiniteTables
    <3> QED
      BY <2>2, <3>1, <3>2, <3>3, SumChange
  <2>5. Sent(l)' = Sent(l) - 0 + Remaining(l)
    BY <2>2, <2>4, SentType, SentTypeNext DEF f, g
  <2> QED
    BY <1>3, <2>5
<1>8. CASE l \notin ToDispatch(o)
  <2>1. \A t \in Tickets : g[t] = f[t]
    BY <1>5, <1>6, <1>8
  <2>2. SumFunctionOnSet(g, Tickets) = SumFunctionOnSet(f, Tickets)
    BY <2>1, FiniteTables, SumAgree
  <2>3. Sent(l)' = Sent(l)
    BY <2>2, SentType, SentTypeNext DEF f, g
  <2> QED
    BY <1>3, <2>3
<1> QED
  BY <1>7, <1>8

LEMMA KitchenStep ==
  ASSUME TypeOK, TypeOK', OrdersInv, MoneyInv, KitchenGetsNoMoreThanOrdered, Next
  PROVE  KitchenGetsNoMoreThanOrdered'
<1>0. ASSUME NEW l \in Lines
      PROVE  /\ quantity[l] \in Nat /\ quantity'[l] \in Nat /\ Sent(l) \in Nat
             /\ Sent(l) <= quantity[l]
  <2>1. quantity[l] \in 0..MaxQuantity /\ quantity'[l] \in 0..MaxQuantity /\ MaxQuantity \in Nat
    BY PosAssumption DEF TypeOK
  <2> QED
    BY <2>1, SentType DEF KitchenGetsNoMoreThanOrdered
<1>1. CASE OrdersNext
  <2>1. UNCHANGED ticket
    BY <1>1, OrderSteps DEF KeepsTheRest, kitchenVars
  <2>2. ASSUME NEW l \in Lines PROVE Sent(l)' <= quantity'[l]
    <3>1. Sent(l)' = Sent(l)
      BY <2>1 DEF Sent, SentToKitchen
    <3>2. quantity'[l] >= quantity[l] \/ quantity'[l] >= Sent(l)
      BY <1>1, LinesKeepWhatWasSent
    <3> QED
      BY <1>0, <3>1, <3>2
  <2> QED
    BY <2>2 DEF KitchenGetsNoMoreThanOrdered
<1>2. CASE KitchenNext
  <2>1. quantity' = quantity
    BY <1>2 DEF KitchenNext, UpdateStation, RouteCategory, UnrouteCategory, Dispatch,
                TransitionTicket, orderVars
  <2>2. CASE UNCHANGED ticket
    BY <2>1, <2>2 DEF KitchenGetsNoMoreThanOrdered, Sent, SentToKitchen
  <2>3. ASSUME NEW o \in Orders, Dispatch(o), NEW l \in Lines PROVE Sent(l)' <= quantity[l]
    <3>1. Sent(l)' <= Sent(l) + Remaining(l) /\ Sent(l)' \in Nat
      BY <2>3, DispatchSendsTheRest, SentTypeNext
    <3>2. Remaining(l) = quantity[l] - Sent(l) \/ Remaining(l) = 0
      BY DEF Remaining
    <3> QED
      BY <1>0, <3>1, <3>2
  <2>4. ASSUME NEW t \in Tickets, NEW next \in TicketStatus, TransitionTicket(t, next),
               NEW l \in Lines
        PROVE  Sent(l)' <= quantity[l]
    <3>1. Sent(l)' <= Sent(l) /\ Sent(l)' \in Nat
      BY <2>4, TransitionsSendNothing, SentTypeNext
    <3> QED
      BY <1>0, <3>1
  <2>5. CASE \E o \in Orders : Dispatch(o)
    BY <2>1, <2>3, <2>5 DEF KitchenGetsNoMoreThanOrdered
  <2>6. CASE \E t \in Tickets, next \in TicketStatus : TransitionTicket(t, next)
    BY <2>1, <2>4, <2>6 DEF KitchenGetsNoMoreThanOrdered
  <2> QED
    BY <1>2, <2>2, <2>5, <2>6 DEF KitchenNext, UpdateStation, RouteCategory, UnrouteCategory,
                                   kitchenVars
<1>3. CASE UNCHANGED <<quantity, ticket>>
  BY <1>3 DEF KitchenGetsNoMoreThanOrdered, Sent, SentToKitchen
<1>4. CASE DisplayNext
  BY <1>3, <1>4 DEF DisplayNext, Show, kitchenVars
<1>5. CASE TablesNext
  BY <1>3, <1>5 DEF TablesNext, CheckOpen, OpenSession, CheckMove, MoveSession, AttachOrder,
         FinishSession, UpdateSession, CheckDeactivate, DeactivateTable, ActivateTable, Refuse,
         orderVars, kitchenVars
<1>6. CASE CheckoutNext
  BY <1>3, <1>6, DeskMovesOrders DEF kitchenVars
<1> QED
  BY <1>1, <1>2, <1>4, <1>5, <1>6 DEF Next

-----------------------------------------------------------------------------
(* Tables and their bills *)

\* Paid and cancelled are final.
LEMMA SettledOrdersStay ==
  ASSUME TypeOK, MoneyInv, OrdersNext \/ CheckoutNext, NEW x \in Orders,
         order[x].status \in SettledStatus
  PROVE  order'[x].status = order[x].status
<1>1. CASE OrdersNext
  <2>1. PICK o \in Orders :
          \/ \E mode \in ServiceModes : CreateOrder(o, mode)
          \/ Composes(o)
          \/ Hold(o) \/ Resume(o) \/ Cancel(o)
    BY <1>1, OrderSteps
  <2>2. order[o].status \in {"NONE", "OPEN", "HELD"}
    BY <2>1 DEF CreateOrder, Composes, Mutable, Hold, Resume, Cancel, Transition,
                CancellableStatus
  <2>3. \E row : order' = [order EXCEPT ![o] = row]
    <3>1. CASE \E mode \in ServiceModes : CreateOrder(o, mode)
      BY <3>1 DEF CreateOrder
    <3>2. CASE Composes(o)
      BY <3>2, Recalculates DEF Composes
    <3>3. CASE Hold(o) \/ Resume(o) \/ Cancel(o)
      BY <3>3, Moves DEF Hold, Resume, Cancel, Transition
    <3> QED
      BY <2>1, <3>1, <3>2, <3>3
  <2>4. x # o
    BY <2>2 DEF SettledStatus
  <2> QED
    BY <2>3, <2>4 DEF TypeOK
<1>2. CASE CheckoutNext
  <2>1. CASE UNCHANGED order
    BY <2>1
  <2>2. CASE \E o \in Orders, to \in {"AWAITING_PAYMENT", "PAID", "OPEN"} :
               /\ order' = [Bumped(o) EXCEPT ![o].status = to]
               /\ order[o].status \in {"OPEN", "AWAITING_PAYMENT"}
    BY <2>2, OrderMoves DEF SettledStatus
  <2> QED
    BY <1>2, <2>1, <2>2, DeskMovesOrders
<1> QED
  BY <1>1, <1>2

LEMMA OneBillPerTableStep ==
  ASSUME TypeOK, OneBillPerTable, TablesNext
  PROVE  OneBillPerTable'
<1>0. session \in [Sessions -> [status : SessionStatus, table : Tables \cup {Nowhere}]]
  BY DEF TypeOK
<1>1. CASE UNCHANGED session
  BY <1>1 DEF OneBillPerTable, OpenSessions
<1>2. ASSUME NEW s \in Sessions, NEW t \in Tables, TableIsFree(s, t),
             session'[s].table = t, \A z \in Sessions \ {s} : session'[z] = session[z]
      PROVE  OneBillPerTable'
  BY <1>2 DEF OneBillPerTable, OpenSessions, TableIsFree
<1>3. ASSUME NEW s \in Sessions, NEW t \in Tables, OpenSession(s, t) PROVE OneBillPerTable'
  BY <1>0, <1>2, <1>3 DEF OpenSession
<1>4. ASSUME NEW s \in Sessions, NEW t \in Tables, MoveSession(s, t) PROVE OneBillPerTable'
  <2> DEFINE old == session[s]
             new == [old EXCEPT !.table = t]
  <2>1. session' = [session EXCEPT ![s] = new] /\ new.table = t
    BY <1>0, <1>4 DEF MoveSession
  <2> HIDE DEF new
  <2> QED
    BY <1>0, <1>2, <1>4, <2>1 DEF MoveSession
<1>5. ASSUME NEW s \in Sessions, NEW next \in {"CLOSED", "CANCELLED"}, FinishSession(s, next)
      PROVE  OneBillPerTable'
  <2> DEFINE old == session[s]
             new == [old EXCEPT !.status = next]
  <2>1. session' = [session EXCEPT ![s] = new] /\ new.status # "OPEN"
    BY <1>0, <1>5 DEF FinishSession
  <2> HIDE DEF new
  <2> QED
    BY <1>0, <2>1 DEF OneBillPerTable, OpenSessions
<1> QED
  BY <1>1, <1>3, <1>4, <1>5
     DEF TablesNext, CheckOpen, CheckMove, AttachOrder, UpdateSession, CheckDeactivate,
         DeactivateTable, ActivateTable, Refuse, tableVars

LEMMA ClosedBillsStep ==
  ASSUME TypeOK, ClosedBillsAreSettled, TablesNext
  PROVE  ClosedBillsAreSettled'
<1>0. /\ session \in [Sessions -> [status : SessionStatus, table : Tables \cup {Nowhere}]]
      /\ attached \in [Orders -> Sessions \cup {Nowhere}]
  BY DEF TypeOK
<1>1. CASE UNCHANGED <<session, attached, order>>
  BY <1>1 DEF ClosedBillsAreSettled
<1>2. ASSUME UNCHANGED <<attached, order>>,
             \A s \in Sessions : session'[s].status # "OPEN" =>
                                   session[s].status # "OPEN" \/ Settled(s)
      PROVE  ClosedBillsAreSettled'
  BY <1>0, <1>2 DEF ClosedBillsAreSettled, Settled
<1>3. ASSUME NEW s \in Sessions, NEW t \in Tables, OpenSession(s, t)
      PROVE  ClosedBillsAreSettled'
  <2>1. \A z \in Sessions : session'[z].status # "OPEN" => session[z].status # "OPEN"
    BY <1>0, <1>3 DEF OpenSession
  <2> QED
    BY <1>2, <1>3, <2>1 DEF OpenSession, orderVars
<1>4. ASSUME NEW s \in Sessions, NEW t \in Tables, MoveSession(s, t)
      PROVE  ClosedBillsAreSettled'
  <2> DEFINE old == session[s]
             new == [old EXCEPT !.table = t]
  <2>1. session' = [session EXCEPT ![s] = new] /\ new.status = old.status
    BY <1>0, <1>4 DEF MoveSession
  <2> HIDE DEF new
  <2>2. \A z \in Sessions : session'[z].status # "OPEN" => session[z].status # "OPEN"
    BY <1>0, <2>1
  <2> QED
    BY <1>2, <1>4, <2>2 DEF MoveSession, orderVars
<1>5. ASSUME NEW s \in Sessions, NEW next \in {"CLOSED", "CANCELLED"}, FinishSession(s, next)
      PROVE  ClosedBillsAreSettled'
  <2>1. \A z \in Sessions \ {s} : session'[z] = session[z]
    BY <1>0, <1>5 DEF FinishSession
  <2> QED
    BY <1>2, <1>5, <2>1 DEF FinishSession, orderVars
<1>6. ASSUME NEW s \in Sessions, NEW o \in Orders, AttachOrder(s, o)
      PROVE  ClosedBillsAreSettled'
  <2>1. /\ session' = session /\ session[s].status = "OPEN"
        /\ attached'[o] = s /\ \A x \in Orders \ {o} : attached'[x] = attached[x]
    BY <1>0, <1>6 DEF AttachOrder, OpenSessions
  <2>2. \A x \in Orders \ {o} : order'[x] = order[x]
    <3>1. CASE order[o].mode = "TABLE"
      BY <1>6, <3>1 DEF AttachOrder
    <3>2. CASE order[o].mode # "TABLE"
      <4> DEFINE b == Bumped(o)
                 row == [b[o] EXCEPT !.mode = "TABLE"]
      <4>1. order' = [b EXCEPT ![o] = row]
        BY <1>6, <3>2 DEF AttachOrder
      <4>2. DOMAIN b = Orders /\ \A x \in Orders \ {o} : b[x] = order[x]
        BY BumpedOrder DEF TypeOK
      <4> HIDE DEF row, b
      <4> QED
        BY <4>1, <4>2
    <3> QED
      BY <3>1, <3>2
  <2> QED
    BY <2>1, <2>2 DEF ClosedBillsAreSettled
<1> QED
  BY <1>1, <1>3, <1>4, <1>5, <1>6
     DEF TablesNext, CheckOpen, CheckMove, UpdateSession, CheckDeactivate,
         DeactivateTable, ActivateTable, Refuse, tableVars, orderVars

LEMMA TablesStep ==
  ASSUME TypeOK, MoneyInv, TablesAreSound, Next
  PROVE  TablesAreSound'
<1>1. CASE TablesNext
  BY <1>1, OneBillPerTableStep, ClosedBillsStep DEF TablesAreSound
<1>2. CASE DisplayNext \/ KitchenNext
  <2>1. UNCHANGED <<order, session, attached>>
    BY <1>2 DEF DisplayNext, Show, KitchenNext, UpdateStation, RouteCategory, UnrouteCategory,
                Dispatch, TransitionTicket, orderVars, tableVars
  <2> QED
    BY <2>1 DEF TablesAreSound, OneBillPerTable, OpenSessions, ClosedBillsAreSettled
<1>3. CASE OrdersNext \/ CheckoutNext
  <2>1. UNCHANGED <<session, attached>>
    BY <1>3, OrderSteps, DeskMovesOrders DEF KeepsTheRest, tableVars
  <2>2. \A x \in Orders : order[x].status \in SettledStatus => order'[x].status = order[x].status
    BY <1>3, SettledOrdersStay
  <2> QED
    BY <2>1, <2>2 DEF TablesAreSound, OneBillPerTable, OpenSessions, ClosedBillsAreSettled
<1> QED
  BY <1>1, <1>2, <1>3 DEF Next

-----------------------------------------------------------------------------
(* What a step at the cash desk comes to *)

OrderGoes(o, from, to) ==
  /\ order[o].status = from /\ order'[o].status = to
  /\ \A x \in Orders \ {o} : order'[x].status = order[x].status

Opens(c) ==
  /\ checkout[c].status = "NONE" /\ checkout'[c].status = "OPEN"
  /\ checkout'[c].order \in Orders /\ checkout'[c].total > 0 /\ Captured(c)' = 0
  /\ checkout'[c].total = order[checkout'[c].order].total
  /\ shown[checkout'[c].order].version = order[checkout'[c].order].version
  /\ OrderGoes(checkout'[c].order, "OPEN", "AWAITING_PAYMENT")

Books(c) ==
  /\ UNCHANGED <<checkout, order>>
  /\ Captured(c)' > Captured(c) => checkout[c].status = "OPEN"

Concludes(c, to) ==
  /\ checkout[c].status = "OPEN" /\ checkout'[c].status = to
  /\ checkout'[c].order = checkout[c].order /\ checkout'[c].total = checkout[c].total

Completes(c) ==
  /\ Concludes(c, "COMPLETED")
  /\ Captured(c)' = checkout[c].total
  /\ OrderGoes(checkout[c].order, "AWAITING_PAYMENT", "PAID")

Releases(c) ==
  /\ Concludes(c, "CANCELLED")
  /\ Captured(c) = 0
  /\ OrderGoes(checkout[c].order, "AWAITING_PAYMENT", "OPEN")

DeskStep(c) ==
  /\ \A d \in Checkouts \ {c} : checkout'[d] = checkout[d] /\ Captured(d)' = Captured(d)
  /\ Opens(c) \/ Books(c) \/ Completes(c) \/ Releases(c)

\* A payment counts for its own checkout only.
LEMMA OthersBooked ==
  ASSUME payment \in [Payments -> PaymentRow], payment' \in [Payments -> PaymentRow],
         NEW p \in Payments, NEW c, NEW d, d # c,
         \A q \in Payments \ {p} : payment'[q] = payment[q],
         payment'[p].checkout = c, payment[p].checkout = c \/ payment[p].status = "NONE"
  PROVE  Captured(d)' = Captured(d)
<1>1. \A q \in Payments : Part(d, payment', {"CAPTURED"})[q] = Part(d, payment, {"CAPTURED"})[q]
  BY DEF Part
<1>2. Booked(d, payment', {"CAPTURED"}) = Booked(d, payment, {"CAPTURED"})
  BY <1>1, BookedSame
<1> QED
  BY <1>2, BooksOf, BooksOfNext

LEMMA CheckoutMoves ==
  ASSUME TypeOK, NEW c \in Checkouts, NEW to, checkout' = [checkout EXCEPT ![c].status = to]
  PROVE  /\ checkout'[c].status = to /\ checkout'[c].order = checkout[c].order
         /\ checkout'[c].total = checkout[c].total
         /\ \A d \in Checkouts \ {c} : checkout'[d] = checkout[d]
<1> DEFINE old == checkout[c]
           new == [old EXCEPT !.status = to]
<1>1. new.status = to /\ new.order = old.order /\ new.total = old.total
  BY MoneyTypes DEF CheckoutRow
<1>2. checkout' = [checkout EXCEPT ![c] = new]
  OBVIOUS
<1> HIDE DEF new
<1> QED
  BY <1>1, <1>2, MoneyTypes

LEMMA RefreshAtTheDesk ==
  ASSUME TypeOK, TypeOK', MoneyInv, NEW c \in Checkouts, CheckoutOpen(c),
         NEW ps, RefreshCheckout(c, ps),
         \A d \in Checkouts \ {c} : Captured(d)' = Captured(d)
  PROVE  DeskStep(c)
<1> DEFINE o == checkout[c].order
<1>1. o \in Orders /\ order[o].status = "AWAITING_PAYMENT" /\ checkout[c].status = "OPEN"
  BY DEF MoneyInv, CheckoutsFollowOrders, CheckoutOpen
<1>2. CASE Complete(c, ps)
  <2>1. /\ checkout' = [checkout EXCEPT ![c].status = "COMPLETED"]
        /\ order' = [Bumped(o) EXCEPT ![o].status = "PAID"] /\ payment' = ps
    BY <1>2 DEF RefreshCheckout
  <2>2. Concludes(c, "COMPLETED") /\ \A d \in Checkouts \ {c} : checkout'[d] = checkout[d]
    BY <1>1, <2>1, CheckoutMoves DEF Concludes
  <2>3. OrderGoes(o, "AWAITING_PAYMENT", "PAID")
    BY <1>1, <2>1, OrderMoves DEF OrderGoes
  <2>4. Captured(c)' = checkout[c].total
    <3>1. payment' \in [Payments -> PaymentRow]
      BY DEF TypeOK, PaymentRow
    <3> QED
      BY <1>2, <2>1, <3>1, BooksOfNext, CompleteIsBooked
  <2> QED
    BY <2>2, <2>3, <2>4 DEF DeskStep, Completes
<1>3. CASE ~ Complete(c, ps)
  BY <1>1, <1>3 DEF RefreshCheckout, DeskStep, Books
<1> QED
  BY <1>2, <1>3

\* Nothing is paid to a checkout nobody opened.
LEMMA FreshCheckout ==
  ASSUME TypeOK, MoneyInv, NEW c \in Checkouts, checkout[c].status = "NONE"
  PROVE  Captured(c) = 0
<1>1. \A p \in Payments : Part(c, payment, {"CAPTURED"})[p] = 0
  BY DEF Part, MoneyInv, PaymentsAreOfCheckouts
<1>2. Booked(c, payment, {"CAPTURED"}) = 0
  BY <1>1, FiniteTables, SumOfZeros DEF Booked
<1> QED
  BY <1>2, BooksOf, MoneyTypes

LEMMA DeskSteps ==
  ASSUME TypeOK, TypeOK', MoneyInv, CheckoutNext
  PROVE  \E c \in Checkouts : DeskStep(c)
<1>0. payment \in [Payments -> PaymentRow] /\ payment' \in [Payments -> PaymentRow]
  BY DEF TypeOK, PaymentRow
<1>1. ASSUME NEW c \in Checkouts, NEW o \in Orders, OpenCheckout(o, c) PROVE DeskStep(c)
  <2>1. /\ payment' = payment /\ checkout[c].status = "NONE" /\ order[o].status = "OPEN"
        /\ order[o].total > 0 /\ shown[o].version = order[o].version
        /\ checkout' = [checkout EXCEPT ![c] = [status |-> "OPEN", order |-> o,
                                                total |-> order[o].total]]
        /\ order' = [Bumped(o) EXCEPT ![o].status = "AWAITING_PAYMENT"]
    BY <1>1 DEF OpenCheckout, ShownCurrent
  <2>2. /\ checkout'[c].status = "OPEN" /\ checkout'[c].order = o
        /\ checkout'[c].total = order[o].total
        /\ \A d \in Checkouts \ {c} : checkout'[d] = checkout[d]
    BY <2>1, MoneyTypes
  <2>3. \A d : Captured(d)' = Captured(d)
    BY <2>1 DEF Captured, Amount, PaymentsOf
  <2>4. OrderGoes(o, "OPEN", "AWAITING_PAYMENT")
    BY <2>1, OrderMoves DEF OrderGoes
  <2>5. Captured(c)' = 0
    BY <2>1, <2>3, FreshCheckout
  <2> QED
    BY <2>1, <2>2, <2>3, <2>4, <2>5 DEF DeskStep, Opens
<1>2. ASSUME NEW c \in Checkouts, NEW p \in Payments, NEW method \in {"CASH", "CARD", "OTHER"},
             NEW a \in Amounts(c), CreatePayment(c, p, method, a)
      PROVE  DeskStep(c)
  <2> DEFINE row == [status |-> IF method = "CASH" THEN "CAPTURED" ELSE "PENDING",
                     checkout |-> c, method |-> method, amount |-> a, refunded |-> 0]
             ps == [payment EXCEPT ![p] = row]
  <2>1. payment[p].status = "NONE" /\ CheckoutOpen(c) /\ payment' = ps /\ row.checkout = c
    BY <1>2 DEF CreatePayment, RefreshCheckout
  <2> HIDE DEF row
  <2>2. payment'[p].checkout = c /\ \A q \in Payments \ {p} : payment'[q] = payment[q]
    BY <1>0, <2>1
  <2>3. \A d \in Checkouts \ {c} : Captured(d)' = Captured(d)
    BY <1>0, <2>1, <2>2, OthersBooked
  <2>4. CASE method = "CASH"
    <3>1. RefreshCheckout(c, ps)
      BY <1>2, <2>4 DEF CreatePayment, row
    <3> HIDE DEF ps
    <3> QED
      BY <2>1, <2>3, <3>1, RefreshAtTheDesk
  <2>5. CASE method # "CASH"
    <3>1. UNCHANGED <<order, checkout>>
      BY <1>2, <2>5 DEF CreatePayment, orderVars
    <3> QED
      BY <2>1, <2>3, <3>1 DEF DeskStep, Books, CheckoutOpen
  <2> QED
    BY <2>4, <2>5
<1>3. ASSUME NEW c \in Checkouts, CancelCheckout(c) PROVE DeskStep(c)
  <2> DEFINE o == checkout[c].order
             ps == WithoutPending(c)
  <2>1. /\ o \in Orders /\ order[o].status = "AWAITING_PAYMENT" /\ checkout[c].status = "OPEN"
        /\ Captured(c) = 0 /\ payment' = ps
        /\ checkout' = [checkout EXCEPT ![c].status = "CANCELLED"]
        /\ order' = [Bumped(o) EXCEPT ![o].status = "OPEN"]
    BY <1>3 DEF CancelCheckout, CheckoutOpen, MoneyInv, CheckoutsFollowOrders
  <2>2. Concludes(c, "CANCELLED") /\ \A d \in Checkouts \ {c} : checkout'[d] = checkout[d]
    BY <2>1, CheckoutMoves DEF Concludes
  <2>3. OrderGoes(o, "AWAITING_PAYMENT", "OPEN")
    BY <2>1, OrderMoves DEF OrderGoes
  <2>4. ASSUME NEW d PROVE Captured(d)' = Captured(d)
    <3>1. ASSUME NEW q \in Payments
          PROVE  Part(d, ps, {"CAPTURED"})[q] = Part(d, payment, {"CAPTURED"})[q]
      <4> DEFINE old == payment[q]
                 new == [old EXCEPT !.status = "CANCELLED"]
      <4>1. new.status = "CANCELLED"
        BY <1>0 DEF PaymentRow
      <4>2. ps[q] = IF old.checkout = c /\ old.status = "PENDING" THEN new ELSE old
        BY DEF WithoutPending
      <4> HIDE DEF new, ps
      <4> QED
        BY <4>1, <4>2 DEF Part
    <3>2. Booked(d, ps, {"CAPTURED"}) = Booked(d, payment, {"CAPTURED"})
      BY <3>1, BookedSame
    <3> QED
      BY <1>0, <2>1, <3>2, BooksOf, BooksOfNext
  <2> QED
    BY <2>1, <2>2, <2>3, <2>4 DEF DeskStep, Releases
<1>4. ASSUME NEW p \in Payments, NEW to \in {"CAPTURED", "FAILED", "CANCELLED"},
             ResolvePayment(p, to)
      PROVE  \E c \in Checkouts : DeskStep(c)
  <2>0. PICK c \in Checkouts : c = payment[p].checkout
    BY <1>4 DEF ResolvePayment, MoneyInv, PaymentsAreOfCheckouts
  <2> DEFINE row == [payment[p] EXCEPT !.status = to]
             ps == [payment EXCEPT ![p] = row]
  <2>1. CheckoutOpen(c) /\ RefreshCheckout(c, ps) /\ payment' = ps
    BY <1>4, <2>0 DEF ResolvePayment, RefreshCheckout
  <2>2. row.checkout = c
    BY <1>0, <2>0 DEF PaymentRow
  <2> HIDE DEF row
  <2>3. payment'[p].checkout = c /\ \A q \in Payments \ {p} : payment'[q] = payment[q]
    BY <1>0, <2>1, <2>2
  <2>4. \A d \in Checkouts \ {c} : Captured(d)' = Captured(d)
    BY <1>0, <2>0, <2>3, OthersBooked
  <2> HIDE DEF ps
  <2>5. DeskStep(c)
    BY <2>1, <2>4, RefreshAtTheDesk
  <2> QED
    BY <2>1, <2>5
<1>5. ASSUME NEW p \in Payments, NEW a \in 1..payment[p].amount, RefundPayment(p, a)
      PROVE  \E c \in Checkouts : DeskStep(c)
  <2>0. PICK c \in Checkouts : c = payment[p].checkout
    BY <1>5 DEF RefundPayment, MoneyInv, PaymentsAreOfCheckouts
  <2> DEFINE refunded == payment[p].refunded + a
             status == IF refunded >= payment[p].amount THEN "REFUNDED" ELSE "PARTIALLY_REFUNDED"
             row == [payment[p] EXCEPT !.refunded = refunded, !.status = status]
  <2>1. /\ payment' = [payment EXCEPT ![p] = row] /\ UNCHANGED <<checkout, order>>
    BY <1>5 DEF RefundPayment, orderVars
  <2>2. row.checkout = c /\ row.status # "CAPTURED"
    <3> HIDE DEF refunded
    <3> QED
      BY <1>0, <2>0 DEF PaymentRow
  <2> HIDE DEF row
  <2>3. /\ payment'[p] = row /\ payment'[p].checkout = c
        /\ \A q \in Payments \ {p} : payment'[q] = payment[q]
    BY <1>0, <2>1, <2>2
  <2>4. \A d \in Checkouts \ {c} : Captured(d)' = Captured(d)
    BY <1>0, <2>0, <2>3, OthersBooked
  <2>5. Captured(c)' <= Captured(c) /\ Captured(c) \in Nat /\ Captured(c)' \in Nat
    <3>1. \A q \in Payments :
            Part(c, payment', {"CAPTURED"})[q] <= Part(c, payment, {"CAPTURED"})[q]
      BY <1>0, <2>2, <2>3 DEF Part, PaymentRow
    <3>2. Booked(c, payment', {"CAPTURED"}) <= Booked(c, payment, {"CAPTURED"})
      BY <1>0, <3>1, BookedLess
    <3>3. Booked(c, payment', {"CAPTURED"}) \in Nat /\ Booked(c, payment, {"CAPTURED"}) \in Nat
      BY <1>0, BookedType
    <3> QED
      BY <1>0, <3>2, <3>3, BooksOf, BooksOfNext
  <2>6. ~ Captured(c)' > Captured(c)
    BY <2>5
  <2>7. DeskStep(c)
    BY <2>1, <2>4, <2>6 DEF DeskStep, Books
  <2> QED
    BY <2>1, <2>7
<1> QED
  BY <1>1, <1>2, <1>3, <1>4, <1>5 DEF CheckoutNext, CapturePayment, FailPayment, CancelPayment

-----------------------------------------------------------------------------
(* The contract of the cash desk, order by order *)

PhaseOf(o) ==
  CASE order[o].status = "AWAITING_PAYMENT" -> "due"
    [] order[o].status = "PAID" -> "paid"
    [] order[o].status = "CANCELLED" -> "void"
    [] OTHER -> "open"
ChargeOf(o) == SumFunction([c \in ChargingCheckouts(o) |-> checkout[c].total])
BalanceOf(o) == SumFunction([c \in ChargingCheckouts(o) |-> Captured(c)])

\* The sum over the one checkout that charges an order, or over none.
LEMMA SumOfTheOne ==
  ASSUME NEW f
  PROVE  /\ DOMAIN f = {} => SumFunction(f) = 0
         /\ \A x : DOMAIN f = {x} /\ f[x] \in Int => SumFunction(f) = f[x]
  BY SumOfNone, SumOfSingle DEF SumFunction

LEMMA BooksOfOrder ==
  ASSUME TypeOK, MoneyInv, NEW o \in Orders
  PROVE  /\ \A c \in Checkouts : Charging(c) /\ checkout[c].order = o =>
              ChargeOf(o) = checkout[c].total /\ BalanceOf(o) = Captured(c)
         /\ (\A c \in Checkouts : Charging(c) => checkout[c].order # o) =>
              ChargeOf(o) = 0 /\ BalanceOf(o) = 0
<1> DEFINE charges == [c \in ChargingCheckouts(o) |-> checkout[c].total]
           balances == [c \in ChargingCheckouts(o) |-> Captured(c)]
<1>1. ASSUME NEW c \in Checkouts, Charging(c), checkout[c].order = o
      PROVE  ChargeOf(o) = checkout[c].total /\ BalanceOf(o) = Captured(c)
  <2>1. ChargingCheckouts(o) = {c}
    BY <1>1 DEF MoneyInv, OneChargingCheckout, ChargingCheckouts, Charging
  <2>2. /\ DOMAIN charges = {c} /\ charges[c] = checkout[c].total
        /\ DOMAIN balances = {c} /\ balances[c] = Captured(c)
    BY <2>1
  <2>3. checkout[c].total \in Int /\ Captured(c) \in Int
    <3>1. checkout[c].total \in Nat
      BY MoneyTypes DEF CheckoutRow
    <3>2. Booked(c, payment, {"CAPTURED"}) \in Nat
      BY BookedType, MoneyTypes
    <3> QED
      BY <3>1, <3>2, BooksOf, MoneyTypes
  <2> HIDE DEF charges, balances
  <2>4. SumFunction(charges) = checkout[c].total /\ SumFunction(balances) = Captured(c)
    BY <2>2, <2>3, SumOfTheOne
  <2> QED
    BY <2>4 DEF ChargeOf, BalanceOf, charges, balances
<1>2. ASSUME \A c \in Checkouts : Charging(c) => checkout[c].order # o
      PROVE  ChargeOf(o) = 0 /\ BalanceOf(o) = 0
  <2>1. ChargingCheckouts(o) = {}
    BY <1>2 DEF ChargingCheckouts, Charging
  <2>2. DOMAIN charges = {} /\ DOMAIN balances = {}
    BY <2>1
  <2> HIDE DEF charges, balances
  <2>3. SumFunction(charges) = 0 /\ SumFunction(balances) = 0
    BY <2>2, SumOfTheOne
  <2> QED
    BY <2>3 DEF ChargeOf, BalanceOf, charges, balances
<1> QED
  BY <1>1, <1>2

LEMMA BooksOfOrderNext ==
  ASSUME TypeOK', MoneyInv', NEW o \in Orders
  PROVE  /\ \A c \in Checkouts : Charging(c)' /\ checkout'[c].order = o =>
              ChargeOf(o)' = checkout'[c].total /\ BalanceOf(o)' = Captured(c)'
         /\ (\A c \in Checkouts : Charging(c)' => checkout'[c].order # o) =>
              ChargeOf(o)' = 0 /\ BalanceOf(o)' = 0
<1> DEFINE charges == [c \in ChargingCheckouts(o)' |-> checkout'[c].total]
           balances == [c \in ChargingCheckouts(o)' |-> Captured(c)']
<1>0. payment' \in [Payments -> PaymentRow] /\ checkout' \in [Checkouts -> CheckoutRow]
  BY DEF TypeOK, PaymentRow, CheckoutRow
<1>1. ASSUME NEW c \in Checkouts, Charging(c)', checkout'[c].order = o
      PROVE  ChargeOf(o)' = checkout'[c].total /\ BalanceOf(o)' = Captured(c)'
  <2>1. ChargingCheckouts(o)' = {c}
    BY <1>1 DEF MoneyInv, OneChargingCheckout, ChargingCheckouts, Charging
  <2>2. /\ DOMAIN charges = {c} /\ charges[c] = checkout'[c].total
        /\ DOMAIN balances = {c} /\ balances[c] = Captured(c)'
    BY <2>1
  <2>3. checkout'[c].total \in Int /\ Captured(c)' \in Int
    <3>1. checkout'[c].total \in Nat
      BY <1>0 DEF CheckoutRow
    <3>2. Booked(c, payment', {"CAPTURED"}) \in Nat
      BY <1>0, BookedType
    <3> QED
      BY <1>0, <3>1, <3>2, BooksOfNext
  <2> HIDE DEF charges, balances
  <2>4. SumFunction(charges) = checkout'[c].total /\ SumFunction(balances) = Captured(c)'
    BY <2>2, <2>3, SumOfTheOne
  <2> QED
    BY <2>4 DEF ChargeOf, BalanceOf, charges, balances
<1>2. ASSUME \A c \in Checkouts : Charging(c)' => checkout'[c].order # o
      PROVE  ChargeOf(o)' = 0 /\ BalanceOf(o)' = 0
  <2>1. ChargingCheckouts(o)' = {}
    BY <1>2 DEF ChargingCheckouts, Charging
  <2>2. DOMAIN charges = {} /\ DOMAIN balances = {}
    BY <2>1
  <2> HIDE DEF charges, balances
  <2>3. SumFunction(charges) = 0 /\ SumFunction(balances) = 0
    BY <2>2, SumOfTheOne
  <2> QED
    BY <2>3 DEF ChargeOf, BalanceOf, charges, balances
<1> QED
  BY <1>1, <1>2

Stands(o) == UNCHANGED <<PhaseOf(o), ChargeOf(o), BalanceOf(o)>>

\* The steps of the contract, for one order.
Asks(o) ==
  PhaseOf(o) = "open" /\ PhaseOf(o)' = "due" /\ ChargeOf(o)' > 0 /\ UNCHANGED BalanceOf(o)
Receives(o) ==
  /\ PhaseOf(o) = "due" /\ BalanceOf(o)' > BalanceOf(o) /\ BalanceOf(o)' < ChargeOf(o)
  /\ UNCHANGED <<PhaseOf(o), ChargeOf(o)>>
Settles(o) ==
  PhaseOf(o) = "due" /\ PhaseOf(o)' = "paid" /\ BalanceOf(o)' = ChargeOf(o) /\ UNCHANGED ChargeOf(o)
Returns(o) ==
  /\ PhaseOf(o) \in {"due", "paid"} /\ BalanceOf(o)' < BalanceOf(o) /\ BalanceOf(o)' >= 0
  /\ UNCHANGED <<PhaseOf(o), ChargeOf(o)>>
GivesUp(o) ==
  /\ PhaseOf(o) = "due" /\ PhaseOf(o)' = "open" /\ BalanceOf(o) = 0 /\ ChargeOf(o)' = 0
  /\ UNCHANGED BalanceOf(o)
Voids(o) ==
  PhaseOf(o) = "open" /\ PhaseOf(o)' = "void" /\ UNCHANGED <<ChargeOf(o), BalanceOf(o)>>

\* One order at most takes a step of the contract, so the step is one of the contract.
LEMMA ContractSteps ==
  ASSUME NEW o \in Orders, \A x \in Orders \ {o} : Stands(x),
         \/ Stands(o) \/ Asks(o) \/ Receives(o) \/ Settles(o) \/ Returns(o) \/ GivesUp(o) \/ Voids(o)
  PROVE  [Contract!Next]_(Contract!vars)
<1> DEFINE p == [x \in Orders |-> PhaseOf(x)]
           c == [x \in Orders |-> ChargeOf(x)]
           b == [x \in Orders |-> BalanceOf(x)]
<1>1. /\ p' = [p EXCEPT ![o] = PhaseOf(o)'] /\ c' = [c EXCEPT ![o] = ChargeOf(o)']
      /\ b' = [b EXCEPT ![o] = BalanceOf(o)']
      /\ c'[o] = ChargeOf(o)' /\ b'[o] = BalanceOf(o)'
      /\ p[o] = PhaseOf(o) /\ c[o] = ChargeOf(o) /\ b[o] = BalanceOf(o)
  BY DEF Stands
<1>2. /\ UNCHANGED PhaseOf(o) => p' = p
      /\ UNCHANGED ChargeOf(o) => c' = c
      /\ UNCHANGED BalanceOf(o) => b' = b
  BY DEF Stands
<1>3. /\ p = [x \in Orders |-> CASE order[x].status = "AWAITING_PAYMENT" -> "due"
                                 [] order[x].status = "PAID" -> "paid"
                                 [] order[x].status = "CANCELLED" -> "void"
                                 [] OTHER -> "open"]
      /\ c = [x \in Orders |-> SumFunction([k \in ChargingCheckouts(x) |-> checkout[k].total])]
      /\ b = [x \in Orders |-> SumFunction([k \in ChargingCheckouts(x) |-> Captured(k)])]
  BY DEF PhaseOf, ChargeOf, BalanceOf
<1> DEFINE Next3 ==
      \/ /\ p[o] = "open" /\ p' = [p EXCEPT ![o] = "due"]
         /\ c'[o] > 0 /\ c' = [c EXCEPT ![o] = c'[o]] /\ b' = b
      \/ /\ p[o] = "due" /\ b'[o] > b[o] /\ b'[o] < c[o]
         /\ b' = [b EXCEPT ![o] = b'[o]] /\ p' = p /\ c' = c
      \/ p[o] = "due" /\ p' = [p EXCEPT ![o] = "paid"] /\ b' = [b EXCEPT ![o] = c[o]] /\ c' = c
      \/ /\ p[o] \in {"due", "paid"} /\ b'[o] < b[o] /\ b'[o] >= 0
         /\ b' = [b EXCEPT ![o] = b'[o]] /\ p' = p /\ c' = c
      \/ /\ p[o] = "due" /\ p' = [p EXCEPT ![o] = "open"] /\ b[o] = 0
         /\ c' = [c EXCEPT ![o] = 0] /\ b' = b
      \/ p[o] = "open" /\ p' = [p EXCEPT ![o] = "void"] /\ c' = c /\ b' = b
<1> HIDE DEF p, c, b
<1>4. Next3 \/ (p' = p /\ c' = c /\ b' = b)
  BY <1>1, <1>2 DEF Stands, Asks, Receives, Settles, Returns, GivesUp, Voids
<1>5. CASE Next3
  <2>1. Contract!Next
    BY <1>5 DEF Contract!Next, Contract!Ask, Contract!Receive, Contract!Settle, Contract!Return,
                Contract!Release, Contract!Void, Contract!Moves, p, c, b, PhaseOf, ChargeOf,
                BalanceOf
  <2> QED
    BY <2>1
<1>6. CASE p' = p /\ c' = c /\ b' = b
  <2>1. UNCHANGED Contract!vars
    BY <1>6 DEF Contract!vars, p, c, b, PhaseOf, ChargeOf, BalanceOf
  <2> QED
    BY <2>1
<1> QED
  BY <1>4, <1>5, <1>6

LEMMA ContractStutters ==
  ASSUME \A x \in Orders : Stands(x)
  PROVE  UNCHANGED Contract!vars
<1>1. \A x \in Orders : /\ PhaseOf(x)' = PhaseOf(x) /\ ChargeOf(x)' = ChargeOf(x)
                        /\ BalanceOf(x)' = BalanceOf(x)
  BY DEF Stands
<1>2. /\ [x \in Orders |-> PhaseOf(x)'] = [x \in Orders |-> PhaseOf(x)]
      /\ [x \in Orders |-> ChargeOf(x)'] = [x \in Orders |-> ChargeOf(x)]
      /\ [x \in Orders |-> BalanceOf(x)'] = [x \in Orders |-> BalanceOf(x)]
  BY <1>1
<1> QED
  BY <1>2 DEF Contract!vars, PhaseOf, ChargeOf, BalanceOf

\* An order that the checkout at hand does not charge, before or after.
LEMMA OthersStand ==
  ASSUME TypeOK, TypeOK', MoneyInv, MoneyInv', NEW c \in Checkouts, NEW x \in Orders,
         \A d \in Checkouts \ {c} : checkout'[d] = checkout[d] /\ Captured(d)' = Captured(d),
         order'[x].status = order[x].status,
         Charging(c) => checkout[c].order # x, Charging(c)' => checkout'[c].order # x
  PROVE  Stands(x)
<1>1. PhaseOf(x)' = PhaseOf(x)
  BY DEF PhaseOf
<1>2. CASE \E d \in Checkouts : Charging(d) /\ checkout[d].order = x
  <2>1. PICK d \in Checkouts : Charging(d) /\ checkout[d].order = x
    BY <1>2
  <2>2. d # c
    BY <2>1
  <2>3. checkout'[d] = checkout[d] /\ Captured(d)' = Captured(d)
    BY <2>2
  <2>4. Charging(d)' /\ checkout'[d].order = x
    BY <2>1, <2>3 DEF Charging
  <2>5. ChargeOf(x) = checkout[d].total /\ BalanceOf(x) = Captured(d)
    BY <2>1, BooksOfOrder
  <2>6. ChargeOf(x)' = checkout'[d].total /\ BalanceOf(x)' = Captured(d)'
    BY <2>4, BooksOfOrderNext
  <2> QED
    BY <1>1, <2>3, <2>5, <2>6 DEF Stands
<1>3. CASE \A d \in Checkouts : Charging(d) => checkout[d].order # x
  <2>1. ASSUME NEW d \in Checkouts, Charging(d)' PROVE checkout'[d].order # x
    <3>1. CASE d = c
      BY <2>1, <3>1
    <3>2. CASE d # c
      BY <1>3, <2>1, <3>2 DEF Charging
    <3> QED
      BY <3>1, <3>2
  <2>2. ChargeOf(x) = 0 /\ BalanceOf(x) = 0
    BY <1>3, BooksOfOrder
  <2>3. ChargeOf(x)' = 0 /\ BalanceOf(x)' = 0
    BY <2>1, BooksOfOrderNext
  <2> QED
    BY <1>1, <2>2, <2>3 DEF Stands
<1> QED
  BY <1>2, <1>3

LEMMA DeskKeepsContract ==
  ASSUME TypeOK, TypeOK', MoneyInv, MoneyInv', CheckoutNext
  PROVE  [Contract!Next]_(Contract!vars)
<1>0. PICK c \in Checkouts : DeskStep(c)
  BY DeskSteps
<1>1. \A d \in Checkouts \ {c} : checkout'[d] = checkout[d] /\ Captured(d)' = Captured(d)
  BY <1>0 DEF DeskStep
<1>2. checkout[c].total \in Nat /\ Captured(c) \in Nat /\ Captured(c)' \in Nat
  <2>1. payment' \in [Payments -> PaymentRow]
    BY DEF TypeOK, PaymentRow
  <2>2. Booked(c, payment, {"CAPTURED"}) \in Nat /\ Booked(c, payment', {"CAPTURED"}) \in Nat
    BY <2>1, BookedType, MoneyTypes
  <2> QED
    BY <2>1, <2>2, BooksOf, BooksOfNext, MoneyTypes DEF CheckoutRow
<1>3. CASE Opens(c)
  <2>0. PICK o \in Orders : o = checkout'[c].order
    BY <1>3 DEF Opens
  <2>1. ~ Charging(c) /\ Charging(c)' /\ checkout'[c].order = o
    BY <1>3, <2>0 DEF Opens, Charging
  <2>2. /\ order[o].status = "OPEN" /\ order'[o].status = "AWAITING_PAYMENT"
        /\ \A x \in Orders \ {o} : order'[x].status = order[x].status
        /\ checkout'[c].total > 0 /\ Captured(c)' = 0
    BY <1>3, <2>0 DEF Opens, OrderGoes
  <2>3. \A x \in Orders \ {o} : Stands(x)
    BY <1>1, <2>1, <2>2, OthersStand
  <2>4. \A d \in Checkouts : Charging(d) => checkout[d].order # o
    BY <2>2 DEF MoneyInv, CheckoutsFollowOrders, Charging
  <2>5. BalanceOf(o) = 0
    BY <2>4, BooksOfOrder
  <2>6. ChargeOf(o)' = checkout'[c].total /\ BalanceOf(o)' = Captured(c)'
    BY <2>1, BooksOfOrderNext
  <2>7. PhaseOf(o) = "open" /\ PhaseOf(o)' = "due"
    BY <2>2 DEF PhaseOf
  <2>8. Asks(o)
    BY <2>2, <2>5, <2>6, <2>7 DEF Asks
  <2> QED
    BY <2>3, <2>8, ContractSteps
<1>4. CASE Books(c)
  <2>1. checkout' = checkout /\ order' = order
    BY <1>4 DEF Books
  <2>2. CASE ~ Charging(c)
    <3>1. \A x \in Orders : Stands(x)
      BY <1>1, <2>1, <2>2, OthersStand DEF Charging
    <3> QED
      BY <3>1, ContractStutters
  <2>3. CASE Charging(c)
    <3>0. PICK o \in Orders : o = checkout[c].order
      BY <2>3 DEF MoneyInv, CheckoutsFollowOrders, Charging
    <3>1. \A x \in Orders \ {o} : Stands(x)
      BY <1>1, <2>1, <3>0, OthersStand
    <3>2. ChargeOf(o) = checkout[c].total /\ BalanceOf(o) = Captured(c)
      BY <2>3, <3>0, BooksOfOrder
    <3>3. ChargeOf(o)' = checkout[c].total /\ BalanceOf(o)' = Captured(c)'
      BY <2>1, <2>3, <3>0, BooksOfOrderNext DEF Charging
    <3>4. PhaseOf(o)' = PhaseOf(o) /\ PhaseOf(o) \in {"due", "paid"}
          /\ (checkout[c].status = "OPEN" => PhaseOf(o) = "due")
      BY <2>1, <2>3, <3>0 DEF PhaseOf, MoneyInv, CheckoutsFollowOrders, Charging
    <3>5. CASE Captured(c)' > Captured(c)
      <4>1. checkout[c].status = "OPEN"
        BY <1>4, <3>5 DEF Books
      <4>2. Captured(c)' < checkout[c].total
        BY <2>1, <4>1 DEF MoneyInv, CheckoutsFollowOrders
      <4>3. Receives(o)
        BY <3>2, <3>3, <3>4, <3>5, <4>1, <4>2 DEF Receives
      <4> QED
        BY <3>1, <4>3, ContractSteps
    <3>6. CASE Captured(c)' = Captured(c)
      <4>1. Stands(o)
        BY <3>2, <3>3, <3>4, <3>6 DEF Stands
      <4> QED
        BY <3>1, <4>1, ContractSteps
    <3>7. CASE Captured(c)' < Captured(c)
      <4>1. Returns(o)
        BY <1>2, <3>2, <3>3, <3>4, <3>7 DEF Returns
      <4> QED
        BY <3>1, <4>1, ContractSteps
    <3> QED
      BY <1>2, <3>5, <3>6, <3>7
  <2> QED
    BY <2>2, <2>3
<1>5. CASE Completes(c)
  <2>0. PICK o \in Orders : o = checkout[c].order
    BY <1>5 DEF Completes, Concludes, MoneyInv, CheckoutsFollowOrders
  <2>1. /\ Charging(c) /\ Charging(c)' /\ checkout'[c].order = o
        /\ checkout'[c].total = checkout[c].total
    BY <1>5, <2>0 DEF Completes, Concludes, Charging
  <2>2. /\ order[o].status = "AWAITING_PAYMENT" /\ order'[o].status = "PAID"
        /\ \A x \in Orders \ {o} : order'[x].status = order[x].status
        /\ Captured(c)' = checkout[c].total
    BY <1>5, <2>0 DEF Completes, OrderGoes
  <2>3. \A x \in Orders \ {o} : Stands(x)
    BY <1>1, <2>0, <2>1, <2>2, OthersStand
  <2>4. ChargeOf(o) = checkout[c].total
    BY <2>0, <2>1, BooksOfOrder
  <2>5. ChargeOf(o)' = checkout'[c].total /\ BalanceOf(o)' = Captured(c)'
    BY <2>1, BooksOfOrderNext
  <2>6. PhaseOf(o) = "due" /\ PhaseOf(o)' = "paid"
    BY <2>2 DEF PhaseOf
  <2>7. Settles(o)
    BY <2>1, <2>2, <2>4, <2>5, <2>6 DEF Settles
  <2> QED
    BY <2>3, <2>7, ContractSteps
<1>6. CASE Releases(c)
  <2>0. PICK o \in Orders : o = checkout[c].order
    BY <1>6 DEF Releases, Concludes, MoneyInv, CheckoutsFollowOrders
  <2>1. Charging(c) /\ ~ Charging(c)'
    BY <1>6, <2>0 DEF Releases, Concludes, Charging
  <2>2. /\ order[o].status = "AWAITING_PAYMENT" /\ order'[o].status = "OPEN"
        /\ \A x \in Orders \ {o} : order'[x].status = order[x].status
        /\ Captured(c) = 0
    BY <1>6, <2>0 DEF Releases, OrderGoes
  <2>3. \A x \in Orders \ {o} : Stands(x)
    BY <1>1, <2>0, <2>1, <2>2, OthersStand
  <2>4. BalanceOf(o) = Captured(c)
    BY <2>0, <2>1, BooksOfOrder
  <2>5. \A d \in Checkouts : Charging(d)' => checkout'[d].order # o
    BY <2>2 DEF MoneyInv, CheckoutsFollowOrders, Charging
  <2>6. ChargeOf(o)' = 0 /\ BalanceOf(o)' = 0
    BY <2>5, BooksOfOrderNext
  <2>7. PhaseOf(o) = "due" /\ PhaseOf(o)' = "open"
    BY <2>2 DEF PhaseOf
  <2>8. GivesUp(o)
    BY <2>2, <2>4, <2>6, <2>7 DEF GivesUp
  <2> QED
    BY <2>3, <2>8, ContractSteps
<1> QED
  BY <1>0, <1>3, <1>4, <1>5, <1>6 DEF DeskStep

LEMMA TablesKeepStatus ==
  ASSUME TypeOK, TablesNext, NEW x \in Orders
  PROVE  order'[x].status = order[x].status
<1>1. CASE UNCHANGED order
  BY <1>1
<1>2. ASSUME NEW s \in Sessions, NEW o \in Orders, AttachOrder(s, o), order[o].mode # "TABLE"
      PROVE  order'[x].status = order[x].status
  <2> DEFINE b == Bumped(o)
             old == b[o]
             row == [old EXCEPT !.mode = "TABLE"]
  <2>1. order' = [b EXCEPT ![o] = row]
    BY <1>2 DEF AttachOrder
  <2>2. /\ DOMAIN b = Orders /\ b[o] = Moved(o, order[o].status)
        /\ \A y \in Orders \ {o} : b[y] = order[y]
    <3> DEFINE moved == Moved(o, order[o].status)
    <3>1. b = [order EXCEPT ![o] = moved]
      BY BumpedOrder
    <3> HIDE DEF moved, b
    <3> QED
      BY <3>1 DEF moved, TypeOK
  <2>3. row.status = order[o].status
    BY <2>2 DEF Moved
  <2> HIDE DEF b, row
  <2> QED
    BY <2>1, <2>2, <2>3
<1>3. ASSUME NEW s \in Sessions, NEW o \in Orders, AttachOrder(s, o), order[o].mode = "TABLE"
      PROVE  UNCHANGED order
  BY <1>3 DEF AttachOrder
<1> QED
  BY <1>1, <1>2, <1>3
     DEF TablesNext, CheckOpen, OpenSession, CheckMove, MoveSession, FinishSession, UpdateSession,
         CheckDeactivate, DeactivateTable, ActivateTable, Refuse, orderVars

\* Composing, holding, resuming and cancelling an order moves no money.
LEMMA OrdersKeepContract ==
  ASSUME TypeOK, OrdersNext
  PROVE  [Contract!Next]_(Contract!vars)
<1>1. UNCHANGED moneyVars
  BY OrderSteps DEF KeepsTheRest
<1>2. PICK o \in Orders :
        \/ \E mode \in ServiceModes : CreateOrder(o, mode)
        \/ Composes(o)
        \/ Hold(o) \/ Resume(o) \/ Cancel(o)
  BY OrderSteps
<1>3. PICK row : order' = [order EXCEPT ![o] = row]
                 /\ order[o].status \in {"NONE", "OPEN", "HELD"}
                 /\ row.status \in {"OPEN", "HELD", "CANCELLED"}
  <2>1. CASE \E mode \in ServiceModes : CreateOrder(o, mode)
    <3>1. PICK mode \in ServiceModes : CreateOrder(o, mode)
      BY <2>1
    <3> DEFINE new == [NoOrder EXCEPT !.status = "OPEN", !.version = 1, !.mode = mode]
    <3>2. order' = [order EXCEPT ![o] = new] /\ order[o].status = "NONE"
      BY <3>1 DEF CreateOrder
    <3>3. new.status = "OPEN"
      BY DEF NoOrder
    <3> HIDE DEF new
    <3> QED
      BY <3>2, <3>3
  <2>2. CASE Composes(o)
    <3>1. PICK q \in Quantities, D \in SUBSET Discounts : Recalculate(o, q, D)
      BY <2>2 DEF Composes
    <3>2. order' = [order EXCEPT ![o] = Recomposed(o, q, D)] /\ order[o].status = "OPEN"
      BY <2>2, <3>1, Recalculates DEF Composes, Mutable
    <3>3. Recomposed(o, q, D).status = order[o].status
      BY DEF Recomposed
    <3> QED
      BY <3>2, <3>3
  <2>3. CASE Hold(o) \/ Resume(o) \/ Cancel(o)
    <3>1. PICK to \in {"OPEN", "HELD", "CANCELLED"} : order' = [Bumped(o) EXCEPT ![o].status = to]
      BY <2>3 DEF Hold, Resume, Cancel, Transition
    <3>2. order' = [order EXCEPT ![o] = Moved(o, to)] /\ Moved(o, to).status = to
      BY <3>1, Moves DEF Moved
    <3>3. order[o].status \in {"OPEN", "HELD"}
      BY <2>3 DEF Hold, Resume, Cancel, Transition, CancellableStatus
    <3> QED
      BY <3>2, <3>3
  <2> QED
    BY <1>2, <2>1, <2>2, <2>3
<1>4. \A x : ChargeOf(x)' = ChargeOf(x) /\ BalanceOf(x)' = BalanceOf(x)
  BY <1>1 DEF ChargeOf, BalanceOf, ChargingCheckouts, Captured, Amount, PaymentsOf, moneyVars
<1>5. order'[o] = row /\ \A x \in Orders \ {o} : order'[x] = order[x]
  BY <1>3 DEF TypeOK
<1>6. \A x \in Orders \ {o} : Stands(x)
  BY <1>4, <1>5 DEF Stands, PhaseOf
<1>7. Stands(o) \/ Voids(o)
  <2>1. PhaseOf(o) = "open" /\ PhaseOf(o)' \in {"open", "void"}
    BY <1>3, <1>5 DEF PhaseOf
  <2> QED
    BY <1>4, <2>1 DEF Stands, Voids
<1> QED
  BY <1>6, <1>7, ContractSteps

LEMMA OthersKeepContract ==
  ASSUME TypeOK, TablesNext \/ DisplayNext \/ KitchenNext \/ UNCHANGED vars
  PROVE  UNCHANGED Contract!vars
<1>1. UNCHANGED moneyVars
  BY DEF TablesNext, CheckOpen, OpenSession, CheckMove, MoveSession, AttachOrder, FinishSession,
         UpdateSession, CheckDeactivate, DeactivateTable, ActivateTable, Refuse, DisplayNext, Show,
         KitchenNext, UpdateStation, RouteCategory, UnrouteCategory, Dispatch, TransitionTicket,
         vars
<1>2. ASSUME NEW x \in Orders PROVE order'[x].status = order[x].status
  <2>1. CASE TablesNext
    BY <2>1, TablesKeepStatus
  <2>2. CASE DisplayNext \/ KitchenNext \/ UNCHANGED vars
    BY <2>2 DEF DisplayNext, Show, KitchenNext, UpdateStation, RouteCategory, UnrouteCategory,
                Dispatch, TransitionTicket, vars, orderVars
  <2> QED
    BY <2>1, <2>2
<1>3. \A x \in Orders : Stands(x)
  BY <1>1, <1>2 DEF Stands, PhaseOf, ChargeOf, BalanceOf, ChargingCheckouts, Captured, Amount,
                    PaymentsOf, moneyVars
<1> QED
  BY <1>3, ContractStutters

-----------------------------------------------------------------------------
(* The point of sale keeps its promises *)

PosInv == TypeOK /\ OrdersInv /\ MoneyInv

LEMMA PosStarts ==
  ASSUME Init
  PROVE  PosInv /\ KitchenGetsNoMoreThanOrdered /\ TablesAreSound
<1>1. TypeOK
  BY PosAssumption DEF Init, TypeOK, NoOrder, NoTicket, NoSession, NoCheckout, NoPayment,
     OrderStatus, ServiceModes, TicketStatus, SessionStatus, CheckoutStatus, PaymentStatus
<1>2. OrdersInv
  <2>1. NewOrdersAreEmpty
    BY DEF Init, NewOrdersAreEmpty, LinesOf
  <2>2. DisplaysFollowOrders
    BY DEF Init, DisplaysFollowOrders, NoOrder
  <2>3. ASSUME NEW o \in Orders
        PROVE  /\ order[o].total = Subtotal(o) - DiscountOf(order[o].discounts)
               /\ DiscountOf(order[o].discounts) <= Subtotal(o)
    <3>1. \A l \in LinesOf(o) : quantity[l] = 0
      BY DEF Init, LinesOf
    <3>2. Subtotal(o) = 0 /\ DiscountOf({}) = 0
      BY <3>1, NothingCostsNothing DEF Subtotal
    <3>3. order[o].total = 0 /\ order[o].discounts = {}
      BY DEF Init, NoOrder
    <3> QED
      BY <3>2, <3>3
  <2> QED
    BY <2>1, <2>2, <2>3 DEF OrdersInv, TotalsFollowLines
<1>3. MoneyInv
  <2>1. \A p \in Payments : payment[p].status = "NONE" /\ payment[p].refunded <= payment[p].amount
    BY DEF Init, NoPayment
  <2>2. \A c \in Checkouts : checkout[c].status = "NONE" /\ checkout[c].total = 0
    BY DEF Init, NoCheckout
  <2>3. \A o \in Orders : order[o].status = "NONE"
    BY DEF Init, NoOrder
  <2>4. ASSUME NEW c \in Checkouts PROVE Captured(c) = 0 /\ Pending(c) = 0
    <3>1. \A p \in Payments : Part(c, payment, {"CAPTURED"})[p] = 0
                              /\ Part(c, payment, {"PENDING"})[p] = 0
      BY <2>1 DEF Part
    <3>2. Booked(c, payment, {"CAPTURED"}) = 0 /\ Booked(c, payment, {"PENDING"}) = 0
      BY <3>1, FiniteTables, SumOfZeros DEF Booked
    <3> QED
      BY <1>1, <3>2, BooksOf, MoneyTypes
  <2>5. CheckoutsFollowOrders
    BY <2>2, <2>4 DEF CheckoutsFollowOrders, Charging
  <2> QED
    BY <2>1, <2>2, <2>3, <2>5 DEF MoneyInv, PaymentsAreOfCheckouts, RefundsStayBelow,
       NoPaymentLeftPending, OneChargingCheckout, Charging, OrdersFollowCheckouts
<1>4. KitchenGetsNoMoreThanOrdered
  <2>1. ASSUME NEW l \in Lines PROVE Sent(l) <= quantity[l]
    <3>1. \A t \in Tickets : SentBy(l, ticket)[t] = 0
      BY DEF Init, NoTicket, SentBy
    <3>2. SumFunctionOnSet(SentBy(l, ticket), Tickets) = 0
      BY <3>1, FiniteTables, SumOfZeros
    <3>3. quantity[l] = 0
      BY DEF Init
    <3> QED
      BY <1>1, <3>2, <3>3, SentType
  <2> QED
    BY <2>1 DEF KitchenGetsNoMoreThanOrdered
<1>5. TablesAreSound
  BY DEF Init, NoSession, TablesAreSound, OneBillPerTable, OpenSessions, ClosedBillsAreSettled
<1> QED
  BY <1>1, <1>2, <1>3, <1>4, <1>5 DEF PosInv

LEMMA PosTypesKept ==
  ASSUME PosInv, Next
  PROVE  TypeOK'
<1>1. TypeOK /\ PaymentsAreOfCheckouts /\ OrdersOfOpenCheckouts
  BY DEF PosInv, MoneyInv, CheckoutsFollowOrders, OrdersOfOpenCheckouts
<1> QED
  BY <1>1, OrdersKeepTypes, DisplaysKeepTypes, KitchenKeepsTypes, TablesKeepTypes,
     CheckoutKeepsTypes DEF Next

LEMMA PosKept ==
  ASSUME PosInv, Next
  PROVE  PosInv'
<1>1. TypeOK /\ TypeOK' /\ OrdersInv /\ MoneyInv /\ TotalsFollowLines
  BY PosTypesKept DEF PosInv, OrdersInv
<1>2. OrdersInv'
  BY <1>1, OrdersKeepOrders, DisplaysKeepOrders, KitchenKeepsOrders, TablesKeepOrders,
     DeskKeepsOrders DEF Next
<1>3. MoneyInv'
  BY <1>1, OrdersKeepMoney, OthersKeepMoney, TablesKeepMoney, CheckoutKeepsMoney DEF Next
<1> QED
  BY <1>1, <1>2, <1>3 DEF PosInv

LEMMA PosStutters ==
  ASSUME UNCHANGED vars
  PROVE  /\ PosInv => PosInv'
         /\ KitchenGetsNoMoreThanOrdered => KitchenGetsNoMoreThanOrdered'
         /\ TablesAreSound => TablesAreSound'
<1>1. UNCHANGED <<order, quantity, shown, route, ticket, active, session, attached, checked,
                  checkout, payment>>
  BY DEF vars, orderVars, kitchenVars, tableVars, moneyVars
<1>2. TypeOK => TypeOK'
  BY <1>1 DEF TypeOK
<1>3. OrdersInv => OrdersInv'
  BY <1>1 DEF OrdersInv, NewOrdersAreEmpty, TotalsFollowLines, DisplaysFollowOrders, Subtotal,
              SubtotalOf, DiscountOf, LinesOf, NoOrder
<1>4. TypeOK /\ MoneyInv => MoneyInv'
  BY <1>1, MoneyStandsStill DEF Frozen, moneyVars
<1>5. KitchenGetsNoMoreThanOrdered => KitchenGetsNoMoreThanOrdered'
  BY <1>1 DEF KitchenGetsNoMoreThanOrdered, Sent, SentToKitchen
<1>6. TablesAreSound => TablesAreSound'
  BY <1>1 DEF TablesAreSound, OneBillPerTable, OpenSessions, ClosedBillsAreSettled
<1> QED
  BY <1>2, <1>3, <1>4, <1>5, <1>6 DEF PosInv

(***************************************************************************)
(* The rows of the point of sale keep their types, and its orders and its  *)
(* money fit together, whatever the devices do (TypeOK, OrdersInv,         *)
(* MoneyInv).                                                              *)
(***************************************************************************)
THEOREM PosInvariant == Spec => []PosInv
<1>1. Init => PosInv
  BY PosStarts
<1>2. PosInv /\ [Next]_vars => PosInv'
  BY PosKept, PosStutters
<1> QED
  BY <1>1, <1>2, PTL DEF Spec

(***************************************************************************)
(* The kitchen gets no more of a line than the order holds (dispatch,      *)
(* updateItem, deleteItem).                                                *)
(***************************************************************************)
THEOREM KitchenGetsWhatWasOrdered == Spec => []KitchenGetsNoMoreThanOrdered
<1>1. Init => KitchenGetsNoMoreThanOrdered
  BY PosStarts
<1>2. ASSUME PosInv, PosInv', KitchenGetsNoMoreThanOrdered, [Next]_vars
      PROVE  KitchenGetsNoMoreThanOrdered'
  BY <1>2, KitchenStep, PosStutters DEF PosInv
<1> QED
  BY <1>1, <1>2, PosInvariant, PTL DEF Spec

(***************************************************************************)
(* One party sits at a table, and a bill that was closed is settled        *)
(* (openSession, moveSession, attachOrder, finishSession).                 *)
(***************************************************************************)
THEOREM TablesStaySound == Spec => []TablesAreSound
<1>1. Init => TablesAreSound
  BY PosStarts
<1>2. ASSUME PosInv, TablesAreSound, [Next]_vars
      PROVE  TablesAreSound'
  BY <1>2, TablesStep, PosStutters DEF PosInv
<1> QED
  BY <1>1, <1>2, PosInvariant, PTL DEF Spec

LEMMA InvariantCoversCheckouts ==
  ASSUME PosInv
  PROVE  CheckoutsAreSound
<1>0. TypeOK /\ OrdersInv /\ MoneyInv
  BY DEF PosInv
<1>1. OpenCheckoutsAreSound
  <2>1. ASSUME NEW o \in Orders
        PROVE  /\ order[o].status = "AWAITING_PAYMENT" <=> OpenCheckoutsOf(o) # {}
               /\ Cardinality(OpenCheckoutsOf(o)) <= 1
               /\ \A c \in OpenCheckoutsOf(o) :
                    checkout[c].total = Subtotal(o) - DiscountOf(order[o].discounts)
    <3>1. order[o].status = "AWAITING_PAYMENT" <=> OpenCheckoutsOf(o) # {}
      BY <1>0 DEF MoneyInv, OrdersFollowCheckouts, CheckoutsFollowOrders, OpenCheckoutsOf
    <3>2. \A c, d \in OpenCheckoutsOf(o) : c = d
      BY <1>0 DEF MoneyInv, OneChargingCheckout, Charging, OpenCheckoutsOf
    <3>3. Cardinality(OpenCheckoutsOf(o)) <= 1
      <4>1. CASE OpenCheckoutsOf(o) = {}
        BY <4>1, FS_EmptySet
      <4>2. CASE OpenCheckoutsOf(o) # {}
        <5>1. PICK c : OpenCheckoutsOf(o) = {c}
          BY <3>2, <4>2
        <5> QED
          BY <5>1, FS_Singleton
      <4> QED
        BY <4>1, <4>2
    <3>4. \A c \in OpenCheckoutsOf(o) : checkout[c].total = order[o].total
      BY <1>0 DEF MoneyInv, CheckoutsFollowOrders, Charging, OpenCheckoutsOf
    <3>5. order[o].total = Subtotal(o) - DiscountOf(order[o].discounts)
      BY <1>0 DEF OrdersInv, TotalsFollowLines
    <3> QED
      BY <3>1, <3>3, <3>4, <3>5
  <2>2. \A c \in Checkouts : Captured(c) + Pending(c) <= checkout[c].total
    BY <1>0 DEF MoneyInv, CheckoutsFollowOrders
  <2>3. \A p \in Payments : payment[p].refunded <= payment[p].amount
    BY <1>0 DEF MoneyInv, RefundsStayBelow
  <2> QED
    BY <2>1, <2>2, <2>3 DEF OpenCheckoutsAreSound
<1>2. PaidOrdersWereCovered
  <2>1. ASSUME NEW o \in Orders, order[o].status = "PAID"
        PROVE  \E c \in Checkouts :
                 /\ {k \in Checkouts : checkout[k].order = o /\ checkout[k].status = "COMPLETED"}
                      = {c}
                 /\ checkout[c].total = order[o].total
                 /\ Taken(c) >= order[o].total
    <3>1. PICK c \in Checkouts : checkout[c].order = o /\ checkout[c].status = "COMPLETED"
      BY <1>0, <2>1 DEF MoneyInv, OrdersFollowCheckouts
    <3>2. {k \in Checkouts : checkout[k].order = o /\ checkout[k].status = "COMPLETED"} = {c}
      BY <1>0, <3>1 DEF MoneyInv, OneChargingCheckout, Charging
    <3>3. checkout[c].total = order[o].total /\ Taken(c) >= checkout[c].total
      BY <1>0, <3>1 DEF MoneyInv, CheckoutsFollowOrders, Charging
    <3> QED
      BY <3>2, <3>3
  <2> QED
    BY <2>1 DEF PaidOrdersWereCovered, Taken
<1>3. NoPaymentLeftPending
  BY <1>0 DEF MoneyInv
<1> QED
  BY <1>1, <1>2, <1>3 DEF CheckoutsAreSound

(***************************************************************************)
(* An order awaits payment exactly while its one open checkout asks for    *)
(* what its lines come to, takes no more than that, and a paid order was   *)
(* covered by what was captured (open, createPayment, refreshCheckout,     *)
(* cancelCheckout, calculateRefundQuote).                                  *)
(***************************************************************************)
THEOREM CheckoutsStaySound == Spec => []CheckoutsAreSound
<1>1. PosInv => CheckoutsAreSound
  BY InvariantCoversCheckouts
<1> QED
  BY <1>1, PosInvariant, PTL

(***************************************************************************)
(* What a checkout asks for is what the display of the cashier showed      *)
(* (open's expectedOrderVersion).                                          *)
(***************************************************************************)
THEOREM CustomersAreChargedAsShown == Spec => ChargedAsShown
<1> DEFINE Step == \A c \in Checkouts :
             (checkout[c].status = "NONE" /\ checkout'[c].status = "OPEN")
               => checkout'[c].total = shown[checkout'[c].order].total
<1>1. ASSUME PosInv, PosInv', Next PROVE Step
  <2>0. TypeOK /\ TypeOK' /\ MoneyInv /\ OrdersInv
    BY <1>1 DEF PosInv
  <2>1. CASE CheckoutNext
    <3>1. PICK d \in Checkouts : DeskStep(d)
      BY <2>0, <2>1, DeskSteps
    <3>2. ASSUME NEW c \in Checkouts, checkout[c].status = "NONE", checkout'[c].status = "OPEN"
          PROVE  checkout'[c].total = shown[checkout'[c].order].total
      <4>1. Opens(c)
        BY <3>1, <3>2 DEF DeskStep, Books, Completes, Releases, Concludes
      <4> QED
        BY <2>0, <4>1 DEF Opens, OrdersInv, DisplaysFollowOrders
    <3> QED
      BY <3>2
  <2>2. CASE ~ CheckoutNext
    <3>1. UNCHANGED checkout
      BY <1>1, <2>0, <2>2, OrderSteps
         DEF Next, KeepsTheRest, TablesNext, CheckOpen, OpenSession, CheckMove, MoveSession,
             AttachOrder, FinishSession, UpdateSession, CheckDeactivate, DeactivateTable,
             ActivateTable, Refuse, DisplayNext, Show, KitchenNext, UpdateStation, RouteCategory,
             UnrouteCategory, Dispatch, TransitionTicket, moneyVars
    <3> QED
      BY <3>1
  <2> QED
    BY <2>1, <2>2
<1>2. PosInv /\ PosInv' /\ [Next]_vars => [Step]_vars
  BY <1>1
<1> QED
  BY <1>2, PosInvariant, PTL DEF Spec, ChargedAsShown

(***************************************************************************)
(* The cash desk implements its contract: whatever happens to the lines,   *)
(* the tickets and the tables, money is asked for, received, settled,      *)
(* returned and released as OrderContract allows, and no otherwise.        *)
(***************************************************************************)
THEOREM DeskImplementsContract == Spec => KeepsTheContract
<1>1. ASSUME Init PROVE Contract!Init
  <2>1. PosInv
    BY <1>1, PosStarts
  <2>2. ASSUME NEW o \in Orders PROVE PhaseOf(o) = "open" /\ ChargeOf(o) = 0 /\ BalanceOf(o) = 0
    <3>1. \A c \in Checkouts : ~ Charging(c)
      BY <1>1 DEF Init, NoCheckout, Charging
    <3>2. ChargeOf(o) = 0 /\ BalanceOf(o) = 0
      BY <2>1, <3>1, BooksOfOrder DEF PosInv
    <3>3. PhaseOf(o) = "open"
      BY <1>1 DEF Init, NoOrder, PhaseOf
    <3> QED
      BY <3>2, <3>3
  <2>3. /\ [o \in Orders |-> PhaseOf(o)] = [o \in Orders |-> "open"]
        /\ [o \in Orders |-> ChargeOf(o)] = [o \in Orders |-> 0]
        /\ [o \in Orders |-> BalanceOf(o)] = [o \in Orders |-> 0]
    BY <2>2
  <2> QED
    BY <2>3 DEF Contract!Init, PhaseOf, ChargeOf, BalanceOf
<1>2. ASSUME PosInv, PosInv', [Next]_vars PROVE [Contract!Next]_(Contract!vars)
  <2>1. TypeOK /\ TypeOK' /\ MoneyInv /\ MoneyInv'
    BY <1>2 DEF PosInv
  <2> QED
    BY <1>2, <2>1, OrdersKeepContract, OthersKeepContract, DeskKeepsContract DEF Next
<1> QED
  BY <1>1, <1>2, PosInvariant, PTL DEF Spec, KeepsTheContract, Contract!Spec
=============================================================================
