----------------------------- MODULE PosOrders -----------------------------
(***************************************************************************)
(* OrdersService and ManualOrderItemsService: an order is composed while   *)
(* OPEN; every change recalculates it and moves its version.               *)
(***************************************************************************)
EXTENDS PosState

(***************************************************************************)
(* Mistakes this code could contain and does not: each, in the place of    *)
(* the definition it is a variant of, makes a property fail.               *)
(***************************************************************************)
\* The update of a line does not look at what the kitchen was sent.
UpdateItemAnyQuantity(l, n) ==
  LET o == OrderOf[l] IN
  /\ order[o].status = "OPEN" /\ AtVersion(o)
  /\ quantity[l] > 0
  /\ LET q == [quantity EXCEPT ![l] = n]
         subtotal == SubtotalOf(o, q)
     IN /\ subtotal >= DiscountOf(order[o].discounts)
        /\ quantity' = q
        /\ order' = [Bumped(o) EXCEPT ![o].total = subtotal - DiscountOf(order[o].discounts)]
  /\ UNCHANGED <<shown, kitchenVars, active, tableVars, moneyVars>>

\* Whatever is not paid can be cancelled, a checkout under way included.
CancellableUnlessPaid == {"OPEN", "HELD", "AWAITING_PAYMENT"}
-----------------------------------------------------------------------------
\* beginMutation with ['OPEN']: the row lock, the version, the status.
Mutable(o) == order[o].status = "OPEN" /\ AtVersion(o)

\* recalculate: the totals follow the lines and the discounts, which may not
\* exceed the lines; the version moves.
Recalculate(o, q, discounts) ==
  LET subtotal == SubtotalOf(o, q)
      discount == DiscountOf(discounts)
  IN /\ discount <= subtotal
     /\ quantity' = q
     /\ order' = [Bumped(o) EXCEPT ![o].discounts = discounts,
                                   ![o].total = subtotal - discount]

KeepsTheRest == UNCHANGED <<shown, kitchenVars, active, tableVars, moneyVars>>

CreateOrder(o, mode) ==
  /\ order[o].status = "NONE"
  /\ order' = [order EXCEPT ![o] = [NoOrder EXCEPT !.status = "OPEN", !.version = 1,
                                                   !.mode = mode]]
  /\ UNCHANGED quantity
  /\ KeepsTheRest

\* addItem: a row under a new client item id.
AddItem(l, n) ==
  /\ Mutable(OrderOf[l])
  /\ quantity[l] = 0
  /\ Recalculate(OrderOf[l], [quantity EXCEPT ![l] = n], order[OrderOf[l]].discounts)
  /\ KeepsTheRest

\* ManualOrderItemsService.add: one piece of the product for free amounts.
AddManualItem(l) == AddItem(l, 1)

\* updateItem: never below what the kitchen was sent.
UpdateItem(l, n) ==
  /\ Mutable(OrderOf[l])
  /\ quantity[l] > 0
  /\ n >= Sent(l)
  /\ Recalculate(OrderOf[l], [quantity EXCEPT ![l] = n], order[OrderOf[l]].discounts)
  /\ KeepsTheRest

\* A row that a ticket of any status refers to cannot be deleted: the foreign
\* key of kitchen_ticket_items is ON DELETE RESTRICT.
Referenced(l) == \E t \in Tickets : ticket[t].items[l] > 0

\* deleteItem: only a line of which nothing was sent.
DeleteAllowed(l) == Mutable(OrderOf[l]) /\ quantity[l] > 0 /\ Sent(l) = 0

DeleteItem(l) ==
  /\ DeleteAllowed(l)
  /\ ~ Referenced(l)
  /\ Recalculate(OrderOf[l], [quantity EXCEPT ![l] = 0], order[OrderOf[l]].discounts)
  /\ KeepsTheRest

AddAdjustment(o, d) ==
  /\ Mutable(o)
  /\ Subtotal(o) > 0
  /\ d \notin order[o].discounts
  /\ Recalculate(o, quantity, order[o].discounts \cup {d})
  /\ KeepsTheRest

DeleteAdjustment(o, d) ==
  /\ Mutable(o)
  /\ d \in order[o].discounts
  /\ Recalculate(o, quantity, order[o].discounts \ {d})
  /\ KeepsTheRest

\* transition: hold, resume and cancel.
Transition(o, from, to) ==
  /\ order[o].status \in from /\ AtVersion(o)
  /\ order' = [Bumped(o) EXCEPT ![o].status = to]
  /\ UNCHANGED quantity
  /\ KeepsTheRest

Hold(o) ==
  /\ \E l \in LinesOf(o) : quantity[l] > 0
  /\ Transition(o, {"OPEN"}, "HELD")

Resume(o) == Transition(o, {"HELD"}, "OPEN")

\* The tickets of a cancelled order stay where they are.
CancellableStatus == {"OPEN", "HELD"}
Cancel(o) == Transition(o, CancellableStatus, "CANCELLED")

\* get: the cashier's display reads the order.
Show(o) ==
  /\ order[o].status # "NONE"
  /\ shown' = [shown EXCEPT ![o] = [version |-> order[o].version,
                                    total |-> order[o].total]]
  /\ UNCHANGED <<order, quantity, kitchenVars, active, tableVars, moneyVars>>

OrdersNext ==
  \/ \E o \in Orders :
       \/ \E mode \in ServiceModes : CreateOrder(o, mode)
       \/ Hold(o) \/ Resume(o) \/ Cancel(o)
       \/ \E d \in Discounts : AddAdjustment(o, d) \/ DeleteAdjustment(o, d)
  \/ \E l \in Lines :
       \/ \E n \in 1..MaxQuantity : AddItem(l, n) \/ UpdateItem(l, n)
       \/ AddManualItem(l) \/ DeleteItem(l)

DisplayNext == \E o \in Orders : Show(o)
=============================================================================
