----------------------------- MODULE PosSystem -----------------------------
(***************************************************************************)
(* The point of sale as a whole: orders, kitchen, tables and cash desk act *)
(* on the same rows, each from devices of their own.                       *)
(***************************************************************************)
EXTENDS PosOrders, Kitchen, TableSessions, PosCheckout

Next == OrdersNext \/ DisplayNext \/ KitchenNext \/ TablesNext \/ CheckoutNext

Spec == Init /\ [][Next]_vars

-----------------------------------------------------------------------------
(***************************************************************************)
(* The kitchen never gets more of a line than the order holds, whatever is *)
(* changed, sent, cancelled and sent again (dispatch, updateItem).         *)
(***************************************************************************)
KitchenGetsNoMoreThanOrdered == \A l \in Lines : Sent(l) <= quantity[l]

\* An order awaits payment exactly as long as one of its checkouts is open; that
\* checkout asks for what the lines and discounts still add up to, and its payments,
\* captured and pending, never exceed it; nor do the refunds of a payment exceed it.
OpenCheckoutsOf(o) ==
  {c \in Checkouts : checkout[c].order = o /\ checkout[c].status = "OPEN"}

OpenCheckoutsAreSound ==
  /\ \A o \in Orders :
       LET open == OpenCheckoutsOf(o) IN
       /\ order[o].status = "AWAITING_PAYMENT" <=> open # {}
       /\ Cardinality(open) <= 1
       /\ \A c \in open : checkout[c].total = Subtotal(o) - DiscountOf(order[o].discounts)
  /\ \A c \in Checkouts : Captured(c) + Pending(c) <= checkout[c].total
  /\ \A p \in Payments : payment[p].refunded <= payment[p].amount

\* A paid order has one completed checkout over its total, and payments that were
\* captured for no less.
PaidOrdersWereCovered ==
  \A o \in Orders : order[o].status = "PAID" =>
    \E c \in Checkouts :
      /\ {k \in Checkouts : checkout[k].order = o /\ checkout[k].status = "COMPLETED"} = {c}
      /\ checkout[c].total = order[o].total
      /\ Amount({p \in PaymentsOf(c) :
                   payment[p].status \in {"CAPTURED", "PARTIALLY_REFUNDED", "REFUNDED"}})
           >= order[o].total

\* No payment stays pending once its checkout is over: nobody could resolve it any more.
NoPaymentLeftPending ==
  \A p \in Payments : payment[p].status = "PENDING" => checkout[payment[p].checkout].status = "OPEN"

(***************************************************************************)
(* However many devices split a bill, and whatever is refunded meanwhile:  *)
(* an open checkout asks for what the order comes to and takes no more, a  *)
(* paid order was covered by what was captured, and no payment is left     *)
(* pending (open, createPayment, cancelCheckout, refreshCheckout,          *)
(* assertCheckoutOpen, beginMutation, calculateRefundQuote).               *)
(***************************************************************************)
CheckoutsAreSound == OpenCheckoutsAreSound /\ PaidOrdersWereCovered /\ NoPaymentLeftPending

(***************************************************************************)
(* A checkout asks for the total the cashier was shown and read out,       *)
(* however many devices changed the order since: the version a display     *)
(* shows identifies the contents (open's expectedOrderVersion).            *)
(***************************************************************************)
ChargedAsShown ==
  [][\A c \in Checkouts :
       (checkout[c].status = "NONE" /\ checkout'[c].status = "OPEN")
         => checkout'[c].total = shown[checkout'[c].order].total]_vars

(***************************************************************************)
(* Two parties never sit at one table (openSession, moveSession and the    *)
(* unique active_table_key), and a bill that was closed has no unsettled   *)
(* order, then and ever after (finishSession, attachOrder, and the         *)
(* finality of PAID and CANCELLED).                                        *)
(***************************************************************************)
OneBillPerTable ==
  \A s, z \in OpenSessions : session[s].table = session[z].table => s = z

ClosedBillsAreSettled ==
  \A o \in Orders :
    (attached[o] # Nowhere /\ session[attached[o]].status # "OPEN")
      => order[o].status \in SettledStatus

TablesAreSound == OneBillPerTable /\ ClosedBillsAreSettled

(***************************************************************************)
(* The cash desk keeps the contract about the money of an order: what is   *)
(* asked for and what is in the books are read off its checkouts.          *)
(***************************************************************************)
ChargingCheckouts(o) ==
  {c \in Checkouts : checkout[c].order = o /\ checkout[c].status \in {"OPEN", "COMPLETED"}}

Contract == INSTANCE OrderContract WITH
  phase <- [o \in Orders |->
              CASE order[o].status = "AWAITING_PAYMENT" -> "due"
                [] order[o].status = "PAID" -> "paid"
                [] order[o].status = "CANCELLED" -> "void"
                [] OTHER -> "open"],
  charge <- [o \in Orders |->
              SumFunction([c \in ChargingCheckouts(o) |-> checkout[c].total])],
  balance <- [o \in Orders |-> SumFunction([c \in ChargingCheckouts(o) |-> Captured(c)])]

KeepsTheContract == Contract!Spec

-----------------------------------------------------------------------------
(* What documents and messages of the repository say and the code does not do *)

(***************************************************************************)
(* "Annullamento checkout soltanto senza importi acquisiti": a cancelled   *)
(* checkout keeps none of the customer's money (cancelCheckout).           *)
(***************************************************************************)
CancelledCheckoutsKeepNoMoney ==
  \A c \in Checkouts : checkout[c].status = "CANCELLED" => Kept(c) = 0

=============================================================================
