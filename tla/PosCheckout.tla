---------------------------- MODULE PosCheckout ----------------------------
(***************************************************************************)
(* PaymentsService and RefundsService: a checkout freezes an order, the    *)
(* payments of a split bill reserve and then cover its total, and captured *)
(* payments can be refunded.  Payments run under the locks of checkout and *)
(* order; a refund takes the lock of its payment only.                     *)
(***************************************************************************)
EXTENDS PosState

(***************************************************************************)
(* Mistakes this code could contain and does not: each, in the place of    *)
(* the definition it is a variant of, makes a property fail.               *)
(***************************************************************************)
\* A new payment is held against what is not yet captured.
AvailableUntilCaptured(c) == checkout[c].total - Captured(c)

\* A checkout is opened from whatever the display showed.
ShownAnyVersion(o) == shown[o].version > 0
-----------------------------------------------------------------------------
\* The display of the cashier shows the current version of the order.
ShownCurrent(o) == shown[o].version = order[o].version

\* open: the order is frozen for its checkout.
OpenCheckout(o, c) ==
  /\ checkout[c].status = "NONE"
  /\ order[o].status = "OPEN" /\ ShownCurrent(o) /\ AtVersion(o)
  /\ order[o].total > 0
  /\ \E l \in LinesOf(o) : quantity[l] > 0
  /\ \A k \in Checkouts : ~ (checkout[k].order = o /\ checkout[k].status = "OPEN")
  /\ checkout' = [checkout EXCEPT ![c] = [status |-> "OPEN", order |-> o,
                                          total |-> order[o].total]]
  /\ order' = [Bumped(o) EXCEPT ![o].status = "AWAITING_PAYMENT"]
  /\ UNCHANGED <<quantity, shown, kitchenVars, active, tableVars, payment>>

\* assertCheckoutOpen
CheckoutOpen(c) ==
  /\ checkout[c].status = "OPEN"
  /\ order[checkout[c].order].status = "AWAITING_PAYMENT"
  /\ order[checkout[c].order].total = checkout[c].total

Available(c) == checkout[c].total - Captured(c) - Pending(c)

\* summarizeCheckout: the captured payments make up the total.
Complete(c, ps) ==
  SumFunction([p \in Payments |->
                 IF ps[p].checkout = c /\ ps[p].status = "CAPTURED" THEN ps[p].amount ELSE 0])
    = checkout[c].total

\* refreshCheckout: once complete, the checkout closes and the order is paid.
RefreshCheckout(c, ps) ==
  LET o == checkout[c].order IN
  /\ payment' = ps
  /\ IF Complete(c, ps)
       THEN /\ checkout' = [checkout EXCEPT ![c].status = "COMPLETED"]
            /\ order' = [Bumped(o) EXCEPT ![o].status = "PAID"]
       ELSE UNCHANGED <<checkout, order>>
  /\ UNCHANGED <<quantity, shown, kitchenVars, active, tableVars>>

\* createPayment: cash is captured at once, the rest is pending.
CreatePayment(c, p, method, amount) ==
  /\ payment[p].status = "NONE"
  /\ CheckoutOpen(c) /\ AtVersion(checkout[c].order)
  /\ amount <= Available(c)
  /\ LET ps == [payment EXCEPT ![p] =
                  [status |-> IF method = "CASH" THEN "CAPTURED" ELSE "PENDING",
                   checkout |-> c, method |-> method, amount |-> amount, refunded |-> 0]]
     IN IF method = "CASH"
          THEN RefreshCheckout(c, ps)
          ELSE /\ payment' = ps
               /\ UNCHANGED <<orderVars, kitchenVars, active, tableVars, checkout>>

\* capturePayment, failPayment and cancelPayment of a pending payment.
ResolvePayment(p, status) ==
  LET c == payment[p].checkout IN
  /\ payment[p].status = "PENDING"
  /\ CheckoutOpen(c) /\ AtVersion(checkout[c].order)
  /\ status = "CAPTURED" => payment[p].amount <= checkout[c].total - Captured(c)
  /\ RefreshCheckout(c, [payment EXCEPT ![p].status = status])

CapturePayment(p) == ResolvePayment(p, "CAPTURED")
FailPayment(p) == ResolvePayment(p, "FAILED")
CancelPayment(p) == ResolvePayment(p, "CANCELLED")

WithoutPending(c) ==
  [p \in Payments |->
    IF payment[p].checkout = c /\ payment[p].status = "PENDING"
      THEN [payment[p] EXCEPT !.status = "CANCELLED"] ELSE payment[p]]

\* cancelCheckout: refused as long as a payment is captured.
CancelCheckout(c) ==
  LET o == checkout[c].order IN
  /\ CheckoutOpen(c) /\ AtVersion(o)
  /\ Captured(c) = 0
  /\ payment' = WithoutPending(c)
  /\ checkout' = [checkout EXCEPT ![c].status = "CANCELLED"]
  /\ order' = [Bumped(o) EXCEPT ![o].status = "OPEN"]
  /\ UNCHANGED <<quantity, shown, kitchenVars, active, tableVars>>

\* calculateRefundQuote
Refundable(p) == payment[p].amount - payment[p].refunded

\* RefundsService.create and refreshPaymentStatus.  The providers of today
\* answer at once and have no effect outside the transaction.
RefundPayment(p, amount) ==
  /\ payment[p].status \in {"CAPTURED", "PARTIALLY_REFUNDED"}
  /\ payment[p].method # "OTHER"
  /\ amount <= Refundable(p)
  /\ LET refunded == payment[p].refunded + amount
     IN payment' = [payment EXCEPT
          ![p].refunded = refunded,
          ![p].status = IF refunded >= payment[p].amount THEN "REFUNDED"
                                                         ELSE "PARTIALLY_REFUNDED"]
  /\ UNCHANGED <<orderVars, kitchenVars, active, tableVars, checkout>>

\* The amounts a cashier may key in: up to the total of the checkout.
Amounts(c) == 1..checkout[c].total

CheckoutNext ==
  \/ \E c \in Checkouts :
       \/ \E o \in Orders : OpenCheckout(o, c)
       \/ \E p \in Payments, method \in {"CASH", "CARD", "OTHER"}, a \in Amounts(c) :
            CreatePayment(c, p, method, a)
       \/ CancelCheckout(c)
  \/ \E p \in Payments :
       \/ CapturePayment(p) \/ FailPayment(p) \/ CancelPayment(p)
       \/ \E a \in 1..payment[p].amount : RefundPayment(p, a)
=============================================================================
