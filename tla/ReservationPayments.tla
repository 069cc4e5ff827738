------------------------ MODULE ReservationPayments ------------------------
(***************************************************************************)
(* Paying a reservation through Stripe Checkout.  A payment attempt is a   *)
(* reservation and the idempotency key its client uses; a second tab has a *)
(* key of its own.                                                         *)
(*                                                                         *)
(* createCheckout is three steps that other requests, the workers and the  *)
(* webhooks interleave with: the transaction of prepareCheckout, the call  *)
(* to Stripe, and the transaction of attachCheckoutSession.  The API may   *)
(* die in between.  The session is created without an expiry of its own,   *)
(* so it stays payable after the reservation's deadline.                   *)
(***************************************************************************)
EXTENDS BookingState

(***************************************************************************)
(* Mistakes this code could contain and does not: each, in the place of    *)
(* the definition it is a variant of, makes a property fail.               *)
(***************************************************************************)
\* A missing deadline is taken for no deadline, whatever the status.
LateOnlyPastDeadline(h) ==
  /\ reservation[h].paymentExpiresAt # NoDeadline
  /\ reservation[h].paymentExpiresAt <= now

\* A failure event that comes late overwrites a payment that succeeded.
MarkAnyAttemptFailed(p, event, status) ==
  /\ <<p, event>> \in webhooks
  /\ payment[p].lastEvent # event
  /\ payment' = [payment EXCEPT ![p].status = status, ![p].lastEvent = event]
  /\ UNCHANGED <<now, inventoryVars, hold, allocationVars, reservation, checkouts,
                 stripeSession, webhooks, refundRequired, floorVars, operationVars>>

-----------------------------------------------------------------------------
CheckoutStep == {"call", "attach"}

ElsewhereThanPayments ==
  UNCHANGED <<now, inventoryVars, hold, floorVars, operationVars>>

(***************************************************************************)
(* createCheckout.                                                         *)
(***************************************************************************)
CheckoutAllowed(h) ==
  /\ BookingAmount > 0
  /\ reservation[h].status = "PENDING_PAYMENT"
  /\ ~PaymentLapsed(h)

PrepareCheckout(h, k) ==
  LET p == <<h, k>> IN
  /\ CheckoutAllowed(h)
  /\ payment[p].status # "PAID"
  /\ payment' = IF payment[p].status = "NONE"
                  THEN [payment EXCEPT ![p].status = "CREATED"] ELSE payment
  /\ checkouts' = IF payment[p].attached
                    THEN checkouts              \* the session is just retrieved
                    ELSE checkouts \cup {<<p, "call">>}
  /\ UNCHANGED <<allocationVars, reservation, stripeSession, webhooks, refundRequired>>
  /\ ElsewhereThanPayments

\* The idempotency key is the payment's id: a repeated call finds the session.
CreateStripeSession(p) ==
  /\ <<p, "call">> \in checkouts
  /\ stripeSession' = [stripeSession EXCEPT ![p] = IF @ = "NONE" THEN "OPEN" ELSE @]
  /\ checkouts' = (checkouts \ {<<p, "call">>}) \cup {<<p, "attach">>}
  /\ UNCHANGED <<allocationVars, reservation, payment, webhooks, refundRequired>>
  /\ ElsewhereThanPayments

AttachCheckoutSession(p) ==
  /\ <<p, "attach">> \in checkouts
  /\ payment' = IF payment[p].status \in {"CREATED", "REQUIRES_ACTION"}
                  THEN [payment EXCEPT ![p].status = "REQUIRES_ACTION",
                                       ![p].attached = TRUE]
                  ELSE payment
  /\ checkouts' = checkouts \ {<<p, "attach">>}
  /\ UNCHANGED <<allocationVars, reservation, stripeSession, webhooks, refundRequired>>
  /\ ElsewhereThanPayments

\* The API process dies, or Stripe cannot be reached.
LoseCheckout(p) ==
  /\ \E step \in CheckoutStep :
       /\ <<p, step>> \in checkouts
       /\ checkouts' = checkouts \ {<<p, step>>}
  /\ UNCHANGED <<allocationVars, reservation, payment, stripeSession, webhooks,
                 refundRequired>>
  /\ ElsewhereThanPayments

(***************************************************************************)
(* Stripe and the customer (external).  The customer reaches the session   *)
(* through the URL that is returned once the session is attached.          *)
(***************************************************************************)
StripeMoves(p, session, event) ==
  /\ stripeSession[p] = "OPEN"
  /\ stripeSession' = [stripeSession EXCEPT ![p] = session]
  /\ webhooks' = webhooks \cup {<<p, event>>}
  /\ UNCHANGED <<allocationVars, reservation, payment, checkouts, refundRequired>>
  /\ ElsewhereThanPayments

CustomerPays(p) == payment[p].attached /\ StripeMoves(p, "PAID", "completed")
CardDeclined(p) == payment[p].attached /\ StripeMoves(p, "OPEN", "declined")
StripeSessionExpires(p) == StripeMoves(p, "EXPIRED", "expired")

(***************************************************************************)
(* Webhooks: the delivery of an event that exists.                         *)
(***************************************************************************)
LatePayment(h) == reservation[h].status # "PENDING_PAYMENT" \/ PaymentLapsed(h)

\* The booking, or the refund owed for a payment that came too late.
BookedOrOwed(h, p) ==
  /\ reservation' = [reservation EXCEPT ![h] =
       [status |-> IF LatePayment(h) THEN "REFUND_PENDING" ELSE "CONFIRMED",
        paymentExpiresAt |-> NoDeadline,
        version |-> @.version + 1]]
  /\ IF LatePayment(h)
       THEN Release({h}, "RESERVATION") /\ refundRequired' = refundRequired \cup {p}
       ELSE UNCHANGED <<allocationVars, refundRequired>>

HandleCheckoutPaid(h, k) ==
  LET p == <<h, k>> IN
  /\ <<p, "completed">> \in webhooks
  /\ payment[p].status # "PAID"
  /\ payment' = [payment EXCEPT ![p] = [status |-> "PAID", attached |-> TRUE,
                                        lastEvent |-> "completed"]]
  /\ BookedOrOwed(h, p)
  /\ UNCHANGED <<checkouts, stripeSession, webhooks>>
  /\ ElsewhereThanPayments

\* Only the last event that was applied is remembered.
MarkPaymentAttemptFailed(p, event, status) ==
  /\ <<p, event>> \in webhooks
  /\ payment[p].status # "PAID"
  /\ payment[p].lastEvent # event
  /\ payment' = [payment EXCEPT ![p].status = status, ![p].lastEvent = event]
  /\ UNCHANGED <<allocationVars, reservation, checkouts, stripeSession, webhooks,
                 refundRequired>>
  /\ ElsewhereThanPayments

HandleCheckoutExpired(p) == MarkPaymentAttemptFailed(p, "expired", "CANCELLED")
HandlePaymentIntentFailed(p) == MarkPaymentAttemptFailed(p, "declined", "FAILED")
=============================================================================
