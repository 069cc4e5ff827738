------------------------- MODULE ReservationProofs --------------------------
(***************************************************************************)
(* Theorems about ReservationSystem, for any tables, holds, attempts,      *)
(* mutations and deadlines that satisfy BookingAssumption.                 *)
(***************************************************************************)
EXTENDS ReservationSystem, TLAPS

-----------------------------------------------------------------------------
(***************************************************************************)
(* Type correctness.                                                       *)
(***************************************************************************)

(***************************************************************************)
(* The migrations leave rows of the right types.                           *)
(***************************************************************************)
LEMMA InitTypeOK == Init => TypeOK
<1> SUFFICES ASSUME Init PROVE TypeOK
  OBVIOUS
<1>1. /\ now \in 0 .. MaxTime /\ eventStatus \in EventStatus
      /\ inventory \in SUBSET SUBSET Tables /\ groups \in SUBSET SUBSET Tables
      /\ tableKeys \in [Holds -> SUBSET Tables]
      /\ checkouts \subseteq Payments \X CheckoutStep
      /\ webhooks \subseteq Payments \X StripeEvent /\ refundRequired \subseteq Payments
      /\ walkIns \subseteq Tables /\ applied \subseteq Mutations
  BY BookingAssumption DEF Init, EventStatus
<1>2. hold \in [Holds -> HoldRow]
  BY DEF Init, HoldRow, HoldStatus
<1>3. assignment \in [Holds -> AssignmentRow]
  BY DEF Init, AssignmentRow, AssignmentStatus
<1>4. reservation \in [Holds -> ReservationRow]
  BY DEF Init, ReservationRow, ReservationStatus, NoDeadline
<1>5. payment \in [Payments -> PaymentRow]
  BY DEF Init, PaymentRow, PaymentStatus
<1>6. stripeSession \in [Payments -> {"NONE", "OPEN", "PAID", "EXPIRED"}]
  BY DEF Init
<1>7. tableSession \in [Holds -> TableSessionRow]
  BY DEF Init, TableSessionRow
<1>8. operation \in [Mutations -> SUBSET OperationRequest]
  BY DEF Init
<1> QED
  BY <1>1, <1>2, <1>3, <1>4, <1>5, <1>6, <1>7, <1>8 DEF TypeOK

(***************************************************************************)
(* Releasing assignments and expiring holds keeps the rows well formed.    *)
(***************************************************************************)
LEMMA ReleasedType ==
  ASSUME TypeOK, NEW S, NEW owner
  PROVE  /\ Released(S, owner) \in [Holds -> AssignmentRow]
         /\ KeysCleared(S, owner) \in [Holds -> SUBSET Tables]
<1>1. ASSUME NEW h \in Holds
      PROVE  [assignment[h] EXCEPT !.status = "RELEASED"] \in AssignmentRow
  <2>1. assignment[h] \in AssignmentRow
    BY DEF TypeOK
  <2> QED
    BY <2>1 DEF AssignmentRow, AssignmentStatus
<1>2. Released(S, owner) \in [Holds -> AssignmentRow]
  BY <1>1 DEF TypeOK, Released
<1> QED
  BY <1>2 DEF TypeOK, KeysCleared

\* Expired holds are well formed.
LEMMA ExpiredType ==
  ASSUME TypeOK, NEW S
  PROVE  Expired(S) \in [Holds -> HoldRow]
<1>1. ASSUME NEW h \in Holds
      PROVE  [hold[h] EXCEPT !.status = "EXPIRED"] \in HoldRow
  <2>1. hold[h] \in HoldRow
    BY DEF TypeOK
  <2> QED
    BY <2>1 DEF HoldRow, HoldStatus
<1> QED
  BY <1>1 DEF TypeOK, Expired

(***************************************************************************)
(* Each component keeps TypeOK; first the organiser.                       *)
(***************************************************************************)
LEMMA InventoryType ==
  ASSUME TypeOK, Organiser
  PROVE  TypeOK'
<1> USE DEF Untouched, allocationVars, paymentVars, floorVars, operationVars
<1>1. ASSUME NEW S \in SUBSET Tables, ReplaceTables(S) PROVE TypeOK'
  BY <1>1 DEF ReplaceTables, TypeOK
<1>2. ASSUME NEW S \in SUBSET Tables, MergeTables(S) PROVE TypeOK'
  BY <1>2 DEF MergeTables, TypeOK
<1>3. ASSUME NEW g \in groups, SplitGroup(g) PROVE TypeOK'
  BY <1>3 DEF SplitGroup, TypeOK
<1>4. CASE PublishEvent \/ CancelEvent \/ ArchiveEvent
  BY <1>4 DEF PublishEvent, CancelEvent, ArchiveEvent, TypeOK, EventStatus
<1> QED
  BY <1>1, <1>2, <1>3, <1>4 DEF Organiser

(***************************************************************************)
(* The booking engine, for one hold, and the expiry of any holds.          *)
(***************************************************************************)
LEMMA ExpireHoldsType ==
  ASSUME TypeOK, NEW S, ExpireHolds(S), Elsewhere, UNCHANGED reservation
  PROVE  TypeOK'
<1>1. /\ hold' \in [Holds -> HoldRow]
      /\ assignment' \in [Holds -> AssignmentRow]
      /\ tableKeys' \in [Holds -> SUBSET Tables]
  BY ExpiredType, ReleasedType DEF ExpireHolds, Release
<1> QED
  BY <1>1 DEF TypeOK, Elsewhere, inventoryVars, paymentVars, floorVars, operationVars

\* The operations on one hold.
LEMMA HoldEngineType ==
  ASSUME TypeOK, NEW h \in Holds
  PROVE  /\ \A n \in MinPartySize .. MaxPartySize : CreateHold(h, n) => TypeOK'
         /\ RepeatCreateHold(h) \/ GetHold(h) \/ CancelHold(h) \/ Convert(h) => TypeOK'
<1> USE DEF Elsewhere, inventoryVars, paymentVars, floorVars, operationVars
<1>0. /\ hold[h] \in HoldRow /\ assignment[h] \in AssignmentRow
      /\ reservation[h] \in ReservationRow
  BY DEF TypeOK
<1>1. ASSUME NEW n \in MinPartySize .. MaxPartySize, CreateHold(h, n) PROVE TypeOK'
  <2>1. n \in Nat /\ now + HoldTicks \in Nat
    BY BookingAssumption DEF TypeOK
  <2>2. [status |-> "ACTIVE", party |-> n, expiresAt |-> now + HoldTicks] \in HoldRow
    BY <2>1 DEF HoldRow, HoldStatus
  <2>3. PICK unit \in SmallestCandidates(n, LapsedHolds) :
          /\ hold' = [Expired(LapsedHolds) EXCEPT ![h] =
                        [status |-> "ACTIVE", party |-> n, expiresAt |-> now + HoldTicks]]
          /\ assignment' = [Released(LapsedHolds, "HOLD") EXCEPT ![h] =
                              [status |-> "ACTIVE", owner |-> "HOLD", unit |-> unit]]
          /\ tableKeys' = [KeysCleared(LapsedHolds, "HOLD") EXCEPT ![h] = unit]
    BY <1>1 DEF CreateHold, TakeUnit
  <2>4. unit \in SUBSET Tables
    BY DEF TypeOK, SmallestCandidates, Candidates
  <2>5. [status |-> "ACTIVE", owner |-> "HOLD", unit |-> unit] \in AssignmentRow
    BY <2>4 DEF AssignmentRow, AssignmentStatus
  <2>6. hold' \in [Holds -> HoldRow]
    BY <2>2, <2>3, ExpiredType
  <2>7. /\ assignment' \in [Holds -> AssignmentRow]
        /\ tableKeys' \in [Holds -> SUBSET Tables]
    BY <2>3, <2>4, <2>5, ReleasedType
  <2> QED
    BY <1>1, <2>6, <2>7 DEF CreateHold, TakeUnit, TypeOK
<1>2. CASE RepeatCreateHold(h) \/ GetHold(h)
  BY <1>2, ExpireHoldsType DEF RepeatCreateHold, GetHold
<1>3. CASE CancelHold(h)
  <2>1. CASE HoldLapsed(h)
    BY <1>3, <2>1, ExpireHoldsType DEF CancelHold
  <2>2. CASE ~HoldLapsed(h)
    <3>1. [hold[h] EXCEPT !.status = "CANCELLED"] \in HoldRow
      BY <1>0 DEF HoldRow, HoldStatus
    <3>2. hold' = [hold EXCEPT ![h] = [hold[h] EXCEPT !.status = "CANCELLED"]]
      BY <1>3, <2>2 DEF CancelHold
    <3>3. hold' \in [Holds -> HoldRow]
      BY <3>1, <3>2 DEF TypeOK
    <3>4. /\ assignment' \in [Holds -> AssignmentRow]
          /\ tableKeys' \in [Holds -> SUBSET Tables]
      BY <1>3, <2>2, ReleasedType DEF CancelHold, Release
    <3> QED
      BY <1>3, <3>3, <3>4 DEF CancelHold, TypeOK
  <2> QED
    BY <2>1, <2>2
<1>4. CASE Convert(h)
  <2>1. /\ [hold[h] EXCEPT !.status = "CONVERTED"] \in HoldRow
        /\ hold[h].expiresAt \in Nat
    BY <1>0 DEF HoldRow, HoldStatus
  <2>2. [assignment[h] EXCEPT !.owner = "RESERVATION"] \in AssignmentRow
    BY <1>0 DEF AssignmentRow
  <2>3. reservation' \in [Holds -> ReservationRow]
    BY <1>4, <2>1 DEF Convert, NewReservation, PassOn, TypeOK, ReservationRow, ReservationStatus, NoDeadline
  <2>4. /\ hold' = [hold EXCEPT ![h] = [hold[h] EXCEPT !.status = "CONVERTED"]]
        /\ assignment' =
             [assignment EXCEPT ![h] = [assignment[h] EXCEPT !.owner = "RESERVATION"]]
    BY <1>4 DEF Convert, NewReservation, PassOn
  <2>5. hold' \in [Holds -> HoldRow] /\ assignment' \in [Holds -> AssignmentRow]
    BY <2>1, <2>2, <2>4 DEF TypeOK
  <2> QED
    BY <1>4, <2>3, <2>5 DEF Convert, NewReservation, PassOn, TypeOK
<1> QED
  BY <1>1, <1>2, <1>3, <1>4

(***************************************************************************)
(* The expiry jobs.                                                        *)
(***************************************************************************)
LEMMA WorkerType ==
  ASSUME TypeOK, Worker
  PROVE  TypeOK'
<1>1. CASE ExpireHoldsJob
  BY <1>1, ExpireHoldsType DEF ExpireHoldsJob
<1>2. CASE ExpirePaymentsJob
  <2>1. PICK S \in SUBSET UnpaidReservations :
          /\ reservation' =
               [h \in Holds |-> IF h \in S THEN TimedOut(h) ELSE reservation[h]]
          /\ Release(S, "RESERVATION")
    BY <1>2 DEF ExpirePaymentsJob
  <2>2. ASSUME NEW h \in Holds PROVE TimedOut(h) \in ReservationRow
    BY DEF TypeOK, TimedOut, ReservationRow, ReservationStatus, NoDeadline
  <2>3. reservation' \in [Holds -> ReservationRow]
    BY <2>1, <2>2 DEF TypeOK
  <2>4. /\ assignment' \in [Holds -> AssignmentRow]
        /\ tableKeys' \in [Holds -> SUBSET Tables]
    BY <2>1, ReleasedType DEF Release
  <2> QED
    BY <1>2, <2>3, <2>4
    DEF ExpirePaymentsJob, TypeOK, Elsewhere, inventoryVars, paymentVars, floorVars,
        operationVars
<1> QED
  BY <1>1, <1>2 DEF Worker

(***************************************************************************)
(* Checkouts, Stripe and webhooks, for one payment attempt.                *)
(***************************************************************************)
LEMMA CheckoutType ==
  ASSUME TypeOK, NEW p \in Payments
  PROVE  /\ \A h \in Holds, k \in PayKeys :
              p = <<h, k>> /\ PrepareCheckout(h, k) => TypeOK'
         /\ CreateStripeSession(p) \/ AttachCheckoutSession(p) \/ LoseCheckout(p) => TypeOK'
<1> USE DEF ElsewhereThanPayments, inventoryVars, allocationVars, floorVars, operationVars
<1>0. /\ payment[p] \in PaymentRow
      /\ payment[p].attached \in BOOLEAN
      /\ payment[p].lastEvent \in StripeEvent \cup {"none"}
  BY DEF TypeOK, PaymentRow
<1>1. ASSUME NEW h \in Holds, NEW k \in PayKeys, p = <<h, k>>, PrepareCheckout(h, k)
      PROVE  TypeOK'
  <2>1. payment' \in [Payments -> PaymentRow]
    <3>1. [payment[p] EXCEPT !.status = "CREATED"] \in PaymentRow
      BY <1>0 DEF PaymentRow, PaymentStatus
    <3>2. \/ payment' = payment
          \/ payment' = [payment EXCEPT ![p] = [payment[p] EXCEPT !.status = "CREATED"]]
      BY <1>1 DEF PrepareCheckout
    <3> QED
      BY <3>1, <3>2 DEF TypeOK
  <2>2. checkouts' \subseteq Payments \X CheckoutStep
    BY <1>1 DEF PrepareCheckout, TypeOK, CheckoutStep
  <2> QED
    BY <1>1, <2>1, <2>2 DEF PrepareCheckout, TypeOK
<1>2. CASE CreateStripeSession(p)
  <2>1. checkouts' \subseteq Payments \X CheckoutStep
    BY <1>2 DEF CreateStripeSession, TypeOK, CheckoutStep
  <2>2. stripeSession' \in [Payments -> {"NONE", "OPEN", "PAID", "EXPIRED"}]
    BY <1>2 DEF CreateStripeSession, TypeOK
  <2> QED
    BY <1>2, <2>1, <2>2 DEF CreateStripeSession, TypeOK
<1>3. CASE AttachCheckoutSession(p)
  <2>1. [payment[p] EXCEPT !.status = "REQUIRES_ACTION", !.attached = TRUE] \in PaymentRow
    BY <1>0 DEF PaymentRow, PaymentStatus
  <2>2. \/ payment' = payment
        \/ payment' = [payment EXCEPT ![p] =
             [payment[p] EXCEPT !.status = "REQUIRES_ACTION", !.attached = TRUE]]
    BY <1>3 DEF AttachCheckoutSession
  <2>3. payment' \in [Payments -> PaymentRow]
    BY <2>1, <2>2 DEF TypeOK
  <2> QED
    BY <1>3, <2>3 DEF AttachCheckoutSession, TypeOK
<1>4. CASE LoseCheckout(p)
  BY <1>4 DEF LoseCheckout, TypeOK
<1> QED
  BY <1>1, <1>2, <1>3, <1>4

\* Stripe's side of a payment.
LEMMA StripeType ==
  ASSUME TypeOK, StripeSide
  PROVE  TypeOK'
<1>1. PICK p \in Payments, session \in {"OPEN", "PAID", "EXPIRED"}, event \in StripeEvent :
        StripeMoves(p, session, event)
  BY DEF StripeSide, CustomerPays, CardDeclined, StripeSessionExpires, StripeEvent
<1>2. stripeSession' \in [Payments -> {"NONE", "OPEN", "PAID", "EXPIRED"}]
  BY <1>1 DEF StripeMoves, TypeOK
<1>3. webhooks' \subseteq Payments \X StripeEvent
  BY <1>1 DEF StripeMoves, TypeOK
<1> QED
  BY <1>1, <1>2, <1>3
  DEF StripeMoves, TypeOK, ElsewhereThanPayments, inventoryVars, allocationVars,
      floorVars, operationVars

\* The webhooks of a payment.
LEMMA WebhookType ==
  ASSUME TypeOK, Webhook
  PROVE  TypeOK'
<1> USE DEF ElsewhereThanPayments, inventoryVars, allocationVars, floorVars, operationVars
<1>1. ASSUME NEW h \in Holds, NEW k \in PayKeys, HandleCheckoutPaid(h, k)
      PROVE  TypeOK'
  <2> DEFINE p == <<h, k>>
             status == IF LatePayment(h) THEN "REFUND_PENDING" ELSE "CONFIRMED"
             row == [status |-> status, paymentExpiresAt |-> NoDeadline,
                     version |-> reservation[h].version + 1]
  <2>1. p \in Payments
    BY DEF Payments
  <2>2. row \in ReservationRow
    BY DEF TypeOK, ReservationRow, ReservationStatus, NoDeadline
  <2>3. reservation' = [reservation EXCEPT ![h] = row]
    BY <1>1 DEF HandleCheckoutPaid, BookedOrOwed
  <2>4. reservation' \in [Holds -> ReservationRow]
    BY <2>2, <2>3 DEF TypeOK
  <2>5. [status |-> "PAID", attached |-> TRUE, lastEvent |-> "completed"] \in PaymentRow
    BY DEF PaymentRow, PaymentStatus, StripeEvent
  <2>6. payment' \in [Payments -> PaymentRow]
    BY <1>1, <2>5 DEF HandleCheckoutPaid, BookedOrOwed, TypeOK
  <2>7. /\ assignment' \in [Holds -> AssignmentRow]
        /\ tableKeys' \in [Holds -> SUBSET Tables]
        /\ refundRequired' \subseteq Payments
    <3>1. CASE LatePayment(h)
      BY <1>1, <2>1, <3>1, ReleasedType DEF HandleCheckoutPaid, BookedOrOwed, Release, TypeOK
    <3>2. CASE ~LatePayment(h)
      BY <1>1, <3>2 DEF HandleCheckoutPaid, BookedOrOwed, TypeOK
    <3> QED
      BY <3>1, <3>2
  <2> QED
    BY <1>1, <2>4, <2>6, <2>7 DEF HandleCheckoutPaid, BookedOrOwed, TypeOK
<1>2. ASSUME NEW p \in Payments, NEW event \in StripeEvent, NEW status \in PaymentStatus,
             MarkPaymentAttemptFailed(p, event, status)
      PROVE  TypeOK'
  <2>1. [payment[p] EXCEPT !.status = status, !.lastEvent = event] \in PaymentRow
    BY DEF TypeOK, PaymentRow
  <2>2. payment' = [payment EXCEPT ![p] =
                      [payment[p] EXCEPT !.status = status, !.lastEvent = event]]
    BY <1>2 DEF MarkPaymentAttemptFailed
  <2>3. payment' \in [Payments -> PaymentRow]
    BY <2>1, <2>2 DEF TypeOK
  <2> QED
    BY <1>2, <2>3 DEF MarkPaymentAttemptFailed, TypeOK
<1>3. ASSUME NEW p \in Payments, HandleCheckoutExpired(p) \/ HandlePaymentIntentFailed(p)
      PROVE  TypeOK'
  BY <1>2, <1>3
  DEF HandleCheckoutExpired, HandlePaymentIntentFailed, StripeEvent, PaymentStatus
<1> QED
  BY <1>1, <1>3 DEF Webhook

(***************************************************************************)
(* Operators and the POS.                                                  *)
(***************************************************************************)
LEMMA OperatorType ==
  ASSUME TypeOK, Operator
  PROVE  TypeOK'
<1> USE DEF inventoryVars, allocationVars, paymentVars, floorVars
<1>1. ASSUME NEW m \in Mutations, NEW h \in Holds, NEW a \in OperationAction,
             SubmitOperation(m, h, a)
      PROVE  TypeOK'
  <2>1. [target |-> h, action |-> a, version |-> reservation[h].version] \in OperationRequest
    BY DEF TypeOK, ReservationRow, OperationRequest
  <2>2. operation' \in [Mutations -> SUBSET OperationRequest]
    BY <1>1, <2>1 DEF SubmitOperation, TypeOK
  <2> QED
    BY <1>1, <2>2 DEF SubmitOperation, TypeOK
<1>2. ASSUME NEW m \in Mutations, ApplyOperation(m)
      PROVE  TypeOK'
  <2>1. PICK r \in operation[m] :
          /\ IF r.action = "check-in" THEN OpenReservationTableSession(r.target)
                                      ELSE UNCHANGED tableSession
          /\ reservation' = [reservation EXCEPT ![r.target].status = TargetStatus[r.action],
                                                ![r.target].version = @ + 1]
          /\ IF r.action \in {"complete", "no-show"}
               THEN Release({r.target}, "RESERVATION") ELSE UNCHANGED allocationVars
    BY <1>2 DEF ApplyOperation
  <2>2. r \in OperationRequest
    BY <2>1 DEF TypeOK
  <2>3. r.target \in Holds /\ TargetStatus[r.action] \in ReservationStatus
    BY <2>2 DEF OperationRequest, OperationAction, TargetStatus, ReservationStatus
  <2> DEFINE h == r.target
             row == [reservation[h] EXCEPT !.status = TargetStatus[r.action],
                                           !.version = @ + 1]
  <2>4. row \in ReservationRow
    <3>1. ASSUME NEW old \in ReservationRow, NEW s \in ReservationStatus
          PROVE  [old EXCEPT !.status = s, !.version = @ + 1] \in ReservationRow
      <4>1. old.version + 1 \in Nat
        BY DEF ReservationRow
      <4> QED
        BY <4>1 DEF ReservationRow
    <3> QED
      BY <2>3, <3>1 DEF TypeOK
  <2>5. reservation' = [reservation EXCEPT ![h] = row]
    BY <2>1, <2>3 DEF TypeOK
  <2>6. reservation' \in [Holds -> ReservationRow]
    BY <2>3, <2>4, <2>5 DEF TypeOK
  <2>7. tableSession' \in [Holds -> TableSessionRow]
    <3>1. ASSUME NEW t \in Tables PROVE [status |-> "OPEN", at |-> {t}] \in TableSessionRow
      BY DEF TableSessionRow
    <3>2. CASE r.action = "check-in"
      <4>1. PICK t \in Tables :
              tableSession' = [tableSession EXCEPT ![h] = [status |-> "OPEN", at |-> {t}]]
        BY <2>1, <3>2 DEF OpenReservationTableSession
      <4> QED
        BY <2>3, <3>1, <4>1 DEF TypeOK
    <3>3. CASE r.action # "check-in"
      BY <2>1, <3>3 DEF TypeOK
    <3> QED
      BY <3>2, <3>3
  <2>8. /\ assignment' \in [Holds -> AssignmentRow]
        /\ tableKeys' \in [Holds -> SUBSET Tables]
    <3>1. CASE r.action \in {"complete", "no-show"}
      BY <2>1, <3>1, ReleasedType DEF Release
    <3>2. CASE r.action \notin {"complete", "no-show"}
      BY <2>1, <3>2 DEF TypeOK
    <3> QED
      BY <3>1, <3>2
  <2> QED
    BY <1>2, <2>6, <2>7, <2>8 DEF ApplyOperation, TypeOK
<1> QED
  BY <1>1, <1>2 DEF Operator

\* Table sessions.
LEMMA PosType ==
  ASSUME TypeOK, Pos
  PROVE  TypeOK'
<1> USE DEF ElsewhereThanFloor, inventoryVars, allocationVars, paymentVars, operationVars
<1>1. ASSUME NEW t \in WalkInTables, OpenTableSession(t) \/ FinishWalkIn(t) PROVE TypeOK'
  BY <1>1, BookingAssumption DEF OpenTableSession, FinishWalkIn, TypeOK
<1>2. ASSUME NEW h \in Holds, NEW next \in {"CLOSED", "CANCELLED"},
             FinishReservationSession(h, next)
      PROVE  TypeOK'
  <2>1. [tableSession[h] EXCEPT !.status = next] \in TableSessionRow
    BY DEF TypeOK, TableSessionRow
  <2>2. tableSession' = [tableSession EXCEPT ![h] = [tableSession[h] EXCEPT !.status = next]]
    BY <1>2 DEF FinishReservationSession
  <2>3. tableSession' \in [Holds -> TableSessionRow]
    BY <2>1, <2>2 DEF TypeOK
  <2> QED
    BY <1>2, <2>3 DEF FinishReservationSession, TypeOK
<1>3. ASSUME NEW h \in Holds, NEW t \in Tables, MoveReservationSession(h, t)
      PROVE  TypeOK'
  <2>1. [tableSession[h] EXCEPT !.at = {t}] \in TableSessionRow
    BY DEF TypeOK, TableSessionRow
  <2>2. tableSession' = [tableSession EXCEPT ![h] = [tableSession[h] EXCEPT !.at = {t}]]
    BY <1>3 DEF MoveReservationSession
  <2>3. tableSession' \in [Holds -> TableSessionRow]
    BY <2>1, <2>2 DEF TypeOK
  <2> QED
    BY <1>3, <2>3 DEF MoveReservationSession, TypeOK
<1> QED
  BY <1>1, <1>2, <1>3 DEF Pos

\* The clock stays within its bound.
LEMMA TickType ==
  ASSUME TypeOK, Tick
  PROVE  TypeOK'
BY BookingAssumption
DEF Tick, TypeOK, inventoryVars, allocationVars, paymentVars, floorVars, operationVars

(***************************************************************************)
(* The state of the booking system is well typed in every execution.       *)
(***************************************************************************)
THEOREM TypeCorrect == Spec => []TypeOK
<1>1. Init => TypeOK
  BY InitTypeOK
<1>2. TypeOK /\ [Next]_vars => TypeOK'
  <2> SUFFICES ASSUME TypeOK, [Next]_vars PROVE TypeOK'
    OBVIOUS
  <2>1. CASE Tick \/ Organiser \/ StripeSide \/ Webhook \/ Operator \/ Pos \/ Worker
    BY <2>1, TickType, InventoryType, StripeType, WebhookType, OperatorType, PosType,
       WorkerType
  <2>2. CASE Customer
    <3>1. ASSUME NEW h \in Holds, NEW k \in PayKeys, PrepareCheckout(h, k) PROVE TypeOK'
      <4>1. <<h, k>> \in Payments
        BY DEF Payments
      <4> QED
        BY <3>1, <4>1, CheckoutType
    <3> QED
      BY <2>2, <3>1, HoldEngineType DEF Customer
  <2>3. CASE Checkout
    BY <2>3, CheckoutType DEF Checkout
  <2>4. CASE UNCHANGED vars
    BY <2>4
    DEF TypeOK, vars, inventoryVars, allocationVars, paymentVars, floorVars, operationVars
  <2> QED
    BY <2>1, <2>2, <2>3, <2>4 DEF Next
<1> QED
  BY <1>1, <1>2, PTL DEF Spec

-----------------------------------------------------------------------------
(***************************************************************************)
(* Tables are never promised twice, and the booking system implements      *)
(* TableAllocation, for any number of tables, holds and payments.          *)
(*                                                                         *)
(* NoSharedTable is not inductive by itself: that a new hold takes none of *)
(* the tables in use follows from the keys (KeysFollowAssignments), that   *)
(* an expiry releases what it expires from LiveBookingsHoldTables, and     *)
(* that a webhook only ever meets a reservation from what exists of its    *)
(* payment (PaymentsHaveReservations).                                     *)
(***************************************************************************)

(***************************************************************************)
(* What a release does to the row of one assignment.                       *)
(***************************************************************************)
LEMMA ReleaseFacts ==
  ASSUME TypeOK, NEW S, NEW owner, NEW h \in Holds
  PROVE  /\ Released(S, owner)[h].status =
              IF h \in S /\ Releasable(h, owner) THEN "RELEASED" ELSE assignment[h].status
         /\ Released(S, owner)[h].owner = assignment[h].owner
         /\ Released(S, owner)[h].unit = assignment[h].unit
         /\ KeysCleared(S, owner)[h] =
              IF h \in S /\ Releasable(h, owner) THEN {} ELSE tableKeys[h]
<1>1. assignment[h] \in AssignmentRow
  BY DEF TypeOK
<1> QED
  BY <1>1 DEF Released, KeysCleared, AssignmentRow

(***************************************************************************)
(* A release keeps the keys in step with the assignments, and no table     *)
(* becomes shared by it.                                                   *)
(***************************************************************************)
LEMMA ReleaseKeepsKeys ==
  ASSUME TypeOK, KeysFollowAssignments, NoSharedTable, NEW S, NEW owner, Release(S, owner)
  PROVE  KeysFollowAssignments' /\ NoSharedTable'
<1>1. ASSUME NEW h \in Holds
      PROVE  /\ Allocated(h)' => Allocated(h)
             /\ assignment'[h].unit = assignment[h].unit
             /\ tableKeys'[h] = IF Allocated(h)' THEN assignment'[h].unit ELSE {}
  BY ReleaseFacts DEF Release, Allocated, Releasable, KeysFollowAssignments
<1>2. KeysFollowAssignments'
  BY <1>1 DEF KeysFollowAssignments
<1>3. NoSharedTable'
  BY <1>1 DEF NoSharedTable
<1> QED
  BY <1>2, <1>3

(***************************************************************************)
(* Ending any number of ACTIVE holds: expiry, and cancellation.            *)
(***************************************************************************)
LEMMA EndHolds ==
  ASSUME TypeOK, TableInv, NEW S \in SUBSET Holds,
         Release(S, "HOLD"), UNCHANGED reservation,
         \A h \in S : hold[h].status = "ACTIVE" /\ hold'[h].status \in {"EXPIRED", "CANCELLED"},
         \A h \in Holds \ S : hold'[h].status = hold[h].status
  PROVE  TableInv'
<1>1. KeysFollowAssignments' /\ NoSharedTable'
  BY ReleaseKeepsKeys DEF TableInv
<1>2. ASSUME NEW h \in Holds
      PROVE  /\ assignment'[h].status = IF h \in S THEN "RELEASED" ELSE assignment[h].status
             /\ assignment'[h].owner = assignment[h].owner
             /\ assignment'[h].unit = assignment[h].unit
             /\ h \in S => /\ assignment[h].status = "ACTIVE" /\ assignment[h].owner = "HOLD"
                           /\ reservation[h].status = "NONE"
  BY ReleaseFacts
  DEF Release, Releasable, TableInv, LiveBookingsHoldTables, BookingsBeginWithHolds, Allocated
<1>3. LiveBookingsHoldTables'
  BY <1>2 DEF TableInv, LiveBookingsHoldTables, Allocated
<1>4. BookingsBeginWithHolds'
  BY <1>2 DEF TableInv, BookingsBeginWithHolds, Allocated
<1> QED
  BY <1>1, <1>3, <1>4 DEF TableInv

(***************************************************************************)
(* Ending any number of reservations: expiry, a late payment, and the      *)
(* operators' complete and no-show.                                        *)
(***************************************************************************)
LEMMA EndReservations ==
  ASSUME TypeOK, TableInv, NEW S \in SUBSET Holds,
         Release(S, "RESERVATION"), UNCHANGED hold,
         \A h \in S : /\ reservation[h].status # "NONE"
                      /\ reservation'[h].status \notin Occupying \cup {"NONE"},
         \A h \in Holds \ S : reservation'[h].status = reservation[h].status
  PROVE  TableInv'
<1>1. KeysFollowAssignments' /\ NoSharedTable'
  BY ReleaseKeepsKeys DEF TableInv
<1>2. ASSUME NEW h \in Holds
      PROVE  /\ assignment'[h].status =
                  IF h \in S /\ Releasable(h, "RESERVATION") THEN "RELEASED"
                                                             ELSE assignment[h].status
             /\ assignment'[h].owner = assignment[h].owner
             /\ assignment'[h].unit = assignment[h].unit
  BY ReleaseFacts DEF Release
<1>3. LiveBookingsHoldTables'
  BY <1>2 DEF TableInv, LiveBookingsHoldTables, Allocated, Releasable, Occupying
<1>4. BookingsBeginWithHolds'
  BY <1>2 DEF TableInv, BookingsBeginWithHolds, Allocated, Releasable
<1> QED
  BY <1>1, <1>3, <1>4 DEF TableInv

(***************************************************************************)
(* Steps that end nothing: the reservation stays as it is, or goes from    *)
(* one status that occupies its table to another.                          *)
(***************************************************************************)
LEMMA KeepBookings ==
  ASSUME TableInv, UNCHANGED <<hold, allocationVars>>,
         \A h \in Holds : \/ reservation'[h].status = reservation[h].status
                          \/ {reservation[h].status, reservation'[h].status} \subseteq Occupying
  PROVE  TableInv'
<1>1. KeysFollowAssignments' /\ NoSharedTable'
  BY DEF TableInv, KeysFollowAssignments, NoSharedTable, Allocated, allocationVars
<1>2. LiveBookingsHoldTables'
  BY DEF TableInv, LiveBookingsHoldTables, Allocated, allocationVars, Occupying
<1>3. BookingsBeginWithHolds'
  BY DEF TableInv, BookingsBeginWithHolds, Allocated, allocationVars, Occupying
<1> QED
  BY <1>1, <1>2, <1>3 DEF TableInv

(***************************************************************************)
(* What is known of the step that gave hold h its unit, which may also     *)
(* have expired the holds that lapsed.                                     *)
(***************************************************************************)
HoldGiven(h, unit) ==
  /\ unit # {}
  /\ hold[h].status = "NONE" /\ assignment[h].status = "NONE"
  /\ reservation[h].status = "NONE" /\ reservation' = reservation
  /\ hold'[h].status = "ACTIVE" /\ tableKeys'[h] = unit
  /\ assignment'[h] = [status |-> "ACTIVE", owner |-> "HOLD", unit |-> unit]
  /\ \A g \in Holds \ {h} :
       /\ hold'[g].status = IF g \in LapsedHolds THEN "EXPIRED" ELSE hold[g].status
       /\ assignment'[g].status =
            IF g \in LapsedHolds THEN "RELEASED" ELSE assignment[g].status
       /\ assignment'[g].owner = assignment[g].owner
       /\ assignment'[g].unit = assignment[g].unit
       /\ tableKeys'[g] = IF g \in LapsedHolds THEN {} ELSE tableKeys[g]
       /\ g \in LapsedHolds => /\ hold[g].status = "ACTIVE" /\ Allocated(g)
                               /\ assignment[g].owner = "HOLD"
                               /\ reservation[g].status = "NONE"
       /\ Allocated(g)' => assignment'[g].unit \cap unit = {}

(***************************************************************************)
(* A new hold.  It takes the place of a name that nothing is known of, and *)
(* the tables of its unit have no key outside the holds that lapsed.       *)
(***************************************************************************)
LEMMA CreateHoldFacts ==
  ASSUME TypeOK, TableInv, NEW h \in Holds, NEW n, CreateHold(h, n)
  PROVE  \E unit \in SUBSET Tables : HoldGiven(h, unit)
<1>1. PICK unit \in SmallestCandidates(n, LapsedHolds) :
        /\ unit # {}
        /\ hold' = [Expired(LapsedHolds) EXCEPT ![h] =
                      [status |-> "ACTIVE", party |-> n, expiresAt |-> now + HoldTicks]]
        /\ assignment' = [Released(LapsedHolds, "HOLD") EXCEPT ![h] =
                            [status |-> "ACTIVE", owner |-> "HOLD", unit |-> unit]]
        /\ tableKeys' = [KeysCleared(LapsedHolds, "HOLD") EXCEPT ![h] = unit]
  BY DEF CreateHold, TakeUnit
<1>2. /\ hold[h].status = "NONE" /\ assignment[h].status = "NONE"
      /\ reservation[h].status = "NONE" /\ reservation' = reservation
  BY DEF CreateHold, TakeUnit, IsNewKey, TableInv, BookingsBeginWithHolds
<1>3. /\ hold'[h].status = "ACTIVE" /\ tableKeys'[h] = unit
      /\ assignment'[h] = [status |-> "ACTIVE", owner |-> "HOLD", unit |-> unit]
  BY <1>1, ExpiredType, ReleasedType
<1>4. ASSUME NEW g \in Holds \ {h}
      PROVE  /\ hold'[g].status = IF g \in LapsedHolds THEN "EXPIRED" ELSE hold[g].status
             /\ assignment'[g].status =
                  IF g \in LapsedHolds THEN "RELEASED" ELSE assignment[g].status
             /\ assignment'[g].owner = assignment[g].owner
             /\ assignment'[g].unit = assignment[g].unit
             /\ tableKeys'[g] = IF g \in LapsedHolds THEN {} ELSE tableKeys[g]
             /\ g \in LapsedHolds => /\ hold[g].status = "ACTIVE" /\ Allocated(g)
                                     /\ assignment[g].owner = "HOLD"
                                     /\ reservation[g].status = "NONE"
  <2>1. g \in LapsedHolds => /\ hold[g].status = "ACTIVE" /\ Allocated(g)
                             /\ assignment[g].owner = "HOLD"
                             /\ reservation[g].status = "NONE"
    BY DEF LapsedHolds, HoldLapsed, TableInv, LiveBookingsHoldTables, BookingsBeginWithHolds
  <2>2. g \in LapsedHolds => Releasable(g, "HOLD")
    BY <2>1 DEF Releasable, Allocated
  <2>3. Expired(LapsedHolds)[g].status = IF g \in LapsedHolds THEN "EXPIRED" ELSE hold[g].status
    <3>1. hold[g] \in HoldRow
      BY DEF TypeOK
    <3> QED
      BY <3>1 DEF Expired, HoldRow
  <2>4. /\ hold'[g] = Expired(LapsedHolds)[g]
        /\ assignment'[g] = Released(LapsedHolds, "HOLD")[g]
        /\ tableKeys'[g] = KeysCleared(LapsedHolds, "HOLD")[g]
    BY <1>1 DEF Expired, Released, KeysCleared
  <2> QED
    BY <2>1, <2>2, <2>3, <2>4, ReleaseFacts
<1>5. ASSUME NEW g \in Holds \ {h}, Allocated(g)'
      PROVE  assignment'[g].unit \cap unit = {}
  <2>1. g \notin LapsedHolds /\ tableKeys[g] = assignment[g].unit
    BY <1>4, <1>5 DEF Allocated, TableInv, KeysFollowAssignments
  <2>2. tableKeys[g] \subseteq KeyedTables(LapsedHolds)
    BY <2>1 DEF KeyedTables
  <2>3. unit \cap KeyedTables(LapsedHolds) = {}
    BY DEF SmallestCandidates, Candidates
  <2> QED
    BY <1>4, <2>1, <2>2, <2>3
<1>6. unit \in SUBSET Tables
  BY DEF TypeOK, SmallestCandidates, Candidates
<1> QED
  BY <1>1, <1>2, <1>3, <1>4, <1>5, <1>6 DEF HoldGiven

\* Giving a hold a free unit shares no table.
LEMMA CreateHoldKeepsTables ==
  ASSUME TypeOK, TableInv, NEW h \in Holds, NEW n, CreateHold(h, n)
  PROVE  TableInv'
<1>1. PICK unit \in SUBSET Tables : HoldGiven(h, unit)
  BY CreateHoldFacts
<1>2. KeysFollowAssignments'
  BY <1>1 DEF HoldGiven, TableInv, KeysFollowAssignments, Allocated
<1>3. NoSharedTable'
  <2>1. ASSUME NEW g \in Holds \ {h}, NEW f \in Holds \ {h}, g # f, Allocated(g)', Allocated(f)'
        PROVE  assignment'[g].unit \cap assignment'[f].unit = {}
    BY <1>1, <2>1 DEF HoldGiven, Allocated, TableInv, NoSharedTable
  <2>2. ASSUME NEW g \in Holds \ {h}, Allocated(g)'
        PROVE  assignment'[g].unit \cap assignment'[h].unit = {}
    BY <1>1, <2>2 DEF HoldGiven
  <2> QED
    BY <2>1, <2>2 DEF NoSharedTable
<1>4. LiveBookingsHoldTables'
  BY <1>1 DEF HoldGiven, TableInv, LiveBookingsHoldTables, Allocated
<1>5. BookingsBeginWithHolds'
  BY <1>1 DEF HoldGiven, TableInv, BookingsBeginWithHolds, Allocated
<1> QED
  BY <1>2, <1>3, <1>4, <1>5 DEF TableInv

(***************************************************************************)
(* The conversion passes the assignment to the new reservation.            *)
(***************************************************************************)
LEMMA ConvertFacts ==
  ASSUME TypeOK, NEW h \in Holds, Convert(h)
  PROVE  /\ hold' = [hold EXCEPT ![h] = [hold[h] EXCEPT !.status = "CONVERTED"]]
         /\ hold'[h].status = "CONVERTED" /\ tableKeys' = tableKeys
         /\ reservation'[h].status \in {"CONFIRMED", "PENDING_PAYMENT"}
         /\ assignment'[h].owner = "RESERVATION"
         /\ assignment'[h].status = assignment[h].status
         /\ assignment'[h].unit = assignment[h].unit
         /\ \A g \in Holds \ {h} : /\ hold'[g] = hold[g] /\ assignment'[g] = assignment[g]
                                   /\ reservation'[g] = reservation[g]
<1>1. /\ assignment[h] \in AssignmentRow /\ hold[h] \in HoldRow
      /\ assignment \in [Holds -> AssignmentRow]
      /\ hold \in [Holds -> HoldRow] /\ reservation \in [Holds -> ReservationRow]
  BY DEF TypeOK
<1> QED
  BY <1>1 DEF Convert, NewReservation, PassOn, AssignmentRow, HoldRow

\* The assignment changes its owner exactly when the entitlement does.
LEMMA ConvertKeepsTables ==
  ASSUME TypeOK, TableInv, NEW h \in Holds, Convert(h)
  PROVE  TableInv'
<1>1. /\ hold[h].status = "ACTIVE"
      /\ assignment[h].status = "ACTIVE" /\ assignment[h].owner = "HOLD"
  BY DEF Convert, NewReservation, PassOn, Releasable
<1>2. KeysFollowAssignments' /\ NoSharedTable'
  BY ConvertFacts DEF TableInv, KeysFollowAssignments, NoSharedTable, Allocated
<1>3. LiveBookingsHoldTables'
  BY <1>1, ConvertFacts DEF TableInv, LiveBookingsHoldTables, Allocated
<1>4. BookingsBeginWithHolds'
  BY <1>1, ConvertFacts DEF TableInv, BookingsBeginWithHolds, Allocated
<1> QED
  BY <1>2, <1>3, <1>4 DEF TableInv

-----------------------------------------------------------------------------
(***************************************************************************)
(* What exists of a payment belongs to a reservation: steps of other       *)
(* parts, and a step on a payment that has started or may start.           *)
(***************************************************************************)
LEMMA PaymentFrame ==
  ASSUME PaymentsHaveReservations, UNCHANGED paymentVars,
         \A h \in Holds : reservation[h].status # "NONE" => reservation'[h].status # "NONE"
  PROVE  PaymentsHaveReservations'
BY DEF PaymentsHaveReservations, PaymentStarted, paymentVars

\* A step on one payment of a reservation that exists.
LEMMA PaymentStep ==
  ASSUME PaymentsHaveReservations, NEW h \in Holds, NEW k \in PayKeys,
         reservation'[h].status # "NONE",
         \A g \in Holds : reservation[g].status # "NONE" => reservation'[g].status # "NONE",
         \A g \in Holds, l \in PayKeys :
           <<g, l>> # <<h, k>> /\ PaymentStarted(g, l)' => PaymentStarted(g, l)
  PROVE  PaymentsHaveReservations'
<1> SUFFICES ASSUME NEW g \in Holds, NEW l \in PayKeys, PaymentStarted(g, l)'
             PROVE  reservation'[g].status # "NONE"
  BY DEF PaymentsHaveReservations
<1>1. CASE g = h
  BY <1>1
<1>2. CASE g # h
  BY <1>2 DEF PaymentsHaveReservations
<1> QED
  BY <1>1, <1>2

(***************************************************************************)
(* Each part of the system keeps the invariant; first those that leave the *)
(* bookings alone.                                                         *)
(***************************************************************************)
BookingsUntouched == UNCHANGED <<hold, allocationVars, reservation>>

\* TableInv speaks of nothing but the bookings.
LEMMA UntouchedKeepsTables ==
  ASSUME TableInv, BookingsUntouched
  PROVE  TableInv'
BY KeepBookings DEF BookingsUntouched

\* The organiser, the POS, an operator's request and the clock leave all bookings alone.
LEMMA OtherStepsKeep ==
  ASSUME AllocationInv, Tick \/ Organiser \/ Pos
                        \/ (\E m \in Mutations, h \in Holds, a \in OperationAction :
                              SubmitOperation(m, h, a))
  PROVE  BookingsUntouched /\ AllocationInv'
<1>1. BookingsUntouched /\ UNCHANGED paymentVars
  <2>1. CASE Tick
    BY <2>1 DEF Tick, BookingsUntouched
  <2>2. CASE Organiser
    BY <2>2
    DEF Organiser, ReplaceTables, MergeTables, SplitGroup, PublishEvent, CancelEvent,
        ArchiveEvent, Untouched, BookingsUntouched
  <2>3. CASE Pos
    BY <2>3
    DEF Pos, OpenTableSession, FinishWalkIn, FinishReservationSession,
        MoveReservationSession, ElsewhereThanFloor, BookingsUntouched
  <2>4. ASSUME NEW m \in Mutations, NEW h \in Holds, NEW a \in OperationAction,
               SubmitOperation(m, h, a)
        PROVE  BookingsUntouched /\ UNCHANGED paymentVars
    BY <2>4 DEF SubmitOperation, BookingsUntouched
  <2> QED
    BY <2>1, <2>2, <2>3, <2>4
<1>2. PaymentsHaveReservations'
  BY <1>1, PaymentFrame DEF AllocationInv, BookingsUntouched
<1> QED
  BY <1>1, <1>2, UntouchedKeepsTables DEF AllocationInv

(***************************************************************************)
(* Payment attempts, until Stripe reports that one is paid.                *)
(***************************************************************************)
LEMMA PaymentStepsKeep ==
  ASSUME TypeOK, AllocationInv, NEW h \in Holds, NEW k \in PayKeys, NEW p, p = <<h, k>>,
         \/ PrepareCheckout(h, k) \/ CreateStripeSession(p) \/ AttachCheckoutSession(p)
         \/ LoseCheckout(p) \/ CustomerPays(p) \/ CardDeclined(p)
         \/ StripeSessionExpires(p) \/ HandleCheckoutExpired(p)
         \/ HandlePaymentIntentFailed(p)
  PROVE  BookingsUntouched /\ AllocationInv'
<1> DEFINE SameOthers ==
      \A q \in Payments \ {p} :
        /\ payment'[q] = payment[q] /\ stripeSession'[q] = stripeSession[q]
        /\ \A step : <<q, step>> \in checkouts' => <<q, step>> \in checkouts
        /\ \A event : <<q, event>> \in webhooks' => <<q, event>> \in webhooks
    Goal == BookingsUntouched /\ SameOthers /\ reservation[h].status # "NONE"
<1> USE DEF ElsewhereThanPayments, BookingsUntouched
<1>0. /\ p \in Payments /\ payment \in [Payments -> PaymentRow]
      /\ stripeSession \in [Payments -> {"NONE", "OPEN", "PAID", "EXPIRED"}]
  BY DEF TypeOK, Payments
<1>1. PaymentStarted(h, k) => reservation[h].status # "NONE"
  BY DEF AllocationInv, PaymentsHaveReservations
<1>2. ASSUME PrepareCheckout(h, k) PROVE Goal
  BY <1>0, <1>2 DEF PrepareCheckout, CheckoutAllowed
<1>3. ASSUME CreateStripeSession(p) PROVE Goal
  BY <1>0, <1>1, <1>3 DEF CreateStripeSession, PaymentStarted, CheckoutStep
<1>4. ASSUME AttachCheckoutSession(p) PROVE Goal
  BY <1>0, <1>1, <1>4 DEF AttachCheckoutSession, PaymentStarted, CheckoutStep
<1>5. ASSUME LoseCheckout(p) PROVE Goal
  BY <1>0, <1>1, <1>5 DEF LoseCheckout, PaymentStarted
<1>6. ASSUME NEW session, NEW event, StripeMoves(p, session, event) PROVE Goal
  BY <1>0, <1>1, <1>6 DEF StripeMoves, PaymentStarted
<1>7. ASSUME NEW event \in StripeEvent, NEW status, MarkPaymentAttemptFailed(p, event, status)
      PROVE  Goal
  BY <1>0, <1>1, <1>7 DEF MarkPaymentAttemptFailed, PaymentStarted
<1>8. Goal
  BY <1>2, <1>3, <1>4, <1>5, <1>6, <1>7
  DEF CustomerPays, CardDeclined, StripeSessionExpires, HandleCheckoutExpired,
      HandlePaymentIntentFailed, StripeEvent
<1>9. ASSUME NEW g \in Holds, NEW l \in PayKeys, <<g, l>> # <<h, k>>, PaymentStarted(g, l)'
      PROVE  PaymentStarted(g, l)
  <2>1. <<g, l>> \in Payments \ {p}
    BY <1>9 DEF Payments
  <2> QED
    BY <1>8, <1>9, <2>1 DEF PaymentStarted
<1>10. PaymentsHaveReservations'
  BY <1>8, <1>9, PaymentStep DEF AllocationInv
<1> QED
  BY <1>8, <1>10, UntouchedKeepsTables DEF AllocationInv

(***************************************************************************)
(* Expiry of holds that have lapsed, and what a customer does with a hold. *)
(***************************************************************************)
LEMMA ExpireHoldsKeeps ==
  ASSUME TypeOK, AllocationInv, NEW S \in SUBSET LapsedHolds,
         ExpireHolds(S), UNCHANGED <<reservation, paymentVars>>
  PROVE  AllocationInv'
<1>1. S \in SUBSET Holds /\ \A h \in S : hold[h].status = "ACTIVE"
  BY DEF LapsedHolds, HoldLapsed
<1>2. ASSUME NEW h \in Holds
      PROVE  hold'[h].status = IF h \in S THEN "EXPIRED" ELSE hold[h].status
  <2>1. hold[h] \in HoldRow
    BY DEF TypeOK
  <2> QED
    BY <2>1 DEF ExpireHolds, Expired, HoldRow
<1>3. TableInv'
  BY <1>1, <1>2, EndHolds DEF ExpireHolds, AllocationInv
<1>4. PaymentsHaveReservations'
  BY PaymentFrame DEF AllocationInv
<1> QED
  BY <1>3, <1>4 DEF AllocationInv

\* What customers do with holds.
LEMMA HoldStepsKeep ==
  ASSUME TypeOK, AllocationInv, NEW h \in Holds,
         \/ \E n \in MinPartySize .. MaxPartySize : CreateHold(h, n)
         \/ RepeatCreateHold(h) \/ GetHold(h) \/ CancelHold(h) \/ Convert(h)
  PROVE  AllocationInv'
<1> USE DEF Elsewhere
<1>1. ASSUME NEW n \in MinPartySize .. MaxPartySize, CreateHold(h, n) PROVE AllocationInv'
  BY <1>1, CreateHoldKeepsTables, PaymentFrame DEF CreateHold, TakeUnit, AllocationInv
<1>2. CASE RepeatCreateHold(h)
  BY <1>2, ExpireHoldsKeeps DEF RepeatCreateHold
<1>3. HoldLapsed(h) => {h} \in SUBSET LapsedHolds
  BY DEF LapsedHolds
<1>4. CASE GetHold(h)
  BY <1>3, <1>4, ExpireHoldsKeeps DEF GetHold
<1>5. CASE CancelHold(h)
  <2>1. CASE HoldLapsed(h)
    BY <1>3, <1>5, <2>1, ExpireHoldsKeeps DEF CancelHold
  <2>2. CASE ~HoldLapsed(h)
    <3>1. hold[h] \in HoldRow /\ hold \in [Holds -> HoldRow]
      BY DEF TypeOK
    <3>2. /\ hold[h].status = "ACTIVE" /\ hold'[h].status = "CANCELLED"
          /\ \A g \in Holds \ {h} : hold'[g].status = hold[g].status
      BY <1>5, <2>2, <3>1 DEF CancelHold, HoldRow
    <3>3. TableInv'
      BY <1>5, <2>2, <3>2, EndHolds DEF CancelHold, AllocationInv
    <3>4. PaymentsHaveReservations'
      BY <1>5, PaymentFrame DEF CancelHold, AllocationInv
    <3> QED
      BY <3>3, <3>4 DEF AllocationInv
  <2> QED
    BY <2>1, <2>2
<1>6. CASE Convert(h)
  <2>1. \A g \in Holds : reservation[g].status # "NONE" => reservation'[g].status # "NONE"
    BY <1>6, ConvertFacts
  <2>2. PaymentsHaveReservations'
    BY <1>6, <2>1, PaymentFrame DEF Convert, NewReservation, PassOn, AllocationInv
  <2> QED
    BY <1>6, <2>2, ConvertKeepsTables DEF AllocationInv
<1> QED
  BY <1>1, <1>2, <1>4, <1>5, <1>6

(***************************************************************************)
(* The expiry jobs.                                                        *)
(***************************************************************************)
LEMMA ExpirePaymentsFacts ==
  ASSUME TypeOK, ExpirePaymentsJob
  PROVE  \E S \in SUBSET Holds :
           /\ Release(S, "RESERVATION") /\ UNCHANGED <<hold, paymentVars>>
           /\ \A h \in S : reservation[h].status = "PENDING_PAYMENT"
                           /\ reservation'[h].status = "EXPIRED"
           /\ \A h \in Holds \ S : reservation'[h].status = reservation[h].status
<1>1. PICK S \in SUBSET UnpaidReservations :
        /\ reservation' = [h \in Holds |-> IF h \in S THEN TimedOut(h) ELSE reservation[h]]
        /\ Release(S, "RESERVATION")
  BY DEF ExpirePaymentsJob
<1>2. /\ S \in SUBSET Holds
      /\ \A h \in S : reservation[h].status = "PENDING_PAYMENT"
                      /\ reservation'[h].status = "EXPIRED"
      /\ \A h \in Holds \ S : reservation'[h].status = reservation[h].status
  BY <1>1 DEF UnpaidReservations, TimedOut
<1> QED
  BY <1>1, <1>2 DEF ExpirePaymentsJob, Elsewhere

\* Both expiry jobs release what they expire and nothing else.
LEMMA WorkerKeeps ==
  ASSUME TypeOK, AllocationInv, Worker
  PROVE  AllocationInv'
<1>1. CASE ExpireHoldsJob
  BY <1>1, ExpireHoldsKeeps DEF ExpireHoldsJob, Elsewhere
<1>2. CASE ExpirePaymentsJob
  <2>1. PICK S \in SUBSET Holds :
          /\ Release(S, "RESERVATION") /\ UNCHANGED <<hold, paymentVars>>
          /\ \A h \in S : reservation[h].status = "PENDING_PAYMENT"
                          /\ reservation'[h].status = "EXPIRED"
          /\ \A h \in Holds \ S : reservation'[h].status = reservation[h].status
    BY <1>2, ExpirePaymentsFacts
  <2>2. TableInv'
    BY <2>1, EndReservations DEF AllocationInv, Occupying
  <2>3. PaymentsHaveReservations'
    BY <2>1, PaymentFrame DEF AllocationInv
  <2> QED
    BY <2>2, <2>3 DEF AllocationInv
<1> QED
  BY <1>1, <1>2 DEF Worker

(***************************************************************************)
(* The webhook of a payment.  It finds a reservation, which is waiting for *)
(* it or loses whatever table it still has.                                *)
(***************************************************************************)
LEMMA CheckoutPaidFacts ==
  ASSUME TypeOK, AllocationInv, NEW h \in Holds, NEW k \in PayKeys, HandleCheckoutPaid(h, k)
  PROVE  /\ reservation[h].status # "NONE"
         /\ reservation'[h].status = IF LatePayment(h) THEN "REFUND_PENDING" ELSE "CONFIRMED"
         /\ \A g \in Holds \ {h} : reservation'[g].status = reservation[g].status
<1>1. PaymentStarted(h, k)
  BY DEF HandleCheckoutPaid, BookedOrOwed, PaymentStarted, StripeEvent
<1>2. reservation[h].status # "NONE"
  BY <1>1 DEF AllocationInv, PaymentsHaveReservations
<1>3. reservation \in [Holds -> ReservationRow]
  BY DEF TypeOK
<1> QED
  BY <1>2, <1>3 DEF HandleCheckoutPaid, BookedOrOwed

\* A payment confirms the reservation that waits for it, or ends it with its table.
LEMMA CheckoutPaidKeeps ==
  ASSUME TypeOK, AllocationInv, NEW h \in Holds, NEW k \in PayKeys, HandleCheckoutPaid(h, k)
  PROVE  AllocationInv'
<1>1. UNCHANGED hold
  BY DEF HandleCheckoutPaid, BookedOrOwed, ElsewhereThanPayments
<1>2. TableInv'
  <2>1. CASE LatePayment(h)
    <3>1. Release({h}, "RESERVATION")
      BY <2>1 DEF HandleCheckoutPaid, BookedOrOwed
    <3> QED
      BY <1>1, <2>1, <3>1, CheckoutPaidFacts, EndReservations DEF AllocationInv, Occupying
  <2>2. CASE ~LatePayment(h)
    <3>1. UNCHANGED allocationVars /\ reservation[h].status = "PENDING_PAYMENT"
      BY <2>2 DEF HandleCheckoutPaid, BookedOrOwed, allocationVars, LatePayment
    <3> QED
      BY <1>1, <2>2, <3>1, CheckoutPaidFacts, KeepBookings DEF AllocationInv, Occupying
  <2> QED
    BY <2>1, <2>2
<1>3. ASSUME NEW g \in Holds, NEW l \in PayKeys, <<g, l>> # <<h, k>>, PaymentStarted(g, l)'
      PROVE  PaymentStarted(g, l)
  <2>1. payment'[<<g, l>>] = payment[<<g, l>>]
    BY <1>3 DEF HandleCheckoutPaid, BookedOrOwed, TypeOK, Payments
  <2> QED
    BY <1>3, <2>1 DEF HandleCheckoutPaid, BookedOrOwed, PaymentStarted
<1>4. PaymentsHaveReservations'
  BY <1>3, CheckoutPaidFacts, PaymentStep DEF AllocationInv
<1> QED
  BY <1>2, <1>4 DEF AllocationInv

(***************************************************************************)
(* An operator's request moves its reservation along: check-in and seat    *)
(* keep the table, complete and no-show release it.                        *)
(***************************************************************************)
LEMMA ApplyFacts ==
  ASSUME TypeOK, NEW m \in Mutations, ApplyOperation(m)
  PROVE  \E h \in Holds :
           /\ UNCHANGED <<hold, paymentVars>>
           /\ \A g \in Holds \ {h} : reservation'[g].status = reservation[g].status
           /\ reservation[h].status \in Occupying
           /\ \/ reservation'[h].status \in Occupying /\ UNCHANGED allocationVars
              \/ /\ reservation'[h].status \in {"COMPLETED", "NO_SHOW"}
                 /\ Release({h}, "RESERVATION")
<1>1. PICK r \in operation[m] :
        /\ reservation[r.target].status = SourceStatus[r.action]
        /\ reservation' = [reservation EXCEPT ![r.target].status = TargetStatus[r.action],
                                              ![r.target].version = @ + 1]
        /\ IF r.action \in {"complete", "no-show"}
             THEN Release({r.target}, "RESERVATION") ELSE UNCHANGED allocationVars
  BY DEF ApplyOperation
<1>2. r \in OperationRequest
  BY <1>1 DEF TypeOK
<1>3. /\ r.target \in Holds /\ r.action \in OperationAction
      /\ SourceStatus[r.action] \in Occupying
      /\ TargetStatus[r.action] \in
           IF r.action \in {"complete", "no-show"} THEN {"COMPLETED", "NO_SHOW"}
                                                   ELSE Occupying
  BY <1>2 DEF OperationRequest, OperationAction, SourceStatus, TargetStatus, Occupying
<1>4. /\ reservation'[r.target].status = TargetStatus[r.action]
      /\ \A g \in Holds \ {r.target} : reservation'[g].status = reservation[g].status
  <2>1. reservation \in [Holds -> ReservationRow] /\ reservation[r.target] \in ReservationRow
    BY <1>3 DEF TypeOK
  <2> QED
    BY <1>1, <1>3, <2>1 DEF ReservationRow
<1>5. UNCHANGED <<hold, paymentVars>>
  BY DEF ApplyOperation
<1> QED
  BY <1>1, <1>3, <1>4, <1>5

\* An operator's step keeps the table or ends the booking with it.
LEMMA ApplyKeeps ==
  ASSUME TypeOK, AllocationInv, NEW m \in Mutations, ApplyOperation(m)
  PROVE  AllocationInv'
<1>1. PICK h \in Holds :
        /\ UNCHANGED <<hold, paymentVars>>
        /\ \A g \in Holds \ {h} : reservation'[g].status = reservation[g].status
        /\ reservation[h].status \in Occupying
        /\ \/ reservation'[h].status \in Occupying /\ UNCHANGED allocationVars
           \/ /\ reservation'[h].status \in {"COMPLETED", "NO_SHOW"}
              /\ Release({h}, "RESERVATION")
  BY ApplyFacts
<1>2. TableInv'
  BY <1>1, EndReservations, KeepBookings DEF AllocationInv, Occupying
<1>3. PaymentsHaveReservations'
  BY <1>1, PaymentFrame DEF AllocationInv, Occupying
<1> QED
  BY <1>2, <1>3 DEF AllocationInv

-----------------------------------------------------------------------------
(***************************************************************************)
(* The invariant holds at first, and every step of the system keeps it.    *)
(***************************************************************************)
LEMMA InitAllocationInv == Init => AllocationInv
<1> SUFFICES ASSUME Init PROVE AllocationInv
  OBVIOUS
<1>1. TableInv
  BY DEF Init, TableInv, KeysFollowAssignments, NoSharedTable, LiveBookingsHoldTables,
         BookingsBeginWithHolds, Allocated
<1>2. PaymentsHaveReservations
  BY DEF Init, PaymentsHaveReservations, PaymentStarted, Payments
<1> QED
  BY <1>1, <1>2 DEF AllocationInv

\* The inductive step, by the parts of the system.
LEMMA NextAllocationInv ==
  ASSUME TypeOK, AllocationInv, [Next]_vars
  PROVE  AllocationInv'
<1>1. CASE Tick \/ Organiser \/ Pos
  BY <1>1, OtherStepsKeep
<1>2. CASE Customer
  BY <1>2, HoldStepsKeep, PaymentStepsKeep DEF Customer
<1>3. CASE Checkout \/ StripeSide
  BY <1>3, PaymentStepsKeep DEF Checkout, StripeSide, Payments
<1>4. CASE Webhook
  BY <1>4, CheckoutPaidKeeps, PaymentStepsKeep DEF Webhook, Payments
<1>5. CASE Operator
  BY <1>5, OtherStepsKeep, ApplyKeeps DEF Operator
<1>6. CASE Worker
  BY <1>6, WorkerKeeps
<1>7. CASE UNCHANGED vars
  <2>1. BookingsUntouched /\ UNCHANGED paymentVars
    BY <1>7 DEF vars, BookingsUntouched
  <2> QED
    BY <2>1, UntouchedKeepsTables, PaymentFrame DEF AllocationInv, BookingsUntouched
<1> QED
  BY <1>1, <1>2, <1>3, <1>4, <1>5, <1>6, <1>7 DEF Next

\* Both type correctness and the allocation invariant hold throughout.
LEMMA AllocationInvariant == Spec => [](TypeOK /\ AllocationInv)
<1>1. Spec => []TypeOK
  BY TypeCorrect
<1>2. Init => AllocationInv
  BY InitAllocationInv
<1>3. TypeOK /\ AllocationInv /\ [Next]_vars => AllocationInv'
  BY NextAllocationInv
<1> QED
  BY <1>1, <1>2, <1>3, PTL DEF Spec

(***************************************************************************)
(* No table is ever promised twice.                                        *)
(***************************************************************************)
THEOREM TablesNeverShared == Spec => []NoSharedTable
<1>1. AllocationInv => NoSharedTable
  BY DEF AllocationInv, TableInv
<1> QED
  BY <1>1, AllocationInvariant, PTL

(***************************************************************************)
(* The keys that keep tables out of later searches are always those of the *)
(* ACTIVE assignments.                                                     *)
(***************************************************************************)
THEOREM KeysAlwaysFollow == Spec => []KeysFollowAssignments
<1>1. AllocationInv => KeysFollowAssignments
  BY DEF AllocationInv, TableInv
<1> QED
  BY <1>1, AllocationInvariant, PTL

(***************************************************************************)
(* A table is booked once, as those who look for a free one see it: the    *)
(* two together.                                                           *)
(***************************************************************************)
THEOREM TablesBookedOnce == Spec => []TablesAreBookedOnce
BY TablesNeverShared, KeysAlwaysFollow, PTL DEF TablesAreBookedOnce

(***************************************************************************)
(* A table is kept exactly as long as a hold or a reservation is entitled  *)
(* to it, whatever payments, deadlines and operators do.                   *)
(***************************************************************************)
THEOREM EntitledBookingsKeepTables == Spec => []LiveBookingsHoldTables
<1>1. AllocationInv => LiveBookingsHoldTables
  BY DEF AllocationInv, TableInv
<1> QED
  BY <1>1, AllocationInvariant, PTL

-----------------------------------------------------------------------------
(***************************************************************************)
(* Refinement: what each step does to the tables of the bookings.          *)
(***************************************************************************)
LEMMA ReleaseGivesBack ==
  ASSUME TypeOK, AllocationInv, NEW S, NEW owner, Release(S, owner)
  PROVE  Allocation!Next
<1> DEFINE R == {h \in Holds : h \in S /\ Releasable(h, owner)}
<1>1. ASSUME NEW h \in Holds
      PROVE  /\ assignment'[h].status = IF h \in R THEN "RELEASED" ELSE assignment[h].status
             /\ assignment'[h].unit = assignment[h].unit
             /\ h \in R => Allocated(h) /\ assignment[h].unit # {}
  <2>1. h \in R => Allocated(h) /\ assignment[h].unit # {}
    BY DEF Releasable, Allocated, AllocationInv, TableInv, BookingsBeginWithHolds
  <2> QED
    BY <2>1, ReleaseFacts DEF Release
<1> HIDE DEF R
<1>2. R \in SUBSET Holds
  BY DEF R
<1>3. Allocation!GiveBack(R)
  BY <1>1, <1>2
  DEF Allocation!GiveBack, Allocation!Holding, Allocation!Without, TablesHeld, GivenBack,
      Allocated
<1> QED
  BY <1>2, <1>3 DEF Allocation!Next, Allocation!GiveBack

\* A new hold takes its tables while the lapsed holds give theirs back.
LEMMA CreateHoldTakes ==
  ASSUME TypeOK, AllocationInv, NEW h \in Holds, NEW n, CreateHold(h, n)
  PROVE  Allocation!Next
<1>1. TableInv /\ LapsedHolds \in SUBSET Holds
  BY DEF AllocationInv, LapsedHolds
<1>2. PICK unit \in SUBSET Tables : HoldGiven(h, unit)
  BY <1>1, CreateHoldFacts
<1>3. h \notin LapsedHolds
  BY <1>2 DEF HoldGiven, LapsedHolds, HoldLapsed
<1>4. \A g \in LapsedHolds : Allocated(g) /\ assignment[g].unit # {}
  BY <1>1, <1>2, <1>3 DEF HoldGiven, TableInv, BookingsBeginWithHolds
<1>5. \A c \in Holds \ LapsedHolds :
        (IF Allocated(c) THEN assignment[c].unit ELSE {}) \cap unit = {}
  BY <1>2 DEF HoldGiven, Allocated
<1>6. Allocation!Take(h, unit, LapsedHolds)
  <2>1. LapsedHolds \subseteq Allocation!Holding
    BY <1>1, <1>4 DEF Allocation!Holding, TablesHeld
  <2>2. h \in Holds \ (Allocation!Holding \cup GivenBack)
    BY <1>2 DEF HoldGiven, Allocation!Holding, TablesHeld, GivenBack, Allocated
  <2>3. unit # {} /\ \A c \in Holds \ LapsedHolds : TablesHeld[c] \cap unit = {}
    BY <1>2, <1>5 DEF HoldGiven, TablesHeld
  <2>4. TablesHeld' = [Allocation!Without(LapsedHolds) EXCEPT ![h] = unit]
    <3>1. TablesHeld'[h] = unit
      BY <1>2 DEF HoldGiven, TablesHeld, Allocated
    <3>2. ASSUME NEW g \in Holds \ {h}
          PROVE  TablesHeld'[g] = IF g \in LapsedHolds THEN {} ELSE TablesHeld[g]
      BY <1>2 DEF HoldGiven, TablesHeld, Allocated
    <3>3. TablesHeld' = [g \in Holds |-> TablesHeld'[g]]
      BY DEF TablesHeld
    <3> QED
      BY <3>1, <3>2, <3>3 DEF Allocation!Without
  <2>5. GivenBack' = GivenBack \cup LapsedHolds
    BY <1>1, <1>2, <1>3 DEF HoldGiven, GivenBack
  <2> QED
    BY <2>1, <2>2, <2>3, <2>4, <2>5 DEF Allocation!Take
<1> QED
  BY <1>1, <1>2, <1>6 DEF Allocation!Next, Allocation!Take

\* Steps that move no assignment's status or unit stutter in TableAllocation.
LEMMA SameTables ==
  ASSUME \A h \in Holds : /\ assignment'[h].status = assignment[h].status
                          /\ assignment'[h].unit = assignment[h].unit
  PROVE  UNCHANGED Allocation!vars
BY DEF Allocation!vars, TablesHeld, GivenBack, Allocated

(***************************************************************************)
(* A step creates a hold, or releases assignments, or leaves every booking *)
(* with the tables it has.                                                 *)
(***************************************************************************)
LEMMA StepKinds ==
  ASSUME TypeOK, AllocationInv, [Next]_vars
  PROVE  \/ \E h \in Holds, n \in MinPartySize .. MaxPartySize : CreateHold(h, n)
         \/ \E S \in SUBSET Holds, owner \in {"HOLD", "RESERVATION"} : Release(S, owner)
         \/ \A h \in Holds : /\ assignment'[h].status = assignment[h].status
                             /\ assignment'[h].unit = assignment[h].unit
<1> DEFINE Goal ==
      \/ \E h \in Holds, n \in MinPartySize .. MaxPartySize : CreateHold(h, n)
      \/ \E S \in SUBSET Holds, owner \in {"HOLD", "RESERVATION"} : Release(S, owner)
      \/ \A h \in Holds : /\ assignment'[h].status = assignment[h].status
                          /\ assignment'[h].unit = assignment[h].unit
<1>1. ASSUME UNCHANGED assignment PROVE Goal
  BY <1>1
<1>2. CASE Tick \/ Organiser \/ Pos
  BY <1>1, <1>2, OtherStepsKeep DEF BookingsUntouched, allocationVars
<1>3. CASE Customer
  <2>1. ASSUME NEW h \in Holds, RepeatCreateHold(h) \/ GetHold(h) \/ CancelHold(h) PROVE Goal
    BY <2>1 DEF RepeatCreateHold, GetHold, CancelHold, ExpireHolds, LapsedHolds
  <2>2. ASSUME NEW h \in Holds, Convert(h) PROVE Goal
    BY <2>2, ConvertFacts
  <2>3. ASSUME NEW h \in Holds, NEW k \in PayKeys, PrepareCheckout(h, k) PROVE Goal
    BY <1>1, <2>3 DEF PrepareCheckout, allocationVars
  <2> QED
    BY <1>3, <2>1, <2>2, <2>3 DEF Customer
<1>4. CASE Checkout \/ StripeSide
  BY <1>1, <1>4, PaymentStepsKeep
  DEF Checkout, StripeSide, Payments, BookingsUntouched, allocationVars
<1>5. CASE Webhook
  <2>1. ASSUME NEW h \in Holds, NEW k \in PayKeys, HandleCheckoutPaid(h, k) PROVE Goal
    BY <1>1, <2>1 DEF HandleCheckoutPaid, BookedOrOwed, allocationVars
  <2> QED
    BY <1>1, <1>5, <2>1, PaymentStepsKeep
    DEF Webhook, Payments, BookingsUntouched, allocationVars
<1>6. CASE Operator
  <2>1. ASSUME NEW m \in Mutations, ApplyOperation(m) PROVE Goal
    BY <1>1, <2>1, ApplyFacts DEF allocationVars
  <2> QED
    BY <1>1, <1>6, <2>1, OtherStepsKeep DEF Operator, BookingsUntouched, allocationVars
<1>7. CASE Worker
  <2>1. CASE ExpireHoldsJob
    BY <2>1 DEF ExpireHoldsJob, ExpireHolds, LapsedHolds
  <2>2. CASE ExpirePaymentsJob
    BY <2>2, ExpirePaymentsFacts
  <2> QED
    BY <1>7, <2>1, <2>2 DEF Worker
<1>8. CASE UNCHANGED vars
  BY <1>1, <1>8 DEF vars, allocationVars
<1> QED
  BY <1>2, <1>3, <1>4, <1>5, <1>6, <1>7, <1>8 DEF Next

(***************************************************************************)
(* Event booking implements TableAllocation: bookings take free tables,    *)
(* keep all of them, give all back once and never regain one.              *)
(***************************************************************************)
THEOREM BookingImplementsAllocation == Spec => AllocationSpec
<1>1. Init => Allocation!Init
  BY DEF Init, Allocation!Init, TablesHeld, GivenBack, Allocated
<1>2. TypeOK /\ AllocationInv /\ [Next]_vars => [Allocation!Next]_(Allocation!vars)
  <2> SUFFICES ASSUME TypeOK, AllocationInv, [Next]_vars
               PROVE  Allocation!Next \/ UNCHANGED Allocation!vars
    OBVIOUS
  <2> QED
    BY StepKinds, CreateHoldTakes, ReleaseGivesBack, SameTables
<1> QED
  BY <1>1, <1>2, AllocationInvariant, PTL DEF Spec, AllocationSpec, Allocation!Spec
=============================================================================
