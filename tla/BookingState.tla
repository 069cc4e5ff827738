---------------------------- MODULE BookingState ----------------------------
(***************************************************************************)
(* The rows the reservation services share for one event, as one database  *)
(* state, and the helpers their transactions have in common.               *)
(*                                                                         *)
(* A hold is named by its idempotency key, which fixes its public token;   *)
(* reservations.hold_id and reservation_table_assignments.hold_id are      *)
(* unique, so the reservation and the assignment that come from a hold     *)
(* are indexed by the same name.  A row that does not exist yet has the    *)
(* status "NONE".  An inventory unit (one table, or a group of tables      *)
(* merged for the event) is the set of its physical tables.                *)
(*                                                                         *)
(* Every transaction of the services is one atomic action: createHold and  *)
(* the inventory changes lock the event row, the others lock the rows they *)
(* change before they read them.  All deadlines are compared with one      *)
(* clock, now.                                                             *)
(***************************************************************************)
EXTENDS Integers, FiniteSets, FiniteSetsExt

CONSTANTS
  Tables,          \* the physical tables (dining_tables) of the location
  Seats,           \* dining_tables.capacity
  Holds,           \* idempotency keys customers use to create holds
  MinPartySize,    \* event_booking_rules.min_party_size
  MaxPartySize,    \* event_booking_rules.max_party_size
  EventCapacity,   \* events.capacity
  BookingAmount,   \* events.booking_amount_cents; 0 for a free event
  HoldTicks,       \* event_booking_rules.hold_minutes
  BookingOpensAt,  \* events.booking_opens_at
  BookingClosesAt, \* events.booking_closes_at
  StartsAt,        \* events.starts_at
  MaxTime,         \* bound: the clock stops here
  PayKeys,         \* idempotency keys of a customer's payment attempts
  Mutations,       \* mutationIds the Control Center operators use
  WalkInTables     \* bound: the tables the POS opens without a reservation

ASSUME BookingAssumption ==
  /\ IsFiniteSet(Tables)
  /\ Seats \in [Tables -> Nat \ {0}]
  /\ IsFiniteSet(Holds)
  /\ MinPartySize \in Nat \ {0} /\ MaxPartySize \in Nat
  /\ EventCapacity \in Nat
  /\ BookingAmount \in Nat
  /\ HoldTicks \in Nat \ {0}
  /\ BookingOpensAt \in Nat /\ BookingClosesAt \in Nat /\ StartsAt \in Nat
  /\ MaxTime \in Nat
  /\ WalkInTables \subseteq Tables

VARIABLES
  now,             \* the clock
  eventStatus,     \* events.status
  inventory,       \* event_table_inventory: the units on offer
  groups,          \* event_table_groups with their members
  hold,            \* reservation_holds
  assignment,      \* reservation_table_assignments
  tableKeys,       \* reservation_table_assignment_tables: per assignment, the
                   \* physical tables whose active_event_table_key is set
  reservation,     \* reservations
  payment,         \* reservation_payments
  checkouts,       \* checkout requests between prepareCheckout and the reply
  stripeSession,   \* Stripe's checkout session of each payment
  webhooks,        \* Stripe events that exist; any may be delivered, in any
                   \* order, any number of times
  refundRequired,  \* payments published as reservations.payment.refund_required
  tableSession,    \* the table_sessions row a check-in opened
  walkIns,         \* physical tables with another OPEN table session
  operation,       \* operator requests: target, action, version that was read
  applied          \* mutationIds recorded in audit_events

inventoryVars == <<eventStatus, inventory, groups>>
allocationVars == <<assignment, tableKeys>>
paymentVars == <<payment, checkouts, stripeSession, webhooks, refundRequired>>
floorVars == <<tableSession, walkIns>>
operationVars == <<operation, applied>>
vars == <<now, inventoryVars, hold, allocationVars, reservation, paymentVars,
          floorVars, operationVars>>

Payments == Holds \X PayKeys
NoDeadline == -1

EventStatus == {"DRAFT", "PUBLISHED", "CANCELLED", "ARCHIVED"}
HoldStatus == {"NONE", "ACTIVE", "EXPIRED", "CANCELLED", "CONVERTED"}
AssignmentStatus == {"NONE", "ACTIVE", "RELEASED"}
PaymentStatus ==
  {"NONE", "CREATED", "REQUIRES_ACTION", "PAID", "FAILED", "CANCELLED"}
ReservationStatus ==
  {"NONE", "PENDING_PAYMENT", "CONFIRMED", "CHECKED_IN", "SEATED",
   "COMPLETED", "NO_SHOW", "EXPIRED", "REFUND_PENDING"}
StripeEvent == {"completed", "expired", "declined"}
OperationAction == {"check-in", "seat", "complete", "no-show"}

\* The rows, as far as the properties tell them apart.
HoldRow == [status : HoldStatus, party : Nat, expiresAt : Nat]
AssignmentRow ==
  [status : AssignmentStatus, owner : {"HOLD", "RESERVATION"}, unit : SUBSET Tables]
ReservationRow ==
  [status : ReservationStatus, paymentExpiresAt : Nat \cup {NoDeadline}, version : Nat]
PaymentRow ==
  [status : PaymentStatus, attached : BOOLEAN, lastEvent : StripeEvent \cup {"none"}]
TableSessionRow ==
  [status : {"NONE", "OPEN", "CLOSED", "CANCELLED"}, at : SUBSET Tables]
OperationRequest == [target : Holds, action : OperationAction, version : Nat]

\* The reservation statuses that occupy seats, and a table, of the event.
Occupying == {"PENDING_PAYMENT", "CONFIRMED", "CHECKED_IN", "SEATED"}

Init ==
  /\ now = 0
  /\ eventStatus = "DRAFT" /\ inventory = {} /\ groups = {}
  /\ hold = [h \in Holds |-> [status |-> "NONE", party |-> 0, expiresAt |-> 0]]
  /\ assignment =
       [h \in Holds |-> [status |-> "NONE", owner |-> "HOLD", unit |-> {}]]
  /\ tableKeys = [h \in Holds |-> {}]
  /\ reservation =
       [h \in Holds |-> [status |-> "NONE", paymentExpiresAt |-> NoDeadline,
                         version |-> 0]]
  /\ payment = [p \in Payments |-> [status |-> "NONE", attached |-> FALSE,
                                    lastEvent |-> "none"]]
  /\ checkouts = {} /\ webhooks = {} /\ refundRequired = {}
  /\ stripeSession = [p \in Payments |-> "NONE"]
  /\ tableSession = [h \in Holds |-> [status |-> "NONE", at |-> {}]]
  /\ walkIns = {}
  /\ operation = [m \in Mutations |-> {}]
  /\ applied = {}

(***************************************************************************)
(* Inventory units.                                                        *)
(***************************************************************************)
UnitSeats(unit) == SumFunctionOnSet(Seats, unit)

\* The tables some assignment other than those in S keeps with an active key.
KeyedTables(S) == UNION {tableKeys[h] : h \in Holds \ S}

(***************************************************************************)
(* Releasing the assignments of S that belong to their hold, or to their   *)
(* reservation.  A trigger clears the keys of the physical tables whenever *)
(* an assignment goes from ACTIVE to RELEASED.                             *)
(***************************************************************************)
Releasable(h, owner) ==
  assignment[h].status = "ACTIVE" /\ assignment[h].owner = owner

Released(S, owner) ==
  [h \in Holds |-> IF h \in S /\ Releasable(h, owner)
                     THEN [assignment[h] EXCEPT !.status = "RELEASED"]
                     ELSE assignment[h]]

KeysCleared(S, owner) ==
  [h \in Holds |-> IF h \in S /\ Releasable(h, owner) THEN {}
                                                      ELSE tableKeys[h]]

Release(S, owner) ==
  /\ assignment' = Released(S, owner)
  /\ tableKeys' = KeysCleared(S, owner)

(***************************************************************************)
(* Deadlines and the booking window.                                       *)
(***************************************************************************)
HoldLapsed(h) == hold[h].status = "ACTIVE" /\ hold[h].expiresAt <= now
LapsedHolds == {h \in Holds : HoldLapsed(h)}

EventAcceptsHolds ==
  /\ eventStatus = "PUBLISHED"
  /\ BookingOpensAt <= now
  /\ now < BookingClosesAt
  /\ now < StartsAt

PaymentLapsed(h) ==
  reservation[h].paymentExpiresAt = NoDeadline
    \/ reservation[h].paymentExpiresAt <= now

(***************************************************************************)
(* Real time passes on its own.                                            *)
(***************************************************************************)
Tick ==
  /\ now < MaxTime
  /\ now' = now + 1
  /\ UNCHANGED <<inventoryVars, hold, allocationVars, reservation, paymentVars,
                 floorVars, operationVars>>
=============================================================================
