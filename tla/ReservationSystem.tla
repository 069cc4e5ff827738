-------------------------- MODULE ReservationSystem --------------------------
(***************************************************************************)
(* Event booking as a whole: the organiser, the customers, Stripe, the     *)
(* background worker, the Control Center operators and the POS, acting on  *)
(* one event in any order.                                                 *)
(***************************************************************************)
EXTENDS EventInventory, HoldEngine, ReservationPayments, ReservationOperations

Organiser ==
  \/ \E S \in SUBSET Tables : ReplaceTables(S) \/ MergeTables(S)
  \/ \E g \in groups : SplitGroup(g)
  \/ PublishEvent \/ CancelEvent \/ ArchiveEvent

Customer ==
  \E h \in Holds :
    \/ \E n \in MinPartySize .. MaxPartySize : CreateHold(h, n)
    \/ RepeatCreateHold(h) \/ GetHold(h) \/ CancelHold(h) \/ Convert(h)
    \/ \E k \in PayKeys : PrepareCheckout(h, k)

Checkout ==
  \E p \in Payments :
    CreateStripeSession(p) \/ AttachCheckoutSession(p) \/ LoseCheckout(p)

StripeSide ==
  \E p \in Payments : CustomerPays(p) \/ CardDeclined(p) \/ StripeSessionExpires(p)

Webhook ==
  \/ \E h \in Holds, k \in PayKeys : HandleCheckoutPaid(h, k)
  \/ \E p \in Payments : HandleCheckoutExpired(p) \/ HandlePaymentIntentFailed(p)

Operator ==
  \E m \in Mutations :
    \/ \E h \in Holds, a \in OperationAction : SubmitOperation(m, h, a)
    \/ ApplyOperation(m)

Pos ==
  \/ \E t \in WalkInTables : OpenTableSession(t) \/ FinishWalkIn(t)
  \/ \E h \in Holds :
       \/ \E next \in {"CLOSED", "CANCELLED"} : FinishReservationSession(h, next)
       \/ \E t \in Tables : MoveReservationSession(h, t)

Worker == ExpireHoldsJob \/ ExpirePaymentsJob

Next ==
  \/ Tick \/ Organiser \/ Customer \/ Checkout \/ StripeSide \/ Webhook
  \/ Operator \/ Pos \/ Worker

(***************************************************************************)
(* Time goes on, the worker's scheduler repeats both expiry jobs, and      *)
(* Stripe delivers the event of a completed checkout until it is accepted. *)
(* Nothing else is promised: customers, operators and organisers may stop. *)
(***************************************************************************)
Fairness ==
  /\ WF_vars(Tick)
  /\ WF_vars(ExpireHoldsJob)
  /\ WF_vars(ExpirePaymentsJob)
  /\ \A h \in Holds, k \in PayKeys : WF_vars(HandleCheckoutPaid(h, k))

Spec == Init /\ [][Next]_vars
FairSpec == Spec /\ Fairness

-----------------------------------------------------------------------------
\* Type invariant of the database state.
TypeOK ==
  /\ now \in 0 .. MaxTime
  /\ eventStatus \in EventStatus
  /\ inventory \in SUBSET SUBSET Tables /\ groups \in SUBSET SUBSET Tables
  /\ hold \in [Holds -> HoldRow]
  /\ assignment \in [Holds -> AssignmentRow]
  /\ tableKeys \in [Holds -> SUBSET Tables]
  /\ reservation \in [Holds -> ReservationRow]
  /\ payment \in [Payments -> PaymentRow]
  /\ checkouts \subseteq Payments \X CheckoutStep
  /\ stripeSession \in [Payments -> {"NONE", "OPEN", "PAID", "EXPIRED"}]
  /\ webhooks \subseteq Payments \X StripeEvent
  /\ refundRequired \subseteq Payments
  /\ tableSession \in [Holds -> TableSessionRow]
  /\ walkIns \subseteq Tables
  /\ operation \in [Mutations -> SUBSET OperationRequest]
  /\ applied \subseteq Mutations

-----------------------------------------------------------------------------
(***************************************************************************)
(* Tables.                                                                 *)
(***************************************************************************)
Allocated(h) == assignment[h].status = "ACTIVE"

(***************************************************************************)
(* No table is promised twice: the units of two ACTIVE assignments have no *)
(* table in common, whether they are single tables, groups merged or       *)
(* tables split while customers were booking.                              *)
(***************************************************************************)
NoSharedTable ==
  \A g, h \in Holds :
    g # h /\ Allocated(g) /\ Allocated(h) => assignment[g].unit \cap assignment[h].unit = {}

(***************************************************************************)
(* The keys that keep tables out of later searches are those of the ACTIVE *)
(* assignments: every release path clears them, none clears them early.    *)
(***************************************************************************)
KeysFollowAssignments ==
  \A h \in Holds : tableKeys[h] = IF Allocated(h) THEN assignment[h].unit ELSE {}

(***************************************************************************)
(* A table is kept exactly as long as somebody is entitled to it: by a     *)
(* hold while it is ACTIVE, then by its reservation while it waits for     *)
(* payment, is confirmed, or has its guests in the house.                  *)
(***************************************************************************)
LiveBookingsHoldTables ==
  \A h \in Holds :
    /\ hold[h].status = "ACTIVE" <=> Allocated(h) /\ assignment[h].owner = "HOLD"
    /\ reservation[h].status \in {"PENDING_PAYMENT", "CONFIRMED", "CHECKED_IN", "SEATED"}
         <=> Allocated(h) /\ assignment[h].owner = "RESERVATION"

(***************************************************************************)
(* The event is never overbooked: the guests of the holds that can still   *)
(* be converted and of the reservations with a table fit its capacity; and *)
(* what publication checked goes on holding, whatever is merged and split: *)
(* no table is on offer twice, and the seats on offer cover the capacity.  *)
(***************************************************************************)
GuestsPromised ==
  LET live == {h \in Holds : Allocated(h) /\ (assignment[h].owner = "HOLD" => ~HoldLapsed(h))}
  IN SumFunction([h \in live |-> hold[h].party])

CapacityRespected ==
  /\ GuestsPromised <= EventCapacity
  /\ \A u, v \in inventory : u # v => u \cap v = {}
  /\ eventStatus = "PUBLISHED" => InventorySeats >= EventCapacity

(***************************************************************************)
(* A party never outgrows the table it was promised, and that table (or    *)
(* group) is on offer, unchanged, for as long as the booking lasts: merges *)
(* and splits after publication leave booked units alone.                  *)
(***************************************************************************)
BookedUnitsStayOffered ==
  \A h \in Holds :
    Allocated(h) => /\ assignment[h].unit \in inventory
                    /\ hold[h].party <= UnitSeats(assignment[h].unit)

(***************************************************************************)
(* The two promises to customers that tables carry, whatever is merged,    *)
(* split, booked and released in any order: a table is booked once, as     *)
(* those who look for a free one see it; and what was sold can be seated,  *)
(* each party at what it was promised and all of them in the house.        *)
(***************************************************************************)
TablesAreBookedOnce == NoSharedTable /\ KeysFollowAssignments
UnitsAreHonoured == CapacityRespected /\ BookedUnitsStayOffered

(***************************************************************************)
(* A group whose tables are free can be split while the inventory may      *)
(* change; assignments that were released keep their history in snapshots  *)
(* (event-table-group-history.spec.ts).                                    *)
(***************************************************************************)
ReleasedGroupsCanBeSplit ==
  \A g \in groups : InventoryMutable /\ Unassigned(g) => SplitAllowed(g)

-----------------------------------------------------------------------------
(***************************************************************************)
(* Payments.                                                               *)
(***************************************************************************)
Served == {"CONFIRMED", "CHECKED_IN", "SEATED", "COMPLETED", "NO_SHOW"}
PaidAttempts(h) == {k \in PayKeys : payment[<<h, k>>].status = "PAID"}

(***************************************************************************)
(* Money and bookings agree whatever order checkouts, expiry, webhooks and *)
(* their redeliveries come in: a booking of a paid event is served for     *)
(* exactly one payment that is not owed back, one that waits or expired    *)
(* has collected nothing, and one that must be refunded has asked for it.  *)
(***************************************************************************)
PaymentsMatchBookings ==
  BookingAmount > 0 =>
    \A h \in Holds :
      LET owedBack == {k \in PayKeys : <<h, k>> \in refundRequired} IN
      /\ reservation[h].status \in Served =>
           Cardinality(PaidAttempts(h)) = 1 /\ owedBack = {}
      /\ reservation[h].status \in {"NONE", "PENDING_PAYMENT", "EXPIRED"} =>
           PaidAttempts(h) = {}
      /\ reservation[h].status = "REFUND_PENDING" =>
           owedBack # {} /\ Cardinality(PaidAttempts(h) \ owedBack) <= 1

(***************************************************************************)
(* A payment received after the deadline or after the table was released   *)
(* puts the reservation in REFUND_PENDING (stripe-reservation-payments.md, *)
(* "Pagamento tardivo"): no other payment takes a table away.              *)
(***************************************************************************)
OnlyLatePaymentsAreRefunded ==
  [][\A h \in Holds :
       reservation[h].status # "REFUND_PENDING" /\ reservation'[h].status = "REFUND_PENDING"
         => ~Allocated(h) \/ hold[h].expiresAt <= now]_vars

(***************************************************************************)
(* Everything is settled in the end, whatever the customer and Stripe do   *)
(* or fail to do.  Nobody keeps a table without paying: its assignment is  *)
(* released or the reservation is paid.  Money that Stripe has collected   *)
(* ends up recorded, and serves the booking or is owed back: a failure     *)
(* event that arrives late, or again, does not hide it.                    *)
(***************************************************************************)
UnpaidTablesReturn ==
  \A h \in Holds :
    Allocated(h) ~> ~Allocated(h) \/ reservation[h].status \in Served
CollectedMoneySettles ==
  \A p \in Payments :
    stripeSession[p] = "PAID" ~>
      [](/\ payment[p].status = "PAID"
         /\ p \in refundRequired \/ reservation[p[1]].status \in Served \cup {"REFUND_PENDING"})
BookingsAreSettled == UnpaidTablesReturn /\ CollectedMoneySettles

-----------------------------------------------------------------------------
(***************************************************************************)
(* Guests in the house.                                                    *)
(***************************************************************************)
OpenSessions == {h \in Holds : tableSession[h].status = "OPEN"}

(***************************************************************************)
(* A physical table has one party at a time: check-ins, walk-ins and moves *)
(* never seat two open sessions at the same table.  Guests who checked in  *)
(* have a session; a reservation is completed after its session is closed; *)
(* and while the session of a free event is open its reservation still     *)
(* holds its table.                                                        *)
(***************************************************************************)
OnePartyPerTable ==
  \A h \in OpenSessions :
    /\ tableSession[h].at \cap walkIns = {}
    /\ \A g \in OpenSessions \ {h} : tableSession[g].at \cap tableSession[h].at = {}

SessionsFollowReservations ==
  \A h \in Holds :
    /\ reservation[h].status \in {"CHECKED_IN", "SEATED"} => tableSession[h].status # "NONE"
    /\ reservation[h].status = "COMPLETED" => tableSession[h].status = "CLOSED"
    /\ BookingAmount = 0 /\ h \in OpenSessions =>
         Allocated(h) /\ reservation[h].status \in {"CHECKED_IN", "SEATED"}

GuestsAreSeated == OnePartyPerTable /\ SessionsFollowReservations

(***************************************************************************)
(* Two operators who read the same version of a reservation never both get *)
(* their way, and neither does an operator whose screen a webhook or the   *)
(* worker has made stale.                                                  *)
(***************************************************************************)
OneWinnerPerVersion ==
  /\ \A m, n \in applied : \A r \in operation[m], q \in operation[n] :
       m # n /\ r.target = q.target => r.version # q.version
  /\ \A m \in applied : \A r \in operation[m] : r.version < reservation[r.target].version

(***************************************************************************)
(* Versions count the changes: no path changes a reservation's status and  *)
(* leaves its version, which would let a stale operator through.           *)
(***************************************************************************)
EveryChangeBumpsVersion ==
  [][\A h \in Holds :
       reservation'[h].status # reservation[h].status =>
         reservation'[h].version = reservation[h].version + 1]_vars

-----------------------------------------------------------------------------
(***************************************************************************)
(* The inductive invariant behind the table properties.  Its parts: a      *)
(* booking begins with a hold and is given tables once; a reservation      *)
(* comes from a converted hold; and whatever exists of a payment - its     *)
(* row, its checkout, its session, its events - belongs to a reservation.  *)
(***************************************************************************)
BookingsBeginWithHolds ==
  \A h \in Holds :
    /\ hold[h].status = "NONE" <=> assignment[h].status = "NONE"
    /\ Allocated(h) => assignment[h].unit # {}
    /\ reservation[h].status # "NONE" => hold[h].status = "CONVERTED"

PaymentStarted(h, k) ==
  LET p == <<h, k>> IN
  \/ payment[p].status # "NONE" \/ stripeSession[p] # "NONE"
  \/ \E step \in CheckoutStep : <<p, step>> \in checkouts
  \/ \E event \in StripeEvent : <<p, event>> \in webhooks

PaymentsHaveReservations ==
  \A h \in Holds, k \in PayKeys :
    PaymentStarted(h, k) => reservation[h].status # "NONE"

TableInv ==
  /\ KeysFollowAssignments
  /\ NoSharedTable
  /\ LiveBookingsHoldTables
  /\ BookingsBeginWithHolds

AllocationInv == TableInv /\ PaymentsHaveReservations

-----------------------------------------------------------------------------
\* The promise of TableAllocation, kept by all of the above together.
TablesHeld == [h \in Holds |-> IF Allocated(h) THEN assignment[h].unit ELSE {}]
GivenBack == {h \in Holds : assignment[h].status = "RELEASED"}

Allocation ==
  INSTANCE TableAllocation WITH Bookings <- Holds, held <- TablesHeld, over <- GivenBack

(***************************************************************************)
(* Bookings take free tables, keep all of them, give all back once and     *)
(* never regain one: holds, payments, expiry and operators implement       *)
(* TableAllocation.                                                        *)
(***************************************************************************)
AllocationSpec == Allocation!Spec
=============================================================================
