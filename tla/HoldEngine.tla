----------------------------- MODULE HoldEngine -----------------------------
(***************************************************************************)
(* The booking engine: holds that keep a table for a customer for          *)
(* HoldTicks, their conversion into reservations, and the background       *)
(* worker that expires holds and unpaid reservations.                      *)
(***************************************************************************)
EXTENDS BookingState

(***************************************************************************)
(* Mistakes this code could contain and does not: each, in the place of    *)
(* the definition it is a variant of, makes a property fail.               *)
(***************************************************************************)
\* The sweep of createHold forgets that a hold may have been converted.
CandidatesPastAnyDeadline(n, S) ==
  {u \in inventory :
     /\ UnitSeats(u) >= n
     /\ u \cap KeyedTables({h \in Holds : hold[h].expiresAt <= now}) = {}}

\* Only unpaid reservations count against the capacity.
TakenSeatsUnpaid(h) ==
  IF /\ assignment[h].status = "ACTIVE"
     /\ ~HoldLapsed(h)
     /\ reservation[h].status # "CONFIRMED"
    THEN hold[h].party ELSE 0

\* An idempotency key is free again when its hold is over.
KeyOfNoLiveHold(h) == hold[h].status # "ACTIVE"

\* A hold is marked with the status of its assignment.
MarkedReleased(S) ==
  [h \in Holds |-> IF h \in S THEN [hold[h] EXCEPT !.status = "RELEASED"] ELSE hold[h]]

\* The worker spares the reservations whose customer has opened a checkout.
UnpaidWithoutCheckout ==
  {h \in Holds : /\ reservation[h].status = "PENDING_PAYMENT"
                 /\ PaymentLapsed(h)
                 /\ \A k \in PayKeys : ~payment[<<h, k>>].attached}

-----------------------------------------------------------------------------
(***************************************************************************)
(* Seats taken: the live holds and the reservations that occupy the event, *)
(* as seen through their ACTIVE assignments.                               *)
(***************************************************************************)
TakenSeats(h) ==
  LET occupies == IF assignment[h].owner = "HOLD"
                    THEN hold[h].status = "ACTIVE" /\ ~ HoldLapsed(h)
                    ELSE reservation[h].status \in Occupying
  IN IF assignment[h].status = "ACTIVE" /\ occupies THEN hold[h].party ELSE 0

OccupiedCapacity == SumFunction([h \in Holds |-> TakenSeats(h)])

\* Units with room for n guests and no table keyed outside the holds of S.
Candidates(n, S) ==
  {u \in inventory : UnitSeats(u) >= n /\ u \cap KeyedTables(S) = {}}

\* The engine takes the smallest unit; creation time breaks ties.
SmallestCandidates(n, S) ==
  {u \in Candidates(n, S) : \A v \in Candidates(n, S) : UnitSeats(u) <= UnitSeats(v)}

Expired(S) == [h \in Holds |-> IF h \in S THEN [hold[h] EXCEPT !.status = "EXPIRED"]
                                          ELSE hold[h]]

ExpireHolds(S) == hold' = Expired(S) /\ Release(S, "HOLD")

\* No hold of the event, in whatever status, was created with this key.
IsNewKey(h) == hold[h].status = "NONE"

Elsewhere == UNCHANGED <<now, inventoryVars, paymentVars, floorVars, operationVars>>

\* The hold of a party of n, and the unit of tables that is assigned to it.
TakeUnit(h, n, unit) ==
  /\ hold' = [Expired(LapsedHolds) EXCEPT ![h] =
                [status |-> "ACTIVE", party |-> n, expiresAt |-> now + HoldTicks]]
  /\ assignment' = [Released(LapsedHolds, "HOLD") EXCEPT ![h] =
                      [status |-> "ACTIVE", owner |-> "HOLD", unit |-> unit]]
  /\ tableKeys' = [KeysCleared(LapsedHolds, "HOLD") EXCEPT ![h] = unit]

(***************************************************************************)
(* createHold with a new idempotency key.  Lapsed holds of the event are   *)
(* expired first; a refusal rolls that back too.                           *)
(***************************************************************************)
CreateHold(h, n) ==
  /\ EventAcceptsHolds
  /\ n \in MinPartySize .. MaxPartySize
  /\ IsNewKey(h)
  /\ EventCapacity - OccupiedCapacity >= n
  /\ \E unit \in SmallestCandidates(n, LapsedHolds) :
       unit # {} /\ TakeUnit(h, n, unit)
  /\ UNCHANGED reservation
  /\ Elsewhere

\* createHold repeated with the same key and request: only the sweep remains.
RepeatCreateHold(h) ==
  /\ EventAcceptsHolds
  /\ ~IsNewKey(h)
  /\ ExpireHolds(LapsedHolds)
  /\ UNCHANGED reservation
  /\ Elsewhere

\* getHold, also the last step of createHold, expires the hold it reads.
GetHold(h) ==
  /\ HoldLapsed(h)
  /\ ExpireHolds({h})
  /\ UNCHANGED reservation
  /\ Elsewhere

\* cancelHold: the customer gives the table back; a lapsed hold expires instead.
CancelHold(h) ==
  /\ hold[h].status = "ACTIVE"
  /\ IF HoldLapsed(h)
       THEN ExpireHolds({h})
       ELSE /\ hold' = [hold EXCEPT ![h].status = "CANCELLED"]
            /\ Release({h}, "HOLD")
  /\ UNCHANGED reservation
  /\ Elsewhere

(***************************************************************************)
(* convert: the assignment passes from the hold to the new reservation,    *)
(* which inherits the deadline of the hold unless nothing is due.          *)
(***************************************************************************)
NewReservation(h) ==
  [status |-> IF BookingAmount = 0 THEN "CONFIRMED" ELSE "PENDING_PAYMENT",
   paymentExpiresAt |-> IF BookingAmount = 0 THEN NoDeadline ELSE hold[h].expiresAt,
   version |-> 1]

\* The table passes from the hold to the reservation, and the hold is over.
PassOn(h) ==
  /\ assignment' = [assignment EXCEPT ![h].owner = "RESERVATION"]
  /\ hold' = [hold EXCEPT ![h].status = "CONVERTED"]
  /\ UNCHANGED tableKeys

Convert(h) ==
  /\ hold[h].status = "ACTIVE" /\ ~HoldLapsed(h)
  /\ EventAcceptsHolds
  /\ Releasable(h, "HOLD")
  /\ reservation' = [reservation EXCEPT ![h] = NewReservation(h)]
  /\ PassOn(h)
  /\ Elsewhere

(***************************************************************************)
(* The expiry jobs.  Each transaction takes a batch of the rows that are   *)
(* due, skipping those another transaction has locked.                     *)
(***************************************************************************)
ExpireHoldsJob ==
  /\ \E S \in SUBSET LapsedHolds : S # {} /\ ExpireHolds(S)
  /\ UNCHANGED reservation
  /\ Elsewhere

UnpaidReservations ==
  {h \in Holds : /\ reservation[h].status = "PENDING_PAYMENT"
                 /\ reservation[h].paymentExpiresAt # NoDeadline
                 /\ PaymentLapsed(h)}

TimedOut(h) == [status |-> "EXPIRED", paymentExpiresAt |-> NoDeadline,
                version |-> reservation[h].version + 1]

ExpirePaymentsJob ==
  /\ \E S \in SUBSET UnpaidReservations :
       /\ S # {}
       /\ reservation' =
            [h \in Holds |-> IF h \in S THEN TimedOut(h) ELSE reservation[h]]
       /\ Release(S, "RESERVATION")
  /\ UNCHANGED hold
  /\ Elsewhere
=============================================================================
