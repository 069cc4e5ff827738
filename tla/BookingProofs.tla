--------------------------- MODULE BookingProofs ----------------------------
(***************************************************************************)
(* Further theorems about ReservationSystem that rest on AllocationInv of  *)
(* ReservationProofs: units, seats, versions, money and guests.            *)
(***************************************************************************)
EXTENDS ReservationProofs, SumTheorems

-----------------------------------------------------------------------------
(***************************************************************************)
(* Merging and splitting tables after publication never touches a unit     *)
(* somebody has booked.                                                    *)
(*                                                                         *)
(* A merge or a split looks at the keys of the physical tables only; that  *)
(* those are the tables of the ACTIVE assignments is KeysFollowAssignments.*)
(* The tables of a draft are replaced without looking at assignments at    *)
(* all, which is right because a draft has no holds (DraftsAreUnbooked).   *)
(***************************************************************************)
DraftsAreUnbooked ==
  eventStatus = "DRAFT" => \A h \in Holds : hold[h].status = "NONE"

BookedInv == BookedUnitsStayOffered /\ DraftsAreUnbooked

(***************************************************************************)
(* The organiser's steps: the bookings stay, and their units with them.    *)
(***************************************************************************)
LEMMA OrganiserKeepsUnits ==
  ASSUME TypeOK, AllocationInv, BookedInv, Organiser
  PROVE  \A h \in Holds : Allocated(h) => assignment[h].unit \in inventory'
<1> SUFFICES ASSUME NEW h \in Holds, Allocated(h) PROVE assignment[h].unit \in inventory'
  OBVIOUS
<1> DEFINE unit == assignment[h].unit
<1>1. unit \in inventory /\ unit # {} /\ unit = tableKeys[h] /\ eventStatus # "DRAFT"
  BY DEF BookedInv, BookedUnitsStayOffered, DraftsAreUnbooked, AllocationInv, TableInv,
         KeysFollowAssignments, BookingsBeginWithHolds, Allocated
<1>2. ASSUME NEW S, Unassigned(S) PROVE S \cap unit = {}
  BY <1>1, <1>2 DEF Unassigned, KeyedTables
<1> HIDE DEF unit
<1>3. ASSUME NEW S \in SUBSET Tables, ReplaceTables(S) PROVE unit \in inventory'
  BY <1>1, <1>3 DEF ReplaceTables
<1>4. ASSUME NEW S \in SUBSET Tables, MergeTables(S) PROVE unit \in inventory'
  <2>1. S \cap unit = {}
    BY <1>2, <1>4 DEF MergeTables
  <2> QED
    BY <1>1, <1>4, <2>1 DEF MergeTables
<1>5. ASSUME NEW g \in groups, SplitGroup(g) PROVE unit \in inventory'
  <2>1. g \cap unit = {}
    BY <1>2, <1>5 DEF SplitGroup, SplitAllowed
  <2> QED
    BY <1>1, <1>5, <2>1 DEF SplitGroup
<1>6. ASSUME PublishEvent \/ CancelEvent \/ ArchiveEvent PROVE unit \in inventory'
  BY <1>1, <1>6 DEF PublishEvent, CancelEvent, ArchiveEvent
<1>7. unit \in inventory'
  BY <1>3, <1>4, <1>5, <1>6 DEF Organiser
<1> QED
  BY <1>7 DEF unit

\* The organiser makes no bookings and keeps the units of those there are.
LEMMA OrganiserKeepsBooked ==
  ASSUME TypeOK, AllocationInv, BookedInv, Organiser
  PROVE  BookedInv'
<1>1. hold' = hold /\ assignment' = assignment
  BY OtherStepsKeep DEF BookingsUntouched, allocationVars
<1>2. eventStatus' = "DRAFT" => eventStatus = "DRAFT"
  BY DEF Organiser, ReplaceTables, MergeTables, SplitGroup, PublishEvent, CancelEvent,
         ArchiveEvent
<1>3. BookedUnitsStayOffered'
  BY <1>1, OrganiserKeepsUnits DEF BookedInv, BookedUnitsStayOffered, Allocated
<1>4. DraftsAreUnbooked'
  BY <1>1, <1>2 DEF BookedInv, DraftsAreUnbooked
<1> QED
  BY <1>3, <1>4 DEF BookedInv

(***************************************************************************)
(* A new hold is given a unit on offer with room for its guests.           *)
(***************************************************************************)
LEMMA CreateHoldKeepsBooked ==
  ASSUME TypeOK, AllocationInv, BookedInv,
         NEW h \in Holds, NEW n \in MinPartySize .. MaxPartySize, CreateHold(h, n)
  PROVE  BookedInv'
<1>1. PICK unit \in SmallestCandidates(n, LapsedHolds) :
        /\ hold' = [Expired(LapsedHolds) EXCEPT ![h] =
                      [status |-> "ACTIVE", party |-> n, expiresAt |-> now + HoldTicks]]
        /\ assignment' = [Released(LapsedHolds, "HOLD") EXCEPT ![h] =
                            [status |-> "ACTIVE", owner |-> "HOLD", unit |-> unit]]
  BY DEF CreateHold, TakeUnit
<1>2. unit \in inventory /\ n <= UnitSeats(unit)
  BY DEF SmallestCandidates, Candidates
<1>3. hold'[h].party = n /\ assignment'[h].unit = unit
  BY <1>1, ExpiredType, ReleasedType
<1>4. ASSUME NEW g \in Holds \ {h}
      PROVE  /\ hold'[g].party = hold[g].party /\ assignment'[g].unit = assignment[g].unit
             /\ Allocated(g)' => Allocated(g)
  <2>1. hold[g] \in HoldRow
    BY DEF TypeOK
  <2>2. hold'[g] = Expired(LapsedHolds)[g] /\ assignment'[g] = Released(LapsedHolds, "HOLD")[g]
    BY <1>1 DEF Expired, Released
  <2>3. Expired(LapsedHolds)[g].party = hold[g].party
    BY <2>1 DEF Expired, HoldRow
  <2> QED
    BY <2>2, <2>3, ReleaseFacts DEF Allocated, Releasable
<1>5. inventory' = inventory /\ eventStatus' = "PUBLISHED"
  BY DEF CreateHold, TakeUnit, EventAcceptsHolds, Elsewhere, inventoryVars
<1>6. BookedUnitsStayOffered'
  BY <1>2, <1>3, <1>4, <1>5 DEF BookedInv, BookedUnitsStayOffered
<1> QED
  BY <1>5, <1>6 DEF BookedInv, DraftsAreUnbooked

(***************************************************************************)
(* Every other step makes no hold and no assignment: parties, deadlines    *)
(* and units stay, and an assignment passes to its reservation only while  *)
(* the hold has not lapsed.                                                *)
(***************************************************************************)
NothingNew(h) ==
  /\ hold'[h].party = hold[h].party /\ hold'[h].expiresAt = hold[h].expiresAt
  /\ assignment'[h].unit = assignment[h].unit
  /\ Allocated(h)' => Allocated(h)
  /\ hold[h].status = "NONE" => hold'[h].status = "NONE"
  /\ assignment'[h].owner = assignment[h].owner \/ ~HoldLapsed(h)

\* Steps that book nothing and leave the inventory alone.
LEMMA NothingNewKeepsBooked ==
  ASSUME BookedInv, UNCHANGED inventoryVars, \A h \in Holds : NothingNew(h)
  PROVE  BookedInv'
<1>1. BookedUnitsStayOffered'
  BY DEF BookedInv, BookedUnitsStayOffered, NothingNew, inventoryVars
<1>2. DraftsAreUnbooked'
  BY DEF BookedInv, DraftsAreUnbooked, NothingNew, inventoryVars
<1> QED
  BY <1>1, <1>2 DEF BookedInv

\* A release books nothing.
LEMMA ReleaseMakesNothing ==
  ASSUME TypeOK, NEW S, NEW owner, Release(S, owner), NEW h \in Holds,
         \/ hold'[h] = hold[h]
         \/ /\ hold[h].status = "ACTIVE"
            /\ hold'[h].party = hold[h].party /\ hold'[h].expiresAt = hold[h].expiresAt
  PROVE  NothingNew(h)
BY ReleaseFacts DEF NothingNew, Release, Allocated, Releasable

\* An expiry of holds books nothing.
LEMMA ExpireHoldsMakesNothing ==
  ASSUME TypeOK, NEW S \in SUBSET LapsedHolds, ExpireHolds(S), NEW h \in Holds
  PROVE  NothingNew(h)
<1>1. hold[h] \in HoldRow
  BY DEF TypeOK
<1>2. \/ hold'[h] = hold[h]
      \/ /\ hold[h].status = "ACTIVE"
         /\ hold'[h].party = hold[h].party /\ hold'[h].expiresAt = hold[h].expiresAt
  BY <1>1 DEF ExpireHolds, Expired, LapsedHolds, HoldLapsed, HoldRow
<1> QED
  BY <1>2, ReleaseMakesNothing DEF ExpireHolds

\* Of the operations on holds only a new hold books something.
LEMMA HoldStepsMakeNothing ==
  ASSUME TypeOK, NEW h \in Holds,
         RepeatCreateHold(h) \/ GetHold(h) \/ CancelHold(h) \/ Convert(h)
  PROVE  \A g \in Holds : NothingNew(g)
<1>2. ASSUME RepeatCreateHold(h) \/ GetHold(h) \/ (CancelHold(h) /\ HoldLapsed(h))
      PROVE  \A g \in Holds : NothingNew(g)
  <2>1. PICK S \in SUBSET LapsedHolds : ExpireHolds(S)
    BY <1>2 DEF RepeatCreateHold, GetHold, CancelHold, LapsedHolds
  <2> QED
    BY <2>1, ExpireHoldsMakesNothing
<1>3. ASSUME CancelHold(h), ~HoldLapsed(h) PROVE \A g \in Holds : NothingNew(g)
  <2>1. hold[h] \in HoldRow /\ hold \in [Holds -> HoldRow]
    BY DEF TypeOK
  <2>2. ASSUME NEW g \in Holds
        PROVE  \/ hold'[g] = hold[g]
               \/ /\ hold[g].status = "ACTIVE"
                  /\ hold'[g].party = hold[g].party /\ hold'[g].expiresAt = hold[g].expiresAt
    BY <1>3, <2>1 DEF CancelHold, HoldRow
  <2> QED
    BY <1>3, <2>2, ReleaseMakesNothing DEF CancelHold
<1>4. ASSUME Convert(h) PROVE \A g \in Holds : NothingNew(g)
  <2>1. hold[h] \in HoldRow /\ hold[h].status = "ACTIVE" /\ ~HoldLapsed(h)
    BY <1>4 DEF TypeOK, Convert, NewReservation, PassOn
  <2>2. hold'[h].party = hold[h].party /\ hold'[h].expiresAt = hold[h].expiresAt
    BY <1>4, <2>1 DEF Convert, NewReservation, PassOn, TypeOK, HoldRow
  <2> QED
    BY <1>4, <2>1, <2>2, ConvertFacts DEF NothingNew, Allocated
<1> QED
  BY <1>2, <1>3, <1>4

\* By the parts of the system: only a new hold books something.
LEMMA OnlyNewHoldsBook ==
  ASSUME TypeOK, AllocationInv, [Next]_vars
  PROVE  \/ \E h \in Holds, n \in MinPartySize .. MaxPartySize : CreateHold(h, n)
         \/ \A h \in Holds : NothingNew(h)
<1> DEFINE Goal == \/ \E h \in Holds, n \in MinPartySize .. MaxPartySize : CreateHold(h, n)
                   \/ \A h \in Holds : NothingNew(h)
<1>1. ASSUME UNCHANGED <<hold, allocationVars>> PROVE Goal
  BY <1>1 DEF NothingNew, allocationVars, Allocated
<1>2. ASSUME UNCHANGED hold, NEW S, NEW owner, Release(S, owner) PROVE Goal
  BY <1>2, ReleaseMakesNothing
<1>3. CASE Tick \/ Organiser \/ Pos
  BY <1>1, <1>3, OtherStepsKeep DEF BookingsUntouched
<1>4. CASE Customer
  <2>1. ASSUME NEW h \in Holds, NEW k \in PayKeys, PrepareCheckout(h, k) PROVE Goal
    BY <1>1, <2>1 DEF PrepareCheckout, ElsewhereThanPayments
  <2> QED
    BY <1>4, <2>1, HoldStepsMakeNothing DEF Customer
<1>5. CASE Checkout \/ StripeSide
  BY <1>1, <1>5, PaymentStepsKeep DEF Checkout, StripeSide, Payments, BookingsUntouched
<1>6. CASE Webhook
  <2>1. ASSUME NEW h \in Holds, NEW k \in PayKeys, HandleCheckoutPaid(h, k) PROVE Goal
    <3>1. UNCHANGED hold
      BY <2>1 DEF HandleCheckoutPaid, BookedOrOwed, ElsewhereThanPayments
    <3>2. Release({h}, "RESERVATION") \/ UNCHANGED allocationVars
      BY <2>1 DEF HandleCheckoutPaid, BookedOrOwed, allocationVars
    <3> QED
      BY <1>1, <1>2, <3>1, <3>2
  <2> QED
    BY <1>1, <1>6, <2>1, PaymentStepsKeep DEF Webhook, Payments, BookingsUntouched
<1>7. CASE Operator
  <2>1. ASSUME NEW m \in Mutations, ApplyOperation(m) PROVE Goal
    <3>1. UNCHANGED hold
      BY <2>1 DEF ApplyOperation
    <3>2. UNCHANGED allocationVars \/ \E h \in Holds : Release({h}, "RESERVATION")
      BY <2>1, ApplyFacts
    <3> QED
      BY <1>1, <1>2, <3>1, <3>2
  <2> QED
    BY <1>1, <1>7, <2>1, OtherStepsKeep DEF Operator, BookingsUntouched
<1>8. CASE Worker
  <2>1. CASE ExpireHoldsJob
    BY <2>1, ExpireHoldsMakesNothing DEF ExpireHoldsJob
  <2>2. CASE ExpirePaymentsJob
    BY <1>2, <2>2 DEF ExpirePaymentsJob
  <2> QED
    BY <1>8, <2>1, <2>2 DEF Worker
<1>9. CASE UNCHANGED vars
  BY <1>1, <1>9 DEF vars
<1> QED
  BY <1>3, <1>4, <1>5, <1>6, <1>7, <1>8, <1>9 DEF Next

\* Only the organiser changes what is on offer, and the clock does not go back.
LEMMA OnlyOrganisersChangeTables ==
  ASSUME TypeOK, AllocationInv, [Next]_vars
  PROVE  /\ Organiser \/ UNCHANGED inventoryVars
         /\ now' \in {now, now + 1}
<1> USE DEF Elsewhere, ElsewhereThanPayments, ElsewhereThanFloor
<1>1. CASE Tick \/ UNCHANGED vars
  BY <1>1 DEF Tick, vars
<1>2. CASE Organiser
  BY <1>2 DEF Organiser, ReplaceTables, MergeTables, SplitGroup, PublishEvent, CancelEvent,
              ArchiveEvent, Untouched
<1>3. CASE Customer
  BY <1>3 DEF Customer, CreateHold, TakeUnit, RepeatCreateHold, GetHold, CancelHold, Convert, NewReservation, PassOn,
              PrepareCheckout
<1>4. CASE Checkout \/ StripeSide
  BY <1>4 DEF Checkout, CreateStripeSession, AttachCheckoutSession, LoseCheckout,
              StripeSide, CustomerPays, CardDeclined, StripeSessionExpires, StripeMoves
<1>5. CASE Webhook
  BY <1>5 DEF Webhook, HandleCheckoutPaid, BookedOrOwed, HandleCheckoutExpired, HandlePaymentIntentFailed,
              MarkPaymentAttemptFailed
<1>6. CASE Operator \/ Pos
  BY <1>6 DEF Operator, SubmitOperation, ApplyOperation, Pos, OpenTableSession, FinishWalkIn,
              FinishReservationSession, MoveReservationSession
<1>7. CASE Worker
  BY <1>7 DEF Worker, ExpireHoldsJob, ExpirePaymentsJob
<1> QED
  BY <1>1, <1>2, <1>3, <1>4, <1>5, <1>6, <1>7 DEF Next

\* The inductive step.
LEMMA NextBookedInv ==
  ASSUME TypeOK, AllocationInv, BookedInv, [Next]_vars
  PROVE  BookedInv'
BY OnlyNewHoldsBook, OnlyOrganisersChangeTables, CreateHoldKeepsBooked,
   NothingNewKeepsBooked, OrganiserKeepsBooked

(***************************************************************************)
(* A booked unit is on offer, unchanged and large enough for its party,    *)
(* for as long as the booking keeps it: no merge, split or replacement of  *)
(* tables takes it away.                                                   *)
(***************************************************************************)
THEOREM BookedUnitsNeverChange == Spec => []BookedUnitsStayOffered
<1>1. Init => BookedInv
  BY DEF Init, BookedInv, BookedUnitsStayOffered, DraftsAreUnbooked, Allocated
<1>2. TypeOK /\ AllocationInv /\ BookedInv /\ [Next]_vars => BookedInv'
  BY NextBookedInv
<1>3. BookedInv => BookedUnitsStayOffered
  BY DEF BookedInv
<1> QED
  BY <1>1, <1>2, <1>3, AllocationInvariant, PTL DEF Spec
-----------------------------------------------------------------------------
(***************************************************************************)
(* The capacity of the event.  That the seats on offer survive merges and  *)
(* splits rests on what a unit is: a table by itself, or one of the event's*)
(* groups, and no table is in two groups (also of those whose unit a       *)
(* replacement of the tables has removed).                                 *)
(***************************************************************************)
GroupsShareNoTable == \A g, k \in groups : g # k => g \cap k = {}

UnitsAreTablesOrGroups == \A u \in inventory : u \in groups \/ \E t \in Tables : u = {t}

UnitsInv ==
  /\ GroupsShareNoTable
  /\ UnitsAreTablesOrGroups
  /\ \A u, v \in inventory : u # v => u \cap v = {}

CapacityInv == UnitsInv /\ CapacityRespected

\* The seats on offer are those of the tables on offer.
LEMMA SeatsOfTables ==
  ASSUME TypeOK, UnitsInv
  PROVE  InventorySeats = SumFunctionOnSet(Seats, UNION inventory)
<1> DEFINE seats == [u \in inventory |-> UnitSeats(u)]
<1>1. \A u \in inventory : seats[u] = SumFunctionOnSet(Seats, u)
  BY DEF UnitSeats
<1>2. IsFiniteSet(Tables) /\ \A t \in Tables : Seats[t] \in Int
  BY BookingAssumption
<1>3. InventorySeats = SumFunctionOnSet(seats, inventory)
  BY DEF InventorySeats, SumFunction
<1>4. inventory \in SUBSET (SUBSET Tables) /\ \A u, v \in inventory : u # v => u \cap v = {}
  BY DEF TypeOK, UnitsInv
<1> HIDE DEF seats
<1> QED
  BY <1>1, <1>2, <1>3, <1>4, SumOfUnion

\* The same of the next state.
LEMMA SeatsOfTablesNext ==
  ASSUME TypeOK', UnitsInv'
  PROVE  InventorySeats' = SumFunctionOnSet(Seats, UNION inventory')
<1> DEFINE seats == [u \in inventory' |-> UnitSeats(u)]
<1>1. \A u \in inventory' : seats[u] = SumFunctionOnSet(Seats, u)
  BY DEF UnitSeats
<1>2. IsFiniteSet(Tables) /\ \A t \in Tables : Seats[t] \in Int
  BY BookingAssumption
<1>3. InventorySeats' = SumFunctionOnSet(seats, inventory')
  BY DEF InventorySeats, SumFunction, UnitSeats
<1>4. inventory' \in SUBSET (SUBSET Tables) /\ \A u, v \in inventory' : u # v => u \cap v = {}
  BY DEF TypeOK, UnitsInv
<1> HIDE DEF seats
<1> QED
  BY <1>1, <1>2, <1>3, <1>4, SumOfUnion

\* More tables on offer, no fewer seats.
LEMMA SeatsGrow ==
  ASSUME TypeOK, UnitsInv, TypeOK', UnitsInv', UNION inventory \subseteq UNION inventory',
         InventorySeats >= EventCapacity
  PROVE  InventorySeats' >= EventCapacity
<1> DEFINE old == UNION inventory
           new == UNION inventory'
<1>1. old \in SUBSET new /\ new \in SUBSET Tables
  BY DEF TypeOK
<1>2. IsFiniteSet(new) /\ IsFiniteSet(old)
  BY <1>1, BookingAssumption, FS_Subset
<1>3. \A t \in new : Seats[t] \in Nat
  BY <1>1, BookingAssumption
<1>4. InventorySeats = SumFunctionOnSet(Seats, old)
      /\ InventorySeats' = SumFunctionOnSet(Seats, new)
  BY SeatsOfTables, SeatsOfTablesNext
<1> HIDE DEF old, new
<1>5. SumFunctionOnSet(Seats, old) <= SumFunctionOnSet(Seats, new)
  BY <1>1, <1>2, <1>3, SumSubset
<1>6. SumFunctionOnSet(Seats, old) \in Nat /\ SumFunctionOnSet(Seats, new) \in Nat
  BY <1>1, <1>2, <1>3, SumIsNat
<1> QED
  BY <1>4, <1>5, <1>6, BookingAssumption

(***************************************************************************)
(* The organiser's steps keep the units apart.                             *)
(***************************************************************************)
LEMMA OrganiserKeepsUnitsApart ==
  ASSUME TypeOK, UnitsInv, Organiser
  PROVE  UnitsInv'
<1> USE DEF UnitsInv, GroupsShareNoTable, UnitsAreTablesOrGroups
<1>1. ASSUME NEW S \in SUBSET Tables, ReplaceTables(S) PROVE UnitsInv'
  <2>1. inventory' = {{t} : t \in S} /\ groups' = groups
    BY <1>1 DEF ReplaceTables
  <2>2. GroupsShareNoTable' /\ UnitsAreTablesOrGroups'
    BY <2>1
  <2>3. ASSUME NEW u \in inventory', NEW v \in inventory', u # v PROVE u \cap v = {}
    <3>1. PICK r \in S, t \in S : u = {r} /\ v = {t}
      BY <2>1
    <3> QED
      BY <2>3, <3>1
  <2> QED
    BY <2>2, <2>3
<1>2. ASSUME NEW S \in SUBSET Tables, MergeTables(S) PROVE UnitsInv'
  <2>1. /\ groups' = groups \cup {S}
        /\ inventory' = (inventory \ {{t} : t \in S}) \cup {S}
        /\ \A t \in S : {t} \in inventory
        /\ \A g \in groups : g \cap S = {}
    BY <1>2 DEF MergeTables
  <2>2. ASSUME NEW u \in inventory', u # S PROVE u \cap S = {} /\ u \in inventory
    <3>1. u \in inventory /\ \A t \in S : u # {t}
      BY <2>1, <2>2
    <3>2. ASSUME NEW t \in S PROVE t \notin u
      BY <2>1, <3>1
    <3> QED
      BY <3>1, <3>2
  <2>3. GroupsShareNoTable'
    BY <2>1
  <2>4. UnitsAreTablesOrGroups'
    BY <2>1, <2>2
  <2>5. ASSUME NEW u \in inventory', NEW v \in inventory', u # v PROVE u \cap v = {}
    BY <2>2, <2>5
  <2> QED
    BY <2>3, <2>4, <2>5
<1>3. ASSUME NEW g \in groups, SplitGroup(g) PROVE UnitsInv'
  <2>1. /\ groups' = groups \ {g}
        /\ inventory' = (inventory \ {g}) \cup {{t} : t \in g}
    BY <1>3 DEF SplitGroup
  <2>2. g \in SUBSET Tables
    BY DEF TypeOK
  <2>3. ASSUME NEW u \in inventory'
        PROVE  \/ \E t \in Tables : u = {t}
               \/ u \in groups' /\ u \cap g = {}
    BY <2>1, <2>2
  <2>4. GroupsShareNoTable' /\ UnitsAreTablesOrGroups'
    BY <2>1, <2>3
  <2>5. ASSUME NEW u \in inventory', NEW v \in inventory', u # v PROVE u \cap v = {}
    <3>1. CASE u \in inventory /\ v \in inventory
      BY <2>5, <3>1
    <3>2. ASSUME NEW t \in g, NEW w \in inventory', w # {t} PROVE t \notin w
      BY <2>3, <3>2
    <3>3. ASSUME NEW t \in g, u = {t} PROVE u \cap v = {}
      BY <2>5, <3>2, <3>3
    <3>4. ASSUME NEW t \in g, v = {t} PROVE u \cap v = {}
      BY <2>5, <3>2, <3>4
    <3> QED
      BY <2>1, <3>1, <3>3, <3>4
  <2> QED
    BY <2>4, <2>5
<1>4. ASSUME PublishEvent \/ CancelEvent \/ ArchiveEvent PROVE UnitsInv'
  BY <1>4 DEF PublishEvent, CancelEvent, ArchiveEvent
<1> QED
  BY <1>1, <1>2, <1>3, <1>4 DEF Organiser

\* What publication checked holds on: merges and splits give no seats away.
LEMMA OrganiserKeepsSeats ==
  ASSUME TypeOK, TypeOK', UnitsInv, Organiser,
         eventStatus = "PUBLISHED" => InventorySeats >= EventCapacity
  PROVE  eventStatus' = "PUBLISHED" => InventorySeats' >= EventCapacity
<1>0. UnitsInv'
  BY OrganiserKeepsUnitsApart
<1>1. CASE PublishEvent
  <2>1. InventorySeats' = InventorySeats
    BY <1>1 DEF PublishEvent, InventorySeats, UnitSeats
  <2> QED
    BY <1>1, <2>1 DEF PublishEvent
<1>2. ASSUME NEW S \in SUBSET Tables, ReplaceTables(S) PROVE eventStatus' # "PUBLISHED"
  BY <1>2 DEF ReplaceTables
<1>3. ASSUME NEW S \in SUBSET Tables, MergeTables(S)
      PROVE  UNION inventory \subseteq UNION inventory' /\ eventStatus' = eventStatus
  BY <1>3 DEF MergeTables
<1>4. ASSUME NEW g \in groups, SplitGroup(g)
      PROVE  UNION inventory \subseteq UNION inventory' /\ eventStatus' = eventStatus
  BY <1>4 DEF SplitGroup
<1>5. ASSUME CancelEvent \/ ArchiveEvent PROVE eventStatus' # "PUBLISHED"
  BY <1>5 DEF CancelEvent, ArchiveEvent
<1>6. ASSUME UNION inventory \subseteq UNION inventory', eventStatus' = "PUBLISHED",
             eventStatus' = eventStatus
      PROVE  InventorySeats' >= EventCapacity
  BY <1>0, <1>6, SeatsGrow
<1> QED
  BY <1>1, <1>2, <1>3, <1>4, <1>5, <1>6 DEF Organiser

(***************************************************************************)
(* The guests of the bookings that still count.                            *)
(***************************************************************************)
Live == {h \in Holds : Allocated(h) /\ (assignment[h].owner = "HOLD" => ~HoldLapsed(h))}

\* Fewer bookings with the same parties bring no more guests.
LEMMA FewerGuests ==
  ASSUME NEW live \in SUBSET Holds, NEW less \in SUBSET live, NEW rows, NEW other,
         \A h \in live : rows[h].party \in Nat,
         \A h \in less : other[h].party = rows[h].party
  PROVE  SumFunction([h \in less |-> other[h].party])
           <= SumFunction([h \in live |-> rows[h].party])
<1> DEFINE f == [h \in live |-> rows[h].party]
           g == [h \in less |-> other[h].party]
<1>1. /\ \A h \in live : f[h] \in Nat
      /\ \A h \in less : f[h] = g[h]
      /\ SumFunction(f) = SumFunctionOnSet(f, live)
      /\ SumFunction(g) = SumFunctionOnSet(g, less)
  BY DEF SumFunction
<1>2. IsFiniteSet(live) /\ IsFiniteSet(less)
  BY BookingAssumption, FS_Subset
<1> HIDE DEF f, g
<1>3. SumFunctionOnSet(f, less) <= SumFunctionOnSet(f, live)
  BY <1>1, <1>2, SumSubset
<1>4. SumFunctionOnSet(f, less) = SumFunctionOnSet(g, less)
  BY <1>1, <1>2, SumAgree
<1>5. SumFunction(g) <= SumFunction(f)
  BY <1>1, <1>3, <1>4
<1> QED
  BY <1>5 DEF f, g

\* A step that books nothing promises no more guests a table.
LEMMA NothingNewKeepsGuests ==
  ASSUME TypeOK, TypeOK', AllocationInv, AllocationInv', \A h \in Holds : NothingNew(h),
         now' \in {now, now + 1}, GuestsPromised <= EventCapacity
  PROVE  GuestsPromised' <= EventCapacity
<1>1. ASSUME NEW h \in Live' PROVE h \in Live
  <2>1. /\ h \in Holds /\ NothingNew(h) /\ Allocated(h)' /\ Allocated(h)
        /\ assignment'[h].owner = "HOLD" => ~HoldLapsed(h)'
    BY DEF Live, NothingNew
  <2>2. ASSUME assignment[h].owner = "HOLD", HoldLapsed(h) PROVE FALSE
    <3>1. assignment'[h].owner = "HOLD"
      BY <2>1, <2>2 DEF NothingNew
    <3>2. hold'[h].status = "ACTIVE" /\ hold'[h].expiresAt = hold[h].expiresAt
      BY <2>1, <3>1 DEF NothingNew, AllocationInv, TableInv, LiveBookingsHoldTables
    <3>3. hold[h].expiresAt <= now /\ ~(hold[h].expiresAt <= now')
      BY <2>1, <2>2, <3>1, <3>2 DEF HoldLapsed
    <3>4. now \in Int /\ hold[h] \in HoldRow
      BY <2>1, BookingAssumption DEF TypeOK
    <3>5. hold[h].expiresAt \in Int
      BY <3>4 DEF HoldRow
    <3> QED
      BY <3>3, <3>4, <3>5
  <2> QED
    BY <2>1, <2>2 DEF Live
<1>2. Live \in SUBSET Holds /\ Live' \in SUBSET Live
  BY <1>1 DEF Live
<1>3. \A h \in Holds : hold[h].party \in Nat /\ hold'[h].party = hold[h].party
  BY DEF TypeOK, HoldRow, NothingNew
<1>4. /\ GuestsPromised = SumFunction([h \in Live |-> hold[h].party])
      /\ GuestsPromised' = SumFunction([h \in Live' |-> hold'[h].party])
  BY DEF GuestsPromised, Live
<1> HIDE DEF Live
<1>5. SumFunction([h \in Live' |-> hold'[h].party]) <= SumFunction([h \in Live |-> hold[h].party])
  BY <1>2, <1>3, FewerGuests
<1>6. IsFiniteSet(Live) /\ IsFiniteSet(Live')
  BY <1>2, BookingAssumption, FS_Subset
<1>7. GuestsPromised \in Int /\ GuestsPromised' \in Int
  BY <1>2, <1>3, <1>4, <1>6, SumIsInt DEF SumFunction
<1> QED
  BY <1>4, <1>5, <1>7, BookingAssumption

\* A new hold counts with its guests; the sweep before it lets lapsed holds go.
LEMMA CreateHoldGuests ==
  ASSUME TypeOK, AllocationInv, NEW h \in Holds, NEW n \in MinPartySize .. MaxPartySize,
         CreateHold(h, n)
  PROVE  /\ TakenSeats(h) = 0
         /\ h \in Live' /\ hold'[h].party = n
         /\ \A g \in Live' \ {h} : hold'[g].party = hold[g].party
                                   /\ TakenSeats(g) = hold[g].party
<1>1. PICK unit \in SUBSET Tables : HoldGiven(h, unit)
  BY CreateHoldFacts DEF AllocationInv
<1>2. TakenSeats(h) = 0
  BY <1>1 DEF HoldGiven, TakenSeats
<1>3. hold' = [Expired(LapsedHolds) EXCEPT ![h] =
                 [status |-> "ACTIVE", party |-> n, expiresAt |-> now + HoldTicks]]
  BY DEF CreateHold, TakeUnit
<1>4. hold'[h].party = n /\ hold'[h].expiresAt = now + HoldTicks /\ now' = now
  BY <1>3, ExpiredType DEF CreateHold, TakeUnit, Elsewhere
<1>5. h \in Live'
  <2>1. ~(now + HoldTicks <= now)
    BY BookingAssumption DEF TypeOK
  <2> QED
    BY <1>1, <1>4, <2>1 DEF HoldGiven, Live, Allocated, HoldLapsed
<1>6. ASSUME NEW g \in Live' \ {h}
      PROVE  hold'[g].party = hold[g].party /\ TakenSeats(g) = hold[g].party
  <2>1. g \in Holds \ {h} /\ Allocated(g)' /\ hold[g] \in HoldRow
    BY <1>6 DEF Live, TypeOK
  <2>2. hold'[g].party = hold[g].party
    <3>1. hold'[g] = Expired(LapsedHolds)[g]
      BY <1>3, <2>1 DEF Expired
    <3> QED
      BY <2>1, <3>1 DEF Expired, HoldRow
  <2>3. g \notin LapsedHolds /\ Allocated(g)
    BY <1>1, <2>1 DEF HoldGiven, Allocated
  <2>4. assignment[g].owner \in {"HOLD", "RESERVATION"}
    BY <2>1 DEF TypeOK, AssignmentRow
  <2>5. CASE assignment[g].owner = "HOLD"
    BY <2>1, <2>2, <2>3, <2>5
    DEF TakenSeats, Allocated, LapsedHolds, AllocationInv, TableInv, LiveBookingsHoldTables
  <2>6. CASE assignment[g].owner = "RESERVATION"
    BY <2>1, <2>2, <2>3, <2>6
    DEF TakenSeats, Allocated, Occupying, AllocationInv, TableInv, LiveBookingsHoldTables
  <2> QED
    BY <2>4, <2>5, <2>6
<1> QED
  BY <1>2, <1>4, <1>5, <1>6

\* The engine counts every booking that is promised a table before it gives another.
LEMMA CreateHoldKeepsGuests ==
  ASSUME TypeOK, TypeOK', AllocationInv, NEW h \in Holds,
         NEW n \in MinPartySize .. MaxPartySize, CreateHold(h, n)
  PROVE  GuestsPromised' <= EventCapacity
<1> DEFINE taken == [g \in Holds |-> TakenSeats(g)]
           live == Live'
           party == [g \in live |-> hold'[g].party]
           guests == [g \in Holds |-> IF g \in live THEN hold'[g].party ELSE 0]
<1>1. \A g \in Holds : hold[g].party \in Nat /\ hold'[g].party \in Nat
  BY DEF TypeOK, HoldRow
<1>2. live \in SUBSET Holds
  BY DEF Live
<1>3. \A g \in Holds : taken[g] \in Nat
  BY <1>1 DEF TakenSeats
<1>4. \A g \in Holds : guests[g] \in Nat
  BY <1>1
<1>5. taken[h] = 0 /\ guests[h] = n
  BY CreateHoldGuests
<1>6. ASSUME NEW g \in Holds \ {h} PROVE guests[g] <= taken[g]
  <2>1. CASE g \in live
    BY <1>1, <2>1, CreateHoldGuests
  <2>2. CASE g \notin live
    BY <1>3, <2>2
  <2> QED
    BY <2>1, <2>2
<1>7. GuestsPromised' = SumFunction(party)
  BY DEF GuestsPromised, Live
<1>8. /\ \A g \in live : party[g] \in Int /\ guests[g] = party[g]
      /\ \A g \in Holds \ live : guests[g] = 0
      /\ DOMAIN party = live
  BY <1>1, <1>2
<1>9. OccupiedCapacity = SumFunctionOnSet(taken, Holds)
  BY DEF OccupiedCapacity, SumFunction
<1>10. EventCapacity - OccupiedCapacity >= n
  BY DEF CreateHold, TakeUnit
<1>11. IsFiniteSet(Holds) /\ IsFiniteSet(Holds \ {h})
  BY BookingAssumption, FS_RemoveElement
<1> HIDE DEF taken, live, party, guests
<1>12. GuestsPromised' = SumFunctionOnSet(guests, Holds)
  BY <1>2, <1>7, <1>8, <1>11, SumSelected
<1>13. SumFunctionOnSet(guests, Holds) = guests[h] + SumFunctionOnSet(guests, Holds \ {h})
  BY <1>4, <1>11, SumRemove
<1>14. SumFunctionOnSet(taken, Holds) = taken[h] + SumFunctionOnSet(taken, Holds \ {h})
  BY <1>3, <1>11, SumRemove
<1>15. SumFunctionOnSet(guests, Holds \ {h}) <= SumFunctionOnSet(taken, Holds \ {h})
  BY <1>3, <1>4, <1>6, <1>11, SumMonotone
<1>16. SumFunctionOnSet(guests, Holds \ {h}) \in Int /\ SumFunctionOnSet(taken, Holds \ {h}) \in Int
  BY <1>3, <1>4, <1>11, SumIsInt
<1> QED
  BY <1>5, <1>9, <1>10, <1>12, <1>13, <1>14, <1>15, <1>16, BookingAssumption

\* The inductive step.
LEMMA NextCapacityInv ==
  ASSUME TypeOK, TypeOK', AllocationInv, AllocationInv', CapacityInv, [Next]_vars
  PROVE  CapacityInv'
<1>1. GuestsPromised' <= EventCapacity
  BY OnlyNewHoldsBook, OnlyOrganisersChangeTables, NothingNewKeepsGuests,
     CreateHoldKeepsGuests DEF CapacityInv, CapacityRespected
<1>2. UnitsInv' /\ (eventStatus' = "PUBLISHED" => InventorySeats' >= EventCapacity)
  <2>1. CASE Organiser
    BY <2>1, OrganiserKeepsUnitsApart, OrganiserKeepsSeats DEF CapacityInv, CapacityRespected
  <2>2. CASE UNCHANGED inventoryVars
    <3>1. inventory' = inventory /\ groups' = groups /\ eventStatus' = eventStatus
      BY <2>2 DEF inventoryVars
    <3>2. InventorySeats' = InventorySeats
      BY <3>1 DEF InventorySeats, UnitSeats
    <3>3. UnitsInv'
      BY <3>1 DEF CapacityInv, UnitsInv, GroupsShareNoTable, UnitsAreTablesOrGroups
    <3> QED
      BY <3>1, <3>2, <3>3 DEF CapacityInv, CapacityRespected
  <2> QED
    BY <2>1, <2>2, OnlyOrganisersChangeTables
<1> QED
  BY <1>1, <1>2 DEF CapacityInv, CapacityRespected, UnitsInv

\* Nothing is on offer or promised at first.
LEMMA InitCapacityInv == Init => CapacityInv
<1> SUFFICES ASSUME Init PROVE CapacityInv
  OBVIOUS
<1>1. UnitsInv
  BY DEF Init, UnitsInv, GroupsShareNoTable, UnitsAreTablesOrGroups
<1>2. eventStatus # "PUBLISHED"
  BY DEF Init
<1>3. GuestsPromised = 0
  <2>1. Live = {}
    BY DEF Init, Live, Allocated
  <2> DEFINE party == [h \in Live |-> hold[h].party]
  <2>2. DOMAIN party = {} /\ GuestsPromised = SumFunction(party)
    BY <2>1 DEF GuestsPromised, Live
  <2> HIDE DEF party
  <2> QED
    BY <2>2, SumOfNone DEF SumFunction
<1> QED
  BY <1>1, <1>2, <1>3, BookingAssumption DEF CapacityInv, CapacityRespected, UnitsInv

(***************************************************************************)
(* The event is never overbooked: the guests who are promised a table fit  *)
(* its capacity, no table is on offer twice, and the seats on offer go on  *)
(* covering the capacity that was published, whatever is merged and split. *)
(***************************************************************************)
THEOREM CapacityIsRespected == Spec => []CapacityRespected
<1>1. Init => CapacityInv
  BY InitCapacityInv
<1>2. TypeOK /\ TypeOK' /\ AllocationInv /\ AllocationInv' /\ CapacityInv /\ [Next]_vars
        => CapacityInv'
  BY NextCapacityInv
<1>3. CapacityInv => CapacityRespected
  BY DEF CapacityInv
<1> QED
  BY <1>1, <1>2, <1>3, TypeCorrect, AllocationInvariant, PTL DEF Spec

(***************************************************************************)
(* What was sold can be seated: the units and the capacity together.       *)
(***************************************************************************)
THEOREM UnitsStayHonoured == Spec => []UnitsAreHonoured
BY CapacityIsRespected, BookedUnitsNeverChange, PTL DEF UnitsAreHonoured

-----------------------------------------------------------------------------
(***************************************************************************)
(* The versions of reservations order all changes to them, the money of a  *)
(* payment matches what became of its reservation, and the guests who sit  *)
(* at a table are those who booked it, for any number of operators, holds  *)
(* and payments.                                                           *)
(*                                                                         *)
(* OneWinnerPerVersion is not inductive by itself.  That a request cannot  *)
(* name a version a later conversion hands out again follows from requests *)
(* naming reservations that exist (and never stop existing), that a        *)
(* conversion counts as the change from version 0 from the rows that do    *)
(* not exist yet being at version 0.  PaymentsMatchBookings needs to know  *)
(* that what is owed back was paid and that a free event takes no money    *)
(* (MoneyInv); GuestsAreSeated needs the tables of AllocationInv as well.  *)
(***************************************************************************)
MissingAtZero ==
  \A h \in Holds : reservation[h].status = "NONE" => reservation[h].version = 0

RequestsNameReservations ==
  \A m \in Mutations :
    /\ \A r \in operation[m] : /\ operation[m] = {r}
                               /\ reservation[r.target].status # "NONE"
    /\ m \in applied => operation[m] # {}

VersionInv == MissingAtZero /\ RequestsNameReservations /\ OneWinnerPerVersion

-----------------------------------------------------------------------------
(***************************************************************************)
(* What a step may do to a reservation: nothing, or leave it existing with *)
(* its version raised by one.                                              *)
(***************************************************************************)
Raised(h) ==
  /\ reservation'[h].status # "NONE"
  /\ reservation'[h].version = reservation[h].version + 1

Kept(h) == reservation'[h] = reservation[h]

\* A conversion makes version 1 out of a reservation that did not exist.
LEMMA ConvertRaises ==
  ASSUME TypeOK, AllocationInv, MissingAtZero, NEW h \in Holds, Convert(h)
  PROVE  \A g \in Holds : Kept(g) \/ Raised(g)
<1>1. hold[h].status = "ACTIVE" /\ reservation[h].version = 0
  BY DEF Convert, NewReservation, PassOn, AllocationInv, TableInv, BookingsBeginWithHolds, MissingAtZero
<1>2. reservation \in [Holds -> ReservationRow]
  BY DEF TypeOK
<1>3. reservation'[h].status # "NONE" /\ reservation'[h].version = 1
  BY <1>2 DEF Convert, NewReservation, PassOn
<1> QED
  BY <1>1, <1>3, ConvertFacts DEF Kept, Raised

\* A payment raises the version of its reservation.
LEMMA CheckoutPaidRaises ==
  ASSUME TypeOK, NEW h \in Holds, NEW k \in PayKeys, HandleCheckoutPaid(h, k)
  PROVE  \A g \in Holds : Kept(g) \/ Raised(g)
<1>1. reservation \in [Holds -> ReservationRow]
  BY DEF TypeOK
<1> QED
  BY <1>1 DEF HandleCheckoutPaid, BookedOrOwed, Kept, Raised

\* A timeout raises the version of each reservation it ends.
LEMMA ExpirePaymentsRaises ==
  ASSUME TypeOK, ExpirePaymentsJob
  PROVE  \A g \in Holds : Kept(g) \/ Raised(g)
BY DEF ExpirePaymentsJob, TimedOut, Kept, Raised

\* An operator's step raises the version it was asked for.
LEMMA ApplyRaises ==
  ASSUME TypeOK, NEW m \in Mutations, ApplyOperation(m)
  PROVE  \E r \in operation[m] :
           /\ r \in OperationRequest /\ r.version = reservation[r.target].version
           /\ Raised(r.target) /\ \A g \in Holds \ {r.target} : Kept(g)
<1>1. PICK r \in operation[m] :
        /\ r.version = reservation[r.target].version
        /\ reservation' = [reservation EXCEPT ![r.target].status = TargetStatus[r.action],
                                              ![r.target].version = @ + 1]
  BY DEF ApplyOperation, VersionCurrent
<1>2. r \in OperationRequest
  BY <1>1 DEF TypeOK
<1>3. r.target \in Holds /\ TargetStatus[r.action] # "NONE"
  BY <1>2 DEF OperationRequest, OperationAction, TargetStatus
<1>4. reservation \in [Holds -> ReservationRow] /\ reservation[r.target] \in ReservationRow
  BY <1>3 DEF TypeOK
<1>5. Raised(r.target) /\ \A g \in Holds \ {r.target} : Kept(g)
  BY <1>1, <1>3, <1>4 DEF Raised, Kept, ReservationRow
<1> QED
  BY <1>1, <1>2, <1>5

(***************************************************************************)
(* Of all the steps, only operators' requests change what OneWinnerPer-    *)
(* Version speaks of besides the reservations.                             *)
(***************************************************************************)
LEMMA ReservationSteps ==
  ASSUME TypeOK, AllocationInv, MissingAtZero, [Next]_vars
  PROVE  /\ \A g \in Holds : Kept(g) \/ Raised(g)
         /\ \/ UNCHANGED operationVars
            \/ Operator
<1> DEFINE Goal == /\ \A g \in Holds : Kept(g) \/ Raised(g)
                   /\ UNCHANGED operationVars \/ Operator
<1> USE DEF Elsewhere, ElsewhereThanPayments, ElsewhereThanFloor, Untouched
<1>1. ASSUME UNCHANGED <<reservation, operationVars>> PROVE Goal
  BY <1>1 DEF Kept
<1>2. CASE Tick \/ Organiser \/ Pos
  BY <1>1, <1>2
  DEF Tick, Organiser, ReplaceTables, MergeTables, SplitGroup, PublishEvent, CancelEvent,
      ArchiveEvent, Pos, OpenTableSession, FinishWalkIn, FinishReservationSession,
      MoveReservationSession
<1>3. CASE Customer
  <2>1. ASSUME NEW h \in Holds, Convert(h) PROVE Goal
    BY <2>1, ConvertRaises DEF Convert, NewReservation, PassOn
  <2> QED
    BY <1>1, <1>3, <2>1
    DEF Customer, CreateHold, TakeUnit, RepeatCreateHold, GetHold, CancelHold, PrepareCheckout
<1>4. CASE Checkout \/ StripeSide
  BY <1>1, <1>4
  DEF Checkout, CreateStripeSession, AttachCheckoutSession, LoseCheckout, StripeSide,
      CustomerPays, CardDeclined, StripeSessionExpires, StripeMoves
<1>5. CASE Webhook
  <2>1. ASSUME NEW h \in Holds, NEW k \in PayKeys, HandleCheckoutPaid(h, k) PROVE Goal
    BY <2>1, CheckoutPaidRaises DEF HandleCheckoutPaid, BookedOrOwed
  <2> QED
    BY <1>1, <1>5, <2>1
    DEF Webhook, HandleCheckoutExpired, HandlePaymentIntentFailed, MarkPaymentAttemptFailed
<1>6. CASE Operator
  <2>1. ASSUME NEW m \in Mutations, NEW h \in Holds, NEW a \in OperationAction,
               SubmitOperation(m, h, a)
        PROVE  \A g \in Holds : Kept(g)
    BY <2>1 DEF SubmitOperation, Kept
  <2>2. ASSUME NEW m \in Mutations, ApplyOperation(m)
        PROVE  \A g \in Holds : Kept(g) \/ Raised(g)
    BY <2>2, ApplyRaises
  <2> QED
    BY <1>6, <2>1, <2>2 DEF Operator
<1>7. CASE Worker
  BY <1>1, <1>7, ExpirePaymentsRaises DEF Worker, ExpireHoldsJob, ExpirePaymentsJob
<1>8. CASE UNCHANGED vars
  BY <1>1, <1>8 DEF vars, operationVars
<1> QED
  BY <1>2, <1>3, <1>4, <1>5, <1>6, <1>7, <1>8 DEF Next

-----------------------------------------------------------------------------
(***************************************************************************)
(* VersionInv holds at first and every step keeps it.                      *)
(***************************************************************************)
LEMMA VersionsGrow ==
  ASSUME TypeOK, NEW g \in Holds, Kept(g) \/ Raised(g)
  PROVE  /\ reservation[g].version \in Nat
         /\ reservation'[g].version \in Nat
         /\ reservation[g].version <= reservation'[g].version
         /\ reservation[g].status # "NONE" => reservation'[g].status # "NONE"
         /\ reservation'[g].status = "NONE" => Kept(g)
<1>1. reservation[g].version \in Nat
  BY DEF TypeOK, ReservationRow
<1> QED
  BY <1>1 DEF Kept, Raised

\* Requests name holds and versions.
LEMMA RequestTypes ==
  ASSUME TypeOK, NEW m \in Mutations, NEW r \in operation[m]
  PROVE  r.target \in Holds /\ r.version \in Nat
BY DEF TypeOK, OperationRequest

\* A new request names a reservation that exists.
LEMMA SubmitKeepsVersions ==
  ASSUME TypeOK, VersionInv, NEW m \in Mutations, NEW h \in Holds, NEW a \in OperationAction,
         SubmitOperation(m, h, a)
  PROVE  VersionInv'
<1>1. /\ m \notin applied /\ applied' = applied /\ reservation' = reservation
      /\ applied \subseteq Mutations
  BY DEF SubmitOperation, VersionInv, RequestsNameReservations, TypeOK
<1>2. /\ \A n \in Mutations \ {m} : operation'[n] = operation[n]
      /\ operation'[m] = {[target |-> h, action |-> a, version |-> reservation[h].version]}
      /\ reservation[h].status # "NONE"
  BY DEF SubmitOperation, TypeOK
<1>3. RequestsNameReservations'
  BY <1>1, <1>2 DEF VersionInv, RequestsNameReservations
<1>4. OneWinnerPerVersion'
  BY <1>1, <1>2 DEF VersionInv, OneWinnerPerVersion
<1> QED
  BY <1>1, <1>3, <1>4 DEF VersionInv, MissingAtZero

\* A request is applied to the current version only, which is older than the next.
LEMMA ApplyKeepsVersions ==
  ASSUME TypeOK, VersionInv, NEW m \in Mutations, ApplyOperation(m)
  PROVE  VersionInv'
<1>1. PICK r \in operation[m] :
        /\ r \in OperationRequest /\ r.version = reservation[r.target].version
        /\ Raised(r.target) /\ \A g \in Holds \ {r.target} : Kept(g)
  BY ApplyRaises
<1>2. /\ operation' = operation /\ applied' = applied \cup {m} /\ m \notin applied
      /\ applied \subseteq Mutations /\ operation[m] = {r} /\ r.target \in Holds
  BY <1>1, RequestTypes DEF ApplyOperation, VersionInv, RequestsNameReservations, TypeOK
<1>3. ASSUME NEW g \in Holds
      PROVE  /\ reservation[g].version \in Nat /\ reservation'[g].version \in Nat
             /\ reservation[g].version <= reservation'[g].version
             /\ reservation[g].status # "NONE" => reservation'[g].status # "NONE"
             /\ reservation'[g].status = "NONE" => Kept(g)
  BY <1>1, VersionsGrow
<1>4. MissingAtZero'
  BY <1>3 DEF VersionInv, MissingAtZero, Kept
<1>5. RequestsNameReservations'
  BY <1>2, <1>3, RequestTypes DEF VersionInv, RequestsNameReservations
<1>6. ASSUME NEW n \in applied, NEW q \in operation[n]
      PROVE  /\ q.version < reservation[q.target].version
             /\ q.version < reservation'[q.target].version
             /\ r.target = q.target => r.version # q.version
  <2>1. q.target \in Holds /\ q.version \in Nat
    BY <1>2, <1>6, RequestTypes
  <2>2. q.version < reservation[q.target].version
    BY DEF VersionInv, OneWinnerPerVersion
  <2> QED
    BY <1>1, <1>3, <2>1, <2>2
<1>7. r.version < reservation'[r.target].version
  BY <1>1, <1>2, <1>3 DEF Raised
<1>8. OneWinnerPerVersion'
  <2>1. \A n \in applied' : \A q \in operation'[n] : q.version < reservation'[q.target].version
    BY <1>2, <1>6, <1>7
  <2>2. ASSUME NEW l \in applied', NEW n \in applied', l # n,
               NEW p \in operation'[l], NEW q \in operation'[n], p.target = q.target
        PROVE  p.version # q.version
    <3>1. CASE l \in applied /\ n \in applied
      BY <1>2, <2>2, <3>1 DEF VersionInv, OneWinnerPerVersion
    <3>2. CASE l = m
      <4>1. p = r /\ n \in applied /\ q \in operation[n]
        BY <1>2, <2>2, <3>2
      <4> QED
        BY <1>6, <2>2, <4>1
    <3>3. CASE n = m
      <4>1. q = r /\ l \in applied /\ p \in operation[l]
        BY <1>2, <2>2, <3>3
      <4> QED
        BY <1>6, <2>2, <4>1
    <3> QED
      BY <1>2, <3>1, <3>2, <3>3
  <2> QED
    BY <2>1, <2>2 DEF OneWinnerPerVersion
<1> QED
  BY <1>4, <1>5, <1>8 DEF VersionInv

\* Other changes make requests older, never younger.
LEMMA OthersKeepVersions ==
  ASSUME TypeOK, VersionInv, UNCHANGED operationVars, \A g \in Holds : Kept(g) \/ Raised(g)
  PROVE  VersionInv'
<1>1. operation' = operation /\ applied' = applied /\ applied \subseteq Mutations
  BY DEF operationVars, TypeOK
<1>2. MissingAtZero'
  BY VersionsGrow DEF VersionInv, MissingAtZero, Kept
<1>3. RequestsNameReservations'
  BY <1>1, VersionsGrow, RequestTypes DEF VersionInv, RequestsNameReservations
<1>4. ASSUME NEW m \in applied, NEW r \in operation[m]
      PROVE  r.version < reservation'[r.target].version
  <2>1. r.target \in Holds /\ r.version \in Nat
    BY <1>1, <1>4, RequestTypes
  <2>2. r.version < reservation[r.target].version
    BY DEF VersionInv, OneWinnerPerVersion
  <2> QED
    BY <2>1, <2>2, VersionsGrow
<1>5. OneWinnerPerVersion'
  BY <1>1, <1>4 DEF VersionInv, OneWinnerPerVersion
<1> QED
  BY <1>2, <1>3, <1>5 DEF VersionInv

\* The inductive step: requests and their application, and everything else.
LEMMA NextVersionInv ==
  ASSUME TypeOK, AllocationInv, VersionInv, [Next]_vars
  PROVE  VersionInv'
<1>1. MissingAtZero
  BY DEF VersionInv
<1>2. CASE UNCHANGED operationVars
  BY <1>1, <1>2, ReservationSteps, OthersKeepVersions
<1>3. CASE Operator
  BY <1>3, SubmitKeepsVersions, ApplyKeepsVersions DEF Operator
<1> QED
  BY <1>1, <1>2, <1>3, ReservationSteps

\* The version invariant holds throughout.
LEMMA VersionInvariant == Spec => []VersionInv
<1>1. Init => VersionInv
  BY DEF Init, VersionInv, MissingAtZero, RequestsNameReservations, OneWinnerPerVersion
<1>2. TypeOK /\ AllocationInv /\ VersionInv /\ [Next]_vars => VersionInv'
  BY NextVersionInv
<1> QED
  BY <1>1, <1>2, AllocationInvariant, PTL DEF Spec

(***************************************************************************)
(* Two requests that read the same version of a reservation are never both *)
(* applied, and none is applied to a version it did not read.              *)
(***************************************************************************)
THEOREM StaleRequestsLose == Spec => []OneWinnerPerVersion
<1>1. VersionInv => OneWinnerPerVersion
  BY DEF VersionInv
<1> QED
  BY <1>1, VersionInvariant, PTL

(***************************************************************************)
(* Whatever changes the status of a reservation raises its version by one. *)
(***************************************************************************)
THEOREM VersionsCountChanges == Spec => EveryChangeBumpsVersion
<1> DEFINE Bumped == \A h \in Holds :
                       reservation'[h].status # reservation[h].status =>
                         reservation'[h].version = reservation[h].version + 1
<1>1. TypeOK /\ AllocationInv /\ VersionInv /\ [Next]_vars => Bumped
  BY ReservationSteps DEF VersionInv, Kept, Raised
<1>2. TypeOK /\ AllocationInv /\ VersionInv /\ [Next]_vars => [Bumped]_vars
  BY <1>1
<1> HIDE DEF Bumped
<1>3. Spec => [][Bumped]_vars
  BY <1>2, AllocationInvariant, VersionInvariant, PTL DEF Spec
<1> QED
  BY <1>3 DEF EveryChangeBumpsVersion, Bumped

-----------------------------------------------------------------------------
(***************************************************************************)
(* Money.  PaymentsMatchBookings needs, besides itself, that what is owed  *)
(* back was paid, and that nothing is ever paid for a free event.          *)
(***************************************************************************)
OwedWasPaid ==
  \A h \in Holds, k \in PayKeys :
    <<h, k>> \in refundRequired => payment[<<h, k>>].status = "PAID"

FreeEventsTakeNoMoney ==
  BookingAmount = 0 => \A h \in Holds, k \in PayKeys : ~PaymentStarted(h, k)

MoneyInv == OwedWasPaid /\ FreeEventsTakeNoMoney /\ PaymentsMatchBookings

\* How a reservation's status changes without a payment or an operator.
StatusMove(h) ==
  \/ reservation'[h].status = reservation[h].status
  \/ /\ reservation[h].status = "NONE"
     /\ reservation'[h].status = IF BookingAmount = 0 THEN "CONFIRMED" ELSE "PENDING_PAYMENT"
  \/ reservation[h].status = "PENDING_PAYMENT" /\ reservation'[h].status = "EXPIRED"

SamePaid ==
  /\ UNCHANGED refundRequired
  /\ \A p \in Payments : payment'[p].status = "PAID" <=> payment[p].status = "PAID"

\* Until Stripe reports a payment, no attempt counts as paid.
LEMMA AttemptsCollectNothing ==
  ASSUME TypeOK, NEW h \in Holds, NEW k \in PayKeys, NEW p, p = <<h, k>>,
         \/ PrepareCheckout(h, k) \/ CreateStripeSession(p) \/ AttachCheckoutSession(p)
         \/ LoseCheckout(p) \/ CustomerPays(p) \/ CardDeclined(p)
         \/ StripeSessionExpires(p) \/ HandleCheckoutExpired(p)
         \/ HandlePaymentIntentFailed(p)
  PROVE  SamePaid /\ UNCHANGED <<floorVars, reservation>>
<1> USE DEF ElsewhereThanPayments
<1>1. p \in Payments /\ payment \in [Payments -> PaymentRow] /\ payment[p] \in PaymentRow
  BY DEF TypeOK, Payments
<1>2. ASSUME NEW row, row.status # "PAID", payment[p].status # "PAID",
             payment' = [payment EXCEPT ![p] = row]
      PROVE  \A q \in Payments : payment'[q].status = "PAID" <=> payment[q].status = "PAID"
  BY <1>1, <1>2
<1>3. CASE PrepareCheckout(h, k)
  <2>1. \/ payment' = payment
        \/ /\ payment' = [payment EXCEPT ![p] = [payment[p] EXCEPT !.status = "CREATED"]]
           /\ payment[p].status # "PAID"
    BY <1>3 DEF PrepareCheckout
  <2>2. [payment[p] EXCEPT !.status = "CREATED"].status = "CREATED"
    BY <1>1 DEF PaymentRow
  <2>3. UNCHANGED <<refundRequired, floorVars, reservation>>
    BY <1>3 DEF PrepareCheckout
  <2> QED
    BY <1>2, <2>1, <2>2, <2>3 DEF SamePaid
<1>4. CASE AttachCheckoutSession(p)
  <2> DEFINE row == [payment[p] EXCEPT !.status = "REQUIRES_ACTION", !.attached = TRUE]
  <2>1. \/ payment' = payment
        \/ payment' = [payment EXCEPT ![p] = row] /\ payment[p].status # "PAID"
    BY <1>4 DEF AttachCheckoutSession
  <2>2. row.status = "REQUIRES_ACTION"
    BY <1>1 DEF PaymentRow
  <2> HIDE DEF row
  <2>3. UNCHANGED <<refundRequired, floorVars, reservation>>
    BY <1>4 DEF AttachCheckoutSession
  <2> QED
    BY <1>2, <2>1, <2>2, <2>3 DEF SamePaid
<1>5. ASSUME NEW event, NEW status \in {"CANCELLED", "FAILED"},
             MarkPaymentAttemptFailed(p, event, status)
      PROVE  SamePaid /\ UNCHANGED <<floorVars, reservation>>
  <2> DEFINE row == [payment[p] EXCEPT !.status = status, !.lastEvent = event]
  <2>1. payment' = [payment EXCEPT ![p] = row] /\ payment[p].status # "PAID"
    BY <1>5 DEF MarkPaymentAttemptFailed
  <2>2. row.status = status
    BY <1>1 DEF PaymentRow
  <2> HIDE DEF row
  <2>3. UNCHANGED <<refundRequired, floorVars, reservation>>
    BY <1>5 DEF MarkPaymentAttemptFailed
  <2> QED
    BY <1>2, <2>1, <2>2, <2>3 DEF SamePaid
<1> QED
  BY <1>3, <1>4, <1>5
  DEF SamePaid, CreateStripeSession, LoseCheckout, CustomerPays, CardDeclined,
      StripeSessionExpires, StripeMoves, HandleCheckoutExpired, HandlePaymentIntentFailed

\* By the parts of the system: who moves money, guests and reservations.
LEMMA MoneySteps ==
  ASSUME TypeOK, AllocationInv, [Next]_vars
  PROVE  \/ \E h \in Holds, k \in PayKeys : HandleCheckoutPaid(h, k)
         \/ \E m \in Mutations : ApplyOperation(m)
         \/ Pos
         \/ UNCHANGED floorVars /\ SamePaid /\ \A h \in Holds : StatusMove(h)
<1> DEFINE Quiet == UNCHANGED floorVars /\ SamePaid /\ \A h \in Holds : StatusMove(h)
<1> USE DEF Elsewhere, Untouched
<1>1. ASSUME UNCHANGED <<paymentVars, floorVars>>, \A h \in Holds : StatusMove(h) PROVE Quiet
  BY <1>1 DEF SamePaid, paymentVars
<1>2. ASSUME UNCHANGED <<paymentVars, floorVars, reservation>> PROVE Quiet
  BY <1>1, <1>2 DEF StatusMove
<1>3. CASE Tick \/ Organiser
  BY <1>2, <1>3
  DEF Tick, Organiser, ReplaceTables, MergeTables, SplitGroup, PublishEvent, CancelEvent,
      ArchiveEvent
<1>4. ASSUME NEW h \in Holds, NEW k \in PayKeys, NEW p, p = <<h, k>>,
             \/ PrepareCheckout(h, k) \/ CreateStripeSession(p) \/ AttachCheckoutSession(p)
             \/ LoseCheckout(p) \/ CustomerPays(p) \/ CardDeclined(p)
             \/ StripeSessionExpires(p) \/ HandleCheckoutExpired(p)
             \/ HandlePaymentIntentFailed(p)
      PROVE  Quiet
  BY <1>4, AttemptsCollectNothing DEF StatusMove
<1>5. CASE Customer
  <2>1. ASSUME NEW h \in Holds, Convert(h) PROVE Quiet
    <3>1. UNCHANGED <<paymentVars, floorVars>>
      BY <2>1 DEF Convert, NewReservation, PassOn
    <3>2. reservation[h].status = "NONE"
      BY <2>1 DEF Convert, NewReservation, PassOn, AllocationInv, TableInv, BookingsBeginWithHolds
    <3>3. reservation'[h].status = IF BookingAmount = 0 THEN "CONFIRMED" ELSE "PENDING_PAYMENT"
      BY <2>1 DEF Convert, NewReservation, PassOn, TypeOK
    <3>4. \A g \in Holds : StatusMove(g)
      BY <2>1, <3>2, <3>3, ConvertFacts DEF StatusMove
    <3> QED
      BY <1>1, <3>1, <3>4
  <2> QED
    BY <1>2, <1>4, <1>5, <2>1 DEF Customer, CreateHold, TakeUnit, RepeatCreateHold, GetHold, CancelHold
<1>6. CASE Checkout \/ StripeSide
  BY <1>4, <1>6 DEF Checkout, StripeSide, Payments
<1>7. CASE Webhook
  BY <1>4, <1>7 DEF Webhook, Payments
<1>8. CASE Operator
  BY <1>2, <1>8 DEF Operator, SubmitOperation
<1>9. CASE Worker
  <2>1. CASE ExpireHoldsJob
    BY <1>2, <2>1 DEF ExpireHoldsJob
  <2>2. CASE ExpirePaymentsJob
    <3>1. UNCHANGED <<paymentVars, floorVars>>
      BY <2>2 DEF ExpirePaymentsJob
    <3>2. \A h \in Holds : StatusMove(h)
      BY <2>2, ExpirePaymentsFacts DEF StatusMove
    <3> QED
      BY <1>1, <3>1, <3>2
  <2> QED
    BY <1>9, <2>1, <2>2 DEF Worker
<1>10. CASE UNCHANGED vars
  BY <1>2, <1>10 DEF vars
<1> QED
  BY <1>3, <1>5, <1>6, <1>7, <1>8, <1>9, <1>10 DEF Next

\* An operator's request moves one reservation along and collects nothing.
LEMMA ApplyMoves ==
  ASSUME TypeOK, NEW m \in Mutations, ApplyOperation(m)
  PROVE  \E h \in Holds, a \in OperationAction :
           /\ reservation[h].status = SourceStatus[a]
           /\ reservation'[h].status = TargetStatus[a]
           /\ \A g \in Holds \ {h} : reservation'[g] = reservation[g]
           /\ IF a = "check-in" THEN OpenReservationTableSession(h)
                                ELSE UNCHANGED tableSession
           /\ a = "complete" => TableSessionClosed(h)
           /\ UNCHANGED <<paymentVars, walkIns, hold>>
<1>1. PICK r \in operation[m] :
        /\ reservation[r.target].status = SourceStatus[r.action]
        /\ IF r.action = "check-in" THEN OpenReservationTableSession(r.target)
                                    ELSE UNCHANGED tableSession
        /\ r.action = "complete" => TableSessionClosed(r.target)
        /\ reservation' = [reservation EXCEPT ![r.target].status = TargetStatus[r.action],
                                              ![r.target].version = @ + 1]
  BY DEF ApplyOperation
<1>2. r \in OperationRequest
  BY <1>1 DEF TypeOK
<1>3. r.target \in Holds /\ r.action \in OperationAction
  BY <1>2 DEF OperationRequest
<1>4. reservation \in [Holds -> ReservationRow] /\ reservation[r.target] \in ReservationRow
  BY <1>3 DEF TypeOK
<1>5. /\ reservation'[r.target].status = TargetStatus[r.action]
      /\ \A g \in Holds \ {r.target} : reservation'[g] = reservation[g]
  BY <1>1, <1>3, <1>4 DEF ReservationRow
<1> QED
  BY <1>1, <1>3, <1>5 DEF ApplyOperation

\* The reservations that have been paid for, and those nothing is collected for.
Unpaid == {"NONE", "PENDING_PAYMENT", "EXPIRED"}

\* Steps that collect nothing keep each reservation on its side of the till.
LEMMA SamePaidKeepsMoney ==
  ASSUME BookingAmount > 0, OwedWasPaid, PaymentsMatchBookings, SamePaid,
         \A h \in Holds :
           \/ reservation'[h].status = reservation[h].status
           \/ {reservation[h].status, reservation'[h].status} \subseteq Served
           \/ {reservation[h].status, reservation'[h].status} \subseteq Unpaid
  PROVE  OwedWasPaid' /\ PaymentsMatchBookings'
<1>1. ASSUME NEW h \in Holds
      PROVE  /\ PaidAttempts(h)' = PaidAttempts(h)
             /\ {k \in PayKeys : <<h, k>> \in refundRequired'}
                  = {k \in PayKeys : <<h, k>> \in refundRequired}
  BY DEF SamePaid, PaidAttempts, Payments
<1>2. OwedWasPaid'
  BY DEF OwedWasPaid, SamePaid, Payments
<1>3. PaymentsMatchBookings'
  <2> SUFFICES ASSUME NEW h \in Holds
               PROVE  LET owedBack == {k \in PayKeys : <<h, k>> \in refundRequired'} IN
                      /\ reservation'[h].status \in Served =>
                           Cardinality(PaidAttempts(h)') = 1 /\ owedBack = {}
                      /\ reservation'[h].status \in Unpaid => PaidAttempts(h)' = {}
                      /\ reservation'[h].status = "REFUND_PENDING" =>
                           owedBack # {} /\ Cardinality(PaidAttempts(h)' \ owedBack) <= 1
    BY DEF PaymentsMatchBookings, Unpaid
  <2> DEFINE owed == {k \in PayKeys : <<h, k>> \in refundRequired}
  <2>1. /\ reservation[h].status \in Served => Cardinality(PaidAttempts(h)) = 1 /\ owed = {}
        /\ reservation[h].status \in Unpaid => PaidAttempts(h) = {}
        /\ reservation[h].status = "REFUND_PENDING" =>
             owed # {} /\ Cardinality(PaidAttempts(h) \ owed) <= 1
    BY DEF PaymentsMatchBookings, Unpaid
  <2>2. /\ reservation'[h].status \in Served => reservation[h].status \in Served
        /\ reservation'[h].status \in Unpaid => reservation[h].status \in Unpaid
        /\ reservation'[h].status = "REFUND_PENDING" =>
             reservation[h].status = "REFUND_PENDING"
    BY DEF Served, Unpaid
  <2> QED
    BY <1>1, <2>1, <2>2
<1> QED
  BY <1>2, <1>3

\* A payment that arrives is recorded; it serves its booking or is owed back.
PaymentRecorded(h, k) ==
  /\ payment[<<h, k>>].status # "PAID" /\ payment'[<<h, k>>].status = "PAID"
  /\ \A q \in Payments \ {<<h, k>>} : payment'[q] = payment[q]

PaymentCounts(h, k) ==
  \/ /\ reservation[h].status = "PENDING_PAYMENT"
     /\ reservation'[h].status = "CONFIRMED"
     /\ refundRequired' = refundRequired
  \/ /\ reservation'[h].status = "REFUND_PENDING"
     /\ refundRequired' = refundRequired \cup {<<h, k>>}

LEMMA PaidCheckoutFacts ==
  ASSUME TypeOK, NEW h \in Holds, NEW k \in PayKeys, HandleCheckoutPaid(h, k)
  PROVE  /\ PaymentRecorded(h, k)
         /\ PaymentCounts(h, k)
         /\ \A g \in Holds \ {h} : reservation'[g] = reservation[g]
<1>1. /\ <<h, k>> \in Payments /\ payment \in [Payments -> PaymentRow]
      /\ reservation \in [Holds -> ReservationRow]
  BY DEF TypeOK, Payments
<1>2. /\ payment[<<h, k>>].status # "PAID"
      /\ payment' = [payment EXCEPT ![<<h, k>>] = [status |-> "PAID", attached |-> TRUE,
                                                  lastEvent |-> "completed"]]
  BY DEF HandleCheckoutPaid, BookedOrOwed, ElsewhereThanPayments
<1>3. /\ \A g \in Holds \ {h} : reservation'[g] = reservation[g]
      /\ reservation'[h].status = IF LatePayment(h) THEN "REFUND_PENDING" ELSE "CONFIRMED"
  BY <1>1 DEF HandleCheckoutPaid, BookedOrOwed
<1>4. \/ /\ ~LatePayment(h) /\ refundRequired' = refundRequired
      \/ LatePayment(h) /\ refundRequired' = refundRequired \cup {<<h, k>>}
  BY DEF HandleCheckoutPaid, BookedOrOwed
<1>5. ~LatePayment(h) => reservation[h].status = "PENDING_PAYMENT"
  BY DEF LatePayment
<1>6. PaymentRecorded(h, k)
  BY <1>1, <1>2 DEF PaymentRecorded
<1>7. PaymentCounts(h, k)
  BY <1>3, <1>4, <1>5 DEF PaymentCounts
<1>8. \A g \in Holds \ {h} : reservation'[g] = reservation[g]
  BY <1>3
<1> QED
  BY <1>6, <1>7, <1>8

\* The first payment in time is the one the booking is served for.
LEMMA CheckoutPaidKeepsMoney ==
  ASSUME TypeOK, BookingAmount > 0, OwedWasPaid, PaymentsMatchBookings,
         NEW h \in Holds, NEW k \in PayKeys, HandleCheckoutPaid(h, k)
  PROVE  OwedWasPaid' /\ PaymentsMatchBookings'
<1>0. /\ payment[<<h, k>>].status # "PAID" /\ payment'[<<h, k>>].status = "PAID"
      /\ \A q \in Payments \ {<<h, k>>} : payment'[q] = payment[q]
      /\ PaymentCounts(h, k)
      /\ \A g \in Holds \ {h} : reservation'[g] = reservation[g]
  BY PaidCheckoutFacts DEF PaymentRecorded
<1> DEFINE Owed(g) == {l \in PayKeys : <<g, l>> \in refundRequired}
           owedNext(g) == {l \in PayKeys : <<g, l>> \in refundRequired'}
           Matches(status, paid, owed) ==
             /\ status \in Served => Cardinality(paid) = 1 /\ owed = {}
             /\ status \in Unpaid => paid = {}
             /\ status = "REFUND_PENDING" => owed # {} /\ Cardinality(paid \ owed) <= 1
<1>1. \A g \in Holds : Matches(reservation[g].status, PaidAttempts(g), Owed(g))
  BY DEF PaymentsMatchBookings, Unpaid
<1>2. ASSUME NEW g \in Holds \ {h}
      PROVE  /\ reservation'[g] = reservation[g]
             /\ PaidAttempts(g)' = PaidAttempts(g) /\ owedNext(g) = Owed(g)
  <2>1. reservation'[g] = reservation[g]
    BY <1>0
  <2>2. \A l \in PayKeys : /\ payment'[<<g, l>>] = payment[<<g, l>>]
                           /\ <<g, l>> \in refundRequired' <=> <<g, l>> \in refundRequired
    <3>1. refundRequired' = refundRequired \/ refundRequired' = refundRequired \cup {<<h, k>>}
      BY <1>0 DEF PaymentCounts
    <3>2. \A l \in PayKeys : <<g, l>> \in Payments \ {<<h, k>>}
      BY DEF Payments
    <3>3. \A l \in PayKeys : payment'[<<g, l>>] = payment[<<g, l>>]
      BY <1>0, <3>2
    <3>4. \A l \in PayKeys : <<g, l>> \in refundRequired' <=> <<g, l>> \in refundRequired
      BY <3>1, <3>2
    <3> QED
      BY <3>3, <3>4
  <2> QED
    BY <2>1, <2>2 DEF PaidAttempts
<1>3. PaidAttempts(h)' = PaidAttempts(h) \cup {k}
  <2>1. \A l \in PayKeys \ {k} : payment'[<<h, l>>] = payment[<<h, l>>]
    BY <1>0 DEF Payments
  <2> QED
    BY <2>1, <1>0 DEF PaidAttempts
<1>4. Owed(h) \subseteq PaidAttempts(h)
  BY DEF OwedWasPaid, PaidAttempts
<1>5. Matches(reservation'[h].status, PaidAttempts(h)', owedNext(h))
  <2>1. CASE /\ reservation[h].status = "PENDING_PAYMENT"
             /\ reservation'[h].status = "CONFIRMED"
             /\ refundRequired' = refundRequired
    <3>1. PaidAttempts(h) = {}
      BY <1>1, <2>1 DEF Unpaid
    <3>2. PaidAttempts(h)' = {k} /\ owedNext(h) = {}
      BY <1>3, <1>4, <2>1, <3>1
    <3>3. Cardinality({k}) = 1
      BY FS_Singleton
    <3> QED
      BY <2>1, <3>2, <3>3 DEF Served, Unpaid
  <2>2. CASE /\ reservation'[h].status = "REFUND_PENDING"
             /\ refundRequired' = refundRequired \cup {<<h, k>>}
    <3>1. owedNext(h) = Owed(h) \cup {k}
      BY <2>2
    <3>2. k \notin PaidAttempts(h) /\ k \notin Owed(h)
      BY <1>4, <1>0 DEF PaidAttempts
    <3>3. PaidAttempts(h)' \ owedNext(h) = PaidAttempts(h) \ Owed(h)
      BY <1>3, <3>1, <3>2
    <3>4. Cardinality(PaidAttempts(h) \ Owed(h)) <= 1
      <4> DEFINE rest == PaidAttempts(h) \ Owed(h)
      <4>1. ASSUME reservation[h].status \in Served PROVE Cardinality(rest) <= 1
        <5>1. Cardinality(PaidAttempts(h)) = 1 /\ Owed(h) = {}
          BY <1>1, <4>1
        <5>2. rest = PaidAttempts(h)
          BY <5>1
        <5> HIDE DEF rest
        <5> QED
          BY <5>1, <5>2
      <4>2. ASSUME reservation[h].status \in Unpaid PROVE Cardinality(rest) <= 1
        <5>1. rest = {}
          BY <1>1, <4>2
        <5> HIDE DEF rest
        <5>2. Cardinality(rest) = 0
          BY <5>1, FS_EmptySet
        <5> QED
          BY <5>2
      <4>3. ASSUME reservation[h].status = "REFUND_PENDING" PROVE Cardinality(rest) <= 1
        BY <1>1, <4>3
      <4>4. reservation[h].status \in ReservationStatus
        BY DEF TypeOK, ReservationRow
      <4>5. reservation[h].status \in Served \cup Unpaid \cup {"REFUND_PENDING"}
        BY <4>4 DEF ReservationStatus, Served, Unpaid
      <4> HIDE DEF rest
      <4>6. Cardinality(rest) <= 1
        BY <4>1, <4>2, <4>3, <4>5
      <4> QED
        BY <4>6 DEF rest
    <3>5. owedNext(h) # {}
      BY <3>1
    <3>6. Cardinality(PaidAttempts(h)' \ owedNext(h)) <= 1
      BY <3>3, <3>4
    <3> HIDE DEF owedNext
    <3> QED
      BY <2>2, <3>5, <3>6 DEF Served, Unpaid
  <2> QED
    BY <2>1, <2>2, <1>0 DEF PaymentCounts
<1>6. PaymentsMatchBookings'
  <2>1. \A g \in Holds : Matches(reservation'[g].status, PaidAttempts(g)', owedNext(g))
    BY <1>1, <1>2, <1>5
  <2> QED
    BY <2>1 DEF PaymentsMatchBookings, Unpaid
<1>7. OwedWasPaid'
  <2> SUFFICES ASSUME NEW g \in Holds, NEW l \in PayKeys, <<g, l>> \in refundRequired'
               PROVE  payment'[<<g, l>>].status = "PAID"
    BY DEF OwedWasPaid
  <2>1. CASE <<g, l>> = <<h, k>>
    <3>1. payment'[<<h, k>>].status = "PAID"
      BY <1>0
    <3> QED
      BY <2>1, <3>1
  <2>2. CASE <<g, l>> # <<h, k>>
    <3>1. payment'[<<g, l>>] = payment[<<g, l>>]
      BY <2>2, <1>0 DEF Payments
    <3>2. <<g, l>> \in refundRequired
      <4>1. refundRequired' = refundRequired \/ refundRequired' = refundRequired \cup {<<h, k>>}
        BY <1>0 DEF PaymentCounts
      <4> QED
        BY <2>2, <4>1
    <3> QED
      BY <3>1, <3>2 DEF OwedWasPaid
  <2> QED
    BY <2>1, <2>2
<1> QED
  BY <1>6, <1>7

\* Operators and the POS collect nothing.
LEMMA ApplyKeepsSides ==
  ASSUME TypeOK, NEW m \in Mutations, ApplyOperation(m)
  PROVE  /\ SamePaid
         /\ \A h \in Holds :
              \/ reservation'[h].status = reservation[h].status
              \/ {reservation[h].status, reservation'[h].status} \subseteq Served
<1>1. PICK h \in Holds, a \in OperationAction :
        /\ reservation[h].status = SourceStatus[a] /\ reservation'[h].status = TargetStatus[a]
        /\ \A g \in Holds \ {h} : reservation'[g] = reservation[g]
        /\ UNCHANGED paymentVars
  BY ApplyMoves
<1>2. {SourceStatus[a], TargetStatus[a]} \subseteq Served
  BY DEF OperationAction, SourceStatus, TargetStatus, Served
<1> QED
  BY <1>1, <1>2 DEF SamePaid, paymentVars

\* Nothing starts a payment for a free event.
LEMMA FreeStaysFree ==
  ASSUME TypeOK, AllocationInv, FreeEventsTakeNoMoney, BookingAmount = 0, [Next]_vars
  PROVE  FreeEventsTakeNoMoney' /\ ~\E h \in Holds, k \in PayKeys : HandleCheckoutPaid(h, k)
<1>1. ASSUME NEW h \in Holds, NEW k \in PayKeys
      PROVE  /\ payment[<<h, k>>].status = "NONE" /\ stripeSession[<<h, k>>] = "NONE"
             /\ \A step \in CheckoutStep : <<<<h, k>>, step>> \notin checkouts
             /\ \A event \in StripeEvent : <<<<h, k>>, event>> \notin webhooks
  BY DEF FreeEventsTakeNoMoney, PaymentStarted
<1>2. checkouts = {} /\ webhooks = {}
  <2>1. checkouts \subseteq Payments \X CheckoutStep /\ webhooks \subseteq Payments \X StripeEvent
    BY DEF TypeOK
  <2> QED
    BY <1>1, <2>1 DEF Payments
<1>3. \A p \in Payments : stripeSession[p] = "NONE"
  BY <1>1 DEF Payments
<1>4. ~\E h \in Holds, k \in PayKeys : HandleCheckoutPaid(h, k)
  BY <1>2 DEF HandleCheckoutPaid, BookedOrOwed
<1>5. UNCHANGED paymentVars
  <2> USE DEF Elsewhere, ElsewhereThanFloor, Untouched
  <2>1. CASE Tick \/ Organiser \/ UNCHANGED vars
    BY <2>1
    DEF Tick, Organiser, ReplaceTables, MergeTables, SplitGroup, PublishEvent, CancelEvent,
        ArchiveEvent, vars
  <2>2. CASE Customer
    BY <2>2 DEF Customer, CreateHold, TakeUnit, RepeatCreateHold, GetHold, CancelHold, Convert, NewReservation, PassOn,
                PrepareCheckout, CheckoutAllowed
  <2>3. ~Checkout
    BY <1>2 DEF Checkout, CreateStripeSession, AttachCheckoutSession, LoseCheckout
  <2>4. ~StripeSide
    BY <1>3 DEF StripeSide, CustomerPays, CardDeclined, StripeSessionExpires, StripeMoves
  <2>5. ~Webhook
    BY <1>2, <1>4 DEF Webhook, HandleCheckoutExpired, HandlePaymentIntentFailed,
                      MarkPaymentAttemptFailed
  <2>6. CASE Operator \/ Pos
    BY <2>6 DEF Operator, SubmitOperation, ApplyOperation, Pos, OpenTableSession,
                FinishWalkIn, FinishReservationSession, MoveReservationSession
  <2>7. CASE Worker
    BY <2>7 DEF Worker, ExpireHoldsJob, ExpirePaymentsJob
  <2> QED
    BY <2>1, <2>2, <2>3, <2>4, <2>5, <2>6, <2>7 DEF Next
<1>6. FreeEventsTakeNoMoney'
  BY <1>5 DEF FreeEventsTakeNoMoney, PaymentStarted, paymentVars
<1> QED
  BY <1>4, <1>6

\* The inductive step.
LEMMA NextMoneyInv ==
  ASSUME TypeOK, AllocationInv, MoneyInv, [Next]_vars
  PROVE  MoneyInv'
<1>1. BookingAmount \in Nat
  BY BookingAssumption
<1>2. CASE BookingAmount = 0
  <2>1. FreeEventsTakeNoMoney' /\ ~\E h \in Holds, k \in PayKeys : HandleCheckoutPaid(h, k)
    BY <1>2, FreeStaysFree DEF MoneyInv
  <2>2. SamePaid
    BY <2>1, MoneySteps, ApplyKeepsSides
    DEF Pos, OpenTableSession, FinishWalkIn, FinishReservationSession,
        MoveReservationSession, ElsewhereThanFloor, SamePaid, paymentVars
  <2>3. OwedWasPaid'
    BY <2>2 DEF MoneyInv, OwedWasPaid, SamePaid, Payments
  <2> QED
    BY <1>2, <2>1, <2>3 DEF MoneyInv, PaymentsMatchBookings
<1>3. CASE BookingAmount > 0
  <2>1. ASSUME NEW m \in Mutations, ApplyOperation(m) PROVE OwedWasPaid' /\ PaymentsMatchBookings'
    BY <1>3, <2>1, ApplyKeepsSides, SamePaidKeepsMoney DEF MoneyInv
  <2>2. ASSUME Pos PROVE OwedWasPaid' /\ PaymentsMatchBookings'
    BY <1>3, <2>2, SamePaidKeepsMoney
    DEF Pos, OpenTableSession, FinishWalkIn, FinishReservationSession,
        MoveReservationSession, ElsewhereThanFloor, SamePaid, paymentVars, MoneyInv
  <2>3. ASSUME NEW h \in Holds, StatusMove(h)
        PROVE  \/ reservation'[h].status = reservation[h].status
               \/ {reservation[h].status, reservation'[h].status} \subseteq Unpaid
    BY <1>3, <2>3 DEF StatusMove, Unpaid
  <2>4. ASSUME SamePaid, \A h \in Holds : StatusMove(h)
        PROVE  OwedWasPaid' /\ PaymentsMatchBookings'
    BY <1>3, <2>3, <2>4, SamePaidKeepsMoney DEF MoneyInv
  <2>5. OwedWasPaid' /\ PaymentsMatchBookings'
    BY <1>3, <2>1, <2>2, <2>4, MoneySteps, CheckoutPaidKeepsMoney DEF MoneyInv
  <2> QED
    BY <1>3, <2>5 DEF MoneyInv, FreeEventsTakeNoMoney
<1> QED
  BY <1>1, <1>2, <1>3

LEMMA MoneyInvariant == Spec => []MoneyInv
<1>1. Init => MoneyInv
  BY DEF Init, MoneyInv, OwedWasPaid, FreeEventsTakeNoMoney, PaymentStarted,
         PaymentsMatchBookings, PaidAttempts, Payments, Served
<1>2. TypeOK /\ AllocationInv /\ MoneyInv /\ [Next]_vars => MoneyInv'
  BY NextMoneyInv
<1> QED
  BY <1>1, <1>2, TypeCorrect, AllocationInvariant, PTL DEF Spec

(***************************************************************************)
(* Money and bookings agree in every order of checkouts, deadlines and     *)
(* webhooks: a booking that is served was paid for exactly once, one that  *)
(* waits or expired has collected nothing, and money that came too late is *)
(* owed back.                                                              *)
(***************************************************************************)
THEOREM MoneyMatchesBookings == Spec => []PaymentsMatchBookings
<1>1. MoneyInv => PaymentsMatchBookings
  BY DEF MoneyInv
<1> QED
  BY <1>1, MoneyInvariant, PTL

-----------------------------------------------------------------------------
(***************************************************************************)
(* Guests in the house.  What a free event adds rests on nothing being     *)
(* paid for it (FreeEventsTakeNoMoney): there no payment can take a        *)
(* reservation away from guests who sit.                                   *)
(***************************************************************************)
\* Steps that leave the tables alone and admit or dismiss nobody.
LEMMA SameFloorKeepsSeats ==
  ASSUME AllocationInv', GuestsAreSeated, UNCHANGED floorVars,
         \A h \in Holds :
           \/ reservation'[h].status = reservation[h].status
           \/ /\ reservation'[h].status \notin {"CHECKED_IN", "SEATED", "COMPLETED"}
              /\ BookingAmount = 0 => reservation[h].status \notin {"CHECKED_IN", "SEATED"}
  PROVE  GuestsAreSeated'
<1>1. tableSession' = tableSession /\ walkIns' = walkIns
  BY DEF floorVars
<1>2. OnePartyPerTable'
  BY <1>1 DEF GuestsAreSeated, OnePartyPerTable, OpenSessions
<1>3. ASSUME NEW h \in Holds
      PROVE  /\ reservation'[h].status \in {"CHECKED_IN", "SEATED"} =>
                  tableSession'[h].status # "NONE"
             /\ reservation'[h].status = "COMPLETED" => tableSession'[h].status = "CLOSED"
  BY <1>1 DEF GuestsAreSeated, SessionsFollowReservations
<1>4. ASSUME NEW h \in Holds, BookingAmount = 0, tableSession'[h].status = "OPEN"
      PROVE  Allocated(h)' /\ reservation'[h].status \in {"CHECKED_IN", "SEATED"}
  <2>1. reservation'[h].status \in {"CHECKED_IN", "SEATED"}
    BY <1>1, <1>4 DEF GuestsAreSeated, SessionsFollowReservations, OpenSessions
  <2> QED
    BY <2>1 DEF AllocationInv, TableInv, LiveBookingsHoldTables
<1>5. SessionsFollowReservations'
  BY <1>3, <1>4 DEF SessionsFollowReservations, OpenSessions
<1> QED
  BY <1>2, <1>5 DEF GuestsAreSeated

\* The tables of the parties that sit are occupied.
LEMMA PartiesOccupy ==
  /\ walkIns \subseteq OccupiedTables
  /\ \A h \in OpenSessions : tableSession[h].at \subseteq OccupiedTables
BY DEF OccupiedTables, OpenSessions

\* A party at a table that nobody occupies: checked in, or moved there.
LEMMA SittingDown ==
  ASSUME TypeOK, OnePartyPerTable, NEW h \in Holds, NEW t \in Tables, t \notin OccupiedTables,
         tableSession'[h].status = "OPEN" /\ tableSession'[h].at = {t},
         \A g \in Holds \ {h} : tableSession'[g] = tableSession[g],
         walkIns' = walkIns
  PROVE  OnePartyPerTable'
<1>1. \A g \in OpenSessions' \ {h} : /\ g \in OpenSessions
                                     /\ tableSession'[g].at = tableSession[g].at
  BY DEF OpenSessions
<1>2. {t} \cap walkIns = {} /\ \A g \in OpenSessions : tableSession[g].at \cap {t} = {}
  BY PartiesOccupy
<1>3. ASSUME NEW g \in OpenSessions'
      PROVE  tableSession'[g].at \cap walkIns' = {}
  <2>1. CASE g = h
    BY <1>2, <2>1
  <2>2. CASE g # h
    BY <1>1, <2>2 DEF OnePartyPerTable
  <2> QED
    BY <2>1, <2>2
<1>4. ASSUME NEW g \in OpenSessions', NEW f \in OpenSessions' \ {g}
      PROVE  tableSession'[f].at \cap tableSession'[g].at = {}
  <2>1. CASE g = h
    BY <1>1, <1>2, <2>1
  <2>2. CASE f = h
    BY <1>1, <1>2, <1>4, <2>2
  <2>3. CASE g # h /\ f # h
    BY <1>1, <2>3 DEF OnePartyPerTable
  <2> QED
    BY <2>1, <2>2, <2>3
<1> QED
  BY <1>3, <1>4 DEF OnePartyPerTable

\* An operator admits guests to a free table, and dismisses those whose bill is closed.
LEMMA ApplyKeepsSeats ==
  ASSUME TypeOK, AllocationInv', GuestsAreSeated, NEW m \in Mutations, ApplyOperation(m)
  PROVE  GuestsAreSeated'
<1>1. PICK h \in Holds, a \in OperationAction :
        /\ reservation[h].status = SourceStatus[a] /\ reservation'[h].status = TargetStatus[a]
        /\ \A g \in Holds \ {h} : reservation'[g] = reservation[g]
        /\ IF a = "check-in" THEN OpenReservationTableSession(h) ELSE UNCHANGED tableSession
        /\ a = "complete" => TableSessionClosed(h)
        /\ UNCHANGED walkIns
  BY ApplyMoves
<1>2. /\ OnePartyPerTable
      /\ \A g \in Holds :
           /\ reservation[g].status \in {"CHECKED_IN", "SEATED"} =>
                tableSession[g].status # "NONE"
           /\ reservation[g].status = "COMPLETED" => tableSession[g].status = "CLOSED"
           /\ BookingAmount = 0 /\ tableSession[g].status = "OPEN" =>
                reservation[g].status \in {"CHECKED_IN", "SEATED"}
  BY DEF GuestsAreSeated, SessionsFollowReservations, OpenSessions
<1>3. ASSUME NEW g \in Holds, reservation'[g].status \in {"CHECKED_IN", "SEATED"}
      PROVE  Allocated(g)'
  BY <1>3 DEF AllocationInv, TableInv, LiveBookingsHoldTables
<1>4. CASE a = "check-in"
  <2>1. PICK t \in Tables :
          /\ t \notin OccupiedTables
          /\ tableSession' = [tableSession EXCEPT ![h] = [status |-> "OPEN", at |-> {t}]]
    BY <1>1, <1>4 DEF OpenReservationTableSession
  <2>2. /\ tableSession'[h].status = "OPEN" /\ tableSession'[h].at = {t}
        /\ \A g \in Holds \ {h} : tableSession'[g] = tableSession[g]
    BY <2>1 DEF TypeOK
  <2>3. OnePartyPerTable'
    BY <1>1, <1>2, <2>1, <2>2, SittingDown
  <2>4. reservation'[h].status = "CHECKED_IN"
    BY <1>1, <1>4 DEF TargetStatus, OperationAction
  <2>5. SessionsFollowReservations'
    BY <1>1, <1>2, <1>3, <2>2, <2>4 DEF SessionsFollowReservations, OpenSessions
  <2> QED
    BY <2>3, <2>5 DEF GuestsAreSeated
<1>5. CASE a # "check-in"
  <2>1. tableSession' = tableSession /\ walkIns' = walkIns
    BY <1>1, <1>5
  <2>2. OnePartyPerTable'
    BY <1>2, <2>1 DEF OnePartyPerTable, OpenSessions
  <2>3. \/ a = "seat" /\ reservation[h].status = "CHECKED_IN" /\ reservation'[h].status = "SEATED"
        \/ a = "complete" /\ reservation'[h].status = "COMPLETED"
        \/ /\ a = "no-show" /\ reservation[h].status = "CONFIRMED"
           /\ reservation'[h].status = "NO_SHOW"
    BY <1>1, <1>5 DEF OperationAction, SourceStatus, TargetStatus
  <2>4. a = "complete" => tableSession[h].status = "CLOSED"
    BY <1>1 DEF TableSessionClosed
  <2>5. ASSUME NEW g \in Holds
        PROVE  /\ reservation'[g].status \in {"CHECKED_IN", "SEATED"} =>
                    tableSession'[g].status # "NONE"
               /\ reservation'[g].status = "COMPLETED" => tableSession'[g].status = "CLOSED"
               /\ BookingAmount = 0 /\ tableSession'[g].status = "OPEN" =>
                    reservation'[g].status \in {"CHECKED_IN", "SEATED"}
    <3>1. CASE g = h
      BY <1>2, <2>1, <2>3, <2>4, <3>1
    <3>2. CASE g # h
      BY <1>1, <1>2, <2>1, <3>2
    <3> QED
      BY <3>1, <3>2
  <2>6. SessionsFollowReservations'
    BY <1>3, <2>5 DEF SessionsFollowReservations, OpenSessions
  <2> QED
    BY <2>2, <2>6 DEF GuestsAreSeated
<1> QED
  BY <1>4, <1>5

\* The POS seats parties at free tables only.
LEMMA PosKeepsSeats ==
  ASSUME TypeOK, GuestsAreSeated, Pos
  PROVE  GuestsAreSeated'
<1>1. UNCHANGED <<reservation, allocationVars>>
  BY DEF Pos, OpenTableSession, FinishWalkIn, FinishReservationSession,
         MoveReservationSession, ElsewhereThanFloor
<1>2. /\ tableSession \in [Holds -> TableSessionRow]
      /\ OnePartyPerTable /\ SessionsFollowReservations
  BY DEF TypeOK, GuestsAreSeated
<1>3. ASSUME NEW t, OpenTableSession(t) PROVE OnePartyPerTable' /\ tableSession' = tableSession
  <2>1. walkIns' = walkIns \cup {t} /\ tableSession' = tableSession /\ t \notin OccupiedTables
    BY <1>3 DEF OpenTableSession
  <2>2. \A h \in OpenSessions : tableSession[h].at \cap {t} = {}
    BY <2>1, PartiesOccupy
  <2> QED
    BY <1>2, <2>1, <2>2 DEF OnePartyPerTable, OpenSessions
<1>4. ASSUME NEW t, FinishWalkIn(t) PROVE OnePartyPerTable' /\ tableSession' = tableSession
  BY <1>2, <1>4 DEF FinishWalkIn, OnePartyPerTable, OpenSessions
<1>5. ASSUME NEW h \in Holds, NEW next \in {"CLOSED", "CANCELLED"},
             FinishReservationSession(h, next)
      PROVE  OnePartyPerTable' /\ SessionsFollowReservations'
  <2>1. /\ tableSession[h].status = "OPEN" /\ tableSession'[h].status = next
        /\ \A g \in Holds \ {h} : tableSession'[g] = tableSession[g]
        /\ walkIns' = walkIns
    <3>1. tableSession[h] \in TableSessionRow
      BY <1>2
    <3> QED
      BY <1>2, <1>5, <3>1 DEF FinishReservationSession, TableSessionRow
  <2>2. OpenSessions' \subseteq OpenSessions /\ h \notin OpenSessions'
    BY <2>1 DEF OpenSessions
  <2>3. \A g \in OpenSessions' : tableSession'[g] = tableSession[g]
    BY <2>1, <2>2 DEF OpenSessions
  <2>4. OnePartyPerTable'
    BY <1>2, <2>1, <2>2, <2>3 DEF OnePartyPerTable
  <2>5. SessionsFollowReservations'
    BY <1>1, <1>2, <2>1 DEF SessionsFollowReservations, OpenSessions, Allocated, allocationVars
  <2> QED
    BY <2>4, <2>5
<1>6. ASSUME NEW h \in Holds, NEW t \in Tables, MoveReservationSession(h, t)
      PROVE  OnePartyPerTable' /\ SessionsFollowReservations'
  <2>1. /\ tableSession[h].status = "OPEN" /\ tableSession'[h].status = "OPEN"
        /\ tableSession'[h].at = {t} /\ t \notin OccupiedTables
        /\ \A g \in Holds \ {h} : tableSession'[g] = tableSession[g]
        /\ walkIns' = walkIns
    <3>1. tableSession[h] \in TableSessionRow
      BY <1>2
    <3> QED
      BY <1>2, <1>6, <3>1 DEF MoveReservationSession, TableSessionRow
  <2>2. OnePartyPerTable'
    BY <1>2, <2>1, SittingDown
  <2>3. SessionsFollowReservations'
    BY <1>1, <1>2, <2>1 DEF SessionsFollowReservations, OpenSessions, Allocated, allocationVars
  <2> QED
    BY <2>2, <2>3
<1>7. tableSession' = tableSession => SessionsFollowReservations'
  BY <1>1, <1>2 DEF SessionsFollowReservations, OpenSessions, Allocated, allocationVars
<1> QED
  BY <1>3, <1>4, <1>5, <1>6, <1>7 DEF Pos, GuestsAreSeated

\* The inductive step.
LEMMA NextSeats ==
  ASSUME TypeOK, AllocationInv, AllocationInv', MoneyInv, GuestsAreSeated, [Next]_vars
  PROVE  GuestsAreSeated'
<1>1. ASSUME NEW h \in Holds, NEW k \in PayKeys, HandleCheckoutPaid(h, k)
      PROVE  GuestsAreSeated'
  <2>1. BookingAmount # 0
    BY <1>1, FreeStaysFree DEF MoneyInv
  <2>2. UNCHANGED floorVars
    BY <1>1 DEF HandleCheckoutPaid, BookedOrOwed, ElsewhereThanPayments
  <2>3. /\ \A g \in Holds \ {h} : reservation'[g] = reservation[g]
        /\ reservation'[h].status \in {"CONFIRMED", "REFUND_PENDING"}
    BY <1>1, PaidCheckoutFacts DEF PaymentCounts
  <2> QED
    BY <2>1, <2>2, <2>3, SameFloorKeepsSeats
<1>2. ASSUME UNCHANGED floorVars, \A h \in Holds : StatusMove(h) PROVE GuestsAreSeated'
  BY <1>2, SameFloorKeepsSeats DEF StatusMove
<1> QED
  BY <1>1, <1>2, MoneySteps, ApplyKeepsSeats, PosKeepsSeats

(***************************************************************************)
(* One party sits at a table; guests who checked in have a session, those  *)
(* who left have closed it, and while the session of a free event is open  *)
(* its reservation keeps a table.                                          *)
(***************************************************************************)
THEOREM GuestsStaySeated == Spec => []GuestsAreSeated
<1>1. Init => GuestsAreSeated
  BY DEF Init, GuestsAreSeated, OnePartyPerTable, SessionsFollowReservations, OpenSessions
<1>2. TypeOK /\ AllocationInv /\ AllocationInv' /\ MoneyInv /\ GuestsAreSeated /\ [Next]_vars
        => GuestsAreSeated'
  BY NextSeats
<1> QED
  BY <1>1, <1>2, TypeCorrect, AllocationInvariant, MoneyInvariant, PTL DEF Spec
=============================================================================
