--------------------------- MODULE EventInventory ---------------------------
(***************************************************************************)
(* The organiser's operations on the event and on its table inventory:     *)
(* choosing the tables of a draft, merging tables into a group, splitting  *)
(* a group, publishing, cancelling and archiving.                          *)
(*                                                                         *)
(* Merging and splitting stay possible after publication, while customers  *)
(* hold tables.                                                            *)
(***************************************************************************)
EXTENDS BookingState

Unassigned(unit) == unit \cap KeyedTables({}) = {}

InventoryMutable == eventStatus \in {"DRAFT", "PUBLISHED"}

InventorySeats == SumFunction([u \in inventory |-> UnitSeats(u)])
LargestUnit == Max({UnitSeats(u) : u \in inventory})

Untouched == UNCHANGED <<now, hold, allocationVars, reservation, paymentVars,
                         floorVars, operationVars>>

(***************************************************************************)
(* replaceTables rewrites the inventory rows of a draft.  It deletes group *)
(* units with the rest but leaves event_table_groups and its members.      *)
(***************************************************************************)
ReplaceTables(S) ==
  /\ eventStatus = "DRAFT"
  /\ S # {} => /\ UnitSeats(S) >= EventCapacity
               /\ MaxPartySize <= EventCapacity
               /\ \E t \in S : MaxPartySize <= Seats[t]
  /\ inventory' = {{t} : t \in S}
  /\ UNCHANGED <<eventStatus, groups>>
  /\ Untouched

(***************************************************************************)
(* A table belongs to one group of an event at most (a unique index on the *)
(* members), also when the group has lost its inventory unit.              *)
(***************************************************************************)
MergeTables(S) ==
  /\ InventoryMutable
  /\ Cardinality(S) >= 2
  /\ \A t \in S : {t} \in inventory
  /\ Unassigned(S)
  /\ \A g \in groups : g \cap S = {}
  /\ groups' = groups \cup {S}
  /\ inventory' = (inventory \ {{t} : t \in S}) \cup {S}
  /\ UNCHANGED eventStatus
  /\ Untouched

(***************************************************************************)
(* Splitting offers every member as a unit of its own again and deletes    *)
(* the group.  The delete sets table_group_id to NULL in each assignment   *)
(* that ever used the group, RELEASED ones too, and a check constraint     *)
(* (one of dining_table_id and table_group_id is set) then refuses it.     *)
(***************************************************************************)
GroupDeletable(g) == \A h \in Holds : assignment[h].unit # g

SplitAllowed(g) == InventoryMutable /\ Unassigned(g) /\ GroupDeletable(g)

SplitGroup(g) ==
  /\ g \in groups
  /\ SplitAllowed(g)
  /\ groups' = groups \ {g}
  /\ inventory' = (inventory \ {g}) \cup {{t} : t \in g}
  /\ UNCHANGED eventStatus
  /\ Untouched

PublishEvent ==
  /\ eventStatus = "DRAFT"
  /\ now < StartsAt /\ now < BookingClosesAt
  /\ inventory # {}
  /\ InventorySeats >= EventCapacity
  /\ MaxPartySize <= EventCapacity /\ MaxPartySize <= LargestUnit
  /\ eventStatus' = "PUBLISHED"
  /\ UNCHANGED <<inventory, groups>>
  /\ Untouched

\* Cancelling leaves the holds and the reservations of the event as they are.
CancelEvent ==
  /\ eventStatus = "PUBLISHED"
  /\ eventStatus' = "CANCELLED"
  /\ UNCHANGED <<inventory, groups>>
  /\ Untouched

ArchiveEvent ==
  /\ eventStatus \in {"DRAFT", "CANCELLED"}
  /\ eventStatus' = "ARCHIVED"
  /\ UNCHANGED <<inventory, groups>>
  /\ Untouched
=============================================================================
