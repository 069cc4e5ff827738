----------------------- MODULE ReservationOperations -----------------------
(***************************************************************************)
(* The Control Center operations on a confirmed reservation, and the table *)
(* sessions of the POS they depend on.                                     *)
(*                                                                         *)
(* An operator acts on what a screen showed: a request carries the version *)
(* that was read and a mutationId, arrives later, and may arrive again.    *)
(***************************************************************************)
EXTENDS BookingState

(***************************************************************************)
(* Mistakes this code could contain and does not: each, in the place of    *)
(* the definition it is a variant of, makes a property fail.               *)
(***************************************************************************)
\* A session blocks the table it was opened on, not the one it moved to.
TablesOfAssignments ==
  walkIns \cup UNION {assignment[h].unit : h \in {g \in Holds : tableSession[g].status = "OPEN"}}

\* Any version up to the current one is accepted.
VersionNotAhead(r) == r.version <= reservation[r.target].version

-----------------------------------------------------------------------------
SourceStatus ==
  [a \in OperationAction |->
     CASE a = "seat" -> "CHECKED_IN" [] a = "complete" -> "SEATED" [] OTHER -> "CONFIRMED"]
TargetStatus ==
  [a \in OperationAction |->
     CASE a = "check-in" -> "CHECKED_IN" [] a = "seat" -> "SEATED"
       [] a = "complete" -> "COMPLETED" [] a = "no-show" -> "NO_SHOW"]

\* Tables with an OPEN session: active_table_key is unique among them.
OccupiedTables ==
  walkIns \cup UNION {tableSession[h].at : h \in {g \in Holds : tableSession[g].status = "OPEN"}}

ElsewhereThanFloor ==
  UNCHANGED <<now, inventoryVars, hold, allocationVars, reservation, paymentVars,
              operationVars>>

(***************************************************************************)
(* Requests.  operation[m] is empty until the operator uses mutationId m.  *)
(***************************************************************************)
SubmitOperation(m, h, a) ==
  /\ operation[m] = {}
  /\ reservation[h].status # "NONE"
  /\ operation' = [operation EXCEPT ![m] =
       {[target |-> h, action |-> a, version |-> reservation[h].version]}]
  /\ UNCHANGED <<now, inventoryVars, hold, allocationVars, reservation, paymentVars,
                 floorVars, applied>>

\* Check-in opens a table session; only a single table can be opened.
OpenReservationTableSession(h) ==
  /\ tableSession[h].status = "NONE"
  /\ \E t \in Tables :
       /\ assignment[h] = [status |-> "ACTIVE", owner |-> "RESERVATION", unit |-> {t}]
       /\ t \notin OccupiedTables
       /\ tableSession' = [tableSession EXCEPT ![h] = [status |-> "OPEN", at |-> {t}]]

VersionCurrent(r) == reservation[r.target].version = r.version

TableSessionClosed(h) == tableSession[h].status = "CLOSED"

(***************************************************************************)
(* apply: one transaction.  A mutationId in audit_events is not applied    *)
(* again, and the version must still be the one the operator read.         *)
(***************************************************************************)
ApplyOperation(m) ==
  /\ m \notin applied
  /\ \E r \in operation[m] :
       LET h == r.target IN
       /\ VersionCurrent(r)
       /\ reservation[h].status = SourceStatus[r.action]
       /\ IF r.action = "check-in" THEN OpenReservationTableSession(h)
                                   ELSE UNCHANGED tableSession
       /\ r.action = "complete" => TableSessionClosed(h)
       /\ reservation' = [reservation EXCEPT ![h].status = TargetStatus[r.action],
                                             ![h].version = @ + 1]
       /\ IF r.action \in {"complete", "no-show"} THEN Release({h}, "RESERVATION")
                                                  ELSE UNCHANGED allocationVars
  /\ applied' = applied \cup {m}
  /\ UNCHANGED <<now, inventoryVars, hold, paymentVars, walkIns, operation>>

(***************************************************************************)
(* The POS.  Whether the orders of a session are all closed, which closing *)
(* the session requires, is left open.                                     *)
(***************************************************************************)
OpenTableSession(t) ==
  /\ t \notin OccupiedTables
  /\ walkIns' = walkIns \cup {t}
  /\ UNCHANGED tableSession
  /\ ElsewhereThanFloor

FinishWalkIn(t) ==
  /\ t \in walkIns
  /\ walkIns' = walkIns \ {t}
  /\ UNCHANGED tableSession
  /\ ElsewhereThanFloor

FinishReservationSession(h, next) ==
  /\ tableSession[h].status = "OPEN"
  /\ next \in {"CLOSED", "CANCELLED"}
  /\ tableSession' = [tableSession EXCEPT ![h].status = next]
  /\ UNCHANGED walkIns
  /\ ElsewhereThanFloor

\* The POS moves the guests; the reservation keeps its assignment.
MoveReservationSession(h, t) ==
  /\ tableSession[h].status = "OPEN"
  /\ t \notin OccupiedTables
  /\ tableSession' = [tableSession EXCEPT ![h].at = {t}]
  /\ UNCHANGED walkIns
  /\ ElsewhereThanFloor
=============================================================================
