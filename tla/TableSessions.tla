--------------------------- MODULE TableSessions ---------------------------
(***************************************************************************)
(* HospitalityService: a party sits at a table (a table session), orders   *)
(* are put on its bill, the party moves, and the bill is closed once all   *)
(* its orders are paid or cancelled.  Whether a table is active, and       *)
(* whether it is free when it is deactivated, is looked up before the      *)
(* write and outside its transaction: `checked' holds the requests in      *)
(* between.                                                                *)
(***************************************************************************)
EXTENDS PosState

SettledStatus == {"PAID", "CANCELLED"}

(***************************************************************************)
(* Mistakes this code could contain and does not: each, in the place of    *)
(* the definition it is a variant of, makes a property fail.               *)
(***************************************************************************)
\* The unique key of the open session is not written when a party moves.
TableIsFreeAfterCheck(s, t) == TRUE

-----------------------------------------------------------------------------
OpenSessions == {s \in Sessions : session[s].status = "OPEN"}

Request(kind, s, t) == [request |-> kind, session |-> s, table |-> t]

\* A change of a session moves its version: requests made before are refused.
RefuseOlder(s) == {r \in checked : r.session # s}

\* openSession and moveSession, first query: requireTable.
CheckOpen(s, t) ==
  /\ session[s].status = "NONE" /\ t \in active
  /\ checked' = checked \cup {Request("OPEN", s, t)}
  /\ UNCHANGED <<orderVars, kitchenVars, active, session, attached, moneyVars>>

CheckMove(s, t) ==
  /\ s \in OpenSessions /\ t \in active
  /\ checked' = checked \cup {Request("MOVE", s, t)}
  /\ UNCHANGED <<orderVars, kitchenVars, active, session, attached, moneyVars>>

\* The unique index on active_table_key: one open session for each table.
TableIsFree(s, t) == \A z \in OpenSessions \ {s} : session[z].table # t

OpenSession(s, t) ==
  /\ Request("OPEN", s, t) \in checked
  /\ TableIsFree(s, t)
  /\ session' = [session EXCEPT ![s] = [status |-> "OPEN", table |-> t]]
  /\ checked' = RefuseOlder(s)
  /\ UNCHANGED <<orderVars, kitchenVars, active, attached, moneyVars>>

MoveSession(s, t) ==
  /\ Request("MOVE", s, t) \in checked
  /\ s \in OpenSessions /\ TableIsFree(s, t)
  /\ session' = [session EXCEPT ![s].table = t]
  /\ checked' = RefuseOlder(s)
  /\ UNCHANGED <<orderVars, kitchenVars, active, attached, moneyVars>>

\* updateSession: guests and note; the version moves.
UpdateSession(s) ==
  /\ s \in OpenSessions
  /\ checked' = RefuseOlder(s)
  /\ UNCHANGED <<orderVars, kitchenVars, active, session, attached, moneyVars>>

\* attachOrder: under the locks of the session and of the order.
AttachOrder(s, o) ==
  /\ s \in OpenSessions
  /\ order[o].status \in {"OPEN", "HELD"} /\ AtVersion(o)
  /\ attached[o] = Nowhere
  /\ attached' = [attached EXCEPT ![o] = s]
  /\ order' = IF order[o].mode = "TABLE" THEN order ELSE [Bumped(o) EXCEPT ![o].mode = "TABLE"]
  /\ checked' = RefuseOlder(s)
  /\ UNCHANGED <<quantity, shown, kitchenVars, active, session, moneyVars>>

Settled(s) == \A o \in Orders : attached[o] = s => order[o].status \in SettledStatus

\* finishSession: closeSession and cancelSession.
FinishSession(s, next) ==
  /\ s \in OpenSessions
  /\ Settled(s)
  /\ session' = [session EXCEPT ![s].status = next]
  /\ checked' = RefuseOlder(s)
  /\ UNCHANGED <<orderVars, kitchenVars, active, attached, moneyVars>>

\* updateTable: the check, and later the write.
CheckDeactivate(t) ==
  /\ t \in active
  /\ \A s \in OpenSessions : session[s].table # t
  /\ checked' = checked \cup {Request("DEACTIVATE", Nowhere, t)}
  /\ UNCHANGED <<orderVars, kitchenVars, active, session, attached, moneyVars>>

DeactivateTable(t) ==
  /\ Request("DEACTIVATE", Nowhere, t) \in checked
  /\ active' = active \ {t}
  /\ checked' = checked \ {Request("DEACTIVATE", Nowhere, t)}
  /\ UNCHANGED <<orderVars, kitchenVars, session, attached, moneyVars>>

ActivateTable(t) ==
  /\ t \notin active
  /\ active' = active \cup {t}
  /\ UNCHANGED <<orderVars, kitchenVars, tableVars, moneyVars>>

\* A request that fails, or whose client gives up.
Refuse(r) ==
  /\ checked' = checked \ {r}
  /\ UNCHANGED <<orderVars, kitchenVars, active, session, attached, moneyVars>>

TablesNext ==
  \/ \E s \in Sessions :
       \/ \E t \in Tables : CheckOpen(s, t) \/ OpenSession(s, t) \/ CheckMove(s, t)
                            \/ MoveSession(s, t)
       \/ \E o \in Orders : AttachOrder(s, o)
       \/ \E next \in {"CLOSED", "CANCELLED"} : FinishSession(s, next)
       \/ UpdateSession(s)
  \/ \E t \in Tables : CheckDeactivate(t) \/ DeactivateTable(t) \/ ActivateTable(t)
  \/ \E r \in checked : Refuse(r)
=============================================================================
