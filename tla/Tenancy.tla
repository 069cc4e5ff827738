------------------------------ MODULE Tenancy ------------------------------
(***************************************************************************)
(* One tenant: its plan, its merchants and its locations.  Administrators  *)
(* of the platform stop, restart and archive locations from a page that    *)
(* lists them; the tenant seats parties and publishes events there.  Both  *)
(* look first and write later: a stop looks for running activities, an     *)
(* activity looks whether its location is active, and neither locks what   *)
(* it has seen.                                                            *)
(***************************************************************************)
EXTENDS Integers, FiniteSets

CONSTANTS
  Locations, Merchants, Tables, Events,
  Administrators,    \* of the platform, each with one page: one request at a time
  Dates              \* bound: the days a temporary location opens and closes

ASSUME TenancyAssumption ==
  /\ Dates \subseteq Nat \ {0}
  /\ Tables \cap Events = {} /\ "NONE" \notin Locations \cup Merchants

VARIABLES
  organization,   \* organizations: its status
  subscription,   \* organization_subscriptions: plan and status
  merchant,       \* merchants: their status
  location,       \* locations, with the row of location_lifecycle
  page,           \* administrator -> the locations listed and the request under way
  admitted,       \* activities whose location was found active
  running,        \* table sessions so opened and published events, with their location
  reserved,       \* tables reserved for an event, held ones included, with their location
  arrived,        \* open table sessions that a check-in opened, with their location
  contested       \* history: locations where two requests overlapped

tenantVars == <<organization, subscription, merchant, location>>
pageVars == <<page, contested>>
activityVars == <<admitted, running, reserved, arrived>>

Plans == {"START", "SALA", "PRO"}
Activities == Tables \cup Events
NoDate == 0
Windows == [kind : {"PERMANENT", "TEMPORARY"}, from : Dates \cup {NoDate},
            until : Dates \cup {NoDate}]
NoWindow == [kind |-> "PERMANENT", from |-> NoDate, until |-> NoDate]

NoLocation == [merchant |-> "NONE", status |-> "NONE", lifecycle |-> "NONE",
               window |-> NoWindow, archivedAt |-> FALSE]
NoRequest == [step |-> "IDLE"]

TenancyInit ==
  /\ organization = "NONE"
  /\ subscription = [plan |-> "START", status |-> "NONE"]
  /\ merchant = [m \in Merchants |-> "NONE"]
  /\ location = [l \in Locations |-> NoLocation]
  /\ page = [a \in Administrators |->
               [listed |-> [l \in Locations |-> "NONE"], request |-> NoRequest]]
  /\ admitted = {} /\ running = {} /\ reserved = {} /\ arrived = {} /\ contested = {}

-----------------------------------------------------------------------------
(* The tenant *)

\* Two of the features a plan may lack: to set up tables, and to seat parties at them.
Includes(plan, feature) ==
  feature \in {"TABLES", "TABLE_SERVICE"} => plan \in {"SALA", "PRO"}

\* assertEntitlement.
Entitled(feature) ==
  /\ subscription.status \in {"ACTIVE", "TRIAL"}
  /\ Includes(subscription.plan, feature)

Existing == {l \in Locations : location[l].status # "NONE"}

NewLocation(m, lifecycle, window) ==
  [merchant |-> m, status |-> "ACTIVE", lifecycle |-> lifecycle,
   window |-> window, archivedAt |-> FALSE]

Subscribe(plan, status) ==
  subscription' = [plan |-> plan, status |-> status]

\* The organization, its plan and its owner only.
ProvisionOrganization(plan) ==
  /\ organization = "NONE"
  /\ organization' = "ACTIVE"
  /\ Subscribe(plan, "ACTIVE")
  /\ UNCHANGED <<merchant, location, pageVars, activityVars>>

\* onboard: the merchant and the first location too, in one transaction.  The location
\* gets no row in location_lifecycle.
OnboardTenant(l, m, plan) ==
  /\ organization = "NONE" /\ l \notin Existing
  /\ organization' = "ACTIVE"
  /\ Subscribe(plan, "ACTIVE")
  /\ merchant' = [merchant EXCEPT ![m] = "ACTIVE"]
  /\ location' = [location EXCEPT ![l] = NewLocation(m, "NONE", NoWindow)]
  /\ UNCHANGED <<pageVars, activityVars>>

SetSubscription(plan, status) ==
  /\ organization # "NONE"
  /\ Subscribe(plan, status)
  /\ UNCHANGED <<organization, merchant, location, pageVars, activityVars>>

CreateMerchant(m) ==
  /\ organization # "NONE" /\ merchant[m] = "NONE"
  /\ merchant' = [merchant EXCEPT ![m] = "ACTIVE"]
  /\ UNCHANGED <<organization, subscription, location, pageVars, activityVars>>

\* An update writes every field, those it was not asked to change as it read them.
UpdateMerchant(m, status) ==
  /\ merchant[m] # "NONE"
  /\ merchant' = [merchant EXCEPT ![m] = status]
  /\ UNCHANGED <<organization, subscription, location, pageVars, activityVars>>

\* LocationAccessService.assert, for a member with the permission; a location without a
\* lifecycle goes by its status.
Lifecycle(l) ==
  IF location[l].lifecycle = "NONE" THEN location[l].status ELSE location[l].lifecycle

Accessible(l) == location[l].status = "ACTIVE" /\ Lifecycle(l) = "ACTIVE"

\* The tenant's own create.
CreateLocation(l, m) ==
  /\ merchant[m] # "NONE" /\ l \notin Existing
  /\ location' = [location EXCEPT ![l] = NewLocation(m, "NONE", NoWindow)]
  /\ UNCHANGED <<organization, subscription, merchant, pageVars, activityVars>>

\* The tenant's own update, which may change the merchant.
UpdateLocation(l, m) ==
  /\ l \in Existing /\ Accessible(l) /\ merchant[m] # "NONE"
  /\ location' = [location EXCEPT ![l].merchant = m]
  /\ UNCHANGED <<organization, subscription, merchant, pageVars, activityVars>>

-----------------------------------------------------------------------------
(* The administrators' page *)

\* A request that stops, restarts or archives the location.
RequestOn(a, l) ==
  /\ page[a].request.step \in {"READ", "CHECKED"}
  /\ page[a].request.loc = l /\ page[a].request.op # "UPDATE"

Answer(a, step) == page' = [page EXCEPT ![a].request = [step |-> step]]

\* After an answer the list is fetched again; a failed fetch leaves the old one.
Refresh(a) ==
  /\ page[a].request.step \in {"IDLE", "DONE"}
  /\ page' = [page EXCEPT ![a] =
       [listed |-> [l \in Locations |-> location[l].lifecycle], request |-> NoRequest]]
  /\ UNCHANGED <<tenantVars, activityVars, contested>>

\* The request fails, or its answer or the list is lost.
GiveUpRequest(a) ==
  /\ page[a].request.step # "IDLE"
  /\ Answer(a, "IDLE")
  /\ UNCHANGED <<tenantVars, activityVars, contested>>

\* The buttons a listed location has.
Offered(a, l, op) ==
  /\ page[a].listed[l] \notin {"NONE", "ARCHIVED"}
  /\ op \in {"ACTIVE", "INACTIVE"} => page[a].listed[l] # op

\* assertWindow.
ValidWindow(w) ==
  /\ w.kind = "TEMPORARY" => w.from # NoDate /\ w.until # NoDate
  /\ w.from # NoDate /\ w.until # NoDate => w.from < w.until

RequireMerchant(m) == merchant[m] = "ACTIVE"

\* The location the settings are copied from has the same merchant.
RequireSource(source, m) == source \in Existing /\ location[source].merchant = m

\* create, without what it copies.
PlatformCreate(a, l, m, window) ==
  /\ page[a].request = NoRequest
  /\ l \notin Existing /\ RequireMerchant(m) /\ ValidWindow(window)
  /\ location' = [location EXCEPT ![l] = NewLocation(m, "ACTIVE", window)]
  /\ Answer(a, "DONE")
  /\ UNCHANGED <<organization, subscription, merchant, activityVars, contested>>

\* What an update may be given: what it is not stays, and no date is taken back.
Updated(l, window) ==
  /\ window.from = NoDate => location[l].window.from = NoDate
  /\ window.until = NoDate => location[l].window.until = NoDate

\* update, setActive and archive read the location: outside the transaction, and only
\* one that has a lifecycle.
Get(a, l, op, window) ==
  /\ page[a].request = NoRequest /\ Offered(a, l, op)
  /\ location[l].lifecycle \notin {"NONE", "ARCHIVED"}
  /\ IF op = "UPDATE" THEN Updated(l, window) ELSE window = location[l].window
  /\ ValidWindow(window)
  /\ page' = [page EXCEPT ![a].request =
       [op |-> op, loc |-> l, window |-> window,
        step |-> IF op \in {"INACTIVE", "ARCHIVED"} THEN "READ" ELSE "CHECKED"]]
  /\ contested' = contested \cup
       {k \in {l} : /\ op # "UPDATE"
                    /\ \/ \E b \in Administrators : RequestOn(b, l)
                       \/ \E x \in Activities : <<l, x>> \in admitted}
  /\ UNCHANGED <<tenantVars, activityVars>>

NothingRuns(l) == \A x \in Activities : <<l, x>> \notin running

\* It counts the sessions of a check-in too, and no reservation.
CanStop(l) == NothingRuns(l) /\ \A t \in Tables : <<l, t>> \notin arrived

\* assertCanStop.
AssertCanStop(a) ==
  /\ page[a].request.step = "READ"
  /\ IF CanStop(page[a].request.loc)
     THEN page' = [page EXCEPT ![a].request.step = "CHECKED"] ELSE Answer(a, "IDLE")
  /\ UNCHANGED <<tenantVars, activityVars, contested>>

Ready(a, ops) == page[a].request.step = "CHECKED" /\ page[a].request.op \in ops

WriteUpdate(a) ==
  /\ Ready(a, {"UPDATE"})
  /\ LET r == page[a].request IN location' = [location EXCEPT ![r.loc].window = r.window]
  /\ Answer(a, "DONE")
  /\ UNCHANGED <<organization, subscription, merchant, activityVars, contested>>

WriteStatus(a) ==
  /\ Ready(a, {"ACTIVE", "INACTIVE"})
  /\ LET r == page[a].request IN
       location' = [location EXCEPT ![r.loc] = [@ EXCEPT !.status = r.op, !.lifecycle = r.op]]
  /\ Answer(a, "DONE")
  /\ UNCHANGED <<organization, subscription, merchant, activityVars, contested>>

WriteArchive(a) ==
  /\ Ready(a, {"ARCHIVED"})
  /\ location' = [location EXCEPT ![page[a].request.loc] =
       [@ EXCEPT !.status = "INACTIVE", !.lifecycle = "ARCHIVED", !.archivedAt = TRUE]]
  /\ Answer(a, "DONE")
  /\ UNCHANGED <<organization, subscription, merchant, activityVars, contested>>

-----------------------------------------------------------------------------
(* Activities at a location *)

\* A request to seat a party or to publish an event finds its location active.
Admit(l, x) ==
  /\ l \in Existing /\ Accessible(l)
  /\ x \in Tables => Entitled("TABLE_SERVICE")
  /\ admitted' = admitted \cup {<<l, x>>}
  /\ contested' = contested \cup {k \in {l} : \E a \in Administrators : RequestOn(a, l)}
  /\ UNCHANGED <<tenantVars, page, running, reserved, arrived>>

\* One open session for each table.
Free(x) == \A k \in Locations : <<k, x>> \notin running \cup arrived

StartActivity(l, x) ==
  /\ <<l, x>> \in admitted /\ Free(x)
  /\ admitted' = admitted \ {<<l, x>>}
  /\ running' = running \cup {<<l, x>>}
  /\ UNCHANGED <<tenantVars, pageVars, reserved, arrived>>

Withdraw(l, x) ==
  /\ <<l, x>> \in admitted
  /\ admitted' = admitted \ {<<l, x>>}
  /\ UNCHANGED <<tenantVars, pageVars, running, reserved, arrived>>

FinishActivity(l, x) ==
  /\ <<l, x>> \in running
  /\ running' = running \ {<<l, x>>}
  /\ UNCHANGED <<tenantVars, pageVars, admitted, reserved, arrived>>

\* A guest holds or books a table of a published event; the reservation outlives the event.
Reserve(l, t) ==
  /\ \E e \in Events : <<l, e>> \in running
  /\ reserved' = reserved \cup {<<l, t>>}
  /\ UNCHANGED <<tenantVars, pageVars, admitted, running, arrived>>

\* It lapses, is cancelled, or nobody comes.
DropReservation(l, t) ==
  /\ <<l, t>> \in reserved
  /\ reserved' = reserved \ {<<l, t>>}
  /\ UNCHANGED <<tenantVars, pageVars, admitted, running, arrived>>

\* The check-in of a reservation looks at neither the plan nor the location.
CheckIn(l, t) ==
  /\ <<l, t>> \in reserved /\ Free(t)
  /\ reserved' = reserved \ {<<l, t>>}
  /\ arrived' = arrived \cup {<<l, t>>}
  /\ UNCHANGED <<tenantVars, pageVars, admitted, running>>

EndVisit(l, t) ==
  /\ <<l, t>> \in arrived
  /\ arrived' = arrived \ {<<l, t>>}
  /\ UNCHANGED <<tenantVars, pageVars, admitted, running, reserved>>

-----------------------------------------------------------------------------
(* Properties *)

\* A location is active in both tables or in neither.
LifecyclesAgree ==
  \A l \in Existing : location[l].lifecycle # "NONE" =>
    (location[l].status = "ACTIVE" <=> location[l].lifecycle = "ACTIVE")

\* Updates made at once leave a window that each of them would accept.
WindowsAreValid ==
  \A l \in Locations : ValidWindow(location[l].window)

\* An archived location stays so (platform-locations.service.ts:315), unless requests on
\* it overlap: setActive reads the lifecycle before its transaction.
ArchivedForGood ==
  \A l \in Locations \ contested :
    location[l].archivedAt => location[l].lifecycle = "ARCHIVED"

\* At a location that was stopped nothing runs, unless requests on it overlap, but the
\* parties checked in with a reservation: the one way to a session that asks for no active
\* location (reservation-operations.service.ts:112).
StoppedIsEmpty ==
  \A l \in Locations \ contested : location[l].status = "INACTIVE" => NothingRuns(l)
=============================================================================
