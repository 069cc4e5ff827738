------------------------ MODULE OrganizationMembers ------------------------
(***************************************************************************)
(* The members of one organization: managers add them, change their role   *)
(* and suspend them. updateMember reads the membership, then counts the     *)
(* owners, then writes: three steps, other requests between them.          *)
(***************************************************************************)
EXTENDS Integers, FiniteSets

CONSTANTS
  Users,
  Requests      \* bound: updates at the API at once

ASSUME MembersAssumption == Users # {} /\ IsFiniteSet(Users)

Roles == {"OWNER", "CASHIER"}    \* an owner and any other role
Unchanged == "unchanged"                    \* a field the request leaves out

VARIABLES
  roster,    \* organization_memberships: role and status
  updates,   \* updateMember requests under way
  raced      \* two updates were under way at once, or a member was added again

membersVars == <<roster, updates, raced>>

NoMember == [role |-> "NONE", status |-> "NONE"]
NoUpdate == [step |-> "IDLE"]

\* The organization is created with its owner.
MembersInit ==
  /\ \E u \in Users :
       roster = [v \in Users |-> IF v = u THEN [role |-> "OWNER", status |-> "ACTIVE"]
                                           ELSE NoMember]
  /\ updates = [r \in Requests |-> NoUpdate]
  /\ raced = FALSE

-----------------------------------------------------------------------------
(***************************************************************************)
(* Mistakes this code could contain and does not: each, in the place of    *)
(* the definition it is a variant of, makes a property fail.               *)
(***************************************************************************)
\* A field the request leaves out is written with its default.
OrDefault(asked, value) ==
  IF asked # Unchanged THEN asked ELSE IF value \in Roles THEN value ELSE "ACTIVE"
-----------------------------------------------------------------------------
(* Requests *)

\* addMember: an upsert, by user.
AddMember(u, role) ==
  /\ roster' = [roster EXCEPT ![u] = [role |-> role, status |-> "ACTIVE"]]
  /\ raced' = (raced \/ roster[u] # NoMember)
  /\ UNCHANGED updates

\* updateMember reads the membership.
ReadMember(r, u, role, status) ==
  /\ updates[r] = NoUpdate /\ roster[u] # NoMember
  /\ updates' = [updates EXCEPT ![r] =
       [step |-> "READ", user |-> u, role |-> role, status |-> status, current |-> roster[u]]]
  /\ raced' = (raced \/ \E q \in Requests : updates[q] # NoUpdate)
  /\ UNCHANGED roster

RemovesOwner(x) ==
  /\ x.current = [role |-> "OWNER", status |-> "ACTIVE"]
  /\ x.role \notin {Unchanged, "OWNER"} \/ x.status = "SUSPENDED"

ActiveOwners == {u \in Users : roster[u] = [role |-> "OWNER", status |-> "ACTIVE"]}

\* LAST_OWNER_CANNOT_BE_REMOVED.
CheckOwners(r) ==
  /\ updates[r].step = "READ"
  /\ updates' = [updates EXCEPT ![r] =
       IF RemovesOwner(@) /\ Cardinality(ActiveOwners) <= 1 THEN NoUpdate
       ELSE [@ EXCEPT !.step = "CHECKED"]]
  /\ UNCHANGED <<roster, raced>>

OrCurrent(asked, value) == IF asked = Unchanged THEN value ELSE asked

WriteMember(r) ==
  /\ updates[r].step = "CHECKED"
  /\ roster' = [roster EXCEPT ![updates[r].user] =
       [role |-> OrCurrent(updates[r].role, updates[r].current.role),
        status |-> OrCurrent(updates[r].status, updates[r].current.status)]]
  /\ updates' = [updates EXCEPT ![r] = NoUpdate]
  /\ UNCHANGED raced

MembersNext ==
  \/ \E u \in Users, role \in Roles : AddMember(u, role)
  \/ \E r \in Requests :
       \/ CheckOwners(r) \/ WriteMember(r)
       \/ \E u \in Users, role \in Roles \cup {Unchanged},
             status \in {"ACTIVE", "SUSPENDED", Unchanged} : ReadMember(r, u, role, status)

MembersSpec == MembersInit /\ [][MembersNext]_membersVars

-----------------------------------------------------------------------------
(* Properties *)

ActiveOwnerRemains == ActiveOwners # {}

(***************************************************************************)
(* The organization keeps an active owner (organizations.service.ts:316),  *)
(* and a suspension ends only when somebody asks for the member to be      *)
(* active, never because an update of the role wrote back the status it    *)
(* had read.  The code keeps both as long as one update is made at a time  *)
(* and nobody is added twice: the read, the check and the write of an      *)
(* update are separate statements.                                         *)
(***************************************************************************)
OwnerRemains ==
  /\ [](raced \/ ActiveOwnerRemains)
  /\ [][\A u \in Users :
         roster[u].status = "SUSPENDED" /\ roster'[u].status = "ACTIVE" =>
           \/ raced'
           \/ \E r \in Requests :
                /\ updates[r].step = "CHECKED" /\ updates'[r] = NoUpdate
                /\ updates[r].user = u /\ updates[r].status = "ACTIVE"]_membersVars
=============================================================================
