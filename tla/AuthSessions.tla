---------------------------- MODULE AuthSessions ----------------------------
(***************************************************************************)
(* The sessions of one user: devices sign in, rotate their refresh token,  *)
(* change organization and sign out, each request a sequence of separate   *)
(* statements of the API; managers suspend the user and revoke devices.    *)
(* A device is a POS, which shares one refresh among its requests, or a    *)
(* browser, whose tabs do not.                                             *)
(***************************************************************************)
EXTENDS Integers, FiniteSets, FiniteSetsExt

CONSTANTS
  Devices, Browsers,
  Orgs,
  Calls,          \* bound: requests at the API at once
  MaxSessions,    \* bound: sign-ins
  MaxTokens,      \* bound: refresh tokens ever minted
  MaxExpiries,    \* bound: access tokens that expire
  MaxSwitches,    \* bound: changes of organization asked for
  MaxSignOuts,    \* bound: sign-outs asked for
  MaxDecisions,   \* bound: changes of a membership or an assignment
  MaxLosses       \* bound: requests given up and deaths of a device

ASSUME AuthAssumption ==
  /\ Browsers \subseteq Devices
  /\ {MaxSessions, MaxTokens, MaxExpiries, MaxSwitches, MaxSignOuts, MaxDecisions,
      MaxLosses} \subseteq Nat

NoOrg == <<>>
ASSUME NoneAssumption == NoOrg \notin Orgs

Sessions == 1..MaxSessions
Tokens == 1..MaxTokens
None == 0    \* no session, no token

Ops == {"LOGIN", "REFRESH", "SWITCH", "LOGOUT", "LOGOUT_ALL"}
Steps == {"SENT", "ASSIGN", "CREATE", "ROTATE", "REVOKE", "SIGN_OUT", "ANSWERED"}
Outcomes == {"NONE", "OK", "REFUSED", "NOT_ACTIVE", "DETECTED"}

VARIABLES
  sessions,   \* auth_sessions
  minted,     \* refresh tokens: the session in each, and the one it replaced
  assigned,   \* device_assignments.active
  members,    \* organizations in which the user's membership is ACTIVE
  calls,      \* requests at the API
  client,     \* tokens in the memory of a POS or the cookies of a browser
  stored,     \* tokens in the secure storage of a POS
  flow,       \* the change of organization or sign-out a device goes through
  signedOut,  \* devices whose user signed out and has not signed in since
  revoking,   \* assignments revoked whose sessions are not yet
  spent       \* the uses made of the bounds

rows == <<sessions, minted, assigned, members>>
device == <<client, stored, flow, signedOut>>
vars == <<sessions, minted, assigned, members, calls, client, stored, flow, signedOut,
          revoking, spent>>

NewSession == [status |-> "NONE", device |-> NoOrg, org |-> NoOrg, token |-> None,
               previous |-> None, lapsed |-> FALSE]
NoTokens == [token |-> None, org |-> NoOrg]
NoCall == [op |-> "NONE", device |-> NoOrg, step |-> "NONE", token |-> None, access |-> NoOrg,
           org |-> NoOrg, heard |-> FALSE, outcome |-> "NONE"]
NoFlow == [op |-> "NONE", org |-> NoOrg, step |-> "NONE"]

Bounds == [expiries |-> MaxExpiries, switches |-> MaxSwitches, signOuts |-> MaxSignOuts,
           decisions |-> MaxDecisions, losses |-> MaxLosses]
Spend(what) == spent[what] < Bounds[what] /\ spent' = [spent EXCEPT ![what] = @ + 1]

Init ==
  /\ sessions = [s \in Sessions |-> NewSession]
  /\ minted = [t \in Tokens |-> [session |-> None, parent |-> None]]
  /\ assigned = [d \in Devices |-> [o \in Orgs |-> FALSE]]
  /\ members = Orgs
  /\ calls = [c \in Calls |-> NoCall]
  /\ client = [d \in Devices |-> NoTokens]
  /\ stored = client
  /\ flow = [d \in Devices |-> NoFlow]
  /\ signedOut = {} /\ revoking = {}
  /\ spent = [b \in DOMAIN Bounds |-> 0]

SessionOf(t) == IF t = None THEN None ELSE minted[t].session
Active(s) == s # None /\ sessions[s].status = "ACTIVE"
Fresh(s, t) ==
  /\ sessions[s] = NewSession /\ \A u \in 1..(s - 1) : sessions[u] # NewSession
  /\ minted[t].session = None /\ \A u \in 1..(t - 1) : minted[u].session # None

-----------------------------------------------------------------------------
(***************************************************************************)
(* Mistakes this code could contain and does not: each, in the place of    *)
(* the definition it is a variant of, makes a property fail.               *)
(***************************************************************************)
\* The UPDATE of a rotation does not compare the token it replaces.
AnyTokenRotates(c) == Active(SessionOf(calls[c].token))

\* The UPDATE of a rotation does not look at the status.
RevokedRotates(c) ==
  /\ SessionOf(calls[c].token) # None
  /\ sessions[SessionOf(calls[c].token)].token = calls[c].token

-----------------------------------------------------------------------------
(* Requests *)

Listening(d, op) == \E c \in Calls : calls[c].device = d /\ calls[c].op = op /\ calls[c].heard

Idle(c) == calls[c] = NoCall

Request(d, op, o) ==
  [NoCall EXCEPT !.op = op, !.device = d, !.step = "SENT", !.token = client[d].token,
                 !.access = client[d].org, !.org = o, !.heard = TRUE]

\* The tabs of a browser share only their cookies.
CanRefresh(d) == d \in Browsers \/ ~ Listening(d, "REFRESH")

\* The API's answer, if anybody still waits for it.
Answered(c, outcome, t, o) ==
  [calls EXCEPT ![c] = IF @.heard
     THEN [@ EXCEPT !.step = "ANSWERED", !.outcome = outcome, !.token = t, !.org = o]
     ELSE NoCall]
Refuse(c, outcome) == calls' = Answered(c, outcome, calls[c].token, calls[c].org)

-----------------------------------------------------------------------------
(* The API *)

\* validateAccessToken and contextFromSnapshot.
Accepted(s, o) ==
  Active(s) /\ ~ sessions[s].lapsed /\ sessions[s].org = o /\ o \in members

\* assertRefreshSessionUsable.
Usable(s, t) ==
  Active(s) /\ ~ sessions[s].lapsed /\ sessions[s].token = t /\ sessions[s].org \in members

\* The sessions after the active ones in revoked were revoked.
Revoked(revoked) ==
  [s \in Sessions |-> IF s \in revoked /\ Active(s)
                        THEN [sessions[s] EXCEPT !.status = "REVOKED"] ELSE sessions[s]]
SessionsOn(d) == {s \in Sessions : sessions[s].device = d}

\* login up to the revocation of the device's sessions: SUPERSEDED_LOGIN.
LoginSupersede(c) ==
  /\ calls[c].op = "LOGIN" /\ calls[c].step = "SENT"
  /\ \/ /\ calls[c].org \in members
        /\ sessions' = Revoked(SessionsOn(calls[c].device))
        /\ calls' = [calls EXCEPT ![c].step = "ASSIGN"]
     \/ calls[c].org \notin members /\ Refuse(c, "REFUSED") /\ UNCHANGED sessions
  /\ UNCHANGED <<minted, assigned, members, device, revoking, spent>>

\* ensureDeviceAssignment, of a login or of a change of organization.
EnsureAssignment(c) ==
  /\ calls[c].step = "ASSIGN"
  /\ assigned' = [assigned EXCEPT ![calls[c].device][calls[c].org] = TRUE]
  /\ calls' = [calls EXCEPT ![c].step =
                 IF calls[c].op = "LOGIN" THEN "CREATE" ELSE "ROTATE"]
  /\ UNCHANGED <<sessions, minted, members, device, revoking, spent>>

CreateSession(c) ==
  /\ calls[c].step = "CREATE"
  /\ \E s \in Sessions, t \in Tokens :
       /\ Fresh(s, t)
       /\ sessions' = [sessions EXCEPT ![s] = [NewSession EXCEPT !.status = "ACTIVE",
                         !.device = calls[c].device, !.org = calls[c].org, !.token = t]]
       /\ minted' = [minted EXCEPT ![t].session = s]
       /\ calls' = Answered(c, "OK", t, calls[c].org)
  /\ UNCHANGED <<assigned, members, device, revoking, spent>>

\* A refresh keeps the organization of the session.
SnapshotOrg(s) == sessions[s].org

\* refresh up to rotateSession.
LoadForRefresh(c) ==
  LET t == calls[c].token
      s == SessionOf(t)
  IN /\ calls[c].op = "REFRESH" /\ calls[c].step = "SENT"
     /\ \/ /\ sessions[s].previous = t
           /\ calls' = [calls EXCEPT ![c].step = "REVOKE"]
        \/ /\ sessions[s].previous # t /\ Usable(s, t)
           /\ calls' = [calls EXCEPT ![c].step = "ROTATE", ![c].org = SnapshotOrg(s)]
        \/ sessions[s].previous # t /\ ~ Usable(s, t) /\ Refuse(c, "REFUSED")
     /\ UNCHANGED <<rows, device, revoking, spent>>

\* switchOrganization, behind the guard, up to ensureDeviceAssignment.
LoadForSwitch(c) ==
  LET t == calls[c].token
      s == SessionOf(t)
      Granted == Accepted(s, calls[c].access) /\ Usable(s, t) /\ calls[c].org \in members
  IN /\ calls[c].op = "SWITCH" /\ calls[c].step = "SENT"
     /\ \/ Granted /\ calls' = [calls EXCEPT ![c].step = "ASSIGN"]
        \/ ~ Granted /\ Refuse(c, IF Active(s) THEN "REFUSED" ELSE "NOT_ACTIVE")
     /\ UNCHANGED <<rows, device, revoking, spent>>

\* The WHERE of a rotation.
Rotates(c) ==
  /\ Active(SessionOf(calls[c].token))
  /\ sessions[SessionOf(calls[c].token)].token = calls[c].token

RotateSession(c) ==
  LET s == SessionOf(calls[c].token)
  IN /\ calls[c].step = "ROTATE"
     /\ \/ \E t \in Tokens :
             /\ Rotates(c)
             /\ minted[t].session = None /\ \A u \in 1..(t - 1) : minted[u].session # None
             /\ sessions' = [sessions EXCEPT ![s] = [@ EXCEPT !.org = calls[c].org,
                               !.previous = calls[c].token, !.token = t, !.lapsed = FALSE]]
             /\ minted' = [minted EXCEPT ![t] = [session |-> s, parent |-> calls[c].token]]
             /\ calls' = Answered(c, "OK", t, calls[c].org)
        \/ /\ ~ Rotates(c)
           /\ calls' = [calls EXCEPT ![c].step = "REVOKE"]
           /\ UNCHANGED <<sessions, minted>>
     /\ UNCHANGED <<assigned, members, device, revoking, spent>>

\* A token used twice: REFRESH_TOKEN_REUSE_DETECTED, CONCURRENT_REFRESH_DETECTED.
RevokeDeviceSessions(c) ==
  /\ calls[c].step = "REVOKE"
  /\ sessions' = Revoked(SessionsOn(calls[c].device))
  /\ Refuse(c, "DETECTED")
  /\ UNCHANGED <<minted, assigned, members, device, revoking, spent>>

\* The guard of logout and logoutAll, which an expired access token fails.
AdmitSignOut(c) ==
  LET accepted == Accepted(SessionOf(calls[c].token), calls[c].access)
  IN /\ calls[c].op \in {"LOGOUT", "LOGOUT_ALL"} /\ calls[c].step = "SENT"
     /\ \/ accepted /\ calls' = [calls EXCEPT ![c].step = "SIGN_OUT"] /\ UNCHANGED spent
        \/ ~ accepted /\ Refuse(c, "REFUSED") /\ UNCHANGED spent
        \/ Refuse(c, "REFUSED") /\ Spend("expiries")
     /\ UNCHANGED <<rows, device, revoking>>

\* logout, logoutAll.  The UPDATE of the former has no condition on the status: of a
\* session revoked since the guard it replaces when and why, which are not modelled.
Logout(c) ==
  /\ calls[c].step = "SIGN_OUT"
  /\ sessions' = Revoked(IF calls[c].op = "LOGOUT" THEN {SessionOf(calls[c].token)} ELSE Sessions)
  /\ calls' = Answered(c, "OK", None, NoOrg)
  /\ UNCHANGED <<minted, assigned, members, device, revoking, spent>>

Serve(c) ==
  \/ LoginSupersede(c) \/ EnsureAssignment(c) \/ CreateSession(c)
  \/ LoadForRefresh(c) \/ LoadForSwitch(c) \/ RotateSession(c)
  \/ RevokeDeviceSessions(c) \/ AdmitSignOut(c) \/ Logout(c)

\* DevicesService.revokeAssignment: the assignment, then its sessions.
RevokeAssignment(d, o) ==
  /\ assigned[d][o] /\ Spend("decisions")
  /\ assigned' = [assigned EXCEPT ![d][o] = FALSE]
  /\ revoking' = revoking \cup {<<d, o>>}
  /\ UNCHANGED <<sessions, minted, members, calls, device>>

RevokeAssignedSessions(d, o) ==
  /\ <<d, o>> \in revoking
  /\ sessions' = Revoked({s \in SessionsOn(d) : sessions[s].org = o})
  /\ revoking' = revoking \ {<<d, o>>}
  /\ UNCHANGED <<minted, assigned, members, calls, device, spent>>

\* A membership is suspended or made active again.
ChangeMembership(o) ==
  /\ Spend("decisions")
  /\ members' = IF o \in members THEN members \ {o} ELSE members \cup {o}
  /\ UNCHANGED <<sessions, minted, assigned, calls, device, revoking>>

\* The expiresAt of a session passes.
Lapse(s) ==
  /\ Active(s) /\ ~ sessions[s].lapsed
  /\ sessions' = [sessions EXCEPT ![s].lapsed = TRUE]
  /\ UNCHANGED <<minted, assigned, members, calls, device, revoking, spent>>

-----------------------------------------------------------------------------
(* The devices *)

\* A POS shows one form at a time.
Busy(d) == d \notin Browsers /\ (flow[d] # NoFlow \/ Listening(d, "LOGIN"))

Starting == {s \in Sessions : sessions[s] # NewSession}
SigningIn == {c \in Calls : calls[c].op = "LOGIN" /\ calls[c].step # "ANSWERED"}

SignIn(d, o, c) ==
  /\ client[d].token = None /\ ~ Busy(d) /\ Idle(c)
  /\ Cardinality(Starting) + Cardinality(SigningIn) < MaxSessions
  /\ calls' = [calls EXCEPT ![c] = Request(d, "LOGIN", o)]
  /\ UNCHANGED <<rows, device, revoking, spent>>

\* A request is answered 401: its access token expired or is not accepted.
Unauthorized(d, c) ==
  /\ client[d].token # None /\ CanRefresh(d) /\ Idle(c)
  /\ calls' = [calls EXCEPT ![c] = Request(d, "REFRESH", NoOrg)]
  /\ UNCHANGED <<rows, device, revoking>>
Rejected(d, c) ==
  /\ ~ Accepted(SessionOf(client[d].token), client[d].org)
  /\ Unauthorized(d, c) /\ UNCHANGED spent
Expired(d, c) == Spend("expiries") /\ Unauthorized(d, c)

\* AuthRepository.switchOrganization refreshes first, sharing the refresh under way.
StartSwitch(d, o, c) ==
  /\ d \notin Browsers /\ client[d].token # None /\ client[d].org # o /\ ~ Busy(d)
  /\ Idle(c) /\ Spend("switches")
  /\ flow' = [flow EXCEPT ![d] = [op |-> "SWITCH", org |-> o, step |-> "REFRESH"]]
  /\ calls' = IF CanRefresh(d) THEN [calls EXCEPT ![c] = Request(d, "REFRESH", NoOrg)] ELSE calls
  /\ UNCHANGED <<rows, client, stored, signedOut, revoking>>

BrowserSwitch(d, o, c) ==
  /\ d \in Browsers /\ client[d].token # None /\ client[d].org # o
  /\ Idle(c) /\ Spend("switches")
  /\ calls' = [calls EXCEPT ![c] = Request(d, "SWITCH", o)]
  /\ UNCHANGED <<rows, device, revoking>>

SignOut(d, op, c) ==
  /\ client[d].token # None /\ ~ Busy(d) /\ Idle(c) /\ Spend("signOuts")
  /\ flow' = IF d \in Browsers THEN flow
             ELSE [flow EXCEPT ![d] = [op |-> op, org |-> NoOrg, step |-> "SENT"]]
  /\ calls' = [calls EXCEPT ![c] = Request(d, op, NoOrg)]
  /\ UNCHANGED <<rows, client, stored, signedOut, revoking>>

\* After its refresh a POS sends the request it was for.
SendRefreshed(d, c) ==
  /\ flow[d].step = "READY" /\ Idle(c)
  /\ flow' = [flow EXCEPT ![d].step = "AGAIN"]
  /\ calls' = [calls EXCEPT ![c] = Request(d, flow[d].op, flow[d].org)]
  /\ UNCHANGED <<rows, client, stored, signedOut, revoking, spent>>

Done(c) == calls' = [calls EXCEPT ![c] = NoCall]
FlowEnds(d) == flow' = [flow EXCEPT ![d] = NoFlow]

\* A login or a change of organization is answered.
ReceiveGrant(c) ==
  LET d == calls[c].device
  IN /\ calls[c].step = "ANSWERED" /\ calls[c].op \in {"LOGIN", "SWITCH"}
     /\ client' = [client EXCEPT ![d] =
          CASE calls[c].outcome = "OK" -> [token |-> calls[c].token, org |-> calls[c].org]
            [] calls[c].outcome = "NOT_ACTIVE" /\ d \notin Browsers -> NoTokens
            [] OTHER -> @]
     /\ signedOut' = IF calls[c].outcome = "OK" THEN signedOut \ {d} ELSE signedOut
     /\ flow' = IF calls[c].op = "SWITCH" THEN [flow EXCEPT ![d] = NoFlow] ELSE flow
     /\ Done(c)
     /\ UNCHANGED <<rows, stored, revoking, spent>>

\* A 401 or 403 of auth/refresh ends the session on the device.
Terminal(answer) == answer.outcome # "OK"

\* The tokens are saved whatever the device holds by now.
ReceiveRefresh(c) ==
  LET d == calls[c].device
  IN /\ calls[c].step = "ANSWERED" /\ calls[c].op = "REFRESH"
     /\ client' = [client EXCEPT ![d] =
          CASE calls[c].outcome = "OK" -> [token |-> calls[c].token, org |-> calls[c].org]
            [] Terminal(calls[c]) -> NoTokens
            [] OTHER -> @]
     /\ flow' = [flow EXCEPT ![d] = IF @.step # "REFRESH" THEN @ ELSE
                   IF calls[c].outcome = "OK" THEN [@ EXCEPT !.step = "READY"] ELSE NoFlow]
     /\ Done(c)
     /\ UNCHANGED <<rows, stored, signedOut, revoking, spent>>

\* The POS retries a refused sign-out once, after a refresh.
RetrySignOut(c) ==
  LET d == calls[c].device
  IN /\ calls[c].step = "ANSWERED" /\ calls[c].op \in {"LOGOUT", "LOGOUT_ALL"}
     /\ calls[c].outcome = "REFUSED" /\ d \notin Browsers /\ flow[d].step = "SENT"
     /\ client[d].token # None
     /\ flow' = [flow EXCEPT ![d].step = "REFRESH"]
     /\ calls' = [calls EXCEPT ![c] = IF CanRefresh(d) THEN Request(d, "REFRESH", NoOrg)
                                                       ELSE NoCall]
     /\ UNCHANGED <<rows, client, stored, signedOut, revoking, spent>>

SignedOut(d) ==
  /\ client' = [client EXCEPT ![d] = NoTokens]
  /\ signedOut' = signedOut \cup {d}
  /\ FlowEnds(d)

\* The local session goes, whatever the backend answered.
ReceiveSignOut(c) ==
  LET d == calls[c].device
  IN /\ calls[c].step = "ANSWERED" /\ calls[c].op \in {"LOGOUT", "LOGOUT_ALL"}
     /\ \/ calls[c].outcome = "OK" \/ d \in Browsers
        \/ flow[d].step = "AGAIN" \/ client[d].token = None
     /\ SignedOut(d) /\ Done(c)
     /\ UNCHANGED <<rows, stored, revoking, spent>>

\* What the device was doing fails with the request c.
Carries(c) ==
  \/ calls[c].op \in {"SWITCH", "LOGOUT", "LOGOUT_ALL"}
  \/ calls[c].op = "REFRESH" /\ flow[calls[c].device].step = "REFRESH"
SignsOut(c) ==
  {calls[c].op, flow[calls[c].device].op} \cap {"LOGOUT", "LOGOUT_ALL"} # {}

\* The device gives a request up, which goes on at the API.
GiveUp(c) ==
  LET d == calls[c].device
  IN /\ calls[c].heard /\ Spend("losses")
     /\ calls' = [calls EXCEPT ![c] = IF @.step = "ANSWERED" THEN NoCall
                                                             ELSE [@ EXCEPT !.heard = FALSE]]
     /\ \/ Carries(c) /\ SignsOut(c) /\ SignedOut(d)
        \/ Carries(c) /\ ~ SignsOut(c) /\ FlowEnds(d) /\ UNCHANGED <<client, signedOut>>
        \/ ~ Carries(c) /\ UNCHANGED <<client, signedOut, flow>>
     /\ UNCHANGED <<rows, stored, revoking>>

\* saveTokens and clearSession finish writing.
Persist(d) ==
  /\ d \notin Browsers /\ stored[d] # client[d]
  /\ stored' = [stored EXCEPT ![d] = client[d]]
  /\ UNCHANGED <<rows, calls, client, flow, signedOut, revoking, spent>>

\* A POS dies and starts again with the tokens in its storage.
Restart(d) ==
  /\ d \notin Browsers /\ Spend("losses")
  /\ client' = [client EXCEPT ![d] = stored[d]]
  /\ FlowEnds(d)
  /\ calls' = [c \in Calls |->
                 IF calls[c].device # d \/ ~ calls[c].heard THEN calls[c]
                 ELSE IF calls[c].step = "ANSWERED" THEN NoCall
                 ELSE [calls[c] EXCEPT !.heard = FALSE]]
  /\ UNCHANGED <<rows, stored, signedOut, revoking>>

Receive(c) == ReceiveGrant(c) \/ ReceiveRefresh(c) \/ RetrySignOut(c) \/ ReceiveSignOut(c)

Next ==
  \/ \E c \in Calls : Serve(c) \/ Receive(c) \/ GiveUp(c)
  \/ \E d \in Devices, o \in Orgs :
       RevokeAssignment(d, o) \/ RevokeAssignedSessions(d, o)
  \/ \E o \in Orgs : ChangeMembership(o)
  \/ \E s \in Sessions : Lapse(s)
  \/ \E d \in Devices, c \in Calls :
       \/ Rejected(d, c) \/ Expired(d, c) \/ SendRefreshed(d, c)
       \/ \E o \in Orgs : SignIn(d, o, c) \/ StartSwitch(d, o, c) \/ BrowserSwitch(d, o, c)
       \/ \E op \in {"LOGOUT", "LOGOUT_ALL"} : SignOut(d, op, c)
  \/ \E d \in Devices : Persist(d) \/ Restart(d)

Spec == Init /\ [][Next]_vars

-----------------------------------------------------------------------------
(* Properties *)

\* The tokens of a session are one chain: each was exchanged for the next, none
\* for two, and the row holds the last and the one before it.
Chained(s) ==
  LET mine == {t \in Tokens : minted[t].session = s}
      Before(t) == {u \in mine : u < t}
  IN /\ \A t \in mine : minted[t].parent = IF Before(t) = {} THEN None ELSE Max(Before(t))
     /\ sessions[s].token = Max(mine)
     /\ sessions[s].previous = minted[sessions[s].token].parent

Suspected(d) ==
  \E c \in Calls : calls[c].device = d /\ calls[c].step = "REVOKE"
                      /\ Active(SessionOf(calls[c].token))

(***************************************************************************)
(* A refresh token is exchanged once, although refresh and                 *)
(* switchOrganization read the row before they replace its token; and no   *)
(* POS is taken for a thief, its requests sharing one refresh              *)
(* (docs/frontend-block-01-foundation-auth.md:25), unless it lost an       *)
(* answer or changed organization, which refreshes on its own.             *)
(***************************************************************************)
TokensAreExchangedOnce ==
  /\ \A s \in Starting : Chained(s)
  /\ spent.losses + spent.switches = 0 => \A d \in Devices \ Browsers : ~ Suspected(d)

(***************************************************************************)
(* A session that was revoked stays revoked, and nobody gets another token *)
(* of it, whatever was under way: the reads and the statements of sign-    *)
(* ins, rotations, sign-outs and revocations are separate.  (When and why  *)
(* it was revoked are not modelled: logout may replace them.)              *)
(***************************************************************************)
RevokedStaysRevoked ==
  [][\A s \in Sessions : sessions[s].status = "REVOKED" => sessions'[s] = sessions[s]]_vars
=============================================================================
