--------------------------- MODULE IdentityProofs ---------------------------
(***************************************************************************)
(* Theorems about who may act and where: the sessions of a user, the       *)
(* members of an organization and the setup of its locations, for any      *)
(* numbers of devices, requests, tokens, users, locations and tables.      *)
(***************************************************************************)
EXTENDS AuthSessions, OrganizationMembers, LocationSetup, FiniteSetTheorems, TLAPS

-----------------------------------------------------------------------------
(***************************************************************************)
(* The sessions of a user.                                                 *)
(*                                                                         *)
(* Few statements write a session: one creates it, one gives it the next   *)
(* token, the others end what is active.  The tokens of a session are      *)
(* minted in order, so that the row's token is the youngest.               *)
(***************************************************************************)
AnyToken == Tokens \cup {None}
AnyOrg == Orgs \cup {NoOrg}
SessionRow == [status : {"NONE", "ACTIVE", "REVOKED"}, device : Devices \cup {NoOrg},
               org : AnyOrg, token : AnyToken, previous : AnyToken, lapsed : BOOLEAN]
TokenRow == [session : Sessions \cup {None}, parent : AnyToken]
CallRow == [op : Ops \cup {"NONE"}, device : Devices \cup {NoOrg}, step : Steps \cup {"NONE"},
            token : AnyToken, access : AnyOrg, org : AnyOrg, heard : BOOLEAN, outcome : Outcomes]
HeldRow == [token : AnyToken, org : AnyOrg]
FlowRow == {f \in [op : {"NONE", "SWITCH", "LOGOUT", "LOGOUT_ALL"}, org : AnyOrg,
                    step : {"NONE", "SENT", "REFRESH", "READY", "AGAIN"}] :
              f.op = "NONE" => f.step = "NONE"}

AuthTyped ==
  /\ sessions \in [Sessions -> SessionRow]
  /\ minted \in [Tokens -> TokenRow]
  /\ calls \in [Calls -> CallRow]
  /\ client \in [Devices -> HeldRow] /\ stored \in [Devices -> HeldRow]
  /\ flow \in [Devices -> FlowRow]

\* A request under way is of a device.
OfDevice(r) == r = NoCall \/ (r.op # "NONE" /\ r.device \in Devices)
CallsOfDevices == \A c \in Calls : OfDevice(calls[c])

LEMMA TokenTypes ==
  /\ Sessions \subseteq Nat /\ Tokens \subseteq Nat
  /\ None \notin Sessions /\ None \notin Tokens
BY AuthAssumption DEF Sessions, Tokens, None

LEMMA NoneTypes ==
  /\ NewSession \in SessionRow /\ NoTokens \in HeldRow /\ NoCall \in CallRow
  /\ NoFlow \in FlowRow
BY DEF NewSession, NoTokens, NoCall, NoFlow, SessionRow, HeldRow, CallRow, FlowRow, AnyToken,
  AnyOrg, Outcomes

\* What requests and answers are.
LEMMA RequestTypes ==
  ASSUME AuthTyped, NEW d \in Devices, NEW op \in Ops, NEW o \in AnyOrg
  PROVE  /\ Request(d, op, o) \in CallRow
         /\ Request(d, op, o).op = op /\ Request(d, op, o).device = d
         /\ Request(d, op, o).step = "SENT" /\ Request(d, op, o).token = client[d].token
         /\ Request(d, op, o).heard = TRUE
<1> DEFINE first == [NoCall EXCEPT !.op = op, !.device = d, !.step = "SENT"]
           second == [NoCall EXCEPT !.op = op, !.device = d, !.step = "SENT",
                                    !.token = client[d].token, !.access = client[d].org]
           n == [NoCall EXCEPT !.op = op, !.device = d, !.step = "SENT",
                               !.token = client[d].token, !.access = client[d].org,
                               !.org = o, !.heard = TRUE]
<1>1. client[d].token \in AnyToken /\ client[d].org \in AnyOrg
  BY DEF AuthTyped, HeldRow
<1>2. first \in CallRow /\ first.op = op /\ first.device = d /\ first.step = "SENT"
  BY NoneTypes DEF CallRow, Steps
<1>3. second = [first EXCEPT !.token = client[d].token, !.access = client[d].org]
  OBVIOUS
<1> HIDE DEF first, second
<1>4. /\ second \in CallRow /\ second.op = op /\ second.device = d /\ second.step = "SENT"
      /\ second.token = client[d].token
  BY <1>1, <1>2, <1>3 DEF CallRow
<1>5. n = [second EXCEPT !.org = o, !.heard = TRUE]
  BY DEF second
<1> HIDE DEF n
<1>6. /\ n \in CallRow /\ n.op = op /\ n.device = d /\ n.step = "SENT"
      /\ n.token = client[d].token /\ n.heard = TRUE
  BY <1>4, <1>5 DEF CallRow
<1> QED
  BY <1>6 DEF n, Request

\* An answered request is the same request; one nobody waits for is gone.
LEMMA AnswerTypes ==
  ASSUME AuthTyped, NEW c \in Calls, NEW outcome \in Outcomes, NEW t \in AnyToken,
         NEW o \in AnyOrg
  PROVE  /\ Answered(c, outcome, t, o) \in [Calls -> CallRow]
         /\ \A e \in Calls \ {c} : Answered(c, outcome, t, o)[e] = calls[e]
         /\ \/ Answered(c, outcome, t, o)[c] = NoCall /\ ~ calls[c].heard
            \/ /\ calls[c] # NoCall
               /\ Answered(c, outcome, t, o)[c].op = calls[c].op
               /\ Answered(c, outcome, t, o)[c].device = calls[c].device
               /\ Answered(c, outcome, t, o)[c].step = "ANSWERED"
               /\ Answered(c, outcome, t, o)[c].outcome = outcome
               /\ Answered(c, outcome, t, o)[c].token = t
               /\ Answered(c, outcome, t, o)[c].heard = calls[c].heard
<1> DEFINE first == [calls[c] EXCEPT !.step = "ANSWERED", !.outcome = outcome]
           second == [calls[c] EXCEPT !.step = "ANSWERED", !.outcome = outcome, !.token = t,
                                      !.org = o]
           n == IF calls[c].heard THEN second ELSE NoCall
<1>1. calls[c] \in CallRow /\ calls \in [Calls -> CallRow]
  BY DEF AuthTyped
<1>2. /\ first \in CallRow /\ first.op = calls[c].op /\ first.device = calls[c].device
      /\ first.step = "ANSWERED" /\ first.outcome = outcome /\ first.heard = calls[c].heard
  BY <1>1 DEF CallRow, Steps
<1>3. second = [first EXCEPT !.token = t, !.org = o]
  OBVIOUS
<1> HIDE DEF first, second
<1>4. /\ second \in CallRow /\ second.op = calls[c].op /\ second.device = calls[c].device
      /\ second.step = "ANSWERED" /\ second.outcome = outcome /\ second.heard = calls[c].heard
      /\ second.token = t
  BY <1>2, <1>3 DEF CallRow
<1>5. /\ n \in CallRow
      /\ (n = NoCall /\ ~ calls[c].heard) \/ (n = second /\ calls[c] # NoCall)
  <2>1. NoCall.heard = FALSE
    BY DEF NoCall
  <2> QED
    BY <1>4, <2>1, NoneTypes
<1>6. Answered(c, outcome, t, o) = [calls EXCEPT ![c] = n]
  BY DEF Answered, second
<1> HIDE DEF n
<1> QED
  BY <1>1, <1>4, <1>5, <1>6

\* What the revocations of the API do to sessions.
LEMMA RevokedTypes ==
  ASSUME AuthTyped, NEW S
  PROVE  /\ Revoked(S) \in [Sessions -> SessionRow]
         /\ \A s \in Sessions : \/ Revoked(S)[s] = sessions[s]
                                \/ /\ Active(s) /\ s \in S /\ Revoked(S)[s].status = "REVOKED"
                                   /\ Revoked(S)[s] = [sessions[s] EXCEPT !.status = "REVOKED"]
         /\ \A s \in Sessions : s \in S => Revoked(S)[s].status # "ACTIVE"
<1> SUFFICES ASSUME NEW s \in Sessions
             PROVE  /\ Revoked(S)[s] \in SessionRow
                    /\ \/ Revoked(S)[s] = sessions[s]
                       \/ /\ Active(s) /\ s \in S /\ Revoked(S)[s].status = "REVOKED"
                          /\ Revoked(S)[s] = [sessions[s] EXCEPT !.status = "REVOKED"]
                    /\ s \in S => Revoked(S)[s].status # "ACTIVE"
  BY DEF Revoked
<1>1. sessions[s] \in SessionRow /\ s # None
  BY TokenTypes DEF AuthTyped
<1>2. CASE s \in S /\ Active(s)
  <2>1. Revoked(S)[s] = [sessions[s] EXCEPT !.status = "REVOKED"]
    BY <1>2 DEF Revoked
  <2> QED
    BY <1>1, <1>2, <2>1 DEF SessionRow
<1>3. CASE ~ (s \in S /\ Active(s))
  <2>1. Revoked(S)[s] = sessions[s]
    BY <1>3 DEF Revoked
  <2> QED
    BY <1>1, <1>3, <2>1 DEF Active
<1> QED
  BY <1>2, <1>3

-----------------------------------------------------------------------------
\* A token a device holds is of a session of that device.
Holds(t, d) == t # None => SessionOf(t) # None /\ sessions[SessionOf(t)].device = d

AllHeld ==
  /\ \A c \in Calls : Holds(calls[c].token, calls[c].device)
  /\ \A d \in Devices : Holds(client[d].token, d) /\ Holds(stored[d].token, d)

\* Tokens are minted in order, each with the one it replaced: the one before it of
\* its session.
InOrder ==
  /\ \A t, u \in Tokens : u < t /\ minted[t].session # None => minted[u].session # None
  /\ \A t \in Tokens : minted[t].session = None => minted[t].parent = None
  /\ \A t \in Tokens : minted[t].session # None => minted[t].session \in Starting

FollowsOn(t) ==
  \/ /\ minted[t].parent = None
     /\ \A u \in Tokens : minted[u].session = minted[t].session => t <= u
  \/ /\ minted[t].parent \in Tokens /\ minted[t].parent < t
     /\ minted[minted[t].parent].session = minted[t].session
     /\ \A u \in Tokens : minted[u].session = minted[t].session /\ u < t => u <= minted[t].parent

\* The row of a session holds the youngest of its tokens.
HoldsYoungest(s) ==
  /\ sessions[s].status # "NONE"
  /\ sessions[s].token \in Tokens /\ minted[sessions[s].token].session = s
  /\ \A t \in Tokens : minted[t].session = s => t <= sessions[s].token
  /\ sessions[s].previous = minted[sessions[s].token].parent

Chains ==
  /\ InOrder
  /\ \A s \in Starting : HoldsYoungest(s)
  /\ \A t \in Tokens : minted[t].session # None => FollowsOn(t)

SpentTyped == spent \in [DOMAIN Bounds -> Nat]

AuthBase == AuthTyped /\ CallsOfDevices /\ AllHeld /\ Chains /\ SpentTyped

\* Most statements end sessions, or leave them alone.
Ends ==
  /\ minted' = minted /\ sessions' \in [Sessions -> SessionRow]
  /\ \A s \in Sessions :
       \/ sessions'[s] = sessions[s]
       \/ Active(s) /\ sessions'[s] = [sessions[s] EXCEPT !.status = "REVOKED"]
       \/ Active(s) /\ sessions'[s] = [sessions[s] EXCEPT !.lapsed = TRUE]

LEMMA WhatEnds ==
  ASSUME AuthTyped, Ends, NEW s \in Sessions
  PROVE  /\ sessions'[s].token = sessions[s].token /\ sessions'[s].previous = sessions[s].previous
         /\ sessions'[s].device = sessions[s].device
         /\ sessions'[s].status = "NONE" <=> sessions[s].status = "NONE"
         /\ sessions'[s] = NewSession <=> sessions[s] = NewSession
         /\ sessions'[s].status = "ACTIVE" => sessions[s].status = "ACTIVE"
<1>1. sessions[s] \in SessionRow
  BY DEF AuthTyped
<1>2. NewSession.status = "NONE"
  BY DEF NewSession
<1>3. CASE sessions'[s] = sessions[s]
  BY <1>3
<1>4. CASE Active(s) /\ sessions'[s] = [sessions[s] EXCEPT !.status = "REVOKED"]
  BY <1>1, <1>2, <1>4 DEF SessionRow, Active
<1>5. CASE Active(s) /\ sessions'[s] = [sessions[s] EXCEPT !.lapsed = TRUE]
  BY <1>1, <1>2, <1>5 DEF SessionRow, Active
<1> QED
  BY <1>3, <1>4, <1>5 DEF Ends

LEMMA ChainsEnd ==
  ASSUME AuthTyped, Ends, Chains
  PROVE  Chains'
<1>1. Starting' = Starting
  BY WhatEnds DEF Starting
<1>2. InOrder'
  BY <1>1 DEF Chains, InOrder, Ends
<1>3. ASSUME NEW s \in Starting PROVE HoldsYoungest(s)'
  <2>1. s \in Sessions /\ HoldsYoungest(s)
    BY <1>3 DEF Chains, Starting
  <2>2. /\ sessions'[s].token = sessions[s].token /\ sessions'[s].previous = sessions[s].previous
        /\ sessions'[s].status = "NONE" <=> sessions[s].status = "NONE"
        /\ minted' = minted
    BY <2>1, WhatEnds DEF Ends
  <2> QED
    BY <2>1, <2>2 DEF HoldsYoungest
<1>4. \A t \in Tokens : minted'[t].session # None => FollowsOn(t)'
  BY DEF Chains, FollowsOn, Ends
<1> QED
  BY <1>1, <1>2, <1>3, <1>4 DEF Chains

LEMMA HoldsEnd ==
  ASSUME AuthTyped, Ends, NEW t \in AnyToken, NEW d, Holds(t, d)
  PROVE  Holds(t, d)'
<1>1. SessionOf(t)' = SessionOf(t)
  BY DEF SessionOf, Ends
<1>2. t # None => SessionOf(t) \in Sessions \cup {None}
  BY DEF SessionOf, AuthTyped, TokenRow, AnyToken
<1>3. \A s \in Sessions : sessions'[s].device = sessions[s].device
  BY WhatEnds
<1> QED
  BY <1>1, <1>2, <1>3 DEF Holds

\* A step that ends sessions at most, whatever requests and devices do meanwhile.
LEMMA BaseStep ==
  ASSUME AuthBase, Ends,
         calls' \in [Calls -> CallRow],
         \A c \in Calls : OfDevice(calls'[c]),
         \A c \in Calls : Holds(calls'[c].token, calls'[c].device),
         client' \in [Devices -> HeldRow], \A d \in Devices : Holds(client'[d].token, d),
         stored' \in [Devices -> HeldRow], \A d \in Devices : Holds(stored'[d].token, d),
         flow' \in [Devices -> FlowRow], SpentTyped'
  PROVE  AuthBase'
<1>1. AuthTyped /\ Chains
  BY DEF AuthBase
<1>2. Chains'
  BY <1>1, ChainsEnd
<1>3. minted' \in [Tokens -> TokenRow]
  BY <1>1 DEF Ends, AuthTyped
<1>4. AuthTyped'
  BY <1>3 DEF AuthTyped, Ends
<1>5. ASSUME NEW c \in Calls PROVE Holds(calls[c].token, calls[c].device)'
  <2>1. PICK t, d : t = calls'[c].token /\ d = calls'[c].device
    OBVIOUS
  <2>2. t \in AnyToken /\ Holds(t, d)
    BY <2>1 DEF CallRow
  <2>3. Holds(t, d)'
    BY <1>1, <2>2, HoldsEnd
  <2> QED
    BY <2>1, <2>3 DEF Holds, SessionOf
<1>6. ASSUME NEW d \in Devices PROVE Holds(client[d].token, d)' /\ Holds(stored[d].token, d)'
  <2>1. PICK t, u : t = client'[d].token /\ u = stored'[d].token
    OBVIOUS
  <2>2. t \in AnyToken /\ u \in AnyToken /\ Holds(t, d) /\ Holds(u, d)
    BY <2>1 DEF HeldRow
  <2>3. Holds(t, d)' /\ Holds(u, d)'
    BY <1>1, <2>2, HoldsEnd
  <2> QED
    BY <2>1, <2>3 DEF Holds, SessionOf
<1>7. AllHeld' /\ CallsOfDevices'
  BY <1>5, <1>6 DEF AllHeld, CallsOfDevices
<1> QED
  BY <1>2, <1>4, <1>7 DEF AuthBase

\* One request changes, and sessions end at most.
OneCall(c, n) == calls' = [calls EXCEPT ![c] = n] /\ n \in CallRow

LEMMA OneCallStep ==
  ASSUME AuthBase, Ends, NEW c \in Calls, NEW n, OneCall(c, n),
         OfDevice(n), Holds(n.token, n.device),
         UNCHANGED <<client, stored>>, flow' \in [Devices -> FlowRow], SpentTyped'
  PROVE  AuthBase'
<1>1. calls' \in [Calls -> CallRow] /\ \A e \in Calls : calls'[e] = IF e = c THEN n ELSE calls[e]
  BY DEF OneCall, AuthBase, AuthTyped
<1>2. client' \in [Devices -> HeldRow] /\ stored' \in [Devices -> HeldRow]
  BY DEF AuthBase, AuthTyped
<1>3. \A e \in Calls : OfDevice(calls'[e])
  BY <1>1 DEF AuthBase, CallsOfDevices
<1>4. \A e \in Calls : Holds(calls'[e].token, calls'[e].device)
  BY <1>1 DEF AuthBase, AllHeld
<1>5. \A d \in Devices : Holds(client'[d].token, d) /\ Holds(stored'[d].token, d)
  BY DEF AuthBase, AllHeld
<1> QED
  BY <1>1, <1>2, <1>3, <1>4, <1>5, BaseStep

-----------------------------------------------------------------------------
\* A request the API can have been sent.
CallFits(n) == n \in CallRow /\ OfDevice(n) /\ Holds(n.token, n.device)

LEMMA CallsFit ==
  ASSUME AuthBase, NEW c \in Calls
  PROVE  CallFits(calls[c])
BY DEF AuthBase, AuthTyped, CallsOfDevices, AllHeld, CallFits

LEMMA NoCallFits ==
  CallFits(NoCall)
<1>1. NoCall.op = "NONE" /\ NoCall.token = None
  BY DEF NoCall
<1> QED
  BY <1>1, NoneTypes DEF CallFits, Holds, OfDevice

LEMMA RequestFitsCall ==
  ASSUME AuthBase, NEW d \in Devices, NEW op \in Ops, NEW o \in AnyOrg
  PROVE  CallFits(Request(d, op, o))
<1>1. Holds(client[d].token, d) /\ AuthTyped
  BY DEF AuthBase, AllHeld
<1>2. op # "NONE"
  BY DEF Ops
<1>3. /\ Request(d, op, o) \in CallRow
      /\ Request(d, op, o).op = op /\ Request(d, op, o).device = d
  BY ZenonT(60), <1>1, RequestTypes
<1>6. Request(d, op, o).token = client[d].token
  BY DEF Request, NoCall
<1>4. PICK n : n = Request(d, op, o)
  OBVIOUS
<1>5. OfDevice(n) /\ n \in CallRow /\ Holds(n.token, n.device)
  BY <1>1, <1>2, <1>3, <1>4, <1>6 DEF OfDevice
<1> QED
  BY <1>4, <1>5 DEF CallFits

\* A request moves on to its next statement.
LEMMA AdvanceTypes ==
  ASSUME NEW r \in CallRow, NEW x \in Steps
  PROVE  LET n == [r EXCEPT !.step = x]
         IN /\ n \in CallRow /\ n.step = x
            /\ n.op = r.op /\ n.device = r.device /\ n.token = r.token /\ n.org = r.org
            /\ n.heard = r.heard /\ n.outcome = r.outcome
BY DEF CallRow

LEMMA AdvanceFits ==
  ASSUME AuthBase, NEW c \in Calls, NEW x \in Steps, calls[c] # NoCall
  PROVE  CallFits([calls[c] EXCEPT !.step = x])
BY CallsFit, AdvanceTypes DEF CallFits, OfDevice

LEMMA UnderWay ==
  NoCall.step = "NONE" /\ NoCall.op = "NONE" /\ NoCall.heard = FALSE /\ NoCall.token = None
BY DEF NoCall

LEMMA OrgTypes ==
  ASSUME NEW r \in CallRow, NEW x \in Steps, NEW o \in AnyOrg
  PROVE  LET n == [r EXCEPT !.step = x, !.org = o]
         IN /\ n \in CallRow /\ n.step = x
            /\ n.op = r.op /\ n.device = r.device /\ n.token = r.token /\ n.org = o
            /\ n.heard = r.heard /\ n.outcome = r.outcome
BY DEF CallRow

LEMMA FitStep ==
  ASSUME AuthBase, Ends, NEW c \in Calls, NEW n, CallFits(n), calls' = [calls EXCEPT ![c] = n],
         UNCHANGED <<client, stored>>, flow' \in [Devices -> FlowRow], SpentTyped'
  PROVE  AuthBase'
BY OneCallStep DEF CallFits, OneCall

LEMMA AnswerFits ==
  ASSUME AuthBase, NEW c \in Calls, NEW outcome \in Outcomes, NEW t \in AnyToken,
         NEW o \in AnyOrg, Holds(t, calls[c].device)
  PROVE  /\ CallFits(Answered(c, outcome, t, o)[c])
         /\ Answered(c, outcome, t, o) = [calls EXCEPT ![c] = Answered(c, outcome, t, o)[c]]
<1> DEFINE A == Answered(c, outcome, t, o)
<1>1. AuthTyped
  BY DEF AuthBase
<1>2. /\ A \in [Calls -> CallRow] /\ \A e \in Calls \ {c} : A[e] = calls[e]
      /\ \/ A[c] = NoCall
         \/ /\ calls[c] # NoCall
            /\ A[c].op = calls[c].op /\ A[c].device = calls[c].device /\ A[c].token = t
  BY <1>1, AnswerTypes
<1>3. calls \in [Calls -> CallRow]
  BY <1>1 DEF AuthTyped
<1> HIDE DEF A
<1>4. CallFits(A[c])
  BY <1>2, CallsFit, NoCallFits DEF CallFits, OfDevice
<1>5. A = [calls EXCEPT ![c] = A[c]]
  BY <1>2, <1>3
<1> QED
  BY <1>4, <1>5 DEF A

LEMMA RefuseStep ==
  ASSUME AuthBase, Ends, NEW c \in Calls, NEW outcome \in Outcomes, Refuse(c, outcome),
         UNCHANGED <<client, stored>>, flow' \in [Devices -> FlowRow], SpentTyped'
  PROVE  AuthBase'
<1>1. calls[c].token \in AnyToken /\ calls[c].org \in AnyOrg /\ Holds(calls[c].token, calls[c].device)
  BY CallsFit DEF CallFits, CallRow
<1>2. PICK t \in AnyToken, o \in AnyOrg : t = calls[c].token /\ o = calls[c].org
  BY <1>1
<1>3. calls' = Answered(c, outcome, t, o)
  BY <1>2 DEF Refuse
<1>4. CallFits(Answered(c, outcome, t, o)[c])
      /\ calls' = [calls EXCEPT ![c] = Answered(c, outcome, t, o)[c]]
  BY <1>1, <1>2, <1>3, AnswerFits
<1> QED
  BY <1>4, FitStep

LEMMA AdvanceStep ==
  ASSUME AuthBase, Ends, NEW c \in Calls, calls[c].step # "NONE", NEW x \in Steps,
         calls' = [calls EXCEPT ![c].step = x],
         UNCHANGED <<client, stored>>, flow' \in [Devices -> FlowRow], SpentTyped'
  PROVE  AuthBase'
<1>1. PICK n : n = [calls[c] EXCEPT !.step = x]
  OBVIOUS
<1>2. CallFits(n) /\ calls' = [calls EXCEPT ![c] = n]
  BY <1>1, UnderWay, AdvanceFits
<1> QED
  BY <1>2, FitStep

LEMMA NothingEnds ==
  ASSUME AuthTyped, UNCHANGED <<sessions, minted>>
  PROVE  Ends
BY DEF AuthTyped, Ends

LEMMA RevocationEnds ==
  ASSUME AuthTyped, NEW S, sessions' = Revoked(S), UNCHANGED minted
  PROVE  Ends
BY RevokedTypes DEF Ends

LEMMA SpendTypes ==
  ASSUME SpentTyped,
         UNCHANGED spent \/ \E what \in DOMAIN Bounds : Spend(what)
  PROVE  SpentTyped'
BY DEF SpentTyped, Spend

LEMMA BoundNames ==
  DOMAIN Bounds = {"expiries", "switches", "signOuts", "decisions", "losses"}
BY DEF Bounds

\* Who a step leaves alone.
LEMMA SameDevices ==
  ASSUME AuthBase, UNCHANGED device
  PROVE  UNCHANGED <<client, stored>> /\ flow' \in [Devices -> FlowRow]
BY DEF AuthBase, AuthTyped, device

-----------------------------------------------------------------------------
\* The statements of the API, but those that mint a token.
LEMMA SupersedeBase ==
  ASSUME AuthBase, NEW c \in Calls, LoginSupersede(c)
  PROVE  AuthBase'
<1>1. AuthTyped /\ SpentTyped' /\ UNCHANGED <<client, stored>> /\ flow' \in [Devices -> FlowRow]
  <2>1. UNCHANGED <<device, spent>>
    BY DEF LoginSupersede
  <2> QED
    BY <2>1, SameDevices DEF AuthBase, SpentTyped
<1>2. CASE calls[c].org \notin members
  <2>1. Ends
    BY <1>1, <1>2, NothingEnds DEF LoginSupersede
  <2>2. Refuse(c, "REFUSED") /\ "REFUSED" \in Outcomes
    BY <1>2 DEF LoginSupersede, Outcomes
  <2> QED
    BY <1>1, <2>1, <2>2, RefuseStep
<1>3. CASE calls[c].org \in members
  <2>1. Ends
    BY <1>1, <1>3, RevocationEnds DEF LoginSupersede
  <2>2. calls' = [calls EXCEPT ![c].step = "ASSIGN"] /\ "ASSIGN" \in Steps
        /\ calls[c].step = "SENT"
    BY <1>3 DEF LoginSupersede, Steps
  <2> QED
    BY <1>1, <2>1, <2>2, AdvanceStep
<1> QED
  BY <1>2, <1>3

LEMMA AssignBase ==
  ASSUME AuthBase, NEW c \in Calls, EnsureAssignment(c)
  PROVE  AuthBase'
<1>1. UNCHANGED <<sessions, minted, device, spent>> /\ AuthTyped /\ calls[c].step = "ASSIGN"
  BY DEF EnsureAssignment, AuthBase
<1>2. Ends /\ SpentTyped' /\ UNCHANGED <<client, stored>> /\ flow' \in [Devices -> FlowRow]
  BY <1>1, NothingEnds, SameDevices DEF AuthBase, SpentTyped
<1>3. PICK x \in Steps : calls' = [calls EXCEPT ![c].step = x]
  BY DEF EnsureAssignment, Steps
<1> QED
  BY <1>1, <1>2, <1>3, AdvanceStep

LEMMA LoadRefreshBase ==
  ASSUME AuthBase, NEW c \in Calls, LoadForRefresh(c)
  PROVE  AuthBase'
<1> DEFINE s == SessionOf(calls[c].token)
<1>1. UNCHANGED <<sessions, minted, device, spent>> /\ AuthTyped /\ calls[c].step = "SENT"
  BY DEF LoadForRefresh, rows, AuthBase
<1>2. Ends /\ SpentTyped' /\ UNCHANGED <<client, stored>> /\ flow' \in [Devices -> FlowRow]
  BY <1>1, NothingEnds, SameDevices DEF AuthBase, SpentTyped
<1>3. \/ calls' = [calls EXCEPT ![c].step = "REVOKE"]
      \/ /\ Usable(s, calls[c].token)
         /\ calls' = [calls EXCEPT ![c].step = "ROTATE", ![c].org = SnapshotOrg(s)]
      \/ Refuse(c, "REFUSED")
  BY DEF LoadForRefresh
<1>4. CASE calls' = [calls EXCEPT ![c].step = "REVOKE"]
  BY <1>1, <1>2, <1>4, AdvanceStep DEF Steps
<1>5. CASE Refuse(c, "REFUSED")
  BY <1>2, <1>5, RefuseStep DEF Outcomes
<1>6. CASE /\ Usable(s, calls[c].token)
           /\ calls' = [calls EXCEPT ![c].step = "ROTATE", ![c].org = SnapshotOrg(s)]
  <2>1. s \in Sessions
    <3>1. calls[c].token \in AnyToken /\ s # None
      BY <1>6, CallsFit DEF CallFits, CallRow, Usable, Active
    <3> QED
      BY <1>1, <3>1 DEF AuthTyped, SessionOf, AnyToken, TokenRow
  <2>2. PICK o \in AnyOrg : o = SnapshotOrg(s)
    BY <1>1, <2>1 DEF AuthTyped, SessionRow, SnapshotOrg
  <2>3. PICK n : n = [calls[c] EXCEPT !.step = "ROTATE", !.org = o]
    OBVIOUS
  <2>4. calls' = [calls EXCEPT ![c] = n]
    BY <1>6, <2>2, <2>3
  <2>5. CallFits(n)
    <3>1. CallFits(calls[c]) /\ "ROTATE" \in Steps /\ calls[c] \in CallRow
      BY CallsFit DEF CallFits, Steps
    <3>2. n \in CallRow /\ n.op = calls[c].op /\ n.device = calls[c].device
          /\ n.token = calls[c].token
      BY <2>3, <3>1 DEF CallRow
    <3> QED
      BY <1>1, <3>1, <3>2, UnderWay DEF CallFits, OfDevice
  <2> QED
    BY <1>2, <2>4, <2>5, FitStep
<1> QED
  BY <1>3, <1>4, <1>5, <1>6

LEMMA LoadSwitchBase ==
  ASSUME AuthBase, NEW c \in Calls, LoadForSwitch(c)
  PROVE  AuthBase'
<1>1. UNCHANGED <<sessions, minted, device, spent>> /\ AuthTyped /\ calls[c].step = "SENT"
  BY DEF LoadForSwitch, rows, AuthBase
<1>2. Ends /\ SpentTyped' /\ UNCHANGED <<client, stored>> /\ flow' \in [Devices -> FlowRow]
  BY <1>1, NothingEnds, SameDevices DEF AuthBase, SpentTyped
<1>3. \/ calls' = [calls EXCEPT ![c].step = "ASSIGN"]
      \/ \E x \in Outcomes : Refuse(c, x)
  BY DEF LoadForSwitch, Outcomes
<1> QED
  BY <1>1, <1>2, <1>3, AdvanceStep, RefuseStep DEF Steps

LEMMA RevokeBase ==
  ASSUME AuthBase, NEW c \in Calls, RevokeDeviceSessions(c)
  PROVE  AuthBase'
<1>1. AuthTyped /\ UNCHANGED <<minted, device, spent>> /\ Refuse(c, "DETECTED")
      /\ sessions' = Revoked(SessionsOn(calls[c].device))
  BY DEF RevokeDeviceSessions, AuthBase
<1>2. Ends /\ SpentTyped' /\ UNCHANGED <<client, stored>> /\ flow' \in [Devices -> FlowRow]
  BY <1>1, RevocationEnds, SameDevices DEF AuthBase, SpentTyped
<1> QED
  BY <1>1, <1>2, RefuseStep DEF Outcomes

LEMMA NoneHeld ==
  ASSUME NEW d
  PROVE  Holds(None, d)
BY DEF Holds

LEMMA AdmitBase ==
  ASSUME AuthBase, NEW c \in Calls, AdmitSignOut(c)
  PROVE  AuthBase'
<1>1. AuthTyped /\ UNCHANGED <<sessions, minted, device>> /\ calls[c].step # "NONE"
  BY DEF AdmitSignOut, AuthBase, rows
<1>2. SpentTyped'
  BY BoundNames, SpendTypes DEF AdmitSignOut, AuthBase
<1>3. UNCHANGED <<client, stored>> /\ flow' \in [Devices -> FlowRow] /\ Ends
  BY <1>1, SameDevices, NothingEnds
<1>4. CASE calls' = [calls EXCEPT ![c].step = "SIGN_OUT"]
  BY <1>1, <1>2, <1>3, <1>4, AdvanceStep DEF Steps
<1>5. CASE Refuse(c, "REFUSED")
  BY <1>2, <1>3, <1>5, RefuseStep DEF Outcomes
<1> QED
  BY <1>4, <1>5 DEF AdmitSignOut

LEMMA LogoutBase ==
  ASSUME AuthBase, NEW c \in Calls, Logout(c)
  PROVE  AuthBase'
<1>1. AuthTyped /\ UNCHANGED <<minted, device>>
  BY DEF Logout, AuthBase
<1>2. SpentTyped'
  BY SpendTypes DEF Logout, AuthBase
<1>3. UNCHANGED <<client, stored>> /\ flow' \in [Devices -> FlowRow]
  BY <1>1, SameDevices
<1>4. PICK S : sessions' = Revoked(S) /\ calls' = Answered(c, "OK", None, NoOrg)
  BY DEF Logout
<1>5. Ends
  BY <1>1, <1>4, RevocationEnds
<1>6. None \in AnyToken /\ NoOrg \in AnyOrg /\ "OK" \in Outcomes
  BY DEF AnyToken, AnyOrg, Outcomes
<1>7. CallFits(Answered(c, "OK", None, NoOrg)[c])
      /\ calls' = [calls EXCEPT ![c] = Answered(c, "OK", None, NoOrg)[c]]
  BY <1>4, <1>6, AnswerFits, NoneHeld
<1> QED
  BY <1>2, <1>3, <1>5, <1>7, FitStep

\* What managers and time do.
LEMMA QuietStep ==
  ASSUME AuthBase, Ends, UNCHANGED <<calls, device>>, SpentTyped'
  PROVE  AuthBase'
<1>1. UNCHANGED <<client, stored>> /\ flow' \in [Devices -> FlowRow]
  BY SameDevices
<1>2. calls' \in [Calls -> CallRow] /\ client' \in [Devices -> HeldRow]
      /\ stored' \in [Devices -> HeldRow]
  BY <1>1 DEF AuthBase, AuthTyped
<1>3. \A c \in Calls : /\ OfDevice(calls'[c])
                       /\ Holds(calls'[c].token, calls'[c].device)
  BY DEF AuthBase, CallsOfDevices, AllHeld
<1>4. \A d \in Devices : Holds(client'[d].token, d) /\ Holds(stored'[d].token, d)
  BY <1>1 DEF AuthBase, AllHeld
<1> QED
  BY <1>1, <1>2, <1>3, <1>4, BaseStep

LEMMA ManagersBase ==
  ASSUME AuthBase,
         \/ \E d \in Devices, o \in Orgs : RevokeAssignment(d, o) \/ RevokeAssignedSessions(d, o)
         \/ \E o \in Orgs : ChangeMembership(o)
  PROVE  Ends /\ AuthBase'
<1>1. AuthTyped /\ SpentTyped
  BY DEF AuthBase
<1>2. ASSUME NEW d \in Devices, NEW o \in Orgs, RevokeAssignment(d, o) PROVE Ends /\ AuthBase'
  <2>1. UNCHANGED <<sessions, minted, calls, device>> /\ Spend("decisions")
    BY <1>2 DEF RevokeAssignment
  <2> QED
    BY <1>1, <2>1, NothingEnds, SpendTypes, BoundNames, QuietStep
<1>3. ASSUME NEW d \in Devices, NEW o \in Orgs, RevokeAssignedSessions(d, o)
      PROVE  Ends /\ AuthBase'
  <2>1. UNCHANGED <<minted, calls, device, spent>>
        /\ sessions' = Revoked({s \in SessionsOn(d) : sessions[s].org = o})
    BY <1>3 DEF RevokeAssignedSessions
  <2>2. SpentTyped'
    BY <1>1, <2>1 DEF SpentTyped
  <2>3. Ends
    BY <1>1, <2>1, RevocationEnds
  <2> QED
    BY <2>1, <2>2, <2>3, QuietStep
<1>4. ASSUME NEW o \in Orgs, ChangeMembership(o) PROVE Ends /\ AuthBase'
  <2>1. UNCHANGED <<sessions, minted, calls, device>> /\ Spend("decisions")
    BY <1>4 DEF ChangeMembership
  <2> QED
    BY <1>1, <2>1, NothingEnds, SpendTypes, BoundNames, QuietStep
<1> QED
  BY <1>2, <1>3, <1>4

LEMMA LapseBase ==
  ASSUME AuthBase, NEW s \in Sessions, Lapse(s)
  PROVE  Ends /\ AuthBase'
<1>1. AuthTyped /\ SpentTyped /\ UNCHANGED <<minted, calls, device, spent>>
  BY DEF AuthBase, Lapse
<1>2. Ends
  <2>1. sessions' = [sessions EXCEPT ![s].lapsed = TRUE] /\ Active(s)
    BY DEF Lapse
  <2>2. sessions[s] \in SessionRow /\ sessions \in [Sessions -> SessionRow]
    BY <1>1 DEF AuthTyped
  <2>3. PICK r : r = [sessions[s] EXCEPT !.lapsed = TRUE]
    OBVIOUS
  <2>4. r \in SessionRow /\ sessions' = [sessions EXCEPT ![s] = r]
    BY <2>1, <2>2, <2>3 DEF SessionRow
  <2>5. \A u \in Sessions : sessions'[u] = IF u = s THEN r ELSE sessions[u]
    BY <2>2, <2>4
  <2> QED
    BY <1>1, <2>1, <2>2, <2>3, <2>4, <2>5 DEF Ends
<1>3. SpentTyped'
  BY <1>1 DEF SpentTyped
<1> QED
  BY <1>1, <1>2, <1>3, QuietStep

-----------------------------------------------------------------------------
\* What devices do.
LEMMA SameRows ==
  ASSUME AuthBase, UNCHANGED rows
  PROVE  Ends
BY NothingEnds DEF AuthBase, rows

\* A device sends a request, or has none to send.
LEMMA AskStep ==
  ASSUME AuthBase, UNCHANGED <<rows, client, stored>>, SpentTyped',
         flow' \in [Devices -> FlowRow], NEW d \in Devices, NEW c \in Calls, NEW op \in Ops,
         NEW o \in AnyOrg,
         \/ calls' = [calls EXCEPT ![c] = Request(d, op, o)]
         \/ calls' = [calls EXCEPT ![c] = NoCall]
         \/ calls' = calls
  PROVE  AuthBase'
<1>1. Ends
  BY SameRows
<1>2. CASE calls' = [calls EXCEPT ![c] = Request(d, op, o)]
  BY <1>1, <1>2, RequestFitsCall, FitStep
<1>3. CASE calls' = [calls EXCEPT ![c] = NoCall]
  BY <1>1, <1>3, NoCallFits, FitStep
<1>4. CASE calls' = calls
  <2>1. calls' = [calls EXCEPT ![c] = calls[c]]
    BY <1>4 DEF AuthBase, AuthTyped
  <2> QED
    BY <1>1, <2>1, CallsFit, FitStep
<1> QED
  BY <1>2, <1>3, <1>4

LEMMA OrgKinds ==
  NoOrg \in AnyOrg /\ Orgs \subseteq AnyOrg
BY DEF AnyOrg

LEMMA AsksBase ==
  ASSUME AuthBase, NEW d \in Devices, NEW c \in Calls,
         \/ Rejected(d, c) \/ Expired(d, c) \/ SendRefreshed(d, c)
         \/ \E o \in Orgs : SignIn(d, o, c) \/ StartSwitch(d, o, c) \/ BrowserSwitch(d, o, c)
         \/ \E op \in {"LOGOUT", "LOGOUT_ALL"} : SignOut(d, op, c)
  PROVE  AuthBase'
<1>1. AuthTyped /\ SpentTyped /\ flow \in [Devices -> FlowRow]
  BY DEF AuthBase, AuthTyped
<1>2. ASSUME Rejected(d, c) \/ Expired(d, c) PROVE AuthBase'
  <2>1. UNCHANGED <<rows, device>> /\ calls' = [calls EXCEPT ![c] = Request(d, "REFRESH", NoOrg)]
    BY <1>2 DEF Rejected, Expired, Unauthorized
  <2>2. SpentTyped'
    BY <1>1, <1>2, SpendTypes, BoundNames DEF Rejected, Expired
  <2>3. UNCHANGED <<client, stored>> /\ flow' \in [Devices -> FlowRow]
    BY <2>1, SameDevices
  <2> QED
    BY <2>1, <2>2, <2>3, OrgKinds, AskStep DEF Ops
<1>3. ASSUME SendRefreshed(d, c) PROVE AuthBase'
  <2>1. UNCHANGED <<rows, client, stored, spent>>
        /\ calls' = [calls EXCEPT ![c] = Request(d, flow[d].op, flow[d].org)]
    BY <1>3 DEF SendRefreshed
  <2>2. flow[d].op \in Ops /\ flow[d].org \in AnyOrg /\ flow[d].op # "NONE"
    BY <1>1, <1>3 DEF SendRefreshed, FlowRow, Ops
  <2>3. PICK f : f = [flow[d] EXCEPT !.step = "AGAIN"]
    OBVIOUS
  <2>4. f \in FlowRow
    BY <1>1, <2>2, <2>3 DEF FlowRow
  <2>5. flow' \in [Devices -> FlowRow]
    BY <1>1, <1>3, <2>3, <2>4 DEF SendRefreshed
  <2>6. SpentTyped'
    BY <1>1, <2>1 DEF SpentTyped
  <2> QED
    BY <2>1, <2>2, <2>5, <2>6, AskStep
<1>4. ASSUME NEW o \in Orgs, SignIn(d, o, c) PROVE AuthBase'
  <2>1. UNCHANGED <<rows, device, spent>> /\ calls' = [calls EXCEPT ![c] = Request(d, "LOGIN", o)]
    BY <1>4 DEF SignIn
  <2>2. UNCHANGED <<client, stored>> /\ flow' \in [Devices -> FlowRow] /\ SpentTyped'
    BY <1>1, <2>1, SameDevices DEF SpentTyped
  <2> QED
    BY <2>1, <2>2, OrgKinds, AskStep DEF Ops
<1>5. ASSUME NEW o \in Orgs, StartSwitch(d, o, c) PROVE AuthBase'
  <2>1. PICK f : f = [op |-> "SWITCH", org |-> o, step |-> "REFRESH"]
    OBVIOUS
  <2>2. f \in FlowRow
    BY <2>1, OrgKinds DEF FlowRow
  <2>3. flow' \in [Devices -> FlowRow]
    BY <1>1, <1>5, <2>1, <2>2 DEF StartSwitch
  <2>4. UNCHANGED <<rows, client, stored>> /\ Spend("switches")
        /\ (calls' = [calls EXCEPT ![c] = Request(d, "REFRESH", NoOrg)] \/ calls' = calls)
    BY <1>5 DEF StartSwitch
  <2>5. SpentTyped'
    BY <1>1, <2>4, SpendTypes, BoundNames
  <2> QED
    BY <2>3, <2>4, <2>5, OrgKinds, AskStep DEF Ops
<1>6. ASSUME NEW o \in Orgs, BrowserSwitch(d, o, c) PROVE AuthBase'
  <2>1. UNCHANGED <<rows, device>> /\ Spend("switches")
        /\ calls' = [calls EXCEPT ![c] = Request(d, "SWITCH", o)]
    BY <1>6 DEF BrowserSwitch
  <2>2. UNCHANGED <<client, stored>> /\ flow' \in [Devices -> FlowRow] /\ SpentTyped'
    BY <1>1, <2>1, SameDevices, SpendTypes, BoundNames
  <2> QED
    BY <2>1, <2>2, OrgKinds, AskStep DEF Ops
<1>7. ASSUME NEW op \in {"LOGOUT", "LOGOUT_ALL"}, SignOut(d, op, c) PROVE AuthBase'
  <2>1. UNCHANGED <<rows, client, stored>> /\ Spend("signOuts")
        /\ calls' = [calls EXCEPT ![c] = Request(d, op, NoOrg)]
    BY <1>7 DEF SignOut
  <2>2. PICK f : f = [op |-> op, org |-> NoOrg, step |-> "SENT"]
    OBVIOUS
  <2>3. f \in FlowRow
    BY <2>2, OrgKinds DEF FlowRow
  <2>4. flow' \in [Devices -> FlowRow]
    BY <1>1, <1>7, <2>2, <2>3 DEF SignOut
  <2>5. SpentTyped'
    BY <1>1, <2>1, SpendTypes, BoundNames
  <2> QED
    BY <2>1, <2>4, <2>5, OrgKinds, AskStep DEF Ops
<1> QED
  BY <1>2, <1>3, <1>4, <1>5, <1>6, <1>7

\* A device takes an answer, or gives up: the tokens it then holds are the answer's, the
\* ones it had, or none.
TakesFrom(d, held) ==
  \/ held = client[d] \/ held = NoTokens
  \/ d \in Devices /\ held = stored[d]
  \/ \E c \in Calls : /\ calls[c].device = d
                      /\ held = [token |-> calls[c].token, org |-> calls[c].org]

LEMMA TakenFits ==
  ASSUME AuthBase, NEW d \in Devices, NEW held, TakesFrom(d, held)
  PROVE  held \in HeldRow /\ Holds(held.token, d)
<1>1. client[d] \in HeldRow /\ stored[d] \in HeldRow /\ Holds(client[d].token, d)
      /\ Holds(stored[d].token, d)
  BY DEF AuthBase, AuthTyped, AllHeld
<1>2. NoTokens \in HeldRow /\ Holds(NoTokens.token, d)
  BY NoneTypes, NoneHeld DEF NoTokens
<1>3. ASSUME NEW c \in Calls, calls[c].device = d,
             held = [token |-> calls[c].token, org |-> calls[c].org]
      PROVE  held \in HeldRow /\ Holds(held.token, d)
  <2>1. calls[c] \in CallRow /\ Holds(calls[c].token, d)
    BY <1>3, CallsFit DEF CallFits
  <2> QED
    BY <1>3, <2>1 DEF CallRow, HeldRow
<1> QED
  BY <1>1, <1>2, <1>3 DEF TakesFrom

LEMMA TakeStep ==
  ASSUME AuthBase, UNCHANGED <<rows, stored>>, SpentTyped', flow' \in [Devices -> FlowRow],
         NEW d \in Devices, NEW held, client' = [client EXCEPT ![d] = held], TakesFrom(d, held),
         calls' \in [Calls -> CallRow],
         \A c \in Calls : \/ calls'[c] = NoCall \/ calls'[c] = calls[c]
                          \/ /\ calls[c] # NoCall
                             /\ calls'[c].op = calls[c].op /\ calls'[c].token = calls[c].token
                             /\ calls'[c].device = calls[c].device
  PROVE  AuthBase'
<1>1. Ends
  BY SameRows
<1>2. held \in HeldRow /\ Holds(held.token, d)
  BY TakenFits
<1>3. /\ client' \in [Devices -> HeldRow] /\ stored' \in [Devices -> HeldRow]
      /\ \A e \in Devices : Holds(client'[e].token, e) /\ Holds(stored'[e].token, e)
  BY <1>2 DEF AuthBase, AuthTyped, AllHeld
<1>4. \A c \in Calls : /\ OfDevice(calls'[c])
                       /\ Holds(calls'[c].token, calls'[c].device)
  BY CallsFit, NoCallFits DEF CallFits, OfDevice
<1> QED
  BY <1>1, <1>3, <1>4, BaseStep

LEMMA GrantBase ==
  ASSUME AuthBase, NEW c \in Calls, ReceiveGrant(c)
  PROVE  AuthBase'
<1> DEFINE d == calls[c].device
<1>1. AuthTyped /\ SpentTyped' /\ d \in Devices /\ UNCHANGED <<rows, stored>>
  BY UnderWay DEF ReceiveGrant, AuthBase, CallsOfDevices, OfDevice, SpentTyped
<1>2. \E held : client' = [client EXCEPT ![d] = held] /\ TakesFrom(d, held)
  <2>1. TakesFrom(d, [token |-> calls[c].token, org |-> calls[c].org])
        /\ TakesFrom(d, NoTokens) /\ TakesFrom(d, client[d])
    BY DEF TakesFrom
  <2>2. PICK held : held = CASE calls[c].outcome = "OK" ->
                                  [token |-> calls[c].token, org |-> calls[c].org]
                             [] calls[c].outcome = "NOT_ACTIVE" /\ d \notin Browsers -> NoTokens
                             [] OTHER -> client[d]
    OBVIOUS
  <2>3. TakesFrom(d, held)
    <3>1. CASE calls[c].outcome = "OK"
      BY <2>1, <2>2, <3>1
    <3>2. CASE calls[c].outcome = "NOT_ACTIVE" /\ d \notin Browsers
      BY <2>1, <2>2, <3>2
    <3>3. CASE calls[c].outcome # "OK" /\ ~ (calls[c].outcome = "NOT_ACTIVE" /\ d \notin Browsers)
      BY <2>1, <2>2, <3>3
    <3> QED
      BY <3>1, <3>2, <3>3
  <2>4. client' = [client EXCEPT ![d] = held]
    BY <2>2 DEF ReceiveGrant
  <2> QED
    BY <2>3, <2>4
<1>3. flow' \in [Devices -> FlowRow]
  BY <1>1, NoneTypes DEF ReceiveGrant, AuthTyped
<1>4. calls' = [calls EXCEPT ![c] = NoCall]
  BY DEF ReceiveGrant, Done
<1>5. calls' \in [Calls -> CallRow]
      /\ \A e \in Calls : calls'[e] = NoCall \/ calls'[e] = calls[e]
  BY <1>1, <1>4, NoneTypes DEF AuthTyped
<1> QED
  BY <1>1, <1>2, <1>3, <1>5, TakeStep

LEMMA RefreshBase ==
  ASSUME AuthBase, NEW c \in Calls, ReceiveRefresh(c)
  PROVE  AuthBase'
<1> DEFINE d == calls[c].device
<1>1. AuthTyped /\ SpentTyped' /\ d \in Devices /\ UNCHANGED <<rows, stored>>
  BY UnderWay DEF ReceiveRefresh, AuthBase, CallsOfDevices, OfDevice, SpentTyped
<1>2. \E held : client' = [client EXCEPT ![d] = held] /\ TakesFrom(d, held)
  <2>1. TakesFrom(d, [token |-> calls[c].token, org |-> calls[c].org]) /\ TakesFrom(d, NoTokens)
    BY DEF TakesFrom
  <2>2. PICK held : held = IF calls[c].outcome = "OK"
                             THEN [token |-> calls[c].token, org |-> calls[c].org] ELSE NoTokens
    OBVIOUS
  <2>3. TakesFrom(d, held)
    BY <2>1, <2>2
  <2>4. client' = [client EXCEPT ![d] = held]
    <3>1. CASE calls[c].outcome = "OK"
      BY <2>2, <3>1 DEF ReceiveRefresh, Terminal
    <3>2. CASE calls[c].outcome # "OK"
      BY <2>2, <3>2 DEF ReceiveRefresh, Terminal
    <3> QED
      BY <3>1, <3>2
  <2> QED
    BY <2>3, <2>4
<1>3. flow' \in [Devices -> FlowRow]
  <2>1. flow[d] \in FlowRow
    BY <1>1 DEF AuthTyped
  <2>2. PICK r : r = [flow[d] EXCEPT !.step = "READY"]
    OBVIOUS
  <2>3. flow[d].step = "REFRESH" => r \in FlowRow
    BY <2>1, <2>2 DEF FlowRow
  <2>4. flow' = [flow EXCEPT ![d] = IF flow[d].step # "REFRESH" THEN flow[d] ELSE
                   IF calls[c].outcome = "OK" THEN r ELSE NoFlow]
    BY <2>2 DEF ReceiveRefresh
  <2> QED
    BY <1>1, <2>1, <2>3, <2>4, NoneTypes DEF AuthTyped
<1>4. calls' = [calls EXCEPT ![c] = NoCall]
  BY DEF ReceiveRefresh, Done
<1>5. calls' \in [Calls -> CallRow]
      /\ \A e \in Calls : calls'[e] = NoCall \/ calls'[e] = calls[e]
  BY <1>1, <1>4, NoneTypes DEF AuthTyped
<1> QED
  BY <1>1, <1>2, <1>3, <1>5, TakeStep

LEMMA RetryBase ==
  ASSUME AuthBase, NEW c \in Calls, RetrySignOut(c)
  PROVE  AuthBase'
<1> DEFINE d == calls[c].device
<1>1. AuthTyped /\ SpentTyped' /\ d \in Devices /\ UNCHANGED <<rows, client, stored>>
  BY UnderWay DEF RetrySignOut, AuthBase, CallsOfDevices, OfDevice, SpentTyped
<1>2. flow' \in [Devices -> FlowRow]
  <2>1. flow[d] \in FlowRow /\ flow[d].step = "SENT"
    BY <1>1 DEF AuthTyped, RetrySignOut
  <2>2. PICK r : r = [flow[d] EXCEPT !.step = "REFRESH"]
    OBVIOUS
  <2>3. r \in FlowRow
    BY <2>1, <2>2 DEF FlowRow
  <2> QED
    BY <1>1, <2>2, <2>3 DEF AuthTyped, RetrySignOut
<1>3. \/ calls' = [calls EXCEPT ![c] = Request(d, "REFRESH", NoOrg)]
      \/ calls' = [calls EXCEPT ![c] = NoCall]
  BY DEF RetrySignOut
<1> QED
  BY <1>1, <1>2, <1>3, OrgKinds, AskStep DEF Ops

LEMMA SignedOutBase ==
  ASSUME AuthBase, NEW c \in Calls, ReceiveSignOut(c)
  PROVE  AuthBase'
<1> DEFINE d == calls[c].device
<1>1. AuthTyped /\ SpentTyped' /\ d \in Devices /\ UNCHANGED <<rows, stored>>
  BY UnderWay DEF ReceiveSignOut, AuthBase, CallsOfDevices, OfDevice, SpentTyped
<1>2. client' = [client EXCEPT ![d] = NoTokens] /\ flow' = [flow EXCEPT ![d] = NoFlow]
      /\ calls' = [calls EXCEPT ![c] = NoCall] /\ TakesFrom(d, NoTokens)
  BY DEF ReceiveSignOut, SignedOut, FlowEnds, Done, TakesFrom
<1>3. flow' \in [Devices -> FlowRow] /\ calls' \in [Calls -> CallRow]
      /\ \A e \in Calls : calls'[e] = NoCall \/ calls'[e] = calls[e]
  BY <1>1, <1>2, NoneTypes DEF AuthTyped
<1> QED
  BY <1>1, <1>2, <1>3, TakeStep

\* A request nobody waits for any more.
LEMMA UnheardTypes ==
  ASSUME NEW r \in CallRow
  PROVE  LET n == [r EXCEPT !.heard = FALSE]
         IN /\ n \in CallRow /\ n.heard = FALSE /\ n.step = r.step
            /\ n.op = r.op /\ n.device = r.device /\ n.token = r.token /\ n.org = r.org
            /\ n.outcome = r.outcome
BY DEF CallRow

LEMMA GiveUpBase ==
  ASSUME AuthBase, NEW c \in Calls, GiveUp(c)
  PROVE  AuthBase'
<1> DEFINE d == calls[c].device
<1>1. AuthTyped /\ SpentTyped' /\ UNCHANGED <<rows, stored>>
  BY SpendTypes, BoundNames DEF GiveUp, AuthBase
<1>2. PICK n : n = IF calls[c].step = "ANSWERED" THEN NoCall ELSE [calls[c] EXCEPT !.heard = FALSE]
  OBVIOUS
<1>3. CallFits(n) /\ calls' = [calls EXCEPT ![c] = n]
  <2>1. calls' = [calls EXCEPT ![c] = n]
    BY <1>2 DEF GiveUp
  <2>2. CASE calls[c].step = "ANSWERED"
    BY <1>2, <2>1, <2>2, NoCallFits
  <2>3. CASE calls[c].step # "ANSWERED"
    <3>1. PICK r \in CallRow : r = calls[c] /\ r # NoCall /\ CallFits(r)
      BY CallsFit, UnderWay DEF GiveUp, CallFits
    <3>2. n = [r EXCEPT !.heard = FALSE]
      BY <1>2, <2>3, <3>1
    <3> QED
      BY <2>1, <3>1, <3>2, UnheardTypes DEF CallFits, OfDevice
  <2> QED
    BY <2>2, <2>3
<1>4. CASE UNCHANGED <<client, flow>>
  <2>1. Ends /\ flow' \in [Devices -> FlowRow]
    BY <1>1, <1>4, SameRows DEF AuthTyped
  <2> QED
    BY <1>1, <1>3, <1>4, <2>1, FitStep
<1>5. CASE UNCHANGED client /\ FlowEnds(d)
  <2>1. Ends /\ flow' \in [Devices -> FlowRow]
    BY <1>1, <1>5, SameRows, NoneTypes DEF AuthTyped, FlowEnds
  <2> QED
    BY <1>1, <1>3, <1>5, <2>1, FitStep
<1>6. CASE Carries(c) /\ SignedOut(d)
  <2>1. client' = [client EXCEPT ![d] = NoTokens] /\ flow' \in [Devices -> FlowRow]
        /\ TakesFrom(d, NoTokens)
    BY <1>1, <1>6, NoneTypes DEF SignedOut, FlowEnds, AuthTyped, TakesFrom
  <2>2. \A e \in Calls : calls'[e] = IF e = c THEN n ELSE calls[e]
    BY <1>1, <1>3 DEF AuthTyped
  <2>3. calls' \in [Calls -> CallRow]
    BY <1>1, <1>3 DEF AuthTyped, CallFits
  <2>4. \/ n = NoCall
        \/ n.op = calls[c].op /\ n.token = calls[c].token /\ n.device = calls[c].device
    <3>1. PICK r \in CallRow : r = calls[c]
      BY <1>1 DEF AuthTyped
    <3>2. n = NoCall \/ n = [r EXCEPT !.heard = FALSE]
      BY <1>2, <3>1
    <3> QED
      BY <3>1, <3>2, UnheardTypes
  <2>5. d \in Devices
    <3>1. calls[c].op # "NONE"
      BY <1>6 DEF Carries
    <3> QED
      BY <3>1, UnderWay DEF AuthBase, CallsOfDevices, OfDevice
  <2> QED
    BY <1>1, <2>1, <2>2, <2>3, <2>4, <2>5, UnderWay, TakeStep DEF GiveUp
<1> QED
  BY <1>4, <1>5, <1>6 DEF GiveUp

LEMMA PersistBase ==
  ASSUME AuthBase, NEW d \in Devices, Persist(d)
  PROVE  AuthBase'
<1>1. AuthTyped /\ SpentTyped' /\ UNCHANGED <<rows, calls, client, flow>>
  BY DEF Persist, AuthBase, SpentTyped
<1>2. Ends
  BY <1>1, SameRows
<1>3. stored' = [stored EXCEPT ![d] = client[d]]
  BY DEF Persist
<1>4. stored' \in [Devices -> HeldRow] /\ client' \in [Devices -> HeldRow]
      /\ calls' \in [Calls -> CallRow] /\ flow' \in [Devices -> FlowRow]
  BY <1>1, <1>3 DEF AuthTyped
<1>5. \A e \in Devices : Holds(client'[e].token, e) /\ Holds(stored'[e].token, e)
  <2>1. \A e \in Devices : stored'[e] = client[e] \/ stored'[e] = stored[e]
    BY <1>1, <1>3 DEF AuthTyped
  <2> QED
    BY <1>1, <2>1 DEF AuthBase, AllHeld
<1>6. \A c \in Calls : /\ OfDevice(calls'[c])
                       /\ Holds(calls'[c].token, calls'[c].device)
  BY <1>1 DEF AuthBase, CallsOfDevices, AllHeld
<1> QED
  BY <1>1, <1>2, <1>4, <1>5, <1>6, BaseStep

LEMMA RestartBase ==
  ASSUME AuthBase, NEW d \in Devices, Restart(d)
  PROVE  AuthBase'
<1>1. AuthTyped /\ SpentTyped' /\ UNCHANGED <<rows, stored>>
  BY SpendTypes, BoundNames DEF Restart, AuthBase
<1>2. client' = [client EXCEPT ![d] = stored[d]] /\ TakesFrom(d, stored[d])
  BY DEF Restart, TakesFrom
<1>3. flow' \in [Devices -> FlowRow]
  BY <1>1, NoneTypes DEF Restart, FlowEnds, AuthTyped
<1>4. ASSUME NEW c \in Calls
      PROVE  /\ calls'[c] \in CallRow
             /\ \/ calls'[c] = NoCall \/ calls'[c] = calls[c]
                \/ /\ calls[c] # NoCall
                   /\ calls'[c].op = calls[c].op /\ calls'[c].token = calls[c].token
                   /\ calls'[c].device = calls[c].device
  <2>1. PICK r \in CallRow : r = calls[c]
    BY <1>1 DEF AuthTyped
  <2>2. \/ calls'[c] = r \/ calls'[c] = NoCall
        \/ calls'[c] = [r EXCEPT !.heard = FALSE] /\ r # NoCall
    BY <2>1, UnderWay DEF Restart
  <2> QED
    BY <2>1, <2>2, UnheardTypes, NoneTypes
<1>5. calls' \in [Calls -> CallRow]
  <2>1. calls' = [c \in Calls |-> calls'[c]]
    BY DEF Restart
  <2> QED
    BY <1>4, <2>1
<1> QED
  BY <1>1, <1>2, <1>3, <1>4, <1>5, TakeStep

-----------------------------------------------------------------------------
\* A token is minted: it is younger than all others, and its session's newest.
Unminted(t) == minted[t].session = None /\ \A u \in 1..(t - 1) : minted[u].session # None

LEMMA UnmintedIsYoung ==
  ASSUME AuthTyped, InOrder, NEW t \in Tokens, Unminted(t)
  PROVE  \A u \in Tokens : minted[u].session # None => u < t
<1> SUFFICES ASSUME NEW u \in Tokens, minted[u].session # None PROVE u < t
  OBVIOUS
<1>1. u \in Nat /\ t \in Nat /\ u # t
  BY TokenTypes DEF Unminted
<1>2. ~ t < u
  BY DEF InOrder, Unminted
<1> QED
  BY <1>1, <1>2

\* The chains after session s is given the token t in place of parent.
LEMMA ChainGrows ==
  ASSUME AuthTyped, Chains, NEW s \in Sessions, NEW t \in Tokens, NEW row,
         Unminted(t), row \in SessionRow, row.status = "ACTIVE", row.token = t,
         \/ sessions[s] = NewSession /\ row.previous = None
         \/ sessions[s] # NewSession /\ row.previous = sessions[s].token,
         sessions' = [sessions EXCEPT ![s] = row],
         minted' = [minted EXCEPT ![t] = [session |-> s, parent |-> row.previous]]
  PROVE  Chains'
<1>1. \A u \in Tokens : minted'[u] = IF u = t THEN [session |-> s, parent |-> row.previous]
                                              ELSE minted[u]
  BY DEF AuthTyped
<1>2. \A u \in Sessions : sessions'[u] = IF u = s THEN row ELSE sessions[u]
  BY DEF AuthTyped
<1>3. \A u \in Tokens : minted[u].session # None => u < t
  BY UnmintedIsYoung DEF Chains
<1>4. Tokens \subseteq Nat /\ t \in Nat /\ s # None /\ None \notin Tokens
  BY TokenTypes
<1>5. row # NewSession /\ NewSession.token = None /\ NewSession.status = "NONE"
  BY DEF NewSession
<1>6. Starting' = Starting \cup {s}
  <2>1. \A u \in Sessions : u \in Starting' <=> (u = s \/ u \in Starting)
    BY <1>2, <1>5 DEF Starting
  <2> QED
    BY <2>1 DEF Starting
<1>7. InOrder'
  <2>1. ASSUME NEW u \in Tokens, NEW w \in Tokens, w < u, minted'[u].session # None
        PROVE  minted'[w].session # None
    <3>1. CASE u = t
      <4>1. w \in 1..(t - 1)
        BY <1>4, <2>1, <3>1 DEF Tokens
      <4>2. minted[w].session # None /\ w # t
        BY <1>4, <4>1 DEF Unminted
      <4> QED
        BY <1>1, <4>2
    <3>2. CASE u # t
      <4>1. minted[u].session # None
        BY <1>1, <2>1, <3>2
      <4>2. minted[w].session # None
        BY <2>1, <4>1 DEF Chains, InOrder
      <4> QED
        BY <1>1, <1>4, <4>2
    <3> QED
      BY <3>1, <3>2
  <2>2. \A u \in Tokens : minted'[u].session = None => minted'[u].parent = None
    BY <1>1, <1>4 DEF Chains, InOrder
  <2>3. \A u \in Tokens : minted'[u].session # None => minted'[u].session \in Starting'
    BY <1>1, <1>6 DEF Chains, InOrder
  <2> QED
    BY <2>1, <2>2, <2>3 DEF InOrder
<1>8. \A u \in Tokens : minted[u].session = s => sessions[s] # NewSession /\ u <= sessions[s].token
  BY <1>4 DEF Chains, InOrder, Starting, HoldsYoungest
<1>9. sessions[s] # NewSession =>
        /\ sessions[s].token \in Tokens /\ minted[sessions[s].token].session = s
        /\ sessions[s].token < t /\ sessions[s].token # t
  <2>1. sessions[s] # NewSession => HoldsYoungest(s)
    BY DEF Chains, Starting
  <2>2. PICK p : p = sessions[s].token
    OBVIOUS
  <2>3. ASSUME sessions[s] # NewSession
        PROVE  p \in Tokens /\ minted[p].session = s /\ p < t /\ p # t
    <3>1. p \in Tokens /\ minted[p].session = s
      BY <2>1, <2>2, <2>3 DEF HoldsYoungest
    <3>2. p < t /\ p \in Nat
      BY <1>3, <1>4, <3>1
    <3>3. p # t
      BY <1>4, <3>2
    <3> QED
      BY <3>1, <3>2, <3>3
  <2> QED
    BY <2>2, <2>3
<1>10. FollowsOn(t)'
  <2>1. minted'[t].session = s /\ minted'[t].parent = row.previous
    BY <1>1
  <2>2. CASE sessions[s] = NewSession
    <3>1. row.previous = None
      BY <2>2
    <3>2. \A u \in Tokens : minted'[u].session = s => u = t
      BY <1>1, <1>8, <2>2
    <3> QED
      BY <1>4, <2>1, <3>1, <3>2 DEF FollowsOn
  <2>3. CASE sessions[s] # NewSession
    <3>1. PICK p : p = sessions[s].token
      OBVIOUS
    <3>2. row.previous = p /\ p \in Tokens /\ minted[p].session = s /\ p < t /\ p # t
      BY <1>9, <2>3, <3>1
    <3>3. minted'[p].session = s
      BY <1>1, <3>2
    <3>4. \A u \in Tokens : minted'[u].session = s /\ u < t => u <= p
      BY <1>1, <1>4, <1>8, <3>1
    <3> QED
      BY <2>1, <3>2, <3>3, <3>4 DEF FollowsOn
  <2> QED
    BY <2>2, <2>3
<1>11. ASSUME NEW u \in Tokens, minted'[u].session # None PROVE FollowsOn(u)'
  <2>1. CASE u = t
    BY <1>10, <2>1
  <2>2. CASE u # t
    <3>1. minted'[u] = minted[u] /\ FollowsOn(u) /\ u < t
      BY <1>1, <1>3, <1>11, <2>2 DEF Chains
    <3>2. CASE /\ minted[u].parent = None
               /\ \A w \in Tokens : minted[w].session = minted[u].session => u <= w
      <4>1. \A w \in Tokens : minted'[w].session = minted'[u].session => u <= w
        BY <1>1, <1>4, <3>1, <3>2
      <4> QED
        BY <3>1, <3>2, <4>1 DEF FollowsOn
    <3>3. CASE /\ minted[u].parent \in Tokens /\ minted[u].parent < u
               /\ minted[minted[u].parent].session = minted[u].session
               /\ \A w \in Tokens : minted[w].session = minted[u].session /\ w < u =>
                    w <= minted[u].parent
      <4>1. PICK p : p = minted[u].parent
        OBVIOUS
      <4>2. p \in Tokens /\ p < u /\ p # t /\ minted[p].session = minted[u].session
        BY <1>4, <3>1, <3>3, <4>1
      <4>3. minted'[p].session = minted'[u].session
        BY <1>1, <3>1, <4>2
      <4>4. \A w \in Tokens : minted'[w].session = minted'[u].session /\ w < u => w <= p
        BY <1>1, <1>4, <3>1, <3>3, <4>1
      <4> QED
        BY <3>1, <4>1, <4>2, <4>3, <4>4 DEF FollowsOn
    <3> QED
      BY <3>1, <3>2, <3>3 DEF FollowsOn
  <2> QED
    BY <2>1, <2>2
<1>12. ASSUME NEW u \in Starting' PROVE HoldsYoungest(u)'
  <2>1. u \in Sessions
    BY <1>12 DEF Starting
  <2>2. CASE u = s
    <3>1. sessions'[s] = row /\ minted'[t] = [session |-> s, parent |-> row.previous]
      BY <1>1, <1>2
    <3>2. \A w \in Tokens : minted'[w].session = s => w <= t
      BY <1>1, <1>3, <1>4
    <3> QED
      BY <2>2, <3>1, <3>2 DEF HoldsYoungest
  <2>3. CASE u # s
    <3>1. sessions'[u] = sessions[u] /\ HoldsYoungest(u)
      BY <1>2, <1>6, <1>12, <2>1, <2>3 DEF Chains
    <3>2. sessions[u].token # t
      BY <1>4, <2>1, <3>1, TokenTypes DEF HoldsYoungest, Unminted
    <3>3. minted'[sessions[u].token] = minted[sessions[u].token]
      BY <1>1, <3>1, <3>2 DEF HoldsYoungest
    <3>4. \A w \in Tokens : minted'[w].session = u => w <= sessions[u].token
      BY <1>1, <2>3, <3>1 DEF HoldsYoungest
    <3> QED
      BY <3>1, <3>3, <3>4 DEF HoldsYoungest
  <2> QED
    BY <2>2, <2>3
<1> QED
  BY <1>7, <1>11, <1>12 DEF Chains

\* What a device or a request holds stays of a session of that device.
LEMMA HoldsMinted ==
  ASSUME AuthTyped, NEW s \in Sessions, NEW t \in Tokens, NEW row, Unminted(t),
         row \in SessionRow,
         sessions' = [sessions EXCEPT ![s] = row], NEW p \in AnyToken,
         minted' = [minted EXCEPT ![t] = [session |-> s, parent |-> p]],
         NEW u \in AnyToken, NEW d,
         sessions[s] # NewSession => row.device = sessions[s].device,
         sessions[s] = NewSession => \A w \in Tokens : minted[w].session # s
  PROVE  /\ Holds(u, d) => Holds(u, d)'
         /\ Holds(t, row.device)'
<1>1. \A w \in Tokens : minted'[w] = IF w = t THEN [session |-> s, parent |-> p] ELSE minted[w]
  BY DEF AuthTyped
<1>2. \A w \in Sessions : sessions'[w] = IF w = s THEN row ELSE sessions[w]
  BY DEF AuthTyped
<1>3. s # None /\ t # None /\ minted[t].session = None
  BY TokenTypes DEF Unminted
<1>4. Holds(t, row.device)'
  <2>1. minted'[t].session = s /\ sessions'[s].device = row.device
    BY <1>1, <1>2
  <2> QED
    BY <1>3, <2>1 DEF Holds, SessionOf
<1>5. ASSUME Holds(u, d) PROVE Holds(u, d)'
  <2>1. CASE u = None
    BY <2>1 DEF Holds
  <2>2. CASE u # None
    <3>1. u \in Tokens /\ minted[u].session # None /\ sessions[minted[u].session].device = d
      BY <1>5, <2>2 DEF Holds, SessionOf, AnyToken
    <3>2. minted'[u].session = minted[u].session /\ minted[u].session \in Sessions
      BY <1>1, <1>3, <3>1 DEF AuthTyped, TokenRow
    <3>3. sessions'[minted[u].session].device = d
      BY <1>2, <3>1, <3>2
    <3> QED
      BY <2>2, <3>1, <3>2, <3>3 DEF Holds, SessionOf
  <2> QED
    BY <2>1, <2>2
<1> QED
  BY <1>4, <1>5

\* A request that gives a session its next token is answered with it.
LEMMA MintStep ==
  ASSUME AuthBase, NEW c \in Calls, NEW s \in Sessions, NEW t \in Tokens, NEW row, NEW o \in AnyOrg,
         Unminted(t), row \in SessionRow, row.status = "ACTIVE", row.token = t,
         row.device = calls[c].device,
         \/ sessions[s] = NewSession /\ row.previous = None
         \/ sessions[s] # NewSession /\ row.previous = sessions[s].token,
         sessions[s] # NewSession => row.device = sessions[s].device,
         sessions' = [sessions EXCEPT ![s] = row],
         minted' = [minted EXCEPT ![t] = [session |-> s, parent |-> row.previous]],
         calls' = Answered(c, "OK", t, o), UNCHANGED device, SpentTyped'
  PROVE  AuthBase'
<1>1. AuthTyped /\ Chains /\ AllHeld /\ CallsOfDevices
  BY DEF AuthBase
<1>2. Chains'
  BY <1>1, ChainGrows
<1>3. t \in AnyToken /\ row.previous \in AnyToken /\ "OK" \in Outcomes
  BY DEF AnyToken, SessionRow, Outcomes
<1>4. /\ calls' \in [Calls -> CallRow]
      /\ \A e \in Calls \ {c} : calls'[e] = calls[e]
      /\ \/ calls'[c] = NoCall
         \/ /\ calls[c] # NoCall
            /\ calls'[c].op = calls[c].op /\ calls'[c].device = calls[c].device
            /\ calls'[c].token = t
  BY <1>1, <1>3, AnswerTypes
<1>5. AuthTyped'
  <2>1. sessions' \in [Sessions -> SessionRow]
    BY <1>1 DEF AuthTyped
  <2>2. PICK r : r = [session |-> s, parent |-> row.previous]
    OBVIOUS
  <2>3. r \in TokenRow
    BY <1>3, <2>2 DEF TokenRow
  <2>4. minted' \in [Tokens -> TokenRow]
    BY <1>1, <2>2, <2>3 DEF AuthTyped
  <2> QED
    BY <1>1, <1>4, <2>1, <2>4 DEF AuthTyped, device
<1>6. sessions[s] = NewSession => \A w \in Tokens : minted[w].session # s
  <2>1. s # None
    BY TokenTypes
  <2> QED
    BY <1>1, <2>1 DEF Chains, InOrder, Starting
<1>7. ASSUME NEW u \in AnyToken, NEW d, Holds(u, d) PROVE Holds(u, d)'
  BY <1>1, <1>3, <1>6, <1>7, HoldsMinted
<1>8. PICK d : d = calls[c].device /\ Holds(t, d)'
  <2>1. PICK d : d = row.device
    OBVIOUS
  <2>2. Holds(t, row.device)'
    BY <1>1, <1>3, <1>6, HoldsMinted
  <2>3. Holds(t, d)'
    BY <2>1, <2>2
  <2> QED
    BY <2>1, <2>3
<1>9. ASSUME NEW e \in Calls PROVE Holds(calls[e].token, calls[e].device)'
  <2>1. PICK u, f : u = calls'[e].token /\ f = calls'[e].device
    OBVIOUS
  <2>2. u \in AnyToken
    BY <1>4, <2>1 DEF CallRow
  <2>3. Holds(u, f)'
    <3>1. CASE e # c
      <4>1. Holds(u, f)
        BY <1>1, <1>4, <2>1, <3>1 DEF AllHeld
      <4> QED
        BY <1>7, <2>2, <4>1
    <3>2. CASE e = c /\ calls'[c] = NoCall
      <4>1. u = None
        BY <2>1, <3>2 DEF NoCall
      <4> QED
        BY <4>1 DEF Holds
    <3>3. CASE e = c /\ calls'[c].device = calls[c].device /\ calls'[c].token = t
      BY <1>8, <2>1, <3>3
    <3> QED
      BY <1>4, <3>1, <3>2, <3>3
  <2> QED
    BY <2>1, <2>3 DEF Holds, SessionOf
<1>10. ASSUME NEW e \in Devices PROVE Holds(client[e].token, e)' /\ Holds(stored[e].token, e)'
  <2>1. PICK u, w : u = client[e].token /\ w = stored[e].token
    OBVIOUS
  <2>2. u \in AnyToken /\ w \in AnyToken /\ Holds(u, e) /\ Holds(w, e)
    BY <1>1, <2>1 DEF AuthTyped, HeldRow, AllHeld
  <2>3. Holds(u, e)' /\ Holds(w, e)' /\ u = client'[e].token /\ w = stored'[e].token
    BY <1>7, <2>1, <2>2 DEF device
  <2> QED
    BY <2>3 DEF Holds, SessionOf
<1>11. AllHeld' /\ CallsOfDevices'
  <2>1. \A e \in Calls : OfDevice(calls'[e])
    BY <1>1, <1>4 DEF CallsOfDevices, OfDevice
  <2> QED
    BY <1>9, <1>10, <2>1 DEF AllHeld, CallsOfDevices
<1> QED
  BY <1>2, <1>5, <1>11 DEF AuthBase

\* A row with several fields changed.
Created(d, o, t) == [NewSession EXCEPT !.status = "ACTIVE", !.device = d, !.org = o, !.token = t]
Rotated(r, o, p, t) == [r EXCEPT !.org = o, !.previous = p, !.token = t, !.lapsed = FALSE]

LEMMA CreatedTypes ==
  ASSUME NEW d \in Devices, NEW o \in AnyOrg, NEW t \in Tokens
  PROVE  LET n == Created(d, o, t)
         IN /\ n \in SessionRow /\ n.status = "ACTIVE" /\ n.device = d /\ n.token = t
            /\ n.previous = None
<1> DEFINE first == [NewSession EXCEPT !.status = "ACTIVE", !.device = d]
           n == Created(d, o, t)
<1>1. /\ first \in SessionRow /\ first.status = "ACTIVE" /\ first.device = d
      /\ first.previous = None
  BY NoneTypes DEF SessionRow, NewSession
<1>2. n = [first EXCEPT !.org = o, !.token = t]
  BY DEF Created
<1>3. t \in AnyToken
  BY DEF AnyToken
<1> HIDE DEF first, n
<1>4. /\ n \in SessionRow /\ n.status = "ACTIVE" /\ n.device = d /\ n.token = t
      /\ n.previous = None
  BY <1>1, <1>2, <1>3 DEF SessionRow
<1> QED
  BY <1>4 DEF n

LEMMA RotatedTypes ==
  ASSUME NEW r \in SessionRow, NEW o \in AnyOrg, NEW p \in AnyToken, NEW t \in Tokens
  PROVE  LET n == Rotated(r, o, p, t)
         IN /\ n \in SessionRow /\ n.status = r.status /\ n.device = r.device /\ n.token = t
            /\ n.previous = p
<1> DEFINE first == [r EXCEPT !.org = o, !.previous = p]
           n == Rotated(r, o, p, t)
<1>1. /\ first \in SessionRow /\ first.status = r.status /\ first.device = r.device
      /\ first.previous = p
  BY DEF SessionRow
<1>2. n = [first EXCEPT !.token = t, !.lapsed = FALSE]
  BY DEF Rotated
<1>3. t \in AnyToken
  BY DEF AnyToken
<1> HIDE DEF first, n
<1>4. /\ n \in SessionRow /\ n.status = r.status /\ n.device = r.device /\ n.token = t
      /\ n.previous = p
  BY <1>1, <1>2, <1>3 DEF SessionRow
<1> QED
  BY <1>4 DEF n

\* A session is created by a sign-in whose device is known to the API.
LEMMA CreateBase ==
  ASSUME AuthBase, NEW c \in Calls, CreateSession(c)
  PROVE  AuthBase'
<1>1. PICK s \in Sessions, t \in Tokens :
        /\ Fresh(s, t)
        /\ sessions' = [sessions EXCEPT ![s] = [NewSession EXCEPT !.status = "ACTIVE",
                          !.device = calls[c].device, !.org = calls[c].org, !.token = t]]
        /\ minted' = [minted EXCEPT ![t].session = s]
        /\ calls' = Answered(c, "OK", t, calls[c].org)
  BY DEF CreateSession
<1>2. AuthTyped /\ Chains /\ UNCHANGED device /\ SpentTyped' /\ calls[c].step = "CREATE"
  BY DEF CreateSession, AuthBase, SpentTyped
<1>3. PICK d \in Devices, o \in AnyOrg : d = calls[c].device /\ o = calls[c].org
  BY <1>2, CallsFit, UnderWay DEF CallFits, OfDevice, CallRow
<1>4. PICK row : row = Created(d, o, t)
  OBVIOUS
<1>5. row \in SessionRow /\ row.status = "ACTIVE" /\ row.device = d /\ row.token = t
      /\ row.previous = None
  BY <1>4, CreatedTypes
<1>6. sessions[s] = NewSession /\ Unminted(t)
  BY <1>1 DEF Fresh, Unminted
<1>7. minted' = [minted EXCEPT ![t] = [session |-> s, parent |-> row.previous]]
  <2>1. minted[t] \in TokenRow /\ minted[t].parent = None
    BY <1>2, <1>6 DEF AuthTyped, Chains, InOrder, Unminted
  <2>2. [minted[t] EXCEPT !.session = s] = [session |-> s, parent |-> None]
    BY <2>1 DEF TokenRow
  <2> QED
    BY <1>1, <1>5, <2>2
<1>8. sessions' = [sessions EXCEPT ![s] = row] /\ calls' = Answered(c, "OK", t, o)
  BY <1>1, <1>3, <1>4 DEF Created
<1> QED
  BY <1>2, <1>3, <1>5, <1>6, <1>7, <1>8, MintStep

\* A rotation gives the session its next token, or finds the token replaced.
LEMMA RotateBase ==
  ASSUME AuthBase, NEW c \in Calls, RotateSession(c)
  PROVE  AuthBase'
<1> DEFINE s == SessionOf(calls[c].token)
<1>1. AuthTyped /\ Chains /\ UNCHANGED device /\ SpentTyped' /\ calls[c].step = "ROTATE"
  BY DEF RotateSession, AuthBase, SpentTyped
<1>2. CASE ~ Rotates(c)
  <2>1. calls' = [calls EXCEPT ![c].step = "REVOKE"] /\ UNCHANGED <<sessions, minted>>
    BY <1>2 DEF RotateSession
  <2>2. Ends /\ UNCHANGED <<client, stored>> /\ flow' \in [Devices -> FlowRow]
    BY <1>1, <2>1, NothingEnds, SameDevices
  <2> QED
    BY <1>1, <2>1, <2>2, AdvanceStep DEF Steps
<1>3. CASE Rotates(c)
  <2>1. PICK t \in Tokens :
          /\ Unminted(t)
          /\ sessions' = [sessions EXCEPT ![s] = [sessions[s] EXCEPT !.org = calls[c].org,
                            !.previous = calls[c].token, !.token = t, !.lapsed = FALSE]]
          /\ minted' = [minted EXCEPT ![t] = [session |-> s, parent |-> calls[c].token]]
          /\ calls' = Answered(c, "OK", t, calls[c].org)
    BY <1>3 DEF RotateSession, Unminted
  <2>2. PICK o \in AnyOrg, p \in AnyToken : o = calls[c].org /\ p = calls[c].token
    BY CallsFit DEF CallFits, CallRow
  <2>3. Active(s) /\ sessions[s].token = p /\ s # None /\ p # None
    BY <1>3, <2>2 DEF Rotates, Active, SessionOf
  <2>4. s \in Sessions /\ sessions[s] \in SessionRow /\ sessions[s] # NewSession
    <3>1. s \in Sessions
      BY <1>1, <2>2, <2>3 DEF AuthTyped, SessionOf, TokenRow, AnyToken
    <3> QED
      BY <1>1, <2>3, <3>1 DEF AuthTyped, Active, NewSession
  <2>5. PICK row : row = Rotated(sessions[s], o, p, t)
    OBVIOUS
  <2>6. row \in SessionRow /\ row.status = sessions[s].status /\ row.device = sessions[s].device
        /\ row.token = t /\ row.previous = p
    <3>1. PICK r \in SessionRow : r = sessions[s]
      BY <2>4
    <3> QED
      BY <2>5, <3>1, RotatedTypes
  <2>7. sessions[s].device = calls[c].device /\ sessions[s].status = "ACTIVE"
    BY <2>2, <2>3, CallsFit DEF CallFits, Holds, Active
  <2>8. sessions' = [sessions EXCEPT ![s] = row] /\ calls' = Answered(c, "OK", t, o)
        /\ minted' = [minted EXCEPT ![t] = [session |-> s, parent |-> row.previous]]
    BY <2>1, <2>2, <2>5, <2>6 DEF Rotated
  <2> HIDE DEF s
  <2> QED
    <3>1. PICK z \in Sessions : z = s
      BY <2>4
    <3>2. /\ Unminted(t) /\ row \in SessionRow /\ row.status = "ACTIVE" /\ row.token = t
          /\ row.device = calls[c].device /\ row.device = sessions[z].device
          /\ sessions[z] # NewSession /\ row.previous = sessions[z].token
          /\ sessions' = [sessions EXCEPT ![z] = row]
          /\ minted' = [minted EXCEPT ![t] = [session |-> z, parent |-> row.previous]]
          /\ calls' = Answered(c, "OK", t, o)
      BY <2>1, <2>3, <2>4, <2>6, <2>7, <2>8, <3>1
    <3> QED
      BY <1>1, <3>2, MintStep
<1> QED
  BY <1>2, <1>3

-----------------------------------------------------------------------------
LEMMA BaseInit ==
  ASSUME Init
  PROVE  AuthBase
<1>1. sessions = [s \in Sessions |-> NewSession] /\ calls = [c \in Calls |-> NoCall]
      /\ minted = [t \in Tokens |-> [session |-> None, parent |-> None]]
      /\ client = [d \in Devices |-> NoTokens] /\ stored = [d \in Devices |-> NoTokens]
      /\ flow = [d \in Devices |-> NoFlow] /\ spent = [b \in DOMAIN Bounds |-> 0]
  BY DEF Init
<1>2. AuthTyped
  <2>1. [session |-> None, parent |-> None] \in TokenRow
    BY DEF TokenRow, AnyToken
  <2> QED
    BY <1>1, <2>1, NoneTypes DEF AuthTyped
<1>3. CallsOfDevices /\ SpentTyped
  BY <1>1 DEF CallsOfDevices, OfDevice, SpentTyped
<1>4. AllHeld
  <2>1. NoTokens.token = None /\ NoCall.token = None
    BY DEF NoTokens, NoCall
  <2> QED
    BY <1>1, <2>1 DEF AllHeld, Holds
<1>5. Chains
  <2>1. Starting = {}
    BY <1>1 DEF Starting
  <2>2. \A t \in Tokens : minted[t].session = None /\ minted[t].parent = None
    BY <1>1
  <2> QED
    BY <2>1, <2>2 DEF Chains, InOrder
<1> QED
  BY <1>2, <1>3, <1>4, <1>5 DEF AuthBase

LEMMA BaseNext ==
  ASSUME AuthBase, [Next]_vars
  PROVE  AuthBase'
<1>1. ASSUME NEW c \in Calls, Serve(c) PROVE AuthBase'
  BY <1>1, SupersedeBase, AssignBase, CreateBase, LoadRefreshBase, LoadSwitchBase, RotateBase,
    RevokeBase, AdmitBase, LogoutBase DEF Serve
<1>2. ASSUME NEW c \in Calls, Receive(c) \/ GiveUp(c) PROVE AuthBase'
  BY <1>2, GrantBase, RefreshBase, RetryBase, SignedOutBase, GiveUpBase DEF Receive
<1>3. ASSUME \/ \E d \in Devices, o \in Orgs : RevokeAssignment(d, o) \/ RevokeAssignedSessions(d, o)
             \/ \E o \in Orgs : ChangeMembership(o)
      PROVE  AuthBase'
  BY <1>3, ManagersBase
<1>4. ASSUME NEW s \in Sessions, Lapse(s) PROVE AuthBase'
  BY <1>4, LapseBase
<1>5. ASSUME NEW d \in Devices, NEW c \in Calls,
             \/ Rejected(d, c) \/ Expired(d, c) \/ SendRefreshed(d, c)
             \/ \E o \in Orgs : SignIn(d, o, c) \/ StartSwitch(d, o, c) \/ BrowserSwitch(d, o, c)
             \/ \E op \in {"LOGOUT", "LOGOUT_ALL"} : SignOut(d, op, c)
      PROVE  AuthBase'
  BY <1>5, AsksBase
<1>6. ASSUME NEW d \in Devices, Persist(d) \/ Restart(d) PROVE AuthBase'
  BY <1>6, PersistBase, RestartBase
<1>7. ASSUME UNCHANGED vars PROVE AuthBase'
  <2>1. UNCHANGED <<rows, calls, device, spent>>
    BY <1>7 DEF vars, rows, device
  <2>2. Ends /\ SpentTyped'
    BY <2>1, SameRows DEF AuthBase, SpentTyped
  <2> QED
    BY <2>1, <2>2, QuietStep
<1> QED
  BY <1>1, <1>2, <1>3, <1>4, <1>5, <1>6, <1>7 DEF Next

LEMMA BaseAlways ==
  Spec => []AuthBase
<1>1. Init => AuthBase
  BY BaseInit
<1>2. AuthBase /\ [Next]_vars => AuthBase'
  BY BaseNext
<1> QED
  BY <1>1, <1>2, PTL DEF Spec

-----------------------------------------------------------------------------
(***************************************************************************)
(* A POS that loses no answer and keeps its organization.  Its requests    *)
(* share one refresh, so whatever refreshes holds the row's token or one   *)
(* of a session that ended, until the device has the answer; the answer of *)
(* a sign-in is a session nothing else holds a token of.                   *)
(***************************************************************************)
Of(r, d) == r # NoCall /\ r.device = d
Current(t) == Active(SessionOf(t)) => sessions[SessionOf(t)].token = t
Granted(r) == r.op = "LOGIN" /\ r.step = "ANSWERED" /\ r.outcome = "OK"
Renewed(r) == r.op = "REFRESH" /\ r.step = "ANSWERED" /\ r.outcome = "OK"
Renews(r) == r.op = "REFRESH" /\ (r.step \in {"SENT", "ROTATE"} \/ Renewed(r))

OneRefresh(d) ==
  \A c, e \in Calls :
    /\ Of(calls[c], d) /\ calls[c].op = "REFRESH"
    /\ Of(calls[e], d) /\ calls[e].op = "REFRESH"
    => c = e

GrantsFit(d) ==
  \A c \in Calls : Of(calls[c], d) /\ Granted(calls[c]) =>
    /\ calls[c].token # None /\ Current(calls[c].token)
    /\ SessionOf(client[d].token) # SessionOf(calls[c].token)
    /\ \A e \in Calls \ {c} : Of(calls[e], d) =>
         SessionOf(calls[e].token) # SessionOf(calls[c].token)

RefreshesFit(d) ==
  \A c \in Calls : Of(calls[c], d) =>
    /\ Renews(calls[c]) => Current(calls[c].token)
    /\ calls[c].op = "REFRESH" /\ calls[c].step = "REVOKE" => ~ Active(SessionOf(calls[c].token))

ClientFits(d) ==
  Current(client[d].token) \/ \E c \in Calls : Of(calls[c], d) /\ Renewed(calls[c])

PosCalm(d) == OneRefresh(d) /\ GrantsFit(d) /\ RefreshesFit(d) /\ ClientFits(d)

CallShape(r) ==
  r = NoCall \/ /\ r.heard = TRUE /\ r.op # "SWITCH"
                /\ r.step \in {"ROTATE", "REVOKE"} => r.op = "REFRESH"
                /\ r.step \in {"ASSIGN", "CREATE"} => r.op = "LOGIN"
                /\ r.step = "SIGN_OUT" => r.op \in {"LOGOUT", "LOGOUT_ALL"}

Quiet == spent.losses + spent.switches = 0
Calm ==
  /\ \A c \in Calls : CallShape(calls[c])
  /\ \A d \in Devices : flow[d].op # "SWITCH"
  /\ \A d \in Devices \ Browsers : PosCalm(d)

LEMMA PosBrowsers ==
  Browsers \subseteq Devices
BY AuthAssumption

\* What a device holds keeps its session.
Keeps(d) == \A u \in AnyToken : Holds(u, d) => SessionOf(u)' = SessionOf(u)
\* A token is as current as it was.
Stays(u) ==
  /\ Current(u) => Current(u)'
  /\ ~ Active(SessionOf(u)) => ~ Active(SessionOf(u))'

LEMMA EndsStay ==
  ASSUME AuthTyped, Ends, NEW u \in AnyToken
  PROVE  SessionOf(u)' = SessionOf(u) /\ Stays(u)
<1>1. SessionOf(u)' = SessionOf(u)
  BY DEF SessionOf, Ends
<1>2. SessionOf(u) \in Sessions \cup {None}
  BY DEF SessionOf, AuthTyped, TokenRow, AnyToken
<1>3. \A s \in Sessions : /\ sessions'[s].token = sessions[s].token
                          /\ sessions'[s].status = "ACTIVE" => sessions[s].status = "ACTIVE"
  BY WhatEnds
<1> QED
  BY <1>1, <1>2, <1>3 DEF Stays, Current, Active

LEMMA EndsKeep ==
  ASSUME AuthTyped, Ends, NEW d
  PROVE  Keeps(d)
BY EndsStay DEF Keeps

LEMMA CallHeld ==
  ASSUME AuthBase, NEW d, NEW c \in Calls, Of(calls[c], d)
  PROVE  calls[c].token \in AnyToken /\ Holds(calls[c].token, d)
BY CallsFit DEF Of, CallFits, CallRow

LEMMA ClientHeld ==
  ASSUME AuthBase, NEW d \in Devices
  PROVE  client[d].token \in AnyToken /\ Holds(client[d].token, d)
BY DEF AuthBase, AuthTyped, HeldRow, AllHeld

\* A request of a POS becomes n and its tokens become held.
NewRefresh(d, c, n) ==
  Of(n, d) /\ n.op = "REFRESH" =>
    \A e \in Calls \ {c} : ~ (Of(calls[e], d) /\ calls[e].op = "REFRESH")
NewGrant(d, c, n, held) ==
  Of(n, d) /\ Granted(n) =>
    /\ n.token # None /\ Current(n.token)'
    /\ SessionOf(held.token)' # SessionOf(n.token)'
    /\ \A e \in Calls \ {c} : Of(calls[e], d) => SessionOf(calls[e].token) # SessionOf(n.token)'
OldGrants(d, c, n, held) ==
  \A e \in Calls \ {c} : Of(calls[e], d) /\ Granted(calls[e]) =>
    /\ SessionOf(held.token)' # SessionOf(calls[e].token)
    /\ Of(n, d) => SessionOf(n.token)' # SessionOf(calls[e].token)
NewRenews(d, n) ==
  Of(n, d) => /\ Renews(n) => Current(n.token)'
              /\ n.op = "REFRESH" /\ n.step = "REVOKE" => ~ Active(SessionOf(n.token))'
OthersStay(d, c) ==
  \A e \in Calls \ {c}, u \in AnyToken :
    /\ Of(calls[e], d) /\ u = calls[e].token
    /\ Granted(calls[e]) \/ calls[e].op = "REFRESH"
    => Stays(u)
NewHeld(d, c, n, held) ==
  \/ Current(held.token)'
  \/ Of(n, d) /\ Renewed(n)
  \/ /\ held.token = client[d].token /\ ~ (Of(calls[c], d) /\ Renewed(calls[c]))
     /\ Stays(held.token)

LEMMA PosStep ==
  ASSUME AuthBase, NEW d \in Devices, PosCalm(d), NEW c \in Calls, NEW n, NEW held,
         calls' = [calls EXCEPT ![c] = n], client'[d] = held,
         Keeps(d), OthersStay(d, c), NewRefresh(d, c, n), NewGrant(d, c, n, held),
         OldGrants(d, c, n, held), NewRenews(d, n), NewHeld(d, c, n, held)
  PROVE  PosCalm(d)'
<1>1. \A e \in Calls : calls'[e] = IF e = c THEN n ELSE calls[e]
  BY DEF AuthBase, AuthTyped
<1>2. ASSUME NEW e \in Calls, e # c, Of(calls[e], d)
      PROVE  /\ calls[e].token \in AnyToken /\ calls'[e].token = calls[e].token
             /\ SessionOf(calls[e].token)' = SessionOf(calls[e].token)
  <2>1. PICK u \in AnyToken : u = calls[e].token /\ Holds(u, d)
    BY <1>2, CallHeld
  <2>2. SessionOf(u)' = SessionOf(u)
    BY <2>1 DEF Keeps
  <2>3. calls'[e].token = u
    BY <1>1, <1>2, <2>1
  <2> QED
    BY <2>1, <2>2, <2>3 DEF SessionOf
<1>3. OneRefresh(d)'
  BY <1>1 DEF PosCalm, OneRefresh, NewRefresh
<1>4. ASSUME NEW e \in Calls, Of(calls'[e], d), Granted(calls'[e])
      PROVE  /\ calls'[e].token # None /\ Current(calls[e].token)'
             /\ SessionOf(client[d].token)' # SessionOf(calls[e].token)'
             /\ \A f \in Calls \ {e} : Of(calls'[f], d) =>
                  SessionOf(calls[f].token)' # SessionOf(calls[e].token)'
  <2>1. CASE e = c
    <3>1. calls'[e] = n
      BY <1>1, <2>1
    <3>2. /\ n.token # None /\ Current(n.token)' /\ SessionOf(held.token)' # SessionOf(n.token)'
          /\ \A f \in Calls \ {c} : Of(calls[f], d) =>
               SessionOf(calls[f].token) # SessionOf(n.token)'
      BY <1>4, <3>1 DEF NewGrant
    <3>3. PICK u, w : u = n.token /\ w = held.token
      OBVIOUS
    <3>4. calls'[e].token = u /\ client'[d].token = w
      BY <3>1, <3>3
    <3>5. Current(calls[e].token)' /\ SessionOf(client[d].token)' # SessionOf(calls[e].token)'
      BY <3>2, <3>3, <3>4 DEF Current, SessionOf, Active
    <3>6. SessionOf(calls[e].token)' = SessionOf(n.token)'
      BY <3>3, <3>4 DEF SessionOf
    <3> QED
      BY <1>1, <1>2, <2>1, <3>1, <3>2, <3>5, <3>6
  <2>2. CASE e # c
    <3>1. calls'[e] = calls[e] /\ Of(calls[e], d) /\ Granted(calls[e])
      BY <1>1, <1>4, <2>2
    <3>2. PICK u \in AnyToken : u = calls[e].token /\ SessionOf(u)' = SessionOf(u)
      BY <1>2, <2>2, <3>1 DEF SessionOf
    <3>3. u # None /\ Current(u) /\ \A f \in Calls \ {e} : Of(calls[f], d) =>
            SessionOf(calls[f].token) # SessionOf(u)
      BY <3>1, <3>2 DEF PosCalm, GrantsFit
    <3>4. Current(u)'
      BY <2>2, <3>1, <3>2, <3>3 DEF OthersStay, Stays
    <3>5. SessionOf(held.token)' # SessionOf(u)' /\ (Of(n, d) => SessionOf(n.token)' # SessionOf(u)')
      BY <2>2, <3>1, <3>2 DEF OldGrants
    <3>6. calls'[e].token = u /\ SessionOf(calls[e].token)' = SessionOf(u)'
      BY <3>1, <3>2 DEF SessionOf
    <3>7. SessionOf(client[d].token)' # SessionOf(calls[e].token)'
      <4>1. SessionOf(client[d].token)' = SessionOf(held.token)'
        BY DEF SessionOf
      <4> QED
        BY <3>5, <3>6, <4>1
    <3>8. Current(calls[e].token)'
      BY <3>4, <3>6 DEF Current
    <3>9. ASSUME NEW f \in Calls, f # e, Of(calls'[f], d)
          PROVE  SessionOf(calls[f].token)' # SessionOf(calls[e].token)'
      <4>1. CASE f = c
        <5>1. calls'[f] = n /\ SessionOf(calls[f].token)' = SessionOf(n.token)'
          BY <1>1, <4>1 DEF SessionOf
        <5> QED
          BY <3>5, <3>6, <3>9, <5>1
      <4>2. CASE f # c
        <5>1. Of(calls[f], d) /\ SessionOf(calls[f].token)' = SessionOf(calls[f].token)
          BY <1>1, <1>2, <3>9, <4>2
        <5> QED
          BY <3>2, <3>3, <3>6, <3>9, <5>1
      <4> QED
        BY <4>1, <4>2
    <3> QED
      BY <3>3, <3>6, <3>7, <3>8, <3>9
  <2> QED
    BY <2>1, <2>2
<1>5. ASSUME NEW e \in Calls, Of(calls'[e], d)
      PROVE  /\ Renews(calls'[e]) => Current(calls[e].token)'
             /\ calls'[e].op = "REFRESH" /\ calls'[e].step = "REVOKE" =>
                  ~ Active(SessionOf(calls[e].token))'
  <2>1. CASE e = c
    <3>1. PICK u : u = n.token /\ calls'[e].token = u /\ calls'[e] = n
      BY <1>1, <2>1
    <3>2. /\ Renews(n) => Current(u)'
          /\ n.op = "REFRESH" /\ n.step = "REVOKE" => ~ Active(SessionOf(u))'
      BY <1>5, <3>1 DEF NewRenews, Current, Active, SessionOf
    <3> QED
      BY <3>1, <3>2 DEF Current, Active, SessionOf
  <2>2. CASE e # c
    <3>1. calls'[e] = calls[e] /\ Of(calls[e], d)
      BY <1>1, <1>5, <2>2
    <3>2. PICK u \in AnyToken : u = calls[e].token
      BY <1>2, <2>2, <3>1
    <3>3. calls[e].op = "REFRESH" => Stays(u)
      BY <2>2, <3>1, <3>2 DEF OthersStay
    <3>4. /\ Renews(calls[e]) => Current(u) /\ calls[e].op = "REFRESH"
          /\ calls[e].op = "REFRESH" /\ calls[e].step = "REVOKE" => ~ Active(SessionOf(u))
      BY <3>1, <3>2 DEF PosCalm, RefreshesFit, Renews
    <3>5. /\ Renews(calls[e]) => Current(u)'
          /\ calls[e].op = "REFRESH" /\ calls[e].step = "REVOKE" => ~ Active(SessionOf(u))'
      BY <3>3, <3>4 DEF Stays
    <3>6. calls'[e].token = u
      BY <3>1, <3>2
    <3> QED
      BY <3>1, <3>5, <3>6 DEF Current, Active, SessionOf
  <2> QED
    BY <2>1, <2>2
<1>6. ClientFits(d)'
  <2>1. CASE Current(held.token)'
    BY <2>1 DEF ClientFits, Current, Active, SessionOf
  <2>2. CASE Of(n, d) /\ Renewed(n)
    BY <1>1, <2>2 DEF ClientFits
  <2>3. CASE /\ held.token = client[d].token /\ ~ (Of(calls[c], d) /\ Renewed(calls[c]))
             /\ Stays(held.token)
    <3>1. CASE Current(client[d].token)
      <4>1. PICK u : u = held.token
        OBVIOUS
      <4>2. Current(u) /\ Stays(u)
        BY <2>3, <3>1, <4>1
      <4>3. Current(u)'
        BY <4>2 DEF Stays
      <4>4. client'[d].token = u
        BY <4>1
      <4> QED
        BY <4>3, <4>4 DEF ClientFits, Current, Active, SessionOf
    <3>2. CASE \E e \in Calls : Of(calls[e], d) /\ Renewed(calls[e])
      <4>1. PICK e \in Calls : Of(calls[e], d) /\ Renewed(calls[e]) /\ e # c
        BY <2>3, <3>2
      <4>2. calls'[e] = calls[e]
        BY <1>1, <4>1
      <4> QED
        BY <4>1, <4>2 DEF ClientFits
    <3> QED
      BY <3>1, <3>2 DEF PosCalm, ClientFits
  <2> QED
    BY <2>1, <2>2, <2>3 DEF NewHeld
<1>7. GrantsFit(d)' /\ RefreshesFit(d)'
  BY <1>4, <1>5 DEF GrantsFit, RefreshesFit
<1> QED
  BY <1>3, <1>6, <1>7 DEF PosCalm

\* Where everything of a device stays as current as it was.
LEMMA OthersEnd ==
  ASSUME AuthBase, Ends, NEW d, NEW c
  PROVE  Keeps(d) /\ OthersStay(d, c)
<1>1. AuthTyped
  BY DEF AuthBase
<1> QED
  BY <1>1, EndsStay, EndsKeep DEF OthersStay

\* A request of another device, and nothing the POS holds.
LEMMA ElsewhereStep ==
  ASSUME AuthBase, NEW d \in Devices, PosCalm(d), NEW c \in Calls, NEW n,
         calls' = [calls EXCEPT ![c] = n], client'[d] = client[d],
         Keeps(d), OthersStay(d, c), \A u \in AnyToken : Holds(u, d) => Stays(u),
         ~ Of(n, d), ~ Of(calls[c], d)
  PROVE  PosCalm(d)'
<1>1. PICK held : held = client[d]
  OBVIOUS
<1>2. held.token \in AnyToken /\ Holds(held.token, d) /\ client'[d] = held
  BY <1>1, ClientHeld
<1>3. NewRefresh(d, c, n) /\ NewGrant(d, c, n, held) /\ NewRenews(d, n)
  BY DEF NewRefresh, NewGrant, NewRenews
<1>4. NewHeld(d, c, n, held)
  BY <1>1, <1>2 DEF NewHeld
<1>5. OldGrants(d, c, n, held)
  <2>1. SessionOf(held.token)' = SessionOf(held.token)
    BY <1>2 DEF Keeps
  <2>2. \A e \in Calls : Of(calls[e], d) /\ Granted(calls[e]) =>
          SessionOf(held.token) # SessionOf(calls[e].token)
    BY <1>1 DEF PosCalm, GrantsFit
  <2> QED
    BY <2>1, <2>2 DEF OldGrants
<1> QED
  BY <1>2, <1>3, <1>4, <1>5, PosStep

LEMMA StaysEnd ==
  ASSUME AuthBase, Ends, NEW d
  PROVE  \A u \in AnyToken : Holds(u, d) => Stays(u)
BY EndsStay DEF AuthBase

\* A request of the API moves on; whom it answers gets no token.
Moves(d, c, n) ==
  /\ calls[c].step # "ANSWERED" /\ ~ Granted(n) /\ ~ Renewed(n)
  /\ \/ n = NoCall
     \/ /\ calls[c] # NoCall /\ n.op = calls[c].op /\ n.device = calls[c].device
        /\ n.token = calls[c].token \/ (n.token = None /\ n.op # "REFRESH")
        /\ n.op = "REFRESH" /\ n.step \in {"SENT", "ROTATE"} => calls[c].step \in {"SENT", "ROTATE"}
        /\ Of(n, d) /\ n.op = "REFRESH" /\ n.step = "REVOKE" => ~ Active(SessionOf(n.token))

LEMMA MoveStep ==
  ASSUME AuthBase, Ends, NEW d \in Devices, PosCalm(d), NEW c \in Calls, NEW n,
         calls' = [calls EXCEPT ![c] = n], client'[d] = client[d], Moves(d, c, n)
  PROVE  PosCalm(d)'
<1>1. AuthTyped /\ Keeps(d) /\ OthersStay(d, c) /\ \A u \in AnyToken : Holds(u, d) => Stays(u)
  BY OthersEnd, StaysEnd DEF AuthBase
<1>2. CASE ~ Of(calls[c], d)
  <2>1. ~ Of(n, d)
    BY <1>2 DEF Moves, Of
  <2> QED
    BY <1>1, <1>2, <2>1, ElsewhereStep
<1>3. CASE Of(calls[c], d)
  <2>1. PICK held : held = client[d]
    OBVIOUS
  <2>2. held.token \in AnyToken /\ Holds(held.token, d) /\ client'[d] = held
    BY <2>1, ClientHeld
  <2>3. NewRefresh(d, c, n)
    <3>1. Of(n, d) /\ n.op = "REFRESH" => calls[c].op = "REFRESH"
      BY <1>3 DEF Moves, Of
    <3> QED
      BY <1>3, <3>1 DEF NewRefresh, PosCalm, OneRefresh
  <2>4. NewGrant(d, c, n, held)
    BY DEF NewGrant, Moves
  <2>5. NewHeld(d, c, n, held)
    BY <1>1, <2>1, <2>2 DEF NewHeld, Moves, Renewed
  <2>6. SessionOf(held.token)' = SessionOf(held.token)
    BY <1>1, <2>2 DEF Keeps
  <2>7. Of(n, d) => /\ n.token \in AnyToken /\ SessionOf(n.token)' = SessionOf(n.token) /\ Stays(n.token)
                    /\ n.token = calls[c].token \/ (n.token = None /\ n.op # "REFRESH")
    <3>1. Of(n, d) => n.token = calls[c].token \/ (n.token = None /\ n.op # "REFRESH")
      BY DEF Moves, Of
    <3>2. None \in AnyToken
      BY DEF AnyToken
    <3>3. Of(n, d) => n.token \in AnyToken
      BY <1>3, <3>1, <3>2, CallHeld
    <3>4. Of(n, d) => SessionOf(n.token)' = SessionOf(n.token) /\ Stays(n.token)
      BY <1>1, <3>3, EndsStay
    <3> QED
      BY <3>1, <3>3, <3>4
  <2>8. OldGrants(d, c, n, held)
    <3>1. SUFFICES ASSUME NEW e \in Calls, e # c, Of(calls[e], d), Granted(calls[e])
                   PROVE  /\ SessionOf(held.token) # SessionOf(calls[e].token)
                          /\ Of(n, d) => SessionOf(n.token) # SessionOf(calls[e].token)
      BY <2>6, <2>7 DEF OldGrants
    <3>2. /\ calls[e].token # None /\ SessionOf(client[d].token) # SessionOf(calls[e].token)
          /\ SessionOf(calls[c].token) # SessionOf(calls[e].token)
      BY <1>3, <3>1 DEF PosCalm, GrantsFit
    <3>3. SessionOf(calls[e].token) # SessionOf(None)
      <4>1. Holds(calls[e].token, d)
        BY <3>1, CallHeld
      <4> QED
        BY <3>2, <4>1 DEF Holds, SessionOf
    <3> QED
      BY <2>1, <2>7, <3>2, <3>3
  <2>9. NewRenews(d, n)
    <3>1. ASSUME Of(n, d), Renews(n) PROVE Current(n.token)'
      <4>1. n.token = calls[c].token /\ Renews(calls[c])
        <5>1. n.op = "REFRESH" /\ n.step \in {"SENT", "ROTATE"}
          BY <3>1 DEF Renews, Moves
        <5>2. n # NoCall
          BY <3>1 DEF Of
        <5> QED
          BY <5>1, <5>2, <2>7, <3>1 DEF Renews, Moves
      <4>2. Current(n.token) /\ Stays(n.token)
        BY <1>3, <2>7, <3>1, <4>1 DEF PosCalm, RefreshesFit
      <4> QED
        BY <4>2 DEF Stays
    <3>2. ASSUME Of(n, d), n.op = "REFRESH", n.step = "REVOKE" PROVE ~ Active(SessionOf(n.token))'
      <4>1. ~ Active(SessionOf(n.token)) /\ Stays(n.token)
        BY <2>7, <3>2 DEF Moves, Of
      <4> QED
        BY <4>1 DEF Stays
    <3> QED
      BY <3>1, <3>2 DEF NewRenews
  <2> QED
    BY <1>1, <2>2, <2>3, <2>4, <2>5, <2>8, <2>9, PosStep
<1> QED
  BY <1>2, <1>3

\* A device asks: a refresh only when the POS has none under way.
LEMMA AskPos ==
  ASSUME AuthBase, UNCHANGED <<rows, client>>, NEW d \in Devices \ Browsers, PosCalm(d),
         NEW f \in Devices, NEW op \in Ops, NEW o \in AnyOrg, NEW c \in Calls,
         calls' = [calls EXCEPT ![c] = Request(f, op, o)],
         calls[c] = NoCall \/ (calls[c].device = f /\ calls[c].op \in {"LOGOUT", "LOGOUT_ALL"}),
         op = "REFRESH" /\ f = d =>
           \A e \in Calls \ {c} : ~ (Of(calls[e], d) /\ calls[e].op = "REFRESH")
  PROVE  PosCalm(d)'
<1>1. Ends /\ AuthTyped
  BY SameRows DEF AuthBase
<1>2. Keeps(d) /\ OthersStay(d, c) /\ \A u \in AnyToken : Holds(u, d) => Stays(u)
  BY <1>1, OthersEnd, StaysEnd
<1>3. PICK n : n = Request(f, op, o)
  OBVIOUS
<1>4. n.op = op /\ n.device = f /\ n.step = "SENT" /\ n.token = client[f].token /\ n # NoCall
      /\ calls' = [calls EXCEPT ![c] = n]
  <2>1. op # "NONE" /\ n.op = op /\ n.device = f /\ n.token = client[f].token /\ n.step = "SENT"
    BY <1>3 DEF Ops, Request, NoCall
  <2> QED
    BY <1>3, <2>1, UnderWay
<1>5. CASE d # f
  <2>1. ~ Of(n, d) /\ ~ Of(calls[c], d)
    BY <1>4, <1>5 DEF Of
  <2> QED
    BY <1>2, <1>4, <2>1, ElsewhereStep
<1>6. CASE d = f
  <2>1. PICK held : held = client[d]
    OBVIOUS
  <2>2. held.token \in AnyToken /\ Holds(held.token, d) /\ client'[d] = held /\ n.token = held.token
    BY <1>4, <1>6, <2>1, ClientHeld
  <2>3. SessionOf(held.token)' = SessionOf(held.token) /\ Stays(held.token)
    BY <1>2, <2>2 DEF Keeps
  <2>4. ~ (Of(calls[c], d) /\ Renewed(calls[c]))
    BY DEF Of, Renewed
  <2>5. NewRefresh(d, c, n) /\ NewGrant(d, c, n, held) /\ NewHeld(d, c, n, held)
    BY <1>4, <1>6, <2>1, <2>3, <2>4 DEF NewRefresh, NewGrant, NewHeld, Granted
  <2>6. OldGrants(d, c, n, held)
    BY <2>1, <2>2, <2>3 DEF OldGrants, PosCalm, GrantsFit
  <2>7. NewRenews(d, n)
    <3>1. ASSUME n.op = "REFRESH" PROVE Current(n.token)'
      <4>1. ~ \E e \in Calls : Of(calls[e], d) /\ Renewed(calls[e])
        BY <1>4, <1>6, <2>4, <3>1 DEF Renewed
      <4>2. Current(held.token)
        BY <2>1, <4>1 DEF PosCalm, ClientFits
      <4> QED
        BY <2>2, <2>3, <4>2 DEF Stays
    <3> QED
      BY <1>4, <3>1 DEF NewRenews, Renews
  <2> QED
    BY <1>2, <1>4, <2>2, <2>5, <2>6, <2>7, PosStep
<1> QED
  BY <1>5, <1>6

\* A device takes the answer of its request.
LEMMA TakePos ==
  ASSUME AuthBase, UNCHANGED rows, NEW d \in Devices, PosCalm(d), NEW c \in Calls,
         calls[c] # NoCall, calls' = [calls EXCEPT ![c] = NoCall],
         NEW f \in Devices, f = calls[c].device, NEW held, client' = [client EXCEPT ![f] = held],
         \/ held.token = None
         \/ held.token = client[f].token /\ ~ Renewed(calls[c])
         \/ held.token = calls[c].token /\ (Granted(calls[c]) \/ Renewed(calls[c]))
  PROVE  PosCalm(d)'
<1>1. Ends /\ AuthTyped
  BY SameRows DEF AuthBase
<1>2. Keeps(d) /\ OthersStay(d, c) /\ \A u \in AnyToken : Holds(u, d) => Stays(u)
  BY <1>1, OthersEnd, StaysEnd
<1>3. client \in [Devices -> HeldRow]
  BY <1>1 DEF AuthTyped
<1>4. PICK n : n = NoCall /\ ~ Of(n, d) /\ calls' = [calls EXCEPT ![c] = n]
  BY DEF Of
<1>5. CASE d # f
  <2>1. ~ Of(calls[c], d) /\ client'[d] = client[d]
    BY <1>3, <1>5 DEF Of
  <2> QED
    BY <1>2, <1>4, <2>1, ElsewhereStep
<1>6. CASE d = f
  <2>1. client'[d] = held /\ Of(calls[c], d)
    BY <1>3, <1>6 DEF Of
  <2>2. None \in AnyToken /\ Holds(None, d)
    BY NoneHeld DEF AnyToken
  <2>3. held.token \in AnyToken /\ Holds(held.token, d)
    BY <1>6, <2>1, <2>2, CallHeld, ClientHeld
  <2>4. SessionOf(held.token)' = SessionOf(held.token) /\ Stays(held.token)
    BY <1>2, <2>3 DEF Keeps
  <2>5. NewRefresh(d, c, n) /\ NewGrant(d, c, n, held) /\ NewRenews(d, n)
    BY <1>4 DEF NewRefresh, NewGrant, NewRenews
  <2>6. OldGrants(d, c, n, held)
    <3>1. SUFFICES ASSUME NEW e \in Calls, e # c, Of(calls[e], d), Granted(calls[e])
                   PROVE  SessionOf(held.token) # SessionOf(calls[e].token)
      BY <1>4, <2>4 DEF OldGrants
    <3>2. /\ calls[e].token # None /\ SessionOf(client[d].token) # SessionOf(calls[e].token)
          /\ SessionOf(calls[c].token) # SessionOf(calls[e].token)
      BY <2>1, <3>1 DEF PosCalm, GrantsFit
    <3>3. SessionOf(calls[e].token) # SessionOf(None)
      <4>1. Holds(calls[e].token, d)
        BY <3>1, CallHeld
      <4> QED
        BY <3>2, <4>1 DEF Holds, SessionOf
    <3> QED
      BY <1>6, <3>2, <3>3
  <2>7. NewHeld(d, c, n, held)
    <3>1. CASE held.token = None
      BY <3>1 DEF NewHeld, Current, Active, SessionOf
    <3>2. CASE held.token = client[f].token /\ ~ Renewed(calls[c])
      BY <1>6, <2>4, <3>2 DEF NewHeld
    <3>3. CASE held.token = calls[c].token /\ (Granted(calls[c]) \/ Renewed(calls[c]))
      <4>1. Current(held.token)
        BY <2>1, <3>3 DEF PosCalm, GrantsFit, RefreshesFit, Renews, Renewed
      <4> QED
        BY <2>4, <4>1 DEF Stays, NewHeld
    <3> QED
      BY <3>1, <3>2, <3>3
  <2> QED
    BY <1>2, <1>4, <2>1, <2>5, <2>6, <2>7, PosStep
<1> QED
  BY <1>5, <1>6

\* A token is minted for s: what belongs to other sessions stays as it was.
LEMMA MintStays ==
  ASSUME AuthTyped, NEW s \in Sessions, NEW t \in Tokens, NEW row, Unminted(t), NEW p,
         sessions' = [sessions EXCEPT ![s] = row],
         minted' = [minted EXCEPT ![t] = [session |-> s, parent |-> p]],
         NEW u \in AnyToken, NEW d, Holds(u, d)
  PROVE  /\ SessionOf(u)' = SessionOf(u)
         /\ SessionOf(u) # s => Stays(u)
<1>1. \A w \in Tokens : minted'[w] = IF w = t THEN [session |-> s, parent |-> p] ELSE minted[w]
  BY DEF AuthTyped
<1>2. \A w \in Sessions : sessions'[w] = IF w = s THEN row ELSE sessions[w]
  BY DEF AuthTyped
<1>3. u # None => u \in Tokens /\ minted[u].session # None
  BY DEF Holds, SessionOf, AnyToken
<1>4. SessionOf(u)' = SessionOf(u)
  BY <1>1, <1>3 DEF SessionOf, Unminted
<1>5. SessionOf(u) \in Sessions \cup {None}
  BY <1>3 DEF SessionOf, AuthTyped, TokenRow
<1>6. ASSUME SessionOf(u) # s PROVE Stays(u)
  <2>1. PICK z \in Sessions \cup {None} : z = SessionOf(u)
    BY <1>5
  <2>2. z # None => sessions'[z] = sessions[z]
    BY <1>2, <1>6, <2>1
  <2> QED
    BY <1>4, <2>1, <2>2 DEF Stays, Current, Active
<1> QED
  BY <1>4, <1>6

\* A sign-in is granted a new session, or a refresh the next token of its own.
LEMMA MintPos ==
  ASSUME AuthBase, NEW d \in Devices, PosCalm(d), NEW c \in Calls, calls[c] # NoCall,
         calls[c].heard = TRUE, NEW s \in Sessions, NEW t \in Tokens, NEW row, NEW p, NEW o \in AnyOrg,
         Unminted(t), row.token = t,
         sessions' = [sessions EXCEPT ![s] = row],
         minted' = [minted EXCEPT ![t] = [session |-> s, parent |-> p]],
         calls' = Answered(c, "OK", t, o), UNCHANGED client, calls[c].step # "ANSWERED",
         \/ sessions[s] = NewSession /\ calls[c].op = "LOGIN"
         \/ /\ calls[c].op = "REFRESH" /\ SessionOf(calls[c].token) = s
            /\ sessions[s].device = calls[c].device /\ sessions[s] # NewSession
  PROVE  PosCalm(d)'
<1>1. AuthTyped /\ Chains /\ t \in AnyToken /\ "OK" \in Outcomes
  BY DEF AuthBase, AnyToken, Outcomes
<1>2. PICK n : n = Answered(c, "OK", t, o)[c]
  OBVIOUS
<1>3. /\ n.op = calls[c].op /\ n.device = calls[c].device /\ n.step = "ANSWERED"
      /\ n.outcome = "OK" /\ n.token = t /\ n # NoCall
  <2>1. /\ \A e \in Calls \ {c} : Answered(c, "OK", t, o)[e] = calls[e]
        /\ \/ Answered(c, "OK", t, o)[c] = NoCall /\ ~ calls[c].heard
           \/ /\ Answered(c, "OK", t, o)[c].op = calls[c].op
              /\ Answered(c, "OK", t, o)[c].device = calls[c].device
              /\ Answered(c, "OK", t, o)[c].step = "ANSWERED"
              /\ Answered(c, "OK", t, o)[c].outcome = "OK"
              /\ Answered(c, "OK", t, o)[c].token = t
    BY <1>1, AnswerTypes
  <2> QED
    BY <1>2, <2>1, UnderWay
<1>4. calls' = [calls EXCEPT ![c] = n]
  <2>1. /\ Answered(c, "OK", t, o) \in [Calls -> CallRow]
        /\ \A e \in Calls \ {c} : Answered(c, "OK", t, o)[e] = calls[e]
    BY <1>1, AnswerTypes
  <2>2. calls' \in [Calls -> CallRow] /\ (\A e \in Calls \ {c} : calls'[e] = calls[e]) /\ calls'[c] = n
    BY <1>2, <2>1
  <2> QED
    BY <1>1, <2>2 DEF AuthTyped
<1>5. ASSUME NEW u \in AnyToken, Holds(u, d)
      PROVE  SessionOf(u)' = SessionOf(u) /\ (SessionOf(u) # s => Stays(u))
  BY <1>1, <1>5, MintStays
<1>6. Keeps(d)
  BY <1>5 DEF Keeps
<1>7. s # None /\ None \in AnyToken /\ Holds(None, d) /\ t # None
  BY NoneHeld, TokenTypes DEF AnyToken
<1>8. SessionOf(t)' = s /\ Current(t)'
  <2>1. minted'[t].session = s /\ sessions'[s] = row
    BY <1>1 DEF AuthTyped
  <2> QED
    BY <1>7, <2>1 DEF SessionOf, Current
<1>9. sessions[s] = NewSession => \A u \in AnyToken : SessionOf(u) # s
  BY <1>1, <1>7 DEF Chains, InOrder, Starting, SessionOf, AnyToken
<1>10. CASE calls[c].device # d
  <2>1. ~ Of(n, d) /\ ~ Of(calls[c], d)
    BY <1>3, <1>10 DEF Of
  <2>2. ASSUME NEW u \in AnyToken, Holds(u, d) PROVE Stays(u)
    <3>1. SessionOf(u) # s
      <4>1. CASE sessions[s] = NewSession
        BY <1>9, <4>1
      <4>2. CASE sessions[s] # NewSession
        <5>1. sessions[s].device # d
          BY <1>10, <4>2
        <5> QED
          BY <1>7, <2>2, <5>1 DEF Holds, SessionOf
      <4> QED
        BY <4>1, <4>2
    <3> QED
      BY <1>5, <2>2, <3>1
  <2>3. OthersStay(d, c)
    BY <2>2, CallHeld DEF OthersStay
  <2> QED
    BY <1>4, <1>6, <2>1, <2>2, <2>3, ElsewhereStep
<1>11. CASE calls[c].device = d
  <2>1. PICK held : held = client[d]
    OBVIOUS
  <2>2. held.token \in AnyToken /\ Holds(held.token, d) /\ client'[d] = held
    BY <2>1, ClientHeld
  <2>3. Of(n, d) /\ Of(calls[c], d) /\ SessionOf(held.token)' = SessionOf(held.token)
        /\ SessionOf(n.token)' = s /\ Current(n.token)'
    BY <1>3, <1>5, <1>8, <1>11, <2>2 DEF Of
  <2>4. \A e \in Calls \ {c} : Of(calls[e], d) /\ Granted(calls[e]) =>
          /\ SessionOf(held.token) # SessionOf(calls[e].token)
          /\ SessionOf(calls[c].token) # SessionOf(calls[e].token)
    BY <2>1, <2>3 DEF PosCalm, GrantsFit
  <2>5. CASE calls[c].op = "LOGIN" /\ sessions[s] = NewSession
    <3>1. ASSUME NEW u \in AnyToken, Holds(u, d) PROVE SessionOf(u) # s /\ Stays(u)
      BY <1>5, <1>9, <2>5, <3>1
    <3>2. \A e \in Calls : Of(calls[e], d) =>
            /\ calls[e].token \in AnyToken /\ Holds(calls[e].token, d)
            /\ SessionOf(calls[e].token) # s
      BY <3>1, CallHeld
    <3>3. OthersStay(d, c)
      BY <3>1, <3>2 DEF OthersStay
    <3>4. NewRefresh(d, c, n) /\ NewRenews(d, n)
      BY <1>3, <2>5 DEF NewRefresh, NewRenews, Renews
    <3>5. NewGrant(d, c, n, held)
      BY <1>3, <1>7, <2>2, <2>3, <3>1, <3>2 DEF NewGrant
    <3>6. OldGrants(d, c, n, held)
      BY <2>3, <2>4, <3>2 DEF OldGrants
    <3>7. NewHeld(d, c, n, held)
      BY <2>1, <2>2, <3>1 DEF NewHeld, Renewed
    <3> QED
      BY <1>4, <1>6, <2>2, <3>3, <3>4, <3>5, <3>6, <3>7, PosStep
  <2>6. CASE calls[c].op = "REFRESH" /\ SessionOf(calls[c].token) = s
    <3>1. \A e \in Calls \ {c} : ~ (Of(calls[e], d) /\ calls[e].op = "REFRESH")
      BY <2>3, <2>6 DEF PosCalm, OneRefresh
    <3>2. OthersStay(d, c)
      <4>1. SUFFICES ASSUME NEW e \in Calls \ {c}, NEW u \in AnyToken, Of(calls[e], d),
                            u = calls[e].token, Granted(calls[e])
                     PROVE  Stays(u)
        BY <3>1 DEF OthersStay
      <4>2. SessionOf(u) # s /\ Holds(u, d)
        BY <2>4, <2>6, <4>1, CallHeld
      <4> QED
        BY <1>5, <4>2
    <3>3. NewRefresh(d, c, n) /\ NewRenews(d, n) /\ NewGrant(d, c, n, held)
      BY <1>3, <2>3, <2>6, <3>1 DEF NewRefresh, NewRenews, NewGrant, Granted
    <3>4. OldGrants(d, c, n, held)
      BY <2>3, <2>4, <2>6 DEF OldGrants
    <3>5. NewHeld(d, c, n, held)
      BY <1>3, <2>3, <2>6 DEF NewHeld, Renewed
    <3> QED
      BY <1>4, <1>6, <2>2, <3>2, <3>3, <3>4, <3>5, PosStep
  <2> QED
    BY <2>5, <2>6
<1> QED
  BY <1>10, <1>11

\* No request changes, nor what the POS holds.
LEMMA SamePos ==
  ASSUME AuthBase, Ends, NEW d \in Devices, PosCalm(d), UNCHANGED <<calls, client>>
  PROVE  PosCalm(d)'
<1>1. AuthTyped
  BY DEF AuthBase
<1>2. ASSUME NEW e \in Calls, Of(calls[e], d)
      PROVE  /\ SessionOf(calls[e].token)' = SessionOf(calls[e].token)
             /\ Current(calls[e].token) => Current(calls[e].token)'
             /\ ~ Active(SessionOf(calls[e].token)) => ~ Active(SessionOf(calls[e].token))'
  <2>1. PICK u \in AnyToken : u = calls[e].token /\ u = calls'[e].token
    BY <1>2, CallHeld
  <2>2. SessionOf(u)' = SessionOf(u) /\ Stays(u)
    BY <1>1, EndsStay
  <2> QED
    BY <2>1, <2>2 DEF Stays, Current, Active, SessionOf
<1>3. /\ SessionOf(client[d].token)' = SessionOf(client[d].token)
      /\ Current(client[d].token) => Current(client[d].token)'
  <2>1. PICK u \in AnyToken : u = client[d].token /\ u = client'[d].token
    BY ClientHeld
  <2>2. SessionOf(u)' = SessionOf(u) /\ Stays(u)
    BY <1>1, EndsStay
  <2> QED
    BY <2>1, <2>2 DEF Stays, Current, Active, SessionOf
<1>4. OneRefresh(d)' /\ ClientFits(d)'
  BY <1>3 DEF PosCalm, OneRefresh, ClientFits
<1>5. RefreshesFit(d)'
  BY <1>2 DEF PosCalm, RefreshesFit
<1>6. GrantsFit(d)'
  BY <1>2, <1>3 DEF PosCalm, GrantsFit
<1> QED
  BY <1>4, <1>5, <1>6 DEF PosCalm

-----------------------------------------------------------------------------
LEMMA SameCalm ==
  ASSUME AuthBase, Ends, Calm, UNCHANGED <<calls, client, flow>>
  PROVE  Calm'
BY SamePos DEF Calm

\* One request changes, and no device takes an answer.
LEMMA ShapesStep ==
  ASSUME AuthBase, Calm, NEW c \in Calls, NEW n, calls' = [calls EXCEPT ![c] = n], CallShape(n),
         \A d \in Devices : flow'[d].op # "SWITCH",
         \A d \in Devices \ Browsers : PosCalm(d)'
  PROVE  Calm'
<1>1. \A e \in Calls : calls'[e] = IF e = c THEN n ELSE calls[e]
  BY DEF AuthBase, AuthTyped
<1> QED
  BY <1>1 DEF Calm

LEMMA MoveCalm ==
  ASSUME AuthBase, Ends, Calm, NEW c \in Calls, NEW n, calls' = [calls EXCEPT ![c] = n],
         UNCHANGED <<client, flow>>, CallShape(n), \A d \in Devices \ Browsers : Moves(d, c, n)
  PROVE  Calm'
<1>1. \A d \in Devices \ Browsers : PosCalm(d)'
  BY MoveStep DEF Calm
<1> QED
  BY <1>1, ShapesStep DEF Calm

LEMMA AdvanceCalm ==
  ASSUME AuthBase, Ends, Calm, NEW c \in Calls, NEW x \in Steps \ {"ANSWERED", "SENT"},
         calls' = [calls EXCEPT ![c].step = x], UNCHANGED <<client, flow>>,
         calls[c] # NoCall, calls[c].step # "ANSWERED",
         x \in {"ASSIGN", "CREATE"} => calls[c].op = "LOGIN",
         x \in {"ROTATE", "REVOKE"} => calls[c].op = "REFRESH",
         x = "SIGN_OUT" => calls[c].op \in {"LOGOUT", "LOGOUT_ALL"},
         x = "ROTATE" => calls[c].step \in {"SENT", "ROTATE"},
         \A d \in Devices \ Browsers :
           x = "REVOKE" /\ Of(calls[c], d) => ~ Active(SessionOf(calls[c].token))
  PROVE  Calm'
<1>1. PICK r \in CallRow : r = calls[c]
  BY DEF AuthBase, AuthTyped
<1>2. PICK n : n = [r EXCEPT !.step = x]
  OBVIOUS
<1>3. calls' = [calls EXCEPT ![c] = n]
  BY <1>1, <1>2
<1>4. /\ n \in CallRow /\ n.step = x
      /\ n.op = r.op /\ n.device = r.device /\ n.token = r.token /\ n.heard = r.heard
  BY <1>2 DEF CallRow
<1>5. CallShape(r)
  BY <1>1 DEF Calm
<1>6. CallShape(n)
  BY <1>1, <1>4, <1>5 DEF CallShape
<1>7. ASSUME NEW d \in Devices \ Browsers PROVE Moves(d, c, n)
  BY <1>1, <1>4 DEF Moves, Granted, Renewed, Of, Steps
<1> QED
  BY <1>3, <1>6, <1>7, MoveCalm

LEMMA RefuseCalm ==
  ASSUME AuthBase, Ends, Calm, NEW c \in Calls, NEW outcome \in Outcomes \ {"OK"},
         Refuse(c, outcome), UNCHANGED <<client, flow>>, calls[c] # NoCall,
         calls[c].step # "ANSWERED"
  PROVE  Calm'
<1>1. PICK t \in AnyToken, o \in AnyOrg : t = calls[c].token /\ o = calls[c].org
  BY CallsFit DEF CallFits, CallRow
<1>2. AuthTyped /\ calls' = Answered(c, outcome, t, o)
  BY <1>1 DEF Refuse, AuthBase
<1>3. PICK n : n = calls'[c]
  OBVIOUS
<1>4. /\ calls' \in [Calls -> CallRow] /\ \A e \in Calls \ {c} : calls'[e] = calls[e]
      /\ \/ n = NoCall
         \/ /\ n.op = calls[c].op /\ n.device = calls[c].device /\ n.step = "ANSWERED"
            /\ n.outcome = outcome /\ n.token = t /\ n.heard = calls[c].heard
  BY <1>2, <1>3, AnswerTypes
<1>5. calls' = [calls EXCEPT ![c] = n]
  BY <1>2, <1>3, <1>4 DEF AuthTyped
<1>6. CallShape(calls[c])
  BY DEF Calm
<1>7. CallShape(n)
  BY <1>4, <1>6 DEF CallShape
<1>8. ASSUME NEW d \in Devices \ Browsers PROVE Moves(d, c, n)
  BY <1>1, <1>4, UnderWay DEF Moves, Granted, Renewed
<1> QED
  BY <1>5, <1>7, <1>8, MoveCalm

LEMMA SupersedeCalm ==
  ASSUME AuthBase, Calm, NEW c \in Calls, LoginSupersede(c)
  PROVE  Calm'
<1>1. AuthTyped /\ UNCHANGED <<client, flow>> /\ calls[c].step = "SENT" /\ calls[c].op = "LOGIN"
      /\ calls[c] # NoCall
  BY UnderWay DEF LoginSupersede, device, AuthBase
<1>2. CASE calls[c].org \notin members
  <2>1. Ends
    BY <1>1, <1>2, NothingEnds DEF LoginSupersede
  <2>2. Refuse(c, "REFUSED") /\ "REFUSED" \in Outcomes \ {"OK"}
    BY <1>2 DEF LoginSupersede, Outcomes
  <2> QED
    BY <1>1, <2>1, <2>2, RefuseCalm
<1>3. CASE calls[c].org \in members
  <2>1. Ends
    BY <1>1, <1>3, RevocationEnds DEF LoginSupersede
  <2>2. calls' = [calls EXCEPT ![c].step = "ASSIGN"] /\ "ASSIGN" \in Steps \ {"ANSWERED", "SENT"}
    BY <1>3 DEF LoginSupersede, Steps
  <2> QED
    BY <1>1, <2>1, <2>2, AdvanceCalm
<1> QED
  BY <1>2, <1>3

LEMMA AssignCalm ==
  ASSUME AuthBase, Calm, NEW c \in Calls, EnsureAssignment(c)
  PROVE  Calm'
<1>1. AuthTyped /\ UNCHANGED <<sessions, minted, client, flow>> /\ calls[c].step = "ASSIGN"
      /\ calls[c] # NoCall
  BY UnderWay DEF EnsureAssignment, device, AuthBase
<1>2. calls[c].op = "LOGIN"
  BY <1>1 DEF Calm, CallShape
<1>3. calls' = [calls EXCEPT ![c].step = "CREATE"] /\ "CREATE" \in Steps \ {"ANSWERED", "SENT"}
  BY <1>2 DEF EnsureAssignment, Steps
<1>4. Ends
  BY <1>1, NothingEnds
<1> QED
  BY <1>1, <1>2, <1>3, <1>4, AdvanceCalm

\* A refresh under way finds its token in the row, not in the place of the one before it.
LEMMA NotPrevious ==
  ASSUME AuthBase, NEW t \in AnyToken, Active(SessionOf(t)), Current(t)
  PROVE  sessions[SessionOf(t)].previous # t
<1>1. PICK s : s = SessionOf(t)
  OBVIOUS
<1>2. AuthTyped /\ Chains /\ s # None /\ sessions[s].token = t
  BY <1>1 DEF AuthBase, Active, Current
<1>3. t \in Tokens /\ minted[t].session = s /\ s \in Sessions
  BY <1>1, <1>2 DEF SessionOf, AnyToken, AuthTyped, TokenRow
<1>4. FollowsOn(t) /\ sessions[s].previous = minted[t].parent
  <2>1. s \in Starting
    BY <1>2, <1>3 DEF Chains, InOrder
  <2> QED
    BY <1>2, <1>3, <2>1 DEF Chains, HoldsYoungest
<1>5. minted[t].parent # t
  BY <1>3, <1>4, TokenTypes DEF FollowsOn
<1> QED
  BY <1>1, <1>4, <1>5

LEMMA LoadRefreshCalm ==
  ASSUME AuthBase, Calm, NEW c \in Calls, LoadForRefresh(c)
  PROVE  Calm'
<1> DEFINE s == SessionOf(calls[c].token)
<1>1. AuthTyped /\ UNCHANGED <<sessions, minted, client, flow>> /\ calls[c].step = "SENT"
      /\ calls[c].op = "REFRESH" /\ calls[c] # NoCall /\ Ends
  BY UnderWay, SameRows DEF LoadForRefresh, rows, device, AuthBase
<1>2. \/ sessions[s].previous = calls[c].token /\ calls' = [calls EXCEPT ![c].step = "REVOKE"]
      \/ /\ Usable(s, calls[c].token)
         /\ calls' = [calls EXCEPT ![c].step = "ROTATE", ![c].org = SnapshotOrg(s)]
      \/ Refuse(c, "REFUSED")
  BY DEF LoadForRefresh
<1>3. CASE sessions[s].previous = calls[c].token /\ calls' = [calls EXCEPT ![c].step = "REVOKE"]
  <2>1. ASSUME NEW d \in Devices \ Browsers, Of(calls[c], d)
        PROVE  ~ Active(SessionOf(calls[c].token))
    <3>1. Current(calls[c].token) /\ calls[c].token \in AnyToken
      BY <1>1, <2>1, CallHeld DEF Calm, PosCalm, RefreshesFit, Renews
    <3> QED
      BY <1>3, <3>1, NotPrevious
  <2> QED
    BY <1>1, <1>3, <2>1, AdvanceCalm DEF Steps
<1>4. CASE Refuse(c, "REFUSED")
  BY <1>1, <1>4, RefuseCalm DEF Outcomes
<1>5. CASE /\ Usable(s, calls[c].token)
           /\ calls' = [calls EXCEPT ![c].step = "ROTATE", ![c].org = SnapshotOrg(s)]
  <2>1. s \in Sessions
    <3>1. calls[c].token \in AnyToken /\ s # None
      BY <1>5, CallsFit DEF CallFits, CallRow, Usable, Active
    <3> QED
      BY <1>1, <3>1 DEF AuthTyped, SessionOf, AnyToken, TokenRow
  <2>2. PICK o \in AnyOrg : o = SnapshotOrg(s)
    BY <1>1, <2>1 DEF AuthTyped, SessionRow, SnapshotOrg
  <2>3. PICK r \in CallRow : r = calls[c]
    BY <1>1 DEF AuthTyped
  <2>4. PICK n : n = [r EXCEPT !.step = "ROTATE", !.org = o]
    OBVIOUS
  <2>5. calls' = [calls EXCEPT ![c] = n]
    BY <1>5, <2>2, <2>3, <2>4
  <2>6. n.step = "ROTATE" /\ n.op = r.op /\ n.device = r.device /\ n.token = r.token
        /\ n.heard = r.heard
    BY <2>4 DEF CallRow
  <2>7. CallShape(n)
    BY <1>1, <2>3, <2>6 DEF Calm, CallShape
  <2>8. ASSUME NEW d \in Devices \ Browsers PROVE Moves(d, c, n)
    BY <1>1, <2>3, <2>6 DEF Moves, Granted, Renewed
  <2> QED
    BY <1>1, <2>5, <2>7, <2>8, MoveCalm
<1> QED
  BY <1>2, <1>3, <1>4, <1>5

LEMMA LoadSwitchCalm ==
  ASSUME AuthBase, Calm, NEW c \in Calls
  PROVE  ~ LoadForSwitch(c)
BY UnderWay DEF LoadForSwitch, Calm, CallShape

LEMMA RevokeCalm ==
  ASSUME AuthBase, Calm, NEW c \in Calls, RevokeDeviceSessions(c)
  PROVE  Calm'
<1>1. AuthTyped /\ UNCHANGED <<minted, client, flow>> /\ Refuse(c, "DETECTED")
      /\ sessions' = Revoked(SessionsOn(calls[c].device)) /\ calls[c].step = "REVOKE"
  BY DEF RevokeDeviceSessions, AuthBase, device
<1>2. Ends /\ calls[c] # NoCall
  BY <1>1, RevocationEnds, UnderWay
<1> QED
  BY <1>1, <1>2, RefuseCalm DEF Outcomes

LEMMA AdmitCalm ==
  ASSUME AuthBase, Calm, NEW c \in Calls, AdmitSignOut(c)
  PROVE  Calm'
<1>1. /\ AuthTyped /\ UNCHANGED <<sessions, minted, client, flow>>
      /\ calls[c].step = "SENT" /\ calls[c].op \in {"LOGOUT", "LOGOUT_ALL"}
      /\ calls[c] # NoCall
  BY UnderWay DEF AdmitSignOut, AuthBase, device, rows
<1>2. Ends
  BY <1>1, NothingEnds
<1>3. CASE Refuse(c, "REFUSED")
  BY <1>1, <1>2, <1>3, RefuseCalm DEF Outcomes
<1>4. CASE calls' = [calls EXCEPT ![c].step = "SIGN_OUT"]
  <2>1. "SIGN_OUT" \in Steps \ {"ANSWERED", "SENT"}
    BY DEF Steps
  <2> QED
    BY <1>1, <1>2, <1>4, <2>1, AdvanceCalm
<1> QED
  BY <1>3, <1>4 DEF AdmitSignOut

LEMMA LogoutCalm ==
  ASSUME AuthBase, Calm, NEW c \in Calls, Logout(c)
  PROVE  Calm'
<1>1. AuthTyped /\ UNCHANGED <<minted, client, flow>> /\ calls[c].step = "SIGN_OUT"
      /\ calls[c] # NoCall
  BY UnderWay DEF Logout, AuthBase, device
<1>2. PICK S : sessions' = Revoked(S) /\ calls' = Answered(c, "OK", None, NoOrg)
  BY DEF Logout
<1>3. Ends
  BY <1>1, <1>2, RevocationEnds
<1>4. None \in AnyToken /\ NoOrg \in AnyOrg /\ "OK" \in Outcomes
  BY DEF AnyToken, AnyOrg, Outcomes
<1>5. PICK n : n = calls'[c]
  OBVIOUS
<1>6. /\ calls' \in [Calls -> CallRow] /\ \A e \in Calls \ {c} : calls'[e] = calls[e]
      /\ \/ n = NoCall
         \/ /\ n.op = calls[c].op /\ n.device = calls[c].device /\ n.step = "ANSWERED"
            /\ n.token = None /\ n.heard = calls[c].heard
  BY <1>1, <1>2, <1>4, <1>5, AnswerTypes
<1>7. calls' = [calls EXCEPT ![c] = n]
  BY <1>1, <1>5, <1>6 DEF AuthTyped
<1>8. CallShape(n)
  BY <1>1, <1>6 DEF Calm, CallShape
<1>9. calls[c].op \in {"LOGOUT", "LOGOUT_ALL"}
  BY <1>1 DEF Calm, CallShape
<1>10. ASSUME NEW d \in Devices \ Browsers PROVE Moves(d, c, n)
  BY <1>1, <1>6, <1>9, UnderWay DEF Moves, Granted, Renewed
<1> QED
  BY <1>1, <1>3, <1>7, <1>8, <1>10, MoveCalm

\* A token is minted.
LEMMA MintCalm ==
  ASSUME AuthBase, Calm, NEW c \in Calls, calls[c] # NoCall, NEW s \in Sessions, NEW t \in Tokens,
         NEW row, NEW p, NEW o \in AnyOrg, Unminted(t), row.token = t,
         sessions' = [sessions EXCEPT ![s] = row],
         minted' = [minted EXCEPT ![t] = [session |-> s, parent |-> p]],
         calls' = Answered(c, "OK", t, o), UNCHANGED <<client, flow>>, calls[c].step # "ANSWERED",
         \/ sessions[s] = NewSession /\ calls[c].op = "LOGIN"
         \/ /\ calls[c].op = "REFRESH" /\ SessionOf(calls[c].token) = s
            /\ sessions[s].device = calls[c].device /\ sessions[s] # NewSession
  PROVE  Calm'
<1>1. AuthTyped /\ t \in AnyToken /\ "OK" \in Outcomes /\ calls[c].heard = TRUE
  BY DEF AuthBase, AnyToken, Outcomes, Calm, CallShape
<1>2. \A d \in Devices \ Browsers : PosCalm(d)'
  BY <1>1, MintPos DEF Calm
<1>3. PICK n : n = calls'[c]
  OBVIOUS
<1>4. /\ calls' \in [Calls -> CallRow] /\ \A e \in Calls \ {c} : calls'[e] = calls[e]
      /\ \/ n = NoCall
         \/ /\ n.op = calls[c].op /\ n.step = "ANSWERED" /\ n.heard = calls[c].heard
  BY <1>1, <1>3, AnswerTypes
<1>5. calls' = [calls EXCEPT ![c] = n]
  BY <1>1, <1>3, <1>4 DEF AuthTyped
<1>6. CallShape(n)
  BY <1>4 DEF Calm, CallShape
<1> QED
  BY <1>2, <1>5, <1>6, ShapesStep DEF Calm

LEMMA CreateCalm ==
  ASSUME AuthBase, Calm, NEW c \in Calls, CreateSession(c)
  PROVE  Calm'
<1>1. PICK s \in Sessions, t \in Tokens :
        /\ Fresh(s, t)
        /\ sessions' = [sessions EXCEPT ![s] = [NewSession EXCEPT !.status = "ACTIVE",
                          !.device = calls[c].device, !.org = calls[c].org, !.token = t]]
        /\ minted' = [minted EXCEPT ![t].session = s]
        /\ calls' = Answered(c, "OK", t, calls[c].org)
  BY DEF CreateSession
<1>2. AuthTyped /\ Chains /\ UNCHANGED <<client, flow>> /\ calls[c].step = "CREATE"
      /\ calls[c] # NoCall
  BY UnderWay DEF CreateSession, AuthBase, device
<1>3. PICK d \in Devices, o \in AnyOrg : d = calls[c].device /\ o = calls[c].org
  BY <1>2, CallsFit, UnderWay DEF CallFits, OfDevice, CallRow
<1>4. PICK row : row = Created(d, o, t)
  OBVIOUS
<1>5. row.token = t
  BY <1>4, CreatedTypes
<1>6. sessions[s] = NewSession /\ Unminted(t) /\ calls[c].op = "LOGIN"
  BY <1>1, <1>2 DEF Fresh, Unminted, Calm, CallShape
<1>7. minted' = [minted EXCEPT ![t] = [session |-> s, parent |-> None]]
  <2>1. minted[t] \in TokenRow /\ minted[t].parent = None
    BY <1>2, <1>6 DEF AuthTyped, Chains, InOrder, Unminted
  <2>2. [minted[t] EXCEPT !.session = s] = [session |-> s, parent |-> None]
    BY <2>1 DEF TokenRow
  <2> QED
    BY <1>1, <2>2
<1>8. sessions' = [sessions EXCEPT ![s] = row] /\ calls' = Answered(c, "OK", t, o)
  BY <1>1, <1>3, <1>4 DEF Created
<1> QED
  BY <1>2, <1>5, <1>6, <1>7, <1>8, MintCalm

LEMMA RotateCalm ==
  ASSUME AuthBase, Calm, NEW c \in Calls, RotateSession(c)
  PROVE  Calm'
<1> DEFINE s == SessionOf(calls[c].token)
<1>1. AuthTyped /\ UNCHANGED <<client, flow>> /\ calls[c].step = "ROTATE" /\ calls[c] # NoCall
  BY UnderWay DEF RotateSession, AuthBase, device
<1>2. calls[c].op = "REFRESH"
  BY <1>1 DEF Calm, CallShape
<1>3. CASE ~ Rotates(c)
  <2>1. calls' = [calls EXCEPT ![c].step = "REVOKE"] /\ UNCHANGED <<sessions, minted>>
    BY <1>3 DEF RotateSession
  <2>2. Ends
    BY <1>1, <2>1, NothingEnds
  <2>3. ASSUME NEW d \in Devices \ Browsers, Of(calls[c], d) PROVE ~ Active(s)
    <3>1. Current(calls[c].token)
      BY <1>1, <1>2, <2>3 DEF Calm, PosCalm, RefreshesFit, Renews
    <3> QED
      BY <1>3, <3>1 DEF Current, Rotates
  <2> QED
    BY <1>1, <1>2, <2>1, <2>2, <2>3, AdvanceCalm DEF Steps
<1>4. CASE Rotates(c)
  <2>1. PICK t \in Tokens :
          /\ Unminted(t)
          /\ sessions' = [sessions EXCEPT ![s] = [sessions[s] EXCEPT !.org = calls[c].org,
                            !.previous = calls[c].token, !.token = t, !.lapsed = FALSE]]
          /\ minted' = [minted EXCEPT ![t] = [session |-> s, parent |-> calls[c].token]]
          /\ calls' = Answered(c, "OK", t, calls[c].org)
    BY <1>4 DEF RotateSession, Unminted
  <2>2. PICK o \in AnyOrg, p \in AnyToken : o = calls[c].org /\ p = calls[c].token
    BY CallsFit DEF CallFits, CallRow
  <2>3. Active(s) /\ s # None /\ p # None
    BY <1>4, <2>2 DEF Rotates, Active, SessionOf
  <2>4. s \in Sessions /\ sessions[s] \in SessionRow /\ sessions[s] # NewSession
        /\ sessions[s].device = calls[c].device
    <3>1. s \in Sessions
      BY <1>1, <2>2, <2>3 DEF AuthTyped, SessionOf, TokenRow, AnyToken
    <3>2. sessions[s].device = calls[c].device
      BY <2>2, <2>3, CallsFit DEF CallFits, Holds
    <3> QED
      BY <1>1, <2>3, <3>1, <3>2 DEF AuthTyped, Active, NewSession
  <2>5. PICK row : row = Rotated(sessions[s], o, p, t)
    OBVIOUS
  <2>6. row.token = t
    <3>1. PICK r \in SessionRow : r = sessions[s]
      BY <2>4
    <3> QED
      BY <2>5, <3>1, RotatedTypes
  <2>7. PICK z \in Sessions : z = s
    BY <2>4
  <2>8. sessions' = [sessions EXCEPT ![z] = row] /\ calls' = Answered(c, "OK", t, o)
        /\ minted' = [minted EXCEPT ![t] = [session |-> z, parent |-> p]]
    BY <2>1, <2>2, <2>5, <2>7 DEF Rotated
  <2> QED
    <3>1. /\ Unminted(t) /\ SessionOf(calls[c].token) = z
          /\ sessions[z].device = calls[c].device /\ sessions[z] # NewSession
      BY <2>1, <2>4, <2>7
    <3> HIDE DEF s
    <3> QED
      BY <1>1, <1>2, <2>6, <2>8, <3>1, MintCalm
<1> QED
  BY <1>3, <1>4

\* A device asks for something, while it is calm.
LEMMA AskCalm ==
  ASSUME AuthBase, Calm, UNCHANGED <<rows, client>>, NEW f \in Devices,
         NEW op \in Ops \ {"SWITCH"}, NEW o \in AnyOrg, NEW c \in Calls,
         calls' = [calls EXCEPT ![c] = Request(f, op, o)],
         calls[c] = NoCall \/ (calls[c].device = f /\ calls[c].op \in {"LOGOUT", "LOGOUT_ALL"}),
         op = "REFRESH" => CanRefresh(f), \A d \in Devices : flow'[d].op # "SWITCH"
  PROVE  Calm'
<1>1. PICK n : n = Request(f, op, o)
  OBVIOUS
<1>2. n.op = op /\ n.step = "SENT" /\ n.heard = TRUE
  BY <1>1 DEF Request, NoCall
<1>3. CallShape(n) /\ calls' = [calls EXCEPT ![c] = n]
  BY <1>1, <1>2 DEF CallShape
<1>4. ASSUME NEW d \in Devices \ Browsers PROVE PosCalm(d)'
  <2>1. ASSUME op = "REFRESH", f = d, NEW e \in Calls \ {c}
        PROVE  ~ (Of(calls[e], d) /\ calls[e].op = "REFRESH")
    <3>1. ~ Listening(d, "REFRESH")
      BY <2>1 DEF CanRefresh
    <3>2. Of(calls[e], d) => calls[e].heard = TRUE
      BY DEF Calm, CallShape, Of
    <3> QED
      BY <3>1, <3>2 DEF Listening, Of
  <2>2. PosCalm(d) /\ op \in Ops
    BY DEF Calm
  <2> QED
    BY <2>1, <2>2, AskPos
<1> QED
  BY <1>3, <1>4, ShapesStep

LEMMA AsksCalm ==
  ASSUME AuthBase, Calm, NEW d \in Devices, NEW c \in Calls,
         \/ Rejected(d, c) \/ Expired(d, c) \/ SendRefreshed(d, c)
         \/ \E o \in Orgs : SignIn(d, o, c)
         \/ \E op \in {"LOGOUT", "LOGOUT_ALL"} : SignOut(d, op, c)
  PROVE  Calm'
<1>1. AuthTyped /\ \A e \in Devices : flow[e].op # "SWITCH"
  BY DEF AuthBase, Calm
<1>2. flow \in [Devices -> FlowRow]
  BY <1>1 DEF AuthTyped
<1>3. ASSUME Rejected(d, c) \/ Expired(d, c) PROVE Calm'
  <2>1. UNCHANGED <<rows, client, flow>> /\ CanRefresh(d) /\ calls[c] = NoCall
        /\ calls' = [calls EXCEPT ![c] = Request(d, "REFRESH", NoOrg)]
    BY <1>3 DEF Rejected, Expired, Unauthorized, device, Idle
  <2>2. "REFRESH" \in Ops \ {"SWITCH"} /\ \A e \in Devices : flow'[e].op # "SWITCH"
    BY <1>1, <2>1 DEF Ops
  <2> QED
    BY <2>1, <2>2, OrgKinds, AskCalm
<1>4. ASSUME SendRefreshed(d, c) PROVE Calm'
  <2>1. UNCHANGED <<rows, client>> /\ calls[c] = NoCall
        /\ calls' = [calls EXCEPT ![c] = Request(d, flow[d].op, flow[d].org)]
    BY <1>4 DEF SendRefreshed, Idle
  <2>2. flow[d].op \in Ops \ {"SWITCH"} /\ flow[d].org \in AnyOrg /\ flow[d].op # "REFRESH"
    BY <1>1, <1>2, <1>4 DEF SendRefreshed, FlowRow, Ops
  <2>3. \A e \in Devices : flow'[e].op # "SWITCH"
    <3>1. \A e \in Devices : flow'[e] = IF e = d THEN [flow[d] EXCEPT !.step = "AGAIN"] ELSE flow[e]
      BY <1>2, <1>4 DEF SendRefreshed
    <3> QED
      BY <1>1, <1>2, <3>1 DEF FlowRow
  <2>4. PICK op, o : op = flow[d].op /\ o = flow[d].org
    OBVIOUS
  <2> QED
    BY <2>1, <2>2, <2>3, <2>4, AskCalm
<1>5. ASSUME NEW o \in Orgs, SignIn(d, o, c) PROVE Calm'
  <2>1. UNCHANGED <<rows, client, flow>> /\ calls[c] = NoCall
        /\ calls' = [calls EXCEPT ![c] = Request(d, "LOGIN", o)]
    BY <1>5 DEF SignIn, device, Idle
  <2>2. "LOGIN" \in Ops \ {"SWITCH"} /\ \A e \in Devices : flow'[e].op # "SWITCH"
    BY <1>1, <2>1 DEF Ops
  <2> QED
    BY <2>1, <2>2, OrgKinds, AskCalm
<1>6. ASSUME NEW op \in {"LOGOUT", "LOGOUT_ALL"}, SignOut(d, op, c) PROVE Calm'
  <2>1. UNCHANGED <<rows, client>> /\ calls[c] = NoCall
        /\ calls' = [calls EXCEPT ![c] = Request(d, op, NoOrg)]
    BY <1>6 DEF SignOut, Idle
  <2>2. \A e \in Devices : flow'[e].op # "SWITCH"
    <3>1. \A e \in Devices :
            flow'[e] = flow[e] \/ flow'[e] = [op |-> op, org |-> NoOrg, step |-> "SENT"]
      BY <1>2, <1>6 DEF SignOut
    <3> QED
      BY <1>1, <3>1
  <2>3. op \in Ops \ {"SWITCH"} /\ op # "REFRESH"
    BY DEF Ops
  <2> QED
    BY <2>1, <2>2, <2>3, OrgKinds, AskCalm
<1> QED
  BY <1>3, <1>4, <1>5, <1>6

\* A device takes the answer of its request, while it is calm.
LEMMA TakeCalm ==
  ASSUME AuthBase, Calm, UNCHANGED rows, NEW c \in Calls, calls[c] # NoCall,
         calls' = [calls EXCEPT ![c] = NoCall], NEW held,
         client' = [client EXCEPT ![calls[c].device] = held],
         \/ held.token = None
         \/ held.token = client[calls[c].device].token /\ ~ Renewed(calls[c])
         \/ held.token = calls[c].token /\ (Granted(calls[c]) \/ Renewed(calls[c])),
         \A d \in Devices : flow'[d].op # "SWITCH"
  PROVE  Calm'
<1>1. PICK f \in Devices : f = calls[c].device
  BY CallsFit DEF CallFits, OfDevice
<1>2. PICK n : n = NoCall
  OBVIOUS
<1>3. \A d \in Devices \ Browsers : PosCalm(d)'
  BY <1>1, TakePos DEF Calm
<1>4. CallShape(n) /\ calls' = [calls EXCEPT ![c] = n]
  BY <1>2 DEF CallShape
<1> QED
  BY <1>3, <1>4, ShapesStep

LEMMA ReceiveCalm ==
  ASSUME AuthBase, Calm, NEW c \in Calls, Receive(c)
  PROVE  Calm'
<1> DEFINE d == calls[c].device
<1>1. AuthTyped /\ (\A e \in Devices : flow[e].op # "SWITCH") /\ UNCHANGED rows
      /\ calls[c].step = "ANSWERED" /\ calls[c] # NoCall
  BY UnderWay DEF AuthBase, Calm, Receive, ReceiveGrant, ReceiveRefresh, RetrySignOut, ReceiveSignOut
<1>2. flow \in [Devices -> FlowRow] /\ client \in [Devices -> HeldRow] /\ d \in Devices
  BY <1>1, CallsFit DEF AuthTyped, CallFits, OfDevice
<1>3. NoFlow.op = "NONE" /\ NoTokens.token = None
  BY DEF NoFlow, NoTokens
<1>4. ASSUME ReceiveGrant(c) PROVE Calm'
  <2>1. calls[c].op = "LOGIN" /\ UNCHANGED flow /\ calls' = [calls EXCEPT ![c] = NoCall]
    BY <1>1, <1>4 DEF ReceiveGrant, Calm, CallShape, Done
  <2>2. PICK held : held = CASE calls[c].outcome = "OK" ->
                                  [token |-> calls[c].token, org |-> calls[c].org]
                             [] calls[c].outcome = "NOT_ACTIVE" /\ d \notin Browsers -> NoTokens
                             [] OTHER -> client[d]
    OBVIOUS
  <2>3. client' = [client EXCEPT ![d] = held]
    BY <1>4, <2>2 DEF ReceiveGrant
  <2>4. \/ held.token = None
        \/ held.token = client[d].token /\ ~ Renewed(calls[c])
        \/ held.token = calls[c].token /\ Granted(calls[c])
    <3>1. CASE calls[c].outcome = "OK"
      BY <1>1, <2>1, <2>2, <3>1 DEF Granted
    <3>2. CASE calls[c].outcome = "NOT_ACTIVE" /\ d \notin Browsers
      BY <1>3, <2>2, <3>2
    <3>3. CASE calls[c].outcome # "OK" /\ ~ (calls[c].outcome = "NOT_ACTIVE" /\ d \notin Browsers)
      BY <2>1, <2>2, <3>3 DEF Renewed
    <3> QED
      BY <3>1, <3>2, <3>3
  <2> QED
    BY <1>1, <2>1, <2>3, <2>4, TakeCalm
<1>5. ASSUME ReceiveRefresh(c) PROVE Calm'
  <2>1. calls[c].op = "REFRESH" /\ calls' = [calls EXCEPT ![c] = NoCall]
    BY <1>5 DEF ReceiveRefresh, Done
  <2>2. PICK held : held = IF calls[c].outcome = "OK"
                             THEN [token |-> calls[c].token, org |-> calls[c].org] ELSE NoTokens
    OBVIOUS
  <2>3. client' = [client EXCEPT ![d] = held]
    <3>1. CASE calls[c].outcome = "OK"
      BY <1>5, <2>2, <3>1 DEF ReceiveRefresh, Terminal
    <3>2. CASE calls[c].outcome # "OK"
      BY <1>5, <2>2, <3>2 DEF ReceiveRefresh, Terminal
    <3> QED
      BY <3>1, <3>2
  <2>4. held.token = None \/ (held.token = calls[c].token /\ Renewed(calls[c]))
    BY <1>1, <1>3, <2>1, <2>2 DEF Renewed
  <2>5. ASSUME NEW e \in Devices PROVE flow'[e].op # "SWITCH"
    <3>1. flow'[e] = flow[e] \/ flow'[e] = [flow[e] EXCEPT !.step = "READY"] \/ flow'[e] = NoFlow
      BY <1>2, <1>5 DEF ReceiveRefresh
    <3> QED
      BY <1>1, <1>2, <1>3, <3>1 DEF FlowRow
  <2> QED
    BY <1>1, <2>1, <2>3, <2>4, <2>5, TakeCalm
<1>6. ASSUME RetrySignOut(c) PROVE Calm'
  <2>1. calls[c].op \in {"LOGOUT", "LOGOUT_ALL"} /\ UNCHANGED client
        /\ calls' = [calls EXCEPT ![c] = IF CanRefresh(d) THEN Request(d, "REFRESH", NoOrg) ELSE NoCall]
    BY <1>6 DEF RetrySignOut
  <2>2. ASSUME NEW e \in Devices PROVE flow'[e].op # "SWITCH"
    <3>1. flow'[e] = flow[e] \/ flow'[e] = [flow[e] EXCEPT !.step = "REFRESH"]
      BY <1>2, <1>6 DEF RetrySignOut
    <3> QED
      BY <1>1, <1>2, <3>1 DEF FlowRow
  <2>3. CASE CanRefresh(d)
    <3>1. "REFRESH" \in Ops \ {"SWITCH"} /\ NoOrg \in AnyOrg
      BY OrgKinds DEF Ops
    <3>2. PICK f \in Devices : f = d
      BY <1>2
    <3>3. calls' = [calls EXCEPT ![c] = Request(f, "REFRESH", NoOrg)] /\ CanRefresh(f)
      BY <2>1, <2>3, <3>2
    <3>4. UNCHANGED <<rows, client>> /\ calls[c].device = f
          /\ calls[c].op \in {"LOGOUT", "LOGOUT_ALL"}
      BY <1>1, <2>1, <3>2
    <3> HIDE DEF d
    <3> QED
      BY <2>2, <3>1, <3>3, <3>4, AskCalm
  <2>4. CASE ~ CanRefresh(d)
    <3>1. PICK held : held = client[d]
      OBVIOUS
    <3>2. client' = [client EXCEPT ![d] = held] /\ held.token = client[d].token /\ ~ Renewed(calls[c])
      BY <1>2, <2>1, <3>1 DEF Renewed
    <3> QED
      BY <1>1, <2>1, <2>2, <2>4, <3>2, TakeCalm
  <2> QED
    BY <2>3, <2>4
<1>7. ASSUME ReceiveSignOut(c) PROVE Calm'
  <2>1. calls' = [calls EXCEPT ![c] = NoCall] /\ client' = [client EXCEPT ![d] = NoTokens]
        /\ flow' = [flow EXCEPT ![d] = NoFlow]
    BY <1>7 DEF ReceiveSignOut, SignedOut, FlowEnds, Done
  <2>2. \A e \in Devices : flow'[e].op # "SWITCH"
    BY <1>1, <1>2, <1>3, <2>1
  <2>3. PICK held : held = NoTokens
    OBVIOUS
  <2> QED
    BY <1>1, <1>3, <2>1, <2>2, <2>3, TakeCalm
<1> QED
  BY <1>4, <1>5, <1>6, <1>7 DEF Receive

LEMMA CalmInit ==
  ASSUME Init
  PROVE  Calm
<1>1. calls = [c \in Calls |-> NoCall] /\ flow = [d \in Devices |-> NoFlow]
      /\ client = [d \in Devices |-> NoTokens]
  BY DEF Init
<1>2. \A c \in Calls : calls[c] = NoCall
  BY <1>1
<1>3. \A d \in Devices : flow[d].op = "NONE" /\ client[d].token = None
  BY <1>1 DEF NoFlow, NoTokens
<1>4. Current(None)
  BY DEF Current, Active, SessionOf
<1>5. \A c \in Calls : CallShape(calls[c])
  BY <1>2 DEF CallShape
<1>6. ASSUME NEW d \in Devices PROVE PosCalm(d)
  <2>1. \A c \in Calls : ~ Of(calls[c], d)
    BY <1>2 DEF Of
  <2> QED
    BY <1>3, <1>4, <2>1 DEF PosCalm, OneRefresh, GrantsFit, RefreshesFit, ClientFits
<1> QED
  BY <1>3, <1>5, <1>6 DEF Calm

LEMMA QuietSpends ==
  ASSUME SpentTyped, SpentTyped', Quiet'
  PROVE  /\ ~ Spend("losses") /\ ~ Spend("switches")
         /\ (\A b \in DOMAIN Bounds : spent'[b] >= spent[b]) => Quiet
<1>1. /\ spent.losses \in Nat /\ spent.switches \in Nat
      /\ spent'.losses \in Nat /\ spent'.switches \in Nat
  BY BoundNames DEF SpentTyped
<1>2. spent'.losses = 0 /\ spent'.switches = 0
  BY <1>1 DEF Quiet
<1>3. ~ Spend("losses")
  <2>1. Spend("losses") => spent'.losses = spent.losses + 1
    BY BoundNames DEF Spend, SpentTyped
  <2> QED
    BY <1>1, <1>2, <2>1
<1>4. ~ Spend("switches")
  <2>1. Spend("switches") => spent'.switches = spent.switches + 1
    BY BoundNames DEF Spend, SpentTyped
  <2> QED
    BY <1>1, <1>2, <2>1
<1>5. ASSUME \A b \in DOMAIN Bounds : spent'[b] >= spent[b] PROVE Quiet
  <2>1. spent'.losses >= spent.losses /\ spent'.switches >= spent.switches
    BY <1>5, BoundNames
  <2>2. spent.losses = 0 /\ spent.switches = 0
    BY <1>1, <1>2, <2>1
  <2> QED
    BY <2>2 DEF Quiet
<1> QED
  BY <1>3, <1>4, <1>5

LEMMA SpendGrows ==
  ASSUME SpentTyped, UNCHANGED spent \/ \E what \in DOMAIN Bounds : Spend(what)
  PROVE  \A b \in DOMAIN Bounds : spent'[b] >= spent[b]
<1>1. \A b \in DOMAIN Bounds : spent[b] \in Nat
  BY DEF SpentTyped
<1>2. \A b \in DOMAIN Bounds : spent'[b] = spent[b] \/ spent'[b] = spent[b] + 1
  BY DEF SpentTyped, Spend
<1> QED
  BY <1>1, <1>2

LEMMA NextSpends ==
  ASSUME [Next]_vars
  PROVE  UNCHANGED spent \/ \E what \in DOMAIN Bounds : Spend(what)
<1>1. ASSUME NEW c \in Calls, Serve(c) PROVE UNCHANGED spent \/ Spend("expiries")
  BY <1>1 DEF Serve, LoginSupersede, EnsureAssignment, CreateSession, LoadForRefresh,
    LoadForSwitch, RotateSession, RevokeDeviceSessions, AdmitSignOut, Logout
<1>2. ASSUME NEW c \in Calls, Receive(c) \/ GiveUp(c) PROVE UNCHANGED spent \/ Spend("losses")
  BY <1>2 DEF Receive, ReceiveGrant, ReceiveRefresh, RetrySignOut, ReceiveSignOut, GiveUp
<1>3. ASSUME \/ \E d \in Devices, o \in Orgs : RevokeAssignment(d, o) \/ RevokeAssignedSessions(d, o)
             \/ \E o \in Orgs : ChangeMembership(o)
             \/ \E s \in Sessions : Lapse(s)
      PROVE  UNCHANGED spent \/ Spend("decisions")
  BY <1>3 DEF RevokeAssignment, RevokeAssignedSessions, ChangeMembership, Lapse
<1>4. ASSUME NEW d \in Devices, NEW c \in Calls,
             \/ Rejected(d, c) \/ Expired(d, c) \/ SendRefreshed(d, c)
             \/ \E o \in Orgs : SignIn(d, o, c) \/ StartSwitch(d, o, c) \/ BrowserSwitch(d, o, c)
             \/ \E op \in {"LOGOUT", "LOGOUT_ALL"} : SignOut(d, op, c)
      PROVE  UNCHANGED spent \/ Spend("expiries") \/ Spend("switches") \/ Spend("signOuts")
  BY <1>4 DEF Rejected, Expired, SendRefreshed, SignIn, StartSwitch, BrowserSwitch, SignOut
<1>5. ASSUME NEW d \in Devices, Persist(d) \/ Restart(d)
      PROVE  UNCHANGED spent \/ Spend("losses")
  BY <1>5 DEF Persist, Restart
<1>6. UNCHANGED vars => UNCHANGED spent
  BY DEF vars
<1> QED
  BY <1>1, <1>2, <1>3, <1>4, <1>5, <1>6, BoundNames DEF Next

LEMMA CalmNext ==
  ASSUME AuthBase, Calm, [Next]_vars, SpentTyped', Quiet'
  PROVE  Calm'
<1>1. ~ Spend("losses") /\ ~ Spend("switches")
  BY QuietSpends DEF AuthBase
<1>2. ASSUME NEW c \in Calls, Serve(c) PROVE Calm'
  BY <1>2, SupersedeCalm, AssignCalm, CreateCalm, LoadRefreshCalm, LoadSwitchCalm, RotateCalm,
    RevokeCalm, AdmitCalm, LogoutCalm DEF Serve
<1>3. ASSUME NEW c \in Calls, Receive(c) \/ GiveUp(c) PROVE Calm'
  BY <1>1, <1>3, ReceiveCalm DEF GiveUp
<1>4. ASSUME \/ \E d \in Devices, o \in Orgs : RevokeAssignment(d, o) \/ RevokeAssignedSessions(d, o)
             \/ \E o \in Orgs : ChangeMembership(o)
             \/ \E s \in Sessions : Lapse(s)
      PROVE  Calm'
  <2>1. Ends
    BY <1>4, ManagersBase, LapseBase
  <2>2. UNCHANGED <<calls, client, flow>>
    BY <1>4 DEF RevokeAssignment, RevokeAssignedSessions, ChangeMembership, Lapse, device
  <2> QED
    BY <2>1, <2>2, SameCalm
<1>5. ASSUME NEW d \in Devices, NEW c \in Calls,
             \/ Rejected(d, c) \/ Expired(d, c) \/ SendRefreshed(d, c)
             \/ \E o \in Orgs : SignIn(d, o, c) \/ StartSwitch(d, o, c) \/ BrowserSwitch(d, o, c)
             \/ \E op \in {"LOGOUT", "LOGOUT_ALL"} : SignOut(d, op, c)
      PROVE  Calm'
  <2>1. \A o \in Orgs : ~ StartSwitch(d, o, c) /\ ~ BrowserSwitch(d, o, c)
    BY <1>1 DEF StartSwitch, BrowserSwitch
  <2> QED
    BY <1>5, <2>1, AsksCalm
<1>6. ASSUME NEW d \in Devices, Persist(d) \/ Restart(d) PROVE Calm'
  <2>1. Persist(d)
    BY <1>1, <1>6 DEF Restart
  <2>2. UNCHANGED <<rows, calls, client, flow>>
    BY <2>1 DEF Persist
  <2> QED
    BY <2>2, SameRows, SameCalm
<1>7. ASSUME UNCHANGED vars PROVE Calm'
  <2>1. UNCHANGED <<rows, calls, client, flow>>
    BY <1>7 DEF vars, rows
  <2> QED
    BY <2>1, SameRows, SameCalm
<1> QED
  BY <1>2, <1>3, <1>4, <1>5, <1>6, <1>7 DEF Next

CalmWhenQuiet == Quiet => Calm

LEMMA CalmAlways ==
  Spec => []CalmWhenQuiet
<1>1. Init => CalmWhenQuiet
  BY CalmInit DEF CalmWhenQuiet
<1>2. AuthBase /\ AuthBase' /\ CalmWhenQuiet /\ [Next]_vars => CalmWhenQuiet'
  <2>1. SUFFICES ASSUME AuthBase, AuthBase', CalmWhenQuiet, [Next]_vars, Quiet'
                 PROVE  Calm'
    BY DEF CalmWhenQuiet
  <2>2. SpentTyped /\ SpentTyped'
    BY <2>1 DEF AuthBase
  <2>3. Quiet
    BY <2>1, <2>2, NextSpends, SpendGrows, QuietSpends
  <2> QED
    BY <2>1, <2>2, <2>3, CalmNext DEF CalmWhenQuiet
<1> QED
  BY <1>1, <1>2, BaseAlways, PTL DEF Spec

-----------------------------------------------------------------------------
LEMMA MaxIs ==
  ASSUME NEW S, S \subseteq Nat, NEW m \in S, \A u \in S : u <= m
  PROVE  Max(S) = m
<1>1. \A x \in S : (\A y \in S : x >= y) => x = m
  <2> SUFFICES ASSUME NEW x \in S, \A y \in S : x >= y PROVE x = m
    OBVIOUS
  <2>1. x >= m /\ x <= m /\ x \in Nat /\ m \in Nat
    OBVIOUS
  <2> QED
    BY <2>1
<1>2. \A y \in S : m >= y
  <2> SUFFICES ASSUME NEW y \in S PROVE m >= y
    OBVIOUS
  <2>1. y <= m /\ y \in Nat /\ m \in Nat
    OBVIOUS
  <2> QED
    BY <2>1
<1> QED
  BY <1>1, <1>2 DEF Max

LEMMA ChainsChain ==
  ASSUME AuthBase, NEW s \in Starting
  PROVE  Chained(s)
<1> DEFINE mine == {t \in Tokens : minted[t].session = s}
           Before(t) == {u \in mine : u < t}
<1>1. AuthTyped /\ Chains /\ HoldsYoungest(s) /\ s \in Sessions /\ s # None
  BY TokenTypes DEF AuthBase, Chains, Starting
<1>2. mine \subseteq Nat /\ Tokens \subseteq Nat
  BY TokenTypes
<1>3. sessions[s].token = Max(mine)
  <2>1. PICK m : m = sessions[s].token
    OBVIOUS
  <2>2. m \in mine /\ \A u \in mine : u <= m
    BY <1>1, <2>1 DEF HoldsYoungest
  <2> QED
    BY <1>2, <2>1, <2>2, MaxIs
<1>4. sessions[s].previous = minted[sessions[s].token].parent
  BY <1>1 DEF HoldsYoungest
<1>5. ASSUME NEW t \in mine
      PROVE  minted[t].parent = IF Before(t) = {} THEN None ELSE Max(Before(t))
  <2>1. t \in Tokens /\ minted[t].session = s /\ FollowsOn(t) /\ t \in Nat
    BY <1>1, <1>2 DEF Chains
  <2>2. CASE /\ minted[t].parent = None
             /\ \A u \in Tokens : minted[u].session = minted[t].session => t <= u
    <3>1. ASSUME NEW u \in mine PROVE ~ u < t
      <4>1. t <= u /\ u \in Nat
        BY <1>2, <2>1, <2>2
      <4> QED
        BY <2>1, <4>1
    <3>2. Before(t) = {}
      BY <3>1
    <3> QED
      BY <2>2, <3>2
  <2>3. CASE /\ minted[t].parent \in Tokens /\ minted[t].parent < t
             /\ minted[minted[t].parent].session = minted[t].session
             /\ \A u \in Tokens : minted[u].session = minted[t].session /\ u < t =>
                  u <= minted[t].parent
    <3>1. PICK p : p = minted[t].parent
      OBVIOUS
    <3>2. p \in Before(t) /\ \A u \in Before(t) : u <= p
      BY <2>1, <2>3, <3>1
    <3>3. Before(t) \subseteq Nat
      BY <1>2
    <3> HIDE DEF Before, mine
    <3>4. Max(Before(t)) = p
      BY <3>2, <3>3, MaxIs
    <3> QED
      BY <3>1, <3>2, <3>4
  <2> QED
    BY <2>1, <2>2, <2>3 DEF FollowsOn
<1> QED
  BY <1>3, <1>4, <1>5 DEF Chained

LEMMA NobodySuspected ==
  ASSUME AuthBase, Calm, NEW d \in Devices \ Browsers
  PROVE  ~ Suspected(d)
<1> SUFFICES ASSUME NEW c \in Calls, calls[c].device = d, calls[c].step = "REVOKE"
             PROVE  ~ Active(SessionOf(calls[c].token))
  BY DEF Suspected
<1>1. Of(calls[c], d)
  BY UnderWay DEF Of
<1>2. calls[c].op = "REFRESH"
  BY <1>1 DEF Calm, CallShape, Of
<1> QED
  BY <1>1, <1>2 DEF Calm, PosCalm, RefreshesFit

(***************************************************************************)
(* The tokens of a session are one chain, whoever refreshes or changes     *)
(* organization when: AuthService exchanges a token only in the UPDATE     *)
(* that finds it in the row.  And a POS that shares one refresh among its  *)
(* requests, loses no answer and keeps its organization never has a live   *)
(* session of its own revoked as a reused token.                           *)
(***************************************************************************)
THEOREM TokensAreChained ==
  Spec => []TokensAreExchangedOnce
<1>1. AuthBase /\ CalmWhenQuiet => TokensAreExchangedOnce
  <2>1. SUFFICES ASSUME AuthBase, CalmWhenQuiet PROVE TokensAreExchangedOnce
    OBVIOUS
  <2>2. \A s \in Starting : Chained(s)
    BY <2>1, ChainsChain
  <2>3. Quiet => \A d \in Devices \ Browsers : ~ Suspected(d)
    BY <2>1, NobodySuspected DEF CalmWhenQuiet
  <2> QED
    BY <2>2, <2>3 DEF TokensAreExchangedOnce, Quiet
<1> QED
  BY <1>1, BaseAlways, CalmAlways, PTL

-----------------------------------------------------------------------------
\* What a step does to the row of a session.
LEMMA SessionSteps ==
  ASSUME AuthBase, [Next]_vars, NEW s \in Sessions, ~ Active(s), sessions[s] # NewSession
  PROVE  sessions'[s] = sessions[s]
<1>1. AuthTyped
  BY DEF AuthBase
<1>2. Ends => sessions'[s] = sessions[s]
  BY DEF Ends
<1>3. \A S : sessions' = Revoked(S) => sessions'[s] = sessions[s]
  BY DEF Revoked
<1>4. ASSUME NEW c \in Calls, Serve(c) PROVE sessions'[s] = sessions[s]
  <2>1. ASSUME CreateSession(c) PROVE sessions'[s] = sessions[s]
    <3>1. PICK z \in Sessions :
            /\ sessions[z] = NewSession
            /\ \E row : sessions' = [sessions EXCEPT ![z] = row]
      BY <2>1 DEF CreateSession, Fresh
    <3> QED
      BY <1>1, <3>1 DEF AuthTyped
  <2>2. ASSUME RotateSession(c) PROVE sessions'[s] = sessions[s]
    <3>1. CASE Rotates(c)
      <4>1. PICK row : sessions' = [sessions EXCEPT ![SessionOf(calls[c].token)] = row]
        BY <2>2, <3>1 DEF RotateSession
      <4>2. Active(SessionOf(calls[c].token))
        BY <3>1 DEF Rotates
      <4> QED
        BY <1>1, <4>1, <4>2 DEF AuthTyped
    <3>2. CASE ~ Rotates(c)
      BY <2>2, <3>2 DEF RotateSession
    <3> QED
      BY <3>1, <3>2
  <2>3. ASSUME LoginSupersede(c) PROVE sessions'[s] = sessions[s]
    BY <1>3, <2>3 DEF LoginSupersede
  <2>4. ASSUME Logout(c) PROVE sessions'[s] = sessions[s]
    BY <1>3, <2>4 DEF Logout
  <2>5. ASSUME RevokeDeviceSessions(c) PROVE sessions'[s] = sessions[s]
    BY <1>3, <2>5 DEF RevokeDeviceSessions
  <2>6. ASSUME EnsureAssignment(c) \/ LoadForRefresh(c) \/ LoadForSwitch(c) \/ AdmitSignOut(c)
        PROVE  sessions'[s] = sessions[s]
    BY <2>6 DEF EnsureAssignment, LoadForRefresh, LoadForSwitch, AdmitSignOut, rows
  <2> QED
    BY <1>4, <2>1, <2>2, <2>3, <2>4, <2>5, <2>6 DEF Serve
<1>5. ASSUME NEW c \in Calls, Receive(c) \/ GiveUp(c) PROVE sessions'[s] = sessions[s]
  BY <1>5 DEF Receive, ReceiveGrant, ReceiveRefresh, RetrySignOut, ReceiveSignOut, GiveUp, rows
<1>6. ASSUME \/ \E d \in Devices, o \in Orgs : RevokeAssignment(d, o) \/ RevokeAssignedSessions(d, o)
             \/ \E o \in Orgs : ChangeMembership(o)
             \/ \E z \in Sessions : Lapse(z)
      PROVE  sessions'[s] = sessions[s]
  BY <1>2, <1>6, ManagersBase, LapseBase
<1>7. ASSUME NEW d \in Devices, NEW c \in Calls,
             \/ Rejected(d, c) \/ Expired(d, c) \/ SendRefreshed(d, c)
             \/ \E o \in Orgs : SignIn(d, o, c) \/ StartSwitch(d, o, c) \/ BrowserSwitch(d, o, c)
             \/ \E op \in {"LOGOUT", "LOGOUT_ALL"} : SignOut(d, op, c)
      PROVE  sessions'[s] = sessions[s]
  BY <1>7 DEF Rejected, Expired, Unauthorized, SendRefreshed, SignIn, StartSwitch, BrowserSwitch,
    SignOut, rows
<1>8. ASSUME NEW d \in Devices, Persist(d) \/ Restart(d) PROVE sessions'[s] = sessions[s]
  BY <1>8 DEF Persist, Restart, rows
<1>9. UNCHANGED vars => sessions'[s] = sessions[s]
  BY DEF vars
<1> QED
  BY <1>4, <1>5, <1>6, <1>7, <1>8, <1>9 DEF Next

(***************************************************************************)
(* A revoked session stays revoked, with the tokens and the organization   *)
(* it had: every statement of AuthService that writes a session inserts a  *)
(* new one, has an active one in its WHERE, or, for logout, sets nothing   *)
(* but the status and when and why, the last two of which are not modelled *)
(* and which logout may replace.                                           *)
(***************************************************************************)
THEOREM RevocationIsFinal ==
  Spec => RevokedStaysRevoked
<1>1. AuthBase /\ [Next]_vars =>
        [\A s \in Sessions : sessions[s].status = "REVOKED" => sessions'[s] = sessions[s]]_vars
  <2>1. SUFFICES ASSUME AuthBase, [Next]_vars, NEW s \in Sessions, sessions[s].status = "REVOKED"
                 PROVE  sessions'[s] = sessions[s]
    OBVIOUS
  <2>2. ~ Active(s) /\ sessions[s] # NewSession
    BY <2>1 DEF Active, NewSession
  <2> QED
    BY <2>1, <2>2, SessionSteps
<1> QED
  BY <1>1, BaseAlways, PTL DEF Spec, RevokedStaysRevoked

-----------------------------------------------------------------------------
(***************************************************************************)
(* Members of an organization.                                             *)
(*                                                                         *)
(* As long as one update is made at a time, what it read is what is there, *)
(* and when it takes an owner away it has counted another one.             *)
(***************************************************************************)
MemberRow == [role : Roles \cup {"NONE"}, status : {"NONE", "ACTIVE", "SUSPENDED"}]
UpdateRow == [step : {"READ", "CHECKED"}, user : Users, role : Roles \cup {Unchanged},
              status : {"ACTIVE", "SUSPENDED", Unchanged}, current : MemberRow]
Owner == [role |-> "OWNER", status |-> "ACTIVE"]

RosterTyped ==
  /\ roster \in [Users -> MemberRow]
  /\ updates \in [Requests -> {NoUpdate} \cup UpdateRow]
  /\ raced \in BOOLEAN

OneAtATime ==
  /\ ActiveOwnerRemains
  /\ \A r, q \in Requests : updates[r] # NoUpdate /\ updates[q] # NoUpdate => r = q
  /\ \A r \in Requests : updates[r] # NoUpdate =>
       /\ updates[r].current = roster[updates[r].user] /\ updates[r].current # NoMember
       /\ updates[r].step = "CHECKED" /\ RemovesOwner(updates[r]) =>
            \E v \in ActiveOwners : v # updates[r].user

RosterInv == RosterTyped /\ (raced \/ OneAtATime)

\* The steps, one by one.
LEMMA AddKeeps ==
  ASSUME RosterInv, NEW u \in Users, NEW role \in Roles, AddMember(u, role)
  PROVE  RosterInv'
<1> DEFINE row == [role |-> role, status |-> "ACTIVE"]
<1>1. row \in MemberRow
  BY DEF MemberRow
<1>2. roster' = [roster EXCEPT ![u] = row] /\ updates' = updates
  BY DEF AddMember
<1> HIDE DEF row
<1>3. RosterTyped'
  BY <1>1, <1>2 DEF RosterInv, RosterTyped, AddMember
<1>4. ASSUME ~ raced' PROVE OneAtATime'
  <2>1. ~ raced /\ roster[u] = NoMember
    BY <1>4 DEF AddMember
  <2>2. \A v \in Users : roster'[v] = IF v = u THEN row ELSE roster[v]
    BY <1>2 DEF RosterInv, RosterTyped
  <2>3. ActiveOwners \subseteq ActiveOwners'
    BY <2>1, <2>2 DEF ActiveOwners, NoMember
  <2>4. OneAtATime
    BY <2>1 DEF RosterInv
  <2>5. \A r \in Requests : updates[r] # NoUpdate =>
          updates[r].user \in Users /\ updates[r].user # u
    BY <2>1, <2>4 DEF OneAtATime, RosterInv, RosterTyped, UpdateRow
  <2> QED
    BY <1>2, <2>2, <2>3, <2>4, <2>5 DEF OneAtATime, ActiveOwnerRemains, RemovesOwner
<1> QED
  BY <1>3, <1>4 DEF RosterInv

LEMMA ReadKeeps ==
  ASSUME RosterInv, NEW r \in Requests, NEW u \in Users, NEW role \in Roles \cup {Unchanged},
         NEW status \in {"ACTIVE", "SUSPENDED", Unchanged}, ReadMember(r, u, role, status)
  PROVE  RosterInv'
<1> DEFINE row == [step |-> "READ", user |-> u, role |-> role, status |-> status,
                   current |-> roster[u]]
<1>1. row \in UpdateRow /\ row.step = "READ" /\ row.user = u /\ row.current = roster[u]
  BY DEF RosterInv, RosterTyped, UpdateRow
<1>2. updates' = [updates EXCEPT ![r] = row] /\ roster' = roster /\ roster[u] # NoMember
  BY DEF ReadMember
<1>3. PICK n : n = row
  OBVIOUS
<1> HIDE DEF row
<1>4. RosterTyped'
  BY <1>1, <1>2 DEF RosterInv, RosterTyped, ReadMember
<1>5. ASSUME ~ raced' PROVE OneAtATime'
  <2>1. ~ raced /\ \A q \in Requests : updates[q] = NoUpdate
    BY <1>5 DEF ReadMember
  <2>2. \A q \in Requests : updates'[q] = IF q = r THEN n ELSE NoUpdate
    BY <1>2, <1>3, <2>1 DEF RosterInv, RosterTyped
  <2>3. ActiveOwnerRemains'
    BY <1>2, <2>1 DEF RosterInv, OneAtATime, ActiveOwnerRemains, ActiveOwners
  <2> QED
    BY <1>1, <1>2, <1>3, <2>2, <2>3 DEF OneAtATime
<1> QED
  BY <1>4, <1>5 DEF RosterInv

LEMMA CheckKeeps ==
  ASSUME RosterInv, NEW r \in Requests, CheckOwners(r)
  PROVE  RosterInv'
<1>1. /\ updates[r] \in UpdateRow /\ updates[r] # NoUpdate /\ updates[r].step = "READ"
      /\ roster' = roster /\ raced' = raced
  BY DEF CheckOwners, RosterInv, RosterTyped, NoUpdate
<1>2. PICK n : n = [updates[r] EXCEPT !.step = "CHECKED"]
  OBVIOUS
<1>3. /\ n \in UpdateRow /\ n.user = updates[r].user /\ n.current = updates[r].current
      /\ n.role = updates[r].role /\ n.status = updates[r].status
  BY <1>1, <1>2 DEF UpdateRow
<1>4. CASE RemovesOwner(updates[r]) /\ Cardinality(ActiveOwners) <= 1
  <2>1. updates' = [updates EXCEPT ![r] = NoUpdate]
    BY <1>4 DEF CheckOwners
  <2>2. \A q \in Requests : updates'[q] = IF q = r THEN NoUpdate ELSE updates[q]
    BY <2>1 DEF RosterInv, RosterTyped
  <2>3. RosterTyped'
    BY <1>1, <2>1 DEF RosterInv, RosterTyped
  <2>4. ASSUME ~ raced PROVE OneAtATime'
    BY <1>1, <2>2, <2>4 DEF RosterInv, OneAtATime, ActiveOwnerRemains, ActiveOwners, RemovesOwner
  <2> QED
    BY <1>1, <2>3, <2>4 DEF RosterInv
<1>5. CASE ~ (RemovesOwner(updates[r]) /\ Cardinality(ActiveOwners) <= 1)
  <2>1. updates' = [updates EXCEPT ![r] = n]
    BY <1>2, <1>5 DEF CheckOwners
  <2>2. \A q \in Requests : updates'[q] = IF q = r THEN n ELSE updates[q]
    BY <2>1 DEF RosterInv, RosterTyped
  <2>3. RosterTyped'
    BY <1>1, <1>3, <2>1 DEF RosterInv, RosterTyped
  <2>4. RemovesOwner(n) => \E v \in ActiveOwners : v # n.user
    <3> SUFFICES ASSUME RemovesOwner(n), \A v \in ActiveOwners : v = n.user PROVE FALSE
      OBVIOUS
    <3>1. ~ (Cardinality(ActiveOwners) <= 1)
      BY <1>3, <1>5 DEF RemovesOwner
    <3>2. ActiveOwners \subseteq {n.user}
      OBVIOUS
    <3>3. /\ IsFiniteSet({n.user}) /\ Cardinality({n.user}) = 1
      BY FS_Singleton
    <3>4. IsFiniteSet(ActiveOwners) /\ Cardinality(ActiveOwners) <= 1
      BY <3>2, <3>3, FS_Subset
    <3> QED
      BY <3>1, <3>4
  <2>5. ASSUME ~ raced PROVE OneAtATime'
    <3>1. OneAtATime
      BY <2>5 DEF RosterInv
    <3>2. ActiveOwners' = ActiveOwners
      BY <1>1 DEF ActiveOwners
    <3> QED
      BY <1>1, <1>3, <2>2, <2>4, <3>1, <3>2 DEF OneAtATime, ActiveOwnerRemains, RemovesOwner
  <2> QED
    BY <1>1, <2>3, <2>5 DEF RosterInv
<1> QED
  BY <1>4, <1>5

LEMMA WriteKeeps ==
  ASSUME RosterInv, NEW r \in Requests, WriteMember(r)
  PROVE  RosterInv'
<1>1. /\ updates[r] \in UpdateRow /\ updates[r] # NoUpdate /\ updates[r].step = "CHECKED"
      /\ raced' = raced
  BY DEF WriteMember, RosterInv, RosterTyped, NoUpdate
<1>2. PICK x : x = updates[r]
  OBVIOUS
<1>3. PICK n : n = [role |-> OrCurrent(x.role, x.current.role),
                    status |-> OrCurrent(x.status, x.current.status)]
  OBVIOUS
<1>4. /\ x.user \in Users /\ x.current \in MemberRow /\ x.role \in Roles \cup {Unchanged}
      /\ x.status \in {"ACTIVE", "SUSPENDED", Unchanged}
  BY <1>1, <1>2 DEF UpdateRow
<1>5. n \in MemberRow
  BY <1>3, <1>4 DEF MemberRow, OrCurrent
<1>6. roster' = [roster EXCEPT ![x.user] = n] /\ updates' = [updates EXCEPT ![r] = NoUpdate]
  BY <1>2, <1>3 DEF WriteMember
<1>7. RosterTyped'
  BY <1>1, <1>4, <1>5, <1>6 DEF RosterInv, RosterTyped
<1>8. \A v \in Users : roster'[v] = IF v = x.user THEN n ELSE roster[v]
  BY <1>4, <1>6 DEF RosterInv, RosterTyped
<1>9. \A q \in Requests : updates'[q] = IF q = r THEN NoUpdate ELSE updates[q]
  BY <1>6 DEF RosterInv, RosterTyped
<1>10. ASSUME ~ raced PROVE OneAtATime'
  <2>1. OneAtATime
    BY <1>10 DEF RosterInv
  <2>2. x.current = roster[x.user] /\ (RemovesOwner(x) => \E v \in ActiveOwners : v # x.user)
    BY <1>1, <1>2, <2>1 DEF OneAtATime
  <2>3. ~ RemovesOwner(x) /\ roster[x.user] = Owner => n = Owner
    <3> SUFFICES ASSUME ~ RemovesOwner(x), roster[x.user] = Owner PROVE n = Owner
      OBVIOUS
    <3>1. x.role \in {Unchanged, "OWNER"} /\ x.status # "SUSPENDED"
      BY <2>2 DEF RemovesOwner, Owner
    <3>2. x.current.role = "OWNER" /\ x.current.status = "ACTIVE"
      BY <2>2 DEF Owner
    <3> QED
      BY <1>3, <1>4, <3>1, <3>2 DEF OrCurrent, Owner
  <2>4. PICK w \in ActiveOwners : RemovesOwner(x) => w # x.user
    BY <2>1, <2>2 DEF OneAtATime, ActiveOwnerRemains
  <2>5. w \in ActiveOwners'
    BY <1>8, <2>3, <2>4 DEF ActiveOwners, Owner
  <2>6. \A q \in Requests : updates'[q] = NoUpdate
    BY <1>1, <1>9, <2>1 DEF OneAtATime
  <2> QED
    BY <2>5, <2>6 DEF OneAtATime, ActiveOwnerRemains
<1> QED
  BY <1>1, <1>7, <1>10 DEF RosterInv

LEMMA RosterStays == RosterInv /\ [MembersNext]_membersVars => RosterInv'
<1> SUFFICES ASSUME RosterInv, [MembersNext]_membersVars PROVE RosterInv'
  OBVIOUS
<1>1. CASE MembersNext
  BY <1>1, AddKeeps, ReadKeeps, CheckKeeps, WriteKeeps DEF MembersNext
<1>2. CASE UNCHANGED membersVars
  <2>1. RosterTyped' /\ raced' = raced
    BY <1>2 DEF membersVars, RosterInv, RosterTyped
  <2>2. OneAtATime => OneAtATime'
    BY <1>2 DEF membersVars, OneAtATime, ActiveOwnerRemains, ActiveOwners, RemovesOwner
  <2> QED
    BY <2>1, <2>2 DEF RosterInv
<1> QED
  BY <1>1, <1>2

LEMMA RosterStarts == MembersInit => RosterInv
<1> SUFFICES ASSUME MembersInit PROVE RosterInv
  OBVIOUS
<1>1. PICK u \in Users : roster = [v \in Users |-> IF v = u THEN Owner ELSE NoMember]
  BY DEF MembersInit, Owner
<1>2. Owner \in MemberRow /\ NoMember \in MemberRow
  BY DEF Owner, NoMember, MemberRow, Roles
<1>3. RosterTyped
  BY <1>1, <1>2 DEF MembersInit, RosterTyped
<1>4. u \in ActiveOwners
  BY <1>1 DEF ActiveOwners, Owner
<1>5. \A r \in Requests : updates[r] = NoUpdate
  BY DEF MembersInit
<1> QED
  BY <1>3, <1>4, <1>5 DEF RosterInv, OneAtATime, ActiveOwnerRemains

\* The organization keeps an active owner, and a suspension ends only when somebody
\* asks for it, unless updates were under way together (OrganizationsService).
THEOREM OwnersRemain == MembersSpec => OwnerRemains
<1> DEFINE Asked ==
      \A u \in Users :
        roster[u].status = "SUSPENDED" /\ roster'[u].status = "ACTIVE" =>
          \/ raced'
          \/ \E r \in Requests :
               /\ updates[r].step = "CHECKED" /\ updates'[r] = NoUpdate
               /\ updates[r].user = u /\ updates[r].status = "ACTIVE"
<1>1. MembersInit => RosterInv
  BY RosterStarts
<1>2. RosterInv /\ [MembersNext]_membersVars => RosterInv'
  BY RosterStays
<1>3. RosterInv => (raced \/ ActiveOwnerRemains)
  BY DEF RosterInv, OneAtATime
<1>4. ASSUME RosterInv, [MembersNext]_membersVars PROVE Asked
  <2> SUFFICES ASSUME NEW u \in Users, roster[u].status = "SUSPENDED",
                      roster'[u].status = "ACTIVE", ~ raced'
               PROVE  \E r \in Requests :
                        /\ updates[r].step = "CHECKED" /\ updates'[r] = NoUpdate
                        /\ updates[r].user = u /\ updates[r].status = "ACTIVE"
    OBVIOUS
  <2>1. ASSUME NEW v \in Users, NEW role \in Roles, AddMember(v, role) PROVE FALSE
    <3>1. v = u
      BY <2>1 DEF AddMember
    <3>2. roster[v] # NoMember
      BY <3>1 DEF NoMember
    <3>3. raced' = (raced \/ roster[v] # NoMember)
      BY <2>1 DEF AddMember
    <3> QED
      BY <3>2, <3>3, Zenon
  <2>2. PICK r \in Requests : WriteMember(r)
    <3>1. CASE UNCHANGED membersVars
      BY <3>1 DEF membersVars
    <3>2. \A r \in Requests : ~ CheckOwners(r)
      BY DEF CheckOwners
    <3>3. \A r \in Requests, v \in Users, role \in Roles \cup {Unchanged},
             status \in {"ACTIVE", "SUSPENDED", Unchanged} : ~ ReadMember(r, v, role, status)
      BY DEF ReadMember
    <3> QED
      BY <1>4, <2>1, <3>1, <3>2, <3>3 DEF MembersNext
  <2>3. PICK x : x = updates[r]
    OBVIOUS
  <2>4. /\ x \in UpdateRow /\ x # NoUpdate /\ x.step = "CHECKED" /\ raced' = raced
        /\ updates'[r] = NoUpdate
        /\ roster' = [roster EXCEPT ![x.user] =
                        [role |-> OrCurrent(x.role, x.current.role),
                         status |-> OrCurrent(x.status, x.current.status)]]
    BY <1>4, <2>2, <2>3 DEF WriteMember, RosterInv, RosterTyped, NoUpdate
  <2>5. x.current = roster[x.user]
    BY <1>4, <2>3, <2>4 DEF RosterInv, OneAtATime
  <2>6. x.user = u
    BY <2>4
  <2>7. OrCurrent(x.status, x.current.status) = "ACTIVE"
    BY <1>4, <2>4, <2>6 DEF RosterInv, RosterTyped
  <2>8. x.status = "ACTIVE"
    BY <2>5, <2>6, <2>7 DEF OrCurrent
  <2> QED
    BY <2>3, <2>4, <2>6, <2>8
<1>5. RosterInv /\ [MembersNext]_membersVars => Asked
  BY <1>4
<1> QED
  BY <1>1, <1>2, <1>3, <1>5, PTL DEF MembersSpec, OwnerRemains

-----------------------------------------------------------------------------
(***************************************************************************)
(* The setup of a tenant.                                                  *)
(*                                                                         *)
(* Where no two requests on a location overlap, one that stops it has the  *)
(* location for itself: nothing is admitted there, and once it has looked, *)
(* nothing runs; a check-in asks for no admission, and its parties are set *)
(* apart.  The provider never takes back what it can issue, so that what a *)
(* verified profile was checked for still holds when it is written.        *)
(***************************************************************************)
AreaRow == {NoArea} \cup [loc : Locations, status : {"ACTIVE", "INACTIVE"}]
TableRow == {NoTable} \cup [loc : Locations, area : Areas, status : {"ACTIVE", "INACTIVE"}]
LocationRow == [merchant : Merchants \cup {"NONE"}, status : {"NONE", "ACTIVE", "INACTIVE"},
                lifecycle : {"NONE", "ACTIVE", "INACTIVE", "ARCHIVED"}, window : Windows,
                archivedAt : BOOLEAN]
LifecycleOps == {"UPDATE", "ACTIVE", "INACTIVE", "ARCHIVED"}
LifecycleRequest == [op : LifecycleOps, loc : Locations, window : Windows,
                     step : {"READ", "CHECKED"}]
RequestRow == [step : {"IDLE", "DONE"}] \cup LifecycleRequest
Listings == [Locations -> {"NONE", "ACTIVE", "INACTIVE", "ARCHIVED"}]
RemoteRow == [configured : BOOLEAN, receipts : BOOLEAN, credentials : BOOLEAN]
SavedRow == [provider : {"OPENAPI", "OTHER"}, environment : Environments, vat : Merchants,
             enabled : BOOLEAN]
ProfileRow == {NoProfile} \cup SavedRow
SetupRow == {NoSetup} \cup
  [step : {"LOCATION", "EXISTING", "LOOKED_UP", "PUSHED", "VERIFIED"}, loc : Locations,
   before : RemoteRow, saved : SavedRow]
EditorRow == [loc : Locations \cup {"NONE"}, area : Areas \cup {"NONE"}, areas : SUBSET Areas,
              tables : SUBSET (Tables \X (Areas \cup {"NONE"})), pending : BOOLEAN]

TenancyTyped ==
  /\ location \in [Locations -> LocationRow]
  /\ page \in [Administrators -> [listed : Listings, request : RequestRow]]

SetupTyped ==
  /\ area \in [Areas -> AreaRow] /\ table \in [Tables -> TableRow]
  /\ editor \in [Administrators -> EditorRow]
  /\ profile \in [Locations -> ProfileRow]
  /\ remote \in [Environments -> [Merchants -> RemoteRow]]
  /\ setup \in [Administrators -> SetupRow]

\* What a request under way on a location that nobody contests may rely on.
HasForItself(a, l) ==
  /\ \A b \in Administrators : RequestOn(b, l) => b = a
  /\ \A x \in Activities : <<l, x>> \notin admitted
  /\ ~location[l].archivedAt
  /\ page[a].request.step = "CHECKED" /\ page[a].request.op \in {"INACTIVE", "ARCHIVED"} =>
       NothingRuns(l)

RequestsAreSound ==
  \A a \in Administrators :
    /\ page[a].request.step \in {"READ", "CHECKED"} => ValidWindow(page[a].request.window)
    /\ \A l \in Locations \ contested : RequestOn(a, l) => HasForItself(a, l)

AdmittedAreOpen ==
  \A l \in Locations \ contested, x \in Activities :
    <<l, x>> \in admitted => location[l].status = "ACTIVE"

TenancyInv ==
  /\ TenancyTyped /\ LifecyclesAgree /\ WindowsAreValid /\ ArchivedForGood /\ StoppedIsEmpty
  /\ RequestsAreSound /\ AdmittedAreOpen

IssuesReceipts(p) == p.provider = "OPENAPI" /\ p.environment = "PRODUCTION" /\ p.enabled
CredentialsAreOfConfigurations ==
  \A e \in Environments, v \in Merchants : remote[e][v].credentials => remote[e][v].configured
VerifiedIsReady ==
  \A a \in Administrators :
    setup[a].step = "VERIFIED" /\ IssuesReceipts(setup[a].saved) =>
      ReadyForReceipts(remote["PRODUCTION"][setup[a].saved.vat])

SetupInv ==
  /\ SetupTyped /\ TablesAreInTheirArea /\ ProductionIsVerified
  /\ CredentialsAreOfConfigurations /\ VerifiedIsReady

LEMMA TenancyStarts == TenancyInit => TenancyInv
<1> SUFFICES ASSUME TenancyInit
             PROVE  TenancyInv
  OBVIOUS
<1>1. /\ location = [l \in Locations |-> NoLocation] /\ admitted = {} /\ running = {}
      /\ page = [a \in Administrators |->
                   [listed |-> [l \in Locations |-> "NONE"], request |-> NoRequest]]
  BY DEF TenancyInit
<1>2. NoLocation \in LocationRow
  BY DEF NoLocation, LocationRow, NoWindow, Windows, NoDate
<1>3. [listed |-> [l \in Locations |-> "NONE"], request |-> NoRequest] \in
        [listed : Listings, request : RequestRow]
  BY DEF Listings, RequestRow, NoRequest
<1>4. TenancyTyped
  BY <1>1, <1>2, <1>3 DEF TenancyTyped
<1>5. /\ LifecyclesAgree /\ ArchivedForGood /\ StoppedIsEmpty
  BY <1>1 DEF LifecyclesAgree, Existing, ArchivedForGood, StoppedIsEmpty, NothingRuns, NoLocation
<1>6. WindowsAreValid
  BY <1>1 DEF WindowsAreValid, ValidWindow, NoLocation, NoWindow, NoDate
<1>7. RequestsAreSound /\ AdmittedAreOpen
  BY <1>1 DEF RequestsAreSound, AdmittedAreOpen, RequestOn, NoRequest
<1> QED
  BY <1>4, <1>5, <1>6, <1>7 DEF TenancyInv

(* A step that only ends requests, and starts nothing, disturbs no other. *)
LEMMA RequestsKeep ==
  ASSUME RequestsAreSound,
         \A a \in Administrators : page'[a].request \in {page[a].request}
           \cup [step : {"IDLE", "DONE"}],
         contested \subseteq contested', admitted' \subseteq admitted, running' \subseteq running,
         \A l \in Locations : location'[l].archivedAt => location[l].archivedAt
  PROVE  RequestsAreSound'
<1> SUFFICES ASSUME NEW a \in Administrators
             PROVE  /\ page'[a].request.step \in {"READ", "CHECKED"} =>
                         ValidWindow(page'[a].request.window)
                    /\ \A l \in Locations \ contested' : RequestOn(a, l)' => HasForItself(a, l)'
  BY DEF RequestsAreSound, ValidWindow
<1>1. \A b \in Administrators : page'[b].request.step \in {"READ", "CHECKED"} =>
        page'[b].request = page[b].request
  OBVIOUS
<1>2. \A b \in Administrators, l \in Locations : RequestOn(b, l)' => RequestOn(b, l)
  BY <1>1 DEF RequestOn
<1>3. page'[a].request.step \in {"READ", "CHECKED"} => ValidWindow(page'[a].request.window)
  BY <1>1 DEF RequestsAreSound
<1>4. ASSUME NEW l \in Locations \ contested', RequestOn(a, l)'
      PROVE  HasForItself(a, l)'
  <2>1. /\ l \notin contested /\ RequestOn(a, l) /\ page'[a].request = page[a].request
    BY <1>1, <1>2, <1>4 DEF RequestOn
  <2>2. HasForItself(a, l)
    BY <2>1 DEF RequestsAreSound
  <2>3. \A b \in Administrators : RequestOn(b, l)' => b = a
    BY <1>2, <2>2 DEF HasForItself
  <2>4. NothingRuns(l) => NothingRuns(l)'
    BY DEF NothingRuns
  <2> QED
    BY <2>1, <2>2, <2>3, <2>4 DEF HasForItself
<1> QED
  BY <1>3, <1>4

LEMMA AnswerIs ==
  ASSUME NEW a \in Administrators, NEW s \in {"IDLE", "DONE"}, TenancyTyped, Answer(a, s)
  PROVE  /\ page' \in [Administrators -> [listed : Listings, request : RequestRow]]
         /\ \A b \in Administrators :
              page'[b].request \in {page[b].request} \cup [step : {"IDLE", "DONE"}]
<1>1. [step |-> s] \in [step : {"IDLE", "DONE"}]
  OBVIOUS
<1>2. \A b \in Administrators : page[b] \in [listed : Listings, request : RequestRow]
  BY DEF TenancyTyped
<1>3. \A r \in [listed : Listings, request : RequestRow] :
        /\ [r EXCEPT !.request = [step |-> s]] \in [listed : Listings, request : RequestRow]
        /\ [r EXCEPT !.request = [step |-> s]].request = [step |-> s]
  BY <1>1 DEF RequestRow
<1>4. page' = [page EXCEPT ![a] = [@ EXCEPT !.request = [step |-> s]]]
  BY DEF Answer
<1> QED
  BY <1>1, <1>2, <1>3, <1>4 DEF TenancyTyped

(* A location that is created is new, and open. *)
LEMMA CreationKeeps ==
  ASSUME TenancyInv, NEW l \in Locations \ Existing, NEW m \in Merchants,
         NEW lifecycle \in {"NONE", "ACTIVE"}, NEW w \in Windows, ValidWindow(w),
         location' = [location EXCEPT ![l] = NewLocation(m, lifecycle, w)],
         UNCHANGED <<activityVars, contested>>,
         page' \in [Administrators -> [listed : Listings, request : RequestRow]],
         \A a \in Administrators : page'[a].request \in {page[a].request}
           \cup [step : {"IDLE", "DONE"}]
  PROVE  TenancyInv'
<1>1. NewLocation(m, lifecycle, w) \in LocationRow
  BY DEF NewLocation, LocationRow
<1>2. TenancyTyped'
  BY <1>1 DEF TenancyInv, TenancyTyped
<1>3. \A k \in Locations : k # l => location'[k] = location[k]
  BY DEF TenancyInv, TenancyTyped
<1>4. /\ location'[l].status = "ACTIVE" /\ location'[l].lifecycle = lifecycle
      /\ location'[l].window = w /\ ~location'[l].archivedAt
  BY DEF TenancyInv, TenancyTyped, NewLocation
<1>5. /\ LifecyclesAgree' /\ ArchivedForGood' /\ StoppedIsEmpty' /\ AdmittedAreOpen'
  BY <1>3, <1>4 DEF TenancyInv, LifecyclesAgree, Existing, ArchivedForGood, StoppedIsEmpty,
     AdmittedAreOpen, NothingRuns, activityVars
<1>6. WindowsAreValid'
  BY <1>3, <1>4 DEF TenancyInv, WindowsAreValid, ValidWindow
<1>7. RequestsAreSound'
  BY <1>3, <1>4, RequestsKeep DEF TenancyInv, activityVars
<1> QED
  BY <1>2, <1>5, <1>6, <1>7 DEF TenancyInv

LEMMA NoWindowIs == NoWindow \in Windows /\ ValidWindow(NoWindow)
  BY DEF NoWindow, Windows, ValidWindow, NoDate

LEMMA PageAsItWas ==
  ASSUME TenancyInv, UNCHANGED page
  PROVE  /\ page' \in [Administrators -> [listed : Listings, request : RequestRow]]
         /\ \A a \in Administrators : page'[a].request \in {page[a].request}
              \cup [step : {"IDLE", "DONE"}]
  BY DEF TenancyInv, TenancyTyped

LEMMA OnboardKeeps ==
  ASSUME TenancyInv, NEW l \in Locations, NEW m \in Merchants, NEW plan \in Plans,
         OnboardTenant(l, m, plan)
  PROVE  TenancyInv'
  BY NoWindowIs, PageAsItWas, CreationKeeps DEF OnboardTenant, pageVars

LEMMA PlatformCreateKeeps ==
  ASSUME TenancyInv, NEW a \in Administrators, NEW l \in Locations, NEW m \in Merchants,
         NEW w \in Windows, PlatformCreate(a, l, m, w)
  PROVE  TenancyInv'
<1>1. Answer(a, "DONE") /\ TenancyTyped
  BY DEF PlatformCreate, TenancyInv
<1> QED
  BY <1>1, AnswerIs, CreationKeeps DEF PlatformCreate

(* Only what a step may change of a tenant matters. *)
LEMMA StillSound == TenancyInv /\ UNCHANGED <<tenantVars, pageVars, activityVars>> => TenancyInv'
  BY DEF TenancyInv, TenancyTyped, LifecyclesAgree, Existing, WindowsAreValid, ValidWindow,
     ArchivedForGood, StoppedIsEmpty, NothingRuns, RequestsAreSound, RequestOn, HasForItself,
     AdmittedAreOpen, tenantVars, pageVars, activityVars

LEMMA TenantStepKeeps ==
  ASSUME TenancyInv, TenantStep
  PROVE  TenancyInv'
<1>1. CASE UNCHANGED <<location, pageVars, activityVars>>
  BY <1>1 DEF TenancyInv, TenancyTyped, LifecyclesAgree, Existing, WindowsAreValid, ValidWindow,
     ArchivedForGood, StoppedIsEmpty, NothingRuns, RequestsAreSound, RequestOn, HasForItself,
     AdmittedAreOpen, pageVars, activityVars
<1>2. ASSUME NEW l \in Locations, NEW m \in Merchants, CreateLocation(l, m)
      PROVE  TenancyInv'
  BY <1>2, NoWindowIs, PageAsItWas, CreationKeeps DEF CreateLocation, pageVars
<1>3. ASSUME NEW l \in Locations, NEW m \in Merchants, UpdateLocation(l, m)
      PROVE  TenancyInv'
  <2>1. /\ location' = [location EXCEPT ![l] = [@ EXCEPT !.merchant = m]]
        /\ UNCHANGED <<pageVars, activityVars>>
    BY <1>3 DEF UpdateLocation
  <2>2. \A r \in LocationRow :
          /\ [r EXCEPT !.merchant = m] \in LocationRow
          /\ [r EXCEPT !.merchant = m].status = r.status
          /\ [r EXCEPT !.merchant = m].lifecycle = r.lifecycle
          /\ [r EXCEPT !.merchant = m].window = r.window
          /\ [r EXCEPT !.merchant = m].archivedAt = r.archivedAt
    BY DEF LocationRow
  <2>3. \A k \in Locations :
          /\ location'[k] \in LocationRow
          /\ location'[k].status = location[k].status
          /\ location'[k].lifecycle = location[k].lifecycle
          /\ location'[k].window = location[k].window
          /\ location'[k].archivedAt = location[k].archivedAt
    BY <2>1, <2>2 DEF TenancyInv, TenancyTyped
  <2>4. TenancyTyped'
    BY <2>1, <2>3 DEF TenancyInv, TenancyTyped, pageVars
  <2>5. /\ LifecyclesAgree' /\ ArchivedForGood' /\ StoppedIsEmpty' /\ AdmittedAreOpen'
    BY <2>1, <2>3 DEF TenancyInv, LifecyclesAgree, Existing, ArchivedForGood, StoppedIsEmpty,
       AdmittedAreOpen, NothingRuns, pageVars, activityVars
  <2>6. WindowsAreValid'
    BY <2>3 DEF TenancyInv, WindowsAreValid, ValidWindow
  <2>7. RequestsAreSound'
    BY <2>1, <2>3, RequestsKeep DEF TenancyInv, pageVars, activityVars
  <2> QED
    BY <2>4, <2>5, <2>6, <2>7 DEF TenancyInv
<1> QED
  BY <1>1, <1>2, <1>3 DEF TenantStep, ProvisionOrganization, SetSubscription, CreateMerchant,
     UpdateMerchant

LEMMA RefreshKeeps ==
  ASSUME TenancyInv, NEW a \in Administrators, Refresh(a)
  PROVE  TenancyInv'
<1>1. /\ UNCHANGED <<tenantVars, activityVars, contested>>
      /\ page' = [page EXCEPT ![a] =
           [listed |-> [l \in Locations |-> location[l].lifecycle], request |-> NoRequest]]
  BY DEF Refresh
<1>2. [l \in Locations |-> location[l].lifecycle] \in Listings
  BY DEF TenancyInv, TenancyTyped, LocationRow, Listings
<1>3. /\ page' \in [Administrators -> [listed : Listings, request : RequestRow]]
      /\ \A b \in Administrators :
           page'[b].request \in {page[b].request} \cup [step : {"IDLE", "DONE"}]
  BY <1>1, <1>2 DEF TenancyInv, TenancyTyped, RequestRow, NoRequest
<1>4. RequestsAreSound'
  BY <1>1, <1>3, RequestsKeep DEF TenancyInv, tenantVars, activityVars
<1> QED
  BY <1>1, <1>3, <1>4 DEF TenancyInv, TenancyTyped, LifecyclesAgree, Existing, WindowsAreValid,
     ValidWindow, ArchivedForGood, StoppedIsEmpty, NothingRuns, AdmittedAreOpen, tenantVars,
     activityVars

LEMMA GiveUpRequestKeeps ==
  ASSUME TenancyInv, NEW a \in Administrators, GiveUpRequest(a)
  PROVE  TenancyInv'
<1>1. /\ UNCHANGED <<tenantVars, activityVars, contested>> /\ Answer(a, "IDLE") /\ TenancyTyped
  BY DEF GiveUpRequest, TenancyInv
<1>2. RequestsAreSound'
  BY <1>1, AnswerIs, RequestsKeep DEF TenancyInv, tenantVars, activityVars
<1> QED
  BY <1>1, <1>2, AnswerIs DEF TenancyInv, TenancyTyped, LifecyclesAgree, Existing,
     WindowsAreValid, ValidWindow, ArchivedForGood, StoppedIsEmpty, NothingRuns, AdmittedAreOpen,
     tenantVars, activityVars

LEMMA GetKeeps ==
  ASSUME TenancyInv, NEW a \in Administrators, NEW l \in Locations, NEW op \in LifecycleOps,
         NEW w \in Windows, Get(a, l, op, w)
  PROVE  TenancyInv'
<1> DEFINE step == IF op \in {"INACTIVE", "ARCHIVED"} THEN "READ" ELSE "CHECKED"
           r == [op |-> op, loc |-> l, window |-> w, step |-> step]
<1>1. /\ UNCHANGED <<tenantVars, activityVars>> /\ contested \subseteq contested'
      /\ page' = [page EXCEPT ![a] = [@ EXCEPT !.request = r]]
      /\ ValidWindow(w) /\ location[l].lifecycle # "ARCHIVED" /\ page[a].request = NoRequest
  BY DEF Get
<1>2. r \in LifecycleRequest
  BY DEF LifecycleRequest
<1>3. \A p \in [listed : Listings, request : RequestRow] :
        /\ [p EXCEPT !.request = r] \in [listed : Listings, request : RequestRow]
        /\ [p EXCEPT !.request = r].request = r
  BY <1>2 DEF RequestRow
<1>4. /\ page' \in [Administrators -> [listed : Listings, request : RequestRow]]
      /\ page'[a].request = r /\ \A b \in Administrators : b # a => page'[b] = page[b]
  BY <1>1, <1>3 DEF TenancyInv, TenancyTyped
<1>5. \A b \in Administrators, k \in Locations :
        RequestOn(b, k)' => (RequestOn(b, k) \/ (b = a /\ k = l /\ op # "UPDATE"))
  BY <1>4 DEF RequestOn
<1>6. \A k \in Locations : NothingRuns(k)' <=> NothingRuns(k)
  BY <1>1 DEF NothingRuns, activityVars
<1>7. ASSUME NEW b \in Administrators
      PROVE  page'[b].request.step \in {"READ", "CHECKED"} =>
               ValidWindow(page'[b].request.window)
  BY <1>1, <1>4 DEF TenancyInv, RequestsAreSound
<1>8. ASSUME NEW b \in Administrators, NEW k \in Locations \ contested', RequestOn(b, k)'
      PROVE  HasForItself(b, k)'
  <2>1. CASE b = a
    <3>1. k = l /\ op # "UPDATE"
      BY <1>4, <1>8, <2>1 DEF RequestOn
    <3>2. /\ \A c \in Administrators : ~RequestOn(c, l)
          /\ \A x \in Activities : <<l, x>> \notin admitted
      BY <1>8, <3>1 DEF Get
    <3>3. ~location[l].archivedAt
      BY <1>1, <1>8, <3>1 DEF TenancyInv, ArchivedForGood
    <3>4. ~(page'[a].request.step = "CHECKED" /\ page'[a].request.op \in {"INACTIVE", "ARCHIVED"})
      BY <1>4
    <3> QED
      BY <1>1, <1>5, <2>1, <3>1, <3>2, <3>3, <3>4 DEF HasForItself, activityVars, tenantVars
  <2>2. CASE b # a
    <3>1. RequestOn(b, k) /\ page'[b] = page[b] /\ k \notin contested
      BY <1>1, <1>4, <1>5, <1>8, <2>2
    <3>2. k # l \/ op = "UPDATE"
      BY <1>8, <3>1 DEF Get
    <3>3. HasForItself(b, k)
      BY <1>8, <3>1 DEF TenancyInv, RequestsAreSound
    <3> QED
      BY <1>1, <1>5, <1>6, <3>1, <3>2, <3>3 DEF HasForItself, activityVars, tenantVars
  <2> QED
    BY <2>1, <2>2
<1>9. RequestsAreSound'
  BY <1>7, <1>8 DEF RequestsAreSound, ValidWindow
<1> QED
  BY <1>1, <1>4, <1>9 DEF TenancyInv, TenancyTyped, LifecyclesAgree, Existing, WindowsAreValid,
     ValidWindow, ArchivedForGood, StoppedIsEmpty, NothingRuns, AdmittedAreOpen, tenantVars,
     activityVars

LEMMA AssertCanStopKeeps ==
  ASSUME TenancyInv, NEW a \in Administrators, AssertCanStop(a)
  PROVE  TenancyInv'
<1>1. /\ UNCHANGED <<tenantVars, activityVars, contested>> /\ page[a].request.step = "READ"
      /\ \/ page' = [page EXCEPT ![a].request.step = "CHECKED"] /\ NothingRuns(page[a].request.loc)
         \/ Answer(a, "IDLE")
      /\ TenancyTyped
  BY DEF AssertCanStop, CanStop, TenancyInv
<1>40. CASE Answer(a, "IDLE")
  <2>1. RequestsAreSound'
    BY <1>1, <1>40, AnswerIs, RequestsKeep DEF TenancyInv, tenantVars, activityVars
  <2> QED
    BY <1>1, <2>1, <1>40, AnswerIs DEF TenancyInv, TenancyTyped, LifecyclesAgree, Existing,
       WindowsAreValid, ValidWindow, ArchivedForGood, StoppedIsEmpty, NothingRuns, AdmittedAreOpen,
       tenantVars, activityVars
<1>41. CASE page' = [page EXCEPT ![a].request.step = "CHECKED"] /\ NothingRuns(page[a].request.loc)
  <2>1. PICK r : r = page[a].request
    OBVIOUS
  <2>2. r \in LifecycleRequest
    BY <1>1, <2>1 DEF TenancyInv, TenancyTyped, RequestRow
  <2>3. [r EXCEPT !.step = "CHECKED"] \in LifecycleRequest
    BY <2>2 DEF LifecycleRequest
  <2>4. PICK q : q = [r EXCEPT !.step = "CHECKED"]
    OBVIOUS
  <2>5. /\ q \in LifecycleRequest /\ q.op = r.op /\ q.loc = r.loc /\ q.window = r.window
        /\ q.step = "CHECKED"
    BY <2>2, <2>3, <2>4 DEF LifecycleRequest
  <2>6. \A p \in [listed : Listings, request : RequestRow] :
          /\ [p EXCEPT !.request = q] \in [listed : Listings, request : RequestRow]
          /\ [p EXCEPT !.request = q].request = q
    BY <2>5 DEF RequestRow
  <2>7. page' = [page EXCEPT ![a] = [@ EXCEPT !.request = q]]
    BY <1>41, <2>1, <2>4
  <2>8. /\ page' \in [Administrators -> [listed : Listings, request : RequestRow]]
        /\ page'[a].request = q /\ \A b \in Administrators : b # a => page'[b] = page[b]
    BY <2>6, <2>7 DEF TenancyInv, TenancyTyped
  <2>9. \A b \in Administrators, k \in Locations : RequestOn(b, k)' => RequestOn(b, k)
    BY <1>1, <2>1, <2>5, <2>8 DEF RequestOn
  <2>10. \A k \in Locations : NothingRuns(k)' <=> NothingRuns(k)
    BY <1>1 DEF NothingRuns, activityVars
  <2>11. ASSUME NEW b \in Administrators, page'[b].request.step \in {"READ", "CHECKED"}
         PROVE  ValidWindow(page'[b].request.window)
    <3>1. CASE b # a
      BY <2>8, <2>11, <3>1 DEF TenancyInv, RequestsAreSound
    <3>2. CASE b = a
      BY <1>1, <2>1, <2>5, <2>8, <3>2 DEF TenancyInv, RequestsAreSound
    <3> QED
      BY <3>1, <3>2
  <2>12. ASSUME NEW b \in Administrators, NEW k \in Locations \ contested', RequestOn(b, k)'
         PROVE  HasForItself(b, k)'
    <3>1. RequestOn(b, k) /\ k \notin contested
      BY <1>1, <2>9, <2>12
    <3>2. HasForItself(b, k)
      BY <2>12, <3>1 DEF TenancyInv, RequestsAreSound
    <3>3. page'[b].request.step = "CHECKED" /\ page'[b].request.op \in {"INACTIVE", "ARCHIVED"} =>
            NothingRuns(k)
      <4>1. CASE b = a
        BY <1>1, <1>41, <2>1, <3>1, <4>1 DEF RequestOn
      <4>2. CASE b # a
        BY <2>8, <3>2, <4>2 DEF HasForItself
      <4> QED
        BY <4>1, <4>2
    <3> QED
      BY <1>1, <2>9, <2>10, <3>2, <3>3 DEF HasForItself, tenantVars, activityVars
  <2>13. RequestsAreSound'
    BY <2>11, <2>12 DEF RequestsAreSound, ValidWindow
  <2> QED
    BY <1>1, <2>8, <2>13 DEF TenancyInv, TenancyTyped, LifecyclesAgree, Existing,
       WindowsAreValid, ValidWindow, ArchivedForGood, StoppedIsEmpty, NothingRuns, AdmittedAreOpen,
       tenantVars, activityVars
<1> QED
  BY <1>1, <1>40, <1>41

(* What the three requests write, with the answer to the page. *)
LEMMA WriteKeepsRequests ==
  ASSUME TenancyInv, NEW a \in Administrators, Answer(a, "DONE"),
         UNCHANGED <<activityVars, contested>>, NEW l \in Locations, NEW row \in LocationRow,
         location' = [location EXCEPT ![l] = row], row.archivedAt => location[l].archivedAt
  PROVE  TenancyTyped' /\ RequestsAreSound'
<1>1. /\ page' \in [Administrators -> [listed : Listings, request : RequestRow]]
      /\ \A b \in Administrators :
           page'[b].request \in {page[b].request} \cup [step : {"IDLE", "DONE"}]
  BY AnswerIs DEF TenancyInv
<1>2. TenancyTyped'
  BY <1>1 DEF TenancyInv, TenancyTyped
<1>3. \A k \in Locations : location'[k].archivedAt => location[k].archivedAt
  BY DEF TenancyInv, TenancyTyped
<1> QED
  BY <1>1, <1>2, <1>3, RequestsKeep DEF TenancyInv, activityVars

LEMMA WriteUpdateKeeps ==
  ASSUME TenancyInv, NEW a \in Administrators, WriteUpdate(a)
  PROVE  TenancyInv'
<1>1. PICK r : r = page[a].request
  OBVIOUS
<1>2. /\ r \in LifecycleRequest /\ ValidWindow(r.window)
      /\ location' = [location EXCEPT ![r.loc] = [@ EXCEPT !.window = r.window]]
      /\ Answer(a, "DONE") /\ UNCHANGED <<activityVars, contested>>
  BY <1>1 DEF WriteUpdate, Ready, TenancyInv, TenancyTyped, RequestRow, RequestsAreSound
<1>3. PICK l, w : l = r.loc /\ w = r.window /\ l \in Locations /\ w \in Windows
  BY <1>2 DEF LifecycleRequest
<1>4. PICK row : row = [location[l] EXCEPT !.window = w]
  OBVIOUS
<1>5. /\ row \in LocationRow /\ row.window = w /\ row.status = location[l].status
      /\ row.lifecycle = location[l].lifecycle /\ row.archivedAt = location[l].archivedAt
  BY <1>3, <1>4 DEF TenancyInv, TenancyTyped, LocationRow
<1>6. location' = [location EXCEPT ![l] = row]
  BY <1>2, <1>3, <1>4
<1>60. /\ Answer(a, "DONE") /\ UNCHANGED <<activityVars, contested>>
       /\ l \in Locations /\ row \in LocationRow
       /\ row.archivedAt => location[l].archivedAt
  BY <1>2, <1>3, <1>5
<1>7. TenancyTyped' /\ RequestsAreSound'
  BY <1>6, <1>60, WriteKeepsRequests
<1>8. /\ location'[l] = row /\ \A k \in Locations : k # l => location'[k] = location[k]
  BY <1>3, <1>6 DEF TenancyInv, TenancyTyped
<1>9. /\ LifecyclesAgree' /\ ArchivedForGood' /\ StoppedIsEmpty' /\ AdmittedAreOpen'
  BY <1>2, <1>3, <1>5, <1>8 DEF TenancyInv, LifecyclesAgree, Existing, ArchivedForGood,
     StoppedIsEmpty, AdmittedAreOpen, NothingRuns, activityVars
<1>10. WindowsAreValid'
  BY <1>2, <1>3, <1>5, <1>8 DEF TenancyInv, WindowsAreValid, ValidWindow
<1> QED
  BY <1>7, <1>9, <1>10 DEF TenancyInv

\* A location's row after its status was written.
StatusRow(z, status, lifecycle, archived) ==
  [merchant |-> z.merchant, status |-> status, lifecycle |-> lifecycle, window |-> z.window,
   archivedAt |-> archived]

LEMMA StatusWritten ==
  ASSUME NEW z \in LocationRow, NEW o \in {"ACTIVE", "INACTIVE"}
  PROVE  [z EXCEPT !.status = o, !.lifecycle = o] = StatusRow(z, o, o, z.archivedAt)
<1>1. PICK y : y = [z EXCEPT !.status = o]
  OBVIOUS
<1>2. y = [merchant |-> z.merchant, status |-> o, lifecycle |-> z.lifecycle,
           window |-> z.window, archivedAt |-> z.archivedAt]
  BY <1>1 DEF LocationRow
<1>3. [y EXCEPT !.lifecycle = o] = StatusRow(z, o, o, z.archivedAt)
  BY <1>2 DEF StatusRow
<1> QED
  BY <1>1, <1>3

LEMMA ArchivalWritten ==
  ASSUME NEW z \in LocationRow, NEW d
  PROVE  [z EXCEPT !.status = "INACTIVE", !.lifecycle = "ARCHIVED", !.archivedAt = d]
           = StatusRow(z, "INACTIVE", "ARCHIVED", d)
<1>1. PICK y : y = [z EXCEPT !.status = "INACTIVE"]
  OBVIOUS
<1>2. y = [merchant |-> z.merchant, status |-> "INACTIVE", lifecycle |-> z.lifecycle,
           window |-> z.window, archivedAt |-> z.archivedAt]
  BY <1>1 DEF LocationRow
<1>3. PICK x : x = [y EXCEPT !.lifecycle = "ARCHIVED"]
  OBVIOUS
<1>4. x = [merchant |-> z.merchant, status |-> "INACTIVE", lifecycle |-> "ARCHIVED",
           window |-> z.window, archivedAt |-> z.archivedAt]
  BY <1>2, <1>3
<1>5. [x EXCEPT !.archivedAt = d] =
        [merchant |-> z.merchant, status |-> "INACTIVE", lifecycle |-> "ARCHIVED",
         window |-> z.window, archivedAt |-> d]
  BY <1>4
<1> QED
  BY <1>1, <1>3, <1>5 DEF StatusRow

\* Its other fields are as before.
LEMMA StatusRowKeeps ==
  ASSUME NEW z \in LocationRow, NEW o \in {"ACTIVE", "INACTIVE"},
         NEW c \in {"ACTIVE", "INACTIVE", "ARCHIVED"}, NEW d \in BOOLEAN
  PROVE  /\ StatusRow(z, o, c, d) \in LocationRow /\ StatusRow(z, o, c, d).window = z.window
         /\ StatusRow(z, o, c, d).status = o /\ StatusRow(z, o, c, d).lifecycle = c
         /\ StatusRow(z, o, c, d).archivedAt = d
  BY DEF StatusRow, LocationRow

LEMMA WriteStatusKeeps ==
  ASSUME TenancyInv, NEW a \in Administrators, WriteStatus(a)
  PROVE  TenancyInv'
<1>1. PICK r : r = page[a].request
  OBVIOUS
<1>2. /\ r \in LifecycleRequest /\ r.op \in {"ACTIVE", "INACTIVE"} /\ r.step = "CHECKED"
      /\ location' = [location EXCEPT ![r.loc] =
                         [@ EXCEPT !.status = r.op, !.lifecycle = r.op]]
      /\ Answer(a, "DONE") /\ UNCHANGED <<activityVars, contested>>
  BY <1>1 DEF WriteStatus, Ready, TenancyInv, TenancyTyped, RequestRow
<1>3. PICK l, op : l = r.loc /\ op = r.op /\ l \in Locations /\ op \in {"ACTIVE", "INACTIVE"}
  BY <1>2 DEF LifecycleRequest
<1>4. location[l] \in LocationRow
  BY <1>3 DEF TenancyInv, TenancyTyped
<1>40. PICK row : row = StatusRow(location[l], op, op, location[l].archivedAt)
  OBVIOUS
<1>41. row.window = location[l].window /\ row.status = op
  BY <1>40 DEF StatusRow
<1>42. row.lifecycle = op /\ row.archivedAt = location[l].archivedAt
  BY <1>40 DEF StatusRow
<1>43. /\ location[l].merchant \in Merchants \cup {"NONE"} /\ location[l].window \in Windows
       /\ location[l].archivedAt \in BOOLEAN
  BY <1>4 DEF LocationRow
<1>44. op \in {"NONE", "ACTIVE", "INACTIVE"} /\ op \in {"NONE", "ACTIVE", "INACTIVE", "ARCHIVED"}
  BY <1>3
<1>45. row \in LocationRow
  BY <1>40, <1>43, <1>44 DEF StatusRow, LocationRow
<1>5. /\ row \in LocationRow /\ row.window = location[l].window /\ row.status = op
      /\ row.lifecycle = op /\ row.archivedAt = location[l].archivedAt
  BY <1>41, <1>42, <1>45
<1>50. [location[l] EXCEPT !.status = op, !.lifecycle = op] = row
  BY Zenon, <1>3, <1>4, <1>40, StatusWritten
<1>51. location' = [location EXCEPT ![l] = [location[l] EXCEPT !.status = op, !.lifecycle = op]]
  BY <1>2, <1>3
<1>6. location' = [location EXCEPT ![l] = row]
  BY <1>50, <1>51
<1>60. /\ Answer(a, "DONE") /\ UNCHANGED <<activityVars, contested>>
       /\ l \in Locations /\ row \in LocationRow
       /\ row.archivedAt => location[l].archivedAt
  BY <1>2, <1>3, <1>5
<1>7. TenancyTyped' /\ RequestsAreSound'
  BY <1>6, <1>60, WriteKeepsRequests
<1>8. /\ location'[l] = row /\ \A k \in Locations : k # l => location'[k] = location[k]
  BY <1>3, <1>6 DEF TenancyInv, TenancyTyped
<1>9. RequestOn(a, l)
  BY <1>1, <1>2, <1>3 DEF RequestOn
<1>10. l \notin contested =>
         /\ ~location[l].archivedAt /\ (op = "INACTIVE" => NothingRuns(l))
         /\ \A x \in Activities : <<l, x>> \notin admitted
  BY <1>1, <1>2, <1>3, <1>9 DEF TenancyInv, RequestsAreSound, HasForItself
<1>11. LifecyclesAgree' /\ ArchivedForGood' /\ WindowsAreValid'
  BY <1>2, <1>3, <1>5, <1>8, <1>10 DEF TenancyInv, LifecyclesAgree, Existing, ArchivedForGood,
     WindowsAreValid, ValidWindow
<1>12. StoppedIsEmpty' /\ AdmittedAreOpen'
  BY <1>2, <1>3, <1>5, <1>8, <1>10 DEF TenancyInv, StoppedIsEmpty, AdmittedAreOpen, NothingRuns,
     activityVars
<1> QED
  BY <1>7, <1>11, <1>12 DEF TenancyInv

LEMMA WriteArchiveKeeps ==
  ASSUME TenancyInv, NEW a \in Administrators, WriteArchive(a)
  PROVE  TenancyInv'
<1>1. PICK r : r = page[a].request
  OBVIOUS
<1>2. /\ r \in LifecycleRequest /\ r.op = "ARCHIVED" /\ r.step = "CHECKED"
      /\ location' = [location EXCEPT ![r.loc] =
            [@ EXCEPT !.status = "INACTIVE", !.lifecycle = "ARCHIVED", !.archivedAt = TRUE]]
      /\ Answer(a, "DONE") /\ UNCHANGED <<activityVars, contested>>
  BY <1>1 DEF WriteArchive, Ready, TenancyInv, TenancyTyped, RequestRow
<1>3. PICK l : l = r.loc /\ l \in Locations
  BY <1>2 DEF LifecycleRequest
<1>4. location[l] \in LocationRow
  BY <1>3 DEF TenancyInv, TenancyTyped
<1>40. PICK row : row = StatusRow(location[l], "INACTIVE", "ARCHIVED", TRUE)
  OBVIOUS
<1>5. /\ row \in LocationRow /\ row.window = location[l].window /\ row.status = "INACTIVE"
      /\ row.lifecycle = "ARCHIVED" /\ row.archivedAt
  BY <1>4, <1>40, StatusRowKeeps
<1>50. [location[l] EXCEPT !.status = "INACTIVE", !.lifecycle = "ARCHIVED", !.archivedAt = TRUE]
         = row
  BY <1>4, <1>40, ArchivalWritten
<1>6. location' = [location EXCEPT ![l] = row]
  BY <1>2, <1>3, <1>50
<1>7. /\ location'[l] = row /\ \A k \in Locations : k # l => location'[k] = location[k]
  BY <1>3, <1>6 DEF TenancyInv, TenancyTyped
<1>8. /\ page' \in [Administrators -> [listed : Listings, request : RequestRow]]
      /\ \A b \in Administrators :
           page'[b].request \in {page[b].request} \cup [step : {"IDLE", "DONE"}]
      /\ page'[a].request.step = "DONE"
  BY <1>2, AnswerIs DEF TenancyInv, TenancyTyped, Answer
<1>9. TenancyTyped'
  BY <1>3, <1>5, <1>6, <1>8 DEF TenancyInv, TenancyTyped
<1>10. RequestOn(a, l)
  BY <1>1, <1>2, <1>3 DEF RequestOn
<1>11. l \notin contested =>
         /\ \A b \in Administrators : RequestOn(b, l) => b = a
         /\ NothingRuns(l) /\ \A x \in Activities : <<l, x>> \notin admitted
  BY <1>1, <1>2, <1>3, <1>10 DEF TenancyInv, RequestsAreSound, HasForItself
<1>12. \A b \in Administrators, k \in Locations : RequestOn(b, k)' => RequestOn(b, k) /\ b # a
  BY <1>8 DEF RequestOn
<1>13. ASSUME NEW b \in Administrators
       PROVE  /\ page'[b].request.step \in {"READ", "CHECKED"} =>
                   ValidWindow(page'[b].request.window)
              /\ \A k \in Locations \ contested' : RequestOn(b, k)' => HasForItself(b, k)'
  <2>1. page'[b].request.step \in {"READ", "CHECKED"} => page'[b].request = page[b].request
    BY <1>8
  <2>2. ASSUME NEW k \in Locations \ contested', RequestOn(b, k)'
        PROVE  HasForItself(b, k)'
    <3>1. RequestOn(b, k) /\ b # a /\ k \notin contested /\ k # l
      BY <1>2, <1>11, <1>12, <2>2
    <3>2. HasForItself(b, k) /\ location'[k] = location[k]
      BY <1>7, <3>1 DEF TenancyInv, RequestsAreSound
    <3>3. page'[b].request = page[b].request
      BY <2>1, <2>2 DEF RequestOn
    <3> QED
      BY <1>2, <1>12, <3>2, <3>3 DEF HasForItself, NothingRuns, activityVars
  <2> QED
    BY <2>1, <2>2 DEF TenancyInv, RequestsAreSound
<1>14. RequestsAreSound'
  BY <1>13 DEF RequestsAreSound, ValidWindow
<1>15. LifecyclesAgree' /\ ArchivedForGood' /\ WindowsAreValid'
  BY <1>2, <1>3, <1>5, <1>7 DEF TenancyInv, LifecyclesAgree, Existing, ArchivedForGood,
     WindowsAreValid, ValidWindow
<1>16. StoppedIsEmpty' /\ AdmittedAreOpen'
  BY <1>2, <1>3, <1>5, <1>7, <1>11 DEF TenancyInv, StoppedIsEmpty, AdmittedAreOpen, NothingRuns,
     activityVars
<1> QED
  BY <1>9, <1>14, <1>15, <1>16 DEF TenancyInv

(* Of the activities only what is contested, admitted or running changes. *)
LEMMA ActivityKeeps ==
  ASSUME TenancyInv, UNCHANGED <<tenantVars, page>>, contested \subseteq contested',
         \A l \in Locations \ contested', x \in Activities :
           /\ <<l, x>> \in admitted' => <<l, x>> \in admitted \/ location[l].status = "ACTIVE"
           /\ <<l, x>> \in running' => <<l, x>> \in running \/ <<l, x>> \in admitted
           /\ <<l, x>> \in admitted' /\ <<l, x>> \notin admitted =>
                \A a \in Administrators : ~RequestOn(a, l)
  PROVE  TenancyInv'
<1>1. \A a \in Administrators, l \in Locations : RequestOn(a, l)' <=> RequestOn(a, l)
  BY DEF RequestOn
<1>2. StoppedIsEmpty'
  BY DEF TenancyInv, StoppedIsEmpty, NothingRuns, AdmittedAreOpen, tenantVars
<1>3. AdmittedAreOpen'
  BY DEF TenancyInv, AdmittedAreOpen, tenantVars
<1>4. ASSUME NEW a \in Administrators, NEW l \in Locations \ contested', RequestOn(a, l)'
      PROVE  HasForItself(a, l)'
  <2>1. RequestOn(a, l) /\ HasForItself(a, l)
    BY <1>1, <1>4 DEF TenancyInv, RequestsAreSound
  <2>2. \A x \in Activities : <<l, x>> \notin admitted'
    BY <2>1 DEF HasForItself
  <2>3. NothingRuns(l) => NothingRuns(l)'
    BY <2>1 DEF HasForItself, NothingRuns
  <2> QED
    BY <1>1, <2>1, <2>2, <2>3 DEF HasForItself, tenantVars
<1>5. RequestsAreSound'
  BY <1>4 DEF TenancyInv, RequestsAreSound, ValidWindow
<1> QED
  BY <1>2, <1>3, <1>5 DEF TenancyInv, TenancyTyped, LifecyclesAgree, Existing, WindowsAreValid,
     ValidWindow, ArchivedForGood, tenantVars

LEMMA AdmitKeeps ==
  ASSUME TenancyInv, NEW l \in Locations, NEW x \in Activities, Admit(l, x)
  PROVE  TenancyInv'
<1>1. /\ UNCHANGED <<tenantVars, page, running>> /\ admitted' = admitted \cup {<<l, x>>}
      /\ contested' = contested \cup {k \in {l} : \E a \in Administrators : RequestOn(a, l)}
      /\ location[l].status = "ACTIVE"
  BY DEF Admit, Accessible
<1>2. contested \subseteq contested'
  BY <1>1
<1> HIDE DEF Activities
<1>3. ASSUME NEW k \in Locations \ contested', NEW y \in Activities,
             <<k, y>> \in admitted', <<k, y>> \notin admitted
      PROVE  k = l
  BY <1>1, <1>3
<1>4. l \notin contested' => \A a \in Administrators : ~RequestOn(a, l)
  BY <1>1
<1> QED
  BY <1>1, <1>2, <1>3, <1>4, ActivityKeeps

(* Reservations and visits are none of them. *)
LEMMA ReservationsKeep ==
  ASSUME TenancyInv, UNCHANGED <<tenantVars, pageVars, admitted, running>>
  PROVE  TenancyInv'
  BY ActivityKeeps DEF pageVars

LEMMA ActivityStepKeeps ==
  ASSUME TenancyInv, ActivityStep
  PROVE  TenancyInv'
<1>1. ASSUME NEW l \in Locations, NEW x \in Activities, StartActivity(l, x)
      PROVE  TenancyInv'
  <2>1. /\ UNCHANGED <<tenantVars, page, contested>> /\ <<l, x>> \in admitted
        /\ admitted' \subseteq admitted /\ running' = running \cup {<<l, x>>}
    BY <1>1 DEF StartActivity, pageVars
  <2> QED
    BY <2>1, ActivityKeeps
<1>2. ASSUME NEW l \in Locations, NEW x \in Activities, Withdraw(l, x)
      PROVE  TenancyInv'
  BY <1>2, ActivityKeeps DEF Withdraw, pageVars
<1>3. ASSUME NEW l \in Locations, NEW x \in Activities, FinishActivity(l, x)
      PROVE  TenancyInv'
  BY <1>3, ActivityKeeps DEF FinishActivity, pageVars
<1>4. ASSUME NEW l \in Locations, NEW x \in Activities,
             DropReservation(l, x) \/ CheckIn(l, x) \/ EndVisit(l, x)
      PROVE  TenancyInv'
  BY <1>4, ReservationsKeep DEF DropReservation, CheckIn, EndVisit
<1> QED
  BY <1>1, <1>2, <1>3, <1>4 DEF ActivityStep

LEMMA PageStepKeeps ==
  ASSUME TenancyInv, PageStep
  PROVE  TenancyInv'
  BY RefreshKeeps, GiveUpRequestKeeps, GetKeeps, AssertCanStopKeeps, WriteUpdateKeeps,
     WriteStatusKeeps, WriteArchiveKeeps DEF PageStep, LifecycleOps

LEMMA CreateStepKeeps ==
  ASSUME TenancyInv, CreateStep
  PROVE  TenancyInv'
<1>1. ASSUME NEW l \in Locations, NEW m \in Merchants, NEW plan \in Plans, NEW s \in Areas,
             NEW new \in SUBSET Tables, Onboard(l, m, plan, s, new)
      PROVE  TenancyInv'
  BY <1>1, OnboardKeeps DEF Onboard
<1>2. ASSUME NEW a \in Administrators, NEW l \in Locations \ Existing, NEW m \in Merchants,
             NEW w \in Windows, NEW source \in Existing \cup {"NONE"},
             NEW copies \in SUBSET {"LAYOUT", "PROFILE"},
             PlatformCreateWith(a, l, m, w, source, copies)
      PROVE  TenancyInv'
  BY <1>2, PlatformCreateKeeps DEF PlatformCreateWith
<1> QED
  BY <1>1, <1>2 DEF CreateStep

(* Areas, tables and fiscal profiles are of no concern to the locations. *)
LEMMA LayoutAndFiscalKeep ==
  ASSUME TenancyInv, LayoutStep \/ FiscalStep
  PROVE  TenancyInv'
<1>1. UNCHANGED <<tenantVars, pageVars, activityVars>>
  BY ZenonT(60) DEF LayoutStep, CreateArea, UpdateArea, CreateTable, UpdateTable, SelectLocation,
     LayoutLoaded, LayoutNotLoaded, SelectArea, Replace, FiscalStep, SetupUnchanged, StartSetup,
     CheckVatNumber, LookUp, Push, Verify, SaveProfile, GiveUpSetup, GiveCredentials
<1> QED
  BY <1>1, StillSound

LEMMA TenancyStays ==
  ASSUME TenancyInv, [SetupNext]_setupVars
  PROVE  TenancyInv'
<1>1. CASE UNCHANGED setupVars
  BY <1>1, StillSound DEF setupVars, tenantVars, pageVars, activityVars
<1>2. ASSUME NEW l \in Locations, NEW x \in Activities, AdmitAt(l, x)
      PROVE  TenancyInv'
  BY <1>2, AdmitKeeps DEF AdmitAt
<1>3. ASSUME NEW l \in Locations, NEW t \in Tables, ReserveAt(l, t)
      PROVE  TenancyInv'
  BY <1>3, ReservationsKeep DEF ReserveAt, Reserve
<1> QED
  BY <1>1, <1>2, <1>3, TenantStepKeeps, PageStepKeeps, ActivityStepKeeps, CreateStepKeeps,
     LayoutAndFiscalKeep DEF SetupNext

-----------------------------------------------------------------------------
LEMMA SetupStarts == SetupInit => SetupInv
<1> SUFFICES ASSUME SetupInit
             PROVE  SetupInv
  OBVIOUS
<1>1. /\ NoArea \in AreaRow /\ NoTable \in TableRow /\ NoEditor \in EditorRow
      /\ NoProfile \in ProfileRow /\ NotConfigured \in RemoteRow /\ NoSetup \in SetupRow
  BY DEF AreaRow, TableRow, NoEditor, EditorRow, ProfileRow, NotConfigured, RemoteRow, SetupRow
<1>2. /\ area = [s \in Areas |-> NoArea] /\ table = [t \in Tables |-> NoTable]
      /\ editor = [a \in Administrators |-> NoEditor]
      /\ profile = [l \in Locations |-> NoProfile]
      /\ remote = [e \in Environments |-> [v \in Merchants |-> NotConfigured]]
      /\ setup = [a \in Administrators |-> NoSetup]
  BY DEF SetupInit
<1>3. SetupTyped
  BY <1>1, <1>2 DEF SetupTyped
<1>4. TablesAreInTheirArea
  BY <1>2 DEF TablesAreInTheirArea, UnusedTables
<1>5. ProductionIsVerified
  BY <1>2 DEF ProductionIsVerified, NoProfile
<1>6. CredentialsAreOfConfigurations /\ VerifiedIsReady
  BY <1>2 DEF CredentialsAreOfConfigurations, NotConfigured, VerifiedIsReady, NoSetup
<1> QED
  BY <1>3, <1>4, <1>5, <1>6 DEF SetupInv

LayoutInv == area \in [Areas -> AreaRow] /\ table \in [Tables -> TableRow] /\ TablesAreInTheirArea
ProfilesInv ==
  /\ profile \in [Locations -> ProfileRow]
  /\ remote \in [Environments -> [Merchants -> RemoteRow]]
  /\ setup \in [Administrators -> SetupRow]
  /\ ProductionIsVerified /\ CredentialsAreOfConfigurations /\ VerifiedIsReady

LEMMA NewTablesAre ==
  ASSUME LayoutInv, NEW l \in Locations, NEW s \in Areas, NEW new \in SUBSET Tables,
         NEW status \in {"ACTIVE", "INACTIVE"}
  PROVE  /\ NewTables(new, s, l, status) \in [Tables -> TableRow]
         /\ \A t \in Tables : \/ NewTables(new, s, l, status)[t] = table[t]
                              \/ /\ NewTables(new, s, l, status)[t].loc = l
                                 /\ NewTables(new, s, l, status)[t].area = s
<1>1. [loc |-> l, area |-> s, status |-> status] \in TableRow
  BY DEF TableRow
<1> QED
  BY <1>1 DEF NewTables, LayoutInv

(* Tables stay where they are, or are put in an area of their location; areas that tables *)
(* are in stay where they are.                                                            *)
LEMMA LayoutKept ==
  ASSUME LayoutInv, area' \in [Areas -> AreaRow], table' \in [Tables -> TableRow],
         \A s \in Areas : area[s] # NoArea => area'[s].loc = area[s].loc,
         \A t \in Tables : \/ table'[t] = NoTable
                           \/ table'[t].loc = table[t].loc /\ table'[t].area = table[t].area
                           \/ area'[table'[t].area].loc = table'[t].loc
  PROVE  LayoutInv'
<1> SUFFICES ASSUME NEW t \in Tables, table'[t] # NoTable
             PROVE  area'[table'[t].area].loc = table'[t].loc
  BY DEF LayoutInv, TablesAreInTheirArea, UnusedTables, AreaAt
<1>1. CASE area'[table'[t].area].loc = table'[t].loc
  BY <1>1
<1>2. CASE table'[t].loc = table[t].loc /\ table'[t].area = table[t].area
  <2>1. table'[t].loc \in Locations /\ table'[t].area \in Areas
    BY DEF TableRow
  <2>2. table[t] # NoTable
    BY <1>2, <2>1, TenancyAssumption DEF NoTable
  <2>3. area[table[t].area].loc = table[t].loc
    BY <2>2 DEF LayoutInv, TablesAreInTheirArea, UnusedTables, AreaAt
  <2>4. area[table[t].area] # NoArea
    BY <1>2, <2>1, <2>3, TenancyAssumption DEF NoArea
  <2> QED
    BY <1>2, <2>1, <2>3, <2>4
<1> QED
  BY <1>1, <1>2

LEMMA PlacesAre ==
  ASSUME LayoutInv, NEW s \in Areas, NEW l \in Locations, AreaAt(s, l)
  PROVE  area[s] # NoArea
  BY TenancyAssumption DEF AreaAt, NoArea

LEMMA OnboardPlaces ==
  ASSUME LayoutInv, NEW l \in Locations, NEW m \in Merchants, NEW plan \in Plans, NEW s \in Areas,
         NEW new \in SUBSET Tables, Onboard(l, m, plan, s, new)
  PROVE  LayoutInv'
<1>1. /\ area' = [area EXCEPT ![s] = [loc |-> l, status |-> "ACTIVE"]] /\ area[s] = NoArea
      /\ table' = NewTables(new, s, l, "ACTIVE")
  BY DEF Onboard, UnusedAreas
<1>2. [loc |-> l, status |-> "ACTIVE"] \in AreaRow
  BY DEF AreaRow
<1>3. /\ area' \in [Areas -> AreaRow] /\ area'[s].loc = l
      /\ \A z \in Areas : area[z] # NoArea => area'[z].loc = area[z].loc
  BY <1>1, <1>2 DEF LayoutInv
<1>4. /\ table' \in [Tables -> TableRow]
      /\ \A t \in Tables : table'[t] = table[t] \/ (table'[t].loc = l /\ table'[t].area = s)
  BY <1>1, NewTablesAre
<1> QED
  BY <1>3, <1>4, LayoutKept

LEMMA CreateAreaPlaces ==
  ASSUME LayoutInv, NEW l \in Locations, NEW s \in Areas, CreateArea(l, s)
  PROVE  LayoutInv'
<1>1. [loc |-> l, status |-> "ACTIVE"] \in AreaRow
  BY DEF AreaRow
<1>2. /\ area' \in [Areas -> AreaRow] /\ table' \in [Tables -> TableRow] /\ table' = table
      /\ \A z \in Areas : area[z] # NoArea => area'[z].loc = area[z].loc
  BY <1>1 DEF CreateArea, UnusedAreas, LayoutInv
<1> QED
  BY <1>2, LayoutKept

LEMMA UpdateAreaPlaces ==
  ASSUME LayoutInv, NEW s \in Areas, NEW status \in {"ACTIVE", "INACTIVE"}, UpdateArea(s, status)
  PROVE  LayoutInv'
<1>1. /\ area[s] # NoArea /\ table' = table
      /\ area' = [area EXCEPT ![s] = [@ EXCEPT !.status = status]]
  BY DEF UpdateArea
<1>2. area[s] \in [loc : Locations, status : {"ACTIVE", "INACTIVE"}]
  BY <1>1 DEF LayoutInv, AreaRow
<1>3. /\ [area[s] EXCEPT !.status = status] \in AreaRow
      /\ [area[s] EXCEPT !.status = status].loc = area[s].loc
  BY <1>2 DEF AreaRow
<1>4. /\ area' \in [Areas -> AreaRow] /\ table' \in [Tables -> TableRow]
      /\ \A z \in Areas : area[z] # NoArea => area'[z].loc = area[z].loc
  BY <1>1, <1>3 DEF LayoutInv
<1> QED
  BY <1>1, <1>4, LayoutKept

LEMMA CreateTablePlaces ==
  ASSUME LayoutInv, NEW l \in Locations, NEW s \in Areas, NEW t \in Tables, CreateTable(l, t, s)
  PROVE  LayoutInv'
<1>1. /\ area' = area /\ table' = NewTables({t}, s, l, "ACTIVE") /\ area[s].loc = l
  BY DEF CreateTable, AreaAt
<1>2. /\ table' \in [Tables -> TableRow]
      /\ \A x \in Tables : table'[x] = table[x] \/ (table'[x].loc = l /\ table'[x].area = s)
  <2>1. {t} \in SUBSET Tables
    OBVIOUS
  <2> QED
    BY <1>1, <2>1, NewTablesAre
<1>3. area' \in [Areas -> AreaRow] /\ \A x \in Tables : table'[x].area = s => area'[s].loc = l
  BY <1>1 DEF LayoutInv
<1> QED
  BY <1>1, <1>2, <1>3, LayoutKept

LEMMA UpdateTablePlaces ==
  ASSUME LayoutInv, NEW t \in Tables, NEW s \in Areas, NEW status \in {"ACTIVE", "INACTIVE"},
         UpdateTable(t, s, status)
  PROVE  LayoutInv'
<1>1. PICK l : l = table[t].loc
  OBVIOUS
<1>2. /\ area' = area /\ table[t] # NoTable /\ area[s].loc = l
      /\ table' = NewTables({t}, s, l, status)
  BY <1>1 DEF UpdateTable, UnusedTables, AreaAt
<1>3. l \in Locations
  BY <1>1, <1>2 DEF LayoutInv, TableRow
<1>4. /\ table' \in [Tables -> TableRow]
      /\ \A x \in Tables : table'[x] = table[x] \/ (table'[x].loc = l /\ table'[x].area = s)
  <2>1. {t} \in SUBSET Tables
    OBVIOUS
  <2> QED
    BY <1>2, <1>3, <2>1, NewTablesAre
<1> QED
  BY <1>2, <1>4, LayoutKept DEF LayoutInv

LEMMA ReplacePlaces ==
  ASSUME LayoutInv, editor \in [Administrators -> EditorRow], NEW a \in Administrators,
         NEW kept \in SUBSET Tables, NEW new \in SUBSET Tables, Replace(a, kept, new)
  PROVE  LayoutInv'
<1>1. PICK l, s : l = editor[a].loc /\ s = editor[a].area
  OBVIOUS
<1>2. /\ s \in Areas /\ area[s].loc = l /\ area[s].status = "ACTIVE" /\ area' = area
      /\ table' = ReplacedTables(s, l, kept, new, TablesOf(s, l) \ kept)
      /\ \A t \in kept : t \in TablesOf(s, l)
  BY <1>1 DEF Replace, ActiveArea, AreaAt, EditorRow
<1>3. l \in Locations
  BY <1>2 DEF LayoutInv, AreaRow, NoArea
<1>4. PICK tables : tables = NewTables(new, s, l, "ACTIVE")
  OBVIOUS
<1>5. \A t \in Tables : /\ tables[t] \in TableRow
                        /\ tables[t] = table[t] \/ (tables[t].loc = l /\ tables[t].area = s)
  BY <1>2, <1>3, <1>4, NewTablesAre
<1>6. \A t \in TablesOf(s, l) : table[t] \in [loc : Locations, area : Areas, status : {"ACTIVE", "INACTIVE"}]
  BY <1>2, <1>3, TenancyAssumption DEF TablesOf, LayoutInv, TableRow, NoTable
<1>7. \A r \in [loc : Locations, area : Areas, status : {"ACTIVE", "INACTIVE"}],
         x \in {"ACTIVE", "INACTIVE"} :
        /\ [r EXCEPT !.status = x] \in TableRow
        /\ [r EXCEPT !.status = x].loc = r.loc /\ [r EXCEPT !.status = x].area = r.area
  BY DEF TableRow
<1>8. table' = [t \in Tables |-> IF t \in kept THEN [table[t] EXCEPT !.status = "ACTIVE"]
                ELSE IF t \in TablesOf(s, l) \ kept THEN [table[t] EXCEPT !.status = "INACTIVE"]
                ELSE tables[t]]
  BY <1>2, <1>4 DEF ReplacedTables
<1>9. ASSUME NEW t \in Tables
      PROVE  /\ table'[t] \in TableRow
             /\ \/ table'[t].loc = table[t].loc /\ table'[t].area = table[t].area
                \/ area[table'[t].area].loc = table'[t].loc
  <2>1. CASE t \in TablesOf(s, l)
    <3>1. PICK x \in {"ACTIVE", "INACTIVE"} : table'[t] = [table[t] EXCEPT !.status = x]
      BY <1>2, <1>8, <2>1
    <3>2. PICK r : r = table[t] /\ r \in [loc : Locations, area : Areas, status : {"ACTIVE", "INACTIVE"}]
      BY <1>6, <2>1
    <3>3. table'[t] = [r EXCEPT !.status = x]
      BY <3>1, <3>2
    <3>4. /\ [r EXCEPT !.status = x] \in TableRow /\ [r EXCEPT !.status = x].loc = r.loc
          /\ [r EXCEPT !.status = x].area = r.area
      BY <1>7, <3>2
    <3> QED
      BY <3>2, <3>3, <3>4
  <2>2. CASE t \notin TablesOf(s, l)
    <3>1. table'[t] = tables[t]
      BY <1>2, <1>8, <2>2
    <3> QED
      BY <1>2, <1>5, <3>1
  <2> QED
    BY <2>1, <2>2
<1>10. table' \in [Tables -> TableRow]
  BY <1>8, <1>9
<1> QED
  BY <1>2, <1>9, <1>10, LayoutKept DEF LayoutInv

LEMMA CopyPlaces ==
  ASSUME LayoutInv, NEW l \in Locations, NEW source, NEW copyOf, NEW origin,
         copyOf \in [{s \in Areas : AreaAt(s, source)} -> UnusedAreas],
         DOMAIN origin \subseteq UnusedTables, origin \in [DOMAIN origin -> Tables],
         source \in Locations, CopiesLayout(l, source, copyOf, origin)
  PROVE  LayoutInv'
<1> DEFINE copied == {z \in Areas : \E s \in DOMAIN copyOf : copyOf[s] = z}
<1>1. \A z \in copied : area[z] = NoArea
  BY DEF UnusedAreas
<1>2. \A z \in Areas : IF z \in copied
        THEN area'[z].loc = l /\ area'[z] \in AreaRow ELSE area'[z] = area[z]
  BY DEF CopiesLayout, AreaRow
<1>3. \A t \in DOMAIN origin : /\ origin[t] \in Tables /\ table[origin[t]].loc = source
                               /\ table[origin[t]].area \in DOMAIN copyOf
  BY DEF CopiesLayout
<1>4. \A t \in DOMAIN origin : table[origin[t]] # NoTable
  BY <1>3, TenancyAssumption DEF NoTable
<1>5. ASSUME NEW t \in DOMAIN origin
      PROVE  /\ table'[t] \in TableRow /\ table'[t].loc = l /\ table'[t].area \in copied
  <2>1. table[origin[t]] \in [loc : Locations, area : Areas, status : {"ACTIVE", "INACTIVE"}]
    BY <1>3, <1>4 DEF LayoutInv, TableRow
  <2>2. t \in Tables
    BY DEF UnusedTables
  <2>3. table'[t] = [loc |-> l, area |-> copyOf[table[origin[t]].area],
                     status |-> table[origin[t]].status]
    BY <2>2 DEF CopiesLayout
  <2>4. copyOf[table[origin[t]].area] \in copied
    BY <1>3 DEF UnusedAreas
  <2> QED
    BY <2>1, <2>3, <2>4 DEF TableRow
<1>6. \A t \in Tables : t \notin DOMAIN origin => table'[t] = table[t]
  BY DEF CopiesLayout
<1>7. area' \in [Areas -> AreaRow] /\ table' \in [Tables -> TableRow]
  BY <1>2, <1>5, <1>6 DEF LayoutInv, CopiesLayout
<1> QED
  BY <1>1, <1>2, <1>5, <1>6, <1>7, LayoutKept

LEMMA LayoutStays ==
  ASSUME LayoutInv, editor \in [Administrators -> EditorRow], [SetupNext]_setupVars
  PROVE  LayoutInv'
<1>1. CASE UNCHANGED layoutVars
  BY <1>1 DEF LayoutInv, TablesAreInTheirArea, UnusedTables, AreaAt, layoutVars
<1>2. ASSUME NEW a \in Administrators, NEW l \in Locations, NEW m \in Merchants,
             NEW w \in Windows, NEW source \in Existing \cup {"NONE"},
             NEW copies \in SUBSET {"LAYOUT", "PROFILE"},
             PlatformCreateWith(a, l, m, w, source, copies)
      PROVE  LayoutInv'
  <2>1. CASE "LAYOUT" \in copies
    <3>1. source \in Locations
      BY <1>2, <2>1 DEF PlatformCreateWith, Existing
    <3>2. PICK copyOf \in [{s \in Areas : AreaAt(s, source)} -> UnusedAreas],
               added \in SUBSET UnusedTables :
            \E origin \in [added -> Tables] : CopiesLayout(l, source, copyOf, origin)
      BY <1>2, <2>1 DEF PlatformCreateWith
    <3>3. PICK origin \in [added -> Tables] : CopiesLayout(l, source, copyOf, origin)
      BY <3>2
    <3>4. DOMAIN origin = added
      OBVIOUS
    <3> QED
      BY <3>1, <3>3, <3>4, CopyPlaces
  <2>2. CASE "LAYOUT" \notin copies
    BY <1>1, <1>2, <2>2 DEF PlatformCreateWith
  <2> QED
    BY <2>1, <2>2
<1>3. ASSUME LayoutStep
      PROVE  LayoutInv'
  <2>1. CASE UNCHANGED layoutVars
    BY <1>1, <2>1
  <2> QED
    BY <1>3, <2>1, CreateAreaPlaces, UpdateAreaPlaces, CreateTablePlaces, UpdateTablePlaces,
       ReplacePlaces DEF LayoutStep, LayoutLoaded, LayoutNotLoaded, SelectLocation, SelectArea
<1>4. FiscalStep => UNCHANGED layoutVars
  BY DEF FiscalStep, SetupUnchanged, StartSetup, CheckVatNumber, LookUp, Push, Verify,
     SaveProfile, GiveUpSetup, GiveCredentials
<1>5. ASSUME NEW l \in Locations, NEW x \in Activities, AdmitAt(l, x)
      PROVE  UNCHANGED layoutVars
  BY <1>5 DEF AdmitAt
<1>50. ASSUME NEW l \in Locations, NEW t \in Tables, ReserveAt(l, t)
      PROVE  UNCHANGED layoutVars
  BY <1>50 DEF ReserveAt
<1>6. UNCHANGED setupVars => UNCHANGED layoutVars
  BY DEF setupVars, layoutVars
<1>7. LayoutUnchanged => UNCHANGED layoutVars
  BY DEF LayoutUnchanged
<1> QED
  BY <1>1, <1>2, <1>3, <1>4, <1>5, <1>50, <1>6, <1>7, OnboardPlaces DEF SetupNext, CreateStep

LEMMA EditorStays ==
  ASSUME SetupInv, UNCHANGED editor \/ LayoutStep, table' \in [Tables -> TableRow]
  PROVE  editor' \in [Administrators -> EditorRow]
<1> USE DEF SetupInv, SetupTyped
<1>1. CASE UNCHANGED editor
  BY <1>1
<1>2. ASSUME NEW a \in Administrators, NEW l \in Locations, SelectLocation(a, l)
      PROVE  editor' \in [Administrators -> EditorRow]
  BY ZenonT(60), <1>2 DEF SelectLocation, EditorRow
<1>3. \A l, tables : tables \in [Tables -> TableRow] =>
        ShownTables(l, tables) \in SUBSET (Tables \X (Areas \cup {"NONE"}))
  BY DEF ShownTables, TableRow, NoTable
<1>4. ASSUME NEW a \in Administrators, LayoutLoaded(a)
      PROVE  editor' \in [Administrators -> EditorRow]
  <2>1. PICK s \in Areas \cup {"NONE"} :
          editor' = [editor EXCEPT ![a] =
            [loc |-> editor[a].loc, area |-> s,
             areas |-> {z \in Areas : ActiveArea(z, editor[a].loc)},
             tables |-> ShownTables(editor[a].loc, table), pending |-> FALSE]]
    BY <1>4 DEF LayoutLoaded
  <2>2. editor[a].loc \in Locations \cup {"NONE"}
    BY DEF EditorRow
  <2>3. ShownTables(editor[a].loc, table) \in SUBSET (Tables \X (Areas \cup {"NONE"}))
    BY <1>3
  <2> QED
    BY <2>1, <2>2, <2>3 DEF EditorRow
<1>5. ASSUME NEW a \in Administrators, LayoutNotLoaded(a)
      PROVE  editor' \in [Administrators -> EditorRow]
  <2>1. \A r \in EditorRow : [r EXCEPT !.pending = FALSE] \in EditorRow
    BY DEF EditorRow
  <2> QED
    BY <1>5, <2>1 DEF LayoutNotLoaded
<1>6. ASSUME NEW a \in Administrators, NEW s \in Areas, SelectArea(a, s)
      PROVE  editor' \in [Administrators -> EditorRow]
  BY ZenonT(60), <1>6 DEF SelectArea, EditorRow
<1>7. ASSUME NEW a \in Administrators, NEW kept \in SUBSET Tables, NEW new \in SUBSET Tables,
             Replace(a, kept, new), table' \in [Tables -> TableRow]
      PROVE  editor' \in [Administrators -> EditorRow]
  <2>1. PICK l : l = editor[a].loc
    OBVIOUS
  <2>2. ShownTables(l, table') \in SUBSET (Tables \X (Areas \cup {"NONE"}))
    BY <1>3, <1>7
  <2>3. \A r \in EditorRow, A \in SUBSET Areas, T \in SUBSET (Tables \X (Areas \cup {"NONE"})) :
          [r EXCEPT !.areas = A, !.tables = T] \in EditorRow
    BY DEF EditorRow
  <2>4. \/ editor' = editor
        \/ editor' = [editor EXCEPT ![a] = [@ EXCEPT !.areas = {z \in Areas : ActiveArea(z, l)},
                                                     !.tables = ShownTables(l, table')]]
    BY <1>7, <2>1 DEF Replace
  <2> DEFINE A == {z \in Areas : ActiveArea(z, l)}
             T == ShownTables(l, table')
  <2>5. A \in SUBSET Areas /\ T \in SUBSET (Tables \X (Areas \cup {"NONE"}))
    BY <2>2
  <2>6. [editor[a] EXCEPT !.areas = A, !.tables = T] \in EditorRow
    BY <2>3, <2>5
  <2>7. \/ editor' = editor
        \/ editor' = [editor EXCEPT ![a] = [@ EXCEPT !.areas = A, !.tables = T]]
    BY <2>4
  <2> HIDE DEF A, T
  <2> QED
    BY <2>6, <2>7
<1> QED
  BY <1>1, <1>2, <1>4, <1>5, <1>6, <1>7 DEF LayoutStep, CreateArea, UpdateArea, CreateTable,
     UpdateTable

(* What the provider can issue it can issue for good. *)
LEMMA ProfilesKept ==
  ASSUME ProfilesInv, profile' \in [Locations -> ProfileRow],
         remote' \in [Environments -> [Merchants -> RemoteRow]],
         setup' \in [Administrators -> SetupRow], CredentialsAreOfConfigurations',
         \A e \in Environments, v \in Merchants :
           ReadyForReceipts(remote[e][v]) => ReadyForReceipts(remote'[e][v]),
         \A l \in Locations :
           \/ profile'[l] = profile[l] \/ ~profile'[l].enabled
           \/ \E a \in Administrators : setup[a].step = "VERIFIED" /\ profile'[l] = setup[a].saved,
         \A a \in Administrators :
           \/ setup'[a] = setup[a] \/ setup'[a].step # "VERIFIED"
           \/ ~IssuesReceipts(setup'[a].saved)
           \/ ReadyForReceipts(remote["PRODUCTION"][setup'[a].saved.vat])
  PROVE  ProfilesInv'
<1>1. "PRODUCTION" \in Environments
  BY DEF Environments
<1>2. ASSUME NEW p \in SavedRow, IssuesReceipts(p),
             ReadyForReceipts(remote["PRODUCTION"][p.vat])
      PROVE  ReadyForReceipts(remote'["PRODUCTION"][p.vat])
  BY <1>1, <1>2 DEF SavedRow
<1>3. \A a \in Administrators : setup[a].step = "VERIFIED" => setup[a].saved \in SavedRow
  BY DEF ProfilesInv, SetupRow, NoSetup
<1>4. ASSUME NEW l \in Locations, IssuesReceipts(profile'[l])
      PROVE  ReadyForReceipts(remote'["PRODUCTION"][profile'[l].vat])
  <2>1. profile'[l] \in SavedRow
    BY <1>4 DEF ProfileRow, NoProfile, IssuesReceipts
  <2>2. CASE profile'[l] = profile[l]
    BY <1>2, <1>4, <2>1, <2>2 DEF ProfilesInv, ProductionIsVerified, IssuesReceipts
  <2>3. ASSUME NEW a \in Administrators, setup[a].step = "VERIFIED", profile'[l] = setup[a].saved
        PROVE  ReadyForReceipts(remote'["PRODUCTION"][profile'[l].vat])
    BY <1>2, <1>4, <2>1, <2>3 DEF ProfilesInv, VerifiedIsReady
  <2> QED
    BY <1>4, <2>2, <2>3 DEF IssuesReceipts
<1>5. ASSUME NEW a \in Administrators, setup'[a].step = "VERIFIED", IssuesReceipts(setup'[a].saved)
      PROVE  ReadyForReceipts(remote'["PRODUCTION"][setup'[a].saved.vat])
  <2>1. setup'[a].saved \in SavedRow
    BY <1>5 DEF SetupRow, NoSetup
  <2>2. ReadyForReceipts(remote["PRODUCTION"][setup'[a].saved.vat])
    BY <1>5 DEF ProfilesInv, VerifiedIsReady
  <2> QED
    BY <1>2, <1>5, <2>1, <2>2
<1> QED
  BY <1>4, <1>5 DEF ProfilesInv, ProductionIsVerified, VerifiedIsReady, IssuesReceipts,
     ReadyForReceipts

LEMMA StagesAre ==
  ASSUME ProfilesInv, NEW a \in Administrators, setup[a] # NoSetup,
         NEW s \in {"LOCATION", "EXISTING", "LOOKED_UP", "PUSHED", "VERIFIED"}
  PROVE  /\ [setup EXCEPT ![a].step = s] \in [Administrators -> SetupRow]
         /\ [setup EXCEPT ![a].step = s][a].step = s
         /\ [setup EXCEPT ![a].step = s][a].saved = setup[a].saved
         /\ \A b \in Administrators : b # a => [setup EXCEPT ![a].step = s][b] = setup[b]
<1>1. PICK r : r = setup[a] /\ r # NoSetup /\ r \in SetupRow
  BY DEF ProfilesInv
<1>2. /\ [r EXCEPT !.step = s] \in SetupRow /\ [r EXCEPT !.step = s].step = s
      /\ [r EXCEPT !.step = s].saved = r.saved
  BY <1>1 DEF SetupRow
<1> QED
  BY <1>1, <1>2 DEF ProfilesInv

LEMMA EndsAre ==
  ASSUME ProfilesInv, NEW a \in Administrators, EndSetup(a)
  PROVE  /\ setup' \in [Administrators -> SetupRow]
         /\ \A b \in Administrators : setup'[b] = setup[b] \/ setup'[b].step = "IDLE"
  BY DEF EndSetup, ProfilesInv, SetupRow, NoSetup

LEMMA StartSetupKeeps ==
  ASSUME ProfilesInv, NEW a \in Administrators, NEW l \in Locations,
         NEW provider \in {"OPENAPI", "OTHER"}, NEW environment \in Environments,
         NEW vat \in Merchants, NEW enabled \in BOOLEAN,
         StartSetup(a, l, provider, environment, vat, enabled)
  PROVE  ProfilesInv'
<1>1. PICK saved : saved = [provider |-> provider, environment |-> environment, vat |-> vat,
                            enabled |-> enabled]
  OBVIOUS
<1>2. saved \in SavedRow /\ saved.provider = provider
  BY <1>1 DEF SavedRow
<1>3. PICK row : row = [step |-> IF provider = "OPENAPI" THEN "LOCATION" ELSE "VERIFIED",
                        loc |-> l, before |-> NotConfigured, saved |-> saved]
  OBVIOUS
<1>4. row \in SetupRow /\ row.saved = saved /\ (row.step = "VERIFIED" => provider # "OPENAPI")
  BY <1>2, <1>3 DEF SetupRow, RemoteRow, NotConfigured
<1>5. setup' = [setup EXCEPT ![a] = row] /\ UNCHANGED <<profile, remote>>
  BY <1>1, <1>3 DEF StartSetup
<1>6. /\ setup' \in [Administrators -> SetupRow] /\ setup'[a] = row
      /\ \A b \in Administrators : b # a => setup'[b] = setup[b]
  BY <1>4, <1>5 DEF ProfilesInv
<1>7. \A b \in Administrators :
        \/ setup'[b] = setup[b] \/ setup'[b].step # "VERIFIED" \/ ~IssuesReceipts(setup'[b].saved)
  BY <1>2, <1>4, <1>6 DEF IssuesReceipts
<1> QED
  BY <1>5, <1>6, <1>7, ProfilesKept DEF ProfilesInv, CredentialsAreOfConfigurations

LEMMA AskingKeeps ==
  ASSUME ProfilesInv, NEW a \in Administrators, CheckVatNumber(a) \/ LookUp(a) \/ GiveUpSetup(a)
  PROVE  ProfilesInv'
<1>1. UNCHANGED <<profile, remote>>
  BY DEF CheckVatNumber, LookUp, GiveUpSetup
<1>2. /\ setup' \in [Administrators -> SetupRow]
      /\ \A b \in Administrators : setup'[b] = setup[b] \/ setup'[b].step # "VERIFIED"
  <2>1. CASE EndSetup(a)
    BY <2>1, EndsAre
  <2>2. CASE setup[a].step = "LOCATION" /\ setup' = [setup EXCEPT ![a].step = "EXISTING"]
    <3>1. setup[a] # NoSetup
      BY <2>2 DEF NoSetup
    <3> QED
      BY <2>2, <3>1, StagesAre
  <2>3. CASE LookUp(a)
    <3>1. PICK r : r = setup[a] /\ r # NoSetup /\ r \in SetupRow
      BY <2>3 DEF LookUp, ProfilesInv, NoSetup
    <3>2. PICK before : before = Remote(a) /\ before \in RemoteRow
      BY <3>1 DEF Remote, ProfilesInv, SetupRow, SavedRow
    <3>3. /\ [r EXCEPT !.step = "LOOKED_UP", !.before = before] \in SetupRow
          /\ [r EXCEPT !.step = "LOOKED_UP", !.before = before].step = "LOOKED_UP"
      BY <3>1, <3>2 DEF SetupRow
    <3>4. setup' = [setup EXCEPT ![a] = [r EXCEPT !.step = "LOOKED_UP", !.before = before]]
      BY <2>3, <3>1, <3>2 DEF LookUp
    <3> QED
      BY <3>3, <3>4 DEF ProfilesInv
  <2> QED
    BY <2>1, <2>2, <2>3 DEF CheckVatNumber, GiveUpSetup
<1> QED
  BY <1>1, <1>2, ProfilesKept DEF ProfilesInv, CredentialsAreOfConfigurations

LEMMA PushKeeps ==
  ASSUME ProfilesInv, NEW a \in Administrators, Push(a)
  PROVE  ProfilesInv'
<1>1. PICK r : r = setup[a] /\ r # NoSetup /\ r \in SetupRow
  BY DEF Push, ProfilesInv, NoSetup
<1>2. PICK e, v : e = r.saved.environment /\ v = r.saved.vat /\ e \in Environments /\ v \in Merchants
  BY <1>1 DEF SetupRow, SavedRow
<1>3. PICK old : old = remote[e][v] /\ old \in RemoteRow /\ old = Remote(a)
  BY <1>1, <1>2 DEF Remote, ProfilesInv
<1>4. /\ setup' \in [Administrators -> SetupRow]
      /\ \A b \in Administrators : setup'[b] = setup[b] \/ setup'[b].step # "VERIFIED"
  <2>1. CASE EndSetup(a)
    BY <2>1, EndsAre
  <2>2. CASE setup' = [setup EXCEPT ![a].step = "PUSHED"]
    BY <1>1, <2>2, StagesAre
  <2> QED
    BY <2>1, <2>2 DEF Push
<1>5. \/ UNCHANGED remote
      \/ \E row \in RemoteRow :
           /\ remote' = [remote EXCEPT ![e][v] = row]
           /\ ReadyForReceipts(old) => ReadyForReceipts(row)
           /\ row.credentials => row.configured
  <2>1. /\ [old EXCEPT !.receipts = TRUE] \in RemoteRow
        /\ [old EXCEPT !.receipts = TRUE].receipts
        /\ [old EXCEPT !.receipts = TRUE].credentials = old.credentials
        /\ [old EXCEPT !.receipts = TRUE].configured = old.configured
    BY <1>3 DEF RemoteRow
  <2>2. old.credentials => old.configured
    BY <1>2, <1>3 DEF ProfilesInv, CredentialsAreOfConfigurations
  <2>3. CASE Configure(a, [Remote(a) EXCEPT !.receipts = TRUE])
    BY <1>1, <1>2, <1>3, <2>1, <2>2, <2>3 DEF Configure, ReadyForReceipts
  <2>4. ASSUME NEW sandbox \in BOOLEAN, ~old.configured,
               Configure(a, [configured |-> TRUE, receipts |-> sandbox, credentials |-> FALSE])
        PROVE  \E row \in RemoteRow :
           /\ remote' = [remote EXCEPT ![e][v] = row]
           /\ ReadyForReceipts(old) => ReadyForReceipts(row)
           /\ row.credentials => row.configured
    <3>1. PICK row : row = [configured |-> TRUE, receipts |-> sandbox, credentials |-> FALSE]
      OBVIOUS
    <3>2. row \in RemoteRow /\ row.configured
      BY <3>1 DEF RemoteRow
    <3>3. remote' = [remote EXCEPT ![e][v] = row]
      BY <1>1, <1>2, <2>4, <3>1 DEF Configure
    <3> QED
      BY <2>2, <2>4, <3>2, <3>3 DEF ReadyForReceipts
  <2> QED
    BY <1>3, <2>3, <2>4 DEF Push
<1>6. /\ remote' \in [Environments -> [Merchants -> RemoteRow]]
      /\ CredentialsAreOfConfigurations'
      /\ \A f \in Environments, w \in Merchants :
           ReadyForReceipts(remote[f][w]) => ReadyForReceipts(remote'[f][w])
  <2>1. CASE UNCHANGED remote
    BY <2>1 DEF ProfilesInv, CredentialsAreOfConfigurations
  <2>2. ASSUME NEW row \in RemoteRow, remote' = [remote EXCEPT ![e][v] = row],
               ReadyForReceipts(old) => ReadyForReceipts(row), row.credentials => row.configured
        PROVE  /\ remote' \in [Environments -> [Merchants -> RemoteRow]]
               /\ CredentialsAreOfConfigurations'
               /\ \A f \in Environments, w \in Merchants :
                    ReadyForReceipts(remote[f][w]) => ReadyForReceipts(remote'[f][w])
    <3>1. /\ remote' \in [Environments -> [Merchants -> RemoteRow]]
          /\ \A f \in Environments, w \in Merchants :
               remote'[f][w] = IF f = e /\ w = v THEN row ELSE remote[f][w]
      BY <1>2, <2>2 DEF ProfilesInv
    <3> QED
      BY ZenonT(60), <1>3, <2>2, <3>1 DEF ProfilesInv, CredentialsAreOfConfigurations
  <2> QED
    BY <1>5, <2>1, <2>2
<1>7. profile' = profile
  BY DEF Push
<1> QED
  BY <1>4, <1>6, <1>7, ProfilesKept DEF ProfilesInv

LEMMA GiveCredentialsKeeps ==
  ASSUME ProfilesInv, NEW e \in Environments, NEW v \in Merchants, GiveCredentials(e, v)
  PROVE  ProfilesInv'
<1>1. PICK old : old = remote[e][v] /\ old \in RemoteRow /\ old.configured
  BY DEF GiveCredentials, ProfilesInv
<1>2. PICK row : row = [old EXCEPT !.credentials = TRUE]
  OBVIOUS
<1>3. /\ row \in RemoteRow /\ row.credentials /\ row.configured /\ row.receipts = old.receipts
  BY <1>1, <1>2 DEF RemoteRow
<1>4. remote' = [remote EXCEPT ![e][v] = row] /\ UNCHANGED <<profile, setup>>
  BY <1>1, <1>2 DEF GiveCredentials
<1>5. /\ remote' \in [Environments -> [Merchants -> RemoteRow]]
      /\ CredentialsAreOfConfigurations'
      /\ \A f \in Environments, w \in Merchants :
           ReadyForReceipts(remote[f][w]) => ReadyForReceipts(remote'[f][w])
  BY <1>1, <1>3, <1>4 DEF ProfilesInv, CredentialsAreOfConfigurations, ReadyForReceipts
<1> QED
  BY <1>4, <1>5, ProfilesKept DEF ProfilesInv

LEMMA VerifyKeeps ==
  ASSUME ProfilesInv, NEW a \in Administrators, Verify(a)
  PROVE  ProfilesInv'
<1>1. UNCHANGED <<profile, remote>> /\ setup[a] # NoSetup
  BY DEF Verify, NoSetup
<1>2. /\ setup' \in [Administrators -> SetupRow]
      /\ \A b \in Administrators :
           \/ setup'[b] = setup[b] \/ setup'[b].step # "VERIFIED"
           \/ ~IssuesReceipts(setup'[b].saved)
           \/ ReadyForReceipts(remote["PRODUCTION"][setup'[b].saved.vat])
  <2>1. CASE EndSetup(a)
    BY <2>1, EndsAre
  <2>2. CASE /\ setup' = [setup EXCEPT ![a].step = "VERIFIED"]
             /\ IssuesReceipts(setup[a].saved) => ReadyForReceipts(Remote(a))
    <3>1. setup'[a].saved = setup[a].saved
      BY <1>1, <2>2, StagesAre
    <3>2. IssuesReceipts(setup[a].saved) =>
            ReadyForReceipts(remote["PRODUCTION"][setup[a].saved.vat])
      BY <2>2 DEF IssuesReceipts, Remote
    <3> QED
      BY ZenonT(60), <1>1, <2>2, <3>1, <3>2, StagesAre
  <2> QED
    BY <2>1, <2>2 DEF Verify, IssuesReceipts
<1> QED
  BY <1>1, <1>2, ProfilesKept DEF ProfilesInv, CredentialsAreOfConfigurations

LEMMA SaveProfileKeeps ==
  ASSUME ProfilesInv, NEW a \in Administrators, SaveProfile(a)
  PROVE  ProfilesInv'
<1>1. /\ setup[a].step = "VERIFIED" /\ remote' = remote /\ EndSetup(a)
      /\ profile' = [profile EXCEPT ![setup[a].loc] = setup[a].saved]
  BY DEF SaveProfile
<1>2. setup[a].saved \in ProfileRow
  BY <1>1 DEF ProfilesInv, SetupRow, NoSetup, ProfileRow
<1>3. /\ profile' \in [Locations -> ProfileRow]
      /\ \A l \in Locations : profile'[l] = profile[l] \/ profile'[l] = setup[a].saved
  BY <1>1, <1>2 DEF ProfilesInv
<1>4. /\ setup' \in [Administrators -> SetupRow]
      /\ \A b \in Administrators : setup'[b] = setup[b] \/ setup'[b].step # "VERIFIED"
  BY <1>1, EndsAre
<1> QED
  BY <1>1, <1>3, <1>4, ProfilesKept DEF ProfilesInv, CredentialsAreOfConfigurations

LEMMA CopyKeeps ==
  ASSUME ProfilesInv, NEW l \in Locations, NEW source \in Locations,
         profile' \in {profile, [profile EXCEPT ![l] = CopiedProfile(source)]},
         UNCHANGED <<remote, setup>>
  PROVE  ProfilesInv'
<1>1. PICK p : p = profile[source] /\ p \in ProfileRow
  BY DEF ProfilesInv
<1>2. [p EXCEPT !.enabled = FALSE] \in ProfileRow /\ ~[p EXCEPT !.enabled = FALSE].enabled
  <2>1. \A x \in SavedRow :
          [x EXCEPT !.enabled = FALSE] \in SavedRow /\ ~[x EXCEPT !.enabled = FALSE].enabled
    BY DEF SavedRow
  <2> DEFINE Blank == [provider : {"NONE"}, environment : {"SANDBOX"}, vat : {"NONE"},
                       enabled : {FALSE}]
  <2>2. \A x \in Blank : [x EXCEPT !.enabled = FALSE] \in Blank
    OBVIOUS
  <2>3. [NoProfile EXCEPT !.enabled = FALSE] = NoProfile
    <3>1. NoProfile \in Blank
      BY DEF NoProfile
    <3>2. \A x \in Blank :
            x = [provider |-> x.provider, environment |-> x.environment, vat |-> x.vat,
                 enabled |-> x.enabled]
      OBVIOUS
    <3>3. \A x \in Blank : /\ x.provider = "NONE" /\ x.environment = "SANDBOX"
                           /\ x.vat = "NONE" /\ x.enabled = FALSE
      OBVIOUS
    <3>4. \A x \in Blank : x = NoProfile
      BY <3>2, <3>3, Zenon DEF NoProfile
    <3> QED
      BY <2>2, <3>1, <3>4
  <2>4. ~NoProfile.enabled
    BY DEF NoProfile
  <2> QED
    BY <1>1, <2>1, <2>3, <2>4 DEF ProfileRow
<1>3. /\ profile' \in [Locations -> ProfileRow]
      /\ \A k \in Locations : profile'[k] = profile[k] \/ ~profile'[k].enabled
  BY <1>1, <1>2 DEF ProfilesInv, CopiedProfile
<1> QED
  BY <1>3, ProfilesKept DEF ProfilesInv, CredentialsAreOfConfigurations

LEMMA ProfilesAsTheyWere == ProfilesInv /\ UNCHANGED fiscalVars => ProfilesInv'
  BY DEF ProfilesInv, ProductionIsVerified, CredentialsAreOfConfigurations, VerifiedIsReady,
     IssuesReceipts, ReadyForReceipts, fiscalVars

LEMMA ProfilesStay ==
  ASSUME ProfilesInv, [SetupNext]_setupVars
  PROVE  ProfilesInv'
<1>1. ASSUME NEW a \in Administrators, NEW l \in Locations, NEW m \in Merchants,
             NEW w \in Windows, NEW source \in Existing \cup {"NONE"},
             NEW copies \in SUBSET {"LAYOUT", "PROFILE"},
             PlatformCreateWith(a, l, m, w, source, copies)
      PROVE  ProfilesInv'
  <2>1. UNCHANGED <<remote, setup>>
    BY <1>1 DEF PlatformCreateWith
  <2>2. CASE "PROFILE" \in copies
    <3>1. source \in Locations
      BY <1>1, <2>2 DEF PlatformCreateWith, Existing
    <3>2. profile' = [profile EXCEPT ![l] = CopiedProfile(source)]
      BY <1>1, <2>2 DEF PlatformCreateWith
    <3> QED
      BY <2>1, <3>1, <3>2, CopyKeeps
  <2>3. CASE "PROFILE" \notin copies
    BY <1>1, <2>1, <2>3, ProfilesAsTheyWere DEF PlatformCreateWith, fiscalVars
  <2> QED
    BY <2>2, <2>3
<1>2. FiscalStep => ProfilesInv'
  BY StartSetupKeeps, AskingKeeps, PushKeeps, VerifyKeeps, SaveProfileKeeps,
     GiveCredentialsKeeps DEF FiscalStep
<1>3. LayoutStep => UNCHANGED fiscalVars
  BY DEF LayoutStep, CreateArea, UpdateArea, CreateTable, UpdateTable, SelectLocation,
     LayoutLoaded, LayoutNotLoaded, SelectArea, Replace
<1>4. ASSUME NEW l \in Locations, NEW x \in Activities, AdmitAt(l, x)
      PROVE  UNCHANGED fiscalVars
  BY <1>4 DEF AdmitAt
<1>40. ASSUME NEW l \in Locations, NEW t \in Tables, ReserveAt(l, t)
      PROVE  UNCHANGED fiscalVars
  BY <1>40 DEF ReserveAt
<1>5. ASSUME NEW l \in Locations, NEW m \in Merchants, NEW plan \in Plans, NEW s \in Areas,
             NEW new \in SUBSET Tables, Onboard(l, m, plan, s, new)
      PROVE  UNCHANGED fiscalVars
  BY <1>5 DEF Onboard
<1>6. UNCHANGED setupVars \/ LayoutUnchanged => UNCHANGED fiscalVars
  BY DEF setupVars, fiscalVars, LayoutUnchanged
<1> QED
  BY <1>1, <1>2, <1>3, <1>4, <1>40, <1>5, <1>6, ProfilesAsTheyWere DEF SetupNext, CreateStep

LEMMA EditorsStay ==
  ASSUME SetupInv, [SetupNext]_setupVars, table' \in [Tables -> TableRow]
  PROVE  editor' \in [Administrators -> EditorRow]
<1>1. ASSUME NEW a \in Administrators, NEW l \in Locations, NEW m \in Merchants,
             NEW w \in Windows, NEW source \in Existing \cup {"NONE"},
             NEW copies \in SUBSET {"LAYOUT", "PROFILE"},
             PlatformCreateWith(a, l, m, w, source, copies)
      PROVE  UNCHANGED editor
  BY <1>1 DEF PlatformCreateWith
<1>2. ASSUME NEW l \in Locations, NEW m \in Merchants, NEW plan \in Plans, NEW s \in Areas,
             NEW new \in SUBSET Tables, Onboard(l, m, plan, s, new)
      PROVE  UNCHANGED editor
  BY <1>2 DEF Onboard
<1>3. FiscalStep => UNCHANGED editor
  BY DEF FiscalStep, SetupUnchanged, StartSetup, CheckVatNumber, LookUp, Push, Verify,
     SaveProfile, GiveUpSetup, GiveCredentials
<1>4. ASSUME NEW l \in Locations, NEW x \in Activities, AdmitAt(l, x)
      PROVE  UNCHANGED editor
  BY <1>4 DEF AdmitAt
<1>40. ASSUME NEW l \in Locations, NEW t \in Tables, ReserveAt(l, t)
      PROVE  UNCHANGED editor
  BY <1>40 DEF ReserveAt
<1>5. UNCHANGED setupVars \/ LayoutUnchanged => UNCHANGED editor
  BY DEF setupVars, LayoutUnchanged
<1> QED
  BY <1>1, <1>2, <1>3, <1>4, <1>40, <1>5, EditorStays DEF SetupNext, CreateStep

(***************************************************************************)
(* The setup of a tenant is sound, for any locations, areas, tables and    *)
(* numbers of administrators: platform-locations.service.ts, the layout    *)
(* editor and the service of OpenAPI profiles.                             *)
(***************************************************************************)
THEOREM TenantsStaySound == SetupSpec => []TenantsAreSound
<1> DEFINE Inv == TenancyInv /\ SetupInv
<1>1. SetupInit => Inv
  BY TenancyStarts, SetupStarts DEF SetupInit
<1>2. Inv /\ [SetupNext]_setupVars => Inv'
  <2> SUFFICES ASSUME TenancyInv, SetupInv, [SetupNext]_setupVars
               PROVE  TenancyInv' /\ SetupInv'
    OBVIOUS
  <2>1. TenancyInv'
    BY TenancyStays
  <2>2. LayoutInv'
    BY LayoutStays DEF LayoutInv, SetupInv, SetupTyped
  <2>3. editor' \in [Administrators -> EditorRow]
    BY <2>2, EditorsStay DEF LayoutInv
  <2>4. ProfilesInv'
    BY ProfilesStay DEF ProfilesInv, SetupInv, SetupTyped
  <2> QED
    BY <2>1, <2>2, <2>3, <2>4 DEF LayoutInv, ProfilesInv, SetupInv, SetupTyped
<1>3. Inv => TenantsAreSound
  BY DEF TenancyInv, SetupInv, TenantsAreSound
<1> QED
  BY <1>1, <1>2, <1>3, PTL DEF SetupSpec
=============================================================================
