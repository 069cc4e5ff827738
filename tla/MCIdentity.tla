----------------------------- MODULE MCIdentity -----------------------------
(***************************************************************************)
(* Who may act and where, for TLC: one run of six parts that share no      *)
(* step.  The sessions of a user on a browser with two tabs, those on a    *)
(* POS, the members of an organization; the life of its locations, their   *)
(* areas and tables, and their fiscal profiles.                            *)
(***************************************************************************)
EXTENDS AuthSessions, OrganizationMembers, LocationSetup, TLC

CONSTANTS web, pos

VARIABLE part

mcVars == <<part, vars, membersVars, setupVars>>

MCInit ==
  /\ part \in {"web", "pos", "members", "lifecycle", "layout", "profiles"}
  /\ Init /\ MembersInit /\ SetupInit

Only(d) == \A c \in Calls : calls'[c].device \in {d, NoOrg}
SpentAtMost(expiries, switches, signOuts, decisions, losses) ==
  /\ spent'.expiries <= expiries /\ spent'.switches <= switches
  /\ spent'.signOuts <= signOuts
  /\ spent'.decisions <= decisions /\ spent'.losses <= losses

\* What is alike is made in one order.
First(set) == CHOOSE x \in set : TRUE
Admin == First(Administrators)
AtMostOne(set) == Cardinality(set) <= 1
AWindow == CHOOSE w \in Windows : w.kind = "TEMPORARY" /\ ValidWindow(w)

OneTenant ==
  /\ First(Locations) \in Existing' \/ Existing' = {}
  /\ table'[First(Tables)] # NoTable \/ UnusedTables' = Tables
  /\ area'[First(Areas)] # NoArea \/ UnusedAreas' = Areas
  /\ \A m \in Merchants \ {First(Merchants)} : merchant'[m] = "NONE"
  /\ merchant'[First(Merchants)] # "INACTIVE"
  /\ subscription' \in [plan : {"SALA"}, status : {"ACTIVE", "SUSPENDED"}] \cup {subscription}
  /\ organization = "NONE" => subscription'.plan = "SALA"
  /\ \A l \in Locations : location'[l].window \in {NoWindow, AWindow}

\* One location, an activity and a reservation, two administrators, of whom one begins.
LifecyclePart ==
  /\ \/ (TenantStep \/ PageStep \/ ActivityStep) /\ LayoutUnchanged
     \/ \E l \in Locations, x \in Activities : Admit(l, x) /\ LayoutUnchanged
     \/ \E l \in Locations : Reserve(l, First(Tables)) /\ LayoutUnchanged
     \/ \E b \in Administrators, l \in Locations, m \in Merchants, w \in Windows :
          PlatformCreateWith(b, l, m, w, "NONE", {})
  /\ AtMostOne(Existing') /\ AtMostOne(running' \cup admitted')
  /\ AtMostOne(reserved' \cup arrived')
  /\ reserved' \cup arrived' # {} =>
       \A b \in Administrators \ {Admin} : page'[b].request = NoRequest
  /\ \A l \in Locations, t \in Tables \ {First(Tables)} : <<l, t>> \notin admitted'
  /\ running' \cup admitted' # {} => \A l \in Locations : location'[l].window = NoWindow
  /\ \A b \in Administrators \ {Admin} :
       page[b].request = NoRequest /\ page'[b].request # NoRequest =>
         page[Admin].request # NoRequest
  /\ AtMostOne({b \in Administrators : page'[b].request.step = "DONE"})

\* Locations are only created: the second one copies the first.
Quiet ==
  /\ \A b \in Administrators : page'[b].listed = [l \in Locations |-> "NONE"]
  /\ \A b \in Administrators \ {Admin} : page'[b] = page[b]
  /\ page[Admin].request # NoRequest => page'[Admin].request = NoRequest
  /\ \A l \in Locations : location'[l].window = NoWindow
  /\ subscription' = subscription \/ organization = "NONE"
  /\ \A l \in Locations \ Existing :
       l \in Existing' /\ Existing # {} => location'[l].lifecycle = "ACTIVE"

\* An event and what is booked for it.
Evening == reserved \cup arrived \cup ((running \cup admitted) \cap (Locations \X Events))

LayoutPart ==
  /\ SetupNext /\ UNCHANGED fiscalVars
  /\ Quiet
  /\ organization' # "NONE" => Existing' # {}
  /\ AtMostOne({s \in Areas : area'[s].status = "INACTIVE"} \cup running' \cup admitted')
  /\ AtMostOne({s \in Areas : area'[s].status = "INACTIVE"} \cup reserved' \cup arrived')
  /\ \A l \in Locations, t \in Tables \ {First(Tables)} :
       <<l, t>> \notin admitted' \cup reserved'
  /\ Evening' # {} => AtMostOne(Existing') /\ AtMostOne({s \in Areas : area'[s] # NoArea})
  /\ admitted' \cup Evening' # {} =>
       page'[Admin].request = NoRequest /\ ~editor'[Admin].pending /\ editor'[Admin].loc # "NONE"
  /\ \A b \in Administrators \ {Admin} : editor'[b] = editor[b]

\* One configuration at the provider; the second administrator saves one profile.
Saved ==
  {[provider |-> "OTHER", environment |-> "SANDBOX", vat |-> First(Merchants), enabled |-> TRUE]}
  \cup {p \in [provider : {"OPENAPI"}, environment : Environments, vat : Merchants,
                enabled : BOOLEAN] :
         p.environment = "SANDBOX" \/ ~p.enabled =>
           p.vat = First(Merchants) /\ (p.enabled <=> p.environment = "SANDBOX")}

ProfilesPart ==
  /\ (TenantStep /\ LayoutUnchanged) \/ CreateStep \/ FiscalStep
  /\ UNCHANGED layoutVars
  /\ Quiet
  /\ \A l \in Locations \ Existing :
       l \in Existing' /\ Existing # {} => profile'[l].provider # "NONE"
  /\ AtMostOne({l \in Locations : profile'[l].enabled})
  /\ AtMostOne({c \in Environments \X Merchants : remote'[c[1]][c[2]].configured})
  /\ setup'[Admin] # NoSetup => \A l \in Locations \ {setup'[Admin].loc} : ~profile'[l].enabled
  /\ \A b \in Administrators : setup'[b] # NoSetup => setup'[b].saved \in Saved
  /\ \A b \in Administrators \ {Admin} : setup'[b] # NoSetup =>
       setup[Admin] # NoSetup /\ setup'[b].saved \in [provider : {"OPENAPI"},
         environment : {"PRODUCTION"}, vat : Merchants, enabled : {TRUE}]

MCNext ==
  /\ \/ /\ part = "web" /\ Next /\ Only(web) /\ SpentAtMost(1, 1, 0, 1, 1)
        /\ spent'.expiries + spent'.switches + spent'.losses + spent'.decisions <= 2
        /\ UNCHANGED <<membersVars, setupVars>>
     \/ /\ part = "pos" /\ Next /\ Only(pos) /\ SpentAtMost(2, 1, 1, 1, 1)
        /\ spent'.switches + spent'.losses + spent'.signOuts <= 1
        /\ spent'.expiries + spent'.switches + spent'.losses + spent'.signOuts <= 2
        /\ UNCHANGED <<membersVars, setupVars>>
     \/ part = "members" /\ MembersNext /\ UNCHANGED <<vars, setupVars>>
     \/ /\ \/ part = "lifecycle" /\ LifecyclePart
           \/ part = "layout" /\ LayoutPart
           \/ part = "profiles" /\ ProfilesPart
        /\ OneTenant /\ UNCHANGED <<vars, membersVars>>
  /\ UNCHANGED part

MCSpec == MCInit /\ [][MCNext]_mcVars

Symmetries ==
  Permutations(Calls) \cup Permutations(Orgs) \cup Permutations(Users)
=============================================================================
