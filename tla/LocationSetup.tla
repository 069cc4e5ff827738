--------------------------- MODULE LocationSetup ---------------------------
(***************************************************************************)
(* What a location is set up with: its areas and tables, written by an     *)
(* editor that may be showing another location's, and its fiscal profile,  *)
(* which needs a configuration at the provider OpenAPI.  The provider is   *)
(* asked between two reads of the database and the write.                  *)
(***************************************************************************)
EXTENDS Tenancy

CONSTANTS Areas

ASSUME SetupAssumption == "NONE" \notin Areas

VARIABLES
  area,      \* dining_areas: location and status
  table,     \* dining_tables: location, area and status
  editor,    \* administrator -> the location, area and tables on the layout editor
  profile,   \* fiscal_profiles: location -> provider, environment, VAT number, enabled
  remote,    \* the provider's configurations: environment -> VAT number -> what is set
  setup      \* administrator -> the fiscal profile being saved

layoutVars == <<area, table>>
fiscalVars == <<profile, remote, setup>>
setupVars == <<organization, subscription, merchant, location, page, contested,
               admitted, running, reserved, arrived, area, table, editor, profile, remote, setup>>

Environments == {"SANDBOX", "PRODUCTION"}
NoArea == [loc |-> "NONE", status |-> "NONE"]
NoTable == [loc |-> "NONE", area |-> "NONE", status |-> "NONE"]
NoEditor == [loc |-> "NONE", area |-> "NONE", areas |-> {}, tables |-> {}, pending |-> FALSE]
NoProfile == [provider |-> "NONE", environment |-> "SANDBOX", vat |-> "NONE",
              enabled |-> FALSE]
NotConfigured == [configured |-> FALSE, receipts |-> FALSE, credentials |-> FALSE]
NoSetup == [step |-> "IDLE"]

SetupInit ==
  /\ TenancyInit
  /\ area = [s \in Areas |-> NoArea]
  /\ table = [t \in Tables |-> NoTable]
  /\ editor = [a \in Administrators |-> NoEditor]
  /\ profile = [l \in Locations |-> NoProfile]
  /\ remote = [e \in Environments |-> [v \in Merchants |-> NotConfigured]]
  /\ setup = [a \in Administrators |-> NoSetup]

-----------------------------------------------------------------------------
(***************************************************************************)
(* Mistakes this code could contain and does not: each, in the place of    *)
(* the definition it is a variant of, makes a property fail.               *)
(***************************************************************************)
\* The area the editor sends is looked up in the tenant, not at the location.
AreaOfTenant(s, l) == area[s].status = "ACTIVE"

-----------------------------------------------------------------------------
(* Areas and tables *)

Injective(f) == \A x, y \in DOMAIN f : f[x] = f[y] => x = y

AreaAt(s, l) == area[s].loc = l
ActiveArea(s, l) == AreaAt(s, l) /\ area[s].status = "ACTIVE"
TablesOf(s, l) == {t \in Tables : table[t].loc = l /\ table[t].area = s}

NewTables(new, s, l, status) ==
  [t \in Tables |-> IF t \in new THEN [loc |-> l, area |-> s, status |-> status] ELSE table[t]]

Occupied(t) == ~Free(t)

UnusedTables == {t \in Tables : table[t] = NoTable}
UnusedAreas == {s \in Areas : area[s] = NoArea}

\* onboard: the first area, with its tables.
Onboard(l, m, plan, s, new) ==
  /\ OnboardTenant(l, m, plan)
  /\ s \in UnusedAreas /\ new \subseteq UnusedTables
  /\ area' = [area EXCEPT ![s] = [loc |-> l, status |-> "ACTIVE"]]
  /\ table' = NewTables(new, s, l, "ACTIVE")
  /\ UNCHANGED <<editor, fiscalVars>>

CreateArea(l, s) ==
  /\ Entitled("TABLES") /\ l \in Existing /\ Accessible(l) /\ s \in UnusedAreas
  /\ area' = [area EXCEPT ![s] = [loc |-> l, status |-> "ACTIVE"]]
  /\ UNCHANGED <<tenantVars, pageVars, activityVars, table, editor, fiscalVars>>

UpdateArea(s, status) ==
  /\ Entitled("TABLES") /\ area[s] # NoArea /\ Accessible(area[s].loc)
  /\ area' = [area EXCEPT ![s].status = status]
  /\ UNCHANGED <<tenantVars, pageVars, activityVars, table, editor, fiscalVars>>

\* requireAreaAtLocation: of any status.
CreateTable(l, t, s) ==
  /\ Entitled("TABLES") /\ l \in Existing /\ Accessible(l)
  /\ AreaAt(s, l) /\ t \in UnusedTables
  /\ table' = NewTables({t}, s, l, "ACTIVE")
  /\ UNCHANGED <<tenantVars, pageVars, activityVars, area, editor, fiscalVars>>

\* updateTable: what it is not given stays as it is.
UpdateTable(t, s, status) ==
  /\ Entitled("TABLES") /\ t \notin UnusedTables
  /\ Accessible(table[t].loc) /\ AreaAt(s, table[t].loc)
  /\ status = "INACTIVE" /\ table[t].status = "ACTIVE" => ~Occupied(t)
  /\ table' = NewTables({t}, s, table[t].loc, status)
  /\ UNCHANGED <<tenantVars, pageVars, activityVars, area, editor, fiscalVars>>

-----------------------------------------------------------------------------
(* The layout editor *)

\* What a loaded layout shows: the active tables, each with its area.
ShownTables(l, tables) ==
  {<<t, tables[t].area>> : t \in {x \in Tables : tables[x].loc = l /\ tables[x].status = "ACTIVE"}}

\* The location changes on the page at once; the layout when the answer comes.
SelectLocation(a, l) ==
  /\ ~editor[a].pending /\ l \in Existing
  /\ editor' = [editor EXCEPT ![a] = [@ EXCEPT !.loc = l, !.pending = TRUE]]
  /\ UNCHANGED <<tenantVars, pageVars, activityVars, layoutVars, fiscalVars>>

LayoutLoaded(a) ==
  /\ editor[a].pending
  /\ LET l == editor[a].loc
         active == {s \in Areas : ActiveArea(s, l)} IN
       \E s \in IF active = {} THEN {"NONE"} ELSE active :
         editor' = [editor EXCEPT ![a] =
           [loc |-> l, area |-> s, areas |-> active, tables |-> ShownTables(l, table),
            pending |-> FALSE]]
  /\ UNCHANGED <<tenantVars, pageVars, activityVars, layoutVars, fiscalVars>>

\* The layout of the location shown before stays on the page.
LayoutNotLoaded(a) ==
  /\ editor[a].pending
  /\ editor' = [editor EXCEPT ![a].pending = FALSE]
  /\ UNCHANGED <<tenantVars, pageVars, activityVars, layoutVars, fiscalVars>>

SelectArea(a, s) ==
  /\ ~editor[a].pending /\ s \in editor[a].areas
  /\ editor' = [editor EXCEPT ![a].area = s]
  /\ UNCHANGED <<tenantVars, pageVars, activityVars, layoutVars, fiscalVars>>

\* replace: tables kept, tables added, and those of the area that were left out, which
\* become inactive unless a party sits there.
ReplacedTables(s, l, kept, new, removed) ==
  [t \in Tables |-> IF t \in kept THEN [table[t] EXCEPT !.status = "ACTIVE"]
                    ELSE IF t \in removed THEN [table[t] EXCEPT !.status = "INACTIVE"]
                    ELSE NewTables(new, s, l, "ACTIVE")[t]]

Replace(a, kept, new) ==
  LET l == editor[a].loc
      s == editor[a].area
      removed == TablesOf(s, l) \ kept IN
  /\ ~editor[a].pending /\ s # "NONE" /\ ActiveArea(s, l)
  /\ \A t \in kept : <<t, s>> \in editor[a].tables /\ t \in TablesOf(s, l)
  /\ new \subseteq UnusedTables
  /\ \A t \in removed : ~Occupied(t)
  /\ table' = ReplacedTables(s, l, kept, new, removed)
  /\ \/ editor' = [editor EXCEPT ![a] =
          [@ EXCEPT !.areas = {z \in Areas : ActiveArea(z, l)}, !.tables = ShownTables(l, table')]]
     \/ editor' = editor
  /\ UNCHANGED <<tenantVars, pageVars, activityVars, area, fiscalVars>>

\* A session takes an active table of the location.
AdmitAt(l, x) ==
  /\ Admit(l, x)
  /\ x \in Tables => table[x].loc = l /\ table[x].status = "ACTIVE"
  /\ UNCHANGED <<layoutVars, editor, fiscalVars>>

\* A reservation is of a table of the event's location.
ReserveAt(l, t) ==
  /\ Reserve(l, t) /\ table[t].loc = l
  /\ UNCHANGED <<layoutVars, editor, fiscalVars>>

-----------------------------------------------------------------------------
(* The fiscal profile *)

Configurable(l) == l \in Existing /\ Lifecycle(l) # "ARCHIVED"

StartSetup(a, l, provider, environment, vat, enabled) ==
  /\ setup[a] = NoSetup /\ Configurable(l)
  /\ setup' = [setup EXCEPT ![a] =
       [step |-> IF provider = "OPENAPI" THEN "LOCATION" ELSE "VERIFIED", loc |-> l,
        before |-> NotConfigured,
        saved |-> [provider |-> provider, environment |-> environment, vat |-> vat,
                   enabled |-> enabled]]]
  /\ UNCHANGED <<tenantVars, pageVars, activityVars, layoutVars, editor, profile, remote>>

EndSetup(a) == setup' = [setup EXCEPT ![a] = NoSetup]

SetupUnchanged == UNCHANGED <<tenantVars, pageVars, activityVars, layoutVars, editor>>

\* OPENAPI_FISCAL_ID_CHANGE_BLOCKED.
CheckVatNumber(a) ==
  /\ setup[a].step = "LOCATION"
  /\ LET existing == profile[setup[a].loc] IN
       IF existing.provider = "OPENAPI" /\ existing.vat # setup[a].saved.vat
       THEN EndSetup(a) ELSE setup' = [setup EXCEPT ![a].step = "EXISTING"]
  /\ SetupUnchanged /\ UNCHANGED <<profile, remote>>

Remote(a) == remote[setup[a].saved.environment][setup[a].saved.vat]

LookUp(a) ==
  /\ setup[a].step = "EXISTING"
  /\ setup' = [setup EXCEPT ![a] = [@ EXCEPT !.step = "LOOKED_UP", !.before = Remote(a)]]
  /\ SetupUnchanged /\ UNCHANGED <<profile, remote>>

Configure(a, value) ==
  remote' = [remote EXCEPT ![setup[a].saved.environment][setup[a].saved.vat] = value]

\* PATCH an existing configuration, where receipts may be switched on, or POST one; the
\* answer may be lost.
Push(a) ==
  LET sandbox == setup[a].saved.environment = "SANDBOX" IN
  /\ setup[a].step = "LOOKED_UP"
  /\ \/ /\ setup[a].before.configured /\ (sandbox \/ setup[a].before.credentials)
        /\ Configure(a, [Remote(a) EXCEPT !.receipts = TRUE])
     \/ /\ setup[a].before.configured /\ ~sandbox /\ ~setup[a].before.credentials
        /\ UNCHANGED remote
     \/ /\ ~setup[a].before.configured /\ ~Remote(a).configured
        /\ Configure(a, [configured |-> TRUE, receipts |-> sandbox, credentials |-> FALSE])
  /\ setup' = [setup EXCEPT ![a].step = "PUSHED"] \/ EndSetup(a)
  /\ SetupUnchanged /\ UNCHANGED profile

ReadyForReceipts(r) == r.receipts /\ r.credentials

\* The configuration is read back.
Verify(a) ==
  /\ setup[a].step = "PUSHED"
  /\ LET saved == setup[a].saved IN
       IF /\ Remote(a).configured
          /\ saved.environment = "PRODUCTION" /\ saved.enabled => ReadyForReceipts(Remote(a))
       THEN setup' = [setup EXCEPT ![a].step = "VERIFIED"] ELSE EndSetup(a)
  /\ SetupUnchanged /\ UNCHANGED <<profile, remote>>

SaveProfile(a) ==
  /\ setup[a].step = "VERIFIED"
  /\ profile' = [profile EXCEPT ![setup[a].loc] = setup[a].saved]
  /\ EndSetup(a)
  /\ SetupUnchanged /\ UNCHANGED remote

\* A request of the provider fails.
GiveUpSetup(a) ==
  /\ setup[a].step # "IDLE"
  /\ EndSetup(a)
  /\ SetupUnchanged /\ UNCHANGED <<profile, remote>>

\* The merchant gives the provider its credentials, on the provider's own site.
GiveCredentials(environment, vat) ==
  /\ remote[environment][vat].configured
  /\ remote' = [remote EXCEPT ![environment][vat].credentials = TRUE]
  /\ SetupUnchanged /\ UNCHANGED <<profile, setup>>

\* A copied profile is disabled.
CopiedProfile(source) == [profile[source] EXCEPT !.enabled = FALSE]

\* copyLayout: the areas of the source become new ones, and so do the tables in them.
CopiesLayout(l, source, copyOf, origin) ==
  /\ Injective(copyOf) /\ Injective(origin)
  /\ {origin[t] : t \in DOMAIN origin} =
       {t \in Tables : table[t].loc = source /\ table[t].area \in DOMAIN copyOf}
  /\ area' = [z \in Areas |->
       IF \E s \in DOMAIN copyOf : copyOf[s] = z
       THEN [loc |-> l, status |-> IF \E s \in DOMAIN copyOf :
                                        copyOf[s] = z /\ area[s].status = "ACTIVE"
                                   THEN "ACTIVE" ELSE "INACTIVE"]
       ELSE area[z]]
  /\ table' = [t \in Tables |->
       IF t \in DOMAIN origin
       THEN [loc |-> l, area |-> copyOf[table[origin[t]].area], status |-> table[origin[t]].status]
       ELSE table[t]]

\* create, with the copies it was asked for.
PlatformCreateWith(a, l, m, window, source, copies) ==
  /\ PlatformCreate(a, l, m, window)
  /\ source = "NONE" => copies = {}
  /\ source # "NONE" => RequireSource(source, m)
  /\ IF "LAYOUT" \in copies
     THEN \E copyOf \in [{s \in Areas : AreaAt(s, source)} -> UnusedAreas],
             added \in SUBSET UnusedTables :
            \E origin \in [added -> Tables] : CopiesLayout(l, source, copyOf, origin)
     ELSE UNCHANGED layoutVars
  /\ profile' = IF "PROFILE" \in copies
                THEN [profile EXCEPT ![l] = CopiedProfile(source)] ELSE profile
  /\ UNCHANGED <<editor, remote, setup>>

-----------------------------------------------------------------------------
LayoutUnchanged == UNCHANGED <<layoutVars, editor, fiscalVars>>

TenantStep ==
  \/ \E plan \in Plans : ProvisionOrganization(plan)
  \/ \E plan \in Plans, status \in {"ACTIVE", "TRIAL", "SUSPENDED"} :
       SetSubscription(plan, status)
  \/ \E m \in Merchants :
       \/ CreateMerchant(m)
       \/ \E status \in {"ACTIVE", "INACTIVE"} : UpdateMerchant(m, status)
       \/ \E l \in Locations : CreateLocation(l, m) \/ UpdateLocation(l, m)

PageStep ==
  \E a \in Administrators :
    \/ Refresh(a) \/ GiveUpRequest(a) \/ AssertCanStop(a)
    \/ WriteUpdate(a) \/ WriteStatus(a) \/ WriteArchive(a)
    \/ \E l \in Locations, op \in {"UPDATE", "ACTIVE", "INACTIVE", "ARCHIVED"},
          window \in Windows : Get(a, l, op, window)

ActivityStep ==
  \E l \in Locations, x \in Activities :
    \/ StartActivity(l, x) \/ Withdraw(l, x) \/ FinishActivity(l, x)
    \/ DropReservation(l, x) \/ CheckIn(l, x) \/ EndVisit(l, x)

LayoutStep ==
  \/ \E l \in Locations, s \in Areas :
       CreateArea(l, s) \/ \E t \in Tables : CreateTable(l, t, s)
  \/ \E s \in Areas, status \in {"ACTIVE", "INACTIVE"} :
       UpdateArea(s, status) \/ \E t \in Tables : UpdateTable(t, s, status)
  \/ \E a \in Administrators :
       \/ LayoutLoaded(a) \/ LayoutNotLoaded(a)
       \/ \E l \in Locations : SelectLocation(a, l)
       \/ \E s \in Areas : SelectArea(a, s)
       \/ \E kept, new \in SUBSET Tables : Replace(a, kept, new)

FiscalStep ==
  \/ \E a \in Administrators :
       \/ \E l \in Locations, provider \in {"OPENAPI", "OTHER"}, environment \in Environments,
             vat \in Merchants, enabled \in BOOLEAN :
            StartSetup(a, l, provider, environment, vat, enabled)
       \/ CheckVatNumber(a) \/ LookUp(a) \/ Push(a) \/ Verify(a) \/ SaveProfile(a)
       \/ GiveUpSetup(a)
  \/ \E environment \in Environments, vat \in Merchants : GiveCredentials(environment, vat)

CreateStep ==
  \/ \E l \in Locations, m \in Merchants, plan \in Plans, s \in Areas, new \in SUBSET Tables :
       Onboard(l, m, plan, s, new)
  \/ \E a \in Administrators, l \in Locations \ Existing, m \in Merchants,
        window \in Windows, source \in Existing \cup {"NONE"},
        copies \in SUBSET {"LAYOUT", "PROFILE"} :
       PlatformCreateWith(a, l, m, window, source, copies)

SetupNext ==
  \/ (TenantStep \/ PageStep \/ ActivityStep) /\ LayoutUnchanged
  \/ \E l \in Locations, x \in Activities : AdmitAt(l, x)
  \/ \E l \in Locations, t \in Tables : ReserveAt(l, t)
  \/ CreateStep \/ LayoutStep \/ FiscalStep

SetupSpec == SetupInit /\ [][SetupNext]_setupVars

-----------------------------------------------------------------------------
(* Properties *)

\* A table is at the location of its area, although the editor may send the area of one
\* location with another: its page goes on showing what it could not replace.
TablesAreInTheirArea ==
  \A t \in Tables \ UnusedTables : AreaAt(table[t].area, table[t].loc)

\* A location issues real receipts through OpenAPI only when the provider has receipts
\* and credentials for its VAT number (platform-openapi-fiscal.service.ts:151), although
\* the provider is asked before the profile is written and a profile may be copied.
ProductionIsVerified ==
  \A l \in Locations :
    profile[l].provider = "OPENAPI" /\ profile[l].environment = "PRODUCTION"
      /\ profile[l].enabled => ReadyForReceipts(remote["PRODUCTION"][profile[l].vat])

(***************************************************************************)
(* The setup of a tenant is sound: its locations are in one state, closed  *)
(* for good when archived and, when stopped, without events and parties    *)
(* that needed an active location, with tables where their areas are and   *)
(* receipts only where the provider can issue them.                        *)
(***************************************************************************)
TenantsAreSound ==
  /\ LifecyclesAgree /\ WindowsAreValid /\ ArchivedForGood /\ StoppedIsEmpty
  /\ TablesAreInTheirArea /\ ProductionIsVerified
=============================================================================
