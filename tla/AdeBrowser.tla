----------------------------- MODULE AdeBrowser -----------------------------
(***************************************************************************)
(* The pages of the Agenzia delle Entrate, driven by the ADE fiscal worker *)
(* for several sellers at once: submits of commercial documents (DCO), one *)
(* at a time for each fiscal id, dry runs that stop where a document would *)
(* be issued, and sign-ins that save a session to the file of a fiscal id. *)
(* Pages are kept for later documents in a pool that closes the oldest one *)
(* when it overflows, though a submit may be driving it.                   *)
(***************************************************************************)
EXTENDS Integers, Sequences, FiniteSets, SequencesExt

CONSTANTS
  FiscalIds,     \* sellers
  Default,       \* incaricanteCf of the configuration
  SessionDir,    \* storageStateDir is configured: a file for each fiscal id
  PoolMax,       \* pages kept
  Dcos,          \* documents
  Seller, Rows,  \* the fiscal id and the number of items of each
  Electronic,    \* documents paid electronically, at least in part
  MaxSessions    \* bound: sessions saved for a fiscal id

ASSUME BrowserAssumption ==
  /\ Default \in FiscalIds /\ SessionDir \in BOOLEAN
  /\ PoolMax \in Nat \ {0} /\ MaxSessions \in Nat
  /\ Seller \in [Dcos -> FiscalIds] /\ Rows \in [Dcos -> Nat]

DryRun == "DRY RUN"
Nobody == "NOBODY"
ASSUME DryRunAssumption == {DryRun, Nobody} \cap FiscalIds = {}

Runs == FiscalIds \cup {DryRun}
Owner(r) == IF r = DryRun THEN Default ELSE r

VARIABLES
  saved,      \* storage state files: fiscal id -> version, and who the session works as
  signIn,     \* the sign-in under way
  pool,       \* run -> its page: version of its session, of its fingerprint, open
  recent,     \* the submits' pages in the pool, the least recently used first
  chromium,   \* connected: the submits' and the dry runs'
  drive,      \* run -> the document and how far it is
  told,       \* document -> the last answer
  clicked     \* history: Procedi, with what the page would issue

browserVars == <<saved, signIn, pool, recent, chromium, drive, told, clicked>>

NoSignIn == [step |-> "IDLE", target |-> Nobody, as |-> Nobody, by |-> Nobody]
NoPage == [stamp |-> 0, version |-> 0, as |-> Nobody, open |-> FALSE]
NoDrive == [step |-> "IDLE", try |-> "FIRST", dco |-> Nobody, since |-> 0, stamp |-> 0,
            rows |-> 0, right |-> TRUE]

BrowserInit ==
  /\ saved = [f \in FiscalIds |-> [version |-> 0, as |-> Nobody]]
  /\ signIn = NoSignIn
  /\ pool = [r \in Runs |-> NoPage] /\ recent = <<>>
  /\ chromium = [submits |-> TRUE, dryRuns |-> TRUE]
  /\ drive = [r \in Runs |-> NoDrive]
  /\ told = [d \in Dcos |-> "NONE"] /\ clicked = {}

-----------------------------------------------------------------------------
(***************************************************************************)
(* Mistakes this code could contain and does not: each, in the place of    *)
(* the definition it is a variant of, makes a property fail.               *)
(***************************************************************************)
\* A page is reused whatever session it was opened with.
AnySession(r) == pool[r] # NoPage
-----------------------------------------------------------------------------
(* Sessions *)

\* resolvePath: without a directory the only file is the default fiscal id's.
Resolved(f) == SessionDir \/ f = Default

StartSignIn(f, by) ==
  /\ signIn = NoSignIn
  /\ saved[f].version < MaxSessions /\ Resolved(f)
  /\ signIn' = [step |-> "LOGIN", target |-> f, as |-> Nobody, by |-> by]

\* The sign-in ends; the submit or the dry run that asked for it goes on or ends.
SignInEnds(succeeded) ==
  LET r == signIn.by IN
  /\ signIn' = NoSignIn
  /\ IF r \notin Runs THEN UNCHANGED <<drive, told>>
     ELSE IF succeeded
     THEN /\ drive' = [drive EXCEPT ![r] = [@ EXCEPT !.step = "SESSION", !.try = "SECOND",
                                            !.since = saved'[Owner(r)].version]]
          /\ UNCHANGED told
     ELSE /\ drive' = [drive EXCEPT ![r] = NoDrive]
          /\ told' = IF r = DryRun THEN told ELSE [told EXCEPT ![drive[r].dco] = "FAILED"]

\* POST /internal/auth/refresh.
OperatorSignsIn(f) ==
  /\ StartSignIn(f, Nobody)
  /\ UNCHANGED <<saved, pool, recent, chromium, drive, told, clicked>>

\* The user name, the password and the PIN.
GiveFisconlineCredentials ==
  /\ signIn.step = "LOGIN"
  /\ signIn' = [signIn EXCEPT !.step = "SIGNED"]
  /\ UNCHANGED <<saved, pool, recent, chromium, drive, told, clicked>>

\* selectOptionByCf: the option of the fiscal id, or none.
SelectedOption(f) == f

SwitchToIncaricante ==
  /\ signIn.step = "SIGNED"
  /\ signIn' = [signIn EXCEPT !.step = "SWITCHED", !.as = SelectedOption(signIn.target)]
  /\ UNCHANGED <<saved, pool, recent, chromium, drive, told, clicked>>

OpenFattureService ==
  /\ signIn.step = "SWITCHED"
  /\ signIn' = [signIn EXCEPT !.step = "SERVICE"]
  /\ UNCHANGED <<saved, pool, recent, chromium, drive, told, clicked>>

CompleteWorkProfile ==
  /\ signIn.step = "SERVICE"
  /\ signIn' = [signIn EXCEPT !.step = "PROFILE", !.as = SelectedOption(signIn.target)]
  /\ UNCHANGED <<saved, pool, recent, chromium, drive, told, clicked>>

\* The storage state is written when the whole flow has succeeded.
SaveSession ==
  /\ signIn.step = "PROFILE"
  /\ saved' = [saved EXCEPT ![signIn.target] = [version |-> @.version + 1, as |-> signIn.as]]
  /\ SignInEnds(TRUE)
  /\ UNCHANGED <<pool, recent, chromium, clicked>>

\* A page of the portal is not as expected, or not there in time.
SignInFails ==
  /\ signIn # NoSignIn
  /\ SignInEnds(FALSE)
  /\ UNCHANGED <<saved, pool, recent, chromium, clicked>>

-----------------------------------------------------------------------------
(* The end of a run *)

RunEnds(r, answer) ==
  /\ drive' = [drive EXCEPT ![r] = NoDrive]
  /\ told' = IF r = DryRun THEN told ELSE [told EXCEPT ![drive[r].dco] = answer]

\* shouldRefreshSession.
AsksForSession(kind) == kind \in {"SESSION_REQUIRED", "SESSION_INVALID", "ENTRY_UNAVAILABLE"}

\* An error before Procedi: one sign-in, then one more try.
RunFails(r, kind) ==
  IF AsksForSession(kind) /\ drive[r].try = "FIRST"
  THEN drive' = [drive EXCEPT ![r].step = "REFRESH"] /\ UNCHANGED told
  ELSE RunEnds(r, "FAILED")

\* reset: the page and its context are closed.
PageResets(r) ==
  /\ pool' = [pool EXCEPT ![r] = NoPage]
  /\ recent' = Remove(recent, r)

SessionUnchanged == UNCHANGED <<saved, signIn, chromium>>
PoolUnchanged == UNCHANGED <<pool, recent>>

-----------------------------------------------------------------------------
(* The page of a session *)

\* tryAcquire: one submit for each fiscal id, and one dry run.
StartDrive(r, d) ==
  /\ drive[r] = NoDrive
  /\ r # DryRun => Seller[d] = r /\ told[d] \in {"NONE", "FAILED"}
  /\ drive' = [drive EXCEPT ![r] = [NoDrive EXCEPT !.step = "SESSION", !.dco = d,
                                    !.since = saved[Owner(r)].version]]
  /\ SessionUnchanged /\ PoolUnchanged /\ UNCHANGED <<told, clicked>>

\* The fingerprint of the session's file, or none.
ReadFingerprint(r) ==
  /\ drive[r].step = "SESSION"
  /\ \/ /\ Resolved(Owner(r)) /\ saved[Owner(r)].version > 0
        /\ drive' = [drive EXCEPT ![r] = [@ EXCEPT !.step = "PAGE",
                                          !.stamp = saved[Owner(r)].version]]
        /\ UNCHANGED told
     \/ \E kind \in {"SESSION_REQUIRED", "SESSION_INVALID"} : RunFails(r, kind)
  /\ SessionUnchanged /\ PoolUnchanged /\ UNCHANGED clicked

Service(r) == IF r = DryRun THEN "dryRuns" ELSE "submits"

\* The pages of a Chromium that is no longer connected are reset.
Connected(r) ==
  [q \in Runs |-> IF Service(q) = Service(r) /\ ~chromium[Service(r)] THEN NoPage ELSE pool[q]]

SameSession(r) == pool[r] # NoPage /\ pool[r].stamp = drive[r].stamp

\* A page of the pool, a new one in its context, or one with the session as it now is.
TakenPage(r) ==
  LET kept == Connected(r)[r]
      again == [kept EXCEPT !.open = TRUE]
      new == [stamp |-> drive[r].stamp, version |-> saved[Owner(r)].version,
              as |-> saved[Owner(r)].as, open |-> TRUE] IN
  IF kept # NoPage /\ SameSession(r)
  THEN IF kept.open THEN {kept} ELSE {again, new}
  ELSE {new}

\* touch or set, then evictOverflow: the least recently used is closed.
Evicted(pages, used) ==
  {r \in FiscalIds : /\ Cardinality({q \in FiscalIds : pages[q] # NoPage}) > PoolMax
                     /\ used # <<>> /\ r = Head(used)}

TakePage(r) ==
  /\ drive[r].step = "PAGE"
  /\ \E page \in TakenPage(r) :
       LET pages == [Connected(r) EXCEPT ![r] = page]
           kept == IF chromium[Service(r)] \/ r = DryRun THEN recent ELSE <<>>
           used == IF r = DryRun THEN kept ELSE Append(Remove(kept, r), r) IN
       /\ pool' = [q \in Runs |-> IF q \in Evicted(pages, used) THEN NoPage ELSE pages[q]]
       /\ recent' = IF Evicted(pages, used) = {} THEN used ELSE Tail(used)
  /\ chromium' = [chromium EXCEPT ![Service(r)] = TRUE]
  /\ drive' = [drive EXCEPT ![r].step = "OPEN"]
  /\ UNCHANGED <<saved, signIn, told, clicked>>

\* Chromium does not start, or the context does not load the session.
NoPageTaken(r) ==
  /\ drive[r].step = "PAGE"
  /\ \/ ~chromium[Service(r)] /\ RunFails(r, "BROWSER_UNAVAILABLE") /\ PoolUnchanged
     \/ ~(SameSession(r) /\ pool[r].open) /\ RunFails(r, "SESSION_INVALID") /\ PageResets(r)
  /\ SessionUnchanged /\ UNCHANGED clicked

-----------------------------------------------------------------------------
(* Driving the page *)

Advances(r, step) == drive' = [drive EXCEPT ![r].step = step] /\ UNCHANGED told

\* What a step of the page may do: go on, if the page is open, or fail.
PageStep(r, at, next, kinds) ==
  /\ drive[r].step = at
  /\ \/ pool[r].open /\ Advances(r, next)
     \/ \E kind \in kinds : RunFails(r, kind)
  /\ SessionUnchanged /\ PoolUnchanged /\ UNCHANGED clicked

\* AdeDcoBootstrapGuard: what the portal answers while the page of documents opens.
GuardSees == {"SESSION_INVALID", "UPSTREAM_UNAVAILABLE"}

\* The DCO page directly, or by the home page.
OpenDocumentGenerator(r) ==
  PageStep(r, "OPEN", "ITEMS", GuardSees \cup {"ENTRY_UNAVAILABLE", "FLOW_MISMATCH"})

\* The page is reset after an error of the browser or of the navigation.
NavigationFails(r) ==
  /\ drive[r].step = "OPEN"
  /\ RunFails(r, "NAVIGATION_FAILED") /\ PageResets(r)
  /\ SessionUnchanged /\ UNCHANGED clicked

\* The value is read back: the page's masks may have changed it.
ReadBack(shown) == shown

PageFills(r, filled) ==
  /\ \/ \E shown \in BOOLEAN :
          /\ pool[r].open /\ ReadBack(shown)
          /\ drive' = [drive EXCEPT ![r] = [filled EXCEPT !.right = @ /\ shown]]
          /\ UNCHANGED told
     \/ RunFails(r, "FLOW_MISMATCH")
  /\ SessionUnchanged /\ PoolUnchanged /\ UNCHANGED clicked

\* Quantity, description, price and VAT rate of a row.
FillItem(r) ==
  /\ drive[r].step = "ITEMS" /\ drive[r].rows < Rows[drive[r].dco]
  /\ PageFills(r, [drive[r] EXCEPT !.rows = @ + 1])

FillPayment(r) ==
  /\ drive[r].step = "ITEMS" /\ drive[r].rows = Rows[drive[r].dco]
  /\ PageFills(r, [drive[r] EXCEPT !.step = "VERIFY"])

\* The descriptions and the total of the summary: a page that does not show them fails.
VerifySummary(r) == PageStep(r, "VERIFY", "ADVANCE", {"VERIFY_MISMATCH"})

\* Electronic payments may show a notice.
AdvanceToConfirmation(r) ==
  \/ PageStep(r, "ADVANCE", "CONFIRM", {"FLOW_MISMATCH"})
  \/ drive[r].dco \in Electronic /\ PageStep(r, "ADVANCE", "NOTICE", {})

AcknowledgeNotice(r) == PageStep(r, "NOTICE", "CONFIRM", {"FLOW_MISMATCH"})

\* Conferma, which shows Procedi and Annulla.
Confirm(r) == PageStep(r, "CONFIRM", "BOUNDARY", {"FLOW_MISMATCH", "BOUNDARY_NOT_FOUND"})

ClicksFor(d) == {c \in clicked : c.dco = d}

\* Procedi, which may have no effect; from here on the outcome is unknown.
ClickProceed(r) ==
  /\ r # DryRun /\ drive[r].step = "BOUNDARY"
  /\ Advances(r, "CLICKED")
  /\ \/ /\ pool[r].open
        /\ clicked' = clicked \cup {[dco |-> drive[r].dco, as |-> pool[r].as,
                                     right |-> drive[r].right, rows |-> drive[r].rows,
                                     nth |-> Cardinality(ClicksFor(drive[r].dco)) + 1]}
     \/ UNCHANGED clicked
  /\ SessionUnchanged /\ PoolUnchanged

\* The dry run closes the confirmation with Annulla.
ClickCancel ==
  /\ drive[DryRun].step = "BOUNDARY" /\ pool[DryRun].open
  /\ RunEnds(DryRun, "READY")
  /\ SessionUnchanged /\ PoolUnchanged /\ UNCHANGED clicked

HasIssued(d) == ClicksFor(d) # {}

\* A download or a new link, in time; otherwise the page is reset.
WaitForEvidence(r) ==
  /\ drive[r].step = "CLICKED"
  /\ \/ HasIssued(drive[r].dco) /\ pool[r].open /\ RunEnds(r, "CONFIRMED") /\ PoolUnchanged
     \/ RunEnds(r, "UNKNOWN") /\ PageResets(r)
  /\ SessionUnchanged /\ UNCHANGED clicked

\* auth.refresh before the second try: one sign-in at a time.
RefreshForRun(r) ==
  /\ drive[r].step = "REFRESH"
  /\ \/ StartSignIn(Owner(r), r) /\ Advances(r, "WAIT")
     \/ RunEnds(r, "FAILED") /\ UNCHANGED signIn
  /\ PoolUnchanged /\ UNCHANGED <<saved, chromium, clicked>>

-----------------------------------------------------------------------------
(* Failures *)

\* A page is closed, its context is not.
PageCloses(r) ==
  /\ pool[r].open
  /\ pool' = [pool EXCEPT ![r].open = FALSE]
  /\ UNCHANGED <<saved, signIn, recent, chromium, drive, told, clicked>>

ChromiumCrashes(s) ==
  /\ chromium[s]
  /\ chromium' = [chromium EXCEPT ![s] = FALSE]
  /\ pool' = [r \in Runs |-> IF Service(r) = s THEN [pool[r] EXCEPT !.open = FALSE] ELSE pool[r]]
  /\ UNCHANGED <<saved, signIn, recent, drive, told, clicked>>

\* onApplicationShutdown, and a new process: the caller hears nothing of its submits.
Shutdown ==
  /\ signIn' = NoSignIn
  /\ pool' = [r \in Runs |-> NoPage] /\ recent' = <<>>
  /\ chromium' = [submits |-> TRUE, dryRuns |-> TRUE]
  /\ drive' = [r \in Runs |-> NoDrive]
  /\ told' = [d \in Dcos |-> IF \E r \in FiscalIds : drive[r].dco = d THEN "UNKNOWN" ELSE told[d]]
  /\ UNCHANGED <<saved, clicked>>

BrowserNext ==
  \/ \E f \in FiscalIds : OperatorSignsIn(f)
  \/ GiveFisconlineCredentials \/ SwitchToIncaricante \/ OpenFattureService
  \/ CompleteWorkProfile \/ SaveSession \/ SignInFails
  \/ \E r \in Runs :
       \/ \E d \in Dcos : StartDrive(r, d)
       \/ ReadFingerprint(r) \/ TakePage(r) \/ NoPageTaken(r)
       \/ OpenDocumentGenerator(r) \/ NavigationFails(r)
       \/ FillItem(r) \/ FillPayment(r) \/ VerifySummary(r)
       \/ AdvanceToConfirmation(r) \/ AcknowledgeNotice(r) \/ Confirm(r)
       \/ ClickProceed(r) \/ WaitForEvidence(r) \/ RefreshForRun(r) \/ PageCloses(r)
  \/ ClickCancel
  \/ \E s \in {"submits", "dryRuns"} : ChromiumCrashes(s)
  \/ Shutdown

BrowserSpec == BrowserInit /\ [][BrowserNext]_browserVars

-----------------------------------------------------------------------------
(* Properties *)

\* A session works as the fiscal id whose file it is in, and so does every page.
SessionsAreTheirOwn ==
  /\ \A f \in FiscalIds : saved[f].version > 0 => saved[f].as = f
  /\ \A r \in Runs : pool[r] # NoPage => pool[r].as = Owner(r)

\* A run works in the session that was saved when its try began, or in a later one
\* (ade-document-browser.service.ts:241), however pages are kept and closed.
SessionsAreCurrent ==
  \A r \in Runs :
    drive[r].step \notin {"IDLE", "SESSION", "PAGE", "REFRESH", "WAIT"} /\ pool[r] # NoPage =>
      pool[r].version >= drive[r].since

\* What is issued is the whole document that was asked for, as its seller.
IssuedAsAsked ==
  \A c \in clicked : c.as = Seller[c.dco] /\ c.right /\ c.rows = Rows[c.dco]

\* Procedi was clicked for the document, and what came of it is being waited for.
Clicking(d) == \E r \in FiscalIds : drive[r].step = "CLICKED" /\ drive[r].dco = d

\* What was said not to have been attempted was not: the caller may ask again, and no
\* document is issued twice.
FailedIsNotIssued ==
  \A d \in Dcos :
    /\ told[d] \in {"NONE", "FAILED"} /\ ~Clicking(d) => ~HasIssued(d)
    /\ \A c \in ClicksFor(d) : c.nth = 1

(***************************************************************************)
(* The pages issue what was asked for, once, as the right seller, in a     *)
(* session no older than the try, whoever signs in meanwhile and whichever *)
(* pages the pool closes.                                                  *)
(***************************************************************************)
PagesAreSound ==
  /\ SessionsAreTheirOwn /\ SessionsAreCurrent /\ IssuedAsAsked /\ FailedIsNotIssued
=============================================================================
