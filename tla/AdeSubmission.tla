--------------------------- MODULE AdeSubmission ---------------------------
(***************************************************************************)
(* The ADE fiscal worker: one commercial document at a time is submitted   *)
(* to the Agenzia delle Entrate, by HTTP or by driving its pages, with one *)
(* refresh of the session and one fallback before the POST and none after. *)
(***************************************************************************)
EXTENDS Integers, Sequences, FiniteSets, SequencesExt

CONSTANTS
  Operations,     \* operationIds of the caller
  Total,          \* the gross total of each operation's document
  Fast,           \* httpFastSubmitEnabled
  MaxRemembered,  \* operationIds the worker remembers, 2000 in the code
  ForeignTotals,  \* totals of documents the merchant issues elsewhere
  MaxForeign,     \* bound: documents issued elsewhere
  MaxAsks,        \* bound: requests of the caller
  MaxLosses       \* bound: restarts of the worker, requests given up

ASSUME AdeAssumption ==
  /\ Fast \in BOOLEAN
  /\ MaxRemembered \in Nat \ {0}
  /\ {MaxForeign, MaxAsks, MaxLosses} \subseteq Nat

Foreign == <<>>
ASSUME ForeignAssumption == Foreign \notin Operations

VARIABLES
  run,         \* the submit that holds the lock
  attempted,   \* attemptedOperationIds, oldest first
  wire,        \* POSTs on their way: [op, n]
  register,    \* documents at the Agenzia delle Entrate: [op, total]
  answer,      \* what the caller was last told of each operation
  posts,       \* POSTs of each operation
  rash,        \* operations the caller asked again after a submit of unknown outcome
  asks, losses

submissionVars == <<run, attempted, wire, register, answer, posts, rash, asks, losses>>

Steps == {"PREFLIGHT", "PREPARED", "PAGES", "REFRESH", "POSTED", "CLICKED",
          "RECONCILE", "RECOVER"}
Tries == {"FIRST", "SECOND", "LAST"}
Responses == {"NONE", "STRONG", "WEAK", "REFUSED", "4XX", "5XX", "ERROR"}
AnswerKinds == {"NONE", "PENDING", "FAILED", "CONFIRMED", "REJECTED", "UNKNOWN",
                "DUPLICATE"}

NoRun == [op |-> Foreign, step |-> "NONE", try |-> "FIRST", baseline |-> 0,
          response |-> "NONE", heard |-> FALSE]

SubmissionInit ==
  /\ run = NoRun /\ attempted = <<>> /\ wire = {} /\ register = <<>>
  /\ answer = [o \in Operations |-> "NONE"]
  /\ posts = [o \in Operations |-> 0]
  /\ rash = {} /\ asks = 0 /\ losses = 0

-----------------------------------------------------------------------------
(***************************************************************************)
(* Mistakes this code could contain and does not: each, in the place of    *)
(* the definition it is a variant of, makes a property fail.               *)
(***************************************************************************)
\* The total of the last document is not compared.
AnyLastIsNew(r) == Len(register) > r.baseline

\* The session is refreshed as often as it is found invalid.
AlwaysRefreshes(r) == TRUE
-----------------------------------------------------------------------------
(* The end of a submit *)

\* The error or the result says submitAttempted.
SubmitAttempted(outcome) == outcome \in {"CONFIRMED", "REJECTED", "UNKNOWN"}

Remembers(outcome) == SubmitAttempted(outcome)

\* rememberAttempt: a set in insertion order, its oldest member dropped.
Remembered(o) ==
  LET all == IF o \in ToSet(attempted) THEN attempted ELSE Append(attempted, o)
  IN IF Len(all) > MaxRemembered THEN Tail(all) ELSE all

Ends(outcome) ==
  /\ answer' = IF run.heard THEN [answer EXCEPT ![run.op] = outcome] ELSE answer
  /\ attempted' = IF Remembers(outcome) THEN Remembered(run.op) ELSE attempted
  /\ run' = NoRun

Goes(step) == run' = [run EXCEPT !.step = step] /\ UNCHANGED <<answer, attempted>>

-----------------------------------------------------------------------------
(* Requests *)

\* A prudent caller asks again only what it was told had not been attempted.
Prudent(o) == answer[o] \in {"NONE", "FAILED"}

FirstStep == IF Fast THEN "PREFLIGHT" ELSE "PAGES"

Submit(o) ==
  /\ asks < MaxAsks /\ asks' = asks + 1
  /\ rash' = IF Prudent(o) THEN rash ELSE rash \cup {o}
  /\ \/ /\ run # NoRun                          \* ADE_DOCUMENT_SUBMIT_BUSY
        /\ answer' = IF run.op = o THEN answer ELSE [answer EXCEPT ![o] = "FAILED"]
        /\ UNCHANGED run
     \/ /\ run = NoRun /\ o \in ToSet(attempted)
        /\ answer' = [answer EXCEPT ![o] = "DUPLICATE"]
        /\ UNCHANGED run
     \/ /\ run = NoRun /\ o \notin ToSet(attempted)
        /\ run' = [NoRun EXCEPT !.op = o, !.step = FirstStep, !.heard = TRUE]
        /\ answer' = [answer EXCEPT ![o] = "PENDING"]
  /\ UNCHANGED <<attempted, wire, register, posts, losses>>

-----------------------------------------------------------------------------
(* Before the POST *)

\* Exactly one refresh, before the POST.
MayRefresh(r) == r.try = "FIRST"

\* run: what follows an error before the POST. After the refresh, the pages
\* are tried once more where the HTTP surface or they refuse the session.
Continues(kind) ==
  \/ /\ kind \in {"SESSION_REQUIRED", "SESSION_INVALID", "ENTRY_UNAVAILABLE"}
     /\ MayRefresh(run)
     /\ Goes("REFRESH")
  \/ /\ kind = "SESSION_INVALID" /\ ~ MayRefresh(run) /\ run.try = "SECOND" /\ Fast
     /\ run' = [run EXCEPT !.step = "PAGES", !.try = "LAST"]
     /\ UNCHANGED <<answer, attempted>>
  \/ /\ ~ (kind \in {"SESSION_REQUIRED", "SESSION_INVALID", "ENTRY_UNAVAILABLE"}
             /\ MayRefresh(run))
     /\ ~ (kind = "SESSION_INVALID" /\ run.try = "SECOND" /\ Fast)
     /\ Ends("FAILED")

\* canFallbackFromFastPath.
FallsBack(kind) == kind \in {"FAST_PATH_UNAVAILABLE", "NAVIGATION_FAILED"}

FastFails(kind) ==
  \/ FallsBack(kind) /\ Goes("PAGES")
  \/ ~ FallsBack(kind) /\ Continues(kind)

\* The reads before the POST, the last document among them.
Preflight ==
  /\ run.step = "PREFLIGHT"
  /\ \/ /\ run' = [run EXCEPT !.step = "PREPARED", !.baseline = Len(register)]
        /\ UNCHANGED <<answer, attempted>>
     \/ \E kind \in {"SESSION_REQUIRED", "SESSION_INVALID", "FAST_PATH_UNAVAILABLE",
                     "NAVIGATION_FAILED", "UPSTREAM_UNAVAILABLE"} : FastFails(kind)
  /\ UNCHANGED <<wire, register, posts, rash, asks, losses>>

Sent(o) ==
  /\ posts' = [posts EXCEPT ![o] = @ + 1]
  /\ wire' = wire \cup {[op |-> o, n |-> posts[o]]}

\* postDocumentJson, or its context is lost before it begins.
Post ==
  /\ run.step = "PREPARED"
  /\ \/ Goes("POSTED") /\ Sent(run.op)
     \/ FastFails("SESSION_INVALID") /\ UNCHANGED <<wire, posts>>
  /\ UNCHANGED <<register, rash, asks, losses>>

\* The pages up to Procedi.
FillPages ==
  /\ run.step = "PAGES"
  /\ \E kind \in {"SESSION_REQUIRED", "SESSION_INVALID", "ENTRY_UNAVAILABLE",
                  "NAVIGATION_FAILED", "UPSTREAM_UNAVAILABLE"} : Continues(kind)
  /\ UNCHANGED <<wire, register, posts, rash, asks, losses>>

\* Procedi is clicked; the click may fail without a POST.
Proceed ==
  /\ run.step = "PAGES"
  /\ Goes("CLICKED")
  /\ Sent(run.op) \/ UNCHANGED <<wire, posts>>
  /\ UNCHANGED <<register, rash, asks, losses>>

RefreshSession ==
  /\ run.step = "REFRESH"
  /\ \/ /\ run' = [run EXCEPT !.step = FirstStep, !.try = "SECOND"]
        /\ UNCHANGED <<answer, attempted>>
     \/ Ends("FAILED")
  /\ UNCHANGED <<wire, register, posts, rash, asks, losses>>

-----------------------------------------------------------------------------
(* The Agenzia delle Entrate *)

Responded(m, response) ==
  run' = IF run.op = m.op /\ posts[m.op] = m.n + 1 /\ run.step \in {"POSTED", "CLICKED"}
           THEN [run EXCEPT !.response = response] ELSE run

Deliver(m) ==
  /\ m \in wire /\ wire' = wire \ {m}
  /\ \/ /\ register' = Append(register, [op |-> m.op, total |-> Total[m.op]])
        /\ \E response \in {"STRONG", "WEAK", "5XX"} : Responded(m, response)
     \/ /\ \E response \in {"REFUSED", "4XX", "5XX"} : Responded(m, response)
        /\ UNCHANGED register
     \/ UNCHANGED <<register, run>>
  /\ UNCHANGED <<attempted, answer, posts, rash, asks, losses>>

\* The documents of an operation, by their places in the register.
DocumentsOf(o) == {i \in DOMAIN register : register[i].op = o}

\* The merchant issues a document with other means.
IssueElsewhere(total) ==
  /\ Cardinality(DocumentsOf(Foreign)) < MaxForeign
  /\ register' = Append(register, [op |-> Foreign, total |-> total])
  /\ UNCHANGED <<run, attempted, wire, answer, posts, rash, asks, losses>>

-----------------------------------------------------------------------------
(* After the POST *)

\* The response, or none in time. An explicit refusal, and no response, are
\* errors: the last document is read in the catch only.
Classify ==
  /\ run.step = "POSTED"
  /\ \/ run.response = "REFUSED" /\ Goes("RECOVER")
     \/ run.response \notin {"NONE", "REFUSED"} /\ Goes("RECONCILE")
     \/ /\ run.response = "NONE"
        /\ run' = [run EXCEPT !.step = "RECOVER", !.response = "ERROR"]
        /\ UNCHANGED <<answer, attempted>>
  /\ UNCHANGED <<wire, register, posts, rash, asks, losses>>

\* reconcilesNewDocument: the last document is not the one before the POST and
\* has the total of this one.
LastIsNew(r) ==
  Len(register) > r.baseline /\ Last(register).total = Total[r.op]

\* reconcileResponse: the last document, then the response.
Reconcile ==
  /\ run.step = "RECONCILE"
  /\ \/ LastIsNew(run) /\ Ends("CONFIRMED")
     \/ run.response = "STRONG" /\ Ends("CONFIRMED")
     \/ run.response # "STRONG" /\ Goes("RECOVER")   \* none, or it cannot be read
  /\ UNCHANGED <<wire, register, posts, rash, asks, losses>>

Verdict(response) == IF response \in {"REFUSED", "4XX"} THEN "REJECTED" ELSE "UNKNOWN"

\* What an error of the POST makes the transport do: never a fallback.
PostFailed ==
  IF FallsBack("SUBMIT_UNKNOWN") THEN Goes("PAGES") ELSE Ends(Verdict(run.response))

\* performSubmit's catch: the last document is read once more.
ReadAgain ==
  /\ run.step = "RECOVER"
  /\ \/ LastIsNew(run) /\ Ends("CONFIRMED")
     \/ PostFailed
  /\ UNCHANGED <<wire, register, posts, rash, asks, losses>>

\* waitForSuccessEvidence.
WatchPage ==
  /\ run.step = "CLICKED"
  /\ \/ run.response \in {"STRONG", "WEAK"} /\ Ends("CONFIRMED")
     \/ Ends("UNKNOWN")
  /\ UNCHANGED <<wire, register, posts, rash, asks, losses>>

-----------------------------------------------------------------------------
(* Failures *)

\* The caller stops waiting: unknown to it, while the submit goes on.
CallerTimesOut ==
  /\ run.heard /\ losses < MaxLosses /\ losses' = losses + 1
  /\ run' = [run EXCEPT !.heard = FALSE]
  /\ answer' = [answer EXCEPT ![run.op] = "UNKNOWN"]
  /\ UNCHANGED <<attempted, wire, register, posts, rash, asks>>

\* The worker restarts; what it remembered is lost.
Restart ==
  /\ losses < MaxLosses /\ losses' = losses + 1
  /\ answer' = IF run.heard THEN [answer EXCEPT ![run.op] = "UNKNOWN"] ELSE answer
  /\ run' = NoRun /\ attempted' = <<>>
  /\ UNCHANGED <<wire, register, posts, rash, asks>>

Work == \/ Preflight \/ Post \/ FillPages \/ Proceed \/ RefreshSession
        \/ Classify \/ Reconcile \/ ReadAgain \/ WatchPage

SubmissionNext ==
  \/ \E o \in Operations : Submit(o)
  \/ Work
  \/ \E m \in wire : Deliver(m)
  \/ \E total \in ForeignTotals : IssueElsewhere(total)
  \/ CallerTimesOut \/ Restart

SubmissionSpec == SubmissionInit /\ [][SubmissionNext]_submissionVars

\* Every wait of the worker has a timeout.
SubmissionFairness == WF_submissionVars(Work)

-----------------------------------------------------------------------------
(* Properties *)

(***************************************************************************)
(* What the caller is told: an operation said not to have been attempted   *)
(* was never sent, whatever was tried for it (retries, the refresh, the    *)
(* fallback to the pages, requests given up, restarts), and of a confirmed *)
(* one there is a document of its total - its own, unless another document *)
(* has the same total: the last document is recognised by its total alone  *)
(* (ade-dco-fast-submit.service.ts:136).  A caller that asks again only    *)
(* after a failure has one document of each operation at most, across      *)
(* restarts and late POSTs; and what the worker remembers it does not send *)
(* again, however often a rash caller asks                                 *)
(* (ade-document-submit.service.ts:228).                                   *)
(***************************************************************************)
AnswersAreTrue ==
  \A o \in Operations :
    /\ answer[o] = "FAILED" /\ o \notin rash => posts[o] = 0
    /\ answer[o] = "CONFIRMED" => \E i \in DOMAIN register : register[i].total = Total[o]

SubmittedAtMostOnce ==
  /\ [](AnswersAreTrue /\ \A o \in Operations \ rash : Cardinality(DocumentsOf(o)) <= 1)
  /\ [][\A o \in ToSet(attempted) : posts'[o] = posts[o]]_submissionVars

\* The lock is always released: the refresh, the fallback and the waits end.
LockIsReleased == (run # NoRun) ~> (run = NoRun)
=============================================================================
