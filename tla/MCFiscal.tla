------------------------------ MODULE MCFiscal ------------------------------
(***************************************************************************)
(* Fiscal documents and the ADE worker for TLC: one run of seven parts     *)
(* that share no step.  "ade" is an AdE document under every fault,        *)
(* "openapi" a polled receipt with retries, voids and lost locks, "acube"  *)
(* and "mock" one at each of the others, "worker" the ADE worker's submits *)
(* and fast path, "pages" two sellers' submits through a pool of one page, *)
(* and "dry run" a dry run beside the operator's sign-ins.                 *)
(***************************************************************************)
EXTENDS FiscalDocuments, AdeSubmission, AdeBrowser, TLC

CONSTANTS ade, openapi, acube, mock, a, b, shop, other, bill, invoice

MCProvider ==
  [o \in Orders |-> CASE o = ade -> "ADE_WEB"
                      [] o = openapi -> "OPENAPI_SMART_RECEIPTS"
                      [] o = acube -> "ACUBE_SMART_RECEIPTS"
                      [] OTHER -> "MOCK"]

EqualTotals == [o \in {a, b} |-> 1]   \* the hard case: a late document looks like the next

MCSeller == [d \in {bill, invoice} |-> IF d = bill THEN shop ELSE other]
OneRow == [d \in {bill, invoice} |-> 1]

VARIABLES
  part,
  mishaps    \* of the parts of the pages

mcVars == <<part, mishaps, vars, submissionVars, browserVars>>

Parts == {ade, openapi, acube, mock, "worker", "pages", "dry run"}

MCInit ==
  part \in Parts /\ mishaps = 0 /\ Init /\ SubmissionInit /\ BrowserInit

OnlyOrder(o) ==
  \A d \in Documents : d[1] # o => document'[d].status = "ABSENT" /\ d[1] \notin refunded'
Faults(api, worker_, lock, save) ==
  /\ faults'.api <= api /\ faults'.worker <= worker_
  /\ faults'.lock <= lock /\ faults'.save <= save

DocumentsPart ==
  /\ part \in Orders
  /\ Next /\ OnlyOrder(part)
  /\ CASE part = ade -> faults'.api + faults'.worker + faults'.lock + faults'.save <= 2
       [] part = openapi ->
            /\ faults'.lock + faults'.worker + retries'[<<openapi, "SALE">>]
                 + retries'[<<openapi, "VOID">>] <= 1
            /\ Faults(0, 1, 1, 0)
       [] OTHER -> Faults(0, 0, 0, 1)
  /\ UNCHANGED <<mishaps, submissionVars, browserVars>>

SubmissionPart ==
  /\ part = "worker"
  /\ SubmissionNext /\ asks' + losses' + Cardinality(DocumentsOf(Foreign))' <= 4
  /\ UNCHANGED <<mishaps, vars, browserVars>>

\* A page or a Chromium closes, a run fails although there was a session, or a sign-in
\* fails.
Mishap ==
  \/ \E r \in Runs :
       \/ pool[r].open /\ ~pool'[r].open /\ UNCHANGED drive
       \/ /\ drive[r].step \notin {"IDLE", "WAIT"}
          /\ \/ drive'[r].step = "REFRESH" /\ drive[r].step # "REFRESH"
                  /\ saved[Owner(r)].version > 0
             \/ drive'[r].step = "IDLE" /\ r = DryRun /\ drive[r].step # "BOUNDARY"
             \/ drive'[r].step = "IDLE" /\ r # DryRun /\ told'[drive[r].dco] # "CONFIRMED"
  \/ signIn # NoSignIn /\ signIn' = NoSignIn /\ UNCHANGED saved
  \/ \E s \in {"submits", "dryRuns"} : chromium[s] /\ ~chromium'[s]

Verifying == {"VERIFY", "ADVANCE", "NOTICE", "CONFIRM"}
Filling(r) == drive[r].step \in Verifying \cup {"ITEMS", "BOUNDARY", "CLICKED"}

\* While one run fills its page in, the other may take a page and open it.
OneFills ==
  \A r, q \in Runs : r # q /\ Filling(r) =>
    ~Filling(q)' /\ (drive[r].step \in Verifying => UNCHANGED drive[q])

\* The steps of a sign-in are taken in a row, but for the last, which saves the session.
SignInAtOnce ==
  /\ signIn.step \in {"LOGIN", "SIGNED", "SWITCHED", "SERVICE"} => UNCHANGED <<drive, pool>>
  /\ signIn'.step = "LOGIN" /\ signIn'.by = Nobody => \A r \in Runs : drive[r] = NoDrive

BrowserPart ==
  /\ part \in {"pages", "dry run"}
  /\ BrowserNext /\ OneFills /\ SignInAtOnce
  /\ mishaps' = mishaps + IF Mishap THEN 1 ELSE 0
  /\ saved'[shop].version + saved'[other].version + mishaps' <= 3
  /\ saved'[shop].version <= 2 /\ saved'[other].version <= 1
  /\ \/ part = "pages" /\ drive'[DryRun] = NoDrive /\ chromium'.dryRuns
     \/ /\ part = "dry run" /\ drive'[DryRun].dco # invoice
        /\ \A f \in FiscalIds : drive'[f] = NoDrive
        /\ signIn'.target # other
  /\ UNCHANGED <<vars, submissionVars>>

MCNext ==
  /\ DocumentsPart \/ SubmissionPart \/ BrowserPart
  /\ UNCHANGED part

\* No bound above stands in the way of a fair step.
MCSpec == MCInit /\ [][MCNext]_mcVars /\ Fairness /\ SubmissionFairness
=============================================================================
