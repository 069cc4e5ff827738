-------------------------- MODULE FiscalDocuments --------------------------
(***************************************************************************)
(* Fiscal documents from the request of the cash desk to the answer of the *)
(* provider: the API commits a QUEUED document and then puts a job on the  *)
(* queue; a worker claims the document, calls the provider and records the *)
(* answer; a failed attempt may come back as RETRY.                        *)
(***************************************************************************)
EXTENDS Integers, FiniteSets

CONSTANTS
  Orders,        \* paid orders
  Workers,       \* jobs executed side by side
  Provider,      \* Orders -> ProviderNames: the profile of the location
  MaxAttempts,   \* attempts of a document before a retryable failure is final
  PollAttempts,  \* the same for OpenAPI, whose receipts are polled
  JobAttempts,   \* attempts the queue grants a job
  MaxRetries,    \* bound: retries a manager asks for, per document
  MaxApiCrashes, MaxWorkerCrashes, MaxLostLocks, MaxSaveFailures   \* bounds on faults

ProviderNames == {"ADE_WEB", "OPENAPI_SMART_RECEIPTS", "ACUBE_SMART_RECEIPTS", "MOCK"}

ASSUME FiscalAssumption ==
  /\ Provider \in [Orders -> ProviderNames]
  /\ {MaxAttempts, PollAttempts, JobAttempts} \subseteq Nat \ {0}
  /\ {MaxRetries, MaxApiCrashes, MaxWorkerCrashes, MaxLostLocks, MaxSaveFailures} \subseteq Nat

\* The database admits one SALE and one VOID for each order.
Documents == Orders \X {"SALE", "VOID"}
SaleOf(d) == <<d[1], "SALE">>
ProviderOf(d) == Provider[d[1]]
AdeDocuments == {d \in Documents : ProviderOf(d) = "ADE_WEB"}

NoDocument == <<>>
Done == {"ISSUED", "VOIDED"}
Status == {"ABSENT", "QUEUED", "PROCESSING", "RETRY", "REJECTED", "UNKNOWN",
           "AUTH_REQUIRED"} \cup Done
Replies == {"CONFIRMED", "PENDING", "REFUSED", "FAILED", "LOST", "IN_DOUBT", "AUTH", "UNCLASSIFIED"}

VARIABLES
  document,   \* fiscal_documents: status, attempts, whether external_id is set
  refunded,   \* orders whose refunds reach the total
  committed,  \* documents committed by an API process that has yet to enqueue them
  job,        \* BullMQ: one job for each document, by its fixed job id
  worker,     \* the execution of each worker
  sent,       \* operations the provider carried out for each document
  inFlight,   \* submissions that go on though nobody waits for them
  retries,    \* retries asked for each document
  faults      \* faults so far, by kind

documentVars == <<document, refunded, retries>>
queueVars == <<committed, job>>
vars == <<document, refunded, committed, job, worker, sent, inFlight, retries, faults>>

NoJob == [state |-> "NONE", owner |-> "NOBODY", failures |-> 0, stalls |-> 0]
Idle == [phase |-> "IDLE", document |-> NoDocument, attempt |-> 0, reply |-> "LOST"]

-----------------------------------------------------------------------------
(***************************************************************************)
(* Mistakes this code could contain and does not: each, in the place of    *)
(* the definition it is a variant of, makes a property fail.               *)
(***************************************************************************)
\* A claim also picks up a document that is already being processed.
ClaimableAnyOpen == {"QUEUED", "RETRY", "PROCESSING"}

\* A document in doubt can be retried like a rejected one.
RetryableInDoubt == {"RETRY", "REJECTED", "UNKNOWN"}

\* The sale to void need only exist.
VoidableOnceIdentified(o) == document[<<o, "SALE">>].identified

\* The sweep of stale documents spares those of which an attempt has failed.
StaleFirstAttempts ==
  {d \in AdeDocuments : document[d].status = "PROCESSING" /\ document[d].attempts > 1}
-----------------------------------------------------------------------------
(***************************************************************************)
(* API: issue, void, retry and the void of a refund.  Each commits and     *)
(* enqueues afterwards; a repeated request finds its document and neither  *)
(* changes nor enqueues it.                                                *)
(***************************************************************************)
NewDocument(d) ==
  /\ document[d].status = "ABSENT"
  /\ document' = [document EXCEPT ![d].status = "QUEUED"]
  /\ committed' = committed \cup {d}
  /\ UNCHANGED <<refunded, job, worker, sent, inFlight, retries, faults>>

\* issue, by hand or after payment: the captured payments make up the total.
Issue(o) == o \notin refunded /\ NewDocument(<<o, "SALE">>)

SaleIsIssued(o) ==
  document[<<o, "SALE">>].status = "ISSUED" /\ document[<<o, "SALE">>].identified

\* void: a manager voids an issued sale.
Void(o) == SaleIsIssued(o) /\ NewDocument(<<o, "VOID">>)

\* RefundFiscalVoidService.create: the same for a sale refunded to the last cent.
RefundVoid(o) == o \in refunded /\ SaleIsIssued(o) /\ NewDocument(<<o, "VOID">>)

\* Payments and refunds live elsewhere; here an order is refunded in full or not.
Refund(o) ==
  /\ o \notin refunded
  /\ refunded' = refunded \cup {o}
  /\ UNCHANGED <<document, queueVars, worker, sent, inFlight, retries, faults>>

RetryableStatus == {"RETRY", "REJECTED"}

Retry(d) ==
  /\ document[d].status \in RetryableStatus
  /\ retries[d] < MaxRetries
  /\ document' = [document EXCEPT ![d].status = "QUEUED"]
  /\ committed' = committed \cup {d}
  /\ retries' = [retries EXCEPT ![d] = @ + 1]
  /\ UNCHANGED <<refunded, job, worker, sent, inFlight, faults>>

\* queue.add ignores a job whose id the queue still knows.
Enqueue(d) ==
  /\ d \in committed
  /\ committed' = committed \ {d}
  /\ job' = IF job[d].state = "NONE"
              THEN [job EXCEPT ![d] = [NoJob EXCEPT !.state = "WAITING"]]
              ELSE job
  /\ UNCHANGED <<documentVars, worker, sent, inFlight, faults>>

\* An API process dies, or Redis refuses, between the commit and queue.add.
LoseEnqueue(d) ==
  /\ d \in committed
  /\ faults.api < MaxApiCrashes
  /\ committed' = committed \ {d}
  /\ faults' = [faults EXCEPT !.api = @ + 1]
  /\ UNCHANGED <<documentVars, job, worker, sent, inFlight>>
-----------------------------------------------------------------------------
(***************************************************************************)
(* Worker: take a job, claim its document, call the provider, record the   *)
(* answer, settle the job.                                                 *)
(***************************************************************************)
Take(w, d) ==
  /\ worker[w] = Idle
  /\ job[d].state = "WAITING"
  /\ job' = [job EXCEPT ![d].state = "ACTIVE", ![d].owner = w]
  /\ worker' = [worker EXCEPT ![w] = [Idle EXCEPT !.phase = "TAKEN", !.document = d]]
  /\ UNCHANGED <<documentVars, committed, sent, inFlight, faults>>

ClaimableStatus == {"QUEUED", "RETRY"}

\* A document in another status is skipped, and its job is complete.
Claim(w) ==
  LET d == worker[w].document IN
  /\ worker[w].phase = "TAKEN"
  /\ IF document[d].status \in ClaimableStatus
       THEN /\ document' = [document EXCEPT ![d].status = "PROCESSING",
                                            ![d].attempts = @ + 1]
            /\ worker' = [worker EXCEPT ![w].phase = "CLAIMED",
                                        ![w].attempt = document[d].attempts + 1]
       ELSE /\ worker' = [worker EXCEPT ![w].phase = "RETURNED"]
            /\ UNCHANGED document
  /\ UNCHANGED <<refunded, queueVars, sent, inFlight, retries, faults>>

Answer(reply, ran) == [reply |-> reply, ran |-> ran]

(***************************************************************************)
(* What each provider can answer, and whether it carried the operation     *)
(* out.  OpenAPI polls a receipt whose id it knows; A-Cube and a first     *)
(* OpenAPI attempt submit; a network error or a 5xx says nothing of the    *)
(* operation.  The ADE provider answers AUTH or REFUSED only for what was  *)
(* not submitted (see AdeSubmission), and does not implement voids.        *)
(***************************************************************************)
AcubeAnswers ==
  {Answer("CONFIRMED", TRUE), Answer("REFUSED", FALSE),
   Answer("LOST", TRUE), Answer("LOST", FALSE)}

PolledAnswers ==
  {Answer(reply, FALSE) : reply \in {"CONFIRMED", "PENDING", "REFUSED", "FAILED", "LOST"}}

OpenApiAnswers(d) ==
  IF document[d].identified
    THEN PolledAnswers
    ELSE AcubeAnswers \cup {Answer(reply, TRUE) : reply \in {"PENDING", "FAILED", "REFUSED"}}

AdeAnswers(d) ==
  IF d[2] = "VOID"
    THEN {Answer("REFUSED", FALSE)}
    ELSE {Answer("CONFIRMED", TRUE), Answer("IN_DOUBT", TRUE), Answer("IN_DOUBT", FALSE),
          Answer("AUTH", FALSE), Answer("REFUSED", FALSE)}

\* The mock provider computes its receipt and sends nothing.
MockAnswers == {Answer("CONFIRMED", FALSE)}

Answers(d) ==
  CASE ProviderOf(d) = "ADE_WEB" -> AdeAnswers(d)
    [] ProviderOf(d) = "OPENAPI_SMART_RECEIPTS" -> OpenApiAnswers(d)
    [] ProviderOf(d) = "ACUBE_SMART_RECEIPTS" -> AcubeAnswers
    [] OTHER -> MockAnswers

Execute(w) ==
  LET d == worker[w].document IN
  /\ worker[w].phase = "CLAIMED"
  /\ \E a \in Answers(d) :
       /\ worker' = [worker EXCEPT ![w].phase = "ANSWERED", ![w].reply = a.reply]
       /\ sent' = [sent EXCEPT ![d] = IF a.ran THEN @ + 1 ELSE @]
       \* The provider stops waiting for the ADE worker, which goes on.
       /\ inFlight' \in {inFlight} \cup
            IF a = Answer("IN_DOUBT", FALSE) THEN {inFlight \cup {d}} ELSE {}
  /\ UNCHANGED <<documentVars, queueVars, faults>>

EffectiveMaxAttempts(d) ==
  IF ProviderOf(d) = "OPENAPI_SMART_RECEIPTS" /\ MaxAttempts < PollAttempts
    THEN PollAttempts ELSE MaxAttempts

\* classifyFiscalFailure
FailureStatus(d, attempt, reply) ==
  LET doubtful == reply = "IN_DOUBT" \/ (reply = "UNCLASSIFIED" /\ ProviderOf(d) = "ADE_WEB")
      transient == reply \in {"PENDING", "LOST", "UNCLASSIFIED"} /\ ~ doubtful
  IN CASE reply = "AUTH" -> "AUTH_REQUIRED"
       [] doubtful -> "UNKNOWN"
       [] transient /\ attempt < EffectiveMaxAttempts(d) -> "RETRY"
       [] OTHER -> "REJECTED"

\* succeed
RecordSuccess(w) ==
  LET d == worker[w].document IN
  /\ worker[w].phase = "ANSWERED" /\ worker[w].reply = "CONFIRMED"
  /\ document' = [document EXCEPT
       ![d].status = IF d[2] = "SALE" THEN "ISSUED" ELSE "VOIDED", ![d].identified = TRUE]
  /\ worker' = [worker EXCEPT ![w].phase = "RETURNED"]
  /\ UNCHANGED <<refunded, queueVars, sent, inFlight, retries, faults>>

\* fail; an external id, once known, stays.  Only RETRY is thrown to the queue.
RecordFailure(w) ==
  LET d == worker[w].document
      reply == worker[w].reply
      status == FailureStatus(d, worker[w].attempt, reply) IN
  /\ worker[w].phase = "ANSWERED" /\ reply # "CONFIRMED"
  /\ document' = [document EXCEPT ![d].status = status,
                    ![d].identified = @ \/ reply \in {"PENDING", "FAILED", "IN_DOUBT"}]
  /\ worker' = [worker EXCEPT ![w].phase = IF status = "RETRY" THEN "THREW" ELSE "RETURNED"]
  /\ UNCHANGED <<refunded, queueVars, sent, inFlight, retries, faults>>

(***************************************************************************)
(* The database refuses the transaction that claims or records: a success  *)
(* that is not saved is classified as a failure, and a claim or a failure  *)
(* that is not saved is thrown to the queue.                               *)
(***************************************************************************)
SaveFails(w) ==
  /\ worker[w].phase \in {"TAKEN", "ANSWERED"}
  /\ faults.save < MaxSaveFailures
  /\ faults' = [faults EXCEPT !.save = @ + 1]
  /\ worker' = IF worker[w].phase = "ANSWERED" /\ worker[w].reply = "CONFIRMED"
                 THEN [worker EXCEPT ![w].reply = "UNCLASSIFIED"]
                 ELSE [worker EXCEPT ![w].phase = "THREW"]
  /\ UNCHANGED <<documentVars, queueVars, sent, inFlight>>

\* The queue removes a job that returned; one that threw waits unless spent.
Settle(w) ==
  LET d == worker[w].document IN
  /\ worker[w].phase \in {"RETURNED", "THREW"}
  /\ worker' = [worker EXCEPT ![w] = Idle]
  /\ job' = IF job[d].owner # w THEN job
            ELSE [job EXCEPT ![d] =
              IF worker[w].phase = "THREW" /\ job[d].failures + 1 < JobAttempts
                THEN [job[d] EXCEPT !.state = "WAITING", !.owner = "NOBODY", !.failures = @ + 1]
                ELSE NoJob]
  /\ UNCHANGED <<documentVars, committed, sent, inFlight, faults>>

\* A worker dies; what it asked of the provider may still be carried out.
Crash(w) ==
  LET d == worker[w].document IN
  /\ worker[w] # Idle
  /\ faults.worker < MaxWorkerCrashes
  /\ faults' = [faults EXCEPT !.worker = @ + 1]
  /\ worker' = [worker EXCEPT ![w] = Idle]
  /\ inFlight' \in {inFlight} \cup
       IF worker[w].phase = "CLAIMED" /\ (\E a \in Answers(d) : a.ran) THEN {inFlight \cup {d}} ELSE {}
  /\ UNCHANGED <<documentVars, queueVars, sent>>

\* A submission nobody waits for is carried out, or comes to nothing.
Land(d) ==
  /\ d \in inFlight
  /\ inFlight' = inFlight \ {d}
  /\ sent' \in {sent, [sent EXCEPT ![d] = @ + 1]}
  /\ UNCHANGED <<documentVars, queueVars, worker, faults>>

\* The queue takes a stalled job back, once; then it drops it.
TakeBack(d) ==
  /\ job[d].state = "ACTIVE"
  /\ job' = [job EXCEPT ![d] =
       IF @.stalls = 0
         THEN [@ EXCEPT !.state = "WAITING", !.owner = "NOBODY", !.stalls = 1] ELSE NoJob]
  /\ UNCHANGED <<documentVars, committed, worker, sent, inFlight>>

\* The job of a dead worker stalls.
Stalled(d) ==
  /\ TakeBack(d)
  /\ worker[job[d].owner].document # d
  /\ UNCHANGED faults

\* So does that of a worker that could not renew its lock and works on.
LoseLock(d) ==
  /\ TakeBack(d)
  /\ worker[job[d].owner].document = d
  /\ faults.lock < MaxLostLocks
  /\ faults' = [faults EXCEPT !.lock = @ + 1]

(***************************************************************************)
(* recover: an ADE document PROCESSING for five minutes becomes UNKNOWN.   *)
(* A worker may wait for ADE longer than that, so it may still be alive.   *)
(***************************************************************************)
StaleProcessing == {d \in AdeDocuments : document[d].status = "PROCESSING"}

Recover(d) ==
  /\ d \in StaleProcessing
  /\ document' = [document EXCEPT ![d].status = "UNKNOWN"]
  /\ UNCHANGED <<refunded, queueVars, worker, sent, inFlight, retries, faults>>
-----------------------------------------------------------------------------
Init ==
  /\ document = [d \in Documents |-> [status |-> "ABSENT", attempts |-> 0, identified |-> FALSE]]
  /\ refunded = {}
  /\ committed = {}
  /\ job = [d \in Documents |-> NoJob]
  /\ worker = [w \in Workers |-> Idle]
  /\ sent = [d \in Documents |-> 0]
  /\ inFlight = {}
  /\ retries = [d \in Documents |-> 0]
  /\ faults = [api |-> 0, worker |-> 0, lock |-> 0, save |-> 0]

ApiNext ==
  \/ \E o \in Orders : Issue(o) \/ Void(o) \/ RefundVoid(o) \/ Refund(o)
  \/ \E d \in Documents : Retry(d) \/ Enqueue(d) \/ LoseEnqueue(d)

WorkerStep(w) ==
  \/ \E d \in Documents : Take(w, d)
  \/ Claim(w) \/ Execute(w) \/ RecordSuccess(w) \/ RecordFailure(w) \/ Settle(w)

Next ==
  \/ ApiNext
  \/ \E w \in Workers : WorkerStep(w) \/ SaveFails(w) \/ Crash(w)
  \/ \E d \in Documents : Land(d) \/ Stalled(d) \/ LoseLock(d) \/ Recover(d)

Spec == Init /\ [][Next]_vars

(***************************************************************************)
(* Workers, the queue's stall check, the recovery timer and the end of an  *)
(* HTTP request run by themselves; people and faults do as they please.    *)
(***************************************************************************)
Fairness ==
  /\ \A w \in Workers : WF_vars(WorkerStep(w))
  /\ \A d \in AdeDocuments : WF_vars(Enqueue(d)) /\ WF_vars(Stalled(d)) /\ WF_vars(Recover(d))
-----------------------------------------------------------------------------
\* Types, and the worker is the only holder of the job it settles.
TypeOK ==
  /\ document \in [Documents -> [status : Status, attempts : Nat, identified : BOOLEAN]]
  /\ refunded \subseteq Orders
  /\ committed \subseteq Documents
  /\ job \in [Documents -> [state : {"NONE", "WAITING", "ACTIVE"},
                            owner : Workers \cup {"NOBODY"}, failures : Nat, stalls : 0 .. 1]]
  /\ worker \in [Workers -> [phase : {"IDLE", "TAKEN", "CLAIMED", "ANSWERED", "RETURNED", "THREW"},
                             document : Documents \cup {NoDocument},
                             attempt : Nat, reply : Replies]]
  /\ sent \in [Documents -> Nat]
  /\ inFlight \subseteq Documents
  /\ retries \in [Documents -> 0 .. MaxRetries]
  /\ faults \in [api : Nat, worker : Nat, lock : Nat, save : Nat]

Executing(w) == worker[w].phase \in {"CLAIMED", "ANSWERED"}

(***************************************************************************)
(* Two jobs never call a provider for the same document at the same time,  *)
(* although a stalled job is handed to a second worker.                    *)
(***************************************************************************)
OneExecution ==
  \A v, w \in Workers :
    v # w /\ Executing(v) /\ Executing(w) => worker[v].document # worker[w].document

(***************************************************************************)
(* A void document exists only for a sale the provider has issued, and the *)
(* sale stays issued whatever late answers and retries arrive.             *)
(***************************************************************************)
VoidsFollowIssuedSales ==
  \A o \in Orders :
    document[<<o, "VOID">>].status # "ABSENT" => document[<<o, "SALE">>].status = "ISSUED"

(***************************************************************************)
(* A document that waits for an attempt has somebody who will make it: an  *)
(* API process about to enqueue it, a job, or a worker.  The queue grants  *)
(* a job as many attempts as the longest polling of a provider needs.  It  *)
(* is not so once an enqueueing was lost, an attempt went to a claim that  *)
(* was not saved or to a lost lock, a second worker died, or a manager's   *)
(* retry met a job that had used some attempts up.  And an AdE document is *)
(* concluded, by an answer or as in doubt, though the worker that took or  *)
(* claimed it died: its job is taken back, and what it had claimed is put  *)
(* in doubt (ade-processing-recovery.service.ts).                          *)
(***************************************************************************)
OneWorkerDied ==
  /\ faults.worker <= 1 /\ faults.api + faults.lock + faults.save = 0
  /\ \A d \in Documents : retries[d] = 0

WaitingDocumentsAreScheduled ==
  OneWorkerDied =>
    \A d \in Documents :
      document[d].status \in {"QUEUED", "RETRY"} => d \in committed \/ job[d].state # "NONE"

AdeDocumentsAreConcluded ==
  \A d \in AdeDocuments :
    document[d].status \in {"QUEUED", "RETRY", "PROCESSING"}
      ~> (document[d].status \notin {"QUEUED", "RETRY", "PROCESSING"} \/ ~ OneWorkerDied)

DocumentsAreConcluded == []WaitingDocumentsAreScheduled /\ AdeDocumentsAreConcluded

Believed(d) ==
  CASE document[d].status \in Done -> "DONE"
    [] document[d].status = "UNKNOWN" -> "DOUBT"
    [] document[d].status \in {"REJECTED", "AUTH_REQUIRED"} -> "REFUSED"
    [] OTHER -> "OPEN"

Outcome == INSTANCE FiscalOutcome
  WITH Documents <- AdeDocuments,
       outcome <- [d \in AdeDocuments |-> Believed(d)],
       transmitted <- {d \in AdeDocuments : sent[d] > 0}

\* The counter that FiscalOutcome sees as a set never exceeds one.
AdeTransmittedOnce == \A d \in AdeDocuments : sent[d] <= 1

(***************************************************************************)
(* AdE documents keep the promise of FiscalOutcome, whatever fails: they   *)
(* are transmitted once, a refusal is certain, doubt is never tried again. *)
(***************************************************************************)
AdeOutcome == Outcome!Spec /\ []AdeTransmittedOnce
=============================================================================
