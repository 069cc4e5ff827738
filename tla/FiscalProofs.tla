---------------------------- MODULE FiscalProofs ----------------------------
(***************************************************************************)
(* Theorems about FiscalDocuments, for any orders, workers, providers and  *)
(* numbers of attempts, retries and faults that satisfy FiscalAssumption,  *)
(* about AdeSubmission, and about AdeBrowser.                              *)
(***************************************************************************)
EXTENDS FiscalDocuments, AdeSubmission, AdeBrowser, FiniteSetTheorems, TLAPS

-----------------------------------------------------------------------------
(***************************************************************************)
(* Type correctness.                                                       *)
(***************************************************************************)
DocumentRow == [status : Status, attempts : Nat, identified : BOOLEAN]
JobRow == [state : {"NONE", "WAITING", "ACTIVE"}, owner : Workers \cup {"NOBODY"},
           failures : Nat, stalls : 0 .. 1]
Phases == {"IDLE", "TAKEN", "CLAIMED", "ANSWERED", "RETURNED", "THREW"}
WorkerRow == [phase : Phases, document : Documents \cup {NoDocument}, attempt : Nat,
              reply : Replies]

\* TypeOK, with the rows named.
Typed ==
  /\ document \in [Documents -> DocumentRow]
  /\ refunded \subseteq Orders
  /\ committed \subseteq Documents
  /\ job \in [Documents -> JobRow]
  /\ worker \in [Workers -> WorkerRow]
  /\ sent \in [Documents -> Nat]
  /\ inFlight \subseteq Documents
  /\ retries \in [Documents -> 0 .. MaxRetries]
  /\ faults \in [api : Nat, worker : Nat, lock : Nat, save : Nat]

\* The document of a worker that is at work is one.
WorkersHaveDocuments ==
  \A w \in Workers : worker[w].phase # "IDLE" => worker[w].document \in Documents

TypeInv == Typed /\ WorkersHaveDocuments

\* The two say the same.
LEMMA TypeParts == Typed => TypeOK
BY DEF TypeOK, Typed, DocumentRow, JobRow, WorkerRow, Phases

\* There is nothing to begin with.
LEMMA InitTyped == Init => TypeInv
<1> SUFFICES ASSUME Init PROVE TypeInv
  OBVIOUS
<1>1. document \in [Documents -> DocumentRow]
  BY DEF Init, DocumentRow, Status, Done
<1>2. job \in [Documents -> JobRow]
  BY DEF Init, NoJob, JobRow
<1>3. worker \in [Workers -> WorkerRow]
  BY DEF Init, Idle, WorkerRow, Phases, Replies
<1>4. /\ refunded \subseteq Orders /\ committed \subseteq Documents
      /\ sent \in [Documents -> Nat] /\ inFlight \subseteq Documents
      /\ retries \in [Documents -> 0 .. MaxRetries]
      /\ faults \in [api : Nat, worker : Nat, lock : Nat, save : Nat]
  BY FiscalAssumption DEF Init
<1> QED
  BY <1>1, <1>2, <1>3, <1>4 DEF Init, Idle, Typed, TypeInv, WorkersHaveDocuments

\* Requests to the API keep the rows well formed.
LEMMA ApiType == ASSUME TypeInv, ApiNext PROVE TypeInv'
<1> USE DEF Typed, TypeInv
<1>1. ASSUME NEW d \in Documents, NewDocument(d) PROVE TypeInv'
  <2>1. document[d] \in DocumentRow
    BY <1>1
  <2>2. [document[d] EXCEPT !.status = "QUEUED"] \in DocumentRow
    BY <2>1 DEF DocumentRow, Status
  <2>3. document' \in [Documents -> DocumentRow]
    BY <1>1, <2>2 DEF NewDocument
  <2> QED
    BY <1>1, <2>3 DEF NewDocument, WorkersHaveDocuments
<1>2. ASSUME NEW o \in Orders, Issue(o) \/ Void(o) \/ RefundVoid(o) PROVE TypeInv'
  BY <1>1, <1>2 DEF Issue, Void, RefundVoid, Documents
<1>3. ASSUME NEW o \in Orders, Refund(o) PROVE TypeInv'
  BY <1>3 DEF Refund, queueVars, WorkersHaveDocuments
<1>4. ASSUME NEW d \in Documents, Retry(d) PROVE TypeInv'
  <2>1. document[d] \in DocumentRow /\ retries[d] \in 0 .. MaxRetries
    BY <1>4
  <2>2. [document[d] EXCEPT !.status = "QUEUED"] \in DocumentRow
    BY <2>1 DEF DocumentRow, Status
  <2>3. document' \in [Documents -> DocumentRow]
    BY <1>4, <2>2 DEF Retry
  <2>4. retries' \in [Documents -> 0 .. MaxRetries]
    BY <1>4, <2>1, FiscalAssumption DEF Retry
  <2> QED
    BY <1>4, <2>3, <2>4 DEF Retry, WorkersHaveDocuments
<1>5. ASSUME NEW d \in Documents, Enqueue(d) PROVE TypeInv'
  <2>1. [NoJob EXCEPT !.state = "WAITING"] \in JobRow
    BY DEF NoJob, JobRow
  <2>2. job' \in [Documents -> JobRow]
    BY <1>5, <2>1 DEF Enqueue
  <2> QED
    BY <1>5, <2>2 DEF Enqueue, documentVars, WorkersHaveDocuments
<1>6. ASSUME NEW d \in Documents, LoseEnqueue(d) PROVE TypeInv'
  BY <1>6 DEF LoseEnqueue, documentVars, WorkersHaveDocuments
<1> QED
  BY <1>2, <1>3, <1>4, <1>5, <1>6 DEF ApiNext

\* A step of a worker that keeps its document, or ends, keeps its row well formed.
LEMMA WorkerRows ==
  ASSUME TypeInv, NEW w \in Workers, worker[w] # Idle, NEW p \in Phases, NEW n \in Nat,
         NEW r \in Replies
  PROVE  /\ [worker[w] EXCEPT !.phase = p, !.attempt = n, !.reply = r] \in WorkerRow
         /\ [worker[w] EXCEPT !.phase = p, !.attempt = n] \in WorkerRow
         /\ [worker[w] EXCEPT !.phase = p, !.reply = r] \in WorkerRow
         /\ [worker[w] EXCEPT !.reply = r] \in WorkerRow
         /\ [worker[w] EXCEPT !.phase = p] \in WorkerRow
<1>1. worker[w] \in WorkerRow
  BY DEF Typed, TypeInv
<1> QED
  BY <1>1 DEF WorkerRow

\* What becomes of the row of a job is well formed.
LEMMA JobRowChanges ==
  ASSUME NEW r \in JobRow
  PROVE  /\ [r EXCEPT !.state = "WAITING", !.owner = "NOBODY", !.failures = @ + 1] \in JobRow
         /\ [r EXCEPT !.state = "WAITING", !.owner = "NOBODY", !.stalls = 1] \in JobRow
         /\ NoJob \in JobRow
<1>1. NoJob \in JobRow
  BY DEF JobRow, NoJob
<1> DEFINE j == [r EXCEPT !.state = "WAITING", !.owner = "NOBODY"]
<1>2. j \in JobRow /\ j.failures = r.failures
  BY DEF JobRow
<1>3. [r EXCEPT !.state = "WAITING", !.owner = "NOBODY", !.failures = @ + 1]
        = [j EXCEPT !.failures = r.failures + 1]
  OBVIOUS
<1>4. [r EXCEPT !.state = "WAITING", !.owner = "NOBODY", !.stalls = 1] = [j EXCEPT !.stalls = 1]
  OBVIOUS
<1> HIDE DEF j
<1>5. [j EXCEPT !.failures = r.failures + 1] \in JobRow /\ [j EXCEPT !.stalls = 1] \in JobRow
  BY <1>2 DEF JobRow
<1> QED
  BY <1>1, <1>3, <1>4, <1>5

\* An answer is one the worker knows, and the provider ran it or not.
LEMMA AnswerTypes ==
  ASSUME NEW d \in Documents, NEW a \in Answers(d)
  PROVE  a.reply \in Replies /\ a.ran \in BOOLEAN
<1> DEFINE Known(r) == \E reply \in Replies, ran \in BOOLEAN : r = Answer(reply, ran)
<1>1. \A r \in MockAnswers \cup AcubeAnswers : Known(r)
  BY DEF MockAnswers, AcubeAnswers, Replies
<1>2. \A r \in PolledAnswers : Known(r)
  BY DEF PolledAnswers, Replies
<1>3. \A r \in AdeAnswers(d) : Known(r)
  BY DEF AdeAnswers, Replies
<1>4. \A r \in {Answer(reply, TRUE) : reply \in {"PENDING", "FAILED", "REFUSED"}} : Known(r)
  BY DEF Replies
<1>5. \A r \in OpenApiAnswers(d) : Known(r)
  BY <1>1, <1>2, <1>4 DEF OpenApiAnswers
<1> HIDE DEF Known
<1>6. Known(a)
  BY <1>1, <1>3, <1>5 DEF Answers
<1> QED
  BY <1>6 DEF Known, Answer

\* What a worker does keeps the rows well formed.
LEMMA WorkerType ==
  ASSUME TypeInv, NEW w \in Workers, WorkerStep(w) \/ SaveFails(w) \/ Crash(w)
  PROVE  TypeInv'
<1> DEFINE d == worker[w].document
<1>0. /\ worker[w] \in WorkerRow
      /\ worker[w].phase # "IDLE" => d \in Documents /\ document[d] \in DocumentRow
                                     /\ job[d] \in JobRow /\ sent[d] \in Nat
  BY DEF TypeInv, Typed, WorkersHaveDocuments
<1>i. Idle \in WorkerRow /\ Idle.phase = "IDLE"
  BY DEF Idle, WorkerRow, Phases, Replies
<1> HIDE DEF d
<1>1. ASSUME NEW e \in Documents, Take(w, e) PROVE TypeInv'
  <2>1. job[e] \in JobRow
    BY DEF TypeInv, Typed
  <2> DEFINE jrow == [job[e] EXCEPT !.state = "ACTIVE", !.owner = w]
             wrow == [Idle EXCEPT !.phase = "TAKEN", !.document = e]
  <2>2. jrow \in JobRow
    BY <2>1 DEF JobRow
  <2>3. wrow \in WorkerRow /\ wrow.document = e
    BY <1>i DEF WorkerRow, Phases
  <2>4. job' = [job EXCEPT ![e] = jrow] /\ worker' = [worker EXCEPT ![w] = wrow]
    BY <1>1, <2>1 DEF Take, TypeInv, Typed
  <2> HIDE DEF jrow, wrow
  <2>5. job' \in [Documents -> JobRow] /\ worker' \in [Workers -> WorkerRow]
    BY <2>2, <2>3, <2>4 DEF TypeInv, Typed
  <2>6. WorkersHaveDocuments'
    BY <2>3, <2>4 DEF TypeInv, Typed, WorkersHaveDocuments
  <2> QED
    BY <1>1, <2>5, <2>6 DEF Take, documentVars, TypeInv, Typed
<1>2. ASSUME NEW wrow, worker' = [worker EXCEPT ![w] = wrow], wrow \in WorkerRow,
             wrow.phase # "IDLE" => wrow.document \in Documents
      PROVE  worker' \in [Workers -> WorkerRow] /\ WorkersHaveDocuments'
  BY <1>2 DEF TypeInv, Typed, WorkersHaveDocuments
<1>3. CASE Claim(w)
  <2> DEFINE drow == [document[d] EXCEPT !.status = "PROCESSING", !.attempts = @ + 1]
             claimed == [worker[w] EXCEPT !.phase = "CLAIMED",
                                          !.attempt = document[d].attempts + 1]
             returned == [worker[w] EXCEPT !.phase = "RETURNED"]
  <2>1. d \in Documents /\ document[d] \in DocumentRow
    BY <1>3, <1>0 DEF Claim
  <2>d. document[d].attempts + 1 \in Nat
    BY <2>1 DEF DocumentRow
  <2>e. drow = [[document[d] EXCEPT !.status = "PROCESSING"]
                  EXCEPT !.attempts = document[d].attempts + 1]
    OBVIOUS
  <2>a. drow \in DocumentRow
    BY <2>1, <2>d, <2>e DEF DocumentRow, Status
  <2>b. claimed \in WorkerRow /\ claimed.document = d
    BY <1>0, <2>d DEF WorkerRow, Phases, d
  <2>c. returned \in WorkerRow /\ returned.document = d
    BY <1>0 DEF WorkerRow, Phases, d
  <2>2. /\ drow \in DocumentRow
        /\ claimed \in WorkerRow /\ claimed.document = d
        /\ returned \in WorkerRow /\ returned.document = d
    BY <2>a, <2>b, <2>c
  <2>3. \/ /\ document' = [document EXCEPT ![d] = drow]
           /\ worker' = [worker EXCEPT ![w] = claimed]
        \/ document' = document /\ worker' = [worker EXCEPT ![w] = returned]
    BY <1>3, <1>0, <2>1 DEF Claim, d, TypeInv, Typed
  <2> HIDE DEF drow, claimed, returned
  <2>4. document' \in [Documents -> DocumentRow]
    BY <2>1, <2>2, <2>3 DEF TypeInv, Typed
  <2>5. worker' \in [Workers -> WorkerRow] /\ WorkersHaveDocuments'
    BY <1>2, <2>1, <2>2, <2>3
  <2> QED
    BY <1>3, <2>4, <2>5 DEF Claim, queueVars, TypeInv, Typed
<1>4. ASSUME d \in Documents, NEW a \in Answers(d)
      PROVE  a.reply \in Replies /\ a.ran \in BOOLEAN
  BY <1>4, AnswerTypes
<1>5. CASE Execute(w)
  <2>1. d \in Documents /\ sent[d] \in Nat
    BY <1>5, <1>0 DEF Execute
  <2> PICK a \in Answers(d) :
        /\ worker' = [worker EXCEPT ![w].phase = "ANSWERED", ![w].reply = a.reply]
        /\ sent' = [sent EXCEPT ![d] = IF a.ran THEN @ + 1 ELSE @]
        /\ inFlight' \in {inFlight} \cup
             IF a = Answer("IN_DOUBT", FALSE) THEN {inFlight \cup {d}} ELSE {}
    BY <1>5 DEF Execute, d
  <2> DEFINE wrow == [worker[w] EXCEPT !.phase = "ANSWERED", !.reply = a.reply]
  <2>2. wrow \in WorkerRow /\ wrow.document = d
    BY <1>0, <1>4, <2>1 DEF WorkerRow, Phases, d
  <2>3. worker' = [worker EXCEPT ![w] = wrow]
    BY <1>0 DEF TypeInv, Typed
  <2> HIDE DEF wrow
  <2>4. worker' \in [Workers -> WorkerRow] /\ WorkersHaveDocuments'
    BY <1>2, <2>1, <2>2, <2>3
  <2>5. a.ran \in BOOLEAN
    BY <1>4, <2>1
  <2>6. sent' \in [Documents -> Nat]
    BY <2>1, <2>5 DEF TypeInv, Typed
  <2>7. inFlight' \subseteq Documents
    BY <2>1 DEF TypeInv, Typed
  <2> QED
    BY <1>5, <2>4, <2>6, <2>7 DEF Execute, documentVars, queueVars, TypeInv, Typed
<1>6. CASE RecordSuccess(w)
  <2> DEFINE drow == [document[d] EXCEPT !.status = IF d[2] = "SALE" THEN "ISSUED" ELSE "VOIDED",
                                         !.identified = TRUE]
             wrow == [worker[w] EXCEPT !.phase = "RETURNED"]
  <2>1. d \in Documents /\ document[d] \in DocumentRow
    BY <1>6, <1>0 DEF RecordSuccess
  <2>2. drow \in DocumentRow /\ wrow \in WorkerRow /\ wrow.document = d
    BY <1>0, <2>1 DEF DocumentRow, Status, Done, WorkerRow, Phases, d
  <2>3. document' = [document EXCEPT ![d] = drow] /\ worker' = [worker EXCEPT ![w] = wrow]
    BY <1>6, <1>0, <2>1 DEF RecordSuccess, d, TypeInv, Typed
  <2> HIDE DEF drow, wrow
  <2>4. worker' \in [Workers -> WorkerRow] /\ WorkersHaveDocuments'
    BY <1>2, <2>1, <2>2, <2>3
  <2>5. document' \in [Documents -> DocumentRow]
    BY <2>1, <2>2, <2>3 DEF TypeInv, Typed
  <2> QED
    BY <1>6, <2>4, <2>5 DEF RecordSuccess, queueVars, TypeInv, Typed
<1>7. CASE RecordFailure(w)
  <2> DEFINE reply == worker[w].reply
             status == FailureStatus(d, worker[w].attempt, reply)
             drow == [document[d] EXCEPT !.status = status,
                        !.identified = @ \/ reply \in {"PENDING", "FAILED", "IN_DOUBT"}]
             wrow == [worker[w] EXCEPT !.phase = IF status = "RETRY" THEN "THREW"
                                                                     ELSE "RETURNED"]
  <2>1. d \in Documents /\ document[d] \in DocumentRow
    BY <1>7, <1>0 DEF RecordFailure
  <2>0. status \in Status
    BY DEF FailureStatus, Status
  <2>2. drow \in DocumentRow /\ wrow \in WorkerRow /\ wrow.document = d
    <3> HIDE DEF status
    <3> QED
      BY <1>0, <2>0, <2>1 DEF DocumentRow, WorkerRow, Phases, d
  <2>3. document' = [document EXCEPT ![d] = drow] /\ worker' = [worker EXCEPT ![w] = wrow]
    BY <1>7, <1>0, <2>1 DEF RecordFailure, d, TypeInv, Typed
  <2> HIDE DEF drow, wrow
  <2>4. worker' \in [Workers -> WorkerRow] /\ WorkersHaveDocuments'
    BY <1>2, <2>1, <2>2, <2>3
  <2>5. document' \in [Documents -> DocumentRow]
    BY <2>1, <2>2, <2>3 DEF TypeInv, Typed
  <2> QED
    BY <1>7, <2>4, <2>5 DEF RecordFailure, queueVars, TypeInv, Typed
<1>8. CASE Settle(w)
  <2>1. d \in Documents /\ job[d] \in JobRow
    BY <1>8, <1>0 DEF Settle
  <2> DEFINE jrow == [job[d] EXCEPT !.state = "WAITING", !.owner = "NOBODY", !.failures = @ + 1]
  <2>2. jrow \in JobRow /\ NoJob \in JobRow
    BY <2>1, JobRowChanges
  <2>3. job' = job \/ (\E row \in {jrow, NoJob} : job' = [job EXCEPT ![d] = row])
    BY <1>8 DEF Settle, d
  <2> HIDE DEF jrow
  <2>4. job' \in [Documents -> JobRow]
    BY <2>1, <2>2, <2>3 DEF TypeInv, Typed
  <2>5. worker' = [worker EXCEPT ![w] = Idle]
    BY <1>8 DEF Settle
  <2>6. worker' \in [Workers -> WorkerRow] /\ WorkersHaveDocuments'
    BY <1>2, <1>i, <2>5
  <2> QED
    BY <1>8, <2>4, <2>6 DEF Settle, documentVars, TypeInv, Typed
<1>9. CASE SaveFails(w)
  <2>1. d \in Documents
    BY <1>9, <1>0 DEF SaveFails
  <2> DEFINE refused == [worker[w] EXCEPT !.reply = "UNCLASSIFIED"]
             threw == [worker[w] EXCEPT !.phase = "THREW"]
  <2>2. /\ refused \in WorkerRow /\ refused.document = d
        /\ threw \in WorkerRow /\ threw.document = d
    BY <1>0 DEF WorkerRow, Phases, Replies, d
  <2>3. worker' \in {[worker EXCEPT ![w] = refused], [worker EXCEPT ![w] = threw]}
    BY <1>9, <1>0 DEF SaveFails, TypeInv, Typed
  <2> HIDE DEF refused, threw
  <2>4. worker' \in [Workers -> WorkerRow] /\ WorkersHaveDocuments'
    BY <1>2, <2>1, <2>2, <2>3
  <2> QED
    BY <1>9, <2>4 DEF SaveFails, documentVars, queueVars, TypeInv, Typed
<1>10. CASE Crash(w)
  <2>1. worker' = [worker EXCEPT ![w] = Idle]
    BY <1>10 DEF Crash
  <2>2. worker' \in [Workers -> WorkerRow] /\ WorkersHaveDocuments'
    BY <1>2, <1>i, <2>1
  <2>3. inFlight' \subseteq Documents
    BY <1>10, <1>0 DEF Crash, d, TypeInv, Typed
  <2> QED
    BY <1>10, <2>2, <2>3 DEF Crash, documentVars, queueVars, TypeInv, Typed
<1> QED
  BY <1>1, <1>3, <1>5, <1>6, <1>7, <1>8, <1>9, <1>10 DEF WorkerStep

\* What happens by itself keeps the rows well formed.
LEMMA SelfType ==
  ASSUME TypeInv, NEW d \in Documents, Land(d) \/ Stalled(d) \/ LoseLock(d) \/ Recover(d)
  PROVE  TypeInv'
<1>0. document[d] \in DocumentRow /\ job[d] \in JobRow /\ sent[d] \in Nat
  BY DEF TypeInv, Typed
<1>1. CASE Land(d)
  BY <1>1, <1>0 DEF Land, documentVars, queueVars, TypeInv, Typed, WorkersHaveDocuments
<1>2. ASSUME TakeBack(d) PROVE job' \in [Documents -> JobRow]
  <2> DEFINE jrow == [job[d] EXCEPT !.state = "WAITING", !.owner = "NOBODY", !.stalls = 1]
  <2>1. jrow \in JobRow /\ NoJob \in JobRow
    BY <1>0, JobRowChanges
  <2>2. job' \in {[job EXCEPT ![d] = jrow], [job EXCEPT ![d] = NoJob]}
    BY <1>2, <1>0 DEF TakeBack, TypeInv, Typed
  <2> HIDE DEF jrow
  <2> QED
    BY <2>1, <2>2 DEF TypeInv, Typed
<1>3. CASE Stalled(d)
  BY <1>3, <1>2 DEF Stalled, TakeBack, documentVars, TypeInv, Typed, WorkersHaveDocuments
<1>4. CASE LoseLock(d)
  BY <1>4, <1>2 DEF LoseLock, TakeBack, documentVars, TypeInv, Typed, WorkersHaveDocuments
<1>5. CASE Recover(d)
  <2>1. [document[d] EXCEPT !.status = "UNKNOWN"] \in DocumentRow
    BY <1>0 DEF DocumentRow, Status
  <2>2. document' \in [Documents -> DocumentRow]
    BY <1>5, <2>1 DEF Recover, TypeInv, Typed
  <2> QED
    BY <1>5, <2>2 DEF Recover, queueVars, TypeInv, Typed, WorkersHaveDocuments
<1> QED
  BY <1>1, <1>3, <1>4, <1>5

\* Every step keeps the rows well formed.
LEMMA NextType == TypeInv /\ [Next]_vars => TypeInv'
<1> SUFFICES ASSUME TypeInv, [Next]_vars PROVE TypeInv'
  OBVIOUS
<1>1. CASE UNCHANGED vars
  BY <1>1 DEF vars, TypeInv, Typed, WorkersHaveDocuments
<1>2. CASE Next
  BY <1>2, ApiType, WorkerType, SelfType DEF Next
<1> QED
  BY <1>1, <1>2

(***************************************************************************)
(* Documents, jobs and workers are of their types throughout.              *)
(***************************************************************************)
THEOREM FiscalTypeCorrect == Spec => []TypeOK
<1>1. Spec => []TypeInv
  BY InitTyped, NextType, PTL DEF Spec
<1>2. TypeInv => TypeOK
  BY TypeParts DEF TypeInv
<1> QED
  BY <1>1, <1>2, PTL

-----------------------------------------------------------------------------
(***************************************************************************)
(* The kinds of steps, as far as statuses, executions and submissions can  *)
(* tell them apart.                                                        *)
(***************************************************************************)
StatusOf(d) == document[d].status

\* The status of d becomes s, that of no other document changes.
StatusBecomes(d, s) ==
  \A e \in Documents : document'[e].status = IF e = d THEN s ELSE document[e].status
SameStatuses == \A e \in Documents : document'[e].status = document[e].status

\* Worker w goes to a phase, with the document it has and a reply.
WorkerBecomes(w, phase, reply) ==
  \A v \in Workers :
    IF v = w THEN /\ worker'[v].phase = phase /\ worker'[v].reply = reply
                  /\ worker'[v].document = worker[w].document
    ELSE worker'[v] = worker[v]
\* Worker w does not execute afterwards; the others go on as they are.
WorkerLeaves(w) ==
  \A v \in Workers : IF v = w THEN ~ Executing(v)' ELSE worker'[v] = worker[v]
SameSubmissions == sent' = sent /\ inFlight' = inFlight

Quiet ==
  /\ SameStatuses /\ SameSubmissions
  /\ worker' = worker \/ \E w \in Workers : WorkerLeaves(w)
Requested(d) ==
  /\ StatusOf(d) = "ABSENT" /\ (d[2] = "VOID" => StatusOf(SaleOf(d)) = "ISSUED")
  /\ StatusBecomes(d, "QUEUED") /\ worker' = worker /\ SameSubmissions
Retried(d) ==
  /\ StatusOf(d) \in RetryableStatus
  /\ StatusBecomes(d, "QUEUED") /\ worker' = worker /\ SameSubmissions
Claimed(w, d) ==
  /\ worker[w].phase = "TAKEN" /\ StatusOf(d) \in ClaimableStatus
  /\ StatusBecomes(d, "PROCESSING") /\ WorkerBecomes(w, "CLAIMED", worker[w].reply)
  /\ SameSubmissions
Executed(w, d) ==
  /\ worker[w].phase = "CLAIMED" /\ SameStatuses
  /\ \E a \in Answers(d) :
       /\ WorkerBecomes(w, "ANSWERED", a.reply)
       /\ \A e \in Documents : sent'[e] = IF e = d /\ a.ran THEN sent[e] + 1 ELSE sent[e]
       /\ \/ inFlight' = inFlight
          \/ a = Answer("IN_DOUBT", FALSE) /\ inFlight' = inFlight \cup {d}
Succeeded(w, d) ==
  /\ worker[w].phase = "ANSWERED" /\ worker[w].reply = "CONFIRMED"
  /\ StatusBecomes(d, IF d[2] = "SALE" THEN "ISSUED" ELSE "VOIDED")
  /\ WorkerLeaves(w) /\ SameSubmissions
Failed(w, d) ==
  /\ worker[w].phase = "ANSWERED" /\ worker[w].reply # "CONFIRMED"
  /\ StatusBecomes(d, FailureStatus(d, worker[w].attempt, worker[w].reply))
  /\ WorkerLeaves(w) /\ SameSubmissions
Unsaved(w) ==
  /\ worker[w].phase = "ANSWERED" /\ worker[w].reply = "CONFIRMED"
  /\ SameStatuses /\ WorkerBecomes(w, "ANSWERED", "UNCLASSIFIED") /\ SameSubmissions
Crashed(w, d) ==
  /\ worker[w].phase = "CLAIMED"
  /\ SameStatuses /\ WorkerLeaves(w)
  /\ sent' = sent /\ inFlight' = inFlight \cup {d}
Landed(d) ==
  /\ d \in inFlight /\ inFlight' = inFlight \ {d}
  /\ SameStatuses /\ worker' = worker
  /\ \/ sent' = sent
     \/ \A e \in Documents : sent'[e] = IF e = d THEN sent[e] + 1 ELSE sent[e]
Recovered(d) ==
  /\ d \in StaleProcessing
  /\ StatusBecomes(d, "UNKNOWN") /\ worker' = worker /\ SameSubmissions

StepKinds ==
  \/ Quiet
  \/ \E d \in Documents : Requested(d) \/ Retried(d) \/ Landed(d) \/ Recovered(d)
  \/ \E w \in Workers : \E d \in Documents :
       /\ d = worker[w].document
       /\ \/ Claimed(w, d) \/ Executed(w, d) \/ Succeeded(w, d) \/ Failed(w, d) \/ Unsaved(w)
          \/ Crashed(w, d)

\* A document set to a row of that status has the status, and no other changed.
LEMMA StatusSet ==
  ASSUME TypeInv, NEW d \in Documents, NEW row, document' = [document EXCEPT ![d] = row]
  PROVE  StatusBecomes(d, row.status)
BY DEF StatusBecomes, TypeInv, Typed

\* What the API does is of one of the kinds.
LEMMA ApiKinds == ASSUME TypeInv, ApiNext PROVE StepKinds
<1>1. ASSUME NEW d \in Documents, NewDocument(d),
             d[2] = "VOID" => StatusOf(SaleOf(d)) = "ISSUED"
      PROVE  StepKinds
  <2>1. document[d] \in DocumentRow
    BY DEF TypeInv, Typed
  <2>2. StatusBecomes(d, "QUEUED")
    BY <1>1, <2>1 DEF NewDocument, StatusBecomes, TypeInv, Typed, DocumentRow
  <2>3. Requested(d)
    BY <1>1, <2>2 DEF NewDocument, Requested, SameSubmissions, StatusOf
  <2> QED
    BY <2>3 DEF StepKinds
<1>2. ASSUME NEW o \in Orders, Issue(o) \/ Void(o) \/ RefundVoid(o) PROVE StepKinds
  <2>1. <<o, "SALE">> \in Documents /\ <<o, "VOID">> \in Documents
    BY DEF Documents
  <2>2. CASE Issue(o)
    BY <1>1, <2>1, <2>2 DEF Issue
  <2>3. CASE Void(o) \/ RefundVoid(o)
    BY <1>1, <2>1, <2>3 DEF Void, RefundVoid, SaleIsIssued, SaleOf, StatusOf
  <2> QED
    BY <1>2, <2>2, <2>3
<1>3. ASSUME NEW d \in Documents, Retry(d) PROVE StepKinds
  <2>1. document[d] \in DocumentRow
    BY DEF TypeInv, Typed
  <2>2. StatusBecomes(d, "QUEUED")
    BY <1>3, <2>1 DEF Retry, StatusBecomes, TypeInv, Typed, DocumentRow
  <2>3. Retried(d)
    BY <1>3, <2>2 DEF Retry, Retried, SameSubmissions, StatusOf
  <2> QED
    BY <2>3 DEF StepKinds
<1>4. ASSUME NEW o \in Orders, Refund(o) PROVE StepKinds
  BY <1>4 DEF Refund, StepKinds, Quiet, SameStatuses, SameSubmissions
<1>5. ASSUME NEW d \in Documents, Enqueue(d) \/ LoseEnqueue(d) PROVE StepKinds
  BY <1>5 DEF Enqueue, LoseEnqueue, documentVars, StepKinds, Quiet, SameStatuses, SameSubmissions
<1> QED
  BY <1>2, <1>3, <1>4, <1>5 DEF ApiNext

\* A worker's row set leaves the others as they are.
LEMMA WorkerSet ==
  ASSUME TypeInv, NEW w \in Workers, NEW row, worker' = [worker EXCEPT ![w] = row]
  PROVE  /\ worker'[w] = row
         /\ \A v \in Workers \ {w} : worker'[v] = worker[v]
BY DEF TypeInv, Typed

\* What a worker does is of one of the kinds.
LEMMA WorkerKinds ==
  ASSUME TypeInv, NEW w \in Workers, WorkerStep(w) \/ SaveFails(w) \/ Crash(w)
  PROVE  StepKinds
<1> DEFINE d == worker[w].document
<1>0. /\ worker[w] \in WorkerRow
      /\ worker[w].phase # "IDLE" => d \in Documents /\ document[d] \in DocumentRow
                                     /\ sent[d] \in Nat
  BY DEF TypeInv, Typed, WorkersHaveDocuments
<1>d. d = worker[w].document
  OBVIOUS
<1> HIDE DEF d
<1>k. ASSUME d \in Documents,
             Claimed(w, d) \/ Executed(w, d) \/ Succeeded(w, d) \/ Failed(w, d) \/ Unsaved(w)
               \/ Crashed(w, d)
      PROVE  StepKinds
  BY <1>k, <1>d DEF StepKinds
<1>q. ASSUME document' = document, SameSubmissions, WorkerLeaves(w) PROVE StepKinds
  BY <1>q DEF StepKinds, Quiet, SameStatuses
<1>l. ASSUME NEW row, worker' = [worker EXCEPT ![w] = row],
             row.phase \notin {"CLAIMED", "ANSWERED"}
      PROVE  WorkerLeaves(w)
  BY <1>l, WorkerSet DEF WorkerLeaves, Executing
<1>b. ASSUME NEW p, NEW r, NEW row, row.phase = p, row.reply = r, row.document = d,
             worker' = [worker EXCEPT ![w] = row]
      PROVE  WorkerBecomes(w, p, r)
  BY <1>b, <1>d, WorkerSet DEF WorkerBecomes
<1>1. ASSUME NEW e \in Documents, Take(w, e) PROVE StepKinds
  <2> DEFINE wrow == [Idle EXCEPT !.phase = "TAKEN", !.document = e]
  <2>1. wrow.phase = "TAKEN"
    BY DEF Idle
  <2>2. worker' = [worker EXCEPT ![w] = wrow]
    BY <1>1 DEF Take
  <2> HIDE DEF wrow
  <2>3. WorkerLeaves(w)
    BY <1>l, <2>1, <2>2
  <2> QED
    BY <1>1, <1>q, <2>3 DEF Take, documentVars, SameSubmissions
<1>2. CASE Claim(w)
  <2>1. d \in Documents /\ document[d] \in DocumentRow /\ worker[w].phase = "TAKEN"
    BY <1>2, <1>0 DEF Claim
  <2>2. SameSubmissions
    BY <1>2 DEF Claim, SameSubmissions
  <2>3. CASE document[d].status \in ClaimableStatus
    <3> DEFINE wrow == [worker[w] EXCEPT !.phase = "CLAIMED", !.attempt = document[d].attempts + 1]
    <3>1. wrow.phase = "CLAIMED" /\ wrow.reply = worker[w].reply /\ wrow.document = d
      BY <1>0, <1>d DEF WorkerRow
    <3>2. worker' = [worker EXCEPT ![w] = wrow]
      BY <1>2, <1>d, <1>0, <2>3 DEF Claim, TypeInv, Typed
    <3> HIDE DEF wrow
    <3>3. WorkerBecomes(w, "CLAIMED", worker[w].reply)
      BY <1>b, <3>1, <3>2
    <3> DEFINE drow == [document[d] EXCEPT !.status = "PROCESSING", !.attempts = @ + 1]
    <3>4. drow.status = "PROCESSING"
      BY <2>1 DEF DocumentRow
    <3>5. document' = [document EXCEPT ![d] = drow]
      BY <1>2, <1>d, <2>1, <2>3 DEF Claim, TypeInv, Typed
    <3> HIDE DEF drow
    <3>6. StatusBecomes(d, "PROCESSING")
      BY <2>1, <3>4, <3>5, StatusSet
    <3>7. Claimed(w, d)
      BY <2>1, <2>2, <2>3, <3>3, <3>6 DEF Claimed, StatusOf
    <3> QED
      BY <1>k, <2>1, <3>7
  <2>4. CASE document[d].status \notin ClaimableStatus
    <3> DEFINE wrow == [worker[w] EXCEPT !.phase = "RETURNED"]
    <3>1. wrow.phase = "RETURNED"
      BY <1>0 DEF WorkerRow
    <3>2. worker' = [worker EXCEPT ![w] = wrow] /\ document' = document
      BY <1>2, <1>d, <1>0, <2>4 DEF Claim, TypeInv, Typed
    <3> HIDE DEF wrow
    <3> QED
      BY <1>q, <1>l, <2>2, <3>1, <3>2
  <2> QED
    BY <2>3, <2>4
<1>3. CASE Execute(w)
  <2>1. d \in Documents /\ sent[d] \in Nat /\ worker[w].phase = "CLAIMED"
    BY <1>3, <1>0 DEF Execute
  <2> PICK a \in Answers(d) :
        /\ worker' = [worker EXCEPT ![w].phase = "ANSWERED", ![w].reply = a.reply]
        /\ sent' = [sent EXCEPT ![d] = IF a.ran THEN @ + 1 ELSE @]
        /\ inFlight' \in {inFlight} \cup
             IF a = Answer("IN_DOUBT", FALSE) THEN {inFlight \cup {d}} ELSE {}
    BY <1>3, <1>d DEF Execute
  <2> DEFINE wrow == [worker[w] EXCEPT !.phase = "ANSWERED", !.reply = a.reply]
  <2>2. wrow.phase = "ANSWERED" /\ wrow.reply = a.reply /\ wrow.document = d
    BY <1>0, <1>d DEF WorkerRow
  <2>3. worker' = [worker EXCEPT ![w] = wrow]
    BY <1>0 DEF TypeInv, Typed
  <2> HIDE DEF wrow
  <2>4. WorkerBecomes(w, "ANSWERED", a.reply)
    BY <1>b, <2>2, <2>3
  <2>5. a.ran \in BOOLEAN
    BY <2>1, AnswerTypes
  <2>6. \A e \in Documents : sent'[e] = IF e = d /\ a.ran THEN sent[e] + 1 ELSE sent[e]
    BY <2>1, <2>5 DEF TypeInv, Typed
  <2>7. \/ inFlight' = inFlight
        \/ a = Answer("IN_DOUBT", FALSE) /\ inFlight' = inFlight \cup {d}
    OBVIOUS
  <2>8. SameStatuses
    BY <1>3 DEF Execute, documentVars, SameStatuses
  <2>9. Executed(w, d)
    BY <2>1, <2>4, <2>6, <2>7, <2>8 DEF Executed
  <2> QED
    BY <1>k, <2>1, <2>9
<1>4. CASE RecordSuccess(w)
  <2>1. /\ d \in Documents /\ document[d] \in DocumentRow
        /\ worker[w].phase = "ANSWERED" /\ worker[w].reply = "CONFIRMED"
    BY <1>4, <1>0 DEF RecordSuccess
  <2> DEFINE wrow == [worker[w] EXCEPT !.phase = "RETURNED"]
             status == IF d[2] = "SALE" THEN "ISSUED" ELSE "VOIDED"
             drow == [document[d] EXCEPT !.status = status, !.identified = TRUE]
  <2>2. wrow.phase = "RETURNED" /\ drow.status = status
    BY <1>0, <2>1 DEF WorkerRow, DocumentRow
  <2>3. worker' = [worker EXCEPT ![w] = wrow] /\ document' = [document EXCEPT ![d] = drow]
    BY <1>4, <1>0, <1>d, <2>1 DEF RecordSuccess, TypeInv, Typed
  <2> HIDE DEF wrow, drow
  <2>4. WorkerLeaves(w)
    BY <1>l, <2>2, <2>3
  <2>5. StatusBecomes(d, status)
    BY <2>1, <2>2, <2>3, StatusSet
  <2>6. Succeeded(w, d)
    BY <1>4, <2>1, <2>4, <2>5 DEF Succeeded, RecordSuccess, SameSubmissions
  <2> QED
    BY <1>k, <2>1, <2>6
<1>5. CASE RecordFailure(w)
  <2>1. /\ d \in Documents /\ document[d] \in DocumentRow
        /\ worker[w].phase = "ANSWERED" /\ worker[w].reply # "CONFIRMED"
    BY <1>5, <1>0 DEF RecordFailure
  <2> DEFINE reply == worker[w].reply
             status == FailureStatus(d, worker[w].attempt, reply)
             wrow == [worker[w] EXCEPT !.phase = IF status = "RETRY" THEN "THREW"
                                                                     ELSE "RETURNED"]
             drow == [document[d] EXCEPT !.status = status,
                        !.identified = @ \/ reply \in {"PENDING", "FAILED", "IN_DOUBT"}]
  <2>2. wrow.phase \in {"THREW", "RETURNED"} /\ drow.status = status
    <3> HIDE DEF status
    <3> QED
      BY <1>0, <2>1 DEF WorkerRow, DocumentRow
  <2>3. worker' = [worker EXCEPT ![w] = wrow] /\ document' = [document EXCEPT ![d] = drow]
    BY <1>5, <1>0, <1>d, <2>1 DEF RecordFailure, TypeInv, Typed
  <2> HIDE DEF wrow, drow
  <2>4. WorkerLeaves(w)
    BY <1>l, <2>2, <2>3
  <2>5. StatusBecomes(d, status)
    BY <2>1, <2>2, <2>3, StatusSet
  <2>6. Failed(w, d)
    BY <1>5, <2>1, <2>4, <2>5 DEF Failed, RecordFailure, SameSubmissions
  <2> QED
    BY <1>k, <2>1, <2>6
<1>6. CASE Settle(w)
  <2>1. worker' = [worker EXCEPT ![w] = Idle] /\ Idle.phase = "IDLE"
    BY <1>6 DEF Settle, Idle
  <2>2. WorkerLeaves(w)
    BY <1>l, <2>1
  <2> QED
    BY <1>6, <1>q, <2>2 DEF Settle, documentVars, SameSubmissions
<1>7. CASE SaveFails(w)
  <2>1. d \in Documents /\ worker[w].phase \in {"TAKEN", "ANSWERED"}
    BY <1>7, <1>0 DEF SaveFails
  <2>2. document' = document /\ SameSubmissions
    BY <1>7 DEF SaveFails, documentVars, SameSubmissions
  <2>3. CASE worker[w].phase = "ANSWERED" /\ worker[w].reply = "CONFIRMED"
    <3> DEFINE wrow == [worker[w] EXCEPT !.reply = "UNCLASSIFIED"]
    <3>1. wrow.phase = "ANSWERED" /\ wrow.reply = "UNCLASSIFIED" /\ wrow.document = d
      BY <1>0, <1>d, <2>3 DEF WorkerRow
    <3>2. worker' = [worker EXCEPT ![w] = wrow]
      BY <1>7, <1>0, <2>3 DEF SaveFails, TypeInv, Typed
    <3> HIDE DEF wrow
    <3>3. WorkerBecomes(w, "ANSWERED", "UNCLASSIFIED")
      BY <1>b, <3>1, <3>2
    <3>4. Unsaved(w)
      BY <2>2, <2>3, <3>3 DEF Unsaved, SameStatuses
    <3> QED
      BY <1>k, <2>1, <3>4
  <2>4. CASE ~ (worker[w].phase = "ANSWERED" /\ worker[w].reply = "CONFIRMED")
    <3> DEFINE wrow == [worker[w] EXCEPT !.phase = "THREW"]
    <3>1. wrow.phase = "THREW"
      BY <1>0 DEF WorkerRow
    <3>2. worker' = [worker EXCEPT ![w] = wrow]
      BY <1>7, <1>0, <2>4 DEF SaveFails, TypeInv, Typed
    <3> HIDE DEF wrow
    <3> QED
      BY <1>q, <1>l, <2>2, <3>1, <3>2
  <2> QED
    BY <2>3, <2>4
<1>8. CASE Crash(w)
  <2>1. worker' = [worker EXCEPT ![w] = Idle] /\ Idle.phase = "IDLE"
    BY <1>8 DEF Crash, Idle
  <2>2. WorkerLeaves(w)
    BY <1>l, <2>1
  <2>3. document' = document /\ sent' = sent
    BY <1>8 DEF Crash, documentVars
  <2>4. CASE inFlight' = inFlight
    BY <1>q, <2>2, <2>3, <2>4 DEF SameSubmissions
  <2>5. CASE inFlight' # inFlight
    <3>1. worker[w].phase = "CLAIMED" /\ inFlight' = inFlight \cup {d}
      BY <1>8, <1>d, <2>5 DEF Crash
    <3>2. d \in Documents
      BY <1>0, <3>1
    <3> QED
      BY <1>k, <2>2, <2>3, <3>1, <3>2 DEF Crashed, SameStatuses
  <2> QED
    BY <2>4, <2>5
<1> QED
  BY <1>1, <1>2, <1>3, <1>4, <1>5, <1>6, <1>7, <1>8 DEF WorkerStep

\* So is what happens by itself.
LEMMA SelfKinds ==
  ASSUME TypeInv, NEW d \in Documents, Land(d) \/ Stalled(d) \/ LoseLock(d) \/ Recover(d)
  PROVE  StepKinds
<1>1. CASE Land(d)
  <2>1. sent[d] \in Nat
    BY DEF TypeInv, Typed
  <2>2. sent' = sent \/ \A e \in Documents : sent'[e] = IF e = d THEN sent[e] + 1 ELSE sent[e]
    BY <1>1, <2>1 DEF Land, TypeInv, Typed
  <2>3. Landed(d)
    BY <1>1, <2>2 DEF Land, Landed, documentVars, SameStatuses
  <2> QED
    BY <2>3 DEF StepKinds
<1>2. CASE Stalled(d) \/ LoseLock(d)
  BY <1>2 DEF Stalled, LoseLock, TakeBack, documentVars, StepKinds, Quiet, SameStatuses,
              SameSubmissions
<1>3. CASE Recover(d)
  <2>1. document[d] \in DocumentRow
    BY DEF TypeInv, Typed
  <2>2. StatusBecomes(d, "UNKNOWN")
    BY <1>3, <2>1 DEF Recover, StatusBecomes, TypeInv, Typed, DocumentRow
  <2>3. Recovered(d)
    BY <1>3, <2>2 DEF Recover, Recovered, SameSubmissions
  <2> QED
    BY <2>3 DEF StepKinds
<1> QED
  BY <1>1, <1>2, <1>3

\* There are no other kinds.
LEMMA EveryStepIsOfAKind == TypeInv /\ [Next]_vars => StepKinds
<1> SUFFICES ASSUME TypeInv, [Next]_vars PROVE StepKinds
  OBVIOUS
<1>1. CASE UNCHANGED vars
  BY <1>1 DEF vars, StepKinds, Quiet, SameStatuses, SameSubmissions
<1>2. CASE Next
  BY <1>2, ApiKinds, WorkerKinds, SelfKinds DEF Next
<1> QED
  BY <1>1, <1>2

-----------------------------------------------------------------------------
(***************************************************************************)
(* One execution for each document, and voids only of issued sales.        *)
(*                                                                         *)
(* A claim looks at the status only, so neither is inductive by itself:    *)
(* what is being executed is PROCESSING, or in doubt once the recovery has *)
(* passed by, and neither can be claimed, retried, or be an issued sale.   *)
(***************************************************************************)
ExecutedIsOpen ==
  \A w \in Workers : Executing(w) => StatusOf(worker[w].document) \in {"PROCESSING", "UNKNOWN"}

ExecutionInv == ExecutedIsOpen /\ OneExecution /\ VoidsFollowIssuedSales

\* Every kind of step keeps them.
LEMMA ExecutionStep == ASSUME TypeInv, ExecutionInv, StepKinds PROVE ExecutionInv'
<1> USE DEF ExecutionInv, StatusOf
<1>w. \A w \in Workers : Executing(w) => worker[w].document \in Documents
  BY DEF TypeInv, WorkersHaveDocuments, Executing
\* No new execution, and no execution of the document that changes.
<1>1. ASSUME \A w \in Workers : Executing(w)' =>
               /\ Executing(w) /\ worker'[w].document = worker[w].document
               /\ document'[worker[w].document].status \in {"PROCESSING", "UNKNOWN"}
      PROVE  ExecutedIsOpen' /\ OneExecution'
  BY <1>1 DEF ExecutedIsOpen, OneExecution
<1>2. ASSUME \A d \in Documents :
               /\ document[d].status = "ISSUED" => document'[d].status = "ISSUED"
               /\ document'[d].status = "ABSENT"
                    \/ document[d].status # "ABSENT"
                    \/ (d[2] = "VOID" => document[SaleOf(d)].status = "ISSUED")
      PROVE  VoidsFollowIssuedSales'
  <2>1. \A o \in Orders : /\ <<o, "SALE">> \in Documents /\ <<o, "VOID">> \in Documents
                          /\ SaleOf(<<o, "VOID">>) = <<o, "SALE">>
                          /\ <<o, "VOID">>[2] = "VOID"
    BY DEF Documents, SaleOf
  <2> SUFFICES ASSUME NEW o \in Orders, document'[<<o, "VOID">>].status # "ABSENT"
               PROVE  document'[<<o, "SALE">>].status = "ISSUED"
    BY DEF VoidsFollowIssuedSales
  <2>2. document[<<o, "SALE">>].status = "ISSUED"
    BY <1>2, <2>1 DEF VoidsFollowIssuedSales
  <2> QED
    BY <1>2, <2>1, <2>2
\* The document that changes was open, or is being asked for.
<1>3. ASSUME NEW d \in Documents, NEW s, StatusBecomes(d, s),
             document[d].status # "ISSUED", document[d].status # "ABSENT"
      PROVE  VoidsFollowIssuedSales'
  BY <1>2, <1>3 DEF StatusBecomes
<1>4. ASSUME SameStatuses PROVE VoidsFollowIssuedSales'
  BY <1>2, <1>4 DEF SameStatuses
<1>5. CASE Quiet
  <2>1. \A w \in Workers : Executing(w)' => Executing(w) /\ worker'[w] = worker[w]
    BY <1>5 DEF Quiet, WorkerLeaves, Executing
  <2> QED
    BY <1>1, <1>4, <1>5, <1>w, <2>1 DEF Quiet, SameStatuses, ExecutedIsOpen
<1>6. ASSUME NEW d \in Documents, Requested(d) \/ Retried(d) \/ Recovered(d)
      PROVE  ExecutionInv'
  <2> PICK s : /\ StatusBecomes(d, s)
               /\ s = "UNKNOWN" \/ document[d].status \notin {"PROCESSING", "UNKNOWN"}
    BY <1>6 DEF Requested, Retried, Recovered, RetryableStatus
  <2>1. \A w \in Workers : Executing(w)' => Executing(w) /\ worker'[w] = worker[w]
    BY <1>6 DEF Requested, Retried, Recovered, Executing
  <2>2. ExecutedIsOpen' /\ OneExecution'
    BY <1>1, <1>w, <2>1 DEF StatusBecomes, ExecutedIsOpen
  <2>3. CASE Requested(d)
    BY <1>2, <2>2, <2>3 DEF Requested, StatusBecomes
  <2>4. CASE Retried(d) \/ Recovered(d)
    BY <1>3, <2>2, <2>4 DEF Retried, Recovered, RetryableStatus, StaleProcessing
  <2> QED
    BY <1>6, <2>3, <2>4
<1>7. ASSUME NEW d \in Documents, Landed(d) PROVE ExecutionInv'
  <2>1. \A w \in Workers : Executing(w)' => Executing(w) /\ worker'[w] = worker[w]
    BY <1>7 DEF Landed, Executing
  <2> QED
    BY <1>1, <1>4, <1>7, <1>w, <2>1 DEF Landed, SameStatuses, ExecutedIsOpen
<1>8. ASSUME NEW w \in Workers, NEW d \in Documents, d = worker[w].document, Claimed(w, d)
      PROVE  ExecutionInv'
  <2>1. document[d].status \notin {"PROCESSING", "UNKNOWN", "ISSUED", "ABSENT"}
    BY <1>8 DEF Claimed, ClaimableStatus
  <2>2. \A v \in Workers \ {w} : Executing(v) => worker[v].document # d
    BY <2>1 DEF ExecutedIsOpen
  <2>3. \A v \in Workers \ {w} :
          Executing(v)' => /\ Executing(v) /\ worker'[v].document = worker[v].document
                           /\ worker[v].document # d
    BY <1>8, <2>2 DEF Claimed, WorkerBecomes, Executing
  <2>4. worker'[w].document = d /\ document'[d].status = "PROCESSING"
    BY <1>8 DEF Claimed, WorkerBecomes, StatusBecomes
  <2>5. ExecutedIsOpen'
    BY <1>8, <1>w, <2>3, <2>4 DEF ExecutedIsOpen, Claimed, StatusBecomes
  <2>6. OneExecution'
    BY <2>3, <2>4 DEF OneExecution
  <2> QED
    BY <1>3, <1>8, <2>1, <2>5, <2>6 DEF Claimed
<1>9. ASSUME NEW w \in Workers, NEW d \in Documents, d = worker[w].document,
             Executed(w, d) \/ Unsaved(w) \/ Crashed(w, d)
      PROVE  ExecutionInv'
  <2>1. \A v \in Workers :
          Executing(v)' => Executing(v) /\ worker'[v].document = worker[v].document
    BY <1>9 DEF Executed, Unsaved, Crashed, WorkerBecomes, WorkerLeaves, Executing
  <2>2. SameStatuses
    BY <1>9 DEF Executed, Unsaved, Crashed
  <2> QED
    BY <1>1, <1>4, <1>w, <2>1, <2>2 DEF SameStatuses, ExecutedIsOpen
<1>10. ASSUME NEW w \in Workers, NEW d \in Documents, d = worker[w].document,
              Succeeded(w, d) \/ Failed(w, d)
       PROVE  ExecutionInv'
  <2>1. Executing(w) /\ \E s : StatusBecomes(d, s)
    BY <1>10 DEF Succeeded, Failed, Executing
  <2>2. \A v \in Workers :
          Executing(v)' => Executing(v) /\ v # w /\ worker'[v] = worker[v]
    BY <1>10 DEF Succeeded, Failed, WorkerLeaves, Executing
  <2>3. \A v \in Workers : Executing(v)' => worker[v].document # d
    BY <1>10, <2>1, <2>2 DEF OneExecution
  <2>4. ExecutedIsOpen' /\ OneExecution'
    BY <1>1, <1>w, <2>1, <2>2, <2>3 DEF StatusBecomes, ExecutedIsOpen
  <2>5. document[d].status \in {"PROCESSING", "UNKNOWN"}
    BY <1>10, <2>1 DEF ExecutedIsOpen
  <2> QED
    BY <1>3, <2>1, <2>4, <2>5
<1> QED
  BY <1>5, <1>6, <1>7, <1>8, <1>9, <1>10 DEF StepKinds

LEMMA ExecutionInvariant == Spec => [](TypeInv /\ ExecutionInv)
<1>1. Init => ExecutionInv
  BY DEF Init, Idle, ExecutionInv, ExecutedIsOpen, OneExecution, VoidsFollowIssuedSales,
         Executing, Documents
<1>2. TypeInv /\ ExecutionInv /\ [Next]_vars => ExecutionInv'
  BY EveryStepIsOfAKind, ExecutionStep
<1> QED
  BY <1>1, <1>2, InitTyped, NextType, PTL DEF Spec

(***************************************************************************)
(* Two workers never call a provider for the same document at once, though *)
(* stalled jobs change hands and documents are retried and recovered.      *)
(***************************************************************************)
THEOREM OneExecutionAtATime == Spec => []OneExecution
<1>1. ExecutionInv => OneExecution
  BY DEF ExecutionInv
<1> QED
  BY <1>1, ExecutionInvariant, PTL

(***************************************************************************)
(* Only an issued sale is voided, and it stays issued, in whatever order   *)
(* answers, retries and refunds come.                                      *)
(***************************************************************************)
THEOREM VoidsAreOfIssuedSales == Spec => []VoidsFollowIssuedSales
<1>1. ExecutionInv => VoidsFollowIssuedSales
  BY DEF ExecutionInv
<1> QED
  BY <1>1, ExecutionInvariant, PTL

-----------------------------------------------------------------------------
(***************************************************************************)
(* AdE documents implement FiscalOutcome.                                  *)
(*                                                                         *)
(* What was carried out is sent or still in flight, never both and never   *)
(* twice, because a submission begins only with a clean document and a     *)
(* document is submitted by one execution (OneExecution).  A status the    *)
(* API would submit again is reached only by replies that say that nothing *)
(* was submitted.                                                          *)
(***************************************************************************)
Clean(d) == sent[d] = 0 /\ d \notin inFlight

DocumentMatches(d) ==
  /\ sent[d] <= 1 /\ (d \in inFlight => sent[d] = 0)
  /\ StatusOf(d) \notin {"PROCESSING", "UNKNOWN", "ISSUED"} => Clean(d)
  /\ StatusOf(d) = "ISSUED" => sent[d] = 1

WorkerMatches(w) ==
  LET d == worker[w].document IN
  d \in AdeDocuments =>
    /\ worker[w].phase = "CLAIMED" => Clean(d)
    /\ worker[w].phase = "ANSWERED" =>
         /\ worker[w].reply \in {"CONFIRMED", "UNCLASSIFIED", "IN_DOUBT", "AUTH", "REFUSED"}
         /\ worker[w].reply \in {"CONFIRMED", "UNCLASSIFIED"} => sent[d] = 1 /\ d[2] = "SALE"
         /\ worker[w].reply \in {"AUTH", "REFUSED"} => Clean(d)

AdeInv == (\A d \in AdeDocuments : DocumentMatches(d)) /\ (\A w \in Workers : WorkerMatches(w))

\* Nothing of document e changes but perhaps its status.
Untouched(e) == sent'[e] = sent[e] /\ (e \in inFlight' <=> e \in inFlight)

\* A worker whose document is left alone goes on as it was, or leaves.
LEMMA OtherWorkers ==
  ASSUME AdeInv, NEW w \in Workers, worker'[w] = worker[w] \/ ~ Executing(w)',
         Executing(w)' => Untouched(worker[w].document)
  PROVE  WorkerMatches(w)'
<1>1. WorkerMatches(w)
  BY DEF AdeInv
<1>2. CASE ~ Executing(w)'
  BY <1>2 DEF WorkerMatches, Executing
<1>3. CASE Executing(w)' /\ worker'[w] = worker[w]
  BY <1>1, <1>3 DEF WorkerMatches, Untouched, Clean
<1> QED
  BY <1>2, <1>3

\* A document that is left alone still matches if its status does.
LEMMA OtherDocuments ==
  ASSUME AdeInv, NEW e \in AdeDocuments, Untouched(e), StatusOf(e)' = StatusOf(e)
  PROVE  DocumentMatches(e)'
BY DEF AdeInv, DocumentMatches, Untouched, Clean

\* An AdE document, its answers and what becomes of it after a failure.
LEMMA AdeFacts ==
  ASSUME NEW d \in AdeDocuments, NEW n, NEW a \in Answers(d)
  PROVE  /\ d \in Documents
         /\ a.reply \in {"CONFIRMED", "IN_DOUBT", "AUTH", "REFUSED"} /\ a.ran \in BOOLEAN
         /\ a.reply = "CONFIRMED" => a.ran /\ d[2] = "SALE"
         /\ a.reply \in {"AUTH", "REFUSED"} => ~ a.ran
         /\ a = Answer("IN_DOUBT", FALSE) => a.reply = "IN_DOUBT" /\ ~ a.ran
<1>1. d \in Documents /\ ProviderOf(d) = "ADE_WEB"
  BY DEF AdeDocuments
<1>2. a \in AdeAnswers(d)
  BY <1>1 DEF Answers
<1>3. CASE d[2] = "VOID"
  <2>1. a = [reply |-> "REFUSED", ran |-> FALSE]
    BY <1>2, <1>3 DEF AdeAnswers, Answer
  <2> QED
    BY <1>1, <2>1 DEF Answer
<1>4. CASE d[2] # "VOID"
  <2>1. d[2] = "SALE"
    BY <1>1, <1>4 DEF Documents
  <2>2. \/ a = [reply |-> "CONFIRMED", ran |-> TRUE]
        \/ a = [reply |-> "IN_DOUBT", ran |-> TRUE] \/ a = [reply |-> "IN_DOUBT", ran |-> FALSE]
        \/ a = [reply |-> "AUTH", ran |-> FALSE] \/ a = [reply |-> "REFUSED", ran |-> FALSE]
    BY <1>2, <1>4 DEF AdeAnswers, Answer
  <2>3. a.reply \in {"CONFIRMED", "IN_DOUBT", "AUTH", "REFUSED"}
    BY <2>2
  <2>5. a.ran = TRUE \/ a.ran = FALSE
    BY <2>2
  <2>6. a = Answer("IN_DOUBT", FALSE) => a.reply = "IN_DOUBT" /\ ~ a.ran
    BY DEF Answer
  <2>4. /\ a.reply = "CONFIRMED" => a.ran
        /\ a.reply \in {"AUTH", "REFUSED"} => ~ a.ran
    BY <2>2
  <2> QED
    BY <1>1, <2>1, <2>3, <2>4, <2>5, <2>6
<1> QED
  BY <1>3, <1>4

LEMMA AdeFailures ==
  ASSUME NEW d \in AdeDocuments, NEW n,
         NEW r \in {"UNCLASSIFIED", "IN_DOUBT", "AUTH", "REFUSED"}
  PROVE  FailureStatus(d, n, r) =
           CASE r = "AUTH" -> "AUTH_REQUIRED" [] r = "REFUSED" -> "REJECTED" [] OTHER -> "UNKNOWN"
<1>1. ProviderOf(d) = "ADE_WEB"
  BY DEF AdeDocuments
<1>2. CASE r = "UNCLASSIFIED"
  BY <1>1, <1>2 DEF FailureStatus
<1>3. CASE r = "IN_DOUBT"
  BY <1>3 DEF FailureStatus
<1>4. CASE r = "AUTH"
  BY <1>4 DEF FailureStatus
<1>5. CASE r = "REFUSED"
  BY <1>5 DEF FailureStatus
<1> QED
  BY <1>2, <1>3, <1>4, <1>5

\* Statuses of AdE documents and workers of AdE documents, kind by kind.
LEMMA AdeStep == ASSUME TypeInv, ExecutionInv, AdeInv, StepKinds PROVE AdeInv'
<1> USE DEF StatusOf
<1>w. \A w \in Workers : Executing(w) => worker[w].document \in Documents
  BY DEF TypeInv, WorkersHaveDocuments, Executing
<1>s. \A d \in Documents : sent[d] \in Nat
  BY DEF TypeInv, Typed
<1>a. AdeDocuments \subseteq Documents
  BY DEF AdeDocuments
<1>1. ASSUME SameSubmissions,
             \A w \in Workers : worker'[w] = worker[w] \/ ~ Executing(w)'
      PROVE  \A w \in Workers : WorkerMatches(w)'
  BY <1>1, OtherWorkers DEF SameSubmissions, Untouched
<1>2. ASSUME SameSubmissions, NEW d \in Documents, NEW s, StatusBecomes(d, s),
             d \in AdeDocuments =>
               /\ s \notin {"PROCESSING", "UNKNOWN", "ISSUED"} => Clean(d)
               /\ s = "ISSUED" => sent[d] = 1
      PROVE  \A e \in AdeDocuments : DocumentMatches(e)'
  <2> SUFFICES ASSUME NEW e \in AdeDocuments PROVE DocumentMatches(e)'
    OBVIOUS
  <2>1. CASE e # d
    BY <1>2, <2>1, <1>a, OtherDocuments DEF StatusBecomes, SameSubmissions, Untouched
  <2>2. CASE e = d
    <3>1. StatusOf(d)' = s /\ sent' = sent /\ inFlight' = inFlight /\ DocumentMatches(d)
      BY <1>2, <2>2 DEF StatusBecomes, SameSubmissions, AdeInv
    <3> QED
      BY <1>2, <2>2, <3>1 DEF DocumentMatches, Clean
  <2> QED
    BY <2>1, <2>2
<1>3. ASSUME SameStatuses, SameSubmissions PROVE \A e \in AdeDocuments : DocumentMatches(e)'
  BY <1>3, <1>a, OtherDocuments DEF SameStatuses, SameSubmissions, Untouched
<1>4. CASE Quiet
  <2>1. \A w \in Workers : worker'[w] = worker[w] \/ ~ Executing(w)'
    BY <1>4 DEF Quiet, WorkerLeaves
  <2> QED
    BY <1>1, <1>3, <1>4, <2>1 DEF Quiet, AdeInv
<1>5. ASSUME NEW d \in Documents, Requested(d) \/ Retried(d) \/ Recovered(d) PROVE AdeInv'
  <2>1. /\ SameSubmissions /\ worker' = worker
        /\ \E s \in {"QUEUED", "UNKNOWN"} :
             /\ StatusBecomes(d, s)
             /\ s = "QUEUED" => document[d].status \in {"ABSENT", "RETRY", "REJECTED"}
    BY <1>5 DEF Requested, Retried, Recovered, RetryableStatus
  <2>2. d \in AdeDocuments => DocumentMatches(d)
    BY DEF AdeInv
  <2>3. \A e \in AdeDocuments : DocumentMatches(e)'
    BY <1>2, <2>1, <2>2 DEF DocumentMatches
  <2> QED
    BY <1>1, <2>1, <2>3 DEF AdeInv
<1>6. ASSUME NEW d \in Documents, Landed(d) PROVE AdeInv'
  <2>1. \A e \in AdeDocuments : DocumentMatches(e)'
    <3> SUFFICES ASSUME NEW e \in AdeDocuments PROVE DocumentMatches(e)'
      OBVIOUS
    <3>1. StatusOf(e)' = StatusOf(e) /\ DocumentMatches(e)
      BY <1>6, <1>a DEF Landed, SameStatuses, AdeInv
    <3>2. CASE e # d
      BY <1>6, <1>a, <3>1, <3>2, OtherDocuments DEF Landed, Untouched
    <3>3. CASE e = d
      <4>1. sent[d] = 0 /\ sent'[d] \in {0, 1} /\ d \notin inFlight'
        BY <1>6, <3>1, <3>3 DEF Landed, DocumentMatches
      <4> QED
        BY <1>6, <3>1, <3>3, <4>1 DEF DocumentMatches, Clean, Landed
    <3> QED
      BY <3>2, <3>3
  <2>2. \A w \in Workers : WorkerMatches(w)'
    <3> SUFFICES ASSUME NEW w \in Workers PROVE WorkerMatches(w)'
      OBVIOUS
    <3>1. worker'[w] = worker[w] /\ WorkerMatches(w)
      BY <1>6 DEF Landed, AdeInv
    <3>2. CASE worker[w].document # d \/ ~ Executing(w)
      BY <1>6, <1>w, <3>1, <3>2, OtherWorkers DEF Landed, Untouched, Executing
    <3>3. CASE worker[w].document = d /\ Executing(w) /\ d \notin AdeDocuments
      BY <3>1, <3>3 DEF WorkerMatches
    <3>4. CASE worker[w].document = d /\ Executing(w) /\ d \in AdeDocuments
      <4>1. sent[d] = 0 /\ d \in inFlight
        BY <1>6, <3>4 DEF Landed, AdeInv, DocumentMatches
      <4> QED
        BY <3>1, <3>4, <4>1 DEF WorkerMatches, Clean
    <3> QED
      BY <3>2, <3>3, <3>4
  <2> QED
    BY <2>1, <2>2 DEF AdeInv
<1>7. ASSUME NEW w \in Workers, NEW d \in Documents, d = worker[w].document, Claimed(w, d)
      PROVE  AdeInv'
  <2>1. d \in AdeDocuments => Clean(d)
    BY <1>7 DEF Claimed, ClaimableStatus, AdeInv, DocumentMatches
  <2>2. \A e \in AdeDocuments : DocumentMatches(e)'
    BY <1>2, <1>7 DEF Claimed
  <2>3. ASSUME NEW v \in Workers PROVE WorkerMatches(v)'
    <3>1. CASE v = w
      BY <1>7, <2>1, <3>1 DEF Claimed, WorkerBecomes, WorkerMatches, Clean, SameSubmissions
    <3>2. CASE v # w
      <4>1. worker'[v] = worker[v]
        BY <1>7, <3>2 DEF Claimed, WorkerBecomes
      <4> QED
        BY <1>7, <4>1, OtherWorkers DEF Claimed, SameSubmissions, Untouched
    <3> QED
      BY <3>1, <3>2
  <2> QED
    BY <2>2, <2>3 DEF AdeInv
<1>8. ASSUME NEW w \in Workers, NEW d \in Documents, d = worker[w].document, Executed(w, d)
      PROVE  AdeInv'
  <2> PICK a \in Answers(d) :
        /\ WorkerBecomes(w, "ANSWERED", a.reply)
        /\ \A e \in Documents : sent'[e] = IF e = d /\ a.ran THEN sent[e] + 1 ELSE sent[e]
        /\ \/ inFlight' = inFlight
           \/ a = Answer("IN_DOUBT", FALSE) /\ inFlight' = inFlight \cup {d}
    BY <1>8 DEF Executed
  <2>0. worker[w].phase = "CLAIMED" /\ SameStatuses
    BY <1>8 DEF Executed
  <2>1. \A e \in Documents \ {d} : Untouched(e)
    BY DEF Untouched
  <2>2. d \in AdeDocuments => Clean(d)
    <3>1. WorkerMatches(w)
      BY DEF AdeInv
    <3> QED
      BY <1>8, <2>0, <3>1 DEF WorkerMatches
  <2>3. document[d].status \in {"PROCESSING", "UNKNOWN"}
    BY <1>8, <2>0 DEF ExecutionInv, ExecutedIsOpen, Executing
  <2>4. ASSUME d \in AdeDocuments
        PROVE  /\ a.reply \in {"CONFIRMED", "IN_DOUBT", "AUTH", "REFUSED"} /\ a.ran \in BOOLEAN
               /\ a.reply = "CONFIRMED" => a.ran /\ d[2] = "SALE"
               /\ a.reply \in {"AUTH", "REFUSED"} => ~ a.ran
               /\ a = Answer("IN_DOUBT", FALSE) => a.reply = "IN_DOUBT" /\ ~ a.ran
    BY <2>4, AdeFacts
  <2>5. ASSUME d \in AdeDocuments
        PROVE  /\ sent'[d] = IF a.ran THEN 1 ELSE 0
               /\ d \in inFlight' => a.reply = "IN_DOUBT" /\ ~ a.ran
    <3>1. Clean(d) /\ (a.ran = TRUE \/ a.ran = FALSE)
      BY <2>2, <2>4, <2>5
    <3>2. sent'[d] = IF a.ran THEN 1 ELSE 0
      BY <3>1 DEF Clean
    <3>3. ASSUME d \in inFlight' PROVE a.reply = "IN_DOUBT" /\ ~ a.ran
      <4>1. inFlight' # inFlight
        BY <3>1, <3>3 DEF Clean
      <4> QED
        BY <2>4, <2>5, <4>1
    <3> QED
      BY <3>2, <3>3
  <2>6. ASSUME NEW e \in AdeDocuments PROVE DocumentMatches(e)'
    <3>1. StatusOf(e)' = StatusOf(e)
      BY <2>0, <1>a DEF SameStatuses
    <3>2. CASE e # d
      BY <1>a, <2>1, <3>1, <3>2, OtherDocuments
    <3>3. CASE e = d
      BY <2>3, <2>4, <2>5, <3>1, <3>3 DEF DocumentMatches
    <3> QED
      BY <3>2, <3>3
  <2>7. ASSUME NEW v \in Workers PROVE WorkerMatches(v)'
    <3>1. CASE v = w
      <4>1. worker'[v].document = d /\ worker'[v].phase = "ANSWERED" /\ worker'[v].reply = a.reply
        BY <1>8, <3>1 DEF WorkerBecomes
      <4>2. ASSUME d \in AdeDocuments
            PROVE  /\ a.reply = "CONFIRMED" => sent'[d] = 1 /\ d[2] = "SALE"
                   /\ a.reply \in {"AUTH", "REFUSED"} => sent'[d] = 0 /\ d \notin inFlight'
        BY <2>4, <2>5, <4>2
      <4> QED
        BY <2>4, <4>1, <4>2 DEF WorkerMatches, Clean
    <3>2. CASE v # w
      <4>1. worker'[v] = worker[v]
        BY <3>2 DEF WorkerBecomes
      <4>2. Executing(v)' => worker[v].document \in Documents \ {d}
        BY <1>8, <1>w, <2>0, <3>2, <4>1 DEF ExecutionInv, OneExecution, Executing
      <4> QED
        BY <2>1, <4>1, <4>2, OtherWorkers
    <3> QED
      BY <3>1, <3>2
  <2> QED
    BY <2>6, <2>7 DEF AdeInv
<1>9. ASSUME NEW w \in Workers, NEW d \in Documents, d = worker[w].document,
             Succeeded(w, d) \/ Failed(w, d)
      PROVE  AdeInv'
  <2>0. /\ worker[w].phase = "ANSWERED" /\ SameSubmissions
        /\ \A v \in Workers : worker'[v] = worker[v] \/ ~ Executing(v)'
    BY <1>9 DEF Succeeded, Failed, WorkerLeaves
  <2>1. WorkerMatches(w)
    BY DEF AdeInv
  <2>2. CASE Succeeded(w, d)
    <3>1. d \in AdeDocuments => sent[d] = 1 /\ d[2] = "SALE"
      BY <1>9, <2>0, <2>1, <2>2 DEF WorkerMatches, Succeeded
    <3> DEFINE s == IF d[2] = "SALE" THEN "ISSUED" ELSE "VOIDED"
    <3>2. StatusBecomes(d, s) /\ (d \in AdeDocuments => s = "ISSUED" /\ sent[d] = 1)
      BY <2>2, <3>1 DEF Succeeded
    <3> HIDE DEF s
    <3>3. \A e \in AdeDocuments : DocumentMatches(e)'
      BY <1>2, <2>0, <3>2
    <3> QED
      BY <1>1, <2>0, <3>3 DEF AdeInv
  <2>3. CASE Failed(w, d)
    <3> DEFINE r == worker[w].reply
               s == FailureStatus(d, worker[w].attempt, r)
    <3>1. StatusBecomes(d, s) /\ r # "CONFIRMED"
      BY <2>3 DEF Failed
    <3>2. d \in AdeDocuments => /\ r \in {"UNCLASSIFIED", "IN_DOUBT", "AUTH", "REFUSED"}
                                /\ r \in {"AUTH", "REFUSED"} => Clean(d)
      BY <1>9, <2>0, <2>1, <3>1 DEF WorkerMatches
    <3>3. d \in AdeDocuments =>
            s = CASE r = "AUTH" -> "AUTH_REQUIRED" [] r = "REFUSED" -> "REJECTED"
                  [] OTHER -> "UNKNOWN"
      BY <3>2, AdeFailures
    <3> HIDE DEF s, r
    <3>4. d \in AdeDocuments => /\ s \in {"AUTH_REQUIRED", "REJECTED"} => Clean(d)
                                /\ s \in {"AUTH_REQUIRED", "REJECTED", "UNKNOWN"}
      BY <3>2, <3>3
    <3>5. \A e \in AdeDocuments : DocumentMatches(e)'
      BY <1>2, <2>0, <3>1, <3>4
    <3> QED
      BY <1>1, <2>0, <3>5 DEF AdeInv
  <2> QED
    BY <1>9, <2>2, <2>3
<1>10. ASSUME NEW w \in Workers, NEW d \in Documents, d = worker[w].document, Unsaved(w)
       PROVE  AdeInv'
  <2>1. \A e \in AdeDocuments : DocumentMatches(e)'
    BY <1>3, <1>10 DEF Unsaved
  <2>2. ASSUME NEW v \in Workers PROVE WorkerMatches(v)'
    <3>0. WorkerMatches(v)
      BY DEF AdeInv
    <3>1. CASE v = w
      BY <1>10, <3>0, <3>1 DEF Unsaved, WorkerBecomes, WorkerMatches, SameSubmissions
    <3>2. CASE v # w
      <4>1. worker'[v] = worker[v]
        BY <1>10, <3>2 DEF Unsaved, WorkerBecomes
      <4> QED
        BY <1>10, <4>1, OtherWorkers DEF Unsaved, SameSubmissions, Untouched
    <3> QED
      BY <3>1, <3>2
  <2> QED
    BY <2>1, <2>2 DEF AdeInv
<1>11. ASSUME NEW w \in Workers, NEW d \in Documents, d = worker[w].document, Crashed(w, d)
       PROVE  AdeInv'
  <2>1. WorkerMatches(w) /\ worker[w].phase = "CLAIMED"
    BY <1>11 DEF AdeInv, Crashed
  <2>2. d \in AdeDocuments => sent[d] = 0
    BY <1>11, <2>1 DEF WorkerMatches, Clean
  <2>3. document[d].status \in {"PROCESSING", "UNKNOWN"}
    BY <1>11, <2>1 DEF ExecutionInv, ExecutedIsOpen, Executing
  <2>4. \A e \in Documents \ {d} : Untouched(e)
    BY <1>11 DEF Crashed, Untouched
  <2>5. ASSUME NEW e \in AdeDocuments PROVE DocumentMatches(e)'
    <3>1. StatusOf(e)' = StatusOf(e)
      BY <1>11, <1>a DEF Crashed, SameStatuses
    <3>2. CASE e # d
      BY <1>a, <2>4, <3>1, <3>2, OtherDocuments
    <3>3. CASE e = d
      BY <1>11, <2>2, <2>3, <3>1, <3>3 DEF DocumentMatches, Crashed
    <3> QED
      BY <3>2, <3>3
  <2>6. ASSUME NEW v \in Workers PROVE WorkerMatches(v)'
    <3>1. CASE ~ Executing(v)'
      BY <3>1 DEF WorkerMatches, Executing
    <3>2. CASE Executing(v)'
      <4>1. v # w /\ worker'[v] = worker[v]
        BY <1>11, <3>2 DEF Crashed, WorkerLeaves
      <4>2. worker[v].document \in Documents \ {d}
        BY <1>11, <1>w, <2>1, <3>2, <4>1 DEF ExecutionInv, OneExecution, Executing
      <4> QED
        BY <2>4, <4>1, <4>2, OtherWorkers
    <3> QED
      BY <3>1, <3>2
  <2> QED
    BY <2>5, <2>6 DEF AdeInv
<1> QED
  BY <1>4, <1>5, <1>6, <1>7, <1>8, <1>9, <1>10, <1>11 DEF StepKinds
LEMMA AdeInvariant == Spec => [](TypeInv /\ ExecutionInv /\ AdeInv)
<1>1. Init => AdeInv
  <2> SUFFICES ASSUME Init PROVE AdeInv
    OBVIOUS
  <2>1. \A d \in Documents : sent[d] = 0 /\ d \notin inFlight /\ StatusOf(d) = "ABSENT"
    BY DEF Init, StatusOf
  <2>2. \A d \in AdeDocuments : DocumentMatches(d)
    BY <2>1 DEF AdeDocuments, DocumentMatches, Clean
  <2>3. \A w \in Workers : WorkerMatches(w)
    BY DEF Init, Idle, WorkerMatches
  <2> QED
    BY <2>2, <2>3 DEF AdeInv
<1>2. TypeInv /\ ExecutionInv /\ AdeInv /\ [Next]_vars => AdeInv'
  BY EveryStepIsOfAKind, AdeStep
<1> QED
  BY <1>1, <1>2, ExecutionInvariant, PTL DEF Spec

\* What FiscalOutcome sees of a status.
Belief(s) ==
  CASE s \in Done -> "DONE"
    [] s = "UNKNOWN" -> "DOUBT"
    [] s \in {"REJECTED", "AUTH_REQUIRED"} -> "REFUSED"
    [] OTHER -> "OPEN"
Beliefs == [d \in AdeDocuments |-> Believed(d)]
Transmitted == {d \in AdeDocuments : sent[d] > 0}

\* Its values, one by one.
LEMMA BeliefValues ==
  /\ Belief("ABSENT") = "OPEN" /\ Belief("QUEUED") = "OPEN" /\ Belief("PROCESSING") = "OPEN"
  /\ Belief("RETRY") = "OPEN" /\ Belief("UNKNOWN") = "DOUBT" /\ Belief("ISSUED") = "DONE"
  /\ Belief("REJECTED") = "REFUSED" /\ Belief("AUTH_REQUIRED") = "REFUSED"
BY DEF Belief, Done

LEMMA BeliefOfDocument == \A d \in AdeDocuments : Beliefs[d] = Belief(StatusOf(d))
BY DEF Beliefs, Believed, Belief, StatusOf

\* One status changes, or none.
LEMMA BeliefBecomes ==
  ASSUME NEW d \in Documents, NEW s, StatusBecomes(d, s)
  PROVE  Beliefs' = IF d \in AdeDocuments THEN [Beliefs EXCEPT ![d] = Belief(s)] ELSE Beliefs
<1>1. \A e \in AdeDocuments : Beliefs'[e] = IF e = d THEN Belief(s) ELSE Beliefs[e]
  BY DEF AdeDocuments, StatusBecomes, Beliefs, Believed, Belief
<1>2. Beliefs' = [e \in AdeDocuments |-> Beliefs'[e]] /\ Beliefs = [e \in AdeDocuments |-> Beliefs[e]]
  BY DEF Beliefs
<1> QED
  BY <1>1, <1>2

LEMMA BeliefsStay == SameStatuses => Beliefs' = Beliefs
BY DEF AdeDocuments, SameStatuses, Beliefs, Believed

(***************************************************************************)
(* Every kind of step is a step of FiscalOutcome, or none.                 *)
(***************************************************************************)
LEMMA OutcomeSteps ==
  ASSUME TypeInv, ExecutionInv, AdeInv, StepKinds
  PROVE  Outcome!Next \/ (Beliefs' = Beliefs /\ Transmitted' = Transmitted)
<1>a. AdeDocuments \subseteq Documents
  BY DEF AdeDocuments
<1>s. SameSubmissions => Transmitted' = Transmitted
  BY DEF SameSubmissions, Transmitted
<1>b. \A d \in AdeDocuments : Beliefs[d] = Belief(StatusOf(d)) /\ DocumentMatches(d)
  BY BeliefOfDocument DEF AdeInv
<1>t. \A d \in AdeDocuments : d \in Transmitted <=> sent[d] > 0
  BY DEF Transmitted
\* One document changes its status: the step that FiscalOutcome sees depends on that.
<1>1. ASSUME NEW d \in Documents, NEW s, StatusBecomes(d, s), SameSubmissions,
             d \in AdeDocuments =>
               \/ Belief(s) = Beliefs[d]
               \/ Beliefs[d] \in {"OPEN", "DOUBT"} /\ sent[d] > 0 /\ Belief(s) = "DONE"
               \/ Beliefs[d] = "OPEN" /\ Belief(s) = "DOUBT"
               \/ Beliefs[d] \in {"OPEN", "DOUBT"} /\ ~ (sent[d] > 0) /\ Belief(s) = "REFUSED"
               \/ Beliefs[d] = "REFUSED" /\ Belief(s) = "OPEN"
      PROVE  Outcome!Next \/ (Beliefs' = Beliefs /\ Transmitted' = Transmitted)
  <2>1. Transmitted' = Transmitted
    BY <1>1, <1>s
  <2>2. CASE d \notin AdeDocuments
    BY <1>1, <2>1, <2>2, BeliefBecomes
  <2>3. CASE d \in AdeDocuments
    <3>1. Beliefs' = [Beliefs EXCEPT ![d] = Belief(s)]
      BY <1>1, <2>3, BeliefBecomes
    <3>2. CASE Belief(s) = Beliefs[d]
      <4>1. Beliefs = [Beliefs EXCEPT ![d] = Beliefs[d]]
        BY DEF Beliefs
      <4> QED
        BY <2>1, <3>1, <3>2, <4>1
    <3>3. CASE Belief(s) # Beliefs[d]
      <4>1. Outcome!Confirm(d) \/ Outcome!Doubt(d) \/ Outcome!Refuse(d) \/ Outcome!Reopen(d)
        BY <1>1, <1>t, <2>1, <2>3, <3>1, <3>3
           DEF Outcome!Confirm, Outcome!Doubt, Outcome!Refuse, Outcome!Reopen, Outcome!Becomes,
               Beliefs, Transmitted
      <4> QED
        BY <2>3, <4>1 DEF Outcome!Next
    <3> QED
      BY <3>2, <3>3
  <2> QED
    BY <2>2, <2>3
\* One document is carried out, or none.
<1>2. ASSUME NEW d \in Documents, SameStatuses,
             \A e \in Documents \ {d} : sent'[e] = sent[e],
             d \in AdeDocuments =>
               \/ sent'[d] = sent[d]
               \/ sent[d] = 0 /\ sent'[d] = 1 /\ StatusOf(d) \in {"PROCESSING", "UNKNOWN"}
      PROVE  Outcome!Next \/ (Beliefs' = Beliefs /\ Transmitted' = Transmitted)
  <2>1. Beliefs' = Beliefs
    BY <1>2, BeliefsStay
  <2>2. CASE d \in AdeDocuments => sent'[d] = sent[d]
    <3>1. \A e \in AdeDocuments : sent'[e] = sent[e]
      BY <1>2, <1>a, <2>2
    <3>2. Transmitted' = Transmitted
      BY <3>1 DEF Transmitted
    <3> QED
      BY <2>1, <3>2
  <2>3. CASE d \in AdeDocuments /\ sent'[d] # sent[d]
    <3>1. Beliefs[d] \in {"OPEN", "DOUBT"} /\ d \notin Transmitted
      BY <1>2, <1>b, <1>t, <2>3, BeliefValues
    <3>2. \A e \in AdeDocuments : sent'[e] > 0 <=> sent[e] > 0 \/ e = d
      BY <1>2, <1>a, <2>3
    <3>3. Transmitted' = Transmitted \cup {d}
      BY <2>3, <3>2 DEF Transmitted
    <3>4. Outcome!Transmit(d)
      BY <2>1, <3>1, <3>3 DEF Outcome!Transmit, Beliefs, Transmitted
    <3> QED
      BY <2>3, <3>4 DEF Outcome!Next
  <2> QED
    BY <2>2, <2>3
<1>3. CASE Quiet
  BY <1>3, <1>s, BeliefsStay DEF Quiet
<1>4. ASSUME NEW d \in Documents, Requested(d) \/ Retried(d) \/ Recovered(d)
      PROVE  Outcome!Next \/ (Beliefs' = Beliefs /\ Transmitted' = Transmitted)
  <2>1. CASE Requested(d) \/ Retried(d)
    <3>1. StatusBecomes(d, "QUEUED") /\ SameSubmissions
          /\ StatusOf(d) \in {"ABSENT", "RETRY", "REJECTED"}
      BY <2>1 DEF Requested, Retried, RetryableStatus
    <3> QED
      BY <1>1, <1>b, <3>1, BeliefValues
  <2>2. CASE Recovered(d)
    <3>1. StatusBecomes(d, "UNKNOWN") /\ SameSubmissions /\ StatusOf(d) = "PROCESSING"
      BY <2>2 DEF Recovered, StaleProcessing, StatusOf
    <3> QED
      BY <1>1, <1>b, <3>1, BeliefValues
  <2> QED
    BY <1>4, <2>1, <2>2
<1>5. ASSUME NEW d \in Documents, Landed(d)
      PROVE  Outcome!Next \/ (Beliefs' = Beliefs /\ Transmitted' = Transmitted)
  <2>1. SameStatuses /\ (\A e \in Documents \ {d} : sent'[e] = sent[e])
    BY <1>5 DEF Landed
  <2>2. ASSUME d \in AdeDocuments
        PROVE  \/ sent'[d] = sent[d]
               \/ sent[d] = 0 /\ sent'[d] = 1 /\ StatusOf(d) \in {"PROCESSING", "UNKNOWN"}
    <3>1. d \in inFlight /\ DocumentMatches(d)
      BY <1>5, <1>b, <2>2 DEF Landed
    <3>2. sent[d] = 0 /\ StatusOf(d) \in {"PROCESSING", "UNKNOWN"}
      BY <3>1 DEF DocumentMatches, Clean
    <3>3. sent'[d] = sent[d] \/ sent'[d] = sent[d] + 1
      BY <1>5 DEF Landed
    <3> QED
      BY <3>2, <3>3
  <2> QED
    BY <1>2, <2>1, <2>2
<1>6. ASSUME NEW w \in Workers, NEW d \in Documents, d = worker[w].document, Claimed(w, d)
      PROVE  Outcome!Next \/ (Beliefs' = Beliefs /\ Transmitted' = Transmitted)
  <2>1. StatusBecomes(d, "PROCESSING") /\ SameSubmissions /\ StatusOf(d) \in {"QUEUED", "RETRY"}
    BY <1>6 DEF Claimed, ClaimableStatus
  <2> QED
    BY <1>1, <1>b, <2>1, BeliefValues
<1>7. ASSUME NEW w \in Workers, NEW d \in Documents, d = worker[w].document, Executed(w, d)
      PROVE  Outcome!Next \/ (Beliefs' = Beliefs /\ Transmitted' = Transmitted)
  <2> PICK a \in Answers(d) :
        \A e \in Documents : sent'[e] = IF e = d /\ a.ran THEN sent[e] + 1 ELSE sent[e]
    BY <1>7 DEF Executed
  <2>0. worker[w].phase = "CLAIMED" /\ SameStatuses
    BY <1>7 DEF Executed
  <2>1. \A e \in Documents \ {d} : sent'[e] = sent[e]
    OBVIOUS
  <2>2. StatusOf(d) \in {"PROCESSING", "UNKNOWN"}
    BY <1>7, <2>0 DEF ExecutionInv, ExecutedIsOpen, Executing
  <2>3. ASSUME d \in AdeDocuments
        PROVE  \/ sent'[d] = sent[d]
               \/ sent[d] = 0 /\ sent'[d] = 1 /\ StatusOf(d) \in {"PROCESSING", "UNKNOWN"}
    <3>1. WorkerMatches(w)
      BY DEF AdeInv
    <3>2. sent[d] = 0
      BY <1>7, <2>0, <2>3, <3>1 DEF WorkerMatches, Clean
    <3>3. sent'[d] = sent[d] \/ sent'[d] = sent[d] + 1
      OBVIOUS
    <3> QED
      BY <2>2, <3>2, <3>3
  <2> QED
    BY <1>2, <2>0, <2>1, <2>3
<1>8. ASSUME NEW w \in Workers, NEW d \in Documents, d = worker[w].document,
             Succeeded(w, d) \/ Failed(w, d)
      PROVE  Outcome!Next \/ (Beliefs' = Beliefs /\ Transmitted' = Transmitted)
  <2>0. worker[w].phase = "ANSWERED" /\ SameSubmissions
    BY <1>8 DEF Succeeded, Failed
  <2>1. WorkerMatches(w)
    BY DEF AdeInv
  <2>2. StatusOf(d) \in {"PROCESSING", "UNKNOWN"}
    BY <1>8, <2>0 DEF ExecutionInv, ExecutedIsOpen, Executing
  <2>3. CASE Succeeded(w, d)
    <3> DEFINE s == IF d[2] = "SALE" THEN "ISSUED" ELSE "VOIDED"
    <3>1. StatusBecomes(d, s)
      BY <2>3 DEF Succeeded
    <3>2. d \in AdeDocuments => s = "ISSUED" /\ sent[d] = 1
      BY <1>8, <2>0, <2>1, <2>3 DEF WorkerMatches, Succeeded
    <3> HIDE DEF s
    <3>3. d \in AdeDocuments => /\ Beliefs[d] \in {"OPEN", "DOUBT"} /\ sent[d] > 0
                                /\ Belief(s) = "DONE"
      BY <1>b, <2>2, <3>2, BeliefValues
    <3> QED
      BY <1>1, <2>0, <3>1, <3>3
  <2>4. CASE Failed(w, d)
    <3> DEFINE r == worker[w].reply
               s == FailureStatus(d, worker[w].attempt, r)
    <3>1. StatusBecomes(d, s) /\ r # "CONFIRMED"
      BY <2>4 DEF Failed
    <3>2. d \in AdeDocuments => /\ r \in {"UNCLASSIFIED", "IN_DOUBT", "AUTH", "REFUSED"}
                                /\ r \in {"AUTH", "REFUSED"} => sent[d] = 0
      BY <1>8, <2>0, <2>1, <3>1 DEF WorkerMatches, Clean
    <3>3. d \in AdeDocuments =>
            s = CASE r = "AUTH" -> "AUTH_REQUIRED" [] r = "REFUSED" -> "REJECTED"
                  [] OTHER -> "UNKNOWN"
      BY <3>2, AdeFailures
    <3> HIDE DEF s, r
    <3>4. d \in AdeDocuments =>
            \/ s \in {"AUTH_REQUIRED", "REJECTED"} /\ sent[d] = 0
            \/ s = "UNKNOWN"
      BY <3>2, <3>3
    <3>5. d \in AdeDocuments =>
            \/ Belief(s) = "REFUSED" /\ ~ (sent[d] > 0)
            \/ Belief(s) = "DOUBT"
      BY <3>4, BeliefValues
    <3>6. d \in AdeDocuments => Beliefs[d] \in {"OPEN", "DOUBT"}
      BY <1>b, <2>2, BeliefValues
    <3> QED
      BY <1>1, <2>0, <3>1, <3>5, <3>6
  <2> QED
    BY <1>8, <2>3, <2>4
<1>9. ASSUME NEW w \in Workers, NEW d \in Documents, Unsaved(w) \/ Crashed(w, d)
      PROVE  Beliefs' = Beliefs /\ Transmitted' = Transmitted
  BY <1>9, BeliefsStay DEF Unsaved, Crashed, SameSubmissions, Transmitted
<1> QED
  BY <1>3, <1>4, <1>5, <1>6, <1>7, <1>8, <1>9 DEF StepKinds

(***************************************************************************)
(* Whatever crashes, stalls, is retried, recovered or left unsaved, an AdE *)
(* document is transmitted at most once, a refusal means that it was not   *)
(* transmitted, and a document in doubt is never tried again.              *)
(***************************************************************************)
THEOREM AdeDocumentsKeepTheirPromise == Spec => AdeOutcome
<1>1. Init => Outcome!Init
  <2> SUFFICES ASSUME Init PROVE Outcome!Init
    OBVIOUS
  <2>1. \A d \in AdeDocuments : StatusOf(d) = "ABSENT" /\ ~ (sent[d] > 0)
    BY DEF Init, AdeDocuments, StatusOf
  <2>2. \A d \in AdeDocuments : Believed(d) = "OPEN"
    BY <2>1, BeliefValues DEF Believed, Belief, StatusOf
  <2> QED
    BY <2>1, <2>2 DEF Outcome!Init
<1>2. TypeInv /\ ExecutionInv /\ AdeInv /\ [Next]_vars
        => [Outcome!Next]_<<Beliefs, Transmitted>>
  BY EveryStepIsOfAKind, OutcomeSteps
<1>3. AdeInv => AdeTransmittedOnce
  BY DEF AdeInv, DocumentMatches, AdeTransmittedOnce
<1> QED
  BY <1>1, <1>2, <1>3, AdeInvariant, PTL DEF Spec, AdeOutcome, Outcome!Spec, Beliefs, Transmitted

-----------------------------------------------------------------------------
(***************************************************************************)
(* What is proved about the ADE worker's submissions.  What was told of an *)
(* operation says how far it can have come: before its POST nothing was    *)
(* sent, and after it no path leads back before it.  A POST makes one      *)
(* document at most, and what is remembered is not the operation at hand.  *)
(***************************************************************************)
RunRow == [op : Operations \cup {Foreign}, step : Steps \cup {"NONE"}, try : Tries, baseline : Nat,
           response : Responses, heard : BOOLEAN]
Posted == [op : Operations, n : Nat]
Issued ==
  {x \in [op : Operations, total : {Total[o] : o \in Operations}] : x.total = Total[x.op]}
    \cup [op : {Foreign}, total : ForeignTotals]

SubmissionTyped ==
  /\ run \in RunRow
  /\ (run.op = Foreign) <=> (run = NoRun)
  /\ (run.op = Foreign) <=> (run.step = "NONE")
  /\ wire \subseteq Posted
  /\ register \in Seq(Issued)
  /\ answer \in [Operations -> AnswerKinds]
  /\ posts \in [Operations -> Nat]

BeforePost == {"PREFLIGHT", "PREPARED", "PAGES", "REFRESH"}

\* What was told of the operation at hand.
ToldOf(r) == IF r.heard THEN "PENDING" ELSE "UNKNOWN"
RunIsTold == run.op \in Operations => answer[run.op] = ToldOf(run)

\* The operation at hand is none of those remembered.
RunIsNew == run.op \in Operations => run.op \notin ToSet(attempted)

\* An operation that may be asked for again, or has not come to its POST.
Unsent(o) == answer[o] \in {"NONE", "FAILED"} \/ (run.op = o /\ run.step \in BeforePost)
OnePost ==
  \A o \in Operations \ rash : posts[o] <= 1 /\ (Unsent(o) => posts[o] = 0)

\* What is on its way or issued was posted, and one POST makes one document.
PostsAccounted ==
  /\ \A m \in wire : m.n < posts[m.op]
  /\ \A o \in Operations : DocumentsOf(o) # {} => posts[o] > 0
  /\ \A o \in Operations : posts[o] <= 1 =>
       /\ \A i, j \in DocumentsOf(o) : i = j
       /\ \A m \in wire : m.op = o => DocumentsOf(o) = {}

\* Of an operation that is told confirmed, or whose success was read, there is a document
\* of its total.
Confirmed(o) == answer[o] = "CONFIRMED" \/ (run.op = o /\ run.response \in {"STRONG", "WEAK"})
TotalIssued(o) == \E i \in DOMAIN register : register[i].total = Total[o]
ConfirmedIsIssued == \A o \in Operations : Confirmed(o) => TotalIssued(o)

SubmissionInv ==
  /\ SubmissionTyped /\ RunIsTold /\ RunIsNew /\ OnePost /\ PostsAccounted

-----------------------------------------------------------------------------
(***************************************************************************)
(* The kinds of steps: the submit at hand goes on, ends, or posts; the     *)
(* others are the caller's, the Agenzia's and the failures.                *)
(***************************************************************************)
AtHand == run.op \in Operations /\ run.step \in Steps
Quietly == UNCHANGED <<posts, wire, register, rash>>

Moves ==
  /\ AtHand /\ Quietly /\ UNCHANGED <<answer, attempted>>
  /\ run' \in RunRow /\ run'.op = run.op /\ run'.heard = run.heard /\ run'.step \in Steps
  /\ run'.response \in {run.response, "ERROR"}
  /\ run'.step \in BeforePost => run.step \in BeforePost

Ended(outcome) ==
  /\ AtHand /\ Quietly /\ Ends(outcome)
  /\ outcome \in {"FAILED", "CONFIRMED", "REJECTED", "UNKNOWN"}
  /\ outcome = "FAILED" => run.step \in BeforePost
  /\ outcome = "CONFIRMED" => LastIsNew(run) \/ run.response \in {"STRONG", "WEAK"}

Posting ==
  /\ AtHand /\ run.step \in BeforePost /\ Sent(run.op)
  /\ \E step \in {"POSTED", "CLICKED"} : Goes(step)
  /\ UNCHANGED <<register, rash>>

SubmissionKinds ==
  \/ Moves \/ Posting \/ \E outcome \in AnswerKinds : Ended(outcome)
  \/ \E o \in Operations : Submit(o)
  \/ \E m \in wire : Deliver(m)
  \/ \E total \in ForeignTotals : IssueElsewhere(total)
  \/ CallerTimesOut \/ Restart
  \/ UNCHANGED submissionVars

\* A step of the worker is taken for an operation.
LEMMA WorkIsAtHand == ASSUME SubmissionTyped, run.step \in Steps PROVE AtHand
<1>1. run.step # "NONE"
  BY DEF Steps
<1> QED
  BY <1>1 DEF SubmissionTyped, AtHand, RunRow

\* The submit at hand goes on with another step.
LEMMA GoesMoves ==
  ASSUME SubmissionTyped, AtHand, Quietly, NEW step \in Steps, Goes(step),
         step \in BeforePost => run.step \in BeforePost
  PROVE  Moves
<1>1. /\ run' = [run EXCEPT !.step = step] /\ run \in RunRow
      /\ UNCHANGED <<answer, attempted>>
  BY DEF Goes, SubmissionTyped
<1>2. /\ run' \in RunRow /\ run'.op = run.op /\ run'.heard = run.heard /\ run'.step = step
      /\ run'.response = run.response
  BY <1>1 DEF RunRow
<1> QED
  BY <1>1, <1>2 DEF Moves

LEMMA ContinuesKinds ==
  ASSUME SubmissionTyped, AtHand, Quietly, run.step \in BeforePost, NEW kind, Continues(kind)
  PROVE  Moves \/ \E outcome \in AnswerKinds : Ended(outcome)
<1>1. CASE Goes("REFRESH")
  BY <1>1, GoesMoves DEF BeforePost, Steps
<1>2. CASE /\ run' = [run EXCEPT !.step = "PAGES", !.try = "LAST"]
           /\ UNCHANGED <<answer, attempted>>
  <2>1. /\ run' \in RunRow /\ run'.op = run.op /\ run'.heard = run.heard
        /\ run'.step = "PAGES" /\ run'.response = run.response
    BY <1>2 DEF SubmissionTyped, RunRow, Steps, Tries
  <2> QED
    BY <1>2, <2>1 DEF Moves, Steps, BeforePost
<1>3. CASE Ends("FAILED")
  BY <1>3 DEF Ended, AnswerKinds
<1> QED
  BY <1>1, <1>2, <1>3 DEF Continues

LEMMA FastFailsKinds ==
  ASSUME SubmissionTyped, AtHand, Quietly, run.step \in BeforePost, NEW kind, FastFails(kind)
  PROVE  Moves \/ \E outcome \in AnswerKinds : Ended(outcome)
<1>1. CASE Goes("PAGES")
  BY <1>1, GoesMoves DEF BeforePost, Steps
<1> QED
  BY <1>1, ContinuesKinds DEF FastFails

LEMMA WorkKinds ==
  ASSUME SubmissionTyped, Work
  PROVE  Moves \/ Posting \/ \E outcome \in AnswerKinds : Ended(outcome)
<1> DEFINE Goal == Moves \/ Posting \/ \E outcome \in AnswerKinds : Ended(outcome)
<1>0. run \in RunRow /\ register \in Seq(Issued) /\ Len(register) \in Nat
  BY DEF SubmissionTyped
<1>1. ASSUME Preflight PROVE Goal
  <2>1. AtHand /\ Quietly /\ run.step \in BeforePost
    BY <1>1, WorkIsAtHand DEF Preflight, Steps, Quietly, BeforePost
  <2>2. CASE /\ run' = [run EXCEPT !.step = "PREPARED", !.baseline = Len(register)]
             /\ UNCHANGED <<answer, attempted>>
    <3>1. /\ run' \in RunRow /\ run'.op = run.op /\ run'.heard = run.heard
          /\ run'.step = "PREPARED" /\ run'.response = run.response
      BY <1>0, <2>2 DEF RunRow, Steps
    <3> QED
      BY <2>1, <2>2, <3>1 DEF Moves, Steps, BeforePost
  <2> QED
    BY <1>1, <2>1, <2>2, FastFailsKinds DEF Preflight
<1>2. ASSUME Post PROVE Goal
  <2>1. AtHand /\ run.step \in BeforePost /\ UNCHANGED <<register, rash>>
    BY <1>2, WorkIsAtHand DEF Post, Steps, BeforePost
  <2>2. CASE Goes("POSTED") /\ Sent(run.op)
    BY <2>1, <2>2 DEF Posting
  <2>3. CASE FastFails("SESSION_INVALID") /\ UNCHANGED <<wire, posts>>
    BY <2>1, <2>3, FastFailsKinds DEF Quietly
  <2> QED
    BY <1>2, <2>2, <2>3 DEF Post
<1>3. ASSUME FillPages PROVE Goal
  BY <1>3, WorkIsAtHand, ContinuesKinds DEF FillPages, Steps, Quietly, BeforePost
<1>4. ASSUME Proceed PROVE Goal
  <2>1. AtHand /\ run.step \in BeforePost /\ UNCHANGED <<register, rash>> /\ Goes("CLICKED")
    BY <1>4, WorkIsAtHand DEF Proceed, Steps, BeforePost
  <2>2. CASE Sent(run.op)
    BY <2>1, <2>2 DEF Posting
  <2>3. CASE UNCHANGED <<wire, posts>>
    BY <2>1, <2>3, GoesMoves DEF Quietly, Steps, BeforePost
  <2> QED
    BY <1>4, <2>2, <2>3 DEF Proceed
<1>5. ASSUME RefreshSession PROVE Goal
  <2>1. AtHand /\ Quietly /\ run.step \in BeforePost
    BY <1>5, WorkIsAtHand DEF RefreshSession, Steps, Quietly, BeforePost
  <2>2. CASE /\ run' = [run EXCEPT !.step = FirstStep, !.try = "SECOND"]
             /\ UNCHANGED <<answer, attempted>>
    <3>1. /\ run' \in RunRow /\ run'.op = run.op /\ run'.heard = run.heard
          /\ run'.step \in Steps /\ run'.response = run.response
      BY <1>0, <2>2 DEF RunRow, Steps, Tries, FirstStep
    <3> QED
      BY <2>1, <2>2, <3>1 DEF Moves
  <2>3. CASE Ends("FAILED")
    BY <2>1, <2>3 DEF Ended, AnswerKinds
  <2> QED
    BY <1>5, <2>2, <2>3 DEF RefreshSession
<1>6. ASSUME Classify PROVE Goal
  <2>1. AtHand /\ Quietly
    BY <1>6, WorkIsAtHand DEF Classify, Steps, Quietly
  <2>2. CASE /\ run' = [run EXCEPT !.step = "RECOVER", !.response = "ERROR"]
             /\ UNCHANGED <<answer, attempted>>
    <3>1. /\ run' \in RunRow /\ run'.op = run.op /\ run'.heard = run.heard
          /\ run'.step = "RECOVER" /\ run'.response = "ERROR"
      BY <1>0, <2>2 DEF RunRow, Steps, Responses
    <3> QED
      BY <2>1, <2>2, <3>1 DEF Moves, Steps, BeforePost
  <2>3. CASE Goes("RECOVER") \/ Goes("RECONCILE")
    BY <2>1, <2>3, GoesMoves DEF Steps, BeforePost
  <2> QED
    BY <1>6, <2>2, <2>3 DEF Classify
<1>7. ASSUME Reconcile \/ ReadAgain \/ WatchPage PROVE Goal
  <2>1. AtHand /\ Quietly /\ run.step \in {"RECONCILE", "RECOVER", "CLICKED"}
    BY <1>7, WorkIsAtHand DEF Reconcile, ReadAgain, WatchPage, Steps, Quietly
  <2>2. CASE Goes("RECOVER")
    BY <2>1, <2>2, GoesMoves DEF Steps, BeforePost
  <2>3. CASE Ends("CONFIRMED") /\ (LastIsNew(run) \/ run.response \in {"STRONG", "WEAK"})
    BY <2>1, <2>3 DEF Ended, AnswerKinds
  <2>4. CASE Ends("UNKNOWN") \/ Ends("REJECTED")
    BY <2>1, <2>4 DEF Ended, AnswerKinds
  <2>5. ASSUME PostFailed PROVE Ends("UNKNOWN") \/ Ends("REJECTED")
    BY <2>5 DEF PostFailed, FallsBack, Verdict
  <2> QED
    BY <1>7, <2>2, <2>3, <2>4, <2>5 DEF Reconcile, ReadAgain, WatchPage
<1> QED
  BY <1>1, <1>2, <1>3, <1>4, <1>5, <1>6, <1>7 DEF Work

LEMMA EverySubmissionStep ==
  ASSUME SubmissionTyped, [SubmissionNext]_submissionVars PROVE SubmissionKinds
  BY WorkKinds DEF SubmissionNext, SubmissionKinds

-----------------------------------------------------------------------------
(* Each kind of step preserves what the promises rest on *)

\* The documents of each operation after one is added, or none.
LEMMA DocumentsStay ==
  ASSUME register' = register, NEW o PROVE DocumentsOf(o)' = DocumentsOf(o)
  BY DEF DocumentsOf

LEMMA DocumentsGrow ==
  ASSUME register \in Seq(Issued), NEW x \in Issued, register' = Append(register, x), NEW o
  PROVE  /\ DocumentsOf(o)' = IF x.op = o THEN DocumentsOf(o) \cup {Len(register) + 1}
                              ELSE DocumentsOf(o)
         /\ Len(register) + 1 \notin DocumentsOf(o) /\ register' \in Seq(Issued)
<1>1. /\ Len(register) \in Nat /\ DOMAIN register = 1..Len(register)
      /\ DOMAIN register' = 1..(Len(register) + 1)
      /\ register'[Len(register) + 1] = x
      /\ \A i \in 1..Len(register) : register'[i] = register[i]
      /\ register' \in Seq(Issued)
  OBVIOUS
<1> QED
  BY <1>1 DEF DocumentsOf

LEMMA RunTyped ==
  ASSUME NEW r \in RunRow, r.op \in Operations, r.step \in Steps
  PROVE  /\ (r.op = Foreign) <=> (r = NoRun)
         /\ (r.op = Foreign) <=> (r.step = "NONE")
<1>1. r.op # Foreign /\ r.step # "NONE"
  BY ForeignAssumption DEF Steps
<1> QED
  BY <1>1 DEF NoRun

LEMMA NoRunTyped ==
  NoRun \in RunRow /\ NoRun.op = Foreign /\ NoRun.step = "NONE" /\ NoRun.op \notin Operations
  BY ForeignAssumption DEF NoRun, RunRow, Tries, Responses

LEMMA MovesKeep == ASSUME SubmissionInv, Moves PROVE SubmissionInv'
<1>1. SubmissionTyped'
  <2>1. run' \in RunRow /\ run'.op \in Operations /\ run'.step \in Steps
    BY DEF Moves, AtHand
  <2> QED
    BY <2>1, RunTyped DEF SubmissionInv, SubmissionTyped, Moves, Quietly
<1>2. RunIsTold' /\ RunIsNew'
  BY DEF SubmissionInv, RunIsTold, RunIsNew, ToldOf, Moves
<1>3. OnePost'
  BY DEF SubmissionInv, OnePost, Unsent, Moves, Quietly
<1>4. PostsAccounted'
  BY DocumentsStay DEF SubmissionInv, PostsAccounted, Moves, Quietly
<1> QED
  BY <1>1, <1>2, <1>3, <1>4 DEF SubmissionInv

LEMMA EndedKeep == ASSUME SubmissionInv, NEW outcome, Ended(outcome) PROVE SubmissionInv'
<1>1. /\ run' = NoRun /\ run.op \in Operations /\ answer \in [Operations -> AnswerKinds]
      /\ outcome \in {"FAILED", "CONFIRMED", "REJECTED", "UNKNOWN"}
      /\ answer' \in {answer, [answer EXCEPT ![run.op] = outcome]}
      /\ UNCHANGED <<posts, wire, register, rash>>
  BY DEF Ended, Ends, AtHand, Quietly, SubmissionInv, SubmissionTyped
<1>2. SubmissionTyped'
  <2>1. answer' \in [Operations -> AnswerKinds]
    BY <1>1 DEF AnswerKinds
  <2> QED
    BY <1>1, <2>1, NoRunTyped DEF SubmissionInv, SubmissionTyped
<1>3. RunIsTold' /\ RunIsNew'
  BY <1>1, NoRunTyped DEF RunIsTold, RunIsNew
<1>4. OnePost'
  <2> SUFFICES ASSUME NEW o \in Operations \ rash
               PROVE  posts[o] <= 1 /\ (Unsent(o)' => posts[o] = 0)
    BY <1>1 DEF OnePost
  <2>1. posts[o] <= 1 /\ (Unsent(o) => posts[o] = 0)
    BY DEF SubmissionInv, OnePost
  <2>2. ASSUME answer'[o] \in {"NONE", "FAILED"} PROVE Unsent(o)
    <3>1. CASE answer'[o] = answer[o]
      BY <2>2, <3>1 DEF Unsent
    <3>2. CASE answer'[o] # answer[o]
      <4>1. o = run.op /\ outcome = "FAILED"
        BY <1>1, <2>2, <3>2
      <4> QED
        BY <4>1 DEF Unsent, Ended
    <3> QED
      BY <3>1, <3>2
  <2> QED
    BY <1>1, <2>1, <2>2, NoRunTyped DEF Unsent
<1>5. PostsAccounted'
  BY <1>1, DocumentsStay DEF SubmissionInv, PostsAccounted
<1> QED
  BY <1>2, <1>3, <1>4, <1>5 DEF SubmissionInv

LEMMA PostingKeep == ASSUME SubmissionInv, Posting PROVE SubmissionInv'
<1> DEFINE o == run.op
           m == [op |-> o, n |-> posts[o]]
<1>1. /\ o \in Operations /\ run.step \in BeforePost /\ run \in RunRow
      /\ posts \in [Operations -> Nat] /\ wire \subseteq Posted
      /\ posts' = [posts EXCEPT ![o] = posts[o] + 1] /\ wire' = wire \cup {m}
      /\ UNCHANGED <<register, rash, answer, attempted>>
  BY DEF Posting, Sent, Goes, AtHand, SubmissionInv, SubmissionTyped
<1>2. PICK step \in {"POSTED", "CLICKED"} : run' = [run EXCEPT !.step = step]
  BY DEF Posting, Goes
<1>3. /\ run' \in RunRow /\ run'.op = o /\ run'.heard = run.heard /\ run'.step = step
      /\ run'.step \in Steps /\ run'.step \notin BeforePost
  BY <1>1, <1>2 DEF RunRow, Steps, BeforePost
<1>4. /\ posts' \in [Operations -> Nat] /\ m \in Posted /\ m.op = o /\ m.n = posts[o]
      /\ posts'[o] = posts[o] + 1 /\ \A p \in Operations \ {o} : posts'[p] = posts[p]
  BY <1>1 DEF Posted
<1> HIDE DEF m
<1>5. SubmissionTyped'
  BY <1>1, <1>3, <1>4, RunTyped DEF SubmissionInv, SubmissionTyped
<1>6. RunIsTold' /\ RunIsNew'
  BY <1>1, <1>3 DEF SubmissionInv, RunIsTold, RunIsNew, ToldOf
<1>7. OnePost'
  <2> SUFFICES ASSUME NEW p \in Operations \ rash
               PROVE  posts'[p] <= 1 /\ (Unsent(p)' => posts'[p] = 0)
    BY <1>1 DEF OnePost
  <2>1. posts[p] <= 1 /\ (Unsent(p) => posts[p] = 0) /\ posts[p] \in Nat
    BY <1>1 DEF SubmissionInv, OnePost
  <2>2. CASE p = o
    <3>1. posts[p] = 0
      BY <1>1, <2>1, <2>2 DEF Unsent
    <3>2. answer[p] \in {"PENDING", "UNKNOWN"}
      BY <1>1, <2>2 DEF SubmissionInv, RunIsTold, ToldOf
    <3>3. ~ Unsent(p)'
      BY <1>1, <1>3, <3>2 DEF Unsent
    <3> QED
      BY <1>4, <2>2, <3>1, <3>3
  <2>3. CASE p # o
    BY <1>1, <1>3, <1>4, <2>1, <2>3 DEF Unsent
  <2> QED
    BY <2>2, <2>3
<1>8. PostsAccounted'
  <2>1. /\ \A w \in wire : w.n < posts[w.op] /\ w.op \in Operations /\ w.n \in Nat
        /\ \A p \in Operations : DocumentsOf(p) # {} => posts[p] > 0
        /\ \A p \in Operations : posts[p] <= 1 =>
             /\ \A i, j \in DocumentsOf(p) : i = j
             /\ \A w \in wire : w.op = p => DocumentsOf(p) = {}
    BY <1>1 DEF SubmissionInv, PostsAccounted, Posted
  <2>2. \A p \in Operations : DocumentsOf(p)' = DocumentsOf(p) /\ posts'[p] \in Nat /\ posts[p] \in Nat
                              /\ posts[p] <= posts'[p]
    BY <1>1, <1>4, DocumentsStay
  <2>3. \A w \in wire' : w.n < posts'[w.op]
    BY <1>1, <1>4, <2>1, <2>2
  <2>4. \A p \in Operations : DocumentsOf(p)' # {} => posts'[p] > 0
    BY <2>1, <2>2
  <2>5. ASSUME NEW p \in Operations, posts'[p] <= 1
        PROVE  /\ \A i, j \in DocumentsOf(p)' : i = j
               /\ \A w \in wire' : w.op = p => DocumentsOf(p)' = {}
    <3>1. CASE p = o
      <4>1. posts[p] = 0
        BY <1>4, <2>2, <2>5, <3>1
      <4> QED
        BY <2>1, <2>2, <4>1
    <3>2. CASE p # o
      BY <1>1, <1>4, <2>1, <2>2, <2>5, <3>2
    <3> QED
      BY <3>1, <3>2
  <2> QED
    BY <2>3, <2>4, <2>5 DEF PostsAccounted
<1> QED
  BY <1>5, <1>6, <1>7, <1>8 DEF SubmissionInv

LEMMA SubmitKeep == ASSUME SubmissionInv, NEW o \in Operations, Submit(o) PROVE SubmissionInv'
<1> DEFINE started == [NoRun EXCEPT !.op = o, !.step = FirstStep, !.heard = TRUE]
<1>1. /\ UNCHANGED <<attempted, wire, register, posts>>
      /\ rash' = IF Prudent(o) THEN rash ELSE rash \cup {o}
      /\ answer \in [Operations -> AnswerKinds] /\ run \in RunRow
      /\ run.op = Foreign <=> run = NoRun
  BY DEF Submit, SubmissionInv, SubmissionTyped
<1>2. /\ started \in RunRow /\ started.op = o /\ started.heard = TRUE
      /\ started.step \in Steps /\ started.step \in BeforePost
  BY NoRunTyped DEF NoRun, RunRow, FirstStep, Steps, BeforePost, Tries, Responses
<1>3. PostsAccounted'
  BY <1>1, DocumentsStay DEF SubmissionInv, PostsAccounted
<1> HIDE DEF started
<1>4. ASSUME run' = run, answer' = answer \/ (answer' = [answer EXCEPT ![o] = "FAILED"] /\ run.op # o)
                         \/ (answer' = [answer EXCEPT ![o] = "DUPLICATE"] /\ run = NoRun)
      PROVE  SubmissionInv'
  <2>1. answer' \in [Operations -> AnswerKinds]
    BY <1>1, <1>4 DEF AnswerKinds
  <2>2. SubmissionTyped'
    BY <1>1, <1>4, <2>1 DEF SubmissionInv, SubmissionTyped
  <2>3. RunIsTold' /\ RunIsNew'
    BY <1>1, <1>4, NoRunTyped DEF SubmissionInv, RunIsTold, RunIsNew, ToldOf
  <2>4. OnePost'
    <3> SUFFICES ASSUME NEW p \in Operations \ rash'
                 PROVE  posts[p] <= 1 /\ (Unsent(p)' => posts[p] = 0)
      BY <1>1 DEF OnePost
    <3>1. p \notin rash /\ posts[p] <= 1 /\ (Unsent(p) => posts[p] = 0)
      BY <1>1 DEF SubmissionInv, OnePost
    <3>2. CASE p # o
      BY <1>1, <1>4, <3>1, <3>2 DEF Unsent
    <3>3. CASE p = o
      <4>1. Unsent(p)
        BY <1>1, <3>3 DEF Prudent, Unsent
      <4> QED
        BY <3>1, <4>1
    <3> QED
      BY <3>2, <3>3
  <2> QED
    BY <1>3, <2>2, <2>3, <2>4 DEF SubmissionInv
<1>5. ASSUME run' = started, answer' = [answer EXCEPT ![o] = "PENDING"], o \notin ToSet(attempted)
      PROVE  SubmissionInv'
  <2>1. answer' \in [Operations -> AnswerKinds] /\ answer'[o] = "PENDING"
    BY <1>1, <1>5 DEF AnswerKinds
  <2>2. SubmissionTyped'
    BY <1>1, <1>2, <1>5, <2>1, RunTyped DEF SubmissionInv, SubmissionTyped
  <2>3. RunIsTold' /\ RunIsNew'
    BY <1>1, <1>2, <1>5, <2>1 DEF RunIsTold, RunIsNew, ToldOf
  <2>4. OnePost'
    <3> SUFFICES ASSUME NEW p \in Operations \ rash'
                 PROVE  posts[p] <= 1 /\ (Unsent(p)' => posts[p] = 0)
      BY <1>1 DEF OnePost
    <3>1. p \notin rash /\ posts[p] <= 1 /\ (Unsent(p) => posts[p] = 0)
      BY <1>1 DEF SubmissionInv, OnePost
    <3>2. CASE p # o
      BY <1>1, <1>2, <1>5, <3>1, <3>2 DEF Unsent
    <3>3. CASE p = o
      <4>1. Unsent(p)
        BY <1>1, <3>3 DEF Prudent, Unsent
      <4> QED
        BY <3>1, <4>1
    <3> QED
      BY <3>2, <3>3
  <2> QED
    BY <1>3, <2>2, <2>3, <2>4 DEF SubmissionInv
<1> QED
  BY <1>4, <1>5 DEF Submit, started

LEMMA DeliverKeep == ASSUME SubmissionInv, NEW m \in wire, Deliver(m) PROVE SubmissionInv'
<1>1. /\ wire' = wire \ {m} /\ UNCHANGED <<attempted, answer, posts, rash>>
      /\ m.op \in Operations /\ m \in Posted /\ m.n < posts[m.op]
      /\ run \in RunRow /\ wire \subseteq Posted
  BY DEF Deliver, SubmissionInv, SubmissionTyped, PostsAccounted, Posted
<1>2. run' = run \/ \E response \in Responses : run' = [run EXCEPT !.response = response] /\ run.op = m.op
  BY DEF Deliver, Responded, Responses
<1>3. /\ run' \in RunRow /\ run'.op = run.op /\ run'.heard = run.heard /\ run'.step = run.step
      /\ run' = run \/ run.op = m.op
  BY <1>1, <1>2 DEF RunRow
<1> DEFINE x == [op |-> m.op, total |-> Total[m.op]]
<1>4. register' = register \/ register' = Append(register, x)
  BY DEF Deliver
<1>5. x \in Issued /\ x.op = m.op
  BY <1>1 DEF Issued
<1> HIDE DEF x
<1>6. register' \in Seq(Issued)
  BY <1>4, <1>5, DocumentsGrow DEF SubmissionInv, SubmissionTyped
<1>7. SubmissionTyped'
  <2>1. (run'.op = Foreign) <=> (run' = NoRun)
    BY <1>1, <1>3, NoRunTyped, ForeignAssumption DEF SubmissionInv, SubmissionTyped
  <2> QED
    BY <1>1, <1>3, <1>6, <2>1 DEF SubmissionInv, SubmissionTyped
<1>8. RunIsTold' /\ RunIsNew'
  BY <1>1, <1>3 DEF SubmissionInv, RunIsTold, RunIsNew, ToldOf
<1>9. OnePost'
  BY <1>1, <1>3 DEF SubmissionInv, OnePost, Unsent
<1>10. PostsAccounted'
  <2>1. /\ \A w \in wire : w.n < posts[w.op] /\ w.op \in Operations /\ w.n \in Nat
        /\ \A p \in Operations : posts[p] \in Nat
        /\ \A p \in Operations : DocumentsOf(p) # {} => posts[p] > 0
        /\ \A p \in Operations : posts[p] <= 1 =>
             /\ \A i, j \in DocumentsOf(p) : i = j
             /\ \A w \in wire : w.op = p => DocumentsOf(p) = {}
    BY <1>1 DEF SubmissionInv, SubmissionTyped, PostsAccounted, Posted
  <2>2. ASSUME NEW p \in Operations, p # m.op PROVE DocumentsOf(p)' = DocumentsOf(p)
    BY <1>4, <1>5, <2>2, DocumentsStay, DocumentsGrow DEF SubmissionInv, SubmissionTyped
  <2>3. DocumentsOf(m.op)' \in {DocumentsOf(m.op), DocumentsOf(m.op) \cup {Len(register) + 1}}
    BY <1>1, <1>4, <1>5, DocumentsStay, DocumentsGrow DEF SubmissionInv, SubmissionTyped
  <2>4. ASSUME NEW p \in Operations, DocumentsOf(p)' # {} PROVE posts[p] > 0
    <3>1. CASE p = m.op
      BY <1>1, <2>1, <3>1
    <3>2. CASE p # m.op
      BY <2>1, <2>2, <2>4, <3>2
    <3> QED
      BY <3>1, <3>2
  <2>5. ASSUME NEW p \in Operations, posts[p] <= 1
        PROVE  /\ \A i, j \in DocumentsOf(p)' : i = j
               /\ \A w \in wire' : w.op = p => DocumentsOf(p)' = {}
    <3>1. CASE p = m.op
      <4>1. DocumentsOf(p) = {}
        BY <2>1, <2>5, <3>1
      <4>2. ASSUME NEW w \in wire', w.op = p PROVE FALSE
        <5>1. w \in wire /\ w # m /\ w.n = 0 /\ m.n = 0
          BY <1>1, <2>1, <2>5, <3>1, <4>2
        <5>2. w = m
          BY <1>1, <3>1, <4>2, <5>1 DEF Posted
        <5> QED
          BY <5>1, <5>2
      <4> QED
        BY <2>3, <3>1, <4>1, <4>2
    <3>2. CASE p # m.op
      BY <1>1, <2>1, <2>2, <2>5, <3>2
    <3> QED
      BY <3>1, <3>2
  <2> QED
    BY <1>1, <2>1, <2>4, <2>5 DEF PostsAccounted
<1> QED
  BY <1>7, <1>8, <1>9, <1>10 DEF SubmissionInv

LEMMA IssueElsewhereKeep ==
  ASSUME SubmissionInv, NEW total \in ForeignTotals, IssueElsewhere(total) PROVE SubmissionInv'
<1> DEFINE x == [op |-> Foreign, total |-> total]
<1>1. /\ register' = Append(register, x) /\ x \in Issued /\ x.op = Foreign
      /\ UNCHANGED <<run, attempted, wire, answer, posts, rash>>
  BY DEF IssueElsewhere, Issued
<1> HIDE DEF x
<1>2. register' \in Seq(Issued)
  BY <1>1, DocumentsGrow DEF SubmissionInv, SubmissionTyped
<1>3. \A p \in Operations : DocumentsOf(p)' = DocumentsOf(p)
  BY <1>1, DocumentsGrow, ForeignAssumption DEF SubmissionInv, SubmissionTyped
<1>4. SubmissionTyped' /\ RunIsTold' /\ RunIsNew' /\ OnePost'
  BY <1>1, <1>2 DEF SubmissionInv, SubmissionTyped, RunIsTold, RunIsNew, OnePost, Unsent
<1>5. PostsAccounted'
  <2>1. \A m \in wire : m.op \in Operations
    BY DEF SubmissionInv, SubmissionTyped, Posted
  <2> QED
    BY <1>1, <1>3, <2>1 DEF SubmissionInv, PostsAccounted
<1> QED
  BY <1>4, <1>5 DEF SubmissionInv

LEMMA CallerTimesOutKeep == ASSUME SubmissionInv, CallerTimesOut PROVE SubmissionInv'
<1>1. run.op \in Operations
  BY DEF CallerTimesOut, SubmissionInv, SubmissionTyped, RunRow, NoRun
<1>2. /\ UNCHANGED <<attempted, wire, register, posts, rash>>
      /\ run' = [run EXCEPT !.heard = FALSE] /\ run \in RunRow
      /\ answer' = [answer EXCEPT ![run.op] = "UNKNOWN"] /\ answer \in [Operations -> AnswerKinds]
  BY DEF CallerTimesOut, SubmissionInv, SubmissionTyped
<1>3. /\ run' \in RunRow /\ run'.op = run.op /\ run'.step = run.step /\ ~ run'.heard
      /\ run'.response = run.response /\ run'.step \in Steps
  BY <1>1, <1>2, ForeignAssumption DEF RunRow, SubmissionInv, SubmissionTyped
<1>4. answer' \in [Operations -> AnswerKinds] /\ answer'[run.op] = "UNKNOWN"
  BY <1>1, <1>2 DEF AnswerKinds
<1>5. SubmissionTyped'
  BY <1>1, <1>2, <1>3, <1>4, RunTyped DEF SubmissionInv, SubmissionTyped
<1>6. RunIsTold' /\ RunIsNew'
  BY <1>1, <1>2, <1>3, <1>4 DEF SubmissionInv, RunIsTold, RunIsNew, ToldOf
<1>7. OnePost'
  BY <1>1, <1>2, <1>3, <1>4 DEF SubmissionInv, OnePost, Unsent
<1>8. PostsAccounted'
  BY <1>2, DocumentsStay DEF SubmissionInv, PostsAccounted
<1> QED
  BY <1>5, <1>6, <1>7, <1>8 DEF SubmissionInv

LEMMA RestartKeep == ASSUME SubmissionInv, Restart PROVE SubmissionInv'
<1>1. /\ UNCHANGED <<wire, register, posts, rash>> /\ run' = NoRun /\ attempted' = <<>>
      /\ run \in RunRow /\ answer \in [Operations -> AnswerKinds]
      /\ answer' = answer \/ answer' = [answer EXCEPT ![run.op] = "UNKNOWN"]
  BY DEF Restart, SubmissionInv, SubmissionTyped
<1>2. answer' \in [Operations -> AnswerKinds]
  BY <1>1 DEF AnswerKinds
<1>3. SubmissionTyped' /\ RunIsTold' /\ RunIsNew'
  BY <1>1, <1>2, NoRunTyped DEF SubmissionInv, SubmissionTyped, RunIsTold, RunIsNew
<1>4. OnePost'
  BY <1>1, NoRunTyped DEF SubmissionInv, OnePost, Unsent
<1>5. PostsAccounted'
  BY <1>1, DocumentsStay DEF SubmissionInv, PostsAccounted
<1> QED
  BY <1>3, <1>4, <1>5 DEF SubmissionInv

LEMMA SubmissionSteps ==
  ASSUME SubmissionInv, [SubmissionNext]_submissionVars PROVE SubmissionInv'
<1>1. ASSUME UNCHANGED submissionVars PROVE SubmissionInv'
  BY <1>1, DocumentsStay
    DEF SubmissionInv, submissionVars, SubmissionTyped, RunIsTold, RunIsNew, ToldOf, OnePost, Unsent,
        PostsAccounted
<1> QED
  BY <1>1, EverySubmissionStep, MovesKeep, EndedKeep, PostingKeep, SubmitKeep, DeliverKeep,
     IssueElsewhereKeep, CallerTimesOutKeep, RestartKeep DEF SubmissionKinds, SubmissionInv

LEMMA SubmissionStarts == SubmissionInit => SubmissionInv
<1> SUFFICES ASSUME SubmissionInit PROVE SubmissionInv
  OBVIOUS
<1>1. \A o : DocumentsOf(o) = {}
  BY DEF SubmissionInit, DocumentsOf
<1>2. SubmissionTyped
  BY NoRunTyped DEF SubmissionInit, SubmissionTyped, AnswerKinds
<1> QED
  BY <1>1, <1>2, NoRunTyped
    DEF SubmissionInit, SubmissionInv, RunIsTold, RunIsNew, OnePost, Unsent, PostsAccounted

-----------------------------------------------------------------------------
(* What is confirmed is issued, as far as its total tells *)

\* A document recognised as the submit's has its total.
LEMMA LastIsOurs ==
  ASSUME SubmissionTyped, run.op \in Operations, LastIsNew(run)
  PROVE  TotalIssued(run.op)
<1>1. /\ run.baseline \in Nat /\ Len(register) \in Nat /\ Len(register) > run.baseline
      /\ Last(register) = register[Len(register)] /\ register[Len(register)].total = Total[run.op]
  BY DEF SubmissionTyped, RunRow, LastIsNew, Last
<1>2. Len(register) \in DOMAIN register
  BY <1>1 DEF SubmissionTyped
<1> QED
  BY <1>1, <1>2 DEF TotalIssued

\* A document that is added is there, beside the others.
LEMMA TotalsGrow ==
  ASSUME SubmissionTyped, NEW x, x \in Issued, register' = Append(register, x), NEW o
  PROVE  TotalIssued(o) \/ x.total = Total[o] => TotalIssued(o)'
<1>1. /\ register \in Seq(Issued) /\ Len(register) \in Nat
  BY DEF SubmissionTyped
<1>2. /\ DOMAIN register = 1..Len(register) /\ DOMAIN register' = 1..(Len(register) + 1)
      /\ register'[Len(register) + 1] = x
      /\ \A i \in 1..Len(register) : register'[i] = register[i]
  BY <1>1
<1> QED
  BY <1>1, <1>2 DEF TotalIssued

\* A document stays in the register.
LEMMA DocumentsRemain ==
  ASSUME SubmissionInv, [SubmissionNext]_submissionVars, NEW o \in Operations, TotalIssued(o)
  PROVE  TotalIssued(o)'
<1>1. CASE register' = register
  BY <1>1 DEF TotalIssued
<1>2. ASSUME NEW x \in Issued, register' = Append(register, x) PROVE TotalIssued(o)'
  BY <1>2, TotalsGrow DEF SubmissionInv
<1>3. ASSUME NEW m \in wire, Deliver(m) PROVE register' = register \/ \E x \in Issued : register' = Append(register, x)
  <2>1. m.op \in Operations
    BY DEF SubmissionInv, SubmissionTyped, Posted
  <2>2. [op |-> m.op, total |-> Total[m.op]] \in Issued
    BY <2>1 DEF Issued
  <2> QED
    BY <1>3, <2>2 DEF Deliver
<1>4. ASSUME NEW total \in ForeignTotals, IssueElsewhere(total)
      PROVE  \E x \in Issued : register' = Append(register, x)
  <2>1. [op |-> Foreign, total |-> total] \in Issued
    BY DEF Issued
  <2> QED
    BY <1>4, <2>1 DEF IssueElsewhere
<1> QED
  BY <1>1, <1>2, <1>3, <1>4, EverySubmissionStep
    DEF SubmissionInv, SubmissionKinds, Moves, Ended, Quietly, Posting, Submit, CallerTimesOut, Restart,
        submissionVars

LEMMA ConfirmedKept ==
  ASSUME SubmissionInv, ConfirmedIsIssued, [SubmissionNext]_submissionVars
  PROVE  ConfirmedIsIssued'
<1> SUFFICES ASSUME NEW o \in Operations, Confirmed(o)' PROVE TotalIssued(o)'
  BY DEF ConfirmedIsIssued
<1>0. Confirmed(o) => TotalIssued(o)'
  BY DocumentsRemain DEF ConfirmedIsIssued
<1>t. run \in RunRow /\ answer \in [Operations -> AnswerKinds]
  BY DEF SubmissionInv, SubmissionTyped
<1>1. CASE Moves
  BY <1>0, <1>1 DEF Moves, Confirmed
<1>2. CASE Posting
  <2>1. answer' = answer /\ run'.op = run.op /\ run'.response = run.response
    BY <1>2, <1>t DEF Posting, Goes, RunRow
  <2> QED
    BY <1>0, <2>1 DEF Confirmed
<1>3. ASSUME NEW outcome \in AnswerKinds, Ended(outcome) PROVE TotalIssued(o)'
  <2>1. /\ run' = NoRun /\ answer' \in {answer, [answer EXCEPT ![run.op] = outcome]}
        /\ run.op \in Operations
        /\ outcome = "CONFIRMED" => LastIsNew(run) \/ run.response \in {"STRONG", "WEAK"}
    BY <1>3 DEF Ended, Ends, AtHand
  <2>2. answer'[o] = "CONFIRMED"
    BY <2>1, NoRunTyped DEF Confirmed
  <2>3. CASE answer'[o] = answer[o]
    BY <1>0, <2>2, <2>3 DEF Confirmed
  <2>4. CASE answer'[o] # answer[o]
    <3>1. o = run.op /\ outcome = "CONFIRMED"
      BY <1>t, <2>1, <2>2, <2>4
    <3>2. CASE LastIsNew(run)
      BY <3>1, <3>2, LastIsOurs, DocumentsRemain DEF SubmissionInv
    <3>3. CASE run.response \in {"STRONG", "WEAK"}
      BY <1>0, <3>1, <3>3 DEF Confirmed
    <3> QED
      BY <2>1, <3>1, <3>2, <3>3
  <2> QED
    BY <2>3, <2>4
<1>4. ASSUME NEW p \in Operations, Submit(p) PROVE TotalIssued(o)'
  <2>1. answer'[o] = "CONFIRMED" => answer[o] = "CONFIRMED"
    BY <1>4, <1>t DEF Submit
  <2>2. run' = run \/ run'.response = "NONE"
    BY <1>4 DEF Submit, NoRun
  <2> QED
    BY <1>0, <2>1, <2>2 DEF Confirmed
<1>5. ASSUME NEW m \in wire, Deliver(m) PROVE TotalIssued(o)'
  <2>1. answer' = answer
    BY <1>5 DEF Deliver
  <2>2. CASE run' = run
    BY <1>0, <2>1, <2>2 DEF Confirmed
  <2>3. CASE ~ Confirmed(o)
    <3>1. run'.op = o /\ run'.response \in {"STRONG", "WEAK"} /\ run' # run
      BY <2>1, <2>3 DEF Confirmed
    <3>2. PICK response \in Responses : /\ run' = [run EXCEPT !.response = response] /\ run.op = m.op
                                        /\ response \in {"STRONG", "WEAK"} =>
                                             register' = Append(register, [op |-> m.op, total |-> Total[m.op]])
      BY <1>5, <3>1 DEF Deliver, Responded, Responses
    <3>3. run.op = o /\ response \in {"STRONG", "WEAK"}
      BY <1>t, <3>1, <3>2 DEF RunRow
    <3>4. [op |-> o, total |-> Total[o]] \in Issued
      BY DEF Issued
    <3>5. register' = Append(register, [op |-> o, total |-> Total[o]])
      BY <3>2, <3>3
    <3> QED
      BY <3>4, <3>5, TotalsGrow DEF SubmissionInv
  <2> QED
    BY <1>0, <2>3
<1>6. ASSUME NEW total \in ForeignTotals, IssueElsewhere(total) PROVE TotalIssued(o)'
  BY <1>0, <1>6 DEF IssueElsewhere, Confirmed
<1>7. CASE CallerTimesOut
  <2>1. run'.op = run.op /\ run'.response = run.response /\ (answer'[o] = "CONFIRMED" => answer[o] = "CONFIRMED")
    BY <1>7, <1>t DEF CallerTimesOut, RunRow
  <2> QED
    BY <1>0, <2>1 DEF Confirmed
<1>8. CASE Restart
  <2>1. run' = NoRun /\ (answer'[o] = "CONFIRMED" => answer[o] = "CONFIRMED")
    BY <1>8, <1>t DEF Restart
  <2> QED
    BY <1>0, <2>1, NoRunTyped DEF Confirmed
<1>9. CASE UNCHANGED submissionVars
  BY <1>0, <1>9 DEF submissionVars, Confirmed
<1> QED
  BY <1>1, <1>2, <1>3, <1>4, <1>5, <1>6, <1>7, <1>8, <1>9, EverySubmissionStep
    DEF SubmissionKinds, SubmissionInv

LEMMA NothingConfirmed == SubmissionInit => ConfirmedIsIssued
  BY NoRunTyped DEF SubmissionInit, ConfirmedIsIssued, Confirmed

-----------------------------------------------------------------------------
(* One document of an operation, and no second POST of what is remembered *)

LEMMA AtMostOneDocument ==
  ASSUME NEW S, \A i, j \in S : i = j PROVE Cardinality(S) <= 1
<1>1. CASE S = {}
  BY <1>1, FS_EmptySet
<1>2. CASE S # {}
  <2>1. PICK i : i \in S
    BY <1>2
  <2>2. S = {i}
    BY <2>1
  <2>3. Cardinality({i}) = 1
    BY FS_Singleton
  <2> QED
    BY <2>2, <2>3
<1> QED
  BY <1>1, <1>2

\* What holds of every state, the confirmations aside.
NeverTwice ==
  \A o \in Operations \ rash :
    /\ answer[o] = "FAILED" => posts[o] = 0
    /\ posts[o] <= 1 /\ Cardinality(DocumentsOf(o)) <= 1

LEMMA InvNeverTwice == SubmissionInv => NeverTwice
<1> SUFFICES ASSUME SubmissionInv, NEW o \in Operations \ rash
             PROVE  /\ answer[o] = "FAILED" => posts[o] = 0
                    /\ posts[o] <= 1 /\ Cardinality(DocumentsOf(o)) <= 1
  BY DEF NeverTwice
<1>1. posts[o] <= 1 /\ (answer[o] = "FAILED" => posts[o] = 0)
  BY DEF SubmissionInv, OnePost, Unsent
<1>2. \A i, j \in DocumentsOf(o) : i = j
  BY <1>1 DEF SubmissionInv, PostsAccounted
<1> QED
  BY <1>1, <1>2, AtMostOneDocument

LEMMA RememberedStays ==
  ASSUME SubmissionInv, [SubmissionNext]_submissionVars
  PROVE  \A o \in ToSet(attempted) : posts'[o] = posts[o]
<1>1. ASSUME Posting, NEW o \in ToSet(attempted) PROVE posts'[o] = posts[o]
  <2>1. o # run.op /\ posts' = [posts EXCEPT ![run.op] = @ + 1]
    BY <1>1 DEF Posting, AtHand, SubmissionInv, RunIsNew, Sent
  <2>2. posts \in [Operations -> Nat]
    BY DEF SubmissionInv, SubmissionTyped
  <2> QED
    BY <2>1, <2>2
<1> QED
  BY <1>1, EverySubmissionStep
    DEF SubmissionInv, SubmissionKinds, Moves, Ended, Quietly, Submit, Deliver, IssueElsewhere,
        CallerTimesOut, Restart, submissionVars

(***************************************************************************)
(* For any number of operations, requests, losses, restarts and documents  *)
(* issued elsewhere, whatever their totals: a caller that asks again only  *)
(* after a failure has each operation posted, and issued, once at most,    *)
(* and what it was told had not been attempted was not; what the worker    *)
(* remembers it does not post (ade-document-submit.service.ts:228).        *)
(***************************************************************************)
THEOREM NothingIsSentTwice ==
  SubmissionSpec =>
    []NeverTwice /\ [][\A o \in ToSet(attempted) : posts'[o] = posts[o]]_submissionVars
<1>1. SubmissionInit => SubmissionInv
  BY SubmissionStarts
<1>2. SubmissionInv /\ [SubmissionNext]_submissionVars => SubmissionInv'
  BY SubmissionSteps
<1>3. SubmissionInv => NeverTwice
  BY InvNeverTwice
<1>4. SubmissionInv /\ [SubmissionNext]_submissionVars =>
        [\A o \in ToSet(attempted) : posts'[o] = posts[o]]_submissionVars
  BY RememberedStays
<1> QED
  BY <1>1, <1>2, <1>3, <1>4, PTL DEF SubmissionSpec

(***************************************************************************)
(* The worker's promise as a whole, whatever the totals: what is confirmed *)
(* has a document of its total in the register, what is said not to have   *)
(* been attempted was not sent, an operation nobody asked for rashly is    *)
(* issued once at most, and what the worker remembers it does not send     *)
(* again (ade-dco-fast-submit.service.ts:136,                              *)
(* ade-document-submit.service.ts:228).                                    *)
(***************************************************************************)
THEOREM DocumentsAreSubmittedAtMostOnce == SubmissionSpec => SubmittedAtMostOnce
<1> DEFINE Kept == SubmissionInv /\ ConfirmedIsIssued
           Promised == AnswersAreTrue /\ \A o \in Operations \ rash : Cardinality(DocumentsOf(o)) <= 1
<1>1. SubmissionInit => Kept
  BY SubmissionStarts, NothingConfirmed
<1>2. Kept /\ [SubmissionNext]_submissionVars => Kept'
  BY SubmissionSteps, ConfirmedKept
<1>3. Kept => Promised
  <2> SUFFICES ASSUME Kept PROVE Promised
    OBVIOUS
  <2>1. NeverTwice /\ \A o \in Operations : answer[o] = "CONFIRMED" => TotalIssued(o)
    BY InvNeverTwice DEF ConfirmedIsIssued, Confirmed
  <2>2. AnswersAreTrue
    BY <2>1 DEF AnswersAreTrue, NeverTwice, TotalIssued
  <2> QED
    BY <2>1, <2>2 DEF NeverTwice
<1>4. Kept /\ [SubmissionNext]_submissionVars =>
        [\A o \in ToSet(attempted) : posts'[o] = posts[o]]_submissionVars
  BY RememberedStays
<1> HIDE DEF Kept
<1> QED
  BY <1>1, <1>2, <1>3, <1>4, PTL DEF SubmissionSpec, SubmittedAtMostOnce

-----------------------------------------------------------------------------
(***************************************************************************)
(* The pages of the agency (AdeBrowser).                                   *)
(***************************************************************************)
SessionRow == [version : Nat, as : FiscalIds \cup {Nobody}]
SignInSteps == {"IDLE", "LOGIN", "SIGNED", "SWITCHED", "SERVICE", "PROFILE"}
SignInRow == [step : SignInSteps, target : FiscalIds \cup {Nobody},
              as : FiscalIds \cup {Nobody}, by : Runs \cup {Nobody}]
PageRow == [stamp : Nat, version : Nat, as : FiscalIds \cup {Nobody}, open : BOOLEAN]
NoSessionYet == {"IDLE", "SESSION", "REFRESH", "WAIT"}
AllFilled == {"VERIFY", "ADVANCE", "NOTICE", "CONFIRM", "BOUNDARY", "CLICKED"}
DriveSteps == NoSessionYet \cup AllFilled \cup {"PAGE", "OPEN", "ITEMS"}
DriveRow == [step : DriveSteps, try : {"FIRST", "SECOND"}, dco : Dcos \cup {Nobody},
             since : Nat, stamp : Nat, rows : Nat, right : BOOLEAN]
ClickRow == [dco : Dcos, as : FiscalIds \cup {Nobody}, right : BOOLEAN, rows : Nat, nth : Nat]

BrowserTyped ==
  /\ saved \in [FiscalIds -> SessionRow]
  /\ signIn \in SignInRow
  /\ pool \in [Runs -> PageRow]
  /\ drive \in [Runs -> DriveRow]
  /\ told \in [Dcos -> {"NONE", "FAILED", "UNKNOWN", "CONFIRMED"}]
  /\ clicked \subseteq ClickRow

\* The sign-in under way is somebody's, and who asked for it waits for it.
SignInIsSound ==
  /\ signIn.step # "IDLE" => signIn.target \in FiscalIds
  /\ signIn.step = "PROFILE" => signIn.as = signIn.target
  /\ signIn.by \in Runs => drive[signIn.by].step = "WAIT"

FilesAreTheirOwn == \A f \in FiscalIds : saved[f].version > 0 => saved[f].as = f

\* A page works as its seller, in the session of its stamp or a later one.
PageIsSound(r) == pool[r] # NoPage => pool[r].as = Owner(r) /\ pool[r].version >= pool[r].stamp

\* A run has the stamp of a session that was there when its try began, or of a later one,
\* and fills in the whole document.
DriveIsSound(r) ==
  /\ drive[r].right = TRUE /\ drive[r].since <= saved[Owner(r)].version
  /\ drive[r].step # "IDLE" => drive[r].dco \in Dcos
  /\ drive[r].step \notin NoSessionYet =>
       /\ drive[r].stamp > 0 /\ drive[r].stamp >= drive[r].since
       /\ drive[r].stamp <= saved[Owner(r)].version
  /\ drive[r].step \in AllFilled => drive[r].rows = Rows[drive[r].dco]
  /\ drive[r].step \notin NoSessionYet \cup {"PAGE"} /\ pool[r] # NoPage =>
       pool[r].version >= drive[r].since

\* A submit's document is its seller's, and was never said to be in doubt.
SubmitIsSound(r) ==
  drive[r].step # "IDLE" =>
    Seller[drive[r].dco] = r /\ told[drive[r].dco] \in {"NONE", "FAILED"}

BrowserInv ==
  /\ BrowserTyped /\ SignInIsSound /\ FilesAreTheirOwn
  /\ \A r \in Runs : PageIsSound(r) /\ DriveIsSound(r)
  /\ \A r \in FiscalIds : SubmitIsSound(r)
  /\ IssuedAsAsked /\ FailedIsNotIssued

\* Every run works for a fiscal id: its own, or the configured one.
LEMMA OwnersAreSellers ==
  /\ \A r \in Runs : Owner(r) \in FiscalIds
  /\ \A r \in FiscalIds : Owner(r) = r /\ r \in Runs
  /\ DryRun \notin FiscalIds /\ Nobody \notin Runs /\ DryRun \in Runs
BY BrowserAssumption, DryRunAssumption DEF Owner, Runs, DryRun, Nobody

\* Nothing is saved, driven or clicked when the worker is first started.
LEMMA NothingIsDriven == BrowserInit => BrowserInv
<1> SUFFICES ASSUME BrowserInit PROVE BrowserInv
  OBVIOUS
<1> USE OwnersAreSellers DEF BrowserInit
<1>1. NoPage \in PageRow /\ NoDrive \in DriveRow /\ NoSignIn \in SignInRow
  BY DEF NoPage, PageRow, NoDrive, DriveRow, DriveSteps, NoSessionYet, AllFilled, NoSignIn,
         SignInRow, SignInSteps
<1>2. BrowserTyped
  BY <1>1 DEF BrowserTyped, SessionRow
<1>3. SignInIsSound /\ FilesAreTheirOwn
  BY DEF SignInIsSound, NoSignIn, FilesAreTheirOwn
<1>4. \A r \in Runs : PageIsSound(r) /\ DriveIsSound(r) /\ drive[r].step = "IDLE"
  BY DEF PageIsSound, DriveIsSound, NoDrive, NoSessionYet, AllFilled
<1>5. IssuedAsAsked /\ FailedIsNotIssued
  BY DEF IssuedAsAsked, FailedIsNotIssued, HasIssued, ClicksFor
<1> QED
  BY <1>2, <1>3, <1>4, <1>5 DEF BrowserInv, SubmitIsSound

\* Pages are as they were, or were closed and reset.
PoolShrinks ==
  /\ pool' \in [Runs -> PageRow]
  /\ \A q \in Runs : pool'[q] = pool[q] \/ pool'[q] = NoPage

\* A run goes on with its document.
LEMMA RunGoesOn ==
  ASSUME BrowserInv, PoolShrinks, NEW r \in Runs, NEW x \in DriveRow,
         drive' = [drive EXCEPT ![r] = x], UNCHANGED <<saved, told, clicked>>,
         \/ UNCHANGED signIn
         \/ /\ signIn' \in SignInRow /\ signIn'.step = "LOGIN" /\ signIn'.target \in FiscalIds
            /\ signIn'.by = r /\ x.step = "WAIT",
         drive[r].step \notin {"IDLE", "WAIT", "CLICKED"}, x.step \notin {"IDLE", "CLICKED"},
         x.dco = drive[r].dco, x.since = drive[r].since, x.right = TRUE,
         x.step \notin NoSessionYet =>
           x.stamp > 0 /\ x.stamp >= x.since /\ x.stamp <= saved[Owner(r)].version,
         x.step \in AllFilled => x.rows = Rows[x.dco],
         x.step \notin NoSessionYet \cup {"PAGE"} => drive[r].step \notin NoSessionYet \cup {"PAGE"}
  PROVE  BrowserInv'
<1> USE DEF BrowserInv
<1>1. /\ drive' \in [Runs -> DriveRow]
      /\ \A q \in Runs : q # r => drive'[q] = drive[q]
      /\ drive'[r] = x
  BY DEF BrowserTyped
<1>2. BrowserTyped'
  BY <1>1 DEF BrowserTyped, PoolShrinks
<1>3. SignInIsSound' /\ FilesAreTheirOwn'
  BY <1>1, OwnersAreSellers DEF SignInIsSound, FilesAreTheirOwn
<1>4. ASSUME NEW q \in Runs PROVE PageIsSound(q)' /\ DriveIsSound(q)'
  <2>1. PageIsSound(q)'
    BY DEF PageIsSound, PoolShrinks
  <2>2. CASE q = r
    BY <1>1, <2>1, <2>2 DEF DriveIsSound, PoolShrinks
  <2>3. CASE q # r
    BY <1>1, <2>1, <2>3 DEF DriveIsSound, PoolShrinks
  <2> QED
    BY <2>1, <2>2, <2>3
<1>5. \A q \in FiscalIds : SubmitIsSound(q)'
  BY <1>1, OwnersAreSellers DEF SubmitIsSound
<1>6. IssuedAsAsked' /\ FailedIsNotIssued'
  <2>1. \A d \in Dcos : Clicking(d)' <=> Clicking(d)
    BY <1>1, OwnersAreSellers DEF Clicking
  <2> QED
    BY <2>1 DEF IssuedAsAsked, FailedIsNotIssued, HasIssued, ClicksFor
<1> QED
  BY <1>2, <1>3, <1>4, <1>5, <1>6

\* A run is over: what is said of its document is true.
LEMMA RunIsOver ==
  ASSUME BrowserInv, PoolShrinks, NEW r \in Runs, NEW said \in {"FAILED", "UNKNOWN", "CONFIRMED", "READY"},
         RunEnds(r, said), UNCHANGED <<saved, clicked>>, drive[r].step # "IDLE",
         said = "READY" => r = DryRun,
         said = "FAILED" => drive[r].step # "CLICKED",
         \/ UNCHANGED signIn /\ drive[r].step # "WAIT"
         \/ signIn' = NoSignIn
  PROVE  BrowserInv'
<1> USE DEF BrowserInv
<1>1. /\ drive' \in [Runs -> DriveRow]
      /\ \A q \in Runs : q # r => drive'[q] = drive[q]
      /\ drive'[r] = NoDrive
  <2>1. NoDrive \in DriveRow
    BY DEF NoDrive, DriveRow, DriveSteps, NoSessionYet, AllFilled
  <2> QED
    BY <2>1 DEF BrowserTyped, RunEnds
<1>2. drive[r].dco \in Dcos
  BY DEF DriveIsSound
<1>3. /\ told' \in [Dcos -> {"NONE", "FAILED", "UNKNOWN", "CONFIRMED"}]
      /\ \A d \in Dcos : d # drive[r].dco \/ r = DryRun => told'[d] = told[d]
      /\ r # DryRun => told'[drive[r].dco] = said
  BY <1>2 DEF BrowserTyped, RunEnds
<1>4. signIn' \in SignInRow
  BY DEF BrowserTyped, NoSignIn, SignInRow, SignInSteps
<1>5. BrowserTyped'
  BY <1>1, <1>3, <1>4 DEF BrowserTyped, PoolShrinks
<1>6. SignInIsSound' /\ FilesAreTheirOwn'
  BY <1>1, OwnersAreSellers DEF SignInIsSound, FilesAreTheirOwn, NoSignIn
<1>7. ASSUME NEW q \in Runs PROVE PageIsSound(q)' /\ DriveIsSound(q)'
  <2>1. PageIsSound(q)'
    BY DEF PageIsSound, PoolShrinks
  <2>2. CASE q = r
    <3>1. saved'[Owner(q)].version \in Nat
      BY OwnersAreSellers DEF BrowserTyped, SessionRow
    <3> QED
      BY <1>1, <2>1, <2>2, <3>1 DEF DriveIsSound, NoDrive, NoSessionYet, AllFilled
  <2>3. CASE q # r
    BY <1>1, <2>1, <2>3 DEF DriveIsSound, PoolShrinks
  <2> QED
    BY <2>1, <2>2, <2>3
<1>8. ASSUME NEW q \in FiscalIds PROVE SubmitIsSound(q)'
  <2>1. q \in Runs /\ Owner(q) = q
    BY OwnersAreSellers
  <2>2. CASE q = r
    BY <1>1, <2>1, <2>2 DEF SubmitIsSound, NoDrive
  <2>3. CASE q # r
    <3> SUFFICES ASSUME drive[q].step # "IDLE"
                 PROVE  Seller[drive[q].dco] = q /\ told'[drive[q].dco] \in {"NONE", "FAILED"}
      BY <1>1, <2>1, <2>3 DEF SubmitIsSound
    <3>1. Seller[drive[q].dco] = q /\ told[drive[q].dco] \in {"NONE", "FAILED"} /\ drive[q].dco \in Dcos
      BY <2>1 DEF SubmitIsSound, DriveIsSound
    <3>2. r # DryRun => Seller[drive[r].dco] = r
      BY DEF SubmitIsSound, Runs
    <3> QED
      BY <1>3, <2>3, <3>1, <3>2
  <2> QED
    BY <2>2, <2>3
<1>9. IssuedAsAsked' /\ FailedIsNotIssued'
  <2>1. \A d \in Dcos : told'[d] \in {"NONE", "FAILED"} /\ ~Clicking(d)' =>
                          told[d] \in {"NONE", "FAILED"} /\ ~Clicking(d)
    <3> SUFFICES ASSUME NEW d \in Dcos, told'[d] \in {"NONE", "FAILED"}, ~Clicking(d)'
                 PROVE  told[d] \in {"NONE", "FAILED"} /\ ~Clicking(d)
      OBVIOUS
    <3>1. CASE r = DryRun
      BY <1>1, <1>3, <3>1, OwnersAreSellers DEF Clicking
    <3>2. CASE r # DryRun /\ d = drive[r].dco
      <4>1. r \in FiscalIds /\ said = "FAILED" /\ Seller[d] = r
            /\ told[d] \in {"NONE", "FAILED"}
        BY <1>3, <3>2 DEF Runs, SubmitIsSound
      <4>2. \A q \in FiscalIds : drive[q].step = "CLICKED" /\ drive[q].dco = d => q = r
        BY <4>1 DEF SubmitIsSound
      <4> QED
        BY <4>1, <4>2 DEF Clicking
    <3>3. CASE r # DryRun /\ d # drive[r].dco
      BY <1>1, <1>3, <3>3, OwnersAreSellers DEF Clicking
    <3> QED
      BY <3>1, <3>2, <3>3
  <2> QED
    BY <2>1 DEF IssuedAsAsked, FailedIsNotIssued, HasIssued, ClicksFor
<1> QED
  BY <1>5, <1>6, <1>7, <1>8, <1>9

\* An error before Procedi.
LEMMA FailedRun ==
  ASSUME BrowserInv, PoolShrinks, NEW r \in Runs, NEW kind, RunFails(r, kind),
         UNCHANGED <<saved, signIn, clicked>>, drive[r].step \notin {"IDLE", "WAIT", "CLICKED"}
  PROVE  BrowserInv'
<1>1. CASE RunEnds(r, "FAILED")
  BY <1>1, RunIsOver
<1>2. CASE drive' = [drive EXCEPT ![r].step = "REFRESH"] /\ UNCHANGED told
  <2> DEFINE x == [drive[r] EXCEPT !.step = "REFRESH"]
  <2>1. drive[r] \in DriveRow /\ drive' = [drive EXCEPT ![r] = x]
    BY <1>2 DEF BrowserInv, BrowserTyped
  <2>2. /\ x \in DriveRow /\ x.step = "REFRESH" /\ x.dco = drive[r].dco
        /\ x.since = drive[r].since /\ x.right = TRUE
    BY <2>1 DEF DriveRow, DriveSteps, NoSessionYet, BrowserInv, DriveIsSound
  <2>3. x.step \in NoSessionYet /\ x.step \notin AllFilled \cup {"IDLE", "CLICKED"}
    BY <2>2 DEF NoSessionYet, AllFilled
  <2> HIDE DEF x
  <2> QED
    BY <1>2, <2>1, <2>2, <2>3, RunGoesOn
<1> QED
  BY <1>1, <1>2 DEF RunFails

\* Each step of a sign-in but the last.
LEMMA SigningIn ==
  ASSUME BrowserInv, UNCHANGED <<saved, pool, drive, told, clicked>>,
         \/ \E f \in FiscalIds : StartSignIn(f, Nobody)
         \/ GiveFisconlineCredentials \/ SwitchToIncaricante \/ OpenFattureService
         \/ CompleteWorkProfile
  PROVE  BrowserInv'
<1> USE DEF BrowserInv
<1>1. signIn' \in SignInRow /\ SignInIsSound'
  <2> USE OwnersAreSellers DEF BrowserTyped, SignInIsSound, SignInRow, SignInSteps
  <2>1. ASSUME NEW f \in FiscalIds, StartSignIn(f, Nobody) PROVE signIn' \in SignInRow /\ SignInIsSound'
    BY <2>1 DEF StartSignIn
  <2>2. CASE GiveFisconlineCredentials
    BY <2>2 DEF GiveFisconlineCredentials
  <2>3. CASE SwitchToIncaricante
    BY <2>3 DEF SwitchToIncaricante, SelectedOption
  <2>4. CASE OpenFattureService
    BY <2>4 DEF OpenFattureService
  <2>5. CASE CompleteWorkProfile
    BY <2>5 DEF CompleteWorkProfile, SelectedOption
  <2> QED
    BY <2>1, <2>2, <2>3, <2>4, <2>5
<1>2. BrowserTyped' /\ FilesAreTheirOwn'
  BY <1>1 DEF BrowserTyped, FilesAreTheirOwn
<1>3. \A r \in Runs : PageIsSound(r)' /\ DriveIsSound(r)'
  BY DEF PageIsSound, DriveIsSound
<1>4. (\A r \in FiscalIds : SubmitIsSound(r)') /\ IssuedAsAsked' /\ FailedIsNotIssued'
  BY DEF SubmitIsSound, IssuedAsAsked, FailedIsNotIssued, HasIssued, ClicksFor, Clicking
<1> QED
  BY <1>1, <1>2, <1>3, <1>4

\* A saved session is its fiscal id's, and newer than every stamp.
LEMMA SavedSession ==
  ASSUME BrowserInv, SaveSession PROVE BrowserInv'
<1> USE OwnersAreSellers DEF BrowserInv
<1> DEFINE b == signIn.by
           f == signIn.target
<1>1. /\ f \in FiscalIds /\ signIn.as = f /\ signIn.by \in Runs \cup {Nobody}
      /\ b \in Runs => drive[b].step = "WAIT"
  BY DEF SaveSession, SignInIsSound, BrowserTyped, SignInRow
<1>2. /\ saved' \in [FiscalIds -> SessionRow]
      /\ saved'[f] = [version |-> saved[f].version + 1, as |-> f]
      /\ \A g \in FiscalIds : g # f => saved'[g] = saved[g]
  BY <1>1 DEF SaveSession, BrowserTyped, SessionRow
<1>3. FilesAreTheirOwn' /\ \A g \in FiscalIds : saved'[g].version >= saved[g].version
  BY <1>1, <1>2 DEF FilesAreTheirOwn, BrowserTyped, SessionRow
<1>4. UNCHANGED <<pool, told, clicked>> /\ signIn' = NoSignIn
  BY DEF SaveSession, SignInEnds
<1>5. /\ drive' \in [Runs -> DriveRow]
      /\ \A q \in Runs : q # b => drive'[q] = drive[q]
      /\ b \in Runs => /\ drive'[b].step = "SESSION" /\ drive'[b].dco = drive[b].dco
                        /\ drive'[b].right = drive[b].right
                        /\ drive'[b].since = saved'[Owner(b)].version
  <2>1. CASE b \notin Runs
    BY <2>1 DEF SaveSession, SignInEnds, BrowserTyped
  <2>2. CASE b \in Runs
    <3> DEFINE x == [drive[b] EXCEPT !.step = "SESSION", !.try = "SECOND",
                                     !.since = saved'[Owner(b)].version]
    <3>1. drive[b] \in DriveRow /\ saved'[Owner(b)].version \in Nat
      BY <1>2, <2>2 DEF BrowserTyped, SessionRow
    <3>2. /\ x \in DriveRow /\ x.step = "SESSION" /\ x.dco = drive[b].dco /\ x.right = drive[b].right
          /\ x.since = saved'[Owner(b)].version
      BY <3>1 DEF DriveRow, DriveSteps, NoSessionYet
    <3>3. drive' = [drive EXCEPT ![b] = x]
      BY <2>2 DEF SaveSession, SignInEnds
    <3> HIDE DEF x
    <3> QED
      BY <2>2, <3>2, <3>3 DEF BrowserTyped
  <2> QED
    BY <2>1, <2>2
<1>6. BrowserTyped'
  BY <1>2, <1>4, <1>5 DEF BrowserTyped, NoSignIn, SignInRow, SignInSteps
<1>7. SignInIsSound'
  BY <1>4 DEF SignInIsSound, NoSignIn
<1>8. ASSUME NEW q \in Runs PROVE PageIsSound(q)' /\ DriveIsSound(q)'
  <2>1. PageIsSound(q)'
    BY <1>4 DEF PageIsSound
  <2>2. CASE q = b
    <3>1. saved'[Owner(q)].version \in Nat
      BY <1>2 DEF SessionRow
    <3> QED
      BY <1>1, <1>5, <2>1, <2>2, <3>1 DEF DriveIsSound, NoSessionYet, AllFilled
  <2>3. CASE q # b
    <3>1. Owner(q) \in FiscalIds /\ saved'[Owner(q)].version \in Nat /\ saved[Owner(q)].version \in Nat
      BY <1>2 DEF BrowserTyped, SessionRow
    <3>2. drive[q] \in DriveRow
      BY DEF BrowserTyped
    <3> QED
      BY <1>3, <1>4, <1>5, <2>1, <2>3, <3>1, <3>2 DEF DriveIsSound, DriveRow
  <2> QED
    BY <2>1, <2>2, <2>3
<1>9. \A q \in FiscalIds : SubmitIsSound(q)'
  BY <1>1, <1>4, <1>5 DEF SubmitIsSound
<1>10. IssuedAsAsked' /\ FailedIsNotIssued'
  <2>1. \A d \in Dcos : Clicking(d)' <=> Clicking(d)
    BY <1>1, <1>5 DEF Clicking
  <2> QED
    BY <1>4, <2>1 DEF IssuedAsAsked, FailedIsNotIssued, HasIssued, ClicksFor
<1> QED
  BY <1>3, <1>6, <1>7, <1>8, <1>9, <1>10

\* A sign-in that fails ends the run that waits for it.
LEMMA LostSignIn ==
  ASSUME BrowserInv, SignInFails PROVE BrowserInv'
<1> USE OwnersAreSellers DEF BrowserInv
<1>1. signIn.by \in Runs => drive[signIn.by].step = "WAIT"
  BY DEF SignInIsSound
<1>2. PoolShrinks /\ UNCHANGED <<saved, clicked, pool>> /\ signIn' = NoSignIn
  BY DEF SignInFails, SignInEnds, PoolShrinks, BrowserTyped
<1>3. CASE signIn.by \in Runs
  <2>1. RunEnds(signIn.by, "FAILED")
    BY <1>3 DEF SignInFails, SignInEnds, RunEnds
  <2> QED
    BY <1>1, <1>2, <1>3, <2>1, RunIsOver
<1>4. CASE signIn.by \notin Runs
  <2>1. UNCHANGED <<drive, told>>
    BY <1>4 DEF SignInFails, SignInEnds
  <2>2. BrowserTyped' /\ SignInIsSound' /\ FilesAreTheirOwn'
    BY <1>2, <2>1 DEF BrowserTyped, SignInIsSound, FilesAreTheirOwn, NoSignIn, SignInRow, SignInSteps
  <2> QED
    BY <1>2, <2>1, <2>2 DEF PageIsSound, DriveIsSound, SubmitIsSound, IssuedAsAsked,
       FailedIsNotIssued, HasIssued, ClicksFor, Clicking
<1> QED
  BY <1>3, <1>4

\* A run goes on to the step s with its document, its try and its stamp.
LEMMA Advanced ==
  ASSUME BrowserInv, NEW r \in Runs, NEW s \in DriveSteps, Advances(r, s),
         UNCHANGED <<saved, signIn, pool, clicked>>,
         drive[r].step \notin NoSessionYet \cup {"CLICKED"}, s \notin {"IDLE", "CLICKED"},
         s \notin NoSessionYet \cup {"PAGE"} => drive[r].step \notin NoSessionYet \cup {"PAGE"},
         s \in AllFilled => drive[r].step \in AllFilled
  PROVE  BrowserInv'
<1> DEFINE x == [drive[r] EXCEPT !.step = s]
<1>1. drive[r] \in DriveRow /\ drive' = [drive EXCEPT ![r] = x]
  BY DEF BrowserInv, BrowserTyped, Advances
<1>2. /\ x \in DriveRow /\ x.step = s /\ x.dco = drive[r].dco /\ x.rows = drive[r].rows
      /\ x.since = drive[r].since /\ x.stamp = drive[r].stamp /\ x.right = drive[r].right
  BY <1>1 DEF DriveRow
<1> HIDE DEF x
<1>3. PoolShrinks
  BY DEF PoolShrinks, BrowserInv, BrowserTyped
<1>4. /\ x.right = TRUE /\ x.stamp > 0 /\ x.stamp >= x.since
      /\ x.stamp <= saved[Owner(r)].version
      /\ x.step \in AllFilled => x.rows = Rows[x.dco]
  BY <1>2 DEF BrowserInv, DriveIsSound
<1>5. drive[r].step \notin {"IDLE", "WAIT", "CLICKED"}
  BY DEF NoSessionYet
<1> QED
  BY <1>1, <1>2, <1>3, <1>4, <1>5, RunGoesOn DEF Advances

\* The steps of a page that go on or fail.
LEMMA PageSteps ==
  ASSUME BrowserInv, NEW r \in Runs, NEW at, NEW next \in DriveSteps, NEW kinds,
         PageStep(r, at, next, kinds),
         at \in (AllFilled \ {"CLICKED"}) \cup {"OPEN", "ITEMS"},
         next \notin NoSessionYet \cup {"CLICKED", "PAGE"},
         next \in AllFilled => at \in AllFilled
  PROVE  BrowserInv'
<1>1. /\ drive[r].step \notin NoSessionYet \cup {"CLICKED", "PAGE"}
      /\ drive[r].step \notin {"IDLE", "WAIT", "CLICKED"} /\ next \notin {"IDLE", "CLICKED"}
      /\ UNCHANGED <<saved, signIn, pool, clicked>>
  BY DEF PageStep, SessionUnchanged, PoolUnchanged, NoSessionYet, AllFilled
<1>2. PoolShrinks
  BY <1>1 DEF PoolShrinks, BrowserInv, BrowserTyped
<1>3. CASE Advances(r, next)
  <2>1. next \in AllFilled => drive[r].step \in AllFilled
    BY DEF PageStep
  <2> QED
    BY <1>1, <1>3, <2>1, Advanced
<1>4. ASSUME NEW kind, RunFails(r, kind) PROVE BrowserInv'
  BY <1>1, <1>2, <1>4, FailedRun
<1> QED
  BY <1>3, <1>4 DEF PageStep

\* A run begins with the session that is saved.
LEMMA NewRun ==
  ASSUME BrowserInv, NEW r \in Runs, NEW d \in Dcos, StartDrive(r, d)
  PROVE  BrowserInv'
<1> USE OwnersAreSellers DEF BrowserInv
<1> DEFINE x == [NoDrive EXCEPT !.step = "SESSION", !.dco = d, !.since = saved[Owner(r)].version]
<1>1. saved[Owner(r)].version \in Nat
  BY DEF BrowserTyped, SessionRow
<1>2. /\ x \in DriveRow /\ x.step = "SESSION" /\ x.dco = d /\ x.right = TRUE
      /\ x.since = saved[Owner(r)].version
      /\ drive' = [drive EXCEPT ![r] = x]
  BY <1>1 DEF StartDrive, NoDrive, DriveRow, DriveSteps, NoSessionYet
<1> HIDE DEF x
<1>3. /\ drive' \in [Runs -> DriveRow] /\ drive'[r] = x
      /\ \A q \in Runs : q # r => drive'[q] = drive[q]
  BY <1>2 DEF BrowserTyped
<1>4. UNCHANGED <<saved, signIn, pool, told, clicked>> /\ drive[r].step = "IDLE"
  BY DEF StartDrive, SessionUnchanged, PoolUnchanged, NoDrive
<1>5. BrowserTyped' /\ SignInIsSound' /\ FilesAreTheirOwn'
  BY <1>3, <1>4 DEF BrowserTyped, SignInIsSound, FilesAreTheirOwn
<1>6. ASSUME NEW q \in Runs PROVE PageIsSound(q)' /\ DriveIsSound(q)'
  <2>1. PageIsSound(q)'
    BY <1>4 DEF PageIsSound
  <2>2. CASE q = r
    BY <1>1, <1>2, <1>3, <1>4, <2>1, <2>2 DEF DriveIsSound, NoSessionYet, AllFilled
  <2>3. CASE q # r
    BY <1>3, <1>4, <2>1, <2>3 DEF DriveIsSound
  <2> QED
    BY <2>2, <2>3
<1>7. \A q \in FiscalIds : SubmitIsSound(q)'
  BY <1>2, <1>3, <1>4 DEF SubmitIsSound, StartDrive
<1>8. IssuedAsAsked' /\ FailedIsNotIssued'
  <2>1. \A e \in Dcos : Clicking(e)' <=> Clicking(e)
    BY <1>2, <1>3, <1>4 DEF Clicking
  <2> QED
    BY <1>4, <2>1 DEF IssuedAsAsked, FailedIsNotIssued, HasIssued, ClicksFor
<1> QED
  BY <1>5, <1>6, <1>7, <1>8

\* The fingerprint of a run is that of the session as it is then.
LEMMA Fingerprint ==
  ASSUME BrowserInv, NEW r \in Runs, ReadFingerprint(r)
  PROVE  BrowserInv'
<1> DEFINE x == [drive[r] EXCEPT !.step = "PAGE", !.stamp = saved[Owner(r)].version]
<1>1. PoolShrinks /\ UNCHANGED <<saved, signIn, clicked>> /\ drive[r].step = "SESSION"
  BY DEF PoolShrinks, BrowserInv, BrowserTyped, ReadFingerprint, SessionUnchanged, PoolUnchanged
<1>2. ASSUME NEW kind, RunFails(r, kind) PROVE BrowserInv'
  BY <1>1, <1>2, FailedRun
<1>3. CASE saved[Owner(r)].version > 0 /\ drive' = [drive EXCEPT ![r] = x] /\ UNCHANGED told
  <2>1. drive[r] \in DriveRow /\ saved[Owner(r)].version \in Nat
    BY OwnersAreSellers DEF BrowserInv, BrowserTyped, SessionRow
  <2>2. /\ x \in DriveRow /\ x.step = "PAGE" /\ x.dco = drive[r].dco /\ x.since = drive[r].since
        /\ x.stamp = saved[Owner(r)].version /\ x.right = TRUE
    BY <2>1 DEF DriveRow, DriveSteps, BrowserInv, DriveIsSound
  <2>3. /\ "PAGE" \notin AllFilled /\ "PAGE" \in NoSessionYet \cup {"PAGE"}
        /\ drive[r].since <= saved[Owner(r)].version /\ drive[r].since \in Nat
    BY <2>1 DEF AllFilled, BrowserInv, DriveIsSound, DriveRow
  <2>4. x.stamp > 0 /\ x.stamp >= x.since /\ x.stamp <= saved[Owner(r)].version
    BY <1>3, <2>1, <2>2, <2>3
  <2> HIDE DEF x
  <2> QED
    BY <1>1, <1>3, <2>1, <2>2, <2>3, <2>4, RunGoesOn
<1> QED
  BY <1>2, <1>3 DEF ReadFingerprint

\* A page that cannot be had closes the run's own page at most.
LEMMA NoPageToDrive ==
  ASSUME BrowserInv, NEW r \in Runs, NoPageTaken(r) \/ NavigationFails(r)
  PROVE  BrowserInv'
<1>1. PoolShrinks
  <2>1. NoPage \in PageRow
    BY DEF NoPage, PageRow
  <2> QED
    BY <2>1 DEF PoolShrinks, BrowserInv, BrowserTyped, NoPageTaken, NavigationFails, PoolUnchanged,
       PageResets
<1>2. /\ UNCHANGED <<saved, signIn, clicked>> /\ drive[r].step \notin {"IDLE", "WAIT", "CLICKED"}
      /\ \E kind : RunFails(r, kind)
  BY DEF NoPageTaken, NavigationFails, SessionUnchanged
<1> QED
  BY <1>1, <1>2, FailedRun

\* What is filled in is what was asked for.
LEMMA Filled ==
  ASSUME BrowserInv, NEW r \in Runs, NEW filled \in DriveRow, PageFills(r, filled),
         drive[r].step = "ITEMS", filled.step \in {"ITEMS", "VERIFY"}, filled.dco = drive[r].dco,
         filled.since = drive[r].since, filled.stamp = drive[r].stamp,
         filled.right = drive[r].right, filled.step = "VERIFY" => filled.rows = Rows[drive[r].dco]
  PROVE  BrowserInv'
<1>1. PoolShrinks /\ UNCHANGED <<saved, signIn, clicked>>
  BY DEF PoolShrinks, BrowserInv, BrowserTyped, PageFills, SessionUnchanged, PoolUnchanged
<1>2. CASE RunFails(r, "FLOW_MISMATCH")
  BY <1>1, <1>2, FailedRun
<1>3. ASSUME NEW shown \in BOOLEAN, ReadBack(shown), UNCHANGED told,
             drive' = [drive EXCEPT ![r] = [filled EXCEPT !.right = @ /\ shown]]
      PROVE  BrowserInv'
  <2>1. filled.right = TRUE /\ drive[r] \in DriveRow
    BY DEF BrowserInv, BrowserTyped, DriveIsSound
  <2>2. shown = TRUE
    BY <1>3 DEF ReadBack
  <2>3. [filled EXCEPT !.right = @ /\ shown] = filled
    <3>1. (filled.right /\ shown) = filled.right
      BY <2>1, <2>2
    <3> QED
      BY <3>1 DEF DriveRow
  <2>4. drive' = [drive EXCEPT ![r] = filled]
    BY <1>3, <2>3
  <2>5. /\ "ITEMS" \notin NoSessionYet \cup {"PAGE"} /\ "ITEMS" \notin AllFilled
    BY DEF NoSessionYet, AllFilled
  <2>6. filled.stamp > 0 /\ filled.stamp >= filled.since /\ filled.stamp <= saved[Owner(r)].version
    BY <2>5 DEF BrowserInv, DriveIsSound
  <2>7. filled.step \in AllFilled => filled.rows = Rows[filled.dco]
    BY <2>5
  <2> QED
    BY <1>1, <1>3, <2>1, <2>4, <2>5, <2>6, <2>7, RunGoesOn
<1> QED
  BY <1>2, <1>3 DEF PageFills

\* FillItem and FillPayment.
LEMMA FilledIn ==
  ASSUME BrowserInv, NEW r \in Runs, FillItem(r) \/ FillPayment(r)
  PROVE  BrowserInv'
<1>1. drive[r] \in DriveRow /\ drive[r].step = "ITEMS"
  BY DEF BrowserInv, BrowserTyped, FillItem, FillPayment
<1>2. CASE FillItem(r)
  <2> DEFINE x == [drive[r] EXCEPT !.rows = @ + 1]
  <2>1. /\ x \in DriveRow /\ x.step = "ITEMS" /\ x.dco = drive[r].dco /\ x.since = drive[r].since
        /\ x.stamp = drive[r].stamp /\ x.right = drive[r].right
    BY <1>1 DEF DriveRow
  <2>2. PageFills(r, x)
    BY <1>2 DEF FillItem
  <2> HIDE DEF x
  <2> QED
    BY <1>1, <2>1, <2>2, Filled
<1>3. CASE FillPayment(r)
  <2> DEFINE x == [drive[r] EXCEPT !.step = "VERIFY"]
  <2>1. /\ x \in DriveRow /\ x.step = "VERIFY" /\ x.dco = drive[r].dco /\ x.since = drive[r].since
        /\ x.stamp = drive[r].stamp /\ x.right = drive[r].right /\ x.rows = drive[r].rows
    BY <1>1 DEF DriveRow, DriveSteps, AllFilled
  <2>2. PageFills(r, x) /\ x.rows = Rows[drive[r].dco]
    BY <1>3, <2>1 DEF FillPayment
  <2> HIDE DEF x
  <2> QED
    BY <1>1, <2>1, <2>2, Filled
<1> QED
  BY <1>2, <1>3

\* The steps that change the pool only, and no page for another.
LEMMA PoolOnly ==
  ASSUME BrowserInv, PoolShrinks \/ \A q \in Runs : pool'[q] = [pool[q] EXCEPT !.open = FALSE] \/ pool'[q] = pool[q],
         pool' \in [Runs -> PageRow], UNCHANGED <<saved, signIn, drive, told, clicked>>
  PROVE  BrowserInv'
<1> USE DEF BrowserInv
<1>1. ASSUME NEW q \in Runs
      PROVE  pool'[q] # NoPage =>
               pool[q] # NoPage /\ pool'[q].as = pool[q].as /\ pool'[q].stamp = pool[q].stamp
                 /\ pool'[q].version = pool[q].version
  <2>1. pool[q] \in PageRow
    BY DEF BrowserTyped
  <2>2. CASE pool'[q] = [pool[q] EXCEPT !.open = FALSE]
    <3>1. [NoPage EXCEPT !.open = FALSE] = NoPage
      <4>1. \A x \in PageRow : x.open = FALSE => [x EXCEPT !.open = FALSE] = x
        BY DEF PageRow
      <4>2. NoPage \in PageRow /\ NoPage.open = FALSE
        BY DEF NoPage, PageRow
      <4> QED
        BY <4>1, <4>2
    <3>2. pool'[q] # NoPage => pool[q] # NoPage
      BY <2>2, <3>1
    <3> QED
      BY <2>1, <2>2, <3>2 DEF PageRow
  <2> QED
    BY <2>2 DEF PoolShrinks
<1>2. BrowserTyped' /\ SignInIsSound' /\ FilesAreTheirOwn'
  BY DEF BrowserTyped, SignInIsSound, FilesAreTheirOwn
<1>3. ASSUME NEW q \in Runs PROVE PageIsSound(q)' /\ DriveIsSound(q)'
  BY <1>1 DEF PageIsSound, DriveIsSound
<1> QED
  BY <1>2, <1>3 DEF SubmitIsSound, IssuedAsAsked, FailedIsNotIssued, HasIssued, ClicksFor, Clicking

\* A page is closed, or Chromium ends and all of a service's with it.
LEMMA PagesClose ==
  ASSUME BrowserInv, (\E r \in Runs : PageCloses(r)) \/ (\E s \in {"submits", "dryRuns"} : ChromiumCrashes(s))
  PROVE  BrowserInv'
<1> DEFINE Closed(q) == [pool[q] EXCEPT !.open = FALSE]
<1>1. \A q \in Runs : pool[q] \in PageRow /\ Closed(q) \in PageRow
  BY DEF BrowserInv, BrowserTyped, PageRow
<1> HIDE DEF Closed
<1>2. ASSUME NEW r \in Runs, PageCloses(r) PROVE BrowserInv'
  <2>1. pool' = [pool EXCEPT ![r] = Closed(r)]
    BY <1>2 DEF PageCloses, Closed, BrowserInv, BrowserTyped
  <2>2. pool' \in [Runs -> PageRow] /\ \A q \in Runs : pool'[q] = Closed(q) \/ pool'[q] = pool[q]
    BY <1>1, <2>1 DEF BrowserInv, BrowserTyped
  <2>3. UNCHANGED <<saved, signIn, drive, told, clicked>>
    BY <1>2 DEF PageCloses
  <2> QED
    BY <2>2, <2>3, PoolOnly DEF Closed
<1>3. ASSUME NEW s, ChromiumCrashes(s) PROVE BrowserInv'
  <2>1. pool' = [r \in Runs |-> IF Service(r) = s THEN Closed(r) ELSE pool[r]]
    BY <1>3 DEF ChromiumCrashes, Closed
  <2>2. pool' \in [Runs -> PageRow] /\ \A q \in Runs : pool'[q] = Closed(q) \/ pool'[q] = pool[q]
    BY <1>1, <2>1
  <2>3. UNCHANGED <<saved, signIn, drive, told, clicked>>
    BY <1>3 DEF ChromiumCrashes
  <2> QED
    BY <2>2, <2>3, PoolOnly DEF Closed
<1> QED
  BY <1>2, <1>3

\* A page is taken with the session of its stamp, or a later one.
LEMMA PageIsTaken ==
  ASSUME BrowserInv, NEW r \in Runs, TakePage(r) PROVE BrowserInv'
<1> USE OwnersAreSellers DEF BrowserInv
<1>1. /\ drive[r].step = "PAGE" /\ UNCHANGED <<saved, signIn, told, clicked>>
      /\ drive[r] \in DriveRow /\ drive' = [drive EXCEPT ![r].step = "OPEN"]
  BY DEF TakePage, BrowserTyped
<1>2. PICK page \in TakenPage(r) :
        \A q \in Runs : pool'[q] = NoPage \/ (q = r /\ pool'[q] = page) \/ (q # r /\ pool'[q] = pool[q])
  <2> DEFINE kept == IF chromium[Service(r)] \/ r = DryRun THEN recent ELSE <<>>
             used == IF r = DryRun THEN kept ELSE Append(Remove(kept, r), r)
             Pages(page) == [Connected(r) EXCEPT ![r] = page]
  <2>1. PICK page \in TakenPage(r) :
          pool' = [q \in Runs |-> IF q \in Evicted(Pages(page), used) THEN NoPage ELSE Pages(page)[q]]
    BY DEF TakePage
  <2>2. \A q \in Runs : Connected(r)[q] = NoPage \/ Connected(r)[q] = pool[q]
    BY DEF Connected
  <2>3. \A q \in Runs : [Connected(r) EXCEPT ![r] = page][q] =
                          IF q = r THEN page ELSE Connected(r)[q]
    BY DEF Connected
  <2> QED
    BY <2>1, <2>2, <2>3
<1>3. /\ drive[r].stamp \in Nat /\ drive[r].since \in Nat /\ saved[Owner(r)].version \in Nat
      /\ drive[r].stamp > 0 /\ drive[r].stamp >= drive[r].since
      /\ drive[r].stamp <= saved[Owner(r)].version /\ saved[Owner(r)].as = Owner(r)
  BY <1>1 DEF DriveRow, BrowserTyped, SessionRow, DriveIsSound, NoSessionYet, FilesAreTheirOwn
<1>4. /\ page \in PageRow
      /\ page.as = Owner(r) /\ page.version >= page.stamp /\ page.version >= drive[r].since
  <2> DEFINE new == [stamp |-> drive[r].stamp, version |-> saved[Owner(r)].version,
                     as |-> saved[Owner(r)].as, open |-> TRUE]
  <2>1. CASE page = new
    BY <1>3, <2>1 DEF PageRow
  <2>2. CASE /\ page = pool[r] \/ page = [pool[r] EXCEPT !.open = TRUE]
             /\ pool[r] # NoPage /\ SameSession(r)
    <3>1. pool[r] \in PageRow /\ pool[r].as = Owner(r) /\ pool[r].version >= pool[r].stamp
      BY <2>2 DEF BrowserTyped, PageIsSound
    <3>2. pool[r].stamp = drive[r].stamp
      BY <2>2 DEF SameSession
    <3>3. /\ page \in PageRow /\ page.as = pool[r].as /\ page.version = pool[r].version
          /\ page.stamp = pool[r].stamp
      BY <2>2, <3>1 DEF PageRow
    <3> QED
      BY <1>3, <3>1, <3>2, <3>3 DEF PageRow
  <2>3. Connected(r)[r] = NoPage \/ Connected(r)[r] = pool[r]
    BY DEF Connected
  <2> QED
    BY <2>1, <2>2, <2>3 DEF TakenPage
<1>5. NoPage \in PageRow /\ pool' \in [Runs -> PageRow]
  <2>1. NoPage \in PageRow
    BY DEF NoPage, PageRow
  <2>2. DOMAIN pool' = Runs /\ pool' = [q \in Runs |-> pool'[q]]
    BY DEF TakePage
  <2> QED
    BY <1>2, <1>4, <2>1, <2>2 DEF BrowserTyped
<1>6. /\ drive' \in [Runs -> DriveRow]
      /\ \A q \in Runs : q # r => drive'[q] = drive[q]
      /\ drive'[r].step = "OPEN" /\ drive'[r].dco = drive[r].dco /\ drive'[r].right = drive[r].right
      /\ drive'[r].since = drive[r].since /\ drive'[r].stamp = drive[r].stamp
  <2> DEFINE x == [drive[r] EXCEPT !.step = "OPEN"]
  <2>1. /\ x \in DriveRow /\ x.step = "OPEN" /\ x.dco = drive[r].dco /\ x.right = drive[r].right
        /\ x.since = drive[r].since /\ x.stamp = drive[r].stamp
    BY <1>1 DEF DriveRow, DriveSteps
  <2>2. drive' = [drive EXCEPT ![r] = x]
    BY <1>1
  <2> HIDE DEF x
  <2> QED
    BY <2>1, <2>2 DEF BrowserTyped
<1>7. BrowserTyped' /\ SignInIsSound' /\ FilesAreTheirOwn'
  BY <1>1, <1>5, <1>6 DEF BrowserTyped, SignInIsSound, FilesAreTheirOwn
<1>8. ASSUME NEW q \in Runs PROVE PageIsSound(q)' /\ DriveIsSound(q)'
  <2>1. PageIsSound(q)'
    BY <1>2, <1>4 DEF PageIsSound
  <2>2. CASE q = r
    <3>1. DriveIsSound(r)'
      BY <1>1, <1>2, <1>3, <1>4, <1>6 DEF DriveIsSound, NoSessionYet, AllFilled
    <3> QED
      BY <2>1, <2>2, <3>1
  <2>3. CASE q # r
    <3>1. DriveIsSound(q)'
      BY <1>1, <1>2, <1>6, <2>3 DEF DriveIsSound
    <3> QED
      BY <2>1, <3>1
  <2> QED
    BY <2>2, <2>3
<1>9. \A q \in FiscalIds : SubmitIsSound(q)'
  BY <1>1, <1>6 DEF SubmitIsSound
<1>10. IssuedAsAsked' /\ FailedIsNotIssued'
  <2>1. \A d \in Dcos : Clicking(d)' <=> Clicking(d)
    BY <1>1, <1>6 DEF Clicking
  <2> QED
    BY <1>1, <2>1 DEF IssuedAsAsked, FailedIsNotIssued, HasIssued, ClicksFor
<1> QED
  BY <1>7, <1>8, <1>9, <1>10

\* Procedi is clicked on a whole document of its seller that was never issued.
LEMMA Proceeds ==
  ASSUME BrowserInv, NEW r \in Runs, ClickProceed(r) PROVE BrowserInv'
<1> USE OwnersAreSellers DEF BrowserInv
<1>0. PICK d \in Dcos : d = drive[r].dco
  BY DEF ClickProceed, DriveIsSound
<1> DEFINE c == [dco |-> d, as |-> pool[r].as, right |-> drive[r].right, rows |-> drive[r].rows,
                  nth |-> Cardinality(ClicksFor(d)) + 1]
<1>1. /\ r \in FiscalIds /\ drive[r].step = "BOUNDARY" /\ drive[r] \in DriveRow
      /\ Seller[d] = r /\ told[d] \in {"NONE", "FAILED"}
      /\ drive[r].right = TRUE /\ drive[r].rows = Rows[d]
  BY <1>0 DEF ClickProceed, Runs, BrowserTyped, DriveIsSound, SubmitIsSound, AllFilled
<1>2. UNCHANGED <<saved, signIn, pool, told>>
  BY DEF ClickProceed, Advances, SessionUnchanged, PoolUnchanged
<1>3. /\ drive' \in [Runs -> DriveRow]
      /\ \A q \in Runs : q # r => drive'[q] = drive[q]
      /\ drive'[r].step = "CLICKED" /\ drive'[r].dco = d /\ drive'[r].right = drive[r].right
      /\ drive'[r].since = drive[r].since /\ drive'[r].stamp = drive[r].stamp
      /\ drive'[r].rows = drive[r].rows
  <2> DEFINE x == [drive[r] EXCEPT !.step = "CLICKED"]
  <2>1. /\ x \in DriveRow /\ x.step = "CLICKED" /\ x.dco = drive[r].dco /\ x.right = drive[r].right
        /\ x.since = drive[r].since /\ x.stamp = drive[r].stamp /\ x.rows = drive[r].rows
    BY <1>1 DEF DriveRow, DriveSteps, AllFilled
  <2>2. drive' = [drive EXCEPT ![r] = x]
    BY DEF ClickProceed, Advances, BrowserTyped
  <2> HIDE DEF x
  <2> QED
    BY <1>0, <2>1, <2>2 DEF BrowserTyped
<1>4. ClicksFor(d) = {}
  <2>1. ~Clicking(d)
    BY <1>1 DEF Clicking, SubmitIsSound
  <2> QED
    BY <1>1, <2>1 DEF FailedIsNotIssued, HasIssued
<1>5. /\ clicked' = clicked \/ (clicked' = clicked \cup {c} /\ pool[r].open)
      /\ c.nth = 1
  BY <1>0, <1>4, FS_EmptySet DEF ClickProceed
<1>6. clicked' = clicked \/ (clicked' = clicked \cup {c} /\ c \in ClickRow /\ c.as = r)
  <2>1. pool[r].open => pool[r] # NoPage
    BY DEF NoPage
  <2>2. pool[r].open => pool[r].as = r
    BY <1>1, <2>1 DEF PageIsSound
  <2> QED
    BY <1>1, <1>5, <2>2 DEF ClickRow, DriveRow
<1>7. c.dco = d /\ c.right = TRUE /\ c.rows = Rows[d]
  BY <1>1
<1> HIDE DEF c
<1>8. BrowserTyped' /\ SignInIsSound' /\ FilesAreTheirOwn'
  BY <1>1, <1>2, <1>3, <1>6 DEF BrowserTyped, SignInIsSound, FilesAreTheirOwn
<1>9. ASSUME NEW q \in Runs PROVE PageIsSound(q)' /\ DriveIsSound(q)'
  <2>1. PageIsSound(q)'
    BY <1>2 DEF PageIsSound
  <2>2. CASE q = r
    BY <1>1, <1>2, <1>3, <2>1, <2>2 DEF DriveIsSound, NoSessionYet, AllFilled
  <2>3. CASE q # r
    BY <1>2, <1>3, <2>1, <2>3 DEF DriveIsSound
  <2> QED
    BY <2>2, <2>3
<1>10. \A q \in FiscalIds : SubmitIsSound(q)'
  BY <1>1, <1>2, <1>3 DEF SubmitIsSound
<1>11. IssuedAsAsked'
  BY <1>1, <1>6, <1>7 DEF IssuedAsAsked
<1>12. FailedIsNotIssued'
  <2>1. /\ \A e \in Dcos : e # d => ClicksFor(e)' = ClicksFor(e)
        /\ \A b \in ClicksFor(d)' : b = c
    BY <1>4, <1>6, <1>7 DEF ClicksFor
  <2>2. Clicking(d)' /\ \A e \in Dcos : e # d => (Clicking(e)' <=> Clicking(e))
    BY <1>1, <1>3 DEF Clicking
  <2> QED
    BY <1>1, <1>2, <1>5, <2>1, <2>2 DEF FailedIsNotIssued, HasIssued
<1> QED
  BY <1>8, <1>9, <1>10, <1>11, <1>12

\* The last steps of a run.
LEMMA LastSteps ==
  ASSUME BrowserInv, ClickCancel \/ \E r \in Runs : WaitForEvidence(r) PROVE BrowserInv'
<1>1. NoPage \in PageRow
  BY DEF NoPage, PageRow
<1>2. PoolShrinks
  BY <1>1 DEF PoolShrinks, BrowserInv, BrowserTyped, ClickCancel, WaitForEvidence, PoolUnchanged,
     PageResets
<1>3. CASE ClickCancel
  BY <1>2, <1>3, RunIsOver, OwnersAreSellers DEF ClickCancel, SessionUnchanged
<1>4. ASSUME NEW r \in Runs, WaitForEvidence(r) PROVE BrowserInv'
  BY <1>2, <1>4, RunIsOver DEF WaitForEvidence, SessionUnchanged
<1> QED
  BY <1>3, <1>4

\* A run asks for a sign-in, or ends because another one is under way.
LEMMA RefreshedRun ==
  ASSUME BrowserInv, NEW r \in Runs, RefreshForRun(r) PROVE BrowserInv'
<1> USE OwnersAreSellers
<1>1. PoolShrinks /\ UNCHANGED <<saved, clicked>> /\ drive[r].step = "REFRESH"
  BY DEF PoolShrinks, BrowserInv, BrowserTyped, RefreshForRun, PoolUnchanged
<1>2. CASE RunEnds(r, "FAILED") /\ UNCHANGED signIn
  BY <1>1, <1>2, RunIsOver
<1>3. CASE StartSignIn(Owner(r), r) /\ Advances(r, "WAIT")
  <2> DEFINE x == [drive[r] EXCEPT !.step = "WAIT"]
  <2>1. drive[r] \in DriveRow /\ drive' = [drive EXCEPT ![r] = x] /\ UNCHANGED told
    BY <1>3 DEF BrowserInv, BrowserTyped, Advances
  <2>2. /\ x \in DriveRow /\ x.step = "WAIT" /\ x.dco = drive[r].dco
        /\ x.since = drive[r].since /\ x.right = TRUE
    BY <2>1 DEF DriveRow, DriveSteps, NoSessionYet, BrowserInv, DriveIsSound
  <2>3. "WAIT" \in NoSessionYet /\ "WAIT" \notin AllFilled
    BY DEF NoSessionYet, AllFilled
  <2>4. /\ signIn' \in SignInRow /\ signIn'.step = "LOGIN" /\ signIn'.target \in FiscalIds
        /\ signIn'.by = r
    BY <1>3 DEF StartSignIn, SignInRow, SignInSteps
  <2> HIDE DEF x
  <2> QED
    BY <1>1, <2>1, <2>2, <2>3, <2>4, RunGoesOn
<1> QED
  BY <1>2, <1>3 DEF RefreshForRun

\* A submit that was under way is in doubt after a restart.
LEMMA AfterShutdown ==
  ASSUME BrowserInv, Shutdown PROVE BrowserInv'
<1> USE OwnersAreSellers DEF BrowserInv
<1>1. NoPage \in PageRow /\ NoDrive \in DriveRow /\ NoSignIn \in SignInRow
  BY DEF NoPage, PageRow, NoDrive, DriveRow, DriveSteps, NoSessionYet, AllFilled, NoSignIn,
         SignInRow, SignInSteps
<1>2. /\ UNCHANGED <<saved, clicked>> /\ signIn' = NoSignIn
      /\ \A r \in Runs : pool'[r] = NoPage /\ drive'[r] = NoDrive
      /\ told' \in [Dcos -> {"NONE", "FAILED", "UNKNOWN", "CONFIRMED"}]
  BY DEF Shutdown, BrowserTyped
<1>3. BrowserTyped'
  BY <1>1, <1>2 DEF Shutdown, BrowserTyped
<1>4. SignInIsSound' /\ FilesAreTheirOwn'
  BY <1>2 DEF SignInIsSound, NoSignIn, FilesAreTheirOwn
<1>5. ASSUME NEW r \in Runs PROVE PageIsSound(r)' /\ DriveIsSound(r)' /\ drive'[r].step = "IDLE"
  <2>1. saved'[Owner(r)].version \in Nat
    BY <1>2 DEF BrowserTyped, SessionRow
  <2> QED
    BY <1>2, <2>1 DEF PageIsSound, DriveIsSound, NoDrive, NoSessionYet, AllFilled
<1>6. IssuedAsAsked' /\ FailedIsNotIssued'
  <2>1. \A d \in Dcos : told'[d] \in {"NONE", "FAILED"} =>
                          told[d] \in {"NONE", "FAILED"} /\ ~Clicking(d)
    BY DEF Shutdown, Clicking
  <2> QED
    BY <1>2, <2>1 DEF IssuedAsAsked, FailedIsNotIssued, HasIssued, ClicksFor
<1> QED
  BY <1>3, <1>4, <1>5, <1>6 DEF SubmitIsSound

\* The steps of a run, one by one.
LEMMA EveryPageStep ==
  BrowserInv /\ [BrowserNext]_browserVars => BrowserInv'
<1> SUFFICES ASSUME BrowserInv, [BrowserNext]_browserVars PROVE BrowserInv'
  OBVIOUS
<1>1. CASE UNCHANGED browserVars
  <2>1. UNCHANGED <<saved, signIn, pool, drive, told, clicked>>
    BY <1>1 DEF browserVars
  <2>2. BrowserTyped' /\ SignInIsSound' /\ FilesAreTheirOwn' /\ IssuedAsAsked' /\ FailedIsNotIssued'
    BY <2>1 DEF BrowserInv, BrowserTyped, SignInIsSound, FilesAreTheirOwn, IssuedAsAsked,
       FailedIsNotIssued, HasIssued, ClicksFor, Clicking
  <2>3. (\A r \in Runs : PageIsSound(r)' /\ DriveIsSound(r)') /\ \A r \in FiscalIds : SubmitIsSound(r)'
    BY <2>1 DEF BrowserInv, PageIsSound, DriveIsSound, SubmitIsSound
  <2> QED
    BY <2>2, <2>3 DEF BrowserInv
<1>2. CASE \/ \E f \in FiscalIds : OperatorSignsIn(f)
           \/ GiveFisconlineCredentials \/ SwitchToIncaricante \/ OpenFattureService
           \/ CompleteWorkProfile
  <2>1. UNCHANGED <<saved, pool, drive, told, clicked>>
    BY <1>2 DEF OperatorSignsIn, GiveFisconlineCredentials, SwitchToIncaricante,
       OpenFattureService, CompleteWorkProfile
  <2> QED
    BY <1>2, <2>1, SigningIn DEF OperatorSignsIn
<1>3. CASE SaveSession \/ SignInFails
  BY <1>3, SavedSession, LostSignIn
<1>4. ASSUME NEW r \in Runs,
             \/ \E d \in Dcos : StartDrive(r, d)
             \/ ReadFingerprint(r) \/ TakePage(r) \/ NoPageTaken(r) \/ NavigationFails(r)
             \/ FillItem(r) \/ FillPayment(r) \/ ClickProceed(r) \/ WaitForEvidence(r)
             \/ RefreshForRun(r) \/ PageCloses(r)
      PROVE  BrowserInv'
  BY <1>4, NewRun, Fingerprint, PageIsTaken, NoPageToDrive, FilledIn, Proceeds, LastSteps,
     RefreshedRun, PagesClose
<1>5. ASSUME NEW r \in Runs,
             \/ OpenDocumentGenerator(r) \/ VerifySummary(r) \/ AdvanceToConfirmation(r)
             \/ AcknowledgeNotice(r) \/ Confirm(r)
      PROVE  BrowserInv'
  <2>1. /\ {"ITEMS", "ADVANCE", "CONFIRM", "NOTICE", "BOUNDARY"} \subseteq DriveSteps
        /\ {"VERIFY", "ADVANCE", "NOTICE", "CONFIRM"} \subseteq AllFilled \ {"CLICKED"}
        /\ "ITEMS" \notin AllFilled
        /\ {"ITEMS", "ADVANCE", "CONFIRM", "NOTICE", "BOUNDARY"} \cap (NoSessionYet \cup {"CLICKED", "PAGE"}) = {}
    BY DEF DriveSteps, AllFilled, NoSessionYet
  <2>2. CASE OpenDocumentGenerator(r)
    BY <2>1, <2>2, PageSteps DEF OpenDocumentGenerator
  <2>3. CASE VerifySummary(r) \/ AcknowledgeNotice(r) \/ Confirm(r)
    BY <2>1, <2>3, PageSteps DEF VerifySummary, AcknowledgeNotice, Confirm
  <2>4. CASE AdvanceToConfirmation(r)
    BY <2>1, <2>4, PageSteps DEF AdvanceToConfirmation
  <2> QED
    BY <1>5, <2>2, <2>3, <2>4
<1>6. CASE ClickCancel \/ \E s \in {"submits", "dryRuns"} : ChromiumCrashes(s)
  BY <1>6, LastSteps, PagesClose
<1>7. CASE Shutdown
  BY <1>7, AfterShutdown
<1> QED
  BY <1>1, <1>2, <1>3, <1>4, <1>5, <1>6, <1>7 DEF BrowserNext

(***************************************************************************)
(* For any number of sellers, documents and saved sessions, and a pool of  *)
(* any size: what the agency's pages issue is the whole document that was  *)
(* asked for, as its seller, once, in a session no older than the try, and *)
(* what was said to have failed was not issued.                            *)
(***************************************************************************)
THEOREM PagesStaySound == BrowserSpec => []PagesAreSound
<1>1. BrowserInit => BrowserInv
  BY NothingIsDriven
<1>2. BrowserInv /\ [BrowserNext]_browserVars => BrowserInv'
  BY EveryPageStep
<1>3. BrowserInv => PagesAreSound
  BY DEF BrowserInv, PagesAreSound, SessionsAreTheirOwn, FilesAreTheirOwn, PageIsSound,
     SessionsAreCurrent, DriveIsSound, NoSessionYet
<1> QED
  BY <1>1, <1>2, <1>3, PTL DEF BrowserSpec
=============================================================================
