---------------------------- MODULE DeviceProofs ----------------------------
(***************************************************************************)
(* Theorems about what the devices of a place keep for themselves and do   *)
(* by themselves: the outbox of offline sales, the print queue, the card   *)
(* payments and the closing of sales, for any numbers of sales, tables,    *)
(* jobs, agents, payments and losses.                                      *)
(***************************************************************************)
EXTENDS OfflineQueue, PrintJobs, CardPayments, SaleClosing, SumTheorems, TLAPS

-----------------------------------------------------------------------------
(***************************************************************************)
(* What is proved about the offline sales: whatever dies, is lost or comes *)
(* late, a sale is one order, what is called synchronised is recorded as   *)
(* it was sold, and what the cashier was told is saved is not lost.        *)
(***************************************************************************)

(***************************************************************************)
(* What the three promises rest on.  The order of a sale and its record    *)
(* are made together; while the loop waits for a request the outbox keeps  *)
(* the operation it was made of; an answer that says OK is about the       *)
(* contents recorded; the operations on the list of the loop still have    *)
(* contents; and a sale being completed is in the outbox or recorded.      *)
(***************************************************************************)
OrdersAreRecorded == \A s \in Sales : orders[s] = IF recorded[s] = NoSale THEN 0 ELSE 1

WaitingOperationIsKept ==
  loop.current # NoRequest =>
    /\ loop.current.content \in Contents
    /\ outbox[loop.current.sale].status = "SYNCING"
    /\ outbox[loop.current.sale].content = loop.current.content

OkMeansRecorded ==
  loop.current # NoRequest /\ loop.reply = "OK" =>
    recorded[loop.current.sale] = loop.current.content

DueOperationsAreQueued == \A s \in loop.due : outbox[s].status \in DueStatus

CompletingSalesAreKept ==
  completing => outbox[draft.sale] # NoOperation \/ recorded[draft.sale] # NoSale

QueueInv ==
  /\ TypeOK
  /\ OrdersAreRecorded /\ SyncedSalesAreRecorded /\ SavedSalesAreKept
  /\ WaitingOperationIsKept /\ OkMeansRecorded
  /\ DueOperationsAreQueued /\ CompletingSalesAreKept

-----------------------------------------------------------------------------
\* The loop stays what it is when it waits, is answered, or starts afresh.
LEMMA LoopWaits ==
  ASSUME loop \in Loop, NEW pending \in SUBSET Sales, NEW r \in Request \cup {NoRequest}
  PROVE  /\ [loop EXCEPT !.due = pending, !.current = r, !.reply = "WAITING"] \in Loop
         /\ [loop EXCEPT !.current = r, !.reply = "WAITING"] \in Loop
  BY DEF Loop, Replies

\* The same for an answer, whoever it is for.
LEMMA LoopAnswered ==
  ASSUME loop \in Loop, NEW r, NEW reply \in Replies
  PROVE  Answer(r, reply) \in Loop
  BY DEF Answer, Loop

\* And for a loop that has not begun.
LEMMA IdleLoop == Idle \in Loop
  BY DEF Idle, Loop, Replies

\* Together, of every step.
LEMMA LoopKept == ASSUME QueueInv, [Next]_vars PROVE loop' \in Loop
<1>1. loop \in Loop /\ Due \in SUBSET Sales /\ loop.due \subseteq Sales
  BY DEF QueueInv, TypeOK, Due, Loop
<1>2. \A r \in Request : r \in Request \cup {NoRequest}
  OBVIOUS
<1>3. CASE BeginSync
  BY <1>1, <1>3 DEF BeginSync, Idle, Loop, Replies
<1>4. CASE \E s \in Sales : Replay(s)
  <2>1. PICK s \in Sales : Replay(s)
    BY <1>4
  <2>2. loop.due \ {s} \in SUBSET Sales
    BY <1>1
  <2>3. PICK r \in Request :
          loop' = [loop EXCEPT !.due = loop.due \ {s}, !.current = r, !.reply = "WAITING"]
    BY <2>1 DEF Replay
  <2> QED
    BY <1>1, <1>2, <2>2, <2>3, LoopWaits
<1>5. CASE RecordReply
  BY <1>1, <1>5, LoopWaits DEF RecordReply
<1>6. CASE EndSync \/ Crash
  BY <1>6, IdleLoop DEF EndSync, Crash
<1>7. CASE TimeOut
  BY <1>1, <1>7 DEF TimeOut, Loop, Replies
<1>8. CASE \E r \in requests : \/ Execute(r) \/ Drop(r)
                              \/ \E reply \in {"CONFLICT", "ERROR"} : Reject(r, reply)
  BY <1>1, <1>8, LoopAnswered DEF Execute, Drop, Reject, RecordSale, Replies
<1>9. CASE UNCHANGED loop
  BY <1>1, <1>9
<1> QED
  BY <1>3, <1>4, <1>5, <1>6, <1>7, <1>8, <1>9
  DEF Next, StartDraft, EditDraft, DiscardDraft, Enqueue, FinishSale, Retry, ClearSynced, vars

(***************************************************************************)
(* Every step keeps the invariant.                                         *)
(***************************************************************************)
LEMMA QueueInvKept == ASSUME QueueInv, [Next]_vars PROVE QueueInv'
<1>0. loop' \in Loop
  BY LoopKept
<1> USE NoSaleAssumption, OfflineAssumption DEF QueueInv, TypeOK, OrdersAreRecorded,
      SyncedSalesAreRecorded, SavedSalesAreKept, WaitingOperationIsKept, OkMeansRecorded,
      DueOperationsAreQueued, CompletingSalesAreKept, NoDraft, NoOperation, NoRequest,
      Idle, Loop, Request, Status, Replies, DueStatus, vars, deviceVars, serverVars
<1>1. ASSUME NEW s \in Sales, NEW c \in Contents, StartDraft(s, c)
     PROVE  QueueInv'
  BY <1>1 DEF StartDraft
<1>2. ASSUME NEW c \in Contents, EditDraft(c)
     PROVE  QueueInv'
  BY <1>2 DEF EditDraft
<1>3. CASE DiscardDraft
  BY <1>3 DEF DiscardDraft
<1>4. CASE Enqueue
  BY <1>4 DEF Enqueue, Accepted
<1>5. CASE FinishSale
  BY <1>5 DEF FinishSale
<1>6. CASE Crash
  <2>1. TypeOK'
    <3>2. crashes' \in 0..MaxCrashes /\ failures' \in 0..MaxFailures
      BY <1>6 DEF Crash
    <3>3. /\ outbox' \in [Sales -> [status : Status, content : Contents \cup {NoSale}]]
          /\ \A s \in Sales : outbox'[s].status = "NONE" <=> outbox'[s].content = NoSale
      BY <1>6 DEF Crash
    <3>4. requests' \subseteq Request
      BY <1>6 DEF Crash
    <3>5. recorded' \in [Sales -> Contents \cup {NoSale}] /\ orders' \in [Sales -> Nat]
      BY <1>6 DEF Crash
    <3> QED
      BY <1>0, <1>6, <3>2, <3>3, <3>4, <3>5 DEF Crash
  <2>2. OrdersAreRecorded'
    BY <1>6 DEF Crash
  <2>3. SyncedSalesAreRecorded' /\ SavedSalesAreKept'
    BY <1>6 DEF Crash
  <2>4. WaitingOperationIsKept'
    BY <1>6 DEF Crash
  <2>5. OkMeansRecorded'
    BY <1>6 DEF Crash
  <2>6. DueOperationsAreQueued'
    BY <1>6 DEF Crash
  <2>7. CompletingSalesAreKept'
    BY <1>6 DEF Crash
  <2> QED
    BY <2>1, <2>2, <2>3, <2>4, <2>5, <2>6, <2>7
<1>7. ASSUME NEW s \in Sales, Retry(s)
     PROVE  QueueInv'
  BY <1>7 DEF Retry
<1>8. CASE ClearSynced
  BY <1>8 DEF ClearSynced, ClearableStatus
<1>9. CASE BeginSync
  BY <1>9 DEF BeginSync, Due
<1>10. ASSUME NEW r \in Sales, Replay(r)
     PROVE  QueueInv'
  <2>1. TypeOK'
    <3>2. crashes' \in 0..MaxCrashes /\ failures' \in 0..MaxFailures
      BY <1>10 DEF Replay
    <3>3. /\ outbox' \in [Sales -> [status : Status, content : Contents \cup {NoSale}]]
          /\ \A s \in Sales : outbox'[s].status = "NONE" <=> outbox'[s].content = NoSale
      BY <1>10 DEF Replay
    <3>4. requests' \subseteq Request
      BY <1>10 DEF Replay
    <3>5. recorded' \in [Sales -> Contents \cup {NoSale}] /\ orders' \in [Sales -> Nat]
      BY <1>10 DEF Replay
    <3> QED
      BY <1>0, <1>10, <3>2, <3>3, <3>4, <3>5 DEF Replay
  <2>2. OrdersAreRecorded'
    BY <1>10 DEF Replay
  <2>3. SyncedSalesAreRecorded' /\ SavedSalesAreKept'
    BY <1>10 DEF Replay
  <2>4. WaitingOperationIsKept'
    BY <1>10 DEF Replay
  <2>5. OkMeansRecorded'
    BY <1>10 DEF Replay
  <2>6. DueOperationsAreQueued'
    BY <1>10 DEF Replay
  <2>7. CompletingSalesAreKept'
    BY <1>10 DEF Replay
  <2> QED
    BY <2>1, <2>2, <2>3, <2>4, <2>5, <2>6, <2>7
<1>11. CASE RecordReply
  <2>1. TypeOK'
    <3>2. crashes' \in 0..MaxCrashes /\ failures' \in 0..MaxFailures
      BY <1>11 DEF RecordReply, StatusAfter
    <3>3. /\ outbox' \in [Sales -> [status : Status, content : Contents \cup {NoSale}]]
          /\ \A s \in Sales : outbox'[s].status = "NONE" <=> outbox'[s].content = NoSale
      BY <1>11 DEF RecordReply, StatusAfter
    <3>4. requests' \subseteq Request
      BY <1>11 DEF RecordReply, StatusAfter
    <3>5. recorded' \in [Sales -> Contents \cup {NoSale}] /\ orders' \in [Sales -> Nat]
      BY <1>11 DEF RecordReply, StatusAfter
    <3> QED
      BY <1>0, <1>11, <3>2, <3>3, <3>4, <3>5 DEF RecordReply, StatusAfter
  <2>2. OrdersAreRecorded'
    BY <1>11 DEF RecordReply, StatusAfter
  <2>3. SyncedSalesAreRecorded' /\ SavedSalesAreKept'
    BY <1>11 DEF RecordReply, StatusAfter
  <2>4. WaitingOperationIsKept'
    BY <1>11 DEF RecordReply, StatusAfter
  <2>5. OkMeansRecorded'
    BY <1>11 DEF RecordReply, StatusAfter
  <2>6. DueOperationsAreQueued'
    BY <1>11 DEF RecordReply, StatusAfter
  <2>7. CompletingSalesAreKept'
    BY <1>11 DEF RecordReply, StatusAfter
  <2> QED
    BY <2>1, <2>2, <2>3, <2>4, <2>5, <2>6, <2>7
<1>12. CASE EndSync
  BY <1>12 DEF EndSync
<1>13. ASSUME NEW r \in requests, Execute(r)
     PROVE  QueueInv'
  <2>1. TypeOK'
    <3>2. crashes' \in 0..MaxCrashes /\ failures' \in 0..MaxFailures
      BY <1>13 DEF Execute, Answer, AlreadyRecorded, RecordSale
    <3>3. /\ outbox' \in [Sales -> [status : Status, content : Contents \cup {NoSale}]]
          /\ \A s \in Sales : outbox'[s].status = "NONE" <=> outbox'[s].content = NoSale
      BY <1>13 DEF Execute, Answer, AlreadyRecorded, RecordSale
    <3>4. requests' \subseteq Request
      BY <1>13 DEF Execute, Answer, AlreadyRecorded, RecordSale
    <3>5. recorded' \in [Sales -> Contents \cup {NoSale}]
      BY <1>13 DEF Execute, Answer, AlreadyRecorded, RecordSale
    <3>6. orders' = orders \/ orders' = [orders EXCEPT ![r.sale] = @ + 1]
      BY <1>13 DEF Execute, RecordSale
    <3>7. orders' \in [Sales -> Nat]
      BY <3>6
    <3> QED
      BY <1>0, <1>13, <3>2, <3>3, <3>4, <3>5, <3>7 DEF Execute, Answer, AlreadyRecorded, RecordSale
  <2>2. OrdersAreRecorded'
    BY <1>13 DEF Execute, Answer, AlreadyRecorded, RecordSale
  <2>3. SyncedSalesAreRecorded' /\ SavedSalesAreKept'
    BY <1>13 DEF Execute, Answer, AlreadyRecorded, RecordSale
  <2>4. WaitingOperationIsKept'
    BY <1>13 DEF Execute, Answer, AlreadyRecorded, RecordSale
  <2>5. OkMeansRecorded'
    <3>1. \E reply : loop' = Answer(r, reply) /\ (reply = "OK" => recorded'[r.sale] = r.content)
      BY <1>13 DEF Execute, RecordSale
    <3>2. \A s \in Sales : recorded[s] # NoSale => recorded'[s] = recorded[s]
      BY <1>13 DEF Execute, RecordSale, AlreadyRecorded
    <3>3. loop'.current = loop.current
      BY <3>1 DEF Answer
    <3>4. CASE loop' = loop
      BY <3>2, <3>3, <3>4
    <3>5. CASE loop' # loop
      <4>1. loop.current = r /\ (loop'.reply = "OK" => recorded'[r.sale] = r.content)
        BY <3>1, <3>5 DEF Answer
      <4> QED
        BY <3>3, <4>1
    <3> QED
      BY <3>4, <3>5
  <2>6. DueOperationsAreQueued'
    BY <1>13 DEF Execute, Answer, AlreadyRecorded, RecordSale
  <2>7. CompletingSalesAreKept'
    BY <1>13 DEF Execute, Answer, AlreadyRecorded, RecordSale
  <2> QED
    BY <2>1, <2>2, <2>3, <2>4, <2>5, <2>6, <2>7
<1>14. ASSUME NEW r \in requests, NEW reply \in {"CONFLICT", "ERROR"}, Reject(r, reply)
     PROVE  QueueInv'
  BY <1>14 DEF Reject, Answer
<1>15. CASE TimeOut
  BY <1>15 DEF TimeOut
<1>16. ASSUME NEW r \in requests, Drop(r)
     PROVE  QueueInv'
  BY <1>16 DEF Drop, Answer
<1>17. CASE UNCHANGED vars
  BY <1>17
<1> HIDE NoSaleAssumption, OfflineAssumption DEF QueueInv, vars
<1> QED
  BY <1>1, <1>2, <1>3, <1>4, <1>5, <1>6, <1>7, <1>8, <1>9, <1>10, <1>11, <1>12, <1>13, <1>14, <1>15, <1>16, <1>17 DEF Next

\* The invariant holds when the app first starts.
LEMMA QueueInvInit == Init => QueueInv
<1> SUFFICES ASSUME Init PROVE QueueInv
  OBVIOUS
<1>1. \A s \in Sales : outbox[s] = NoOperation /\ recorded[s] = NoSale /\ orders[s] = 0
  BY DEF Init
<1>2. loop.current = NoRequest /\ loop.due = {}
  BY DEF Init, Idle
<1>3. outbox \in [Sales -> [status : Status, content : Contents \cup {NoSale}]]
  BY DEF Init, NoOperation, Status
<1>4. \A s \in Sales : outbox[s].status = "NONE" <=> outbox[s].content = NoSale
  BY <1>1 DEF NoOperation
<1>5. crashes \in 0..MaxCrashes /\ failures \in 0..MaxFailures
  BY OfflineAssumption DEF Init
<1>6. recorded \in [Sales -> Contents \cup {NoSale}] /\ orders \in [Sales -> Nat]
  BY DEF Init
<1>7. loop \in Loop
  BY IdleLoop DEF Init
<1>8. TypeOK
  BY <1>3, <1>4, <1>5, <1>6, <1>7 DEF Init, TypeOK
<1> QED
  BY <1>1, <1>2, <1>8
  DEF Init, QueueInv, OrdersAreRecorded, SyncedSalesAreRecorded, SavedSalesAreKept,
      WaitingOperationIsKept, OkMeansRecorded, DueOperationsAreQueued,
      CompletingSalesAreKept, NoOperation

(***************************************************************************)
(* In every execution a sale is one paid order at most, what the device    *)
(* calls synchronised is recorded with its contents, and a sale the        *)
(* cashier was told is saved is queued or recorded.                        *)
(***************************************************************************)
THEOREM SalesRecordedOnce == Spec => []SalesAreRecordedOnce
<1>1. Init => QueueInv
  BY QueueInvInit
<1>2. QueueInv /\ [Next]_vars => QueueInv'
  BY QueueInvKept
<1>3. QueueInv => SalesAreRecordedOnce
  BY DEF QueueInv, SalesAreRecordedOnce, OrdersAreRecorded, OneOrderPerSale
<1> QED
  BY <1>1, <1>2, <1>3, PTL DEF Spec

(***************************************************************************)
(* The contents of a queued sale never change while it is in the outbox:   *)
(* enqueue refuses another payload under an id it knows.                   *)
(***************************************************************************)
THEOREM QueuedSalesUnchanged == Spec => QueuedSalesKeepTheirContents
<1> DEFINE Kept == \A s \in Sales :
      (outbox[s] # NoOperation /\ outbox'[s] # NoOperation)
        => outbox'[s].content = outbox[s].content
<1>1. Init => QueueInv
  BY QueueInvInit
<1>2. QueueInv /\ [Next]_vars => QueueInv'
  BY QueueInvKept
<1>3. ASSUME QueueInv, [Next]_vars
      PROVE  Kept
  <2>1. outbox \in [Sales -> [status : Status, content : Contents \cup {NoSale}]]
    BY <1>3 DEF QueueInv, TypeOK
  <2>2. CASE Enqueue
    BY <2>1, <2>2 DEF Enqueue, Accepted, NoOperation
  <2>3. CASE ClearSynced
    BY <2>1, <2>3 DEF ClearSynced
  <2>4. CASE \E s \in Sales : Retry(s) \/ Replay(s)
    <3>1. PICK s \in Sales : Retry(s) \/ Replay(s)
      BY <2>4
    <3>2. CASE Retry(s)
      BY <2>1, <3>2 DEF Retry
    <3>3. CASE Replay(s)
      BY <2>1, <3>3 DEF Replay
    <3> QED
      BY <3>1, <3>2, <3>3
  <2>5. CASE RecordReply
    BY <2>1, <2>5 DEF RecordReply
  <2>6. CASE UNCHANGED outbox
    BY <2>6
  <2> QED
    BY <1>3, <2>2, <2>3, <2>4, <2>5, <2>6
    DEF Next, StartDraft, EditDraft, DiscardDraft, FinishSale, Crash, BeginSync, EndSync,
        Execute, Reject, TimeOut, Drop, vars, deviceVars
<1> QED
  BY <1>1, <1>2, <1>3, PTL DEF Spec, QueuedSalesKeepTheirContents

-----------------------------------------------------------------------------
(***************************************************************************)
(* What is proved about the print queue: its jobs and their attempts agree *)
(* whatever is lost or late, and what is concluded stays so.               *)
(***************************************************************************)

(***************************************************************************)
(* What that rests on: of a job's attempts only that of its last lease can *)
(* be open or completed, a job never requested is untouched, a completion  *)
(* is reported only of what is on paper, and a decision made at the        *)
(* version the job still has was made on the status it still has.          *)
(***************************************************************************)
LastLease(j) ==
  /\ \A t \in Tokens : attempts[t].job = j =>
       /\ attempts[t].outcome = "CLAIMED" => jobs[j].status = "CLAIMED" /\ jobs[j].token = t
       /\ attempts[t].outcome = "COMPLETED" => jobs[j].status = "COMPLETED" /\ jobs[j].token = t
  /\ jobs[j].status \in {"CLAIMED", "COMPLETED"} =>
       /\ jobs[j].token \in Tokens
       /\ attempts[jobs[j].token].job = j
       /\ attempts[jobs[j].token].outcome = jobs[j].status
  /\ jobs[j].status = "CLAIMED" => attempts[jobs[j].token].device = jobs[j].device

JobSound(j) ==
  /\ LastLease(j)
  /\ jobs[j].status = "NONE" => jobs[j] = NewJob
  /\ jobs[j].status = "QUEUED" => jobs[j].attempts < MaxAttempts /\ jobs[j].token = NoToken
  /\ jobs[j].status = "COMPLETED" => j \in paper

AgentsHaveJobs ==
  \A d \in Devices : agent[d].phase # "IDLE" => agent[d].job \in Jobs /\ agent[d].token \in Tokens

ReportedJobsWerePrinted == \A r \in reports : r.op = "COMPLETE" => r.job \in paper

DecisionsKnowTheirJob ==
  \A m \in decisions :
    /\ m.version <= jobs[m.job].version
    /\ m.version = jobs[m.job].version => m.shown = jobs[m.job].status

AgentInv == AgentsTyped /\ AgentsHaveJobs /\ ReportedJobsWerePrinted
RowInv == RowsTyped /\ \A j \in Jobs : JobSound(j)
DecisionInv == DecisionsTyped /\ DecisionsKnowTheirJob

PrintInv == AgentInv /\ RowInv /\ DecisionInv

-----------------------------------------------------------------------------
(* The agents *)

\* Whatever the answer to a report is, the agent goes on with a job it has.
LEMMA AgentsHearAnswers ==
  ASSUME AgentInv, NEW r \in reports, NEW ok \in BOOLEAN, AnswerReport(r, ok), paper' = paper
  PROVE  AgentInv'
<1> USE DEF AgentInv, AgentsTyped, AgentsHaveJobs, ReportedJobsWerePrinted, Phases
<1>1. CASE ~ Waits(r)
  BY <1>1 DEF AnswerReport
<1>2. CASE Waits(r) /\ (ok \/ r.op = "FAIL")
  BY <1>2 DEF AnswerReport, Polling, NoToken
<1>3. CASE Waits(r) /\ ~ (ok \/ r.op = "FAIL")
  <2>1. agent[r.device].phase = "COMPLETING"
    BY <1>3 DEF Waits
  <2>2. Report(r.device, "FAIL") \in [op : {"COMPLETE", "FAIL"}, device : Devices,
                                     job : Jobs, token : Tokens]
    BY <2>1 DEF Report
  <2> QED
    BY <1>3, <2>1, <2>2 DEF AnswerReport, Report
<1> QED
  BY <1>1, <1>2, <1>3

\* Every step keeps what holds of the agents and their reports.
LEMMA AgentsKept == ASSUME AgentInv, [PrintNext]_printVars PROVE AgentInv'
<1> USE DEF AgentInv, AgentsTyped, AgentsHaveJobs, ReportedJobsWerePrinted, Phases
<1>1. ASSUME NEW d \in Devices, NEW j \in Jobs, Claim(d, j)
     PROVE  AgentInv'
  <2>1. CASE Exhaust(j)
    BY <1>1, <2>1 DEF Claim, Exhaust
  <2>2. ASSUME NEW t \in Tokens, Lease(d, j, t)
       PROVE  AgentInv'
    BY <1>1, <2>2 DEF Claim, Lease
  <2> QED
    BY <1>1, <2>1, <2>2 DEF Claim
<1>2. ASSUME NEW d \in Devices, PrintSucceeds(d) \/ PrintFails(d)
     PROVE  AgentInv'
  BY <1>2 DEF PrintSucceeds, PrintFails, Report, dbVars, bounds
<1>3. ASSUME NEW d \in Devices, ReportTimesOut(d) \/ Die(d)
     PROVE  AgentInv'
  BY <1>3 DEF ReportTimesOut, Die, Report, Polling, NoToken, dbVars
<1>4. ASSUME NEW r \in reports, Complete(r)
     PROVE  AgentInv'
  BY <1>4, AgentsHearAnswers DEF Complete
<1>5. ASSUME NEW r \in reports, Fail(r)
     PROVE  AgentInv'
  BY <1>5, AgentsHearAnswers DEF Fail
<1>6. ASSUME NEW r \in reports, DropReport(r)
     PROVE  AgentInv'
  BY <1>6, AgentsHearAnswers DEF DropReport
<1>7. CASE UNCHANGED <<agent, reports, paper>>
  BY <1>7
<1> QED
  BY <1>1, <1>2, <1>3, <1>4, <1>5, <1>6, <1>7
  DEF PrintNext, EnqueueDocument, LeaseLapses, BackoffEnds, Assign, Decide, Mutate, printVars

-----------------------------------------------------------------------------
(* The jobs and their attempts *)

\* A job whose row, attempts and paper are untouched stays sound.
LEMMA JobUntouched ==
  ASSUME RowInv, NEW k \in Jobs, jobs'[k] = jobs[k], paper \subseteq paper',
         \A t \in Tokens : attempts'[t] = attempts[t]
                          \/ (attempts[t].job # k /\ attempts'[t].job # k)
  PROVE  JobSound(k)'
BY DEF RowInv, RowsTyped, Attempt, Job, JobSound, LastLease

\* A step that changes the row of one job and no attempt of another needs
\* to be looked at only there.
LEMMA OneJobChanges ==
  ASSUME RowInv, NEW j \in Jobs, NEW x \in Job, jobs' = [jobs EXCEPT ![j] = x],
         attempts' \in [Tokens -> Attempt], paper \subseteq paper',
         \A t \in Tokens : attempts'[t] = attempts[t]
                          \/ (attempts[t].job \in {j, NoJob} /\ attempts'[t].job = j),
         JobSound(j)'
  PROVE  RowInv'
<1>1. ASSUME NEW k \in Jobs \ {j}
     PROVE  JobSound(k)'
  <2>1. jobs'[k] = jobs[k]
    BY DEF RowInv, RowsTyped
  <2> QED
    BY <2>1, JobUntouched, NoneAssumption
<1> QED
  BY <1>1 DEF RowInv, RowsTyped

\* A step that touches neither jobs nor attempts keeps all of this.
LEMMA RowsUntouched ==
  ASSUME RowInv, UNCHANGED <<jobs, attempts>>, paper \subseteq paper'
  PROVE  RowInv'
BY JobUntouched DEF RowInv, RowsTyped

\* What the API makes of a job is a job.
LEMMA JobsStayTyped ==
  ASSUME NEW job \in Job
  PROVE  /\ Settled(job, "FAILED") \in Job
         /\ Completed(job) \in Job /\ Failed(job) \in Job
         /\ Retried(job) \in Job /\ Cancelled(job) \in Job
         /\ \A d \in Devices, t \in Tokens :
              job.attempts < MaxAttempts => Leased(job, d, t) \in Job
<1> USE DEF Job, JobStatus
<1>0. job.version + 1 \in Nat
  OBVIOUS
<1>1. Settled(job, "FAILED") \in Job /\ Settled(job, "QUEUED") \in Job
  BY <1>0 DEF Settled
<1>2. Failed(job) \in Job
  BY <1>1 DEF Failed
<1>3. Completed(job) \in Job /\ Cancelled(job) \in Job
  BY <1>0 DEF Completed, Cancelled
<1>4. Retried(job) \in Job
  <2>1. NewJob \in Job
    BY PrintAssumption DEF NewJob
  <2> QED
    BY <1>0, <2>1 DEF Retried
<1>5. \A d \in Devices, t \in Tokens : job.attempts < MaxAttempts => Leased(job, d, t) \in Job
  <2>1. job.attempts < MaxAttempts => job.attempts + 1 \in 0..MaxAttempts
    BY PrintAssumption
  <2> QED
    BY <1>0, <2>1 DEF Leased
<1> QED
  BY <1>1, <1>2, <1>3, <1>4, <1>5

\* Closing the attempt of a lapsed lease keeps the attempts' types.
LEMMA ExpiredTyped == ASSUME RowInv, NEW j \in Jobs PROVE Expired(j) \in [Tokens -> Attempt]
BY DEF RowInv, RowsTyped, Attempt, Expired, Outcomes

\* A document that is requested, again or for the first time.
LEMMA EnqueueKeepsRows ==
  ASSUME RowInv, NEW j \in Jobs, EnqueueDocument(j)
  PROVE  RowInv'
<1> DEFINE x == IF jobs[j].status = "NONE" THEN Requested(jobs[j]) ELSE Repeated(jobs[j])
<1> USE DEF EnqueueDocument, Requested, Repeated
<1>1. x \in Job
  BY DEF RowInv, RowsTyped, Job, JobStatus
<1>2. jobs' = [jobs EXCEPT ![j] = x] /\ jobs'[j] = x
  BY DEF RowInv, RowsTyped
<1>3. JobSound(j)'
  BY <1>2, PrintAssumption DEF RowInv, RowsTyped, Job, Attempt, JobSound, LastLease, NewJob
<1> QED
  BY <1>1, <1>2, <1>3, OneJobChanges DEF RowInv, RowsTyped

\* A lease that lapses, a backoff that ends.
LEMMA TimeKeepsRows ==
  ASSUME RowInv, NEW j \in Jobs, LeaseLapses(j) \/ BackoffEnds(j)
  PROVE  RowInv'
<1> USE DEF LeaseLapses, BackoffEnds
<1>1. PICK x \in Job : jobs' = [jobs EXCEPT ![j] = x]
  <2>1. [jobs[j] EXCEPT !.lapsed = TRUE] \in Job /\ [jobs[j] EXCEPT !.due = TRUE] \in Job
    BY DEF RowInv, RowsTyped, Job
  <2> QED
    BY <2>1 DEF RowInv, RowsTyped
<1>2. /\ UNCHANGED <<attempts, paper>>
      /\ jobs'[j].status = jobs[j].status /\ jobs'[j].token = jobs[j].token
      /\ jobs'[j].attempts = jobs[j].attempts /\ jobs'[j].device = jobs[j].device
      /\ jobs[j].status # "NONE"
  <2>1. jobs \in [Jobs -> Job] /\ jobs[j] \in Job
    BY DEF RowInv, RowsTyped
  <2>2. CASE LeaseLapses(j)
    <3>1. jobs'[j] = [jobs[j] EXCEPT !.lapsed = TRUE]
      BY <2>1, <2>2
    <3> QED
      BY <2>1, <2>2, <3>1 DEF Job
  <2>3. CASE BackoffEnds(j)
    <3>1. jobs'[j] = [jobs[j] EXCEPT !.due = TRUE]
      BY <2>1, <2>3
    <3> QED
      BY <2>1, <2>3, <3>1 DEF Job
  <2> QED
    BY <2>2, <2>3
<1>3. JobSound(j)
  BY DEF RowInv
<1>4. JobSound(j)'
  BY <1>2, <1>3 DEF JobSound, LastLease
<1> QED
  BY <1>1, <1>4, OneJobChanges DEF RowInv, RowsTyped

\* A job given up because its last lease lapsed.
LEMMA ExhaustKeepsRows ==
  ASSUME RowInv, NEW j \in Jobs, Exhaust(j), paper' = paper
  PROVE  RowInv'
<1> DEFINE x == Settled(jobs[j], "FAILED")
<1> USE DEF Exhaust
<1>1. x \in Job
  BY JobsStayTyped DEF RowInv, RowsTyped
<1>2. jobs' = [jobs EXCEPT ![j] = x] /\ jobs'[j] = x
  BY DEF RowInv, RowsTyped
<1>3. JobSound(j)'
  <2>1. ASSUME NEW u \in Tokens, attempts'[u].job = j
       PROVE  attempts'[u].outcome \notin {"CLAIMED", "COMPLETED"}
    <3>1. attempts'[u] = IF jobs[j].token = u /\ attempts[u].outcome = "CLAIMED"
                           THEN [attempts[u] EXCEPT !.outcome = "EXPIRED"] ELSE attempts[u]
      BY DEF Expired
    <3>2. jobs[j].status = "CLAIMED" /\ LastLease(j) /\ attempts[u] \in Attempt
      BY DEF RowInv, RowsTyped, JobSound, UsedUp
    <3> QED
      BY <2>1, <3>1, <3>2 DEF Attempt, LastLease
  <2>2. jobs'[j].status = "FAILED"
    BY <1>2 DEF Settled, RowInv, RowsTyped, Job
  <2> QED
    BY <2>1, <2>2 DEF JobSound, LastLease
<1>4. attempts' \in [Tokens -> Attempt]
  BY ExpiredTyped
<1>5. \A t \in Tokens : attempts'[t] = attempts[t]
                       \/ (attempts[t].job \in {j, NoJob} /\ attempts'[t].job = j)
  BY DEF RowInv, RowsTyped, Job, Attempt, JobSound, LastLease, Expired, UsedUp
<1> QED
  BY <1>1, <1>2, <1>3, <1>4, <1>5, OneJobChanges

\* A new lease, whose job has no open attempt but a lapsed one.
LEMMA LeaseKeepsRows ==
  ASSUME RowInv, NEW d \in Devices, NEW j \in Jobs, NEW t \in Tokens, Claimable(j),
         Lease(d, j, t), paper' = paper
  PROVE  RowInv'
<1> DEFINE x == Leased(jobs[j], d, t)
           a == [job |-> j, device |-> d, outcome |-> "CLAIMED"]
<1>1. x \in Job
  <2>1. jobs[j] \in Job /\ jobs[j].attempts < MaxAttempts
    BY PrintAssumption DEF RowInv, RowsTyped, Job, JobSound, Claimable, Lease, UsedUp
  <2> QED
    BY <2>1, JobsStayTyped
<1>2. jobs' = [jobs EXCEPT ![j] = x] /\ jobs'[j] = x
  BY DEF RowInv, RowsTyped, Lease
<1>3. /\ attempts' = [Expired(j) EXCEPT ![t] = a]
      /\ attempts' \in [Tokens -> Attempt]
      /\ attempts'[t] = a
  <2>1. a \in Attempt
    BY DEF Attempt, Outcomes
  <2> QED
    BY <2>1, ExpiredTyped DEF Lease
<1>4. attempts[t] = NoAttempt
  BY DEF Lease, Fresh
<1>5. \A u \in Tokens \ {t} : attempts'[u] = IF jobs[j].token = u /\ attempts[u].outcome = "CLAIMED"
                      THEN [attempts[u] EXCEPT !.outcome = "EXPIRED"] ELSE attempts[u]
  BY <1>3, ExpiredTyped DEF Expired
<1>6. \A u \in Tokens : attempts'[u] = attempts[u]
                       \/ (attempts[u].job \in {j, NoJob} /\ attempts'[u].job = j)
  <2>1. ASSUME NEW u \in Tokens \ {t}, jobs[j].token = u
       PROVE  attempts[u].job = j
    BY <2>1 DEF RowInv, JobSound, LastLease, Claimable, Tokens, NoToken
  <2> QED
    BY <1>3, <1>4, <1>5, <2>1 DEF NoAttempt, RowInv, RowsTyped, Attempt
<1>7. JobSound(j)'
  <2>1. ASSUME NEW u \in Tokens \ {t}, attempts'[u].job = j
       PROVE  attempts'[u].outcome \notin {"CLAIMED", "COMPLETED"}
    <3>1. /\ LastLease(j) /\ jobs[j].status \in {"QUEUED", "CLAIMED"}
          /\ attempts[u] \in Attempt
      BY DEF RowInv, RowsTyped, JobSound, Claimable
    <3> QED
      BY <2>1, <1>5, <3>1 DEF Attempt, LastLease
  <2>2. /\ jobs'[j].status = "CLAIMED" /\ jobs'[j].token = t /\ jobs'[j].device = d
    BY <1>2 DEF Leased, RowInv, RowsTyped, Job
  <2> QED
    BY <1>3, <2>1, <2>2 DEF JobSound, LastLease
<1> QED
  BY <1>1, <1>2, <1>3, <1>6, <1>7, OneJobChanges

\* What ends the lease of a job ends its attempt the same way.
LEMMA ReportKeepsRows ==
  ASSUME RowInv, NEW r \in reports, r.job \in Jobs, r.token \in Tokens, LeaseValid(r),
         NEW x \in Job, NEW end \in {"COMPLETED", "FAILED"},
         jobs' = [jobs EXCEPT ![r.job] = x],
         attempts' = [attempts EXCEPT ![r.token].outcome = IF @ = "CLAIMED" THEN end ELSE @],
         paper' = paper,
         end = "COMPLETED" => /\ x.status = "COMPLETED" /\ x.token = r.token
                              /\ r.job \in paper,
         end = "FAILED" => \/ x.status = "FAILED"
                          \/ /\ x.status = "QUEUED" /\ x.token = NoToken
                             /\ x.attempts < MaxAttempts
  PROVE  RowInv'
<1> DEFINE j == r.job
           t == r.token
<1>1. /\ attempts[t] \in Attempt /\ attempts[t].job = j /\ attempts[t].outcome = "CLAIMED"
      /\ LastLease(j) /\ jobs[j].status = "CLAIMED" /\ jobs[j].token = t
  BY DEF RowInv, RowsTyped, JobSound, LastLease, LeaseValid
<1>2. attempts' = [attempts EXCEPT ![t] = [attempts[t] EXCEPT !.outcome = end]]
  BY <1>1 DEF RowInv, RowsTyped
<1>3. [attempts[t] EXCEPT !.outcome = end] \in Attempt
  BY <1>1 DEF Attempt, Outcomes
<1>4. attempts' \in [Tokens -> Attempt]
  BY <1>2, <1>3 DEF RowInv, RowsTyped
<1>5. attempts'[t].job = j /\ attempts'[t].outcome = end
  BY <1>1, <1>2, <1>3 DEF Attempt, RowInv, RowsTyped
<1>6. \A u \in Tokens \ {t} : attempts'[u] = attempts[u]
  BY <1>2 DEF RowInv, RowsTyped
<1>7. jobs'[j] = x
  BY DEF RowInv, RowsTyped
<1>8. JobSound(j)'
  BY <1>1, <1>5, <1>6, <1>7 DEF JobSound, LastLease
<1> QED
  BY <1>1, <1>4, <1>5, <1>6, <1>8, OneJobChanges

\* A completion, applied or refused.
LEMMA CompleteKeepsRows ==
  ASSUME AgentInv, RowInv, NEW r \in reports, Complete(r)
  PROVE  RowInv'
<1>1. r.job \in Jobs /\ r.token \in Tokens /\ r.job \in paper
  BY DEF AgentInv, AgentsTyped, ReportedJobsWerePrinted, Complete
<1>2. CASE Applies(r)
  <2> DEFINE x == Completed(jobs[r.job])
  <2>1. x \in Job
    BY <1>1, JobsStayTyped DEF RowInv, RowsTyped
  <2>2. x.status = "COMPLETED" /\ x.token = r.token
    BY <1>1, <1>2 DEF Completed, Applies, LeaseValid, RowInv, RowsTyped, Job
  <2> QED
    BY <1>1, <1>2, <2>1, <2>2, ReportKeepsRows DEF Complete, Applies
<1>3. CASE ~ Applies(r)
  BY <1>3, RowsUntouched DEF Complete, dbVars
<1> QED
  BY <1>2, <1>3

\* A failure, applied or refused.
LEMMA FailKeepsRows ==
  ASSUME AgentInv, RowInv, NEW r \in reports, Fail(r)
  PROVE  RowInv'
<1>1. r.job \in Jobs /\ r.token \in Tokens
  BY DEF AgentInv, AgentsTyped
<1>2. CASE Applies(r)
  <2> DEFINE x == Failed(jobs[r.job])
  <2>1. x \in Job
    BY <1>1, JobsStayTyped DEF RowInv, RowsTyped
  <2>2. \/ x.status = "FAILED"
        \/ /\ x.status = "QUEUED" /\ x.token = NoToken
           /\ x.attempts < MaxAttempts
    BY <1>1 DEF Failed, Settled, RowInv, RowsTyped, Job
  <2> QED
    BY <1>1, <1>2, <2>1, <2>2, ReportKeepsRows DEF Fail, Applies
<1>3. CASE ~ Applies(r)
  BY <1>3, RowsUntouched DEF Fail, dbVars
<1> QED
  BY <1>2, <1>3

\* A manager's retry or cancellation, applied or refused.
LEMMA MutateKeepsRows ==
  ASSUME RowInv, DecisionInv, NEW m \in decisions, Mutate(m)
  PROVE  RowInv'
<1>1. m.job \in Jobs
  BY DEF DecisionInv, DecisionsTyped
<1>2. CASE jobs' = jobs
  BY <1>2, RowsUntouched DEF Mutate
<1>3. CASE jobs' # jobs
  <2> DEFINE j == m.job
             x == IF m.action = "RETRY" THEN Retried(jobs[j]) ELSE Cancelled(jobs[j])
  <2>1. jobs' = [jobs EXCEPT ![j] = x] /\ jobs[j].status \in {"QUEUED", "FAILED"}
    BY <1>3 DEF Mutate, Allowed
  <2>2. x \in Job /\ jobs'[j] = x
    BY <1>1, <2>1, JobsStayTyped DEF RowInv, RowsTyped
  <2>3. \/ /\ x.status = "QUEUED" /\ x.token = NoToken
           /\ x.attempts < MaxAttempts
        \/ x.status = "CANCELLED"
    BY <1>1, PrintAssumption DEF Retried, NewJob, Cancelled, RowInv, RowsTyped, Job
  <2>4. JobSound(j)'
    BY <1>1, <2>1, <2>2, <2>3 DEF Mutate, RowInv, JobSound, LastLease
  <2> QED
    BY <1>1, <2>1, <2>2, <2>4, OneJobChanges DEF Mutate, RowInv, RowsTyped
<1> QED
  BY <1>2, <1>3

\* Every step keeps the jobs and their attempts in agreement.
LEMMA RowsKept == ASSUME PrintInv, [PrintNext]_printVars PROVE RowInv'
<1> USE DEF PrintInv
<1>1. ASSUME NEW j \in Jobs, EnqueueDocument(j) \/ LeaseLapses(j) \/ BackoffEnds(j)
     PROVE  RowInv'
  BY <1>1, EnqueueKeepsRows, TimeKeepsRows
<1>2. ASSUME NEW d \in Devices, NEW j \in Jobs, Claim(d, j)
     PROVE  RowInv'
  BY <1>2, ExhaustKeepsRows, LeaseKeepsRows DEF Claim
<1>3. ASSUME NEW r \in reports, Complete(r) \/ Fail(r)
     PROVE  RowInv'
  BY <1>3, CompleteKeepsRows, FailKeepsRows
<1>4. ASSUME NEW m \in decisions, Mutate(m)
     PROVE  RowInv'
  BY <1>4, MutateKeepsRows
<1>5. ASSUME NEW d \in Devices, PrintSucceeds(d) \/ PrintFails(d) \/ ReportTimesOut(d) \/ Die(d)
     PROVE  RowInv'
  BY <1>5, RowsUntouched DEF PrintSucceeds, PrintFails, ReportTimesOut, Die, dbVars
<1>6. ASSUME NEW r \in reports, DropReport(r)
     PROVE  RowInv'
  BY <1>6, RowsUntouched DEF DropReport, dbVars
<1>7. ASSUME NEW d \in Devices, NEW active \in BOOLEAN, Assign(d, active)
     PROVE  RowInv'
  BY <1>7, RowsUntouched DEF Assign, dbVars
<1>8. ASSUME NEW j \in Jobs, NEW action \in {"RETRY", "CANCEL"}, Decide(j, action)
     PROVE  RowInv'
  BY <1>8, RowsUntouched DEF Decide, dbVars
<1>9. CASE UNCHANGED printVars
  BY <1>9, RowsUntouched DEF printVars
<1> QED
  BY <1>1, <1>2, <1>3, <1>4, <1>5, <1>6, <1>7, <1>8, <1>9 DEF PrintNext

-----------------------------------------------------------------------------
(* The managers' decisions *)

\* A status changes only together with the version, which only grows.
LEMMA VersionsGrow ==
  ASSUME PrintInv, [PrintNext]_printVars, NEW k \in Jobs
  PROVE  /\ jobs'[k].version >= jobs[k].version
         /\ jobs'[k].version = jobs[k].version => jobs'[k].status = jobs[k].status
         /\ jobs[k].status \in {"COMPLETED", "CANCELLED"} => jobs'[k] = jobs[k]
<1> DEFINE Good == /\ jobs'[k].version >= jobs[k].version
                   /\ jobs'[k].version = jobs[k].version => jobs'[k].status = jobs[k].status
                   /\ jobs[k].status \in {"COMPLETED", "CANCELLED"} => jobs'[k] = jobs[k]
<1>0. jobs \in [Jobs -> Job] /\ jobs[k] \in Job /\ JobSound(k) /\ jobs[k].version \in Nat
  BY DEF PrintInv, RowInv, RowsTyped, Job
<1>1. ASSUME NEW j \in Jobs, EnqueueDocument(j) \/ LeaseLapses(j) \/ BackoffEnds(j)
     PROVE  Good
  <2>1. CASE EnqueueDocument(j)
    BY <1>0, <2>1 DEF EnqueueDocument, Requested, Repeated, NewJob, JobSound, Job
  <2>2. CASE LeaseLapses(j)
    BY <1>0, <2>2 DEF LeaseLapses, Job
  <2>3. CASE BackoffEnds(j)
    BY <1>0, <2>3 DEF BackoffEnds, Job
  <2> QED
    BY <1>1, <2>1, <2>2, <2>3
<1>2. ASSUME NEW d \in Devices, NEW j \in Jobs, Claim(d, j)
     PROVE  Good
  <2>1. jobs[j].status \in {"QUEUED", "CLAIMED"}
    BY <1>2 DEF Claim, Claimable
  <2>2. CASE Exhaust(j)
    BY <1>0, <2>1, <2>2 DEF Exhaust, Settled, Job
  <2>3. ASSUME NEW t \in Tokens, Lease(d, j, t)
       PROVE  Good
    BY <1>0, <2>1, <2>3 DEF Lease, Leased, Job
  <2> QED
    BY <1>2, <2>2, <2>3 DEF Claim
<1>3. ASSUME NEW r \in reports, Complete(r) \/ Fail(r)
     PROVE  Good
  <2>1. Applies(r) => jobs[r.job].status = "CLAIMED"
    BY DEF Applies, LeaseValid
  <2>2. CASE Complete(r)
    <3>1. jobs' = jobs \/ (Applies(r) /\ jobs' = [jobs EXCEPT ![r.job] = Completed(@)])
      BY <2>2 DEF Complete, dbVars
    <3>2. Completed(jobs[k]).version = jobs[k].version + 1
      BY <1>0 DEF Completed, Job
    <3> QED
      BY <1>0, <2>1, <3>1, <3>2
  <2>3. CASE Fail(r)
    <3>1. jobs' = jobs \/ (Applies(r) /\ jobs' = [jobs EXCEPT ![r.job] = Failed(@)])
      BY <2>3 DEF Fail, dbVars
    <3>2. Failed(jobs[k]).version = jobs[k].version + 1
      BY <1>0 DEF Failed, Settled, Job
    <3> QED
      BY <1>0, <2>1, <3>1, <3>2
  <2> QED
    BY <1>3, <2>2, <2>3
<1>4. ASSUME NEW m \in decisions, Mutate(m)
     PROVE  Good
  <2>1. CASE jobs' = jobs
    BY <1>0, <2>1
  <2>2. CASE jobs' # jobs
    <3>1. jobs[m.job].status \in {"QUEUED", "FAILED"}
      BY <1>4, <2>2 DEF Mutate, Allowed
    <3>2. jobs' = [jobs EXCEPT ![m.job] = Retried(@)] \/ jobs' = [jobs EXCEPT ![m.job] = Cancelled(@)]
      BY <1>4, <2>2 DEF Mutate
    <3>3. Retried(jobs[k]).version = jobs[k].version + 1
          /\ Cancelled(jobs[k]).version = jobs[k].version + 1
      BY <1>0 DEF Retried, Cancelled, NewJob, Job
    <3> QED
      BY <1>0, <3>1, <3>2, <3>3
  <2> QED
    BY <2>1, <2>2
<1>5. CASE UNCHANGED jobs
  BY <1>0, <1>5
<1> QED
  BY <1>1, <1>2, <1>3, <1>4, <1>5
  DEF PrintNext, PrintSucceeds, PrintFails, ReportTimesOut, Die, DropReport, Assign, Decide,
      dbVars, printVars

\* A decision is made on the job as it is, and taken off once it was tried.
LEMMA DecisionsKept == ASSUME PrintInv, [PrintNext]_printVars PROVE DecisionInv'
<1> USE DEF PrintInv, DecisionInv, DecisionsTyped, DecisionsKnowTheirJob
<1>1. CASE decisions' \subseteq decisions /\ decided' = decided
  <2>1. ASSUME NEW m \in decisions'
       PROVE  /\ m.version <= jobs'[m.job].version
              /\ m.version = jobs'[m.job].version => m.shown = jobs'[m.job].status
    <3> DEFINE k == m.job
    <3>1. m \in decisions /\ k \in Jobs /\ m.version \in Nat
      BY <1>1
    <3>2. jobs[k].version \in Nat /\ jobs'[k].version \in Nat
      BY <3>1, RowsKept DEF RowInv, RowsTyped, Job
    <3>3. /\ jobs'[k].version >= jobs[k].version
          /\ jobs'[k].version = jobs[k].version => jobs'[k].status = jobs[k].status
      BY <3>1, VersionsGrow
    <3>4. /\ m.version <= jobs[k].version
          /\ m.version = jobs[k].version => m.shown = jobs[k].status
      BY <3>1
    <3> HIDE DEF k
    <3> QED
      BY <3>1, <3>2, <3>3, <3>4 DEF k
  <2> QED
    BY <1>1, <2>1
<1>2. ASSUME NEW j \in Jobs, NEW action \in {"RETRY", "CANCEL"}, Decide(j, action)
     PROVE  DecisionInv'
  BY <1>2, PrintAssumption DEF Decide, dbVars, RowInv, RowsTyped, Job
<1> QED
  BY <1>1, <1>2
  DEF PrintNext, EnqueueDocument, LeaseLapses, BackoffEnds, Claim, PrintSucceeds, PrintFails,
      ReportTimesOut, Die, Complete, Fail, DropReport, Assign, Mutate, printVars

-----------------------------------------------------------------------------
\* At first nothing was requested, claimed, reported or decided.
LEMMA PrintInvInit == ASSUME PrintInit PROVE PrintInv
<1> USE PrintAssumption, NoneAssumption DEF PrintInit
<1>1. NewJob \in Job /\ NoAttempt \in Attempt
  BY DEF NewJob, Job, JobStatus, NoAttempt, Attempt, Outcomes
<1>2. RowInv
  BY <1>1 DEF RowInv, RowsTyped, JobSound, LastLease, NewJob, NoAttempt
<1>3. AgentInv
  BY DEF AgentInv, AgentsTyped, AgentsHaveJobs, ReportedJobsWerePrinted, Polling, Phases
<1>4. DecisionInv
  BY DEF DecisionInv, DecisionsTyped, DecisionsKnowTheirJob
<1> QED
  BY <1>2, <1>3, <1>4 DEF PrintInv

\* The invariant is inductive.
LEMMA PrintInvKept == ASSUME PrintInv, [PrintNext]_printVars PROVE PrintInv'
BY AgentsKept, RowsKept, DecisionsKept DEF PrintInv

\* What the rows say of each job is what JobsMatchTheirHistory says of all.
LEMMA RowsMatchHistory == ASSUME RowInv PROVE JobsMatchTheirHistory
<1>1. ASSUME NEW j \in Jobs
     PROVE  /\ AttemptsOf(j, "CLAIMED") = IF jobs[j].status = "CLAIMED" THEN {jobs[j].token} ELSE {}
            /\ AttemptsOf(j, "COMPLETED") = IF jobs[j].status = "COMPLETED" THEN {jobs[j].token} ELSE {}
            /\ jobs[j].status = "CLAIMED" => attempts[jobs[j].token].device = jobs[j].device
  BY DEF RowInv, JobSound, LastLease, AttemptsOf
<1>2. AttemptsMatchJobs
  BY <1>1 DEF AttemptsMatchJobs
<1>3. QueuedJobsCanBeClaimed /\ CompletedJobsWerePrinted
  BY DEF RowInv, JobSound, QueuedJobsCanBeClaimed, CompletedJobsWerePrinted
<1> QED
  BY <1>2, <1>3 DEF JobsMatchTheirHistory

(***************************************************************************)
(* For any number of documents, devices, leases and losses the queue and   *)
(* its history agree, nothing is queued with its attempts used up, and     *)
(* nothing is called completed that is not on paper.                       *)
(***************************************************************************)
THEOREM QueueMatchesHistory == PrintSpec => []JobsMatchTheirHistory
<1>1. PrintInit => PrintInv
  BY PrintInvInit
<1>2. PrintInv /\ [PrintNext]_printVars => PrintInv'
  BY PrintInvKept
<1>3. PrintInv => JobsMatchTheirHistory
  BY RowsMatchHistory DEF PrintInv
<1> QED
  BY <1>1, <1>2, <1>3, PTL DEF PrintSpec

(***************************************************************************)
(* A job completed or cancelled is never touched again, and a decision     *)
(* that applies is one about the status its maker was shown.               *)
(***************************************************************************)
THEOREM JobsStayConcluded == PrintSpec => ConcludedStaysConcluded
<1> DEFINE Step == /\ \A j \in Jobs : jobs[j].status \in {"COMPLETED", "CANCELLED"} => jobs'[j] = jobs[j]
                   /\ \A m \in decisions \ decisions' :
                        jobs' # jobs => jobs[m.job].status = m.shown
<1>1. ASSUME PrintInv, [PrintNext]_printVars
     PROVE  Step
  <2>1. ASSUME NEW n \in decisions \ decisions', jobs' # jobs
       PROVE  jobs[n.job].status = n.shown
    <3>1. PICK m \in decisions : Mutate(m)
      BY <1>1, <2>1
      DEF PrintNext, EnqueueDocument, LeaseLapses, BackoffEnds, Claim, PrintSucceeds, PrintFails,
          ReportTimesOut, Die, Complete, Fail, DropReport, Assign, Decide, printVars
    <3>2. n = m /\ VersionShown(n)
      BY <2>1, <3>1 DEF Mutate
    <3> QED
      BY <1>1, <2>1, <3>2 DEF PrintInv, DecisionInv, DecisionsKnowTheirJob, VersionShown
  <2> QED
    BY <1>1, <2>1, VersionsGrow
<1>2. PrintInv /\ [PrintNext]_printVars => [Step]_printVars
  BY <1>1
<1>3. PrintInit => PrintInv
  BY PrintInvInit
<1>4. PrintInv /\ [PrintNext]_printVars => PrintInv'
  BY PrintInvKept
<1> QED
  BY <1>2, <1>3, <1>4, PTL DEF PrintSpec, ConcludedStaysConcluded

-----------------------------------------------------------------------------
(***************************************************************************)
(* What is proved about card payments: whichever till asks and whatever is *)
(* lost, what the terminal charged and what the bill says agree.           *)
(*                                                                         *)
(* A request that decides on a payment was sent because of an answer the   *)
(* terminal never takes back, or by a person; it is about a payment of a   *)
(* copy of the bill, which only grows; and a copy is as old as it may be,  *)
(* because the API checks every request with the rows it finds.            *)
(***************************************************************************)
PaymentRow ==
  [provider : {"CASH", "EXTERNAL", "MANUAL"}, amount : Nat,
   status : {"PENDING", "CAPTURED", "FAILED", "CANCELLED"}]
BillRow == [status : {"NONE", "OPEN", "COMPLETED", "CANCELLED"}, payments : Seq(PaymentRow)]

Cards(b, hand) == {p \in DOMAIN b.payments : b.payments[p].provider = "EXTERNAL"} \ hand

\* What the terminal did with a card and what the bill says of it.
CardsFit(b, told, hand) ==
  \A p \in Cards(b, hand) :
    /\ b.payments[p].status = "PENDING"
         \/ (b.payments[p].status = "CAPTURED" /\ told[p] = "APPROVED")
         \/ (b.payments[p].status = "FAILED" /\ told[p] = "DECLINED")

BillAddsUp(b) ==
  /\ Sum(b, {"PENDING", "CAPTURED"}) <= Total
  /\ b.status = "COMPLETED" => Sum(b, {"CAPTURED"}) = Total

BillSound(b, told, hand) ==
  /\ b \in BillRow /\ Len(b.payments) <= MaxPayments
  /\ CardsFit(b, told, hand) /\ BillAddsUp(b)

RequestSound(r, b, told, hand) ==
  \/ r.op = "OPEN"
  \/ r.op = "CREATE" /\ r.provider \in {"CASH", "EXTERNAL", "MANUAL"} /\ r.amount \in Nat
  \/ r.op = "CANCEL_BILL" /\ hand = PaymentIds
  \/ /\ r.op \in {"CAPTURED", "FAILED", "CANCELLED"} /\ r.payment \in DOMAIN b.payments
     /\ \/ r.payment \in hand
        \/ r.op = "CAPTURED" /\ told[r.payment] = "APPROVED"
        \/ r.op = "FAILED" /\ told[r.payment] = "DECLINED"

TillsTyped ==
  /\ terminal \in [PaymentIds -> {"IDLE", "ASKED", "APPROVED", "DECLINED"}]
  /\ byHand \subseteq PaymentIds
  /\ screen \in [Tills -> BillRow]
  /\ DOMAIN due = Tills
  /\ bridged \in [Tills -> Nat]

CopiesFit ==
  \A d \in Tills : /\ Len(screen[d].payments) <= Len(bill.payments)
                   /\ bridged[d] <= Len(bill.payments)

StraysSound == \A r \in strays : RequestSound(r, bill, terminal, byHand)

CardInv ==
  /\ TillsTyped /\ BillSound(bill, terminal, byHand) /\ CopiesFit /\ StraysSound

-----------------------------------------------------------------------------
(* Amounts *)

Owed(s, S) ==
  [p \in PaymentIds |-> IF p \in DOMAIN s /\ s[p].status \in S THEN s[p].amount ELSE 0]
Money(s, S) == SumFunctionOnSet(Owed(s, S), PaymentIds)

\* The payments of a bill are among the identifiers there are.
LEMMA PaymentsNumbered ==
  ASSUME NEW s \in Seq(PaymentRow), Len(s) <= MaxPayments
  PROVE  /\ DOMAIN s = 1..Len(s) /\ DOMAIN s \subseteq PaymentIds /\ Len(s) \in Nat
         /\ \A p \in DOMAIN s : s[p] \in PaymentRow
         /\ IsFiniteSet(PaymentIds) /\ MaxPayments \in Nat /\ Total \in Nat
<1>1. MaxPayments \in Nat /\ Total \in Nat
  BY CardAssumption
<1>2. IsFiniteSet(PaymentIds)
  BY <1>1, FS_Interval DEF PaymentIds
<1> QED
  BY <1>1, <1>2 DEF PaymentIds

\* What the payments in some states come to, as a sum over all identifiers.
LEMMA MoneyOfBill ==
  ASSUME NEW b, NEW S, b.payments \in Seq(PaymentRow), Len(b.payments) <= MaxPayments
  PROVE  /\ Sum(b, S) = Money(b.payments, S) /\ Sum(b, S) \in Nat
         /\ \A p \in PaymentIds : Owed(b.payments, S)[p] \in Nat
<1> DEFINE f == [p \in WithStatus(b, S) |-> b.payments[p].amount]
           g == Owed(b.payments, S)
<1>1. /\ DOMAIN b.payments \subseteq PaymentIds /\ IsFiniteSet(PaymentIds)
      /\ \A p \in DOMAIN b.payments : b.payments[p].amount \in Nat
  BY PaymentsNumbered DEF PaymentRow
<1>2. \A p \in PaymentIds : g[p] \in Nat
  BY <1>1 DEF Owed
<1>3. WithStatus(b, S) \in SUBSET PaymentIds
  BY <1>1 DEF WithStatus
<1>4. \A p \in WithStatus(b, S) : f[p] \in Int /\ g[p] = f[p]
  BY <1>1, <1>3 DEF Owed, WithStatus
<1>5. \A p \in PaymentIds \ WithStatus(b, S) : g[p] = 0
  BY DEF Owed, WithStatus
<1>6. SumFunction(f) = SumFunctionOnSet(g, PaymentIds)
  BY <1>1, <1>3, <1>4, <1>5, SumSelected
<1>7. SumFunctionOnSet(g, PaymentIds) \in Nat
  BY <1>1, <1>2, SumIsNat
<1> QED
  BY <1>2, <1>6, <1>7 DEF Sum, Money

\* One row more, or one row changed, changes the sum by that row.
LEMMA MoneyChanges ==
  ASSUME NEW s \in Seq(PaymentRow), NEW t \in Seq(PaymentRow), NEW S, NEW x \in PaymentIds,
         Len(s) <= MaxPayments, Len(t) <= MaxPayments,
         \A p \in PaymentIds \ {x} :
           /\ p \in DOMAIN t <=> p \in DOMAIN s
           /\ p \in DOMAIN s => t[p] = s[p]
  PROVE  /\ Money(t, S) = Money(s, S) - Owed(s, S)[x] + Owed(t, S)[x]
         /\ Money(s, S) \in Nat /\ Money(t, S) \in Nat
<1> DEFINE f == Owed(s, S)
           g == Owed(t, S)
<1>1. IsFiniteSet(PaymentIds)
  BY PaymentsNumbered
<1>2. \A p \in PaymentIds : f[p] \in Nat /\ g[p] \in Nat
  BY PaymentsNumbered DEF Owed, PaymentRow
<1>3. \A p \in PaymentIds \ {x} : g[p] = f[p]
  BY DEF Owed
<1>4. SumFunctionOnSet(g, PaymentIds) = SumFunctionOnSet(f, PaymentIds) - f[x] + g[x]
  BY <1>1, <1>2, <1>3, SumChange
<1>5. SumFunctionOnSet(f, PaymentIds) \in Nat /\ SumFunctionOnSet(g, PaymentIds) \in Nat
  BY <1>1, <1>2, SumIsNat
<1> QED
  BY <1>4, <1>5 DEF Money

\* Fewer payments count: the sum does not grow.
LEMMA MoneyShrinks ==
  ASSUME NEW s \in Seq(PaymentRow), NEW t \in Seq(PaymentRow), NEW S, NEW T,
         Len(s) <= MaxPayments, Len(t) <= MaxPayments,
         \A p \in PaymentIds : Owed(t, T)[p] <= Owed(s, S)[p]
  PROVE  Money(t, T) <= Money(s, S)
<1> DEFINE f == Owed(s, S)
           g == Owed(t, T)
<1>1. IsFiniteSet(PaymentIds)
  BY PaymentsNumbered
<1>2. \A p \in PaymentIds : f[p] \in Nat /\ g[p] \in Nat
  BY PaymentsNumbered DEF Owed, PaymentRow
<1>3. SumFunctionOnSet(g, PaymentIds) <= SumFunctionOnSet(f, PaymentIds)
  BY <1>1, <1>2, SumMonotone
<1> QED
  BY <1>3 DEF Money

\* The status of the bill follows what was captured.
LEMMA PaidSound ==
  ASSUME NEW b \in BillRow, NEW told, NEW hand, Len(b.payments) <= MaxPayments,
         b.status = "OPEN", CardsFit(b, told, hand), Sum(b, {"PENDING", "CAPTURED"}) <= Total
  PROVE  /\ BillSound(PaidIfCovered(b), told, hand)
         /\ PaidIfCovered(b).payments = b.payments
<1>1. CASE Sum(b, {"CAPTURED"}) # Total
  BY <1>1 DEF PaidIfCovered, BillSound, BillAddsUp
<1>2. CASE Sum(b, {"CAPTURED"}) = Total
  <2> DEFINE c == [b EXCEPT !.status = "COMPLETED"]
  <2>1. PaidIfCovered(b) = c
    BY <1>2 DEF PaidIfCovered
  <2>2. c \in BillRow /\ c.payments = b.payments
    BY DEF BillRow
  <2>3. Sum(c, {"PENDING", "CAPTURED"}) = Sum(b, {"PENDING", "CAPTURED"})
    BY <2>2, MoneyOfBill DEF BillRow
  <2>4. Sum(c, {"CAPTURED"}) = Sum(b, {"CAPTURED"})
    BY <2>2, MoneyOfBill DEF BillRow
  <2>5. CardsFit(c, told, hand)
    BY <2>2 DEF CardsFit, Cards
  <2> QED
    BY <1>2, <2>1, <2>2, <2>3, <2>4, <2>5 DEF BillSound, BillAddsUp
<1> QED
  BY <1>1, <1>2

-----------------------------------------------------------------------------
(* What the API does of a sound request *)

LEMMA OpenSound ==
  ASSUME NEW told, NEW hand, BillSound(bill, told, hand), NEW r, r.op = "OPEN", Granted(r)
  PROVE  /\ BillSound(Result(r), told, hand)
         /\ Len(bill.payments) <= Len(Result(r).payments)
<1> DEFINE c == [bill EXCEPT !.status = "OPEN"]
<1>1. Result(r) = c
  BY DEF Result
<1>2. c \in BillRow /\ c.payments = bill.payments /\ c.status = "OPEN"
  BY DEF BillRow, BillSound
<1>3. Sum(c, {"PENDING", "CAPTURED"}) = Sum(bill, {"PENDING", "CAPTURED"})
  BY <1>2, MoneyOfBill DEF BillRow, BillSound
<1>4. CardsFit(c, told, hand)
  BY <1>2 DEF CardsFit, Cards, BillSound
<1>5. Len(bill.payments) \in Nat
  BY DEF BillSound, BillRow
<1> QED
  BY <1>1, <1>2, <1>3, <1>4, <1>5 DEF BillSound, BillAddsUp

LEMMA CreateSound ==
  ASSUME NEW told, NEW hand, BillSound(bill, told, hand), NEW r, r.op = "CREATE",
         r.provider \in {"CASH", "EXTERNAL", "MANUAL"}, r.amount \in Nat, Granted(r)
  PROVE  /\ BillSound(Result(r), told, hand)
         /\ Len(bill.payments) <= Len(Result(r).payments)
<1> DEFINE s == bill.payments
           t == Created(r)
           x == Len(s) + 1
           c == [bill EXCEPT !.payments = t]
           row == [provider |-> r.provider, amount |-> r.amount,
                   status |-> IF r.provider = "CASH" THEN "CAPTURED" ELSE "PENDING"]
           live == {"PENDING", "CAPTURED"}
<1>1. /\ bill \in BillRow /\ s \in Seq(PaymentRow) /\ Len(s) \in Nat /\ MaxPayments \in Nat
      /\ bill.status = "OPEN" /\ Len(s) < MaxPayments /\ r.amount <= Total - Sum(bill, live)
  <2>1. bill \in BillRow /\ s \in Seq(PaymentRow) /\ MaxPayments \in Nat
    BY CardAssumption DEF BillSound, BillRow
  <2>2. bill.status = "OPEN" /\ Len(s) < MaxPayments /\ r.amount <= Total - Sum(bill, live)
    BY DEF Granted, Outdated, AvailableOn
  <2> QED
    BY <2>1, <2>2
<1>2. /\ t \in Seq(PaymentRow) /\ Len(t) = x /\ t[x] = row
      /\ \A p \in 1..Len(s) : t[p] = s[p]
  BY <1>1 DEF Created, PaymentRow
<1>3. c \in BillRow /\ c.payments = t /\ c.status = "OPEN"
  BY <1>1, <1>2 DEF BillRow
<1>4. CardsFit(c, told, hand)
  <2> SUFFICES ASSUME NEW p \in Cards(c, hand)
               PROVE  \/ t[p].status = "PENDING"
                      \/ t[p].status = "CAPTURED" /\ told[p] = "APPROVED"
                      \/ t[p].status = "FAILED" /\ told[p] = "DECLINED"
    BY <1>3 DEF CardsFit
  <2>1. p \in 1..x /\ t[p].provider = "EXTERNAL" /\ p \notin hand
    BY <1>1, <1>2, <1>3 DEF Cards
  <2>2. CASE p = x
    BY <1>2, <2>1, <2>2
  <2>3. CASE p # x
    <3>1. p \in 1..Len(s)
      BY <1>1, <2>1, <2>3
    <3>2. p \in Cards(bill, hand) /\ t[p] = s[p]
      BY <1>1, <1>2, <2>1, <3>1 DEF Cards
    <3> QED
      BY <3>2 DEF CardsFit, BillSound
  <2> QED
    BY <2>2, <2>3
<1>5. Money(t, live) = Money(s, live) - Owed(s, live)[x] + Owed(t, live)[x]
  <2>1. x \in PaymentIds
    BY <1>1 DEF PaymentIds
  <2>2. Len(t) <= MaxPayments /\ Len(s) <= MaxPayments
    BY <1>1, <1>2
  <2>3. \A p \in PaymentIds \ {x} :
          (p \in DOMAIN t <=> p \in DOMAIN s) /\ (p \in DOMAIN s => t[p] = s[p])
    BY <1>1, <1>2 DEF PaymentIds
  <2> QED
    BY <1>1, <1>2, <2>1, <2>2, <2>3, MoneyChanges
<1>6. Owed(s, live)[x] = 0 /\ Owed(t, live)[x] = r.amount
  BY <1>1, <1>2 DEF Owed, PaymentIds
<1>7. Sum(c, live) <= Total
  <2>1. Sum(c, live) = Money(t, live) /\ Sum(bill, live) = Money(s, live)
        /\ Sum(bill, live) \in Nat /\ Sum(c, live) \in Nat /\ Total \in Nat
    <3>1. c.payments \in Seq(PaymentRow) /\ Len(c.payments) <= MaxPayments
      BY <1>1, <1>2, <1>3
    <3>2. bill.payments \in Seq(PaymentRow) /\ Len(bill.payments) <= MaxPayments
      BY <1>1
    <3>3. Sum(c, live) = Money(c.payments, live) /\ Sum(c, live) \in Nat
      BY <3>1, MoneyOfBill
    <3>4. Sum(bill, live) = Money(bill.payments, live) /\ Sum(bill, live) \in Nat
      BY <3>2, MoneyOfBill
    <3> QED
      BY <1>3, <3>3, <3>4, CardAssumption
  <2> HIDE DEF s, t, x, c, row, live
  <2> QED
    BY <1>1, <1>5, <1>6, <2>1
<1>8. Result(r) = PaidIfCovered(c)
  BY DEF Result
<1>9. Len(c.payments) <= MaxPayments /\ Len(s) <= Len(c.payments)
  BY <1>1, <1>2, <1>3
<1> HIDE DEF s, t, x, c, row, live
<1>10. BillSound(PaidIfCovered(c), told, hand) /\ PaidIfCovered(c).payments = c.payments
  BY <1>3, <1>4, <1>7, <1>9, PaidSound DEF live
<1> QED
  BY <1>8, <1>9, <1>10 DEF s
\* A row with another status.
WithNewStatus(row, status) == [row EXCEPT !.status = status]

LEMMA StatusChanges ==
  ASSUME NEW row \in PaymentRow,
         NEW status \in {"PENDING", "CAPTURED", "FAILED", "CANCELLED"}
  PROVE  /\ WithNewStatus(row, status) \in PaymentRow
         /\ WithNewStatus(row, status).status = status
         /\ WithNewStatus(row, status).amount = row.amount
         /\ WithNewStatus(row, status).provider = row.provider
  BY DEF PaymentRow, WithNewStatus

\* A decision on a payment that is still pending.
LEMMA DecisionSound ==
  ASSUME NEW told, NEW hand, BillSound(bill, told, hand), NEW r,
         r.op \in {"CAPTURED", "FAILED", "CANCELLED"}, r.payment \in DOMAIN bill.payments,
         \/ r.payment \in hand
         \/ r.op = "CAPTURED" /\ told[r.payment] = "APPROVED"
         \/ r.op = "FAILED" /\ told[r.payment] = "DECLINED",
         Granted(r)
  PROVE  /\ BillSound(Result(r), told, hand)
         /\ Len(bill.payments) <= Len(Result(r).payments)
<1> DEFINE s == bill.payments
           x == r.payment
           c == [bill EXCEPT !.payments[x].status = r.op]
           t == c.payments
           live == {"PENDING", "CAPTURED"}
<1>1. /\ bill \in BillRow /\ s \in Seq(PaymentRow) /\ Len(s) \in Nat /\ MaxPayments \in Nat
      /\ Len(s) <= MaxPayments /\ x \in 1..Len(s) /\ Total \in Nat
  BY CardAssumption DEF BillSound, BillRow
<1>2. bill.status = "OPEN" /\ s[x].status = "PENDING"
  BY DEF Granted, Outdated
<1>3. /\ t = [s EXCEPT ![x].status = r.op] /\ c.status = "OPEN"
      /\ c = [bill EXCEPT !.payments = t]
  BY <1>1, <1>2 DEF BillRow
<1>4. s[x] \in PaymentRow /\ WithNewStatus(s[x], r.op) \in PaymentRow
  BY <1>1, PaymentsNumbered, StatusChanges
<1>5. /\ t \in Seq(PaymentRow) /\ Len(t) = Len(s)
      /\ t[x] = WithNewStatus(s[x], r.op)
      /\ \A p \in 1..Len(s) : p # x => t[p] = s[p]
  <2>1. t = [s EXCEPT ![x] = WithNewStatus(s[x], r.op)]
    BY <1>3 DEF WithNewStatus
  <2> HIDE DEF t
  <2> QED
    BY <1>1, <1>4, <2>1
<1>6. c \in BillRow
  BY <1>1, <1>3, <1>5 DEF BillRow
<1>7. CardsFit(c, told, hand)
  <2> SUFFICES ASSUME NEW p \in Cards(c, hand)
               PROVE  \/ t[p].status = "PENDING"
                      \/ t[p].status = "CAPTURED" /\ told[p] = "APPROVED"
                      \/ t[p].status = "FAILED" /\ told[p] = "DECLINED"
    BY DEF CardsFit
  <2>1. p \in 1..Len(s) /\ t[p].provider = "EXTERNAL" /\ p \notin hand
    BY <1>1, <1>5 DEF Cards
  <2>2. CASE p = x
    <3>1. t[p].status = r.op
      BY <1>4, <1>5, <2>2, StatusChanges
    <3> QED
      BY <2>1, <2>2, <3>1
  <2>3. CASE p # x
    <3>1. p \in Cards(bill, hand) /\ t[p] = s[p]
      BY <1>1, <1>5, <2>1, <2>3 DEF Cards
    <3> QED
      BY <3>1 DEF CardsFit, BillSound
  <2> QED
    BY <2>2, <2>3
<1>8. Money(t, live) = Money(s, live) - Owed(s, live)[x] + Owed(t, live)[x]
      /\ Money(s, live) \in Nat
  <2>1. x \in PaymentIds
    BY <1>1 DEF PaymentIds
  <2>2. Len(t) <= MaxPayments /\ Len(s) <= MaxPayments
    BY <1>1, <1>5
  <2>3. \A p \in PaymentIds \ {x} :
          (p \in DOMAIN t <=> p \in DOMAIN s) /\ (p \in DOMAIN s => t[p] = s[p])
    BY <1>1, <1>5
  <2>4. t \in Seq(PaymentRow) /\ s \in Seq(PaymentRow)
    BY <1>1, <1>5
  <2> HIDE DEF s, t, x, c, live
  <2> QED
    BY <2>1, <2>2, <2>3, <2>4, MoneyChanges
<1>9. Owed(s, live)[x] = s[x].amount /\ Owed(t, live)[x] \in {0, s[x].amount}
      /\ s[x].amount \in Nat
  <2>1. t[x].amount = s[x].amount /\ s[x].amount \in Nat
    BY <1>4, <1>5, StatusChanges DEF PaymentRow
  <2>2. x \in PaymentIds /\ x \in DOMAIN s /\ x \in DOMAIN t
    BY <1>1, <1>5 DEF PaymentIds
  <2> HIDE DEF s, t, x, c
  <2> QED
    BY <1>2, <2>1, <2>2 DEF Owed
<1>10. Len(c.payments) <= MaxPayments /\ Len(s) <= Len(c.payments)
  BY <1>1, <1>5
<1>11. Sum(c, live) <= Total
  <2>1. Sum(c, live) = Money(t, live) /\ Sum(c, live) \in Nat
    BY <1>5, <1>10, MoneyOfBill
  <2>2. Sum(bill, live) = Money(s, live)
    BY <1>1, MoneyOfBill
  <2>3. Sum(bill, live) <= Total
    BY DEF BillSound, BillAddsUp
  <2> HIDE DEF s, t, x, c, live
  <2> QED
    BY <1>1, <1>8, <1>9, <2>1, <2>2, <2>3
<1>12. Result(r) = PaidIfCovered(c)
  BY DEF Result
<1>13. c \in BillRow /\ c.status = "OPEN"
  BY <1>3, <1>6
<1> HIDE DEF s, t, x, c, live
<1>14. BillSound(PaidIfCovered(c), told, hand) /\ PaidIfCovered(c).payments = c.payments
  BY <1>7, <1>10, <1>11, <1>13, PaidSound DEF live
<1> QED
  BY <1>10, <1>12, <1>14 DEF s

\* The bill is cancelled with what is pending: somebody decided on all of it.
LEMMA CancelBillSound ==
  ASSUME NEW told, NEW hand, BillSound(bill, told, hand), NEW r, r.op = "CANCEL_BILL",
         hand = PaymentIds
  PROVE  /\ BillSound(Result(r), told, hand)
         /\ Len(bill.payments) <= Len(Result(r).payments)
<1> DEFINE s == bill.payments
           t == AllCancelled
           c == [status |-> "CANCELLED", payments |-> t]
           live == {"PENDING", "CAPTURED"}
<1>1. /\ s \in Seq(PaymentRow) /\ Len(s) \in Nat /\ MaxPayments \in Nat
      /\ Len(s) <= MaxPayments /\ Total \in Nat
  BY CardAssumption DEF BillSound, BillRow
<1>2. /\ t = [p \in 1..Len(s) |-> t[p]]
      /\ \A p \in 1..Len(s) :
           t[p] = IF s[p].status = "PENDING" THEN WithNewStatus(s[p], "CANCELLED") ELSE s[p]
  BY <1>1 DEF AllCancelled, WithStatus, WithNewStatus
<1>3. \A p \in 1..Len(s) :
        /\ s[p] \in PaymentRow /\ t[p] \in PaymentRow /\ t[p].amount = s[p].amount
        /\ t[p].status \in {"CANCELLED", s[p].status}
  <2> SUFFICES ASSUME NEW p \in 1..Len(s)
               PROVE  /\ s[p] \in PaymentRow /\ t[p] \in PaymentRow
                      /\ t[p].amount = s[p].amount /\ t[p].status \in {"CANCELLED", s[p].status}
    OBVIOUS
  <2>1. s[p] \in PaymentRow
    BY <1>1, PaymentsNumbered
  <2> HIDE DEF s, t
  <2> QED
    BY <1>2, <2>1, StatusChanges
<1>4. t \in Seq(PaymentRow) /\ Len(t) = Len(s) /\ DOMAIN t = 1..Len(s)
  <2> HIDE DEF s, t
  <2> QED
    BY <1>1, <1>2, <1>3
<1>5. c \in BillRow /\ Len(c.payments) <= MaxPayments /\ Len(s) <= Len(c.payments)
  BY <1>1, <1>4 DEF BillRow
<1>6. CardsFit(c, told, hand)
  BY <1>1, <1>4, PaymentsNumbered DEF CardsFit, Cards
<1>7. \A p \in PaymentIds : Owed(t, live)[p] <= Owed(s, live)[p]
  <2> SUFFICES ASSUME NEW p \in PaymentIds PROVE Owed(t, live)[p] <= Owed(s, live)[p]
    OBVIOUS
  <2> HIDE DEF s, t
  <2>1. CASE p \notin 1..Len(s)
    BY <1>1, <1>4, <2>1 DEF Owed
  <2>2. CASE p \in 1..Len(s)
    <3>1. s[p].amount \in Nat /\ t[p].amount = s[p].amount
          /\ t[p].status \in {"CANCELLED", s[p].status}
      BY <1>3, <2>2 DEF PaymentRow
    <3> QED
      BY <1>1, <1>4, <2>2, <3>1 DEF Owed
  <2> QED
    BY <2>1, <2>2
<1>8. Money(t, live) <= Money(s, live)
  BY <1>1, <1>4, <1>7, MoneyShrinks
<1>9. Sum(c, live) = Money(t, live) /\ Sum(c, live) \in Nat
  BY <1>4, <1>5, MoneyOfBill
<1>10. Sum(bill, live) = Money(s, live) /\ Sum(bill, live) \in Nat
  BY <1>1, MoneyOfBill
<1>11. Sum(c, live) <= Total
  BY <1>1, <1>8, <1>9, <1>10 DEF BillSound, BillAddsUp
<1>12. Result(r) = c
  BY DEF Result
<1> QED
  BY <1>5, <1>6, <1>11, <1>12 DEF BillSound, BillAddsUp

\* A sound request leaves the bill sound, and no payment of it is lost.
LEMMA CarrySound ==
  ASSUME NEW told, NEW hand, BillSound(bill, told, hand), NEW r,
         RequestSound(r, bill, told, hand), Carry(r)
  PROVE  /\ BillSound(bill', told, hand)
         /\ Len(bill.payments) <= Len(bill'.payments)
<1>1. CASE ~ Granted(r)
  BY <1>1 DEF Carry, BillSound, BillRow
<1>2. CASE Granted(r)
  <2>1. bill' = Result(r)
    BY <1>2 DEF Carry
  <2> QED
    BY <1>2, <2>1, OpenSound, CreateSound, DecisionSound, CancelBillSound DEF RequestSound
<1> QED
  BY <1>1, <1>2
-----------------------------------------------------------------------------
(* The steps *)

\* The terminal takes no outcome back.
OutcomesStand(told, later) ==
  \A p \in PaymentIds : told[p] \in {"APPROVED", "DECLINED"} => later[p] = told[p]

LEMMA BillStaysSound ==
  ASSUME NEW b, NEW told, NEW hand, BillSound(b, told, hand),
         NEW later, NEW hands, OutcomesStand(told, later), hand \subseteq hands
  PROVE  BillSound(b, later, hands)
<1>1. DOMAIN b.payments \subseteq PaymentIds
  BY PaymentsNumbered DEF BillSound, BillRow
<1>2. CardsFit(b, later, hands)
  BY <1>1 DEF CardsFit, Cards, BillSound, OutcomesStand
<1> QED
  BY <1>2 DEF BillSound

LEMMA RequestStaysSound ==
  ASSUME NEW r, NEW b \in BillRow, NEW told, NEW hand, RequestSound(r, b, told, hand),
         NEW c \in BillRow, NEW later, NEW hands, OutcomesStand(told, later),
         hand \subseteq hands, hands \subseteq PaymentIds,
         Len(b.payments) <= Len(c.payments), Len(b.payments) <= MaxPayments
  PROVE  RequestSound(r, c, later, hands)
<1>1. /\ DOMAIN b.payments \subseteq DOMAIN c.payments
      /\ DOMAIN b.payments \subseteq PaymentIds
  BY PaymentsNumbered DEF BillRow
<1> QED
  BY <1>1 DEF RequestSound, OutcomesStand

\* A till sends a sound request.
LEMMA SendSound ==
  ASSUME CardInv, NEW d \in Tills, NEW r, RequestSound(r, bill, terminal, byHand'),
         byHand \subseteq byHand', byHand' \subseteq PaymentIds, Send(d, r),
         bridged' \in [Tills -> Nat], \A e \in Tills : bridged'[e] \in {0, bridged[e]}
  PROVE  CardInv'
<1>1. OutcomesStand(terminal, terminal') /\ terminal' = terminal /\ screen' = screen
  BY DEF Send, OutcomesStand
<1>2. BillSound(bill, terminal, byHand')
  BY <1>1, BillStaysSound DEF CardInv
<1>3. BillSound(bill', terminal, byHand') /\ Len(bill.payments) <= Len(bill'.payments)
  <2>1. CASE Carry(r)
    BY <1>2, <2>1, CarrySound
  <2>2. CASE bill' = bill
    BY <1>2, <2>2 DEF BillSound, BillRow
  <2> QED
    BY <2>1, <2>2 DEF Send
<1>4. /\ bill \in BillRow /\ bill' \in BillRow /\ Len(bill.payments) <= MaxPayments
      /\ Len(bill.payments) \in Nat /\ Len(bill'.payments) \in Nat
  BY <1>3 DEF CardInv, BillSound, BillRow
<1>5. TillsTyped'
  BY <1>1 DEF CardInv, TillsTyped, Send
<1>6. CopiesFit'
  <2>1. \A e \in Tills : Len(screen[e].payments) \in Nat /\ bridged[e] \in Nat
    BY DEF CardInv, TillsTyped, BillRow
  <2> QED
    BY <1>1, <1>3, <1>4, <2>1 DEF CardInv, CopiesFit
<1>7. StraysSound'
  <2> SUFFICES ASSUME NEW q \in strays' PROVE RequestSound(q, bill', terminal', byHand')
    BY DEF StraysSound
  <2>1. RequestSound(q, bill, terminal, byHand')
    <3>1. CASE q \in strays
      BY <1>1, <1>4, <3>1, RequestStaysSound DEF CardInv, StraysSound
    <3>2. CASE q \notin strays
      BY <3>2 DEF Send
    <3> QED
      BY <3>1, <3>2
  <2> QED
    BY <1>1, <1>3, <1>4, <2>1, RequestStaysSound
<1> QED
  BY <1>1, <1>3, <1>5, <1>6, <1>7 DEF CardInv

\* A payment of a copy is a payment of the bill.
LEMMA CopiedPayments ==
  ASSUME CardInv, NEW d \in Tills
  PROVE  /\ DOMAIN screen[d].payments \subseteq DOMAIN bill.payments
         /\ bridged[d] # 0 => bridged[d] \in DOMAIN bill.payments
         /\ DOMAIN bill.payments = 1..Len(bill.payments)
         /\ Len(bill.payments) \in Nat /\ Len(bill.payments) <= MaxPayments
<1>1. /\ screen[d].payments \in Seq(PaymentRow) /\ bill.payments \in Seq(PaymentRow)
      /\ Len(screen[d].payments) <= Len(bill.payments) /\ Len(bill.payments) <= MaxPayments
      /\ bridged[d] \in Nat /\ bridged[d] <= Len(bill.payments)
  BY DEF CardInv, TillsTyped, BillSound, BillRow, CopiesFit
<1> QED
  BY <1>1

LEMMA AsksSound ==
  ASSUME CardInv, NEW d \in Tills,
         \/ OpenForOrder(d) \/ CancelBill(d)
         \/ \E amount \in 1..Total : AddCashPayment(d, amount)
         \/ \E provider \in {"EXTERNAL", "MANUAL"} : StartCardPayment(d, provider)
         \/ \E p \in PaymentIds, op \in {"CAPTURED", "CANCELLED"} : DecideByHand(d, op, p)
  PROVE  CardInv'
<1>1. bridged \in [Tills -> Nat] /\ byHand \subseteq PaymentIds
  BY DEF CardInv, TillsTyped
<1>2. CASE OpenForOrder(d)
  BY <1>1, <1>2, SendSound DEF OpenForOrder, RequestSound
<1>3. CASE CancelBill(d)
  BY <1>1, <1>3, SendSound DEF CancelBill, RequestSound
<1>4. ASSUME NEW amount \in 1..Total, AddCashPayment(d, amount) PROVE CardInv'
  <2>1. amount \in Nat
    BY CardAssumption
  <2>2. RequestSound(Create("CASH", amount), bill, terminal, byHand')
    BY <2>1 DEF RequestSound, Create
  <2> QED
    BY <1>1, <1>4, <2>2, SendSound DEF AddCashPayment
<1>5. ASSUME NEW provider \in {"EXTERNAL", "MANUAL"}, StartCardPayment(d, provider)
      PROVE  CardInv'
  <2> DEFINE amount == AvailableOn(screen[d])
  <2>1. amount \in Nat
    <3>1. screen[d].payments \in Seq(PaymentRow) /\ Len(screen[d].payments) <= MaxPayments
      <4>1. screen[d].payments \in Seq(PaymentRow) /\ bill.payments \in Seq(PaymentRow)
            /\ Len(screen[d].payments) <= Len(bill.payments) /\ Len(bill.payments) <= MaxPayments
            /\ MaxPayments \in Nat
        BY CardAssumption DEF CardInv, TillsTyped, BillSound, BillRow, CopiesFit
      <4> QED
        BY <4>1
    <3>2. Sum(screen[d], {"PENDING", "CAPTURED"}) \in Nat
      BY <3>1, MoneyOfBill
    <3> QED
      BY <1>5, <3>2, CardAssumption DEF StartCardPayment, AvailableOn
  <2>2. RequestSound(Create(provider, amount), bill, terminal, byHand')
    BY <2>1 DEF RequestSound, Create
  <2> QED
    BY <1>1, <1>5, <2>2, SendSound DEF StartCardPayment
<1>6. ASSUME NEW p \in PaymentIds, NEW op \in {"CAPTURED", "CANCELLED"}, DecideByHand(d, op, p)
      PROVE  CardInv'
  <2>1. p \in DOMAIN bill.payments
    BY <1>6, CopiedPayments DEF DecideByHand, WithStatus
  <2>2. byHand' = byHand \cup {p}
    BY <1>6 DEF DecideByHand
  <2>3. RequestSound([op |-> op, payment |-> p], bill, terminal, byHand')
    BY <2>1, <2>2 DEF RequestSound
  <2> QED
    BY <1>1, <1>6, <2>2, <2>3, SendSound DEF DecideByHand
<1> QED
  BY <1>2, <1>3, <1>4, <1>5, <1>6
LEMMA BridgeSound ==
  ASSUME CardInv, NEW d \in Tills, NEW heard \in BOOLEAN, ApplyBridgeResult(d, heard)
  PROVE  CardInv'
<1> DEFINE p == bridged[d]
           decision == Decision(p, heard)
           op == IF decision = "APPROVED" THEN "CAPTURED" ELSE "FAILED"
<1>1. /\ p # 0 /\ bridged' = [bridged EXCEPT ![d] = 0] /\ byHand' = byHand
      /\ bridged \in [Tills -> Nat] /\ byHand \subseteq PaymentIds
  BY DEF ApplyBridgeResult, CardInv, TillsTyped
<1>2. bridged' \in [Tills -> Nat] /\ \A e \in Tills : bridged'[e] \in {0, bridged[e]}
  BY <1>1
<1>3. CASE CanMutate(d) /\ decision \in {"APPROVED", "DECLINED"}
  <2>1. Send(d, [op |-> op, payment |-> p])
    BY <1>3 DEF ApplyBridgeResult
  <2>2. decision = terminal[p]
    BY <1>3 DEF Decision
  <2>3. RequestSound([op |-> op, payment |-> p], bill, terminal, byHand')
    BY <1>1, <1>3, <2>2, CopiedPayments DEF RequestSound
  <2> HIDE DEF p, op, decision
  <2> QED
    BY <1>1, <1>2, <2>1, <2>3, SendSound
<1>4. CASE ~ (CanMutate(d) /\ decision \in {"APPROVED", "DECLINED"})
  <2>1. UNCHANGED <<bill, terminal, screen, due, strays>>
    BY <1>4 DEF ApplyBridgeResult
  <2>2. CopiesFit'
    BY <1>1, <2>1 DEF CardInv, TillsTyped, CopiesFit, BillSound, BillRow
  <2> QED
    BY <1>1, <1>2, <2>1, <2>2 DEF CardInv, TillsTyped, StraysSound
<1> QED
  BY <1>3, <1>4

\* A till reads the bill, or forgets what it had read.
LEMMA ReadingSound ==
  ASSUME CardInv, NEW d \in Tills, UNCHANGED <<bill, terminal, byHand, strays>>,
         screen' \in [Tills -> {NoCopy, bill} \cup BillRow],
         \A e \in Tills : screen'[e] \in {screen[e], bill, NoCopy},
         DOMAIN due' = Tills,
         bridged' \in [Tills -> Nat], \A e \in Tills : bridged'[e] <= Len(bill.payments)
  PROVE  CardInv'
<1>1. NoCopy \in BillRow /\ Len(NoCopy.payments) = 0 /\ bill \in BillRow
      /\ Len(bill.payments) \in Nat
  BY DEF NoCopy, BillRow, CardInv, BillSound
<1>2. TillsTyped'
  BY <1>1 DEF CardInv, TillsTyped
<1>3. CopiesFit'
  BY <1>1 DEF CardInv, CopiesFit
<1> QED
  BY <1>2, <1>3 DEF CardInv, StraysSound

\* The terminal goes on, and a till may be told to ask it.
LEMMA TerminalSound ==
  ASSUME CardInv, UNCHANGED <<bill, byHand, strays, screen, due, bridged>>,
         terminal' \in [PaymentIds -> {"IDLE", "ASKED", "APPROVED", "DECLINED"}],
         OutcomesStand(terminal, terminal')
  PROVE  CardInv'
<1>1. BillSound(bill', terminal', byHand')
  BY BillStaysSound DEF CardInv
<1>2. StraysSound'
  BY RequestStaysSound, SMTT(30) DEF CardInv, StraysSound, BillSound, BillRow, TillsTyped
<1> QED
  BY <1>1, <1>2 DEF CardInv, TillsTyped, CopiesFit

\* The greatest of some numbers is one of them.
LEMMA GreatestOfSome ==
  ASSUME NEW S, IsFiniteSet(S), S # {}, S \subseteq Nat
  PROVE  Max(S) \in S
<1> DEFINE R == {r \in S \X S : r[1] < r[2]}
<1>1. \A x, y, z \in S : <<x, y>> \in R /\ <<y, z>> \in R => <<x, z>> \in R
  OBVIOUS
<1>2. \A x \in S : <<x, x>> \notin R
  OBVIOUS
<1>3. PICK x \in S : \A y \in S : <<x, y>> \notin R
  <2> HIDE DEF R
  <2> QED
    BY <1>1, <1>2, GreatestInOrder
<1>4. \A y \in S : x >= y
  <2> SUFFICES ASSUME NEW y \in S PROVE x >= y
    OBVIOUS
  <2>1. x \in Nat /\ y \in Nat
    OBVIOUS
  <2>2. ~ (x < y)
    BY <1>3
  <2> QED
    BY <2>1, <2>2
<1> QED
  BY <1>4 DEF Max

LEMMA ReceiveCopySound ==
  ASSUME CardInv, NEW d \in Tills, ReceiveCopy(d)
  PROVE  CardInv'
<1>1. /\ terminal \in [PaymentIds -> {"IDLE", "ASKED", "APPROVED", "DECLINED"}]
      /\ bridged \in [Tills -> Nat] /\ screen \in [Tills -> BillRow] /\ DOMAIN due = Tills
      /\ bill \in BillRow /\ byHand \subseteq PaymentIds
      /\ Len(bill.payments) \in Nat /\ Len(bill.payments) <= MaxPayments /\ MaxPayments \in Nat
      /\ \A e \in Tills : Len(screen[e].payments) <= Len(bill.payments)
                          /\ bridged[e] <= Len(bill.payments)
  BY CardAssumption DEF CardInv, TillsTyped, BillSound, BillRow, CopiesFit
<1>2. /\ screen' = [screen EXCEPT ![d] = bill] /\ DOMAIN due' = Tills
      /\ UNCHANGED <<bill, strays, byHand>>
  BY <1>1 DEF ReceiveCopy
<1>3. /\ terminal' \in [PaymentIds -> {"IDLE", "ASKED", "APPROVED", "DECLINED"}]
      /\ OutcomesStand(terminal, terminal')
      /\ bridged' \in [Tills -> Nat] /\ \A e \in Tills : bridged'[e] <= Len(bill.payments)
  <2>1. CASE UNCHANGED <<terminal, bridged>>
    BY <1>1, <2>1 DEF OutcomesStand
  <2>2. ASSUME NEW p, p = Max(PendingCards(bill)), PendingCards(bill) # {}, StartAtTerminal(d, p)
        PROVE  /\ terminal' \in [PaymentIds -> {"IDLE", "ASKED", "APPROVED", "DECLINED"}]
               /\ OutcomesStand(terminal, terminal')
               /\ bridged' \in [Tills -> Nat] /\ \A e \in Tills : bridged'[e] <= Len(bill.payments)
    <3>1. PendingCards(bill) \subseteq 1..Len(bill.payments)
      BY <1>1 DEF PendingCards, WithStatus, BillRow
    <3>2. p \in PendingCards(bill)
      <4>1. IsFiniteSet(PendingCards(bill)) /\ PendingCards(bill) \subseteq Nat
        <5>1. IsFiniteSet(1..Len(bill.payments))
          BY <1>1, FS_Interval
        <5> QED
          BY <1>1, <3>1, <5>1, FS_Subset
      <4> QED
        BY <2>2, <4>1, GreatestOfSome
    <3>3. p \in PaymentIds /\ p \in Nat /\ p <= Len(bill.payments)
      BY <1>1, <3>1, <3>2 DEF PaymentIds
    <3> QED
      BY <1>1, <2>2, <3>3 DEF StartAtTerminal, OutcomesStand
  <2> QED
    BY <2>1, <2>2 DEF ReceiveCopy
<1>4. BillSound(bill', terminal', byHand')
  BY <1>2, <1>3, BillStaysSound DEF CardInv
<1>5. StraysSound'
  BY <1>1, <1>2, <1>3, RequestStaysSound DEF CardInv, StraysSound
<1>6. \A e \in Tills : screen'[e] \in {screen[e], bill}
  BY <1>1, <1>2
<1>7. TillsTyped' /\ CopiesFit'
  <2>1. screen' \in [Tills -> BillRow]
    BY <1>1, <1>2
  <2> QED
    BY <1>1, <1>2, <1>3, <1>6, <2>1 DEF TillsTyped, CopiesFit
<1> QED
  BY <1>4, <1>5, <1>7 DEF CardInv

LEMMA StraySound ==
  ASSUME CardInv, NEW r \in strays, StrayArrives(r)
  PROVE  CardInv'
<1>1. /\ RequestSound(r, bill, terminal, byHand) /\ Carry(r) /\ strays' \subseteq strays
      /\ UNCHANGED <<terminal, screen, bridged, byHand>> /\ due' = due
  BY DEF CardInv, StraysSound, StrayArrives
<1>2. BillSound(bill', terminal, byHand) /\ Len(bill.payments) <= Len(bill'.payments)
  BY <1>1, CarrySound DEF CardInv
<1>3. /\ bill \in BillRow /\ bill' \in BillRow /\ Len(bill.payments) <= MaxPayments
      /\ Len(bill.payments) \in Nat /\ Len(bill'.payments) \in Nat
      /\ OutcomesStand(terminal, terminal)
  BY <1>2 DEF CardInv, BillSound, BillRow, OutcomesStand
<1>4. StraysSound'
  BY <1>1, <1>2, <1>3, RequestStaysSound DEF CardInv, StraysSound, TillsTyped
<1>5. CopiesFit'
  BY <1>1, <1>2, <1>3 DEF CardInv, CopiesFit, TillsTyped, BillRow
<1> QED
  BY <1>1, <1>2, <1>4, <1>5 DEF CardInv, TillsTyped

LEMMA CardNextSound ==
  ASSUME CardInv, [CardNext]_cardVars
  PROVE  CardInv'
<1>1. /\ screen \in [Tills -> BillRow] /\ bridged \in [Tills -> Nat] /\ DOMAIN due = Tills
      /\ bill \in BillRow /\ Len(bill.payments) \in Nat
      /\ \A e \in Tills : bridged[e] <= Len(bill.payments)
      /\ terminal \in [PaymentIds -> {"IDLE", "ASKED", "APPROVED", "DECLINED"}]
  BY DEF CardInv, TillsTyped, CopiesFit, BillSound, BillRow
<1>2. ASSUME NEW d \in Tills, RefreshCopy(d) \/ AnswerIsLost(d) \/ TillDies(d) PROVE CardInv'
  <2>1. /\ UNCHANGED <<bill, terminal, byHand, strays>> /\ DOMAIN due' = Tills
        /\ bridged' \in {bridged, [bridged EXCEPT ![d] = 0]}
        /\ screen' \in {screen, [screen EXCEPT ![d] = bill], [screen EXCEPT ![d] = NoCopy]}
    BY <1>1, <1>2 DEF RefreshCopy, AnswerIsLost, TillDies
  <2>2. /\ screen' \in [Tills -> {NoCopy, bill} \cup BillRow]
        /\ \A e \in Tills : screen'[e] \in {screen[e], bill, NoCopy}
    BY <1>1, <2>1
  <2>3. /\ bridged' \in [Tills -> Nat] /\ \A e \in Tills : bridged'[e] <= Len(bill.payments)
    BY <1>1, <2>1
  <2> QED
    BY <2>1, <2>2, <2>3, ReadingSound
<1>3. ASSUME NEW d \in Tills, NEW p \in PaymentIds, VerifyPayment(d, p) PROVE CardInv'
  <2>1. p \in Nat /\ p <= Len(bill.payments)
    BY <1>3, CopiedPayments, CardAssumption
      DEF VerifyPayment, Verifiable, PendingCards, WithStatus, PaymentIds
  <2>2. /\ UNCHANGED <<bill, terminal, byHand, strays, screen, due>>
        /\ bridged' = [bridged EXCEPT ![d] = p]
    BY <1>3 DEF VerifyPayment
  <2>3. /\ bridged' \in [Tills -> Nat] /\ \A e \in Tills : bridged'[e] <= Len(bill.payments)
    BY <1>1, <2>1, <2>2
  <2>4. /\ screen' \in [Tills -> {NoCopy, bill} \cup BillRow] /\ DOMAIN due' = Tills
        /\ \A e \in Tills : screen'[e] \in {screen[e], bill, NoCopy}
    BY <1>1, <2>2
  <2> QED
    BY <2>2, <2>3, <2>4, ReadingSound
<1>4. ASSUME NEW p \in PaymentIds, NEW outcome \in {"APPROVED", "DECLINED"}, CustomerPays(p, outcome)
      PROVE  CardInv'
  <2>1. /\ terminal' = [terminal EXCEPT ![p] = outcome] /\ terminal[p] = "ASKED"
        /\ UNCHANGED <<bill, byHand, strays, screen, due, bridged>>
    BY <1>4 DEF CustomerPays
  <2> QED
    BY <1>1, <2>1, TerminalSound DEF OutcomesStand
<1>5. CASE UNCHANGED cardVars
  BY <1>5 DEF cardVars, CardInv, TillsTyped, BillSound, CardsFit, Cards, BillAddsUp, Sum, WithStatus,
    CopiesFit, StraysSound, RequestSound
<1> QED
  BY <1>2, <1>3, <1>4, <1>5, AsksSound, BridgeSound, ReceiveCopySound, StraySound DEF CardNext

LEMMA CardInvInit == CardInit => CardInv
<1> SUFFICES ASSUME CardInit PROVE CardInv
  OBVIOUS
<1>1. /\ bill = NoCopy /\ bill \in BillRow /\ bill.payments = <<>> /\ bill.status = "NONE"
      /\ Len(bill.payments) = 0
  BY DEF CardInit, NoCopy, BillRow
<1>2. MaxPayments \in Nat /\ Total \in Nat /\ Len(bill.payments) <= MaxPayments
  BY <1>1, CardAssumption
<1>3. Sum(bill, {"PENDING", "CAPTURED"}) = 0
  <2>1. WithStatus(bill, {"PENDING", "CAPTURED"}) = {}
    BY <1>1 DEF WithStatus
  <2> QED
    BY <2>1, SumOfNone DEF Sum, SumFunction
<1>4. BillSound(bill, terminal, byHand)
  BY <1>1, <1>2, <1>3 DEF BillSound, CardsFit, Cards, BillAddsUp
<1>5. TillsTyped /\ CopiesFit /\ StraysSound
  BY <1>1 DEF CardInit, TillsTyped, CopiesFit, StraysSound
<1> QED
  BY <1>4, <1>5 DEF CardInv

(***************************************************************************)
(* Whatever is lost between tills, terminal and API: a charged card        *)
(* belongs to a payment that is or can still be captured, nobody is        *)
(* charged more than the bill, and a completed bill is paid in full, for   *)
(* any number of tills, payments and losses (capturePayment,               *)
(* _applyTerminalBridgeResult).                                            *)
(***************************************************************************)
THEOREM ChargesAlwaysMatch == CardSpec => []ChargesMatchPayments
<1>1. CardInv => ChargesMatchPayments
  BY DEF CardInv, BillSound, CardsFit, Cards, BillAddsUp, ChargesMatchPayments
<1>2. CardInv /\ [CardNext]_cardVars => CardInv'
  BY CardNextSound
<1> QED
  BY <1>1, <1>2, CardInvInit, PTL DEF CardSpec
-----------------------------------------------------------------------------
(***************************************************************************)
(* What is proved about closing sales at a till: for any numbers of sales, *)
(* tables, polls, faults and commands, what was not done was reported.     *)
(***************************************************************************)

(***************************************************************************)
(* What that rests on: the types, one attempt at each receipt, nothing     *)
(* shown that does not exist, runs of settled orders only, and, of tables, *)
(* an order at one table, one run at a time that searches or closes, a     *)
(* floor that has the table of whoever searches it, and at every table     *)
(* that could be free an order that somebody will still see to.            *)
(***************************************************************************)
(***************************************************************************)
(* What is proved about closing sales at a till: for any numbers of sales, *)
(* tables, polls, faults and commands, what was not done was reported.     *)
(***************************************************************************)
DocumentStatus == {"NONE", "PENDING", "ISSUED", "REJECTED", "UNKNOWN"}
Commands == {"NONE", "LOAD", "UPDATE", "ATTACH", "FINISH", "OPEN"}
PartyRow ==
  [status : {"NONE", "OPEN", "CLOSED"}, version : Nat, orders : SUBSET SaleOrders]
AnyParty == Parties \cup {NoParty}

RecordsTyped ==
  /\ orderStatus \in [SaleOrders -> {"OPEN", "PAID", "CANCELLED"}]
  /\ parties \in [Parties -> PartyRow]
  /\ documents \in [SaleOrders -> DocumentStatus]
  /\ receiptJobs \in [SaleOrders -> Nat]
  /\ merchant \in [runtime : {"READY", "MANUAL"}, provider : Providers, prints : BOOLEAN]

ScreenTyped ==
  /\ floor \in [known : BOOLEAN, occupied : SUBSET Parties]
  /\ late \in [SaleOrders -> [known : BOOLEAN, occupied : SUBSET Parties]]
  /\ selection \in
       [table : AnyParty,
        detail : [party : AnyParty, open : BOOLEAN, version : Nat, orders : SUBSET SaleOrders,
                  blocking : BOOLEAN]]
  /\ selection.detail.open => selection.detail.party \in Parties
  /\ command \in [kind : Commands, party : AnyParty, version : Nat,
                  order : SaleOrders \cup {NoSaleOrder}]
  /\ command.kind # "NONE" => command.party \in Parties
  /\ command.kind = "ATTACH" => command.order \in SaleOrders

RunsTyped ==
  /\ fiscal \in [runtime : {"NONE", "READY", "MANUAL", "UNUSABLE", "UNVERIFIED"},
                 provider : Providers \cup {"NONE"}, docs : [SaleOrders -> DocumentStatus]]
  /\ stage \in [Runs -> Stages]
  /\ target \in [party : AnyParty, version : Nat]
  /\ reread \in [Runs -> AnyParty]
  /\ \A r \in Runs : stage[r] = "SESSION" => reread[r] \in Parties
  /\ background \in [Runs -> Nat]

\* One attempt at the receipt of a sale, that succeeds or is reported.
ReceiptsAreAskedOnce ==
  \A o \in SaleOrders :
    /\ receiptJobs[o] <= 1
    /\ o \notin attempted => receiptJobs[o] = 0
    /\ o \in attempted /\ o \notin warned => receiptJobs[o] = 1

\* What the till knows of documents is true.
DocumentsExist ==
  /\ \A o \in SaleOrders : fiscal.docs[o] # "NONE" => documents[o] # "NONE"
  /\ fiscal.provider = "ADE" => merchant.provider = "ADE"

\* A run is of an order that is settled, a sale's of one that is paid.
RunsAreOfSettled ==
  /\ \A r \in Runs : stage[r] \notin {"IDLE", "ORDER"} =>
       /\ OrderSettled(r[1], orderStatus)
       /\ r[2] = "SALE" => orderStatus[r[1]] = "PAID" /\ stage[r] # "ORDERS"
  /\ \A o \in SaleOrders : Concluded(o) => OrderSettled(o, orderStatus)

\* What a sale's run leaves behind.
SalesAreSeenTo ==
  \A o \in SaleOrders :
    /\ stage[<<o, "SALE">>] = "BARE" => o \in warned
    /\ stage[<<o, "SALE">>] = "RECEIPT" => documents[o] # "NONE"
    /\ <<o, "SALE">> \in finished =>
         /\ orderStatus[o] = "PAID"
         /\ o \notin warned =>
              /\ documents[o] # "NONE"
              /\ merchant.provider # "ADE" => o \in attempted
              /\ PrintsOfficial => SalePrinted(o)

\* An order is of one party, whose session was opened.
OrdersAreOfOneParty ==
  /\ \A p \in Parties : parties[p].status = "NONE" => parties[p].orders = {}
  /\ \A p, q \in Parties : parties[p].orders \cap parties[q].orders # {} => p = q

\* One run at a time searches for its table or closes it, and it closes the right one
\* unless it was misled.
OneRunCloses ==
  /\ \A r, s \in Runs : {stage[r], stage[s]} \subseteq {"SEARCH", "CLOSE"} => r = s
  /\ \A r \in Runs : stage[r] = "CLOSE" =>
       /\ target.party \in Parties
       /\ r[1] \in parties[target.party].orders \cup misled

\* The floor that a run was shown has its table, unless it was misled.
FloorHasTheTable ==
  \A r \in Runs : stage[r] \in {"SESSION", "SEARCH"} /\ floor.known =>
    \A p \in Occupied(parties) :
      r[1] \in parties[p].orders => p \in floor.occupied \/ r[1] \in misled

Passed(o) ==
  \/ Concluded(o)
  \/ \E k \in {"SALE", "CANCELLATION"} :
       stage[<<o, k>>] \in {"FISCAL", "ISSUE", "RECEIPT", "BARE", "ORDERS"}

SettledTables ==
  {p \in Occupied(parties) :
     /\ parties[p].orders # {}
     /\ \A o \in parties[p].orders : OrderSettled(o, orderStatus)}

\* At a table that could be free, some order's run is still to come to it.
TablesAreWatched ==
  \A p \in SettledTables : \E o \in parties[p].orders : o \in warned \cup misled \/ ~ Passed(o)

TablesInv == OrdersAreOfOneParty /\ OneRunCloses /\ FloorHasTheTable /\ TablesAreWatched

\* All of it, and its types alone.
SaleInv ==
  /\ RecordsTyped /\ ScreenTyped /\ RunsTyped
  /\ ReceiptsAreAskedOnce /\ DocumentsExist /\ RunsAreOfSettled /\ SalesAreSeenTo /\ TablesInv

SaleTyped == RecordsTyped /\ ScreenTyped /\ RunsTyped

\* What follows when a run comes to its table.
LEMMA ApproachLeaves ==
  ASSUME RunsTyped, NEW r \in Runs, NEW detail, Approach(r, detail)
  PROVE /\ stage' = [stage EXCEPT ![r] = stage'[r]]
        /\ \/ /\ warned' = warned \cup {r[1]} /\ target' = target
              /\ stage'[r] = AfterTable(r)
           \/ /\ ~ TablesBusy /\ warned' = warned /\ r[1] \notin detail.orders
              /\ stage'[r] = "SEARCH" /\ target' = target
           \/ /\ ~ TablesBusy /\ warned' = warned /\ r[1] \in detail.orders
              /\ detail.open /\ ~ detail.blocking /\ stage'[r] = "CLOSE"
              /\ target' = [party |-> detail.party, version |-> detail.version]
           \/ /\ ~ TablesBusy /\ warned' = warned /\ r[1] \in detail.orders
              /\ (~ detail.open \/ detail.blocking) /\ stage'[r] = AfterTable(r)
              /\ target' = target
<1>1. \A x : [stage EXCEPT ![r] = x][r] = x
  BY DEF RunsTyped
<1>2. CASE ~ TablesFree
  BY <1>1, <1>2 DEF Approach, Go, Warn, TablesFree
<1>3. CASE TablesFree /\ r[1] \notin detail.orders
  BY <1>1, <1>3 DEF Approach, Go, Calm, TablesFree
<1>4. CASE TablesFree /\ r[1] \in detail.orders
  <2>1. Judge(r, detail) /\ ~ TablesBusy /\ warned' = warned
    BY <1>4 DEF Approach, Calm, TablesFree
  <2>2. CASE detail.open /\ ~ detail.blocking
    BY <1>1, <1>4, <2>1, <2>2 DEF Judge, Go
  <2>3. CASE ~ (detail.open /\ ~ detail.blocking)
    BY <1>1, <1>4, <2>1, <2>3 DEF Judge, Go
  <2> QED BY <2>2, <2>3
<1> QED BY <1>2, <1>3, <1>4

\* A row, and the rows with one changed.
Row(s, v, m) == [status |-> s, version |-> v, orders |-> m]
WithRow(p, row) == [parties EXCEPT ![p] = row]

\* What each operation on a table session makes of the rows.
LEMMA RowsChange ==
  ASSUME RecordsTyped, NEW p \in Parties
  PROVE /\ Updated(p) = WithRow(p, Row(parties[p].status, parties[p].version + 1, parties[p].orders))
        /\ Finished(p) = WithRow(p, Row("CLOSED", parties[p].version + 1, parties[p].orders))
        /\ Opened(p) = WithRow(p, Row("OPEN", 1, parties[p].orders))
        /\ \A o \in SaleOrders :
             WithOrder(o, p) = WithRow(p, Row(parties[p].status, parties[p].version + 1,
                                              parties[p].orders \cup {o}))
<1>1. PICK f : f = parties
  OBVIOUS
<1>2. f \in [Parties -> PartyRow] /\ f[p] \in PartyRow
  BY <1>1 DEF RecordsTyped
<1>3. PICK row : row = f[p]
  OBVIOUS
<1>4. row = Row(row.status, row.version, row.orders)
  BY <1>2, <1>3 DEF PartyRow, Row
<1>5. \A x : [row EXCEPT !.version = x] = Row(row.status, x, row.orders)
  BY <1>4 DEF Row
<1>14. ASSUME NEW a, NEW b, NEW c, NEW x
       PROVE [Row(a, b, c) EXCEPT !.version = x] = Row(a, x, c)
  BY DEF Row
<1>6. ASSUME NEW s PROVE [row EXCEPT !.status = s] = Row(s, row.version, row.orders)
  BY <1>4 DEF Row
<1>7. ASSUME NEW s PROVE [row EXCEPT !.orders = s] = Row(row.status, row.version, s)
  BY <1>4 DEF Row
<1>8. \A x, y : [[f EXCEPT ![p] = x] EXCEPT ![p] = y] = [f EXCEPT ![p] = y]
  BY <1>2
<1>9. \A x : [f EXCEPT ![p] = x][p] = x
  BY <1>2
<1>10. Updated(p) = WithRow(p, Row(parties[p].status, parties[p].version + 1, parties[p].orders))
  <2>1. Updated(p) = [f EXCEPT ![p] = [row EXCEPT !.version = row.version + 1]]
    BY <1>1, <1>3 DEF Updated
  <2> QED BY <1>1, <1>3, <1>5, <2>1 DEF WithRow
<1>11. Finished(p) = WithRow(p, Row("CLOSED", parties[p].version + 1, parties[p].orders))
  <2>1. PICK g : g = [f EXCEPT ![p] = [row EXCEPT !.status = "CLOSED"]]
    OBVIOUS
  <2>2. g[p] = [row EXCEPT !.status = "CLOSED"] /\ g = [f EXCEPT ![p].status = "CLOSED"]
    BY <1>3, <1>9, <2>1
  <2>3. Finished(p) = [g EXCEPT ![p].version = row.version + 1]
    BY <1>1, <1>3, <2>2 DEF Finished
  <2>4. Finished(p) = [g EXCEPT ![p] = [g[p] EXCEPT !.version = row.version + 1]]
    BY <2>3
  <2>6. g[p] = Row("CLOSED", row.version, row.orders)
    BY <1>6, <2>2
  <2>5. [g[p] EXCEPT !.version = row.version + 1] = Row("CLOSED", row.version + 1, row.orders)
    BY <1>14, <2>6
  <2> QED BY <1>1, <1>3, <1>8, <2>1, <2>4, <2>5 DEF WithRow
<1>12. Opened(p) = WithRow(p, Row("OPEN", 1, parties[p].orders))
  <2>1. PICK g : g = [f EXCEPT ![p] = [row EXCEPT !.status = "OPEN"]]
    OBVIOUS
  <2>2. g[p] = [row EXCEPT !.status = "OPEN"] /\ g = [f EXCEPT ![p].status = "OPEN"]
    BY <1>3, <1>9, <2>1
  <2>3. Opened(p) = [g EXCEPT ![p].version = 1]
    BY <1>1, <1>3, <2>2 DEF Opened
  <2>4. Opened(p) = [g EXCEPT ![p] = [g[p] EXCEPT !.version = 1]]
    BY <2>3
  <2>6. g[p] = Row("OPEN", row.version, row.orders)
    BY <1>6, <2>2
  <2>5. [g[p] EXCEPT !.version = 1] = Row("OPEN", 1, row.orders)
    BY <1>14, <2>6
  <2> QED BY <1>1, <1>3, <1>8, <2>1, <2>4, <2>5 DEF WithRow
<1>13. ASSUME NEW o \in SaleOrders
       PROVE WithOrder(o, p) = WithRow(p, Row(parties[p].status, parties[p].version + 1,
                                              parties[p].orders \cup {o}))
  <2>1. PICK g : g = [f EXCEPT ![p] = [row EXCEPT !.orders = row.orders \cup {o}]]
    OBVIOUS
  <2>2. g[p] = [row EXCEPT !.orders = row.orders \cup {o}]
        /\ g = [f EXCEPT ![p].orders = row.orders \cup {o}]
    BY <1>3, <1>9, <2>1
  <2>3. WithOrder(o, p) = [g EXCEPT ![p].version = row.version + 1]
    BY <1>1, <1>3, <2>2 DEF WithOrder
  <2>4. WithOrder(o, p) = [g EXCEPT ![p] = [g[p] EXCEPT !.version = row.version + 1]]
    BY <2>3
  <2>5. PICK m : m = row.orders \cup {o}
    OBVIOUS
  <2>6. g[p] = Row(row.status, row.version, m)
    BY <1>7, <2>2, <2>5
  <2>7. [g[p] EXCEPT !.version = row.version + 1] = Row(row.status, row.version + 1, m)
    BY <1>14, <2>6
  <2> QED BY <1>1, <1>3, <1>8, <2>1, <2>4, <2>5, <2>7 DEF WithRow
<1> QED BY <1>10, <1>11, <1>12, <1>13

\* Each of them leaves rows.
LEMMA RowsStayTyped ==
  ASSUME RecordsTyped, NEW p \in Parties
  PROVE /\ Updated(p) \in [Parties -> PartyRow] /\ Finished(p) \in [Parties -> PartyRow]
        /\ Opened(p) \in [Parties -> PartyRow]
        /\ \A o \in SaleOrders : WithOrder(o, p) \in [Parties -> PartyRow]
<1>1. parties \in [Parties -> PartyRow] /\ parties[p] \in PartyRow
  BY DEF RecordsTyped
<1>2. \A row \in PartyRow : WithRow(p, row) \in [Parties -> PartyRow]
  BY <1>1 DEF WithRow
<1>3. /\ parties[p].status \in {"NONE", "OPEN", "CLOSED"} /\ parties[p].version \in Nat
      /\ parties[p].orders \in SUBSET SaleOrders
  BY <1>1 DEF PartyRow
<1>4. ASSUME NEW s \in {"NONE", "OPEN", "CLOSED"}, NEW v \in Nat, NEW m \in SUBSET SaleOrders
      PROVE Row(s, v, m) \in PartyRow
  BY <1>4 DEF Row, PartyRow
<1>5. \A o \in SaleOrders : parties[p].orders \cup {o} \in SUBSET SaleOrders
  BY <1>3
<1>6. parties[p].version + 1 \in Nat
  BY <1>3
<1>7. 1 \in Nat
  OBVIOUS
<1> QED BY <1>2, <1>3, <1>4, <1>5, <1>6, <1>7, RowsChange

\* What a step may do to the sessions of the tables.
PartyStep ==
  \/ parties' = parties
  \/ \E p \in Parties :
       \/ parties[p].status = "NONE" /\ parties' = Opened(p)
       \/ \E o \in SaleOrders : MayAttach(o, p, parties[p].version) /\ parties' = WithOrder(o, p)
       \/ parties[p].status = "OPEN" /\ parties' = Updated(p)
       \/ MayFinish(p, parties[p].version) /\ parties' = Finished(p)

\* What a step may do to orders and documents.
SettlingStep ==
  \/ orderStatus' = orderStatus
  \/ \E o \in SaleOrders, status \in {"PAID", "CANCELLED"} :
       orderStatus[o] = "OPEN" /\ orderStatus' = [orderStatus EXCEPT ![o] = status]

DocumentStep ==
  \/ documents' = documents
  \/ \E o \in SaleOrders : documents' = Issued(o)
  \/ \E o \in SaleOrders, status \in DocumentStatus \ {"NONE"} :
       documents' = [documents EXCEPT ![o] = status]

\* A command of the cashier does what another till could do.
LEMMA CommandsArePartySteps ==
  ASSUME RecordsTyped, ScreenTyped, command.kind # "NONE", parties' = Executed(command)
  PROVE PartyStep
<1>1. PICK c : c = command
  OBVIOUS
<1>2. c.party \in Parties /\ (c.kind = "ATTACH" => c.order \in SaleOrders)
  BY <1>1 DEF ScreenTyped
<1>3. CASE c.kind = "UPDATE" /\ SessionAccepts(c.party, c.version)
  BY <1>1, <1>2, <1>3 DEF Executed, PartyStep, SessionAccepts
<1>4. CASE c.kind = "FINISH" /\ MayFinish(c.party, c.version)
  BY <1>1, <1>2, <1>4 DEF Executed, PartyStep, MayFinish, SessionAccepts
<1>5. CASE c.kind = "ATTACH" /\ MayAttach(c.order, c.party, c.version)
  BY <1>1, <1>2, <1>5 DEF Executed, PartyStep, MayAttach, SessionAccepts
<1>6. CASE c.kind = "OPEN" /\ parties[c.party].status = "NONE"
  BY <1>1, <1>2, <1>6 DEF Executed, PartyStep
<1>7. CASE /\ ~ (c.kind = "UPDATE" /\ SessionAccepts(c.party, c.version))
           /\ ~ (c.kind = "FINISH" /\ MayFinish(c.party, c.version))
           /\ ~ (c.kind = "ATTACH" /\ MayAttach(c.order, c.party, c.version))
           /\ ~ (c.kind = "OPEN" /\ parties[c.party].status = "NONE")
  BY <1>1, <1>7 DEF Executed, PartyStep
<1> QED BY <1>3, <1>4, <1>5, <1>6, <1>7

\* Every step does to the records one of the above.
LEMMA RecordSteps ==
  ASSUME SaleTyped, OneRunCloses, [ClosingNext]_closingVars
  PROVE PartyStep /\ SettlingStep /\ DocumentStep /\ merchant' = merchant
<1> DEFINE Same == UNCHANGED <<orderStatus, parties, documents, merchant>>
           Goal == PartyStep /\ SettlingStep /\ DocumentStep /\ merchant' = merchant
<1>0. Same => Goal
  BY DEF PartyStep, SettlingStep, DocumentStep
<1>2. ASSUME NEW p \in Parties, OtherTill(p) PROVE Goal
  <2>1. UNCHANGED <<orderStatus, documents, merchant>>
    BY <1>2 DEF OtherTill
  <2>2. PartyStep
    BY <1>2 DEF OtherTill, PartyStep
  <2> QED BY <2>1, <2>2 DEF SettlingStep, DocumentStep
<1>3. ASSUME NEW o \in SaleOrders, PayOrder(o) \/ CancelElsewhere(o) \/ CancelOrder(o)
      PROVE Goal
  BY <1>3 DEF PayOrder, CancelElsewhere, CancelOrder, PartyStep, SettlingStep, DocumentStep
<1>5. ASSUME NEW o \in SaleOrders, IssueElsewhere(o) \/ ConcludeDocument(o) PROVE Goal
  BY <1>5 DEF IssueElsewhere, ConcludeDocument, Becomes, Pending, DocumentStatus, PartyStep,
    SettlingStep, DocumentStep
<1>7. ASSUME NEW o \in SaleOrders, ReadLate(o) \/ ShowLate(o) PROVE Goal
  BY <1>0, <1>7 DEF ReadLate, ShowLate, recordVars
<1>6. ASSUME NEW r \in Runs, IssueDocument(r) PROVE Goal
  <2>1. r[1] \in SaleOrders
    BY DEF Runs
  <2> QED BY <1>6, <2>1 DEF IssueDocument, PartyStep, SettlingStep, DocumentStep
<1>8. CASE AnswerCommand \/ LoseCommand
  <2>1. UNCHANGED <<orderStatus, documents, merchant>> /\ command.kind # "NONE"
        /\ (parties' = parties \/ parties' = Executed(command))
    BY <1>8 DEF AnswerCommand, LoseCommand, untouched
  <2>2. PartyStep
    BY <2>1, CommandsArePartySteps DEF PartyStep, SaleTyped
  <2> QED BY <2>1, <2>2 DEF SettlingStep, DocumentStep
<1>9. ASSUME NEW r \in Runs, CloseTable(r) PROVE Goal
  <2>1. /\ UNCHANGED <<orderStatus, documents, merchant>>
        /\ \/ parties' = parties
           \/ MayFinish(target.party, target.version) /\ parties' = Finished(target.party)
    BY <1>9 DEF CloseTable
  <2>2. target.party \in Parties
    BY <1>9 DEF OneRunCloses, CloseTable
  <2>3. PartyStep
    BY <2>1, <2>2 DEF PartyStep, MayFinish, SessionAccepts
  <2> QED BY <2>1, <2>3 DEF SettlingStep, DocumentStep
<1>10. ASSUME NEW r \in Runs, EndSale(r) PROVE Goal
  BY <1>0, <1>10 DEF EndSale
<1>11. ASSUME NEW r \in Runs,
              \/ ReloadOrder(r) \/ RefreshFloor(r) \/ FindSession(r) \/ SearchSession(r)
              \/ EndCancellation(r) \/ EnsureDocument(r) \/ PollDocument(r)
       PROVE Goal
  BY <1>0, <1>11 DEF ReloadOrder, RefreshFloor, FindSession, SearchSession, EndCancellation,
               EnsureDocument, PollDocument, recordVars
<1>12. ASSUME NEW o \in SaleOrders,
              ObserveCheckout(o) \/ FinishOnScreen(o) \/ RecoverDocument(o) \/ PrintOfficial(o)
       PROVE Goal
  BY <1>0, <1>12 DEF ObserveCheckout, FinishOnScreen, RecoverDocument, PrintOfficial, recordVars
<1>13. CASE CloseSelection \/ RefreshScreen \/ RefreshDocuments
  BY <1>0, <1>13 DEF CloseSelection, RefreshScreen, RefreshDocuments, recordVars, untouched
<1>14. ASSUME NEW kind, NEW o, CommandSession(kind, o) PROVE Goal
  BY <1>0, <1>14 DEF CommandSession, recordVars, untouched
<1>15. ASSUME NEW p, NEW o, SelectTable(p) \/ CommandOpening(p, o) PROVE Goal
  BY <1>0, <1>15 DEF SelectTable, CommandOpening, recordVars, untouched
<1>16. CASE UNCHANGED closingVars
  BY <1>0, <1>16 DEF closingVars, recordVars
<1> QED
  BY <1>2, <1>3, <1>5, <1>6, <1>7, <1>8, <1>9, <1>10, <1>11, <1>12, <1>13, <1>14, <1>15, <1>16
  DEF ClosingNext

\* So the records stay what they are.
LEMMA RecordsStayTyped ==
  ASSUME RecordsTyped, PartyStep, SettlingStep, DocumentStep, merchant' = merchant,
         receiptJobs' \in [SaleOrders -> Nat]
  PROVE RecordsTyped'
<1>1. parties' \in [Parties -> PartyRow]
  BY RowsStayTyped DEF PartyStep, RecordsTyped
<1>2. orderStatus' \in [SaleOrders -> {"OPEN", "PAID", "CANCELLED"}]
  BY DEF SettlingStep, RecordsTyped
<1>3. ASSUME NEW o \in SaleOrders PROVE Issued(o) \in [SaleOrders -> DocumentStatus]
  BY DEF Issued, Pending, RecordsTyped, DocumentStatus
<1>4. documents' \in [SaleOrders -> DocumentStatus]
  BY <1>3 DEF DocumentStep, RecordsTyped, DocumentStatus
<1> QED BY <1>1, <1>2, <1>4 DEF RecordsTyped

\* What a step adds to; nothing is taken from it.
Grows ==
  /\ warned \subseteq warned' /\ misled \subseteq misled' /\ finished \subseteq finished'
  /\ attempted \subseteq attempted' /\ printed \subseteq printed' /\ dropped \subseteq dropped'

\* Only the end of a sale's run asks for receipts.
ReceiptStep ==
  \/ UNCHANGED <<receiptJobs, attempted>>
  \/ \E o \in SaleOrders :
       /\ o \notin attempted /\ attempted' = attempted \cup {o}
       /\ \/ receiptJobs' = AskedReceipt(o)
          \/ receiptJobs' = receiptJobs /\ o \in warned'

\* What was reported, finished or printed stays so; receipts are asked for one at a time.
LEMMA ReportsGrow ==
  ASSUME SaleTyped, [ClosingNext]_closingVars
  PROVE Grows /\ ReceiptStep
<1> DEFINE Same == /\ UNCHANGED <<warned, misled, finished, attempted, printed, dropped>>
                   /\ UNCHANGED receiptJobs
           Goal == Grows /\ ReceiptStep
<1>0. Same => Goal
  BY DEF Grows, ReceiptStep
<1>1. ASSUME NEW p, OtherTill(p) PROVE Goal
  BY <1>0, <1>1 DEF OtherTill
<1>2. ASSUME NEW o,
             \/ PayOrder(o) \/ CancelElsewhere(o) \/ IssueElsewhere(o) \/ ConcludeDocument(o)
             \/ ObserveCheckout(o) \/ FinishOnScreen(o) \/ RecoverDocument(o)
      PROVE Goal
  BY <1>0, <1>2 DEF PayOrder, CancelElsewhere, IssueElsewhere, ConcludeDocument, ObserveCheckout,
    FinishOnScreen, RecoverDocument, recordVars
<1>3. ASSUME NEW o, CancelOrder(o) PROVE Goal
  BY <1>3 DEF CancelOrder, Grows, ReceiptStep
<1>4. CASE AnswerCommand \/ LoseCommand \/ CloseSelection \/ RefreshScreen \/ RefreshDocuments
  BY <1>0, <1>4 DEF AnswerCommand, LoseCommand, CloseSelection, RefreshScreen, RefreshDocuments,
    recordVars, untouched
<1>5. ASSUME NEW kind, NEW o, CommandSession(kind, o) PROVE Goal
  BY <1>0, <1>5 DEF CommandSession, recordVars, untouched
<1>6. ASSUME NEW p, NEW o, SelectTable(p) \/ CommandOpening(p, o) PROVE Goal
  BY <1>0, <1>6 DEF SelectTable, CommandOpening, recordVars, untouched
<1>7. ASSUME NEW r \in Runs, ReloadOrder(r) PROVE Goal
  BY <1>7 DEF ReloadOrder, recordVars, Warn, Calm, Grows, ReceiptStep
<1>8. ASSUME NEW r \in Runs, RefreshFloor(r) PROVE Goal
  <2>1. UNCHANGED <<finished, attempted, printed, dropped, receiptJobs>>
    BY <1>8 DEF RefreshFloor, recordVars
  <2>2. misled \subseteq misled'
    BY <1>8 DEF RefreshFloor, ReadFloor
  <2>3. ASSUME NEW detail, Approach(r, detail) PROVE warned \subseteq warned'
    BY <2>3, ApproachLeaves DEF SaleTyped
  <2>4. warned \subseteq warned'
    BY <1>8, <2>3 DEF RefreshFloor, Calm
  <2> QED BY <2>1, <2>2, <2>4 DEF Grows, ReceiptStep
<1>9. ASSUME NEW r \in Runs, FindSession(r) PROVE Goal
  <2>1. UNCHANGED <<finished, attempted, printed, dropped, receiptJobs>>
    BY <1>9 DEF FindSession, recordVars
  <2>2. misled \subseteq misled'
    BY <1>9 DEF FindSession
  <2>3. ASSUME NEW detail, Approach(r, detail) PROVE warned \subseteq warned'
    BY <2>3, ApproachLeaves DEF SaleTyped
  <2>4. warned \subseteq warned'
    BY <1>9, <2>3 DEF FindSession
  <2> QED BY <2>1, <2>2, <2>4 DEF Grows, ReceiptStep
<1>10. ASSUME NEW r \in Runs, SearchSession(r) PROVE Goal
  BY <1>10 DEF SearchSession, recordVars, Warn, Calm, Grows, ReceiptStep
<1>11. ASSUME NEW r \in Runs, CloseTable(r) PROVE Goal
  BY <1>11 DEF CloseTable, Warn, Calm, Grows, ReceiptStep
<1>12. ASSUME NEW r \in Runs, EndCancellation(r) PROVE Goal
  BY <1>12 DEF EndCancellation, recordVars, Grows, ReceiptStep
<1>13. ASSUME NEW r \in Runs, EnsureDocument(r) PROVE Goal
  <2>1. UNCHANGED <<finished, attempted, printed, dropped, receiptJobs, misled>>
    BY <1>13 DEF EnsureDocument, recordVars
  <2>2. warned \subseteq warned'
    BY <1>13 DEF EnsureDocument, WithDocument, WithoutDocument, Warn, Calm
  <2> QED BY <2>1, <2>2 DEF Grows, ReceiptStep
<1>14. ASSUME NEW r \in Runs, IssueDocument(r) PROVE Goal
  <2>1. UNCHANGED <<finished, attempted, printed, dropped, receiptJobs, misled>>
    BY <1>14 DEF IssueDocument
  <2>2. warned \subseteq warned'
    BY <1>14 DEF IssueDocument, WithDocument, WithoutDocument, Warn, Calm
  <2> QED BY <2>1, <2>2 DEF Grows, ReceiptStep
<1>15. ASSUME NEW r \in Runs, EndSale(r) PROVE Goal
  <2>1. r[1] \in SaleOrders
    BY DEF Runs
  <2>2. UNCHANGED <<printed, dropped, misled>> /\ finished \subseteq finished'
        /\ warned \subseteq warned'
    BY <1>15 DEF EndSale, Warn, Calm
  <2>3. ReceiptStep
    BY <1>15, <2>1 DEF EndSale, ReceiptStep, PrintsReceipt, Warn
  <2>4. attempted \subseteq attempted'
    BY <2>3 DEF ReceiptStep
  <2> QED BY <2>2, <2>3, <2>4 DEF Grows
<1>16. ASSUME NEW r \in Runs, PollDocument(r) PROVE Goal
  BY <1>16 DEF PollDocument, recordVars, Warn, Calm, Grows, ReceiptStep
<1>17. ASSUME NEW o, PrintOfficial(o) PROVE Goal
  BY <1>17 DEF PrintOfficial, recordVars, Warn, Calm, Grows, ReceiptStep
<1>18. CASE UNCHANGED closingVars
  BY <1>0, <1>18 DEF closingVars, recordVars
<1>19. ASSUME NEW o, ReadLate(o) \/ ShowLate(o) PROVE Goal
  BY <1>19 DEF ReadLate, ShowLate, recordVars, Grows, ReceiptStep
<1> QED
  BY <1>1, <1>2, <1>3, <1>4, <1>5, <1>6, <1>7, <1>8, <1>9, <1>10, <1>11, <1>12, <1>13, <1>14,
     <1>15, <1>16, <1>17, <1>18, <1>19
  DEF ClosingNext

\* So a sale has one attempt at its receipt.
LEMMA ReceiptsStayAskedOnce ==
  ASSUME RecordsTyped, ReceiptsAreAskedOnce, Grows, ReceiptStep
  PROVE ReceiptsAreAskedOnce' /\ receiptJobs' \in [SaleOrders -> Nat]
<1>1. CASE UNCHANGED <<receiptJobs, attempted>>
  BY <1>1 DEF ReceiptsAreAskedOnce, Grows, RecordsTyped
<1>2. ASSUME NEW o \in SaleOrders, o \notin attempted, attempted' = attempted \cup {o},
             \/ receiptJobs' = AskedReceipt(o)
             \/ receiptJobs' = receiptJobs /\ o \in warned'
      PROVE ReceiptsAreAskedOnce' /\ receiptJobs' \in [SaleOrders -> Nat]
  <2>1. receiptJobs[o] = 0 /\ receiptJobs \in [SaleOrders -> Nat]
    BY <1>2 DEF ReceiptsAreAskedOnce, RecordsTyped
  <2>2. receiptJobs' \in [SaleOrders -> Nat]
    BY <1>2, <2>1 DEF AskedReceipt
  <2>3. receiptJobs'[o] \in {0, 1} /\ (o \notin warned' => receiptJobs'[o] = 1)
    BY <1>2, <2>1 DEF AskedReceipt
  <2>4. \A q \in SaleOrders : q # o => receiptJobs'[q] = receiptJobs[q]
    BY <1>2, <2>1 DEF AskedReceipt
  <2>5. ASSUME NEW q \in SaleOrders
        PROVE /\ receiptJobs'[q] <= 1 /\ (q \notin attempted' => receiptJobs'[q] = 0)
              /\ q \in attempted' /\ q \notin warned' => receiptJobs'[q] = 1
    BY <1>2, <2>1, <2>3, <2>4 DEF ReceiptsAreAskedOnce, Grows
  <2> QED BY <2>2, <2>5 DEF ReceiptsAreAskedOnce
<1> QED BY <1>1, <1>2 DEF ReceiptStep

\* How a run begins, reads its order, goes through its table and its document, and ends.
Begins(r) ==
  /\ stage[r] = "IDLE" /\ finished' = finished
  /\ \/ stage'[r] = "ORDER" /\ r[2] = "SALE"
     \/ /\ stage'[r] \in {"FLOOR", "ORDERS"} /\ r[2] = "CANCELLATION"
        /\ orderStatus'[r[1]] = "CANCELLED"
     \/ stage'[r] = "FISCAL" /\ r[2] = "RECOVERY" /\ orderStatus[r[1]] = "PAID"
ReadsOrder(r) ==
  /\ stage[r] = "ORDER" /\ finished' = finished
  /\ \/ stage'[r] \in {"FLOOR", "FISCAL"} /\ orderStatus[r[1]] = "PAID"
     \/ stage'[r] = "IDLE"
SeesToTable(r) ==
  /\ stage[r] \in {"FLOOR", "SESSION", "SEARCH", "CLOSE"} /\ finished' = finished
  /\ stage'[r] \in {"SESSION", "SEARCH", "CLOSE", AfterTable(r)}
SeesToDocument(r) ==
  /\ stage[r] \in {"FISCAL", "ISSUE"} /\ finished' = finished
  /\ \/ stage'[r] = "ISSUE"
     \/ r[2] = "SALE" /\ stage'[r] = "RECEIPT" /\ documents'[r[1]] # "NONE"
     \/ r[2] = "SALE" /\ stage'[r] = "BARE" /\ r[1] \in warned'
     \/ r[2] # "SALE" /\ stage'[r] = "IDLE"
Ends(r) ==
  /\ stage'[r] = "IDLE" /\ finished' = finished \cup {r}
  /\ \/ stage[r] = "ORDERS"
     \/ /\ stage[r] \in {"RECEIPT", "BARE"}
        /\ stage[r] = "RECEIPT" /\ r[1] \notin warned' =>
             /\ merchant.provider # "ADE" => r[1] \in attempted'
             /\ PrintsOfficial => SalePrinted(r[1])'

StageStep ==
  \/ UNCHANGED <<stage, finished>>
  \/ \E r \in Runs :
       /\ stage' = [stage EXCEPT ![r] = stage'[r]]
       /\ Begins(r) \/ ReadsOrder(r) \/ SeesToTable(r) \/ SeesToDocument(r) \/ Ends(r)

\* Whatever is followed until it is printed stays so, or is printed, or reported.
PrintStep ==
  PrintsOfficial => \A o \in SaleOrders : SalePrinted(o) => SalePrinted(o)' \/ o \in warned'

\* Following a document keeps the sale printed, or finds it refused.
LEMMA FollowPrints ==
  ASSUME RunsTyped, PrintsOfficial, NEW r \in Runs, NEW docs, Follow(r, docs),
         printed \subseteq printed', dropped \subseteq dropped'
  PROVE /\ \A o \in SaleOrders :
             SalePrinted(o) => SalePrinted(o)' \/ (o = r[1] /\ docs[o] = "REJECTED")
        /\ SalePrinted(r[1])' \/ docs[r[1]] = "REJECTED"
<1>1. r[1] \in SaleOrders /\ r[2] \in Kinds /\ r = <<r[1], r[2]>>
  BY DEF Runs
<1>2. Polls > 0
  BY ClosingAssumption
<1>3. printing \subseteq printing'
  BY DEF Follow
<1>4. \A q \in Runs : q # r => background'[q] = background[q]
  BY DEF Follow, RunsTyped
<1>5. ASSUME docs[r[1]] # "REJECTED" PROVE SalePrinted(r[1])'
  <2>1. CASE docs[r[1]] = "ISSUED"
    BY <2>1 DEF Follow, SalePrinted
  <2>2. CASE docs[r[1]] # "ISSUED"
    <3>1. background'[r] = Polls
      BY <1>5, <2>2 DEF Follow, RunsTyped
    <3> QED BY <1>1, <1>2, <3>1 DEF SalePrinted
  <2> QED BY <2>1, <2>2
<1>6. ASSUME NEW o \in SaleOrders, SalePrinted(o), o # r[1] PROVE SalePrinted(o)'
  <2>1. \A k \in Kinds : background'[<<o, k>>] = background[<<o, k>>]
    <3>1. ASSUME NEW k \in Kinds PROVE <<o, k>> \in Runs /\ <<o, k>> # r
      BY <1>1, <1>6 DEF Runs
    <3> QED BY <1>4, <3>1
  <2> QED BY <1>3, <1>6, <2>1 DEF SalePrinted
<1> QED BY <1>5, <1>6

\* A refresh of the fiscal controller shows nothing that is not so.
FiscalCopies ==
  [runtime : {"NONE", "READY", "MANUAL", "UNUSABLE", "UNVERIFIED"},
   provider : Providers \cup {"NONE"}, docs : [SaleOrders -> DocumentStatus]]

\* Whatever a read brings, stale or not, exists.
LEMMA RefreshedIsTrue ==
  ASSUME RecordsTyped, RunsTyped, DocumentsExist, NEW answer \in Refreshed
  PROVE /\ answer.copy \in FiscalCopies
        /\ \A o \in SaleOrders : answer.copy.docs[o] # "NONE" => documents[o] # "NONE"
        /\ answer.copy.provider = "ADE" => merchant.provider = "ADE"
<1> DEFINE Good(c) ==
      /\ c \in FiscalCopies /\ (\A o \in SaleOrders : c.docs[o] # "NONE" => documents[o] # "NONE")
      /\ c.provider = "ADE" => merchant.provider = "ADE"
<1>1. Good(fiscal)
  BY DEF RunsTyped, DocumentsExist, FiscalCopies
<1>2. ASSUME NEW a \in {merchant.runtime, "UNUSABLE"}, NEW d \in {documents, fiscal.docs}
      PROVE Good([runtime |-> a, provider |-> merchant.provider, docs |-> d])
  <2>1. d \in [SaleOrders -> DocumentStatus] /\ \A o \in SaleOrders : d[o] # "NONE" => documents[o] # "NONE"
    BY <1>1 DEF RecordsTyped, FiscalCopies
  <2>2. a \in {"READY", "MANUAL", "UNUSABLE"} /\ merchant.provider \in Providers
    BY DEF RecordsTyped
  <2> QED BY <2>1, <2>2 DEF FiscalCopies
<1>3. Good([fiscal EXCEPT !.runtime = "UNVERIFIED"])
  <2>1. PICK f : f = fiscal
    OBVIOUS
  <2>2. f \in FiscalCopies
    BY <1>1, <2>1
  <2>3. PICK g : g = [f EXCEPT !.runtime = "UNVERIFIED"]
    OBVIOUS
  <2>4. g \in FiscalCopies /\ g.docs = f.docs /\ g.provider = f.provider
    BY <2>2, <2>3 DEF FiscalCopies
  <2> QED BY <1>1, <2>1, <2>3, <2>4
<1>4. \/ answer.copy = fiscal
      \/ \E a \in {merchant.runtime, "UNUSABLE"}, d \in {documents, fiscal.docs} :
           answer.copy = [runtime |-> a, provider |-> merchant.provider, docs |-> d]
      \/ answer.copy = [fiscal EXCEPT !.runtime = "UNVERIFIED"]
  BY DEF Refreshed
<1>5. Good(answer.copy)
  BY <1>1, <1>2, <1>3, <1>4
<1> QED BY <1>5

\* One run takes a step.
LEMMA OneStage ==
  ASSUME RunsTyped, NEW r \in Runs, NEW s \in Stages, Go(r, s)
  PROVE stage'[r] = s /\ stage' = [stage EXCEPT ![r] = stage'[r]]
BY DEF Go, RunsTyped

\* A step that leaves polls and the printer alone.
LEMMA StillPrinted ==
  ASSUME Grows, UNCHANGED <<background, printing>>
  PROVE PrintStep
BY DEF Grows, PrintStep, SalePrinted

\* Every step moves at most one run, and as above.
LEMMA StageSteps ==
  ASSUME SaleTyped, DocumentsExist, Grows, [ClosingNext]_closingVars
  PROVE StageStep
<1>0. UNCHANGED <<stage, finished>> => StageStep
  BY DEF StageStep
<1>19. ASSUME NEW r \in Runs PROVE r[1] \in SaleOrders /\ AfterTable(r) \in Stages
  BY DEF Runs, AfterTable, Stages
<1>20. RunsTyped /\ RecordsTyped
  BY DEF SaleTyped
<1>21. ASSUME NEW o \in SaleOrders, NEW k \in Kinds
       PROVE <<o, k>> \in Runs /\ <<o, k>>[1] = o /\ <<o, k>>[2] = k
  BY DEF Runs
<1>1. ASSUME NEW p, OtherTill(p) PROVE StageStep
  BY <1>0, <1>1 DEF OtherTill
<1>2. ASSUME NEW o, PayOrder(o) \/ CancelElsewhere(o) \/ IssueElsewhere(o) \/ ConcludeDocument(o)
      PROVE StageStep
  BY <1>0, <1>2 DEF PayOrder, CancelElsewhere, IssueElsewhere, ConcludeDocument
<1>3. ASSUME NEW o \in SaleOrders, CancelOrder(o) PROVE StageStep
  <2>1. <<o, "CANCELLATION">> \in Runs
    BY <1>21 DEF Kinds
  <2>2. PICK r \in Runs : r = <<o, "CANCELLATION">>
    BY <2>1
  <2>3. r[1] = o /\ r[2] = "CANCELLATION"
    BY <2>2
  <2>4. orderStatus'[o] = "CANCELLED" /\ finished' = finished
    BY <1>3, <1>20 DEF CancelOrder, RecordsTyped
  <2>5. stage[r] = "IDLE" /\ \E s \in {"FLOOR", "ORDERS"} : Go(r, s)
    BY <1>3, <2>2 DEF CancelOrder, StartRun
  <2>6. stage'[r] \in {"FLOOR", "ORDERS"} /\ stage' = [stage EXCEPT ![r] = stage'[r]]
    BY <1>20, <2>5, OneStage DEF Stages
  <2> QED BY <2>3, <2>4, <2>5, <2>6 DEF StageStep, Begins
<1>4. ASSUME NEW o \in SaleOrders, ObserveCheckout(o) \/ FinishOnScreen(o) PROVE StageStep
  <2>1. PICK r \in Runs : r = <<o, "SALE">>
    BY <1>21 DEF Kinds
  <2>2. UNCHANGED stage \/ (stage[r] = "IDLE" /\ Go(r, "ORDER"))
    BY <1>4, <2>1 DEF ObserveCheckout, FinishOnScreen, StartRun
  <2>3. finished' = finished
    BY <1>4 DEF ObserveCheckout, FinishOnScreen
  <2>4. CASE stage[r] = "IDLE" /\ Go(r, "ORDER")
    <3>1. stage'[r] = "ORDER" /\ stage' = [stage EXCEPT ![r] = stage'[r]]
      BY <1>20, <2>4, OneStage DEF Stages
    <3> QED BY <2>1, <2>3, <2>4, <3>1 DEF StageStep, Begins
  <2> QED BY <1>0, <2>2, <2>3, <2>4
<1>5. ASSUME NEW o \in SaleOrders, RecoverDocument(o) PROVE StageStep
  <2>1. PICK r \in Runs : r = <<o, "RECOVERY">>
    BY <1>21 DEF Kinds
  <2>2. stage[r] = "IDLE" /\ Go(r, "FISCAL") /\ finished' = finished /\ orderStatus[o] = "PAID"
    BY <1>5, <2>1 DEF RecoverDocument, StartRun
  <2>3. stage'[r] = "FISCAL" /\ stage' = [stage EXCEPT ![r] = stage'[r]]
    BY <1>20, <2>2, OneStage DEF Stages
  <2> QED BY <2>1, <2>2, <2>3 DEF StageStep, Begins
<1>6. CASE AnswerCommand \/ LoseCommand \/ CloseSelection \/ RefreshScreen
  BY <1>0, <1>6 DEF AnswerCommand, LoseCommand, CloseSelection, RefreshScreen, untouched
<1>7. ASSUME NEW kind, NEW o, CommandSession(kind, o) PROVE StageStep
  BY <1>0, <1>7 DEF CommandSession, untouched
<1>8. ASSUME NEW p, NEW o, SelectTable(p) \/ CommandOpening(p, o) PROVE StageStep
  BY <1>0, <1>8 DEF SelectTable, CommandOpening, untouched
<1>9. ASSUME NEW r \in Runs, PollDocument(r) PROVE StageStep
  BY <1>0, <1>9 DEF PollDocument
<1>10. ASSUME NEW o, PrintOfficial(o) PROVE StageStep
  BY <1>0, <1>10 DEF PrintOfficial
<1>11. ASSUME NEW r \in Runs, ReloadOrder(r) PROVE StageStep
  <2>1. stage[r] = "ORDER" /\ finished' = finished
    BY <1>11 DEF ReloadOrder
  <2>2. \/ orderStatus[r[1]] = "PAID" /\ (Go(r, "FLOOR") \/ Go(r, "FISCAL"))
        \/ Go(r, "IDLE")
    BY <1>11 DEF ReloadOrder
  <2>3. /\ stage' = [stage EXCEPT ![r] = stage'[r]]
        /\ \/ stage'[r] \in {"FLOOR", "FISCAL"} /\ orderStatus[r[1]] = "PAID"
           \/ stage'[r] = "IDLE"
    BY <1>20, <2>2, OneStage DEF Stages
  <2> QED BY <2>1, <2>3 DEF StageStep, ReadsOrder
<1>12. ASSUME NEW r \in Runs, RefreshFloor(r) PROVE StageStep
  <2>1. stage[r] = "FLOOR" /\ finished' = finished
    BY <1>12 DEF RefreshFloor
  <2>2. Go(r, "SESSION") \/ (\E detail : Approach(r, detail))
    BY <1>12 DEF RefreshFloor
  <2>3. /\ stage' = [stage EXCEPT ![r] = stage'[r]]
        /\ stage'[r] \in {"SESSION", "SEARCH", "CLOSE", AfterTable(r)}
    BY <1>20, <2>2, OneStage, ApproachLeaves DEF Stages
  <2> QED BY <2>1, <2>3 DEF StageStep, SeesToTable
<1>13. ASSUME NEW r \in Runs, FindSession(r) PROVE StageStep
  <2>1. stage[r] = "SESSION" /\ finished' = finished
    BY <1>13 DEF FindSession
  <2>2. \E detail : Approach(r, detail)
    BY <1>13 DEF FindSession
  <2>3. /\ stage' = [stage EXCEPT ![r] = stage'[r]]
        /\ stage'[r] \in {"SESSION", "SEARCH", "CLOSE", AfterTable(r)}
    BY <1>20, <2>2, ApproachLeaves
  <2> QED BY <2>1, <2>3 DEF StageStep, SeesToTable
<1>14. ASSUME NEW r \in Runs, SearchSession(r) PROVE StageStep
  <2>1. stage[r] = "SEARCH" /\ finished' = finished
    BY <1>14 DEF SearchSession
  <2>2. Go(r, "CLOSE") \/ Go(r, AfterTable(r))
    BY <1>14 DEF SearchSession, Judge
  <2>3. /\ stage' = [stage EXCEPT ![r] = stage'[r]]
        /\ stage'[r] \in {"SESSION", "SEARCH", "CLOSE", AfterTable(r)}
    BY <1>19, <1>20, <2>2, OneStage DEF Stages
  <2> QED BY <2>1, <2>3 DEF StageStep, SeesToTable
<1>15. ASSUME NEW r \in Runs, CloseTable(r) PROVE StageStep
  <2>1. stage[r] = "CLOSE" /\ finished' = finished /\ Go(r, AfterTable(r))
    BY <1>15 DEF CloseTable
  <2>3. stage' = [stage EXCEPT ![r] = stage'[r]] /\ stage'[r] = AfterTable(r)
    BY <1>19, <1>20, <2>1, OneStage
  <2> QED BY <2>1, <2>3 DEF StageStep, SeesToTable
<1>16. ASSUME NEW r \in Runs, EndCancellation(r) PROVE StageStep
  <2>1. stage[r] = "ORDERS" /\ finished' = finished \cup {r} /\ Go(r, "IDLE")
    BY <1>16 DEF EndCancellation
  <2>3. stage' = [stage EXCEPT ![r] = stage'[r]] /\ stage'[r] = "IDLE"
    BY <1>20, <2>1, OneStage DEF Stages
  <2> QED BY <2>1, <2>3 DEF StageStep, Ends
<1>17. ASSUME NEW r \in Runs, EnsureDocument(r) PROVE StageStep
  <2>1. stage[r] = "FISCAL" /\ finished' = finished /\ documents' = documents
    BY <1>17 DEF EnsureDocument, recordVars
  <2>2. PICK answer \in Refreshed :
          \/ WithoutDocument(r) \/ Go(r, "ISSUE")
          \/ answer.copy.docs[r[1]] # "NONE"
               /\ WithDocument(r, answer.copy.docs, answer.copy.docs[r[1]] = "REJECTED")
    BY <1>17 DEF EnsureDocument
  <2>3. answer.copy.docs[r[1]] # "NONE" => documents[r[1]] # "NONE"
    BY <1>19, <1>20, <2>2, RefreshedIsTrue
  <2>4. CASE WithoutDocument(r)
    <3>1. r[1] \in warned' /\ Go(r, IF r[2] = "SALE" THEN "BARE" ELSE "IDLE")
      BY <2>4 DEF WithoutDocument, Warn
    <3>2. /\ stage' = [stage EXCEPT ![r] = stage'[r]]
          /\ stage'[r] = IF r[2] = "SALE" THEN "BARE" ELSE "IDLE"
      BY <1>20, <3>1, OneStage DEF Stages
    <3> QED BY <2>1, <3>1, <3>2 DEF StageStep, SeesToDocument
  <2>5. CASE Go(r, "ISSUE")
    <3>2. stage' = [stage EXCEPT ![r] = stage'[r]] /\ stage'[r] = "ISSUE"
      BY <1>20, <2>5, OneStage DEF Stages
    <3> QED BY <2>1, <3>2 DEF StageStep, SeesToDocument
  <2>6. CASE answer.copy.docs[r[1]] # "NONE"
               /\ WithDocument(r, answer.copy.docs, answer.copy.docs[r[1]] = "REJECTED")
    <3>1. Go(r, IF r[2] = "SALE" THEN "RECEIPT" ELSE "IDLE")
      BY <2>6 DEF WithDocument
    <3>2. /\ stage' = [stage EXCEPT ![r] = stage'[r]]
          /\ stage'[r] = IF r[2] = "SALE" THEN "RECEIPT" ELSE "IDLE"
      BY <1>20, <3>1, OneStage DEF Stages
    <3> QED BY <2>1, <2>3, <2>6, <3>2 DEF StageStep, SeesToDocument
  <2> QED BY <2>2, <2>4, <2>5, <2>6
<1>18. ASSUME NEW r \in Runs, IssueDocument(r) PROVE StageStep
  <2>1. stage[r] = "ISSUE" /\ finished' = finished
    BY <1>18 DEF IssueDocument
  <2>2. \/ WithoutDocument(r)
        \/ documents' = Issued(r[1]) /\ WithDocument(r, fiscal'.docs, documents'[r[1]] = "REJECTED")
    BY <1>18 DEF IssueDocument
  <2>3. documents' = Issued(r[1]) => documents'[r[1]] # "NONE"
    BY <1>19, <1>20 DEF Issued, Pending, RecordsTyped
  <2>4. CASE WithoutDocument(r)
    <3>1. r[1] \in warned' /\ Go(r, IF r[2] = "SALE" THEN "BARE" ELSE "IDLE")
      BY <2>4 DEF WithoutDocument, Warn
    <3>2. /\ stage' = [stage EXCEPT ![r] = stage'[r]]
          /\ stage'[r] = IF r[2] = "SALE" THEN "BARE" ELSE "IDLE"
      BY <1>20, <3>1, OneStage DEF Stages
    <3> QED BY <2>1, <3>1, <3>2 DEF StageStep, SeesToDocument
  <2>6. CASE documents' = Issued(r[1]) /\ WithDocument(r, fiscal'.docs, documents'[r[1]] = "REJECTED")
    <3>1. Go(r, IF r[2] = "SALE" THEN "RECEIPT" ELSE "IDLE")
      BY <2>6 DEF WithDocument
    <3>2. /\ stage' = [stage EXCEPT ![r] = stage'[r]]
          /\ stage'[r] = IF r[2] = "SALE" THEN "RECEIPT" ELSE "IDLE"
      BY <1>20, <3>1, OneStage DEF Stages
    <3> QED BY <2>1, <2>3, <2>6, <3>2 DEF StageStep, SeesToDocument
  <2> QED BY <2>2, <2>4, <2>6
<1>22. ASSUME NEW r \in Runs, EndSale(r) PROVE StageStep
  <2>1. stage[r] \in {"RECEIPT", "BARE"} /\ finished' = finished \cup {r} /\ Go(r, "IDLE")
    BY <1>22 DEF EndSale
  <2>2. stage' = [stage EXCEPT ![r] = stage'[r]] /\ stage'[r] = "IDLE"
    BY <1>20, <2>1, OneStage DEF Stages
  <2>3. ASSUME stage[r] = "RECEIPT", r[1] \notin warned'
        PROVE /\ merchant.provider # "ADE" => r[1] \in attempted'
              /\ PrintsOfficial => SalePrinted(r[1])'
    <3>1. merchant.provider # "ADE" => r[1] \in attempted'
      BY <1>22, <2>3 DEF EndSale, PrintsReceipt, DocumentsExist, Warn
    <3>2. Follow(r, fiscal.docs) /\ fiscal.docs[r[1]] # "REJECTED"
      BY <1>22, <2>3 DEF EndSale, Warn
    <3>3. printed \subseteq printed' /\ dropped \subseteq dropped'
      BY DEF Grows
    <3>4. PrintsOfficial => SalePrinted(r[1])'
      BY <1>20, <3>2, <3>3, FollowPrints
    <3> QED BY <3>1, <3>4
  <2> QED BY <2>1, <2>2, <2>3 DEF StageStep, Ends
<1>23. CASE RefreshDocuments
  BY <1>0, <1>23 DEF RefreshDocuments
<1>24. CASE UNCHANGED closingVars
  BY <1>0, <1>24 DEF closingVars
<1>25. ASSUME NEW o, ReadLate(o) \/ ShowLate(o) PROVE StageStep
  BY <1>0, <1>25 DEF ReadLate, ShowLate
<1> QED
  BY <1>1, <1>2, <1>3, <1>4, <1>5, <1>6, <1>7, <1>8, <1>9, <1>10, <1>11, <1>12, <1>13, <1>14,
     <1>15, <1>16, <1>17, <1>18, <1>22, <1>23, <1>24, <1>25
  DEF ClosingNext

\* No step shows a document that does not exist.
LEMMA FiscalSteps ==
  ASSUME SaleTyped, DocumentsExist, OneRunCloses, [ClosingNext]_closingVars
  PROVE fiscal' \in FiscalCopies /\ DocumentsExist'
<1>1. RecordsTyped /\ RunsTyped
  BY DEF SaleTyped
<1>2. DocumentStep /\ merchant' = merchant
  BY RecordSteps
<1>3. \A o \in SaleOrders : documents[o] # "NONE" => documents'[o] # "NONE"
  BY <1>1, <1>2 DEF DocumentStep, RecordsTyped, Issued, Pending
<1> DEFINE Goal == fiscal' \in FiscalCopies /\ DocumentsExist'
<1>4. ASSUME fiscal' = fiscal PROVE Goal
  BY <1>1, <1>2, <1>3, <1>4 DEF RunsTyped, FiscalCopies, DocumentsExist
<1>5. ASSUME NEW answer \in Refreshed, fiscal' = answer.copy PROVE Goal
  BY <1>1, <1>2, <1>3, <1>5, RefreshedIsTrue DEF DocumentsExist
<1>6. CASE RefreshDocuments
  BY <1>5, <1>6 DEF RefreshDocuments, Refresh
<1>7. ASSUME NEW r \in Runs, EnsureDocument(r) \/ PollDocument(r) PROVE Goal
  BY <1>5, <1>7 DEF EnsureDocument, PollDocument, Refresh
<1>8. ASSUME NEW r \in Runs, IssueDocument(r) PROVE Goal
  <2>1. r[1] \in SaleOrders
    BY DEF Runs
  <2>2. CASE fiscal' = fiscal
    BY <1>4, <2>2
  <2>3. CASE documents' = Issued(r[1]) /\ fiscal' = [fiscal EXCEPT !.docs[r[1]] = documents'[r[1]]]
    <3>1. PICK f \in FiscalCopies : f = fiscal
      BY <1>1 DEF RunsTyped, FiscalCopies
    <3>2. PICK d : d = documents'[r[1]]
      OBVIOUS
    <3>3. d \in DocumentStatus /\ d # "NONE"
      BY <1>1, <2>1, <2>3, <3>2 DEF Issued, Pending, RecordsTyped, DocumentStatus
    <3>4. fiscal' = [f EXCEPT !.docs = [f.docs EXCEPT ![r[1]] = d]]
      BY <2>3, <3>1, <3>2
    <3>5. f.docs \in [SaleOrders -> DocumentStatus]
      BY <3>1 DEF FiscalCopies
    <3>6. PICK g \in [SaleOrders -> DocumentStatus] : g = [f.docs EXCEPT ![r[1]] = d]
      BY <3>3, <3>5
    <3>7. fiscal' = [f EXCEPT !.docs = g]
      BY <3>4, <3>6
    <3>8. fiscal' \in FiscalCopies /\ fiscal'.docs = g /\ fiscal'.provider = f.provider
      BY <3>1, <3>7 DEF FiscalCopies
    <3>9. \A o \in SaleOrders : g[o] # "NONE" => documents'[o] # "NONE"
      BY <1>3, <2>1, <3>1, <3>2, <3>3, <3>5, <3>6 DEF DocumentsExist
    <3> QED BY <1>2, <3>1, <3>8, <3>9 DEF DocumentsExist
  <2> QED BY <1>8, <2>2, <2>3 DEF IssueDocument
<1>9. ASSUME NEW r \in Runs,
             \/ ReloadOrder(r) \/ RefreshFloor(r) \/ FindSession(r) \/ SearchSession(r)
             \/ CloseTable(r) \/ EndCancellation(r) \/ EndSale(r)
      PROVE Goal
  BY <1>4, <1>9 DEF ReloadOrder, RefreshFloor, FindSession, SearchSession, CloseTable,
    EndCancellation, EndSale
<1>10. ASSUME NEW o,
              \/ PayOrder(o) \/ CancelElsewhere(o) \/ IssueElsewhere(o) \/ ConcludeDocument(o)
              \/ ObserveCheckout(o) \/ FinishOnScreen(o) \/ CancelOrder(o) \/ RecoverDocument(o)
              \/ PrintOfficial(o)
       PROVE Goal
  BY <1>4, <1>10 DEF PayOrder, CancelElsewhere, IssueElsewhere, ConcludeDocument, ObserveCheckout,
    FinishOnScreen, CancelOrder, RecoverDocument, PrintOfficial
<1>11. CASE AnswerCommand \/ LoseCommand \/ CloseSelection \/ RefreshScreen
  BY <1>4, <1>11 DEF AnswerCommand, LoseCommand, CloseSelection, RefreshScreen, untouched
<1>12. ASSUME NEW kind, NEW o, CommandSession(kind, o) PROVE Goal
  BY <1>4, <1>12 DEF CommandSession, untouched
<1>13. ASSUME NEW p, NEW o, SelectTable(p) \/ CommandOpening(p, o) PROVE Goal
  BY <1>4, <1>13 DEF SelectTable, CommandOpening, untouched
<1>14. ASSUME NEW p, OtherTill(p) PROVE Goal
  BY <1>4, <1>14 DEF OtherTill
<1>15. CASE UNCHANGED closingVars
  BY <1>4, <1>15 DEF closingVars
<1>16. ASSUME NEW o, ReadLate(o) \/ ShowLate(o) PROVE Goal
  BY <1>4, <1>16 DEF ReadLate, ShowLate
<1> QED
  BY <1>6, <1>7, <1>8, <1>9, <1>10, <1>11, <1>12, <1>13, <1>14, <1>15, <1>16 DEF ClosingNext

\* No step drops a sale whose receipt is awaited, unless it reports it.
LEMMA PrintSteps ==
  ASSUME SaleTyped, DocumentsExist, Grows, [ClosingNext]_closingVars
  PROVE PrintStep /\ background' \in [Runs -> Nat]
<1>1. RunsTyped /\ background \in [Runs -> Nat] /\ printed \subseteq printed'
      /\ dropped \subseteq dropped'
  BY DEF SaleTyped, RunsTyped, Grows
<1> DEFINE Goal == PrintStep /\ background' \in [Runs -> Nat]
           Same == UNCHANGED <<background, printing>>
<1>2. Same => Goal
  BY <1>1, StillPrinted
<1>3. ASSUME NEW r \in Runs, NEW docs, Follow(r, docs), docs[r[1]] = "REJECTED" => r[1] \in warned'
      PROVE Goal
  <2>1. background' \in [Runs -> Nat]
    BY <1>1, <1>3, ClosingAssumption DEF Follow
  <2>2. r[1] \in SaleOrders
    BY DEF Runs
  <2>3. PrintStep
    BY <1>1, <1>3, <2>2, FollowPrints DEF PrintStep
  <2> QED BY <2>1, <2>3
<1>4. ASSUME NEW r \in Runs, NEW docs, WithDocument(r, docs, docs[r[1]] = "REJECTED")
      PROVE Goal
  <2>1. CASE r[2] = "SALE"
    BY <1>2, <1>4, <2>1 DEF WithDocument
  <2>2. CASE r[2] # "SALE"
    BY <1>3, <1>4, <2>2 DEF WithDocument, Warn
  <2> QED BY <2>1, <2>2
<1>5. ASSUME NEW r \in Runs, EnsureDocument(r) PROVE Goal
  <2>1. PICK answer \in Refreshed :
          \/ Same
          \/ WithDocument(r, answer.copy.docs, answer.copy.docs[r[1]] = "REJECTED")
    BY <1>5 DEF EnsureDocument, WithoutDocument
  <2> QED BY <1>2, <1>4, <2>1
<1>6. ASSUME NEW r \in Runs, IssueDocument(r) PROVE Goal
  <2>1. CASE Same
    BY <1>2, <2>1
  <2>2. CASE /\ documents' = Issued(r[1])
             /\ fiscal' = [fiscal EXCEPT !.docs[r[1]] = documents'[r[1]]]
             /\ WithDocument(r, fiscal'.docs, documents'[r[1]] = "REJECTED")
    <3>1. r[1] \in SaleOrders /\ fiscal \in FiscalCopies
      BY <1>1 DEF Runs, RunsTyped, FiscalCopies
    <3>2. fiscal.docs \in [SaleOrders -> DocumentStatus] /\ fiscal'.docs = [fiscal.docs EXCEPT ![r[1]] = documents'[r[1]]]
      BY <2>2, <3>1 DEF FiscalCopies
    <3>3. fiscal'.docs[r[1]] = documents'[r[1]]
      BY <3>1, <3>2
    <3> QED BY <1>4, <2>2, <3>3
  <2> QED BY <1>6, <2>1, <2>2 DEF IssueDocument, WithoutDocument
<1>7. ASSUME NEW r \in Runs, EndSale(r) PROVE Goal
  <2>1. CASE Same
    BY <1>2, <2>1
  <2>2. CASE stage[r] = "RECEIPT"
    <3>1. Follow(r, fiscal.docs) /\ (fiscal.docs[r[1]] = "REJECTED" => r[1] \in warned')
      BY <1>7, <2>2 DEF EndSale, Warn
    <3> QED BY <1>3, <3>1
  <2> QED BY <1>7, <2>1, <2>2 DEF EndSale
<1>8. ASSUME NEW r \in Runs, PollDocument(r) PROVE Goal
  <2>1. PICK answer \in Refreshed :
          \/ /\ background[r] = 1 /\ background' = [background EXCEPT ![r] = 0]
             /\ r[1] \in dropped' \cup warned' /\ UNCHANGED printing
          \/ /\ Follow(r, answer.copy.docs)
             /\ answer.copy.docs[r[1]] = "REJECTED" => r[1] \in warned'
          \/ /\ background[r] # 1 /\ background' = [background EXCEPT ![r] = @ - 1]
             /\ UNCHANGED printing
    BY <1>8 DEF PollDocument, Warn
  <2>2. background[r] > 0 /\ r[1] \in SaleOrders /\ r = <<r[1], r[2]>> /\ r[2] \in Kinds
    BY <1>8 DEF PollDocument, Runs
  <2>3. CASE /\ background[r] = 1 /\ background' = [background EXCEPT ![r] = 0]
             /\ r[1] \in dropped' \cup warned' /\ UNCHANGED printing
    <3>1. background' \in [Runs -> Nat] /\ \A q \in Runs : q # r => background'[q] = background[q]
      BY <1>1, <2>3
    <3>2. ASSUME NEW o \in SaleOrders, SalePrinted(o) PROVE SalePrinted(o)' \/ o \in warned'
      <4>1. CASE o = r[1]
        BY <2>3, <4>1 DEF SalePrinted
      <4>2. CASE o # r[1]
        <5>1. \A k \in Kinds : <<o, k>> \in Runs /\ <<o, k>> # r
          BY <2>2, <4>2 DEF Runs
        <5> QED BY <1>1, <2>3, <3>1, <3>2, <5>1 DEF SalePrinted
      <4> QED BY <4>1, <4>2
    <3> QED BY <3>1, <3>2 DEF PrintStep
  <2>4. CASE /\ Follow(r, answer.copy.docs)
             /\ answer.copy.docs[r[1]] = "REJECTED" => r[1] \in warned'
    BY <1>3, <2>4
  <2>5. CASE /\ background[r] # 1 /\ background' = [background EXCEPT ![r] = @ - 1]
             /\ UNCHANGED printing
    <3>1. /\ background' \in [Runs -> Nat]
          /\ \A q \in Runs : background[q] > 0 => background'[q] > 0
      BY <1>1, <2>2, <2>5
    <3>2. ASSUME NEW o \in SaleOrders, SalePrinted(o) PROVE SalePrinted(o)'
      <4>1. \A k \in Kinds : <<o, k>> \in Runs
        BY DEF Runs
      <4> QED BY <1>1, <2>5, <3>1, <3>2, <4>1 DEF SalePrinted
    <3> QED BY <3>1, <3>2 DEF PrintStep
  <2> QED BY <2>1, <2>3, <2>4, <2>5
<1>9. ASSUME NEW o, PrintOfficial(o) PROVE Goal
  <2>1. background' = background /\ (\A q : q \in printing => q \in printing' \cup printed' \/ q \in warned')
    BY <1>9 DEF PrintOfficial, Warn
  <2>2. PrintStep
    BY <1>1, <2>1 DEF PrintStep, SalePrinted
  <2> QED BY <1>1, <2>1, <2>2
<1>10. ASSUME NEW r \in Runs,
              \/ ReloadOrder(r) \/ RefreshFloor(r) \/ FindSession(r) \/ SearchSession(r)
              \/ CloseTable(r) \/ EndCancellation(r)
       PROVE Same
  BY <1>10 DEF ReloadOrder, RefreshFloor, FindSession, SearchSession, CloseTable, EndCancellation
<1>11. ASSUME NEW o,
              \/ PayOrder(o) \/ CancelElsewhere(o) \/ IssueElsewhere(o) \/ ConcludeDocument(o)
              \/ ObserveCheckout(o) \/ FinishOnScreen(o) \/ CancelOrder(o) \/ RecoverDocument(o)
       PROVE Same
  BY <1>11 DEF PayOrder, CancelElsewhere, IssueElsewhere, ConcludeDocument, ObserveCheckout,
    FinishOnScreen, CancelOrder, RecoverDocument
<1>12. AnswerCommand \/ LoseCommand \/ CloseSelection \/ RefreshScreen \/ RefreshDocuments => Same
  BY DEF AnswerCommand, LoseCommand, CloseSelection, RefreshScreen, RefreshDocuments, untouched
<1>13. ASSUME NEW kind, NEW o, CommandSession(kind, o) PROVE Same
  BY <1>13 DEF CommandSession, untouched
<1>14. ASSUME NEW p, NEW o, SelectTable(p) \/ CommandOpening(p, o) PROVE Same
  BY <1>14 DEF SelectTable, CommandOpening, untouched
<1>15. ASSUME NEW p, OtherTill(p) PROVE Same
  BY <1>15 DEF OtherTill
<1>16. UNCHANGED closingVars => Same
  BY DEF closingVars
<1>17. ASSUME NEW o, ReadLate(o) \/ ShowLate(o) PROVE Same
  BY <1>17 DEF ReadLate, ShowLate
<1> QED
  BY <1>2, <1>5, <1>6, <1>7, <1>8, <1>9, <1>10, <1>11, <1>12, <1>13, <1>14, <1>15, <1>16, <1>17
  DEF ClosingNext

\* Orders stay settled, documents stay issued.
LEMMA RecordsStay ==
  ASSUME RecordsTyped, SettlingStep, DocumentStep
  PROVE \A o \in SaleOrders :
          /\ orderStatus[o] \in {"PAID", "CANCELLED"} => orderStatus'[o] = orderStatus[o]
          /\ OrderSettled(o, orderStatus) => OrderSettled(o, orderStatus')
          /\ documents[o] # "NONE" => documents'[o] # "NONE"
<1>1. \A o \in SaleOrders :
        orderStatus[o] \in {"PAID", "CANCELLED"} => orderStatus'[o] = orderStatus[o]
  BY DEF RecordsTyped, SettlingStep
<1>2. \A o \in SaleOrders : documents[o] # "NONE" => documents'[o] # "NONE"
  BY DEF RecordsTyped, DocumentStep, Issued, Pending
<1> QED BY <1>1, <1>2 DEF OrderSettled

\* So runs stay runs of settled orders.
LEMMA RunsStayOfSettled ==
  ASSUME RecordsTyped, RunsTyped, RunsAreOfSettled, SettlingStep, DocumentStep, StageStep
  PROVE RunsAreOfSettled'
<1> DEFINE Good(r, st) ==
      st \notin {"IDLE", "ORDER"} =>
        /\ OrderSettled(r[1], orderStatus')
        /\ r[2] = "SALE" => orderStatus'[r[1]] = "PAID" /\ st # "ORDERS"
<1>1. \A r \in Runs : r[1] \in SaleOrders
  BY DEF Runs
<1>2. \A r \in Runs : Good(r, stage[r])
  BY <1>1, RecordsStay DEF RunsAreOfSettled
<1>3. \A o \in SaleOrders : Concluded(o) => OrderSettled(o, orderStatus')
  BY RecordsStay DEF RunsAreOfSettled
<1>4. CASE UNCHANGED <<stage, finished>>
  BY <1>2, <1>3, <1>4 DEF RunsAreOfSettled, Concluded
<1>5. ASSUME NEW r \in Runs, stage' = [stage EXCEPT ![r] = stage'[r]],
             Begins(r) \/ ReadsOrder(r) \/ SeesToTable(r) \/ SeesToDocument(r) \/ Ends(r)
      PROVE RunsAreOfSettled'
  <2>1. \A q \in Runs : q # r => stage'[q] = stage[q]
    BY <1>5 DEF RunsTyped
  <2>2. r[1] \in SaleOrders
    BY <1>1
  <2>3. Good(r, stage'[r])
    <3>1. CASE Begins(r)
      BY <2>2, <3>1, RecordsStay DEF Begins, OrderSettled
    <3>2. CASE ReadsOrder(r)
      BY <2>2, <3>2, RecordsStay DEF ReadsOrder, OrderSettled
    <3>3. CASE SeesToTable(r)
      BY <1>2, <3>3 DEF SeesToTable, AfterTable
    <3>4. CASE SeesToDocument(r)
      BY <1>2, <3>4 DEF SeesToDocument
    <3>5. CASE Ends(r)
      BY <3>5 DEF Ends
    <3> QED BY <1>5, <3>1, <3>2, <3>3, <3>4, <3>5
  <2>4. ASSUME NEW o \in SaleOrders, Concluded(o)' PROVE OrderSettled(o, orderStatus')
    <3>1. CASE Concluded(o)
      BY <1>3, <3>1
    <3>2. CASE ~ Concluded(o)
      <4>1. Ends(r) /\ r[1] = o
        BY <1>5, <2>4, <3>2 DEF Concluded, Begins, ReadsOrder, SeesToTable, SeesToDocument, Ends
      <4>2. stage[r] \notin {"IDLE", "ORDER"}
        BY <4>1 DEF Ends
      <4> QED BY <1>2, <4>1, <4>2
    <3> QED BY <3>1, <3>2
  <2> QED BY <1>2, <2>1, <2>3, <2>4 DEF RunsAreOfSettled
<1> QED BY <1>4, <1>5 DEF StageStep

\* So a run that ended without a report did its work.
LEMMA SalesStaySeenTo ==
  ASSUME SaleTyped, RunsAreOfSettled, SalesAreSeenTo, SettlingStep, DocumentStep, StageStep,
         Grows, PrintStep, merchant' = merchant
  PROVE SalesAreSeenTo'
<1>1. RecordsTyped /\ RunsTyped
  BY DEF SaleTyped
<1>8. stage \in [Runs -> Stages]
  BY <1>1 DEF RunsTyped
<1> SUFFICES ASSUME NEW o \in SaleOrders
             PROVE /\ stage'[<<o, "SALE">>] = "BARE" => o \in warned'
                   /\ stage'[<<o, "SALE">>] = "RECEIPT" => documents'[o] # "NONE"
                   /\ <<o, "SALE">> \in finished' =>
                        /\ orderStatus'[o] = "PAID"
                        /\ o \notin warned' =>
                             /\ documents'[o] # "NONE"
                             /\ merchant.provider # "ADE" => o \in attempted'
                             /\ PrintsOfficial => SalePrinted(o)'
  BY DEF SalesAreSeenTo, PrintsOfficial
<1>2. PICK s \in Runs : s = <<o, "SALE">>
  BY DEF Runs, Kinds
<1>3. s[1] = o /\ s[2] = "SALE"
  BY <1>2
<1>4. /\ stage[s] = "BARE" => o \in warned'
      /\ stage[s] = "RECEIPT" => documents'[o] # "NONE"
  BY <1>1, <1>2, RecordsStay DEF SalesAreSeenTo, Grows
<1>5. s \in finished =>
        /\ orderStatus'[o] = "PAID"
        /\ o \notin warned' =>
             /\ documents'[o] # "NONE"
             /\ merchant.provider # "ADE" => o \in attempted'
             /\ PrintsOfficial => SalePrinted(o)'
  BY <1>1, <1>2, RecordsStay DEF SalesAreSeenTo, Grows, PrintStep
<1>6. CASE UNCHANGED <<stage, finished>>
  BY <1>2, <1>4, <1>5, <1>6
<1>7. ASSUME NEW r \in Runs, stage' = [stage EXCEPT ![r] = stage'[r]],
             Begins(r) \/ ReadsOrder(r) \/ SeesToTable(r) \/ SeesToDocument(r) \/ Ends(r)
      PROVE /\ stage'[s] = "BARE" => o \in warned'
            /\ stage'[s] = "RECEIPT" => documents'[o] # "NONE"
            /\ s \in finished' =>
                 /\ orderStatus'[o] = "PAID"
                 /\ o \notin warned' =>
                      /\ documents'[o] # "NONE"
                      /\ merchant.provider # "ADE" => o \in attempted'
                      /\ PrintsOfficial => SalePrinted(o)'
  <2>1. CASE r # s
    <3>1. stage'[s] = stage[s]
      BY <1>7, <1>8, <2>1
    <3>2. s \in finished' => s \in finished
      BY <1>7, <2>1 DEF Begins, ReadsOrder, SeesToTable, SeesToDocument, Ends
    <3> QED BY <1>4, <1>5, <3>1, <3>2
  <2>2. CASE r = s /\ (Begins(r) \/ ReadsOrder(r) \/ SeesToTable(r))
    BY <1>3, <1>5, <2>2 DEF Begins, ReadsOrder, SeesToTable, AfterTable
  <2>3. CASE r = s /\ SeesToDocument(r)
    BY <1>3, <1>5, <2>3 DEF SeesToDocument
  <2>4. CASE r = s /\ Ends(r)
    <3>1. stage[s] \in {"ORDERS", "RECEIPT", "BARE"} /\ stage'[s] = "IDLE"
      BY <2>4 DEF Ends
    <3>2. orderStatus[o] = "PAID" /\ stage[s] # "ORDERS"
      BY <1>3, <3>1 DEF RunsAreOfSettled
    <3>3. orderStatus'[o] = "PAID"
      BY <1>1, <3>2, RecordsStay
    <3>4. ASSUME o \notin warned'
          PROVE /\ documents'[o] # "NONE"
                /\ merchant.provider # "ADE" => o \in attempted'
                /\ PrintsOfficial => SalePrinted(o)'
      <4>1. stage[s] = "RECEIPT"
        BY <1>4, <3>1, <3>2, <3>4
      <4> QED BY <1>3, <1>4, <2>4, <3>4, <4>1 DEF Ends
    <3> QED BY <3>1, <3>3, <3>4
  <2> QED BY <1>7, <2>1, <2>2, <2>3, <2>4
<1> QED BY <1>2, <1>6, <1>7 DEF StageStep

\* What the till may show, and ask for.
Details ==
  {d \in [party : AnyParty, open : BOOLEAN, version : Nat, orders : SUBSET SaleOrders,
          blocking : BOOLEAN] : d.open => d.party \in Parties}
Selections == [table : AnyParty, detail : Details]
Requests ==
  {c \in [kind : Commands, party : AnyParty, version : Nat, order : SaleOrders \cup {NoSaleOrder}] :
     /\ c.kind # "NONE" => c.party \in Parties
     /\ c.kind = "ATTACH" => c.order \in SaleOrders}
Floors == [known : BOOLEAN, occupied : SUBSET Parties]

\* The type of what is shown, by its parts.
LEMMA ScreenIs ==
  /\ ScreenTyped <=> /\ floor \in Floors /\ late \in [SaleOrders -> Floors]
                     /\ selection \in Selections /\ command \in Requests
  /\ ScreenTyped' <=> /\ floor' \in Floors /\ late' \in [SaleOrders -> Floors]
                      /\ selection' \in Selections /\ command' \in Requests
BY DEF ScreenTyped, Floors, Selections, Details, Requests

\* What the till reads is what it may show.
LEMMA DetailsAre ==
  /\ NoDetail \in Details /\ NoSelection \in Selections /\ NoCommand \in Requests
  /\ NoFloor \in Floors
  /\ \A p \in AnyParty, d \in Details : [table |-> p, detail |-> d] \in Selections
  /\ \A s \in Selections, d \in Details : [s EXCEPT !.detail = d] \in Selections
  /\ \A p \in Parties, sessions \in [Parties -> PartyRow] :
       /\ Detail(p, sessions) \in Details
       /\ Detail(p, sessions).orders = sessions[p].orders /\ Detail(p, sessions).party = p
       /\ FloorOf(sessions) \in Floors
  /\ \A sessions : FloorOf(sessions) \in Floors
<1>1. NoDetail \in Details
  BY DEF NoDetail, Details, AnyParty
<1>2. \A p \in AnyParty, d \in Details : [table |-> p, detail |-> d] \in Selections
  BY DEF Selections
<1>3. NoSelection \in Selections /\ NoCommand \in Requests /\ NoFloor \in Floors
  BY <1>1, <1>2 DEF NoSelection, NoCommand, NoFloor, Requests, Floors, AnyParty, Commands
<1>4. \A s \in Selections, d \in Details : [s EXCEPT !.detail = d] \in Selections
  BY DEF Selections
<1>5. \A sessions : FloorOf(sessions) \in Floors
  BY DEF FloorOf, Floors, Occupied
<1>6. ASSUME NEW p \in Parties, NEW sessions \in [Parties -> PartyRow]
      PROVE /\ Detail(p, sessions) \in Details
            /\ Detail(p, sessions).orders = sessions[p].orders /\ Detail(p, sessions).party = p
  <2>1. sessions[p].version \in Nat /\ sessions[p].orders \in SUBSET SaleOrders
    BY <1>6 DEF PartyRow
  <2>2. PICK b : b = \E o \in sessions[p].orders : ~ OrderSettled(o, orderStatus)
    OBVIOUS
  <2>3. b \in BOOLEAN
    BY <2>2
  <2>4. Detail(p, sessions) = [party |-> p, open |-> sessions[p].status = "OPEN",
                               version |-> sessions[p].version, orders |-> sessions[p].orders,
                               blocking |-> b]
    BY <2>2 DEF Detail
  <2> QED BY <2>1, <2>3, <2>4 DEF Details, AnyParty
<1> QED BY <1>1, <1>2, <1>3, <1>4, <1>5, <1>6

\* A floor read earlier is shown; whoever it misleads is known.
LateStep(f) ==
  /\ floor' = f /\ UNCHANGED <<parties, stage>>
  /\ \A r \in Runs : stage[r] # "SEARCH" /\ (stage[r] = "SESSION" /\ Hides(f, r) => r[1] \in misled')

\* What a step may show on the floor.
FloorStep ==
  \/ floor' = floor \/ floor' = NoFloor \/ floor' = FloorOf(parties')
  \/ \E f \in Floors : LateStep(f)

\* What a step may leave to be shown later.
LEMMA LateSteps ==
  ASSUME ScreenTyped, [ClosingNext]_closingVars
  PROVE late' \in [SaleOrders -> Floors]
<1>1. late \in [SaleOrders -> Floors]
  BY ScreenIs
<1>2. \A sessions : FloorOf(sessions) \in Floors
  BY DetailsAre
<1>3. NoFloor \in Floors
  BY DetailsAre
<1> DEFINE Same == UNCHANGED late
<1>4. CASE AnswerCommand
  <2>1. \/ Same
        \/ \E o, sessions : late' = [late EXCEPT ![o] = FloorOf(sessions)]
    BY <1>4 DEF AnswerCommand
  <2> QED BY <1>1, <1>2, <2>1
<1>5. ASSUME NEW o, ReadLate(o) \/ ShowLate(o) PROVE late' \in [SaleOrders -> Floors]
  BY <1>1, <1>2, <1>3, <1>5 DEF ReadLate, ShowLate
<1>6. ASSUME NEW p, OtherTill(p) \/ SelectTable(p) PROVE Same
  BY <1>6 DEF OtherTill, SelectTable, shownVars
<1>7. ASSUME NEW o,
             \/ PayOrder(o) \/ CancelElsewhere(o) \/ IssueElsewhere(o) \/ ConcludeDocument(o)
             \/ ObserveCheckout(o) \/ FinishOnScreen(o) \/ CancelOrder(o) \/ RecoverDocument(o)
             \/ PrintOfficial(o)
      PROVE Same
  BY <1>7 DEF PayOrder, CancelElsewhere, IssueElsewhere, ConcludeDocument, ObserveCheckout,
    FinishOnScreen, CancelOrder, RecoverDocument, PrintOfficial, shownVars
<1>8. LoseCommand \/ CloseSelection \/ RefreshScreen \/ RefreshDocuments => Same
  BY DEF LoseCommand, CloseSelection, RefreshScreen, RefreshDocuments, shownVars
<1>9. ASSUME NEW kind, NEW o, CommandSession(kind, o) PROVE Same
  BY <1>9 DEF CommandSession
<1>10. ASSUME NEW p, NEW o, CommandOpening(p, o) PROVE Same
  BY <1>10 DEF CommandOpening
<1>11. ASSUME NEW r \in Runs,
              \/ ReloadOrder(r) \/ RefreshFloor(r) \/ FindSession(r) \/ SearchSession(r)
              \/ CloseTable(r) \/ EndCancellation(r)
       PROVE Same
  BY <1>11 DEF ReloadOrder, RefreshFloor, FindSession, SearchSession, CloseTable,
    EndCancellation, shownVars
<1>12. ASSUME NEW r \in Runs,
              EnsureDocument(r) \/ IssueDocument(r) \/ EndSale(r) \/ PollDocument(r)
       PROVE Same
  BY <1>12 DEF EnsureDocument, IssueDocument, EndSale, PollDocument, shownVars
<1>13. UNCHANGED closingVars => Same
  BY DEF closingVars, shownVars
<1> QED
  BY <1>1, <1>4, <1>5, <1>6, <1>7, <1>8, <1>9, <1>10, <1>11, <1>12, <1>13 DEF ClosingNext

\* Every step shows what may be shown, the floor as it is if it was read.
LEMMA ScreenSteps ==
  ASSUME SaleTyped, RecordsTyped', [ClosingNext]_closingVars
  PROVE ScreenTyped' /\ FloorStep
<1>0. /\ parties \in [Parties -> PartyRow] /\ parties' \in [Parties -> PartyRow]
      /\ floor \in Floors /\ selection \in Selections /\ command \in Requests
  BY ScreenIs DEF SaleTyped, RecordsTyped
<1> DEFINE Goal == floor' \in Floors /\ selection' \in Selections /\ command' \in Requests /\ FloorStep
<1>23. late' \in [SaleOrders -> Floors]
  BY LateSteps DEF SaleTyped
<1>20. \A sessions : FloorOf(sessions) \in Floors
  BY DetailsAre
<1>21. NoFloor \in Floors
  BY DetailsAre
<1>22. FloorStep => floor' \in Floors
  BY <1>0, <1>20, <1>21 DEF FloorStep, LateStep
<1> SUFFICES Goal
  BY <1>23, ScreenIs
<1>1. UNCHANGED shownVars => Goal
  BY <1>0 DEF shownVars, FloorStep
<1>2. ASSUME NEW p \in Parties, SelectTable(p) PROVE Goal
  <2>1. floor' = floor /\ selection' = [table |-> p, detail |-> NoDetail]
        /\ (command' = [NoCommand EXCEPT !.kind = "LOAD", !.party = p] \/ command' = NoCommand)
    BY <1>2 DEF SelectTable
  <2>2. selection' \in Selections
    BY <2>1, DetailsAre DEF AnyParty
  <2>6. PICK c : c = [kind |-> "LOAD", party |-> NoParty, version |-> 0, order |-> NoSaleOrder]
    OBVIOUS
  <2>7. c = [NoCommand EXCEPT !.kind = "LOAD"]
    BY <2>6 DEF NoCommand
  <2>8. [c EXCEPT !.party = p] = [kind |-> "LOAD", party |-> p, version |-> 0, order |-> NoSaleOrder]
    BY <2>6
  <2>3. [NoCommand EXCEPT !.kind = "LOAD", !.party = p] = [kind |-> "LOAD", party |-> p,
           version |-> 0, order |-> NoSaleOrder]
    BY <2>7, <2>8
  <2>4. [kind |-> "LOAD", party |-> p, version |-> 0, order |-> NoSaleOrder] \in Requests
    BY DEF Requests, AnyParty, Commands
  <2>5. command' \in Requests
    BY <2>1, <2>3, <2>4, DetailsAre
  <2> QED BY <1>22, <2>1, <2>2, <2>5 DEF FloorStep
<1>3. CASE CloseSelection
  BY <1>0, <1>3, DetailsAre DEF CloseSelection, FloorStep
<1>4. CASE RefreshScreen
  <2>1. FloorStep /\ command' = command
    BY <1>4 DEF RefreshScreen, FloorStep
  <2>2. floor' \in Floors
    BY <1>22, <2>1
  <2>3. \/ selection.table \in Parties /\ selection' = [selection EXCEPT !.detail = Detail(selection.table, parties)]
        \/ selection' = [selection EXCEPT !.detail = NoDetail]
    BY <1>4, <2>2 DEF RefreshScreen, Floors
  <2>4. selection' \in Selections
    BY <1>0, <2>3, DetailsAre
  <2> QED BY <1>0, <2>1, <2>2, <2>4
<1>5. ASSUME NEW kind \in {"UPDATE", "ATTACH", "FINISH"}, NEW o \in SaleOrders \cup {NoSaleOrder},
             CommandSession(kind, o)
      PROVE Goal
  <2>1. PICK d \in Details : d = selection.detail
    BY <1>0 DEF Selections
  <2>2. /\ command' = [kind |-> kind, party |-> d.party, version |-> d.version, order |-> o]
        /\ d.open /\ (kind = "ATTACH" <=> o # NoSaleOrder)
    BY <1>5, <2>1 DEF CommandSession
  <2>3. d.party \in Parties /\ d.version \in Nat
    BY <2>2 DEF Details
  <2>4. command' \in Requests
    BY <2>2, <2>3 DEF Requests, AnyParty, Commands
  <2> QED BY <1>0, <1>5, <2>4 DEF CommandSession, FloorStep
<1>6. ASSUME NEW p \in Parties, NEW o \in SaleOrders \cup {NoSaleOrder}, CommandOpening(p, o)
      PROVE Goal
  <2>1. command' = [kind |-> "OPEN", party |-> p, version |-> 0, order |-> o]
        /\ UNCHANGED <<floor, selection>>
    BY <1>6 DEF CommandOpening
  <2>2. command' \in Requests
    BY <2>1 DEF Requests, AnyParty, Commands
  <2> QED BY <1>0, <2>1, <2>2 DEF FloorStep
<1>7. CASE AnswerCommand
  <2>1. PICK c \in Requests : c = command
    BY <1>0
  <2>2. c.kind # "NONE" /\ c.party \in Parties
    BY <1>7, <2>1 DEF AnswerCommand, Requests
  <2>3. PICK done : /\ command' = NextCommand(c, done) /\ selection' = AcceptSession(c, done, parties')
                    /\ floor' = FloorOf(parties') \/ floor' = floor
    BY <1>7, <2>1 DEF AnswerCommand, ReadSilently
  <2>4. selection' = NoSelection \/ selection' = [table |-> c.party, detail |-> Detail(c.party, parties')]
        \/ selection' = selection
    BY <2>3 DEF AcceptSession
  <2>5. selection' \in Selections
    BY <1>0, <2>2, <2>4, DetailsAre DEF AnyParty
  <2>6. CASE c.kind = "OPEN" /\ done /\ c.order # NoSaleOrder
    <3>1. command' = [c EXCEPT !.kind = "ATTACH", !.version = 1]
      BY <2>3, <2>6 DEF NextCommand
    <3>2. c.order \in SaleOrders
      BY <2>6 DEF Requests
    <3>3. c = [kind |-> c.kind, party |-> c.party, version |-> c.version, order |-> c.order]
      BY DEF Requests
    <3>4. PICK a, b : a = c.party /\ b = c.order
      OBVIOUS
    <3>5. command' = [kind |-> "ATTACH", party |-> a, version |-> 1, order |-> b]
      BY <3>1, <3>3, <3>4
    <3> QED BY <1>22, <2>2, <2>3, <2>5, <3>2, <3>4, <3>5 DEF Requests, AnyParty, Commands, FloorStep
  <2>7. CASE ~ (c.kind = "OPEN" /\ done /\ c.order # NoSaleOrder)
    <3>1. command' = NoCommand
      BY <2>3, <2>7 DEF NextCommand
    <3> QED BY <1>22, <2>3, <2>5, <3>1, DetailsAre DEF FloorStep
  <2> QED BY <2>6, <2>7
<1>8. CASE LoseCommand
  BY <1>0, <1>8, DetailsAre DEF LoseCommand, FloorStep
<1>9. ASSUME NEW r \in Runs, RefreshFloor(r) PROVE Goal
  <2>1. command' = command /\ parties' = parties
    BY <1>9 DEF RefreshFloor, recordVars
  <2>2. FloorStep
    BY <1>9, <2>1 DEF RefreshFloor, ReadFloor, FloorStep
  <2>3. selection' = selection \/ selection' = [selection EXCEPT !.detail = NoDetail]
    BY <1>9 DEF RefreshFloor
  <2>4. selection' \in Selections
    BY <1>0, <2>3, DetailsAre
  <2> QED BY <1>0, <1>22, <2>1, <2>2, <2>4
<1>10. ASSUME NEW r \in Runs, FindSession(r) PROVE Goal
  <2>1. command' = command /\ floor' = floor
    BY <1>10 DEF FindSession
  <2>2. selection' = selection \/ selection' = [table |-> reread[r], detail |-> Detail(reread[r], parties)]
    BY <1>10 DEF FindSession
  <2>3. reread[r] \in Parties
    BY <1>10 DEF FindSession, SaleTyped, RunsTyped
  <2>4. selection' \in Selections
    BY <1>0, <2>2, <2>3, DetailsAre DEF AnyParty
  <2> QED BY <1>0, <2>1, <2>4 DEF FloorStep
<1>11. ASSUME NEW r \in Runs, CloseTable(r) PROVE Goal
  <2>1. command' = command
    BY <1>11 DEF CloseTable
  <2>2. FloorStep
    BY <1>11 DEF CloseTable, ReadSilently, FloorStep
  <2>3. selection' = selection \/ selection' = NoSelection
    BY <1>11 DEF CloseTable
  <2> QED BY <1>0, <1>22, <2>1, <2>2, <2>3, DetailsAre
<1>12. ASSUME NEW p, OtherTill(p) PROVE Goal
  BY <1>1, <1>12 DEF OtherTill
<1>13. ASSUME NEW o,
              \/ PayOrder(o) \/ CancelElsewhere(o) \/ IssueElsewhere(o) \/ ConcludeDocument(o)
              \/ ObserveCheckout(o) \/ FinishOnScreen(o) \/ CancelOrder(o) \/ RecoverDocument(o)
              \/ PrintOfficial(o)
       PROVE Goal
  BY <1>1, <1>13 DEF PayOrder, CancelElsewhere, IssueElsewhere, ConcludeDocument, ObserveCheckout,
    FinishOnScreen, CancelOrder, RecoverDocument, PrintOfficial
<1>14. ASSUME NEW r \in Runs,
              \/ ReloadOrder(r) \/ SearchSession(r) \/ EndCancellation(r) \/ EnsureDocument(r)
              \/ IssueDocument(r) \/ EndSale(r) \/ PollDocument(r)
       PROVE Goal
  BY <1>1, <1>14 DEF ReloadOrder, SearchSession, EndCancellation, EnsureDocument, IssueDocument,
    EndSale, PollDocument
<1>15. CASE RefreshDocuments \/ UNCHANGED closingVars
  BY <1>1, <1>15 DEF RefreshDocuments, closingVars
<1>17. ASSUME NEW o \in SaleOrders, ReadLate(o) PROVE Goal
  BY <1>0, <1>17 DEF ReadLate, FloorStep
<1>18. ASSUME NEW o \in SaleOrders, ShowLate(o) PROVE Goal
  <2>1. UNCHANGED <<parties, stage, selection, command>>
    BY <1>18 DEF ShowLate, recordVars
  <2>2. floor' = floor \/ (floor' = late[o] /\ LateStep(late[o]))
    BY <1>18, <2>1 DEF ShowLate, LateStep
  <2>3. late[o] \in Floors
    BY ScreenIs DEF SaleTyped
  <2>4. FloorStep
    BY <2>2, <2>3 DEF FloorStep
  <2> QED BY <1>0, <1>22, <2>1, <2>4
<1>16. Goal
  BY <1>2, <1>3, <1>4, <1>5, <1>6, <1>7, <1>8, <1>9, <1>10, <1>11, <1>12, <1>13, <1>14, <1>15,
     <1>17, <1>18
  DEF ClosingNext
<1> QED BY <1>16

\* A run comes past its table, which somebody was warned about, or is not to be freed.
PassedStages == {"FISCAL", "ISSUE", "RECEIPT", "BARE", "ORDERS"}
Passes(r) ==
  r[2] \in {"SALE", "CANCELLATION"} /\ stage[r] \notin PassedStages /\ stage'[r] \in PassedStages
Seen(r) ==
  r[1] \in warned' \cup misled' \/ \A p \in SettledTables' : r[1] \notin parties'[p].orders

\* What a step does to the runs that are on their way to their table.
Rereads ==
  reread' \in [Runs -> AnyParty] /\ \A r \in Runs : stage'[r] = "SESSION" => reread'[r] \in Parties
Closes ==
  /\ \A r \in Runs : stage'[r] \in {"SEARCH", "CLOSE"} /\ stage[r] \notin {"SEARCH", "CLOSE"} =>
       ~ TablesBusy
  /\ \/ target' = target /\ \A r \in Runs : stage'[r] = "CLOSE" => stage[r] = "CLOSE"
     \/ \E r \in Runs :
          /\ stage'[r] = "CLOSE" /\ target' \in [party : Parties, version : Nat]
          /\ r[1] \in parties[target'.party].orders \cup misled'
Seeks ==
  \A r \in Runs : stage'[r] \in {"SESSION", "SEARCH"} /\ stage[r] \notin {"SESSION", "SEARCH"} =>
    \/ floor' = NoFloor \/ r[1] \in misled'
    \/ floor' = FloorOf(parties) /\ parties' = parties
TableStep == Rereads /\ Closes /\ Seeks /\ \A r \in Runs : Passes(r) => Seen(r)

\* Steps of runs that are not at a table.
LEMMA AwayFromTables ==
  ASSUME RunsTyped, NEW r \in Runs, stage' = [stage EXCEPT ![r] = stage'[r]],
         stage'[r] \notin {"SESSION", "SEARCH", "CLOSE"}, UNCHANGED <<target, reread>>,
         Passes(r) => Seen(r)
  PROVE TableStep
<1>1. \A q \in Runs : q # r => stage'[q] = stage[q]
  BY DEF RunsTyped
<1>2. Rereads
  BY <1>1 DEF Rereads, RunsTyped
<1>3. Closes
  BY <1>1 DEF Closes
<1>4. Seeks
  BY <1>1 DEF Seeks
<1>5. \A q \in Runs : Passes(q) => Seen(q)
  BY <1>1 DEF Passes
<1> QED BY <1>2, <1>3, <1>4, <1>5 DEF TableStep

\* Steps of no run.
LEMMA NoRunMoves ==
  ASSUME RunsTyped, UNCHANGED <<stage, target, reread>>
  PROVE TableStep
BY DEF RunsTyped, TableStep, Rereads, Closes, Seeks, Passes

\* A session that is closed, or has open orders, need not be freed.
LEMMA LeftAlone ==
  ASSUME OrdersAreOfOneParty, UNCHANGED <<parties, orderStatus>>, NEW p \in Parties, NEW o,
         o \in parties[p].orders,
         ~ Detail(p, parties).open \/ Detail(p, parties).blocking
  PROVE \A q \in SettledTables' : o \notin parties'[q].orders
<1>1. SettledTables' = SettledTables
  BY DEF SettledTables, Occupied
<1>2. parties[p].status # "OPEN" \/ \E x \in parties[p].orders : ~ OrderSettled(x, orderStatus)
  BY DEF Detail
<1>3. p \notin SettledTables
  BY <1>2 DEF SettledTables, Occupied
<1>4. \A q \in SettledTables : q \in Parties /\ q # p
  BY <1>3 DEF SettledTables, Occupied
<1> QED BY <1>1, <1>4 DEF OrdersAreOfOneParty

\* A run never goes from the floor to the closing of a table.
LEMMA RefreshFloorSteps ==
  ASSUME SaleTyped, ScreenTyped', NEW r \in Runs, RefreshFloor(r)
  PROVE TableStep
<1>1. /\ RunsTyped /\ stage \in [Runs -> Stages] /\ reread \in [Runs -> AnyParty]
      /\ floor' \in Floors /\ stage[r] = "FLOOR" /\ parties' = parties
      /\ \A q \in Runs : stage[q] = "SESSION" => reread[q] \in Parties
  BY ScreenIs DEF SaleTyped, RunsTyped, RefreshFloor, recordVars
<1>2. CASE TablesBusy
  <2>1. Approach(r, selection.detail) /\ reread' = reread
    BY <1>1, <1>2 DEF RefreshFloor
  <2>2. /\ stage' = [stage EXCEPT ![r] = stage'[r]] /\ warned' = warned \cup {r[1]}
        /\ target' = target /\ stage'[r] = AfterTable(r)
    BY <1>1, <1>2, <2>1, ApproachLeaves
  <2> QED BY <1>1, <2>1, <2>2, AwayFromTables DEF AfterTable, Seen
<1>3. CASE ~ TablesBusy /\ selection.table \in floor'.occupied
  <2>1. reread' = [reread EXCEPT ![r] = selection.table] /\ Go(r, "SESSION") /\ target' = target
        /\ ReadFloor(r)
    BY <1>1, <1>3 DEF RefreshFloor
  <2>2. stage' = [stage EXCEPT ![r] = "SESSION"] /\ stage'[r] = "SESSION"
        /\ \A q \in Runs : q # r => stage'[q] = stage[q]
    BY <1>1, <2>1 DEF Go
  <2>3. selection.table \in Parties
    BY <1>1, <1>3 DEF Floors
  <2>4. Rereads
    BY <1>1, <2>1, <2>2, <2>3 DEF Rereads, AnyParty
  <2>5. Closes
    BY <2>1, <2>2 DEF Closes
  <2>6. Seeks
    BY <1>1, <2>1, <2>2 DEF Seeks, ReadFloor
  <2>7. \A q \in Runs : ~ Passes(q)
    BY <2>2 DEF Passes, PassedStages
  <2> QED BY <2>4, <2>5, <2>6, <2>7 DEF TableStep
<1>4. CASE ~ TablesBusy /\ selection.table \notin floor'.occupied
  <2>1. Approach(r, NoDetail) /\ reread' = reread /\ ReadFloor(r)
    BY <1>1, <1>4 DEF RefreshFloor
  <2>2. /\ stage' = [stage EXCEPT ![r] = stage'[r]] /\ target' = target
        /\ \/ warned' = warned \cup {r[1]} /\ stage'[r] = AfterTable(r)
           \/ stage'[r] = "SEARCH"
    BY <1>1, <2>1, ApproachLeaves DEF NoDetail
  <2>3. CASE warned' = warned \cup {r[1]} /\ stage'[r] = AfterTable(r)
    BY <1>1, <2>1, <2>2, <2>3, AwayFromTables DEF AfterTable, Seen
  <2>4. CASE stage'[r] = "SEARCH"
    <3>1. \A q \in Runs : q # r => stage'[q] = stage[q]
      BY <1>1, <2>2
    <3>2. Rereads
      BY <1>1, <2>1, <2>4, <3>1 DEF Rereads
    <3>3. Closes
      BY <1>4, <2>2, <2>4, <3>1 DEF Closes
    <3>4. Seeks
      BY <1>1, <2>1, <2>4, <3>1 DEF Seeks, ReadFloor
    <3>5. \A q \in Runs : ~ Passes(q)
      BY <2>4, <3>1 DEF Passes, PassedStages
    <3> QED BY <3>2, <3>3, <3>4, <3>5 DEF TableStep
  <2> QED BY <2>2, <2>3, <2>4
<1> QED BY <1>2, <1>3, <1>4

\* A run judges its table by a session read in this step, unless it is misled.
LEMMA FindSessionSteps ==
  ASSUME SaleTyped, ScreenTyped', OrdersAreOfOneParty, NEW r \in Runs, FindSession(r)
  PROVE TableStep
<1>1. /\ RunsTyped /\ stage \in [Runs -> Stages] /\ reread \in [Runs -> AnyParty]
      /\ selection' \in Selections /\ stage[r] = "SESSION" /\ UNCHANGED <<parties, orderStatus>>
      /\ \A q \in Runs : stage[q] = "SESSION" => reread[q] \in Parties
  BY ScreenIs DEF SaleTyped, RunsTyped, FindSession, recordVars
<1>2. PICK d \in Details : d = selection'.detail
  BY <1>1 DEF Selections
<1>3. Approach(r, d) /\ reread' = [reread EXCEPT ![r] = NoParty]
  BY <1>2 DEF FindSession
<1>4. r[1] \in misled' \/ d = Detail(reread[r], parties)
  <2>1. CASE selection' = [table |-> reread[r], detail |-> Detail(reread[r], parties)]
    BY <1>2, <2>1
  <2>2. CASE misled' = misled \cup {r[1]}
    BY <2>2
  <2> QED BY <2>1, <2>2 DEF FindSession
<1>5. PICK p \in Parties : p = reread[r]
  BY <1>1
<1>6. parties \in [Parties -> PartyRow]
  BY DEF SaleTyped, RecordsTyped
<1>7. Detail(p, parties).orders = parties[p].orders /\ Detail(p, parties).party = p
  BY <1>6, DetailsAre
<1>8. /\ stage' = [stage EXCEPT ![r] = stage'[r]]
      /\ \/ warned' = warned \cup {r[1]} /\ target' = target /\ stage'[r] = AfterTable(r)
         \/ ~ TablesBusy /\ stage'[r] = "SEARCH" /\ target' = target
         \/ /\ ~ TablesBusy /\ r[1] \in d.orders /\ d.open /\ stage'[r] = "CLOSE"
            /\ target' = [party |-> d.party, version |-> d.version]
         \/ /\ r[1] \in d.orders /\ (~ d.open \/ d.blocking)
            /\ stage'[r] = AfterTable(r) /\ target' = target
  BY <1>1, <1>3, ApproachLeaves
<1>9. \A q \in Runs : q # r => stage'[q] = stage[q]
  BY <1>1, <1>8
<1>10. AfterTable(r) \in PassedStages
  BY DEF AfterTable, PassedStages
<1>11. stage'[r] # "SESSION"
  BY <1>8, <1>10 DEF PassedStages
<1>12. Rereads
  BY <1>1, <1>3, <1>9, <1>11 DEF Rereads, AnyParty
<1>13. Seeks
  BY <1>1, <1>9 DEF Seeks
<1>14. Closes
  <2>1. \A q \in Runs : stage'[q] \in {"SEARCH", "CLOSE"} /\ stage[q] \notin {"SEARCH", "CLOSE"} =>
          ~ TablesBusy
    BY <1>8, <1>9, <1>10 DEF PassedStages
  <2>2. CASE stage'[r] = "CLOSE"
    <3>1. r[1] \in d.orders /\ d.open /\ target' = [party |-> d.party, version |-> d.version]
      BY <1>8, <1>10, <2>2 DEF PassedStages
    <3>2. d.party \in Parties /\ d.version \in Nat
      BY <3>1 DEF Details
    <3>3. r[1] \in parties[d.party].orders \cup misled'
      BY <1>4, <1>5, <1>7, <3>1
    <3> QED BY <2>1, <2>2, <3>1, <3>2, <3>3 DEF Closes
  <2>3. CASE stage'[r] # "CLOSE"
    BY <1>8, <1>9, <2>1, <2>3 DEF Closes
  <2> QED BY <2>2, <2>3
<1>15. ASSUME stage'[r] \in PassedStages PROVE Seen(r)
  <2>1. r[1] \in warned' \/ (r[1] \in d.orders /\ (~ d.open \/ d.blocking))
    BY <1>8, <1>15 DEF PassedStages
  <2>2. CASE r[1] \in warned' \cup misled'
    BY <2>2 DEF Seen
  <2>3. CASE r[1] \notin warned' \cup misled'
    <3>1. d = Detail(p, parties) /\ r[1] \in parties[p].orders
      BY <1>4, <1>5, <1>7, <2>1, <2>3
    <3> QED BY <1>1, <2>1, <2>3, <3>1, LeftAlone DEF Seen
  <2> QED BY <2>2, <2>3
<1> QED BY <1>9, <1>12, <1>13, <1>14, <1>15 DEF TableStep, Passes

\* A run that finds no session with its order has none, unless it is misled.
LEMMA SearchSessionSteps ==
  ASSUME SaleTyped, OrdersAreOfOneParty, OneRunCloses, FloorHasTheTable, Grows,
         NEW r \in Runs, SearchSession(r)
  PROVE TableStep
<1>1. /\ RunsTyped /\ stage \in [Runs -> Stages] /\ reread \in [Runs -> AnyParty]
      /\ stage[r] = "SEARCH" /\ UNCHANGED <<parties, orderStatus, reread>>
      /\ \A q \in Runs : stage[q] = "SESSION" => reread[q] \in Parties
      /\ parties \in [Parties -> PartyRow]
  BY DEF SaleTyped, RunsTyped, RecordsTyped, SearchSession, recordVars
<1>2. Searched \subseteq Parties
  BY ScreenIs DEF Searched, Occupied, SaleTyped, Floors
<1>3. AfterTable(r) \in PassedStages
  BY DEF AfterTable, PassedStages
<1>4. ASSUME Go(r, AfterTable(r)), target' = target, Seen(r) PROVE TableStep
  <2>1. stage' = [stage EXCEPT ![r] = stage'[r]] /\ stage'[r] = AfterTable(r)
    BY <1>1, <1>3, <1>4 DEF Go, PassedStages
  <2> QED BY <1>1, <1>3, <1>4, <2>1, AwayFromTables DEF PassedStages
<1>5. ASSUME NEW p \in Searched, r[1] \in parties[p].orders, Judge(r, Detail(p, parties))
      PROVE TableStep
  <2>1. p \in Parties
    BY <1>2
  <2>2. PICK d \in Details : d = Detail(p, parties) /\ d.party = p
    BY <1>1, <2>1, DetailsAre
  <2>3. CASE d.open /\ ~ d.blocking
    <3>1. Go(r, "CLOSE") /\ target' = [party |-> p, version |-> d.version]
      BY <1>5, <2>2, <2>3 DEF Judge
    <3>2. stage'[r] = "CLOSE" /\ \A q \in Runs : q # r => stage'[q] = stage[q]
      BY <1>1, <3>1 DEF Go
    <3>3. d.version \in Nat
      BY DEF Details
    <3>4. Closes
      <4>1. r[1] \in parties[p].orders \cup misled'
        BY <1>5
      <4> QED BY <1>1, <2>1, <3>1, <3>2, <3>3, <4>1 DEF Closes
    <3>5. Rereads
      BY <1>1, <3>2 DEF Rereads
    <3>6. Seeks
      BY <3>2 DEF Seeks
    <3>7. \A q \in Runs : ~ Passes(q)
      BY <3>2 DEF Passes, PassedStages
    <3> QED BY <3>4, <3>5, <3>6, <3>7 DEF TableStep
  <2>4. CASE ~ (d.open /\ ~ d.blocking)
    <3>1. Go(r, AfterTable(r)) /\ target' = target
      BY <1>5, <2>2, <2>4 DEF Judge
    <3>2. Seen(r)
      BY <1>1, <1>5, <2>1, <2>2, <2>4, LeftAlone DEF Seen
    <3> QED BY <1>4, <3>1, <3>2
  <2> QED BY <2>3, <2>4
<1>6. ASSUME \A p \in Searched : r[1] \notin parties[p].orders, Go(r, AfterTable(r)),
             target' = target
      PROVE TableStep
  <2>1. ASSUME r[1] \notin misled, NEW p \in Occupied(parties) PROVE r[1] \notin parties[p].orders
    <3>1. CASE floor.known
      BY <1>1, <1>6, <2>1, <3>1 DEF FloorHasTheTable, Searched
    <3>2. CASE ~ floor.known
      BY <1>6, <2>1, <3>2 DEF Searched
    <3> QED BY <3>1, <3>2
  <2>2. SettledTables' \subseteq Occupied(parties)
    BY <1>1 DEF SettledTables, Occupied
  <2>3. Seen(r)
    BY <1>1, <2>1, <2>2 DEF Seen, Grows
  <2> QED BY <1>4, <1>6, <2>3
<1>7. ASSUME Warn(r[1]), Go(r, AfterTable(r)), target' = target PROVE TableStep
  BY <1>4, <1>7 DEF Warn, Seen
<1> QED BY <1>5, <1>6, <1>7 DEF SearchSession

\* A run closes its table, or says that it did not.
LEMMA CloseTableSteps ==
  ASSUME SaleTyped, OrdersAreOfOneParty, OneRunCloses, Grows, NEW r \in Runs, CloseTable(r)
  PROVE TableStep
<1>1. /\ RunsTyped /\ stage \in [Runs -> Stages] /\ Go(r, AfterTable(r)) /\ stage[r] = "CLOSE"
      /\ UNCHANGED <<target, reread, orderStatus>> /\ RecordsTyped
  BY DEF SaleTyped, RunsTyped, CloseTable
<1>2. AfterTable(r) \in PassedStages
  BY DEF AfterTable, PassedStages
<1>3. stage' = [stage EXCEPT ![r] = stage'[r]] /\ stage'[r] = AfterTable(r)
  BY <1>1 DEF Go
<1>4. ASSUME Warn(r[1]) PROVE Seen(r)
  BY <1>4 DEF Warn, Seen
<1>5. ASSUME parties' = Finished(target.party) PROVE Seen(r)
  <2>1. PICK p \in Parties : p = target.party /\ r[1] \in parties[p].orders \cup misled
    BY <1>1 DEF OneRunCloses
  <2>2. parties' = WithRow(p, Row("CLOSED", parties[p].version + 1, parties[p].orders))
    BY <1>1, <1>5, <2>1, RowsChange
  <2>3. parties'[p].status = "CLOSED" /\ \A q \in Parties : q # p => parties'[q] = parties[q]
    BY <1>1, <2>2 DEF WithRow, Row, RecordsTyped
  <2>4. \A q \in SettledTables' : q \in Parties /\ q # p
    BY <2>3 DEF SettledTables, Occupied
  <2>5. r[1] \in misled' \/ \A q \in SettledTables' : r[1] \notin parties'[q].orders
    BY <2>1, <2>3, <2>4 DEF OrdersAreOfOneParty, Grows
  <2> QED BY <2>5 DEF Seen
<1>6. Seen(r)
  BY <1>4, <1>5 DEF CloseTable
<1> QED BY <1>1, <1>2, <1>3, <1>6, AwayFromTables DEF PassedStages

\* Every step, of a run or of anything else.
LEMMA TableSteps ==
  ASSUME SaleTyped, ScreenTyped', OrdersAreOfOneParty, OneRunCloses, FloorHasTheTable, Grows,
         [ClosingNext]_closingVars
  PROVE TableStep
<1>1. RunsTyped /\ RecordsTyped /\ stage \in [Runs -> Stages]
  BY DEF SaleTyped, RunsTyped
<1>2. ASSUME NEW r \in Runs, NEW s \in Stages, Go(r, s), s \notin {"SESSION", "SEARCH", "CLOSE"},
             UNCHANGED <<target, reread>>, s \notin PassedStages \/ stage[r] \in PassedStages
                                          \/ r[2] = "RECOVERY" \/ Seen(r)
      PROVE TableStep
  <2>1. stage'[r] = s /\ stage' = [stage EXCEPT ![r] = stage'[r]]
    BY <1>1, <1>2, OneStage
  <2> QED BY <1>1, <1>2, <2>1, AwayFromTables DEF Passes
<1>3. ASSUME NEW o \in SaleOrders, NEW k \in Kinds
      PROVE <<o, k>> \in Runs /\ <<o, k>>[1] = o /\ <<o, k>>[2] = k
  BY DEF Runs
<1>4. ASSUME NEW o, ~ Attached(o, parties), parties' = parties
      PROVE \A p \in SettledTables' : o \notin parties'[p].orders
  BY <1>4 DEF Attached, SettledTables, Occupied
<1>5. ASSUME NEW o \in SaleOrders, CancelOrder(o) PROVE TableStep
  <2>1. PICK r \in Runs : r = <<o, "CANCELLATION">> /\ r[1] = o
    BY <1>3 DEF Kinds
  <2>2. UNCHANGED <<target, reread, parties>>
    BY <1>5 DEF CancelOrder
  <2>3. CASE Go(r, "FLOOR")
    BY <1>2, <2>2, <2>3 DEF Stages, PassedStages
  <2>4. CASE Go(r, "ORDERS") /\ (~ Attached(o, parties) \/ o \in misled')
    BY <1>2, <1>4, <2>1, <2>2, <2>4 DEF Stages, Seen
  <2> QED BY <1>5, <2>1, <2>3, <2>4 DEF CancelOrder, StartRun
<1>6. ASSUME NEW o \in SaleOrders, ObserveCheckout(o) \/ FinishOnScreen(o) PROVE TableStep
  <2>1. PICK r \in Runs : r = <<o, "SALE">>
    BY <1>3 DEF Kinds
  <2>2. UNCHANGED <<target, reread>>
    BY <1>6 DEF ObserveCheckout, FinishOnScreen
  <2>3. UNCHANGED stage \/ Go(r, "ORDER")
    BY <1>6, <2>1 DEF ObserveCheckout, FinishOnScreen, StartRun
  <2>4. CASE Go(r, "ORDER")
    BY <1>2, <2>2, <2>4 DEF Stages, PassedStages
  <2> QED BY <1>1, <2>2, <2>3, <2>4, NoRunMoves
<1>7. ASSUME NEW o \in SaleOrders, RecoverDocument(o) PROVE TableStep
  <2>1. PICK r \in Runs : r = <<o, "RECOVERY">> /\ r[2] = "RECOVERY"
    BY <1>3 DEF Kinds
  <2>2. UNCHANGED <<target, reread>> /\ Go(r, "FISCAL")
    BY <1>7, <2>1 DEF RecoverDocument, StartRun
  <2> QED BY <1>2, <2>1, <2>2 DEF Stages
<1>8. ASSUME NEW r \in Runs, ReloadOrder(r) PROVE TableStep
  <2>1. UNCHANGED <<target, reread, parties>>
    BY <1>8 DEF ReloadOrder, recordVars
  <2>2. Go(r, "FLOOR") \/ Go(r, "IDLE") \/ (Go(r, "FISCAL") /\ ~ Attached(r[1], parties))
    BY <1>8 DEF ReloadOrder
  <2>3. CASE Go(r, "FLOOR") \/ Go(r, "IDLE")
    BY <1>2, <2>1, <2>3 DEF Stages, PassedStages
  <2>4. CASE Go(r, "FISCAL") /\ ~ Attached(r[1], parties)
    BY <1>2, <1>4, <2>1, <2>4 DEF Stages, Seen
  <2> QED BY <2>2, <2>3, <2>4
<1>9. ASSUME NEW r \in Runs, EndCancellation(r) \/ EndSale(r) PROVE TableStep
  <2>1. UNCHANGED <<target, reread>> /\ Go(r, "IDLE")
    BY <1>9 DEF EndCancellation, EndSale
  <2> QED BY <1>2, <2>1 DEF Stages, PassedStages
<1>10. ASSUME NEW r \in Runs, EnsureDocument(r) \/ IssueDocument(r) PROVE TableStep
  <2>1. UNCHANGED <<target, reread>> /\ stage[r] \in PassedStages
    BY <1>10 DEF EnsureDocument, IssueDocument, PassedStages
  <2>2. \E s \in {"ISSUE", "IDLE", "BARE", "RECEIPT"} : Go(r, s)
    BY <1>10 DEF EnsureDocument, IssueDocument, WithDocument, WithoutDocument
  <2> QED BY <1>2, <2>1, <2>2 DEF Stages
<1>11. ASSUME UNCHANGED <<stage, target, reread>> PROVE TableStep
  BY <1>1, <1>11, NoRunMoves
<1>12. ASSUME NEW o,
              PayOrder(o) \/ CancelElsewhere(o) \/ IssueElsewhere(o) \/ ConcludeDocument(o)
              \/ PrintOfficial(o)
       PROVE TableStep
  BY <1>11, <1>12 DEF PayOrder, CancelElsewhere, IssueElsewhere, ConcludeDocument, PrintOfficial
<1>13. CASE AnswerCommand \/ LoseCommand \/ CloseSelection \/ RefreshScreen \/ RefreshDocuments
  BY <1>11, <1>13 DEF AnswerCommand, LoseCommand, CloseSelection, RefreshScreen, RefreshDocuments,
    untouched
<1>14. ASSUME NEW kind, NEW o, CommandSession(kind, o) PROVE TableStep
  BY <1>11, <1>14 DEF CommandSession, untouched
<1>15. ASSUME NEW p, NEW o, SelectTable(p) \/ CommandOpening(p, o) PROVE TableStep
  BY <1>11, <1>15 DEF SelectTable, CommandOpening, untouched
<1>16. ASSUME NEW p, OtherTill(p) PROVE TableStep
  BY <1>11, <1>16 DEF OtherTill
<1>17. ASSUME NEW r \in Runs, PollDocument(r) PROVE TableStep
  BY <1>11, <1>17 DEF PollDocument
<1>20. ASSUME NEW o, ReadLate(o) \/ ShowLate(o) PROVE TableStep
  BY <1>11, <1>20 DEF ReadLate, ShowLate
<1>18. CASE UNCHANGED closingVars
  BY <1>11, <1>18 DEF closingVars
<1>19. ASSUME NEW r \in Runs,
              RefreshFloor(r) \/ FindSession(r) \/ SearchSession(r) \/ CloseTable(r)
       PROVE TableStep
  BY <1>19, RefreshFloorSteps, FindSessionSteps, SearchSessionSteps, CloseTableSteps
<1> QED
  BY <1>5, <1>6, <1>7, <1>8, <1>9, <1>10, <1>12, <1>13, <1>14, <1>15, <1>16, <1>17, <1>18, <1>19,
     <1>20
  DEF ClosingNext

\* What a step leaves of the sessions.
PartiesGrow ==
  /\ \A p \in Parties : parties[p].orders \subseteq parties'[p].orders
  /\ \A p \in Parties :
       parties'[p].status = "OPEN" => parties[p].status = "OPEN" \/ parties'[p].orders = {}
  /\ \A p \in Parties : \A o \in parties'[p].orders :
       o \in parties[p].orders \/ (o \in SaleOrders /\ orderStatus[o] = "OPEN")

\* An order that joins a session is open and of no other.
LEMMA PartiesStay ==
  ASSUME RecordsTyped, OrdersAreOfOneParty, PartyStep
  PROVE PartiesGrow /\ OrdersAreOfOneParty'
<1>1. CASE parties' = parties
  BY <1>1 DEF PartiesGrow, OrdersAreOfOneParty
<1>2. ASSUME NEW p \in Parties, NEW s, NEW v, NEW m,
             parties' = WithRow(p, Row(s, v, m)),
             s = "NONE" => m = {},
             s = "OPEN" => parties[p].status = "OPEN" \/ m = {},
             \/ m = parties[p].orders
             \/ \E o \in SaleOrders :
                  m = parties[p].orders \cup {o} /\ orderStatus[o] = "OPEN" /\ ~ Attached(o, parties)
      PROVE PartiesGrow /\ OrdersAreOfOneParty'
  <2>1. PICK row : row = Row(s, v, m)
    OBVIOUS
  <2>2. row.status = s /\ row.orders = m
    BY <2>1 DEF Row
  <2>3. parties'[p] = row /\ \A q \in Parties : q # p => parties'[q] = parties[q]
    BY <1>2, <2>1 DEF WithRow, RecordsTyped
  <2>4. PartiesGrow
    BY <1>2, <2>2, <2>3 DEF PartiesGrow
  <2>5. \A q \in Parties : parties'[q].status = "NONE" => parties'[q].orders = {}
    BY <1>2, <2>2, <2>3 DEF OrdersAreOfOneParty
  <2>6. ASSUME NEW q \in Parties, NEW x, q # p, x \in parties'[q].orders, x \in m PROVE FALSE
    BY <1>2, <2>3, <2>6 DEF OrdersAreOfOneParty, Attached
  <2>7. ASSUME NEW q \in Parties, NEW q2 \in Parties, q # q2,
               parties'[q].orders \cap parties'[q2].orders # {}
        PROVE FALSE
    <3>1. CASE q # p /\ q2 # p
      BY <2>3, <2>7, <3>1 DEF OrdersAreOfOneParty
    <3>2. CASE q = p \/ q2 = p
      BY <2>2, <2>3, <2>6, <2>7, <3>2
    <3> QED BY <3>1, <3>2
  <2> QED BY <2>4, <2>5, <2>7 DEF OrdersAreOfOneParty
<1>3. ASSUME NEW p \in Parties, parties[p].status = "NONE", parties' = Opened(p)
      PROVE PartiesGrow /\ OrdersAreOfOneParty'
  <2>1. parties[p].orders = {}
    BY <1>3 DEF OrdersAreOfOneParty
  <2> QED BY <1>2, <1>3, <2>1, RowsChange
<1>4. ASSUME NEW p \in Parties, NEW o \in SaleOrders, MayAttach(o, p, parties[p].version),
             parties' = WithOrder(o, p)
      PROVE PartiesGrow /\ OrdersAreOfOneParty'
  <2>1. parties[p].status = "OPEN" /\ orderStatus[o] = "OPEN" /\ ~ Attached(o, parties)
    BY <1>4 DEF MayAttach, SessionAccepts
  <2>2. PICK m : m = parties[p].orders \cup {o}
    OBVIOUS
  <2>3. parties' = WithRow(p, Row(parties[p].status, parties[p].version + 1, m))
    BY <1>4, <2>2, RowsChange
  <2>4. parties[p].status # "NONE"
    BY <2>1
  <2>5. \E x \in SaleOrders :
          m = parties[p].orders \cup {x} /\ orderStatus[x] = "OPEN" /\ ~ Attached(x, parties)
    BY <2>1, <2>2
  <2> QED BY <1>2, <2>1, <2>3, <2>4, <2>5
<1>5. ASSUME NEW p \in Parties, parties[p].status = "OPEN", parties' = Updated(p)
      PROVE PartiesGrow /\ OrdersAreOfOneParty'
  BY <1>2, <1>5, RowsChange
<1>6. ASSUME NEW p \in Parties, parties' = Finished(p)
      PROVE PartiesGrow /\ OrdersAreOfOneParty'
  BY <1>2, <1>6, RowsChange
<1> QED BY <1>1, <1>3, <1>4, <1>5, <1>6 DEF PartyStep

\* At most one run moves.
LEMMA OneMoves ==
  ASSUME RunsTyped, StageStep
  PROVE /\ stage' \in [Runs -> Stages]
        /\ \A r, s \in Runs : stage'[r] # stage[r] /\ stage'[s] # stage[s] => r = s
<1>1. stage \in [Runs -> Stages]
  BY DEF RunsTyped
<1>2. CASE UNCHANGED <<stage, finished>>
  BY <1>1, <1>2
<1>3. ASSUME NEW r \in Runs, stage' = [stage EXCEPT ![r] = stage'[r]],
             Begins(r) \/ ReadsOrder(r) \/ SeesToTable(r) \/ SeesToDocument(r) \/ Ends(r)
      PROVE /\ stage' \in [Runs -> Stages]
            /\ \A q, s \in Runs : stage'[q] # stage[q] /\ stage'[s] # stage[s] => q = s
  <2>1. stage'[r] \in Stages
    BY <1>3 DEF Begins, ReadsOrder, SeesToTable, AfterTable, SeesToDocument, Ends, Stages
  <2> QED BY <1>1, <1>3, <2>1
<1> QED BY <1>2, <1>3 DEF StageStep

\* So the table that is closed is the right one.
LEMMA OneRunStillCloses ==
  ASSUME RunsTyped, OneRunCloses, Closes, StageStep, PartiesGrow, Grows
  PROVE OneRunCloses'
<1>1. ASSUME NEW r \in Runs, NEW s \in Runs, {stage'[r], stage'[s]} \subseteq {"SEARCH", "CLOSE"}
      PROVE r = s
  <2>1. CASE stage[r] \in {"SEARCH", "CLOSE"} /\ stage[s] \in {"SEARCH", "CLOSE"}
    BY <2>1 DEF OneRunCloses
  <2>2. CASE stage[r] \notin {"SEARCH", "CLOSE"} /\ stage[s] \notin {"SEARCH", "CLOSE"}
    BY <1>1, <2>2, OneMoves
  <2>3. CASE stage[r] \in {"SEARCH", "CLOSE"} /\ stage[s] \notin {"SEARCH", "CLOSE"}
    BY <1>1, <2>3 DEF Closes, TablesBusy
  <2>4. CASE stage[r] \notin {"SEARCH", "CLOSE"} /\ stage[s] \in {"SEARCH", "CLOSE"}
    BY <1>1, <2>4 DEF Closes, TablesBusy
  <2> QED BY <2>1, <2>2, <2>3, <2>4
<1>2. ASSUME NEW r \in Runs, stage'[r] = "CLOSE"
      PROVE target'.party \in Parties /\ r[1] \in parties'[target'.party].orders \cup misled'
  <2>1. CASE target' = target /\ stage[r] = "CLOSE"
    BY <2>1 DEF OneRunCloses, PartiesGrow, Grows
  <2>2. ASSUME NEW s \in Runs, stage'[s] = "CLOSE", target' \in [party : Parties, version : Nat],
               s[1] \in parties[target'.party].orders \cup misled'
        PROVE target'.party \in Parties /\ r[1] \in parties'[target'.party].orders \cup misled'
    <3>1. r = s
      BY <1>1, <1>2, <2>2
    <3>2. target'.party \in Parties
      BY <2>2
    <3> QED BY <2>2, <3>1, <3>2 DEF PartiesGrow
  <2> QED BY <1>2, <2>1, <2>2 DEF Closes
<1> QED BY <1>1, <1>2 DEF OneRunCloses

\* So the floor has the table of a run that searches.
LEMMA FloorStillHasTheTable ==
  ASSUME FloorHasTheTable, Seeks, FloorStep, PartiesGrow, Grows, RunsAreOfSettled
  PROVE FloorHasTheTable'
<1> SUFFICES ASSUME NEW r \in Runs, stage'[r] \in {"SESSION", "SEARCH"}, floor'.known,
                    NEW p \in Parties, parties'[p].status = "OPEN", r[1] \in parties'[p].orders,
                    r[1] \notin misled'
             PROVE p \in floor'.occupied
  BY DEF FloorHasTheTable, Occupied
<1>1. p \in Occupied(parties')
  BY DEF Occupied
<1>2. CASE floor' = NoFloor
  BY <1>2 DEF NoFloor
<1>3. CASE floor' = FloorOf(parties')
  BY <1>1, <1>3 DEF FloorOf
<1>4. CASE floor' = floor /\ stage[r] \in {"SESSION", "SEARCH"}
  <2>1. OrderSettled(r[1], orderStatus)
    BY <1>4 DEF RunsAreOfSettled
  <2>2. r[1] \in parties[p].orders /\ parties[p].status = "OPEN"
    BY <2>1 DEF PartiesGrow, OrderSettled
  <2> QED BY <1>4, <2>2 DEF FloorHasTheTable, Occupied, Grows
<1>5. CASE floor' = floor /\ stage[r] \notin {"SESSION", "SEARCH"}
  BY <1>1, <1>2, <1>5 DEF Seeks, FloorOf
<1>6. ASSUME NEW f \in Floors, LateStep(f) PROVE p \in floor'.occupied
  <2>1. stage[r] = "SESSION" /\ p \in Occupied(parties) /\ r[1] \in parties[p].orders /\ floor' = f
    BY <1>1, <1>6 DEF LateStep
  <2>2. ~ Hides(f, r)
    BY <1>6, <2>1 DEF LateStep
  <2> QED BY <2>1, <2>2 DEF Hides
<1> QED BY <1>2, <1>3, <1>4, <1>5, <1>6 DEF FloorStep

\* An order comes past its table when a run of it does.
LEMMA WhoPasses ==
  ASSUME RunsTyped, StageStep, NEW o \in SaleOrders, Passed(o)', ~ Passed(o)
  PROVE \E r \in Runs : r[1] = o /\ Passes(r)
<1>1. ASSUME NEW k \in {"SALE", "CANCELLATION"}
      PROVE <<o, k>> \in Runs /\ <<o, k>>[1] = o /\ <<o, k>>[2] = k
  BY DEF Runs, Kinds
<1>2. \A k \in {"SALE", "CANCELLATION"} :
        <<o, k>> \notin finished /\ stage[<<o, k>>] \notin PassedStages
  BY DEF Passed, Concluded, PassedStages
<1>3. \A k \in {"SALE", "CANCELLATION"} : <<o, k>> \notin finished'
  BY <1>1, <1>2 DEF StageStep, Begins, ReadsOrder, SeesToTable, SeesToDocument, Ends, PassedStages
<1>4. PICK k \in {"SALE", "CANCELLATION"} : stage'[<<o, k>>] \in PassedStages
  BY <1>3 DEF Passed, Concluded, PassedStages
<1> QED BY <1>1, <1>2, <1>4 DEF Passes

\* So a table that could be free is watched.
LEMMA TablesStayWatched ==
  ASSUME RecordsTyped, RunsTyped, RunsAreOfSettled, TablesAreWatched, TableStep, StageStep,
         PartiesGrow, Grows, RecordsTyped'
  PROVE TablesAreWatched'
<1> SUFFICES ASSUME NEW p \in SettledTables'
             PROVE \E o \in parties'[p].orders : o \in warned' \cup misled' \/ ~ Passed(o)'
  BY DEF TablesAreWatched
<1>1. p \in Parties /\ parties'[p].status = "OPEN" /\ parties'[p].orders # {}
  BY DEF SettledTables, Occupied
<1>2. \A o \in parties'[p].orders : o \in SaleOrders
  BY <1>1 DEF RecordsTyped, PartyRow
<1>3. \A o \in SaleOrders : ~ OrderSettled(o, orderStatus) => ~ Passed(o)
  <2>1. ASSUME NEW o \in SaleOrders, Passed(o) PROVE OrderSettled(o, orderStatus)
    <3>1. CASE Concluded(o)
      BY <3>1 DEF RunsAreOfSettled
    <3>2. ASSUME NEW k \in {"SALE", "CANCELLATION"},
                 stage[<<o, k>>] \in {"FISCAL", "ISSUE", "RECEIPT", "BARE", "ORDERS"}
          PROVE OrderSettled(o, orderStatus)
      <4>1. <<o, k>> \in Runs /\ <<o, k>>[1] = o
        BY DEF Runs, Kinds
      <4> QED BY <3>2, <4>1 DEF RunsAreOfSettled
    <3> QED BY <2>1, <3>1, <3>2 DEF Passed
  <2> QED BY <2>1
<1>4. PICK o \in parties'[p].orders : o \in warned \cup misled \/ ~ Passed(o)
  <2>1. CASE p \in SettledTables
    <3>1. PICK o \in parties[p].orders : o \in warned \cup misled \/ ~ Passed(o)
      BY <2>1 DEF TablesAreWatched
    <3> QED BY <1>1, <3>1 DEF PartiesGrow
  <2>2. CASE p \notin SettledTables
    <3>1. parties[p].status = "OPEN"
      BY <1>1 DEF PartiesGrow
    <3>2. CASE parties[p].orders = {}
      <4>1. PICK o \in parties'[p].orders : TRUE
        BY <1>1
      <4>2. orderStatus[o] = "OPEN" /\ o \in SaleOrders
        BY <1>1, <3>2 DEF PartiesGrow
      <4> QED BY <1>3, <4>2 DEF OrderSettled
    <3>3. CASE parties[p].orders # {}
      <4>1. PICK o \in parties[p].orders : ~ OrderSettled(o, orderStatus)
        BY <1>1, <2>2, <3>1, <3>3 DEF SettledTables, Occupied
      <4> QED BY <1>1, <1>2, <1>3, <4>1 DEF PartiesGrow
    <3> QED BY <3>2, <3>3
  <2> QED BY <2>1, <2>2
<1>5. CASE o \in warned \cup misled
  BY <1>5 DEF Grows
<1>6. CASE ~ Passed(o) /\ Passed(o)'
  <2>1. PICK r \in Runs : r[1] = o /\ Passes(r)
    BY <1>2, <1>6, WhoPasses
  <2>2. Seen(r)
    BY <2>1 DEF TableStep
  <2> QED BY <2>1, <2>2 DEF Seen
<1> QED BY <1>4, <1>5, <1>6

\* The type of what the runs keep.
LEMMA RunsStayTyped ==
  ASSUME SaleTyped, StageStep, TableStep, fiscal' \in FiscalCopies, background' \in [Runs -> Nat]
  PROVE RunsTyped'
<1>1. stage' \in [Runs -> Stages]
  BY OneMoves DEF SaleTyped
<1>2. target' \in [party : AnyParty, version : Nat]
  <2>1. CASE target' = target
    BY <2>1 DEF SaleTyped, RunsTyped
  <2>2. CASE target' \in [party : Parties, version : Nat]
    BY <2>2 DEF AnyParty
  <2> QED BY <2>1, <2>2 DEF TableStep, Closes
<1>3. reread' \in [Runs -> AnyParty] /\ \A r \in Runs : stage'[r] = "SESSION" => reread'[r] \in Parties
  BY DEF TableStep, Rereads
<1> QED BY <1>1, <1>2, <1>3 DEF RunsTyped, FiscalCopies

\* What is true of closing sales stays so.
LEMMA SaleStep == SaleInv /\ [ClosingNext]_closingVars => SaleInv'
<1> SUFFICES ASSUME SaleInv, [ClosingNext]_closingVars PROVE SaleInv'
  OBVIOUS
<1>1. /\ SaleTyped /\ RecordsTyped /\ RunsTyped /\ ReceiptsAreAskedOnce /\ DocumentsExist
      /\ RunsAreOfSettled /\ SalesAreSeenTo /\ OrdersAreOfOneParty /\ OneRunCloses
      /\ FloorHasTheTable /\ TablesAreWatched
  BY DEF SaleInv, SaleTyped, TablesInv
<1>2. PartyStep /\ SettlingStep /\ DocumentStep /\ merchant' = merchant
  BY <1>1, RecordSteps
<1>3. Grows /\ ReceiptStep
  BY <1>1, ReportsGrow
<1>4. ReceiptsAreAskedOnce' /\ receiptJobs' \in [SaleOrders -> Nat]
  BY <1>1, <1>3, ReceiptsStayAskedOnce
<1>5. RecordsTyped'
  BY <1>1, <1>2, <1>4, RecordsStayTyped
<1>6. ScreenTyped' /\ FloorStep
  BY <1>1, <1>5, ScreenSteps
<1>7. StageStep
  BY <1>1, <1>3, StageSteps
<1>8. fiscal' \in FiscalCopies /\ DocumentsExist'
  BY <1>1, FiscalSteps
<1>9. PrintStep /\ background' \in [Runs -> Nat]
  BY <1>1, <1>3, PrintSteps
<1>10. TableStep
  BY <1>1, <1>3, <1>6, TableSteps
<1>11. RunsTyped'
  BY <1>1, <1>7, <1>8, <1>9, <1>10, RunsStayTyped
<1>12. RunsAreOfSettled'
  BY <1>1, <1>2, <1>7, RunsStayOfSettled
<1>13. SalesAreSeenTo'
  BY <1>1, <1>2, <1>3, <1>7, <1>9, SalesStaySeenTo
<1>14. PartiesGrow /\ OrdersAreOfOneParty'
  BY <1>1, <1>2, PartiesStay
<1>15. OneRunCloses'
  BY <1>1, <1>3, <1>7, <1>10, <1>14, OneRunStillCloses DEF TableStep
<1>16. FloorHasTheTable'
  BY <1>1, <1>3, <1>6, <1>10, <1>14, FloorStillHasTheTable DEF TableStep
<1>17. TablesAreWatched'
  BY <1>1, <1>3, <1>5, <1>7, <1>10, <1>14, TablesStayWatched
<1> QED
  BY <1>4, <1>5, <1>6, <1>8, <1>11, <1>12, <1>13, <1>14, <1>15, <1>16, <1>17
  DEF SaleInv, TablesInv

\* It is true when the till is started.
LEMMA SaleInit == ClosingInit => SaleInv
<1> SUFFICES ASSUME ClosingInit PROVE SaleInv
  OBVIOUS
<1>1. /\ orderStatus = [o \in SaleOrders |-> "OPEN"] /\ documents = [o \in SaleOrders |-> "NONE"]
      /\ receiptJobs = [o \in SaleOrders |-> 0] /\ attempted = {} /\ finished = {}
      /\ merchant \in [runtime : {"READY", "MANUAL"}, provider : Providers, prints : BOOLEAN]
      /\ floor = NoFloor /\ selection = NoSelection /\ command = NoCommand
      /\ late = [o \in SaleOrders |-> NoFloor] /\ fiscal = NothingLoaded /\ stage = [r \in Runs |-> "IDLE"] /\ target = NoTarget
      /\ reread = [r \in Runs |-> NoParty] /\ background = [r \in Runs |-> 0]
  BY DEF ClosingInit
<1>2. \A p \in Parties :
        parties[p] = NotOpened
        \/ parties[p] \in [status : {"OPEN"}, version : {1}, orders : SUBSET SaleOrders]
  BY DEF ClosingInit
<1>3. \A p \in Parties : parties[p] \in PartyRow
  BY <1>2 DEF NotOpened, PartyRow
<1>4. RecordsTyped
  <2>1. parties \in [Parties -> PartyRow]
    BY <1>3 DEF ClosingInit
  <2> QED BY <1>1, <2>1 DEF RecordsTyped, DocumentStatus
<1>5. ScreenTyped
  BY <1>1, ScreenIs, DetailsAre
<1>6. fiscal \in FiscalCopies /\ fiscal.provider = "NONE" /\ \A o \in SaleOrders : fiscal.docs[o] = "NONE"
  BY <1>1 DEF NothingLoaded, FiscalCopies, DocumentStatus
<1>7. RunsTyped
  BY <1>1, <1>6 DEF RunsTyped, FiscalCopies, NoTarget, AnyParty, Stages
<1>8. \A r \in Runs : stage[r] = "IDLE"
  BY <1>1
<1>9. \A o \in SaleOrders, k \in Kinds : <<o, k>> \in Runs /\ stage[<<o, k>>] = "IDLE"
  BY <1>8 DEF Runs
<1>10. ReceiptsAreAskedOnce /\ DocumentsExist
  BY <1>1, <1>6 DEF ReceiptsAreAskedOnce, DocumentsExist
<1>11. RunsAreOfSettled /\ SalesAreSeenTo
  BY <1>1, <1>8, <1>9 DEF RunsAreOfSettled, SalesAreSeenTo, Concluded, Kinds
<1>12. OrdersAreOfOneParty
  <2>1. \A p, q \in Parties : p = q \/ parties[p].orders \cap parties[q].orders = {}
    BY DEF ClosingInit
  <2>2. \A p \in Parties : parties[p].status = "NONE" => parties[p].orders = {}
    BY <1>2 DEF NotOpened
  <2> QED BY <2>1, <2>2 DEF OrdersAreOfOneParty
<1>13. OneRunCloses /\ FloorHasTheTable
  BY <1>8 DEF OneRunCloses, FloorHasTheTable
<1>14. TablesAreWatched
  <2>1. \A o \in SaleOrders : ~ Passed(o)
    BY <1>1, <1>9 DEF Passed, Concluded, Kinds
  <2>2. \A p \in SettledTables : \E o \in parties[p].orders : o \in SaleOrders
    BY <1>3 DEF SettledTables, Occupied, PartyRow
  <2> QED BY <2>1, <2>2 DEF TablesAreWatched
<1> QED BY <1>4, <1>5, <1>7, <1>10, <1>11, <1>12, <1>13, <1>14 DEF SaleInv, TablesInv

\* It implies that what was not done was reported.
LEMMA SaleInvCloses == SaleInv => SalesAreClosed
<1> SUFFICES ASSUME SaleInv PROVE SalesAreClosed
  OBVIOUS
<1>1. ASSUME NEW o \in SaleOrders
      PROVE /\ receiptJobs[o] <= 1
            /\ <<o, "SALE">> \in finished /\ o \notin warned => SaleDone(o)
  BY <1>1 DEF SaleInv, ReceiptsAreAskedOnce, SalesAreSeenTo, SaleDone
<1>2. ASSUME NEW p \in Occupied(parties), parties[p].orders # {},
             \A o \in parties[p].orders : OrderSettled(o, orderStatus)
      PROVE \E o \in parties[p].orders : o \in warned \cup misled \/ ~ Concluded(o)
  <2>1. p \in SettledTables
    BY <1>2 DEF SettledTables
  <2> QED BY <2>1 DEF SaleInv, TablesInv, TablesAreWatched, Passed
<1> QED BY <1>1, <1>2 DEF SalesAreClosed

\* Closing a sale leaves nothing undone that nobody was told about.
THEOREM SalesStayClosed == ClosingSpec => []SalesAreClosed
<1>1. ClosingSpec => []SaleInv
  BY SaleInit, SaleStep, PTL DEF ClosingSpec
<1> QED BY <1>1, SaleInvCloses, PTL

=============================================================================
