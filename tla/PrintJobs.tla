----------------------------- MODULE PrintJobs -----------------------------
(***************************************************************************)
(* The print queue of one printer: documents become jobs in the database,  *)
(* the POS devices that act as the printer's agent claim them under a      *)
(* lease, print and report back, the API records attempts, and managers    *)
(* retry or cancel.                                                        *)
(***************************************************************************)
EXTENDS Integers, FiniteSets

CONSTANTS
  Jobs, Devices,
  MaxAttempts,    \* max_attempts of a job, 5 in the schema
  MaxTokens,      \* bound: leases ever given
  MaxDecisions,   \* bound: retries and cancellations asked for
  MaxAssignments, \* bound: changes of the printer's agent or status
  MaxLosses       \* bound: lost requests and answers, deaths of a device

ASSUME PrintAssumption ==
  /\ MaxAttempts \in Nat \ {0}
  /\ {MaxTokens, MaxDecisions, MaxAssignments, MaxLosses} \subseteq Nat

NoJob == <<>>
NoDevice == <<>>
ASSUME NoneAssumption == NoJob \notin Jobs /\ NoDevice \notin Devices

Tokens == 1..MaxTokens
NoToken == 0

JobStatus == {"NONE", "QUEUED", "CLAIMED", "COMPLETED", "FAILED", "CANCELLED"}
Outcomes == {"NONE", "CLAIMED", "COMPLETED", "FAILED", "EXPIRED"}
Phases == {"IDLE", "PRINTING", "COMPLETING", "FAILING"}

VARIABLES
  jobs,       \* print_jobs: status, attempts, lease, and whether its times passed
  attempts,   \* print_job_attempts by lease token
  printer,    \* printers: agent_device_id and status
  agent,      \* each device's _pollAgent: [phase, job, token]
  reports,   \* completions and failures on their way to the API
  paper,      \* jobs that came out of the printer
  decisions, decided,  \* managers' reports under way, how many were made
  assignments, losses

dbVars == <<jobs, attempts>>
bounds == <<assignments, losses>>
printVars == <<jobs, attempts, printer, agent, reports, paper, decisions, decided,
          assignments, losses>>

NewJob == [status |-> "NONE", attempts |-> 0, token |-> NoToken, device |-> NoDevice,
           due |-> TRUE, lapsed |-> FALSE, version |-> 0]
NoAttempt == [job |-> NoJob, device |-> NoDevice, outcome |-> "NONE"]
Polling == [phase |-> "IDLE", job |-> NoJob, token |-> NoToken]

PrintInit ==
  /\ jobs = [j \in Jobs |-> NewJob]
  /\ attempts = [t \in Tokens |-> NoAttempt]
  /\ \E d \in Devices : printer = [agent |-> d, active |-> TRUE]
  /\ agent = [d \in Devices |-> Polling]
  /\ reports = {} /\ paper = {}
  /\ decisions = {} /\ decided = 0
  /\ assignments = 0 /\ losses = 0

-----------------------------------------------------------------------------
(***************************************************************************)
(* Mistakes this code could contain and does not: each, in the place of    *)
(* the definition it is a variant of, makes a property fail.               *)
(***************************************************************************)
\* The attempt whose lease lapsed is left open.
NothingExpires(j) == attempts

\* A second request for a document queues its job anew.
Requeue(job) == [job EXCEPT !.status = "QUEUED", !.version = @ + 1]

\* Leases that lapsed are not claimed again.
QueuedOnly(j) == jobs[j].status = "QUEUED" /\ jobs[j].attempts < MaxAttempts /\ jobs[j].due
-----------------------------------------------------------------------------
(* Documents *)

\* A repeated request finds its job by dedupe key: ON CONFLICT DO NOTHING.
Requested(job) ==
  IF job.status = "NONE" THEN [job EXCEPT !.status = "QUEUED", !.version = 1] ELSE job

Repeated(job) == job

\* enqueueRouted, requestTestPage, requestExplicit: all end in insertJob.
EnqueueDocument(j) ==
  /\ printer.active
  /\ jobs' = [jobs EXCEPT ![j] = IF @.status = "NONE" THEN Requested(@) ELSE Repeated(@)]
  /\ UNCHANGED <<attempts, printer, agent, reports, paper, decisions, decided, bounds>>

-----------------------------------------------------------------------------
(* Leases *)

AgentOf(d) == printer.active /\ printer.agent = d   \* assertAgentPrinter

Claimable(j) ==
  \/ jobs[j].status = "QUEUED" /\ jobs[j].attempts < MaxAttempts /\ jobs[j].due
  \/ jobs[j].status = "CLAIMED" /\ jobs[j].lapsed

Fresh(t) == attempts[t] = NoAttempt /\ \A u \in 1..(t - 1) : attempts[u] # NoAttempt

\* The attempts of j, its lapsed one closed.
Expired(j) ==
  [t \in Tokens |-> IF jobs[j].token = t /\ attempts[t].outcome = "CLAIMED"
                      THEN [attempts[t] EXCEPT !.outcome = "EXPIRED"] ELSE attempts[t]]

UsedUp(j) == jobs[j].status = "CLAIMED" /\ jobs[j].attempts >= MaxAttempts

Settled(job, status) ==
  [job EXCEPT !.status = status, !.token = NoToken, !.device = NoDevice, !.lapsed = FALSE,
              !.version = @ + 1]

\* A job whose last lease lapsed.
Exhaust(j) ==
  /\ UsedUp(j)
  /\ jobs' = [jobs EXCEPT ![j] = Settled(@, "FAILED")]
  /\ attempts' = Expired(j)
  /\ UNCHANGED agent

Leased(job, d, t) ==
  [job EXCEPT !.status = "CLAIMED", !.attempts = @ + 1, !.token = t, !.device = d,
              !.lapsed = FALSE, !.version = @ + 1]

\* A new lease; the answer may be lost.
Lease(d, j, t) ==
  /\ ~ UsedUp(j) /\ Fresh(t)
  /\ jobs' = [jobs EXCEPT ![j] = Leased(@, d, t)]
  /\ attempts' = [Expired(j) EXCEPT ![t] = [job |-> j, device |-> d, outcome |-> "CLAIMED"]]
  /\ agent' = [agent EXCEPT ![d] = [phase |-> "PRINTING", job |-> j, token |-> t]]

\* claim: the candidate is any due job; priorities and locked rows are not
\* modelled.
Claim(d, j) ==
  /\ agent[d].phase = "IDLE" /\ AgentOf(d) /\ Claimable(j)
  /\ Exhaust(j) \/ \E t \in Tokens : Lease(d, j, t)
  /\ UNCHANGED <<printer, reports, paper, decisions, decided, bounds>>

\* The lease is valid for the report: assertLease.
LeaseValid(r) ==
  /\ jobs[r.job].status = "CLAIMED"
  /\ jobs[r.job].device = r.device /\ jobs[r.job].token = r.token
  /\ ~ jobs[r.job].lapsed

LeaseLapses(j) ==
  /\ jobs[j].status = "CLAIMED" /\ ~ jobs[j].lapsed
  /\ jobs' = [jobs EXCEPT ![j].lapsed = TRUE]
  /\ UNCHANGED <<attempts, printer, agent, reports, paper, decisions, decided, bounds>>

BackoffEnds(j) ==
  /\ jobs[j].status = "QUEUED" /\ ~ jobs[j].due
  /\ jobs' = [jobs EXCEPT ![j].due = TRUE]
  /\ UNCHANGED <<attempts, printer, agent, reports, paper, decisions, decided, bounds>>

-----------------------------------------------------------------------------
(* The agent on a device: claim, print, report *)

Report(d, op) == [op |-> op, device |-> d, job |-> agent[d].job, token |-> agent[d].token]

PrintSucceeds(d) ==
  /\ agent[d].phase = "PRINTING"
  /\ paper' = paper \cup {agent[d].job}
  /\ agent' = [agent EXCEPT ![d].phase = "COMPLETING"]
  /\ reports' = reports \cup {Report(d, "COMPLETE")}
  /\ UNCHANGED <<dbVars, printer, decisions, decided, bounds>>

\* Some of the copies may have come out.
PrintFails(d) ==
  /\ agent[d].phase = "PRINTING"
  /\ agent' = [agent EXCEPT ![d].phase = "FAILING"]
  /\ reports' = reports \cup {Report(d, "FAIL")}
  /\ UNCHANGED <<dbVars, printer, paper, decisions, decided, bounds>>

Waits(r) ==
  /\ agent[r.device].token = r.token
  /\ agent[r.device].phase = IF r.op = "COMPLETE" THEN "COMPLETING" ELSE "FAILING"

\* What a device does with the answer to r: an error of the completion is
\* caught and reported as a failure; an error of that report is dropped.
AnswerReport(r, ok) ==
  IF ~ Waits(r) THEN agent' = agent /\ reports' = reports \ {r}
  ELSE IF ok \/ r.op = "FAIL"
    THEN agent' = [agent EXCEPT ![r.device] = Polling] /\ reports' = reports \ {r}
    ELSE /\ agent' = [agent EXCEPT ![r.device].phase = "FAILING"]
         /\ reports' = (reports \ {r}) \cup {Report(r.device, "FAIL")}

\* A report of an attempt that already ended so is answered as before.
Repeats(r) ==
  attempts[r.token].outcome = IF r.op = "COMPLETE" THEN "COMPLETED" ELSE "FAILED"

Applies(r) == AgentOf(r.device) /\ LeaseValid(r)

Completed(job) == [job EXCEPT !.status = "COMPLETED", !.lapsed = FALSE, !.version = @ + 1]

Failed(job) ==
  [Settled(job, IF job.attempts < MaxAttempts THEN "QUEUED" ELSE "FAILED") EXCEPT !.due = FALSE]

\* complete, or the refusal of assertLease.
Complete(r) ==
  /\ r \in reports /\ r.op = "COMPLETE"
  /\ IF Applies(r)
       THEN /\ jobs' = [jobs EXCEPT ![r.job] = Completed(@)]
            /\ attempts' = [attempts EXCEPT ![r.token].outcome =
                              IF @ = "CLAIMED" THEN "COMPLETED" ELSE @]
       ELSE UNCHANGED dbVars
  /\ AnswerReport(r, Applies(r) \/ Repeats(r))
  /\ UNCHANGED <<printer, paper, decisions, decided, bounds>>

\* fail: the agent always calls its failures retryable.
Fail(r) ==
  /\ r \in reports /\ r.op = "FAIL"
  /\ IF Applies(r)
       THEN /\ jobs' = [jobs EXCEPT ![r.job] = Failed(@)]
            /\ attempts' = [attempts EXCEPT ![r.token].outcome =
                              IF @ = "CLAIMED" THEN "FAILED" ELSE @]
       ELSE UNCHANGED dbVars
  /\ AnswerReport(r, Applies(r) \/ Repeats(r))
  /\ UNCHANGED <<printer, paper, decisions, decided, bounds>>

\* The device stops waiting; its request may still arrive.
ReportTimesOut(d) ==
  /\ losses < MaxLosses /\ losses' = losses + 1
  /\ \/ /\ agent[d].phase = "COMPLETING"
        /\ agent' = [agent EXCEPT ![d].phase = "FAILING"]
        /\ reports' = reports \cup {Report(d, "FAIL")}
     \/ /\ agent[d].phase = "FAILING"
        /\ agent' = [agent EXCEPT ![d] = Polling] /\ UNCHANGED reports
  /\ UNCHANGED <<dbVars, printer, paper, decisions, decided, assignments>>

DropReport(r) ==
  /\ r \in reports /\ losses < MaxLosses /\ losses' = losses + 1
  /\ AnswerReport(r, FALSE)
  /\ UNCHANGED <<dbVars, printer, paper, decisions, decided, assignments>>

\* The app dies, or the answer to its claim is lost.
Die(d) ==
  /\ agent[d].phase # "IDLE" /\ losses < MaxLosses /\ losses' = losses + 1
  /\ agent' = [agent EXCEPT ![d] = Polling]
  /\ UNCHANGED <<dbVars, printer, reports, paper, decisions, decided, assignments>>

-----------------------------------------------------------------------------
(* Managers *)

Assign(d, active) ==
  /\ assignments < MaxAssignments /\ assignments' = assignments + 1
  /\ printer' = [agent |-> d, active |-> active]
  /\ UNCHANGED <<dbVars, agent, reports, paper, decisions, decided, losses>>

\* assertAdminPrintTransition
Allowed(action, status) ==
  IF action = "RETRY" THEN status = "FAILED" ELSE status \in {"QUEUED", "FAILED"}

\* A manager sees the job and asks for it to be retried or cancelled.
Decide(j, action) ==
  /\ decided < MaxDecisions /\ decided' = decided + 1
  /\ Allowed(action, jobs[j].status)
  /\ decisions' = decisions \cup
       {[job |-> j, action |-> action, version |-> jobs[j].version, shown |-> jobs[j].status]}
  /\ UNCHANGED <<dbVars, printer, agent, reports, paper, bounds>>

Retried(job) == [NewJob EXCEPT !.status = "QUEUED", !.version = job.version + 1]
Cancelled(job) == [job EXCEPT !.status = "CANCELLED", !.version = @ + 1]

VersionShown(m) == jobs[m.job].version = m.version

\* adminMutation, applied or refused.
Mutate(m) ==
  /\ m \in decisions /\ decisions' = decisions \ {m}
  /\ jobs' = IF VersionShown(m) /\ Allowed(m.action, jobs[m.job].status)
               THEN [jobs EXCEPT ![m.job] =
                       IF m.action = "RETRY" THEN Retried(@) ELSE Cancelled(@)]
               ELSE jobs
  /\ UNCHANGED <<attempts, printer, agent, reports, paper, decided, bounds>>

-----------------------------------------------------------------------------
PrintNext ==
  \/ \E j \in Jobs : EnqueueDocument(j) \/ LeaseLapses(j) \/ BackoffEnds(j)
  \/ \E d \in Devices, j \in Jobs : Claim(d, j)
  \/ \E d \in Devices : PrintSucceeds(d) \/ PrintFails(d) \/ ReportTimesOut(d) \/ Die(d)
  \/ \E r \in reports : Complete(r) \/ Fail(r) \/ DropReport(r)
  \/ \E d \in Devices, active \in BOOLEAN : Assign(d, active)
  \/ \E j \in Jobs, action \in {"RETRY", "CANCEL"} : Decide(j, action)
  \/ \E m \in decisions : Mutate(m)

PrintSpec == PrintInit /\ [][PrintNext]_printVars

\* The agent polls every 4 s and hears from its printer; the API executes what
\* arrives; time passes.
PrintFairness ==
  /\ \A j \in Jobs : WF_printVars(LeaseLapses(j)) /\ WF_printVars(BackoffEnds(j))
  /\ \A d \in Devices : WF_printVars(\E j \in Jobs : Claim(d, j))
  /\ \A d \in Devices : WF_printVars(PrintSucceeds(d) \/ PrintFails(d))
  /\ WF_printVars(\E r \in reports : Complete(r) \/ Fail(r))

-----------------------------------------------------------------------------
AttemptsOf(j, outcome) == {t \in Tokens : attempts[t].job = j /\ attempts[t].outcome = outcome}

Job == [status : JobStatus, attempts : 0..MaxAttempts, token : Tokens \cup {NoToken},
        device : Devices \cup {NoDevice}, due : BOOLEAN, lapsed : BOOLEAN, version : Nat]
Attempt == [job : Jobs \cup {NoJob}, device : Devices \cup {NoDevice}, outcome : Outcomes]
RowsTyped == jobs \in [Jobs -> Job] /\ attempts \in [Tokens -> Attempt]

AgentsTyped ==
  /\ agent \in [Devices -> [phase : Phases, job : Jobs \cup {NoJob},
                            token : Tokens \cup {NoToken}]]
  /\ reports \subseteq [op : {"COMPLETE", "FAIL"}, device : Devices, job : Jobs,
                         token : Tokens]
  /\ paper \subseteq Jobs

DecisionsTyped ==
  /\ decisions \subseteq [job : Jobs, action : {"RETRY", "CANCEL"}, version : Nat,
                          shown : JobStatus]
  /\ decided \in 0..MaxDecisions

PrintTypeOK ==
  /\ RowsTyped /\ AgentsTyped /\ DecisionsTyped
  /\ printer \in [agent : Devices, active : BOOLEAN]
  /\ assignments \in 0..MaxAssignments /\ losses \in 0..MaxLosses

(***************************************************************************)
(* The history of attempts tells the state of the job: it is claimed while *)
(* exactly one attempt, that of its lease and its device, is open, and     *)
(* completed by exactly one attempt (claim, complete, fail).               *)
(***************************************************************************)
AttemptsMatchJobs ==
  \A j \in Jobs :
    /\ AttemptsOf(j, "CLAIMED") = IF jobs[j].status = "CLAIMED" THEN {jobs[j].token} ELSE {}
    /\ AttemptsOf(j, "COMPLETED") = IF jobs[j].status = "COMPLETED" THEN {jobs[j].token} ELSE {}
    /\ jobs[j].status = "CLAIMED" => attempts[jobs[j].token].device = jobs[j].device

(***************************************************************************)
(* A queued job can be claimed once its time has come: one that has used   *)
(* up its attempts would wait for ever (claim's condition, fail, retry).   *)
(***************************************************************************)
QueuedJobsCanBeClaimed ==
  \A j \in Jobs : jobs[j].status = "QUEUED" => jobs[j].attempts < MaxAttempts

(***************************************************************************)
(* What the queue calls completed came out of the printer, whatever        *)
(* reports were lost, late or refused (_pollAgent, complete).              *)
(***************************************************************************)
CompletedJobsWerePrinted == \A j \in Jobs : jobs[j].status = "COMPLETED" => j \in paper

(***************************************************************************)
(* A job completed or cancelled is never touched again: no late report, no *)
(* repeated request and no older decision brings it back; and a manager's  *)
(* retry or cancellation applies only to a job in the state he was shown   *)
(* (assertLease, insertJob, adminMutation's expectedVersion).              *)
(***************************************************************************)
ConcludedStaysConcluded ==
  [][/\ \A j \in Jobs : jobs[j].status \in {"COMPLETED", "CANCELLED"} => jobs'[j] = jobs[j]
     /\ \A m \in decisions \ decisions' :
          jobs' # jobs => jobs[m.job].status = m.shown]_printVars

(***************************************************************************)
(* The queue and its history agree, nothing waits for ever with its        *)
(* attempts used up, and nothing is called printed that is not on paper.   *)
(***************************************************************************)
JobsMatchTheirHistory ==
  AttemptsMatchJobs /\ QueuedJobsCanBeClaimed /\ CompletedJobsWerePrinted

(***************************************************************************)
(* Every document of an active printer is printed, given up or cancelled,  *)
(* although devices die and reports are lost.                             *)
(***************************************************************************)
JobsAreConcluded ==
  \A j \in Jobs :
    jobs[j].status = "QUEUED"
      ~> (jobs[j].status \in {"COMPLETED", "FAILED", "CANCELLED"} \/ ~ printer.active)
=============================================================================
