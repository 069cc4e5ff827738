---------------------------- MODULE OfflineQueue ----------------------------
(***************************************************************************)
(* Cash sales made while the point of sale is offline: a draft and an      *)
(* outbox in the database of the device, a loop that replays the outbox to *)
(* the API, and the API's transaction that turns a sale into a paid order. *)
(***************************************************************************)
EXTENDS Integers, FiniteSets

CONSTANTS
  Sales,      \* sale ids: a draft gets a fresh one
  Contents,   \* what a sale may hold: its lines and the cash tendered
  QueryAccepted,   \* PostgreSQL accepts findExistingOrder; as written it does not
  MaxCrashes, MaxFailures   \* bounds: deaths of the app, answers that are lost or errors

ASSUME OfflineAssumption ==
  /\ QueryAccepted \in BOOLEAN
  /\ {MaxCrashes, MaxFailures} \subseteq Nat

NoSale == <<>>   \* no draft, no operation, nothing recorded
ASSUME NoSaleAssumption == NoSale \notin Sales /\ NoSale \notin Contents

Status == {"NONE", "QUEUED", "SYNCING", "SYNCED", "CONFLICT", "FAILED"}
Replies == {"WAITING", "OK", "CONFLICT", "ERROR"}

VARIABLES
  draft,      \* the draft kept on the device: [sale, content]
  completing, \* completeCashSale is between its enqueue and its deleteCache
  outbox,     \* Sales -> [status, content]: offline_outbox
  loop,       \* syncDue: [running, due, current, reply]; current is a request
  requests,   \* replays on their way to the API or being executed: [sale, content, n]
  recorded,   \* Sales -> content in offline_sale_replays
  orders,     \* Sales -> paid orders made for the sale
  completed,  \* sales the cashier was told are saved
  crashes, failures

deviceVars == <<draft, completing, outbox, completed>>
serverVars == <<requests, recorded, orders>>
vars == <<deviceVars, loop, serverVars, crashes, failures>>

NoDraft == [sale |-> NoSale, content |-> NoSale]
NoOperation == [status |-> "NONE", content |-> NoSale]
NoRequest == [sale |-> NoSale, content |-> NoSale, n |-> 0]
\* Only a death of the app or a failure leaves a request behind.
Request == [sale : Sales, content : Contents, n : 1..(MaxCrashes + MaxFailures + 1)]
Loop == [running : BOOLEAN, due : SUBSET Sales, current : Request \cup {NoRequest},
         reply : Replies]
Idle == [running |-> FALSE, due |-> {}, current |-> NoRequest, reply |-> "WAITING"]

Init ==
  /\ draft = NoDraft /\ completing = FALSE
  /\ outbox = [s \in Sales |-> NoOperation]
  /\ loop = Idle
  /\ requests = {}
  /\ recorded = [s \in Sales |-> NoSale]
  /\ orders = [s \in Sales |-> 0]
  /\ completed = {}
  /\ crashes = 0 /\ failures = 0

-----------------------------------------------------------------------------
(***************************************************************************)
(* Mistakes this code could contain and does not: each, in the place of    *)
(* the definition it is a variant of, makes a property fail.               *)
(***************************************************************************)
\* A sale under an id the outbox knows replaces the one it holds.
AcceptedAlways(s, content) == TRUE

\* The API looks for an earlier replay by its contents instead of its id.
AlreadyRecordedAlike(s, content) == recorded[s] = content

\* Only operations that were never tried are due.
DueNewOnly == {"QUEUED"}
-----------------------------------------------------------------------------
(* The cashier's device *)

\* OfflineSaleDraft.empty and the first product.
StartDraft(s, content) ==
  /\ draft = NoDraft /\ ~ completing
  /\ outbox[s] = NoOperation /\ recorded[s] = NoSale /\ s \notin completed
  /\ draft' = [sale |-> s, content |-> content]
  /\ UNCHANGED <<completing, outbox, completed, loop, serverVars, crashes, failures>>

\* addProduct, updateQuantity, removeLine, or another amount of cash.
EditDraft(content) ==
  /\ draft # NoDraft /\ ~ completing
  /\ draft' = [draft EXCEPT !.content = content]
  /\ UNCHANGED <<completing, outbox, completed, loop, serverVars, crashes, failures>>

DiscardDraft ==
  /\ draft # NoDraft /\ ~ completing
  /\ draft' = NoDraft
  /\ UNCHANGED <<completing, outbox, completed, loop, serverVars, crashes, failures>>

\* enqueue: an id the outbox holds must come with the same payload; anything
\* else is a StateError and the sale stays a draft.
Accepted(s, content) == outbox[s] = NoOperation \/ outbox[s].content = content

\* completeCashSale, first half: the outbox row is committed.
Enqueue ==
  /\ draft # NoDraft /\ ~ completing
  /\ Accepted(draft.sale, draft.content)
  /\ outbox' = [outbox EXCEPT ![draft.sale] =
                  IF @.content = draft.content
                    THEN @ ELSE [status |-> "QUEUED", content |-> draft.content]]
  /\ completing' = TRUE
  /\ UNCHANGED <<draft, completed, loop, serverVars, crashes, failures>>

\* Second half: the draft goes, the cashier is told.
FinishSale ==
  /\ completing
  /\ completed' = completed \cup {draft.sale}
  /\ draft' = NoDraft /\ completing' = FALSE
  /\ UNCHANGED <<outbox, loop, serverVars, crashes, failures>>

\* The app dies; draft and outbox are on disk, the rest is not.
Crash ==
  /\ crashes < MaxCrashes
  /\ crashes' = crashes + 1
  /\ completing' = FALSE /\ loop' = Idle
  /\ UNCHANGED <<draft, outbox, completed, serverVars, failures>>

\* retryNow
Retry(s) ==
  /\ outbox[s].status \in {"FAILED", "CONFLICT"}
  /\ outbox' = [outbox EXCEPT ![s].status = "QUEUED"]
  /\ UNCHANGED <<draft, completing, completed, loop, serverVars, crashes, failures>>

\* removeSynced
ClearableStatus == {"SYNCED"}
ClearSynced ==
  /\ \E s \in Sales : outbox[s].status \in ClearableStatus
  /\ outbox' = [s \in Sales |-> IF outbox[s].status \in ClearableStatus
                                  THEN NoOperation ELSE outbox[s]]
  /\ UNCHANGED <<draft, completing, completed, loop, serverVars, crashes, failures>>

-----------------------------------------------------------------------------
(* syncDue: one loop at a time over what was due when it began *)

DueStatus == {"QUEUED", "FAILED"}
Due == {s \in Sales : outbox[s].status \in DueStatus}

BeginSync ==
  /\ ~ loop.running /\ Due # {}
  /\ loop' = [Idle EXCEPT !.running = TRUE, !.due = Due]
  /\ UNCHANGED <<deviceVars, serverVars, crashes, failures>>

\* A request is another one than those given up that may still arrive.
Numbered(r) ==
  /\ \A q \in requests : q.n # r.n
  /\ \A m \in 1..(r.n - 1) : \E q \in requests : q.n = m

\* markSyncing, and the request leaves.
Replay(s) ==
  /\ loop.running /\ loop.current = NoRequest /\ s \in loop.due
  /\ outbox' = [outbox EXCEPT ![s].status = "SYNCING"]
  /\ \E r \in Request :
       /\ r.sale = s /\ r.content = outbox[s].content /\ Numbered(r)
       /\ loop' = [loop EXCEPT !.due = @ \ {s}, !.current = r, !.reply = "WAITING"]
       /\ requests' = requests \cup {r}
  /\ UNCHANGED <<draft, completing, completed, recorded, orders, crashes, failures>>

\* markSynced, markConflict, markFailed.
StatusAfter(reply) ==
  CASE reply = "OK" -> "SYNCED"
    [] reply = "CONFLICT" -> "CONFLICT"
    [] OTHER -> "FAILED"

RecordReply ==
  /\ loop.current # NoRequest /\ loop.reply # "WAITING"
  /\ outbox' = [outbox EXCEPT ![loop.current.sale].status = StatusAfter(loop.reply)]
  /\ loop' = [loop EXCEPT !.current = NoRequest, !.reply = "WAITING"]
  /\ UNCHANGED <<draft, completing, completed, serverVars, crashes, failures>>

EndSync ==
  /\ loop.running /\ loop.current = NoRequest /\ loop.due = {}
  /\ loop' = Idle
  /\ UNCHANGED <<deviceVars, serverVars, crashes, failures>>

-----------------------------------------------------------------------------
(* The API and the network *)

\* An answer reaches the loop only if it still waits for this request.
Answer(r, reply) ==
  IF loop.current = r /\ loop.reply = "WAITING" THEN [loop EXCEPT !.reply = reply] ELSE loop

AlreadyRecorded(s, content) == recorded[s] # NoSale

\* What a first replay leaves: a paid order with its checkout and payment, and
\* the record of the replay.
RecordSale(s, content) ==
  /\ recorded' = [recorded EXCEPT ![s] = content]
  /\ orders' = [orders EXCEPT ![s] = @ + 1]

\* OfflineSalesService.replay: one transaction under the lock of the sale id.
Execute(r) ==
  /\ r \in requests
  /\ requests' = requests \ {r}
  /\ IF ~ AlreadyRecorded(r.sale, r.content) /\ QueryAccepted
       THEN RecordSale(r.sale, r.content) /\ loop' = Answer(r, "OK")
       ELSE /\ loop' = Answer(r, IF recorded[r.sale] = r.content THEN "OK"
                               ELSE IF recorded[r.sale] # NoSale THEN "CONFLICT" ELSE "ERROR")
            /\ UNCHANGED <<recorded, orders>>
  /\ UNCHANGED <<deviceVars, crashes, failures>>

\* The API refuses the sale: a product that is not the merchant's, or an order
\* that exists in another state (409), or it fails.
Reject(r, reply) ==
  /\ r \in requests /\ failures < MaxFailures
  /\ requests' = requests \ {r}
  /\ loop' = Answer(r, reply)
  /\ failures' = failures + 1
  /\ UNCHANGED <<deviceVars, recorded, orders, crashes>>

\* The device gives up waiting; the request may still arrive.
TimeOut ==
  /\ loop.current # NoRequest /\ loop.reply = "WAITING" /\ failures < MaxFailures
  /\ loop' = [loop EXCEPT !.reply = "ERROR"]
  /\ failures' = failures + 1
  /\ UNCHANGED <<deviceVars, serverVars, crashes>>

\* A request whose connection breaks before the API sees it.
Drop(r) ==
  /\ r \in requests /\ failures < MaxFailures
  /\ requests' = requests \ {r}
  /\ loop' = Answer(r, "ERROR")
  /\ failures' = failures + 1
  /\ UNCHANGED <<deviceVars, recorded, orders, crashes>>

Next ==
  \/ \E s \in Sales : Replay(s) \/ Retry(s) \/ \E c \in Contents : StartDraft(s, c)
  \/ \E c \in Contents : EditDraft(c)
  \/ DiscardDraft \/ Enqueue \/ FinishSale \/ Crash \/ ClearSynced
  \/ BeginSync \/ RecordReply \/ EndSync \/ TimeOut
  \/ \E r \in requests : Execute(r) \/ Drop(r) \/ \E reply \in {"CONFLICT", "ERROR"} : Reject(r, reply)

Spec == Init /\ [][Next]_vars

\* The timer of syncDue comes round every 15 s, and an operation in its list is
\* replayed; the API executes what reaches it, with no bound on how late.
DeviceFairness ==
  /\ WF_vars(BeginSync) /\ WF_vars(RecordReply) /\ WF_vars(EndSync)
  /\ \A s \in Sales : WF_vars(Replay(s))
  /\ WF_vars(FinishSale)

ExecuteOne == \E r \in requests : Execute(r)

-----------------------------------------------------------------------------
TypeOK ==
  /\ draft \in [sale : Sales, content : Contents] \cup {NoDraft}
  /\ completing \in BOOLEAN /\ (completing => draft # NoDraft)
  /\ outbox \in [Sales -> [status : Status, content : Contents \cup {NoSale}]]
  /\ \A s \in Sales : outbox[s].status = "NONE" <=> outbox[s].content = NoSale
  /\ loop \in Loop
  /\ requests \subseteq Request
  /\ recorded \in [Sales -> Contents \cup {NoSale}]
  /\ orders \in [Sales -> Nat]
  /\ completed \subseteq Sales
  /\ crashes \in 0..MaxCrashes /\ failures \in 0..MaxFailures

(***************************************************************************)
(* A sale becomes one paid order however often it is replayed, and however *)
(* late an abandoned replay arrives (OfflineSalesService.replay).          *)
(***************************************************************************)
OneOrderPerSale == \A s \in Sales : orders[s] <= 1

(***************************************************************************)
(* What the device calls synchronised is recorded by the API with exactly  *)
(* the contents the device holds (markSynced; the request hash).           *)
(***************************************************************************)
SyncedSalesAreRecorded ==
  \A s \in Sales : outbox[s].status = "SYNCED" => recorded[s] = outbox[s].content

(***************************************************************************)
(* A sale the cashier was told is saved is in the outbox or recorded:      *)
(* neither a crash nor clearing the list loses the cash it stands for      *)
(* (completeCashSale, removeSynced).                                       *)
(***************************************************************************)
SavedSalesAreKept ==
  \A s \in completed : outbox[s] # NoOperation \/ recorded[s] # NoSale

(***************************************************************************)
(* A sale is one paid order with the contents the device holds, from the   *)
(* moment the cashier is told, whatever is lost, late or repeated.         *)
(***************************************************************************)
SalesAreRecordedOnce == OneOrderPerSale /\ SyncedSalesAreRecorded /\ SavedSalesAreKept

(***************************************************************************)
(* What a crash left as a draft though it was queued can be completed      *)
(* again, but not changed into another sale of the same id: the contents   *)
(* in the outbox never change (enqueue's comparison of payloads).          *)
(***************************************************************************)
QueuedSalesKeepTheirContents ==
  [][\A s \in Sales :
       (outbox[s] # NoOperation /\ outbox'[s] # NoOperation)
         => outbox'[s].content = outbox[s].content]_vars

(***************************************************************************)
(* "Verrà sincronizzata automaticamente": a sale the cashier was told is   *)
(* saved ends up recorded, or in a conflict the cashier is shown.  It does *)
(* not: what was being sent when the app died is never sent again.         *)
(***************************************************************************)
SaleConcluded(s) == recorded[s] # NoSale \/ outbox[s].status = "CONFLICT"

SalesAreSynced == \A s \in Sales : s \in completed ~> SaleConcluded(s)

(***************************************************************************)
(* Nothing but a conclusion takes a saved sale off the list: from any      *)
(* state without one, however many attempts have failed or answers were    *)
(* lost and whether the app has been started anew, it is sent, again       *)
(* (syncDue's choice of what is due).  Nothing is said of how an attempt   *)
(* ends, which with the query as it is written is an error every time.     *)
(***************************************************************************)
SalesAreTriedUntilConcluded ==
  \A s \in Sales : s \in completed ~> (outbox[s].status = "SYNCING" \/ SaleConcluded(s))
=============================================================================
