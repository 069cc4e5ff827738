---------------------------- MODULE SaleClosing ----------------------------
(***************************************************************************)
(* What a till does by itself once a sale is paid, or an order cancelled:  *)
(* it reads the order again, frees the table when nothing else is open     *)
(* there, sees to the fiscal document, asks for the receipt, and follows   *)
(* the document until it can be printed.  Several sales are closed at once *)
(* while the cashier uses the floor screen and other tills work.           *)
(***************************************************************************)
EXTENDS Integers, FiniteSets

CONSTANTS
  SaleOrders,
  Parties,        \* table sessions, each at a table of its own
  Polls,          \* attempts of _finishFiscalReceiptInBackground, 15 in the code
  MaxFaults,      \* bound: requests lost, reads failed or overtaken
  MaxElsewhere,   \* bound: what other tills do to table sessions
  MaxCommands     \* bound: what the cashier does on the floor screen

ASSUME ClosingAssumption ==
  /\ Polls \in Nat \ {0}
  /\ {MaxFaults, MaxElsewhere, MaxCommands} \subseteq Nat

NoParty == <<>>
NoSaleOrder == <<>>
ASSUME NoPartyAssumption == NoParty \notin Parties /\ NoSaleOrder \notin SaleOrders

VARIABLES
  orderStatus,   \* orders
  parties,       \* table_sessions with table_session_orders
  documents,     \* fiscal_documents: the sale's
  receiptJobs,   \* print_jobs: payment receipts the till asked for by itself
  merchant,      \* how the merchant issues documents, and whether this till prints them
  floor,         \* TableController._floor: the sessions it shows
  late,          \* floors read after an order was attached, not shown yet
  selection,     \* _selectedTableId and _selectedSession
  command,       \* the cashier's request that keeps TableController busy
  fiscal,        \* FiscalController: _runtime and _documents
  observed,      \* _observedCheckoutCompletion
  handled,       \* _handledCompletedCheckouts
  attempted,     \* _attemptedCheckoutIds
  stage, target, \* the runs of the coordinator; what the one at its table closes
  reread,        \* the session a run reads again
  background,    \* polls left of _finishFiscalReceiptInBackground, 0 when it is over
  printing,      \* _printingDocuments
  printed,       \* sales whose official receipt came out
  finished,      \* runs that came to their end
  warned,        \* orders about which attention was asked for
  misled,        \* orders whose table was judged by a read that failed, was overtaken or late
  dropped,       \* orders whose last poll found a document that is not pending
  faults, elsewhere, commands

recordVars == <<orderStatus, parties, documents, receiptJobs, merchant>>
shownVars == <<floor, late, selection, command>>
watching == <<observed, handled>>
closingVars == <<recordVars, shownVars, fiscal, watching, attempted, stage, target, reread,
  background, printing, printed, finished, warned, misled, dropped, faults, elsewhere,
  commands>>

\* completePaidSale, reconcileCancelledOrder, recoverFiscalDocument.
Kinds == {"SALE", "CANCELLATION", "RECOVERY"}
Runs == SaleOrders \X Kinds
Stages == {"IDLE", "ORDER", "FLOOR", "SESSION", "SEARCH", "CLOSE", "FISCAL", "ISSUE",
           "RECEIPT", "BARE", "ORDERS"}

\* The receipt of the first is the document itself; the second has a layout too.
Providers == {"ADE", "OPENAPI", "OTHER"}

\* A document that is QUEUED, PROCESSING or RETRY.
Pending == "PENDING"

NoDetail ==
  [party |-> NoParty, open |-> FALSE, version |-> 0, orders |-> {}, blocking |-> FALSE]
NotOpened == [status |-> "NONE", version |-> 0, orders |-> {}]
NoFloor == [known |-> FALSE, occupied |-> {}]
NoSelection == [table |-> NoParty, detail |-> NoDetail]
NoCommand == [kind |-> "NONE", party |-> NoParty, version |-> 0, order |-> NoSaleOrder]
NoTarget == [party |-> NoParty, version |-> 0]
NothingLoaded ==
  [runtime |-> "NONE", provider |-> "NONE", docs |-> [o \in SaleOrders |-> "NONE"]]

\* The till is started while some tables are open, with the orders attached to them;
\* the other orders are of the counter.
ClosingInit ==
  /\ orderStatus = [o \in SaleOrders |-> "OPEN"]
  /\ parties \in [Parties -> {NotOpened} \cup
                            [status : {"OPEN"}, version : {1}, orders : SUBSET SaleOrders]]
  /\ \A p, q \in Parties : p = q \/ parties[p].orders \cap parties[q].orders = {}
  /\ documents = [o \in SaleOrders |-> "NONE"]
  /\ receiptJobs = [o \in SaleOrders |-> 0]
  /\ merchant \in [runtime : {"READY", "MANUAL"}, provider : Providers, prints : BOOLEAN]
  /\ floor = NoFloor /\ selection = NoSelection /\ command = NoCommand
  /\ late = [o \in SaleOrders |-> NoFloor]
  /\ fiscal = NothingLoaded
  /\ observed = [o \in SaleOrders |-> "NONE"] /\ handled = {} /\ attempted = {}
  /\ stage = [r \in Runs |-> "IDLE"] /\ target = NoTarget
  /\ reread = [r \in Runs |-> NoParty]
  /\ background = [r \in Runs |-> 0] /\ printing = {} /\ printed = {}
  /\ finished = {} /\ warned = {} /\ misled = {} /\ dropped = {}
  /\ faults = 0 /\ elsewhere = 0 /\ commands = 0

Fault == faults < MaxFaults /\ faults' = faults + 1
-----------------------------------------------------------------------------
(***************************************************************************)
(* Mistakes this code could contain and does not: each, in the place of    *)
(* the definition it is a variant of, makes a property fail.               *)
(***************************************************************************)
\* The table is freed without asking whether the floor is busy.
NoBusyCheck == TRUE
-----------------------------------------------------------------------------
(* The API *)

OrderSettled(o, status) == status[o] \in {"PAID", "CANCELLED"}

Occupied(sessions) == {p \in Parties : sessions[p].status = "OPEN"}

Attached(o, sessions) == \E p \in Parties : o \in sessions[p].orders

\* What getTableSession answers, with hasBlockingOrders.
Detail(p, sessions) ==
  [party |-> p, open |-> sessions[p].status = "OPEN", version |-> sessions[p].version,
   orders |-> sessions[p].orders,
   blocking |-> \E o \in sessions[p].orders : ~ OrderSettled(o, orderStatus)]

\* mutateSession: the session is open and at the version the request names.
SessionAccepts(p, version) == parties[p].status = "OPEN" /\ parties[p].version = version

MayFinish(p, version) ==
  SessionAccepts(p, version) /\ \A o \in parties[p].orders : OrderSettled(o, orderStatus)

Finished(p) == [parties EXCEPT ![p].status = "CLOSED", ![p].version = @ + 1]
Updated(p) == [parties EXCEPT ![p].version = @ + 1]

MayAttach(o, p, version) ==
  SessionAccepts(p, version) /\ orderStatus[o] = "OPEN" /\ ~ Attached(o, parties)
WithOrder(o, p) == [parties EXCEPT ![p].orders = @ \cup {o}, ![p].version = @ + 1]
Opened(p) == [parties EXCEPT ![p].status = "OPEN", ![p].version = 1]

\* A document for the order, the one it has if there is one.
Issued(o) == [documents EXCEPT ![o] = IF @ = "NONE" THEN Pending ELSE @]
-----------------------------------------------------------------------------
(* Other tills, the fiscal provider *)

\* A party is seated, an order attached, a session changed or closed.
OtherTill(p) ==
  /\ elsewhere < MaxElsewhere /\ elsewhere' = elsewhere + 1
  /\ \/ parties[p].status = "NONE" /\ parties' = Opened(p)
     \/ \E o \in SaleOrders : MayAttach(o, p, parties[p].version) /\ parties' = WithOrder(o, p)
     \/ parties[p].status = "OPEN" /\ parties' = Updated(p)
     \/ MayFinish(p, parties[p].version) /\ parties' = Finished(p)
  /\ UNCHANGED <<orderStatus, documents, receiptJobs, merchant, shownVars, fiscal, watching,
       attempted, stage, target, reread, background, printing, printed, finished, warned,
       misled, dropped, faults, commands>>

\* A checkout of the order is completed, here or at another till.
PayOrder(o) ==
  /\ orderStatus[o] = "OPEN"
  /\ orderStatus' = [orderStatus EXCEPT ![o] = "PAID"]
  /\ UNCHANGED <<parties, documents, receiptJobs, merchant, shownVars, fiscal, watching,
       attempted, stage, target, reread, background, printing, printed, finished, warned,
       misled, dropped, faults, elsewhere, commands>>

CancelElsewhere(o) ==
  /\ orderStatus[o] = "OPEN"
  /\ elsewhere < MaxElsewhere /\ elsewhere' = elsewhere + 1
  /\ orderStatus' = [orderStatus EXCEPT ![o] = "CANCELLED"]
  /\ UNCHANGED <<parties, documents, receiptJobs, merchant, shownVars, fiscal, watching,
       attempted, stage, target, reread, background, printing, printed, finished, warned,
       misled, dropped, faults, commands>>

\* The API or another till issues the document.
IssueElsewhere(o) ==
  /\ orderStatus[o] = "PAID" /\ documents[o] = "NONE"
  /\ documents' = Issued(o)
  /\ UNCHANGED <<orderStatus, parties, receiptJobs, merchant, shownVars, fiscal, watching,
       attempted, stage, target, reread, background, printing, printed, finished, warned,
       misled, dropped, faults, elsewhere, commands>>

\* What becomes of the document: it is issued, rejected, or in doubt (UNKNOWN,
\* AUTH_REQUIRED), and may be concluded after all; one that was rejected is retried.
Becomes(status) ==
  CASE status \in {Pending, "UNKNOWN"} -> {Pending, "ISSUED", "REJECTED", "UNKNOWN"}
    [] status = "REJECTED" -> {Pending}
    [] OTHER -> {}

ConcludeDocument(o) ==
  /\ \E status \in Becomes(documents[o]) : documents' = [documents EXCEPT ![o] = status]
  /\ UNCHANGED <<orderStatus, parties, receiptJobs, merchant, shownVars, fiscal, watching,
       attempted, stage, target, reread, background, printing, printed, finished, warned,
       misled, dropped, faults, elsewhere, commands>>
-----------------------------------------------------------------------------
(* The floor screen *)

TablesBusy ==
  \/ command.kind # "NONE"
  \/ \E r \in Runs : stage[r] \in {"SEARCH", "CLOSE"}

FloorOf(sessions) == [known |-> TRUE, occupied |-> Occupied(sessions)]

Ordering == commands < MaxCommands /\ ~ TablesBusy /\ commands' = commands + 1

untouched == <<orderStatus, documents, receiptJobs, merchant, fiscal, watching, attempted,
  stage, target, reread, background, printing, printed, finished, warned, misled, dropped,
  elsewhere>>

\* A table is chosen; its session is read when the floor shows one.
SelectTable(p) ==
  /\ Ordering
  /\ selection' = [table |-> p, detail |-> NoDetail]
  /\ command' = IF p \in floor.occupied
                  THEN [NoCommand EXCEPT !.kind = "LOAD", !.party = p] ELSE NoCommand
  /\ UNCHANGED <<parties, floor, late, faults, untouched>>

CloseSelection ==
  /\ Ordering /\ selection' = NoSelection
  /\ UNCHANGED <<parties, floor, late, command, faults, untouched>>

\* The floor is read by itself: a screen is opened, a sale is over.
RefreshScreen ==
  /\ ~ TablesBusy
  /\ \/ floor' = FloorOf(parties) /\ UNCHANGED faults
     \/ floor' = NoFloor /\ Fault
  /\ selection' = [selection EXCEPT !.detail = IF selection.table \in floor'.occupied
                                                THEN Detail(selection.table, parties) ELSE NoDetail]
  /\ UNCHANGED <<parties, late, command, commands, untouched>>

\* The session shown is changed or moved, finished, or given an order.
CommandSession(kind, o) ==
  /\ Ordering /\ selection.detail.open
  /\ kind = "ATTACH" <=> o # NoSaleOrder
  /\ command' = [kind |-> kind, party |-> selection.detail.party,
                 version |-> selection.detail.version, order |-> o]
  /\ UNCHANGED <<parties, floor, late, selection, faults, untouched>>

\* A party is seated, with an order created for it or without.
CommandOpening(p, o) ==
  /\ Ordering
  /\ command' = [kind |-> "OPEN", party |-> p, version |-> 0, order |-> o]
  /\ UNCHANGED <<parties, floor, late, selection, faults, untouched>>

\* What the API makes of the command; nothing when it refuses.
Executed(c) ==
  IF c.kind = "UPDATE" /\ SessionAccepts(c.party, c.version) THEN Updated(c.party)
  ELSE IF c.kind = "FINISH" /\ MayFinish(c.party, c.version) THEN Finished(c.party)
  ELSE IF c.kind = "ATTACH" /\ MayAttach(c.order, c.party, c.version)
         THEN WithOrder(c.order, c.party)
  ELSE IF c.kind = "OPEN" /\ parties[c.party].status = "NONE" THEN Opened(c.party)
  ELSE parties

\* The order follows the session that was opened for it.
NextCommand(c, done) ==
  IF c.kind = "OPEN" /\ done /\ c.order # NoSaleOrder
    THEN [c EXCEPT !.kind = "ATTACH", !.version = 1] ELSE NoCommand

\* Somebody else changed the session: it is read again.
Conflict(c) ==
  /\ c.kind \in {"UPDATE", "ATTACH", "FINISH"}
  /\ parties[c.party].status = "OPEN" /\ parties[c.party].version # c.version

\* The session answered or read again; nothing is shown of one that was closed.
AcceptSession(c, done, sessions) ==
  IF c.kind = "FINISH" /\ done THEN NoSelection
  ELSE IF done \/ c.kind = "LOAD" \/ Conflict(c)
         THEN [table |-> c.party, detail |-> Detail(c.party, sessions)]
  ELSE selection

\* The floor is read again before the controller is free, unless the command goes on.
ReadsAgain(c, done) == Conflict(c) \/ (done /\ NextCommand(c, done) = NoCommand)

\* _refreshFloorSilently: a read that fails leaves the floor as it was.
ReadSilently(sessions) ==
  \/ floor' = FloorOf(sessions) /\ UNCHANGED faults
  \/ Fault /\ UNCHANGED floor

\* After an order was attached the floor is read too, but nobody waits for the answer.
AnswerCommand ==
  /\ command.kind # "NONE"
  /\ LET sessions == Executed(command)
         done == sessions # parties
     IN  /\ parties' = sessions
         /\ command' = NextCommand(command, done)
         /\ selection' = AcceptSession(command, done, sessions)
         /\ IF done /\ command.kind = "ATTACH"
              THEN /\ late' = [late EXCEPT ![command.order] = FloorOf(sessions)]
                   /\ UNCHANGED <<floor, faults>>
            ELSE /\ UNCHANGED late
                 /\ IF ReadsAgain(command, done) THEN ReadSilently(sessions)
                    ELSE UNCHANGED <<floor, faults>>
  /\ UNCHANGED <<commands, untouched>>

\* The command, or its answer, is lost.
LoseCommand ==
  /\ command.kind # "NONE" /\ Fault
  /\ parties' \in {parties, Executed(command)}
  /\ command' = NoCommand
  /\ UNCHANGED <<floor, late, selection, commands, untouched>>
\* The API reads such a floor at any time after its order was attached,
ReadLate(o) ==
  /\ late[o].known /\ late' = [late EXCEPT ![o] = FloorOf(parties)]
  /\ UNCHANGED <<recordVars, floor, selection, command, fiscal, watching, attempted, stage,
       target, reread, background, printing, printed, finished, warned, misled, dropped,
       faults, elsewhere, commands>>

\* The table of a run is open, and the floor f does not have it.
Hides(f, r) == \E p \in Occupied(parties) \ f.occupied : r[1] \in parties[p].orders

\* and it is shown at any time after that, or lost: no request number is compared.  A
\* search has the floor it began with: what comes meanwhile shows after it.
ShowLate(o) ==
  /\ late[o].known /\ late' = [late EXCEPT ![o] = NoFloor]
  /\ \A r \in Runs : stage[r] # "SEARCH"
  /\ \/ UNCHANGED <<floor, misled>>
     \/ /\ floor' = late[o]
        /\ misled' = misled \cup
             {r[1] : r \in {q \in Runs : stage[q] = "SESSION" /\ Hides(late[o], q)}}
  /\ UNCHANGED <<recordVars, selection, command, fiscal, watching, attempted, stage, target,
       reread, background, printing, printed, finished, warned, dropped, faults, elsewhere,
       commands>>
-----------------------------------------------------------------------------
(* The coordinator: the order *)

\* _setAttention, or not.  The line that is shown is the last one set.
Warn(o) == warned' = warned \cup {o}
Calm == UNCHANGED warned

Go(r, to) == stage' = [stage EXCEPT ![r] = to]

\* A run begins; a sale that is being closed is not closed twice at once.
StartRun(r, at) ==
  stage[r] = "IDLE" /\ Go(r, at)

\* _onCheckoutChanged: the first time a checkout that was open is seen completed.
ObserveCheckout(o) ==
  LET seen == IF orderStatus[o] = "PAID" THEN "COMPLETED" ELSE "OPEN"
      first == observed[o] = "OPEN" /\ seen = "COMPLETED" /\ o \notin handled
  IN  /\ orderStatus[o] # "CANCELLED" /\ observed[o] # seen
      /\ observed' = [observed EXCEPT ![o] = seen]
      /\ handled' = IF first THEN handled \cup {o} ELSE handled
      /\ IF first /\ stage[<<o, "SALE">>] = "IDLE"
           THEN StartRun(<<o, "SALE">>, "ORDER") ELSE UNCHANGED stage
  /\ UNCHANGED <<recordVars, shownVars, fiscal, attempted, target, reread, background, printing,
       printed, finished, warned, misled, dropped, faults, elsewhere, commands>>

\* The payment's screen closes the sale too, after the checkout was seen completed.
FinishOnScreen(o) ==
  /\ o \in handled /\ commands < MaxCommands
  /\ commands' = commands + 1
  /\ StartRun(<<o, "SALE">>, "ORDER")
  /\ UNCHANGED <<recordVars, shownVars, fiscal, watching, attempted, target, reread, background,
       printing, printed, finished, warned, misled, dropped, faults, elsewhere>>

\* An order is cancelled; its table is seen to when the row shown was of a table.
CancelOrder(o) ==
  /\ orderStatus[o] = "OPEN"
  /\ orderStatus' = [orderStatus EXCEPT ![o] = "CANCELLED"]
  /\ \/ StartRun(<<o, "CANCELLATION">>, "FLOOR") /\ UNCHANGED <<misled, faults>>
     \/ /\ StartRun(<<o, "CANCELLATION">>, "ORDERS")
        /\ IF Attached(o, parties) THEN misled' = misled \cup {o} /\ Fault
                                   ELSE UNCHANGED <<misled, faults>>
  /\ UNCHANGED <<parties, documents, receiptJobs, merchant, shownVars, fiscal, watching,
       attempted, target, reread, background, printing, printed, finished, warned, dropped,
       elsewhere, commands>>

\* The operator asks for a document that is missing.
RecoverDocument(o) ==
  /\ orderStatus[o] = "PAID" /\ commands < MaxCommands /\ commands' = commands + 1
  /\ StartRun(<<o, "RECOVERY">>, "FISCAL")
  /\ UNCHANGED <<recordVars, shownVars, fiscal, watching, attempted, target, reread, background,
       printing, printed, finished, warned, misled, dropped, faults, elsewhere>>

\* The order is read again: paid, or nothing more is done.
ReloadOrder(r) ==
  /\ stage[r] = "ORDER"
  /\ \/ /\ orderStatus[r[1]] = "PAID"
        /\ Go(r, IF Attached(r[1], parties) THEN "FLOOR" ELSE "FISCAL")
        /\ Calm /\ UNCHANGED faults
     \/ Fault /\ Warn(r[1]) /\ Go(r, "IDLE")
  /\ UNCHANGED <<recordVars, shownVars, fiscal, watching, attempted, target, reread, background,
       printing, printed, finished, misled, dropped, elsewhere, commands>>
-----------------------------------------------------------------------------
(* The coordinator: the table *)

AfterTable(r) == IF r[2] = "SALE" THEN "FISCAL" ELSE "ORDERS"

\* A session that is closed, or has open orders, is left alone.
Judge(r, detail) ==
  IF detail.open /\ ~ detail.blocking
    THEN /\ Go(r, "CLOSE")
         /\ target' = [party |-> detail.party, version |-> detail.version]
    ELSE Go(r, AfterTable(r)) /\ UNCHANGED target

\* The coordinator asks whether the floor is busy; closeSessionForSettledOrder has
\* nothing to say when it is.
TablesFree == ~ TablesBusy

Approach(r, detail) ==
  IF ~ TablesFree THEN Warn(r[1]) /\ Go(r, AfterTable(r)) /\ UNCHANGED target
  ELSE /\ Calm
       /\ IF TablesBusy THEN Go(r, AfterTable(r)) /\ UNCHANGED target
          ELSE IF r[1] \in detail.orders THEN Judge(r, detail)
          ELSE Go(r, "SEARCH") /\ UNCHANGED target

\* What the floor shows after a read: what there is, nothing when the read fails, and
\* what it showed before when another read overtook it.
ReadFloor(r) ==
  \/ floor' = FloorOf(parties) /\ UNCHANGED <<misled, faults>>
  \/ Fault /\ floor' = NoFloor /\ UNCHANGED misled
  \/ Fault /\ misled' = misled \cup {r[1]} /\ UNCHANGED floor

\* refreshOperationalState: the floor, then the session of the table chosen, if any;
\* nothing when the floor is busy.
RefreshFloor(r) ==
  /\ stage[r] = "FLOOR"
  /\ IF TablesBusy
       THEN Approach(r, selection.detail) /\ UNCHANGED <<floor, selection, reread, misled, faults>>
     ELSE /\ ReadFloor(r)
          /\ IF selection.table \in floor'.occupied
               THEN /\ reread' = [reread EXCEPT ![r] = selection.table]
                    /\ Go(r, "SESSION") /\ Calm /\ UNCHANGED <<selection, target>>
               ELSE /\ selection' = [selection EXCEPT !.detail = NoDetail]
                    /\ Approach(r, NoDetail) /\ UNCHANGED reread
  /\ UNCHANGED <<recordVars, late, command, fiscal, watching, attempted, background, printing,
       printed, finished, dropped, elsewhere, commands>>

\* Its session is shown, whatever was chosen meanwhile; a read that fails changes nothing.
FindSession(r) ==
  /\ stage[r] = "SESSION"
  /\ \/ /\ selection' = [table |-> reread[r], detail |-> Detail(reread[r], parties)]
        /\ UNCHANGED <<misled, faults>>
     \/ Fault /\ misled' = misled \cup {r[1]} /\ UNCHANGED selection
  /\ reread' = [reread EXCEPT ![r] = NoParty]
  /\ Approach(r, selection'.detail)
  /\ UNCHANGED <<recordVars, floor, late, command, fiscal, watching, attempted, background,
       printing, printed, finished, dropped, elsewhere, commands>>

\* The sessions on the floor are read until one has the order.
Searched == IF floor.known THEN floor.occupied ELSE Occupied(parties)

SearchSession(r) ==
  /\ stage[r] = "SEARCH"
  /\ \/ /\ \/ \E p \in Searched : r[1] \in parties[p].orders /\ Judge(r, Detail(p, parties))
           \/ /\ \A p \in Searched : r[1] \notin parties[p].orders
              /\ Go(r, AfterTable(r)) /\ UNCHANGED target
        /\ Calm /\ UNCHANGED faults
     \/ Fault /\ Warn(r[1]) /\ Go(r, AfterTable(r)) /\ UNCHANGED target
  /\ UNCHANGED <<recordVars, shownVars, fiscal, watching, attempted, reread, background,
       printing, printed, finished, misled, dropped, elsewhere, commands>>

\* The session is closed at the version that was read, or not.
CloseTable(r) ==
  /\ stage[r] = "CLOSE" /\ Go(r, AfterTable(r))
  /\ \/ /\ MayFinish(target.party, target.version)
        /\ parties' = Finished(target.party) /\ ReadSilently(parties')
        /\ selection' = IF selection.detail.party = target.party THEN NoSelection ELSE selection
        /\ Calm
     \/ /\ ~ MayFinish(target.party, target.version)
        /\ Warn(r[1]) /\ UNCHANGED <<parties, floor, selection, faults>>
     \/ /\ Fault /\ Warn(r[1])
        /\ parties' \in {parties} \cup {Finished(p) : p \in
                          {q \in {target.party} : MayFinish(q, target.version)}}
        /\ UNCHANGED <<floor, selection>>
  /\ UNCHANGED <<orderStatus, documents, receiptJobs, merchant, late, command, fiscal, watching,
       attempted, target, reread, background, printing, printed, finished, misled, dropped,
       elsewhere, commands>>

\* The orders are read again after a cancellation.
EndCancellation(r) ==
  /\ stage[r] = "ORDERS" /\ Go(r, "IDLE")
  /\ finished' = finished \cup {r}
  /\ UNCHANGED <<recordVars, shownVars, fiscal, watching, attempted, target, reread, background,
       printing, printed, warned, misled, dropped, faults, elsewhere, commands>>
-----------------------------------------------------------------------------
(* The coordinator: the fiscal document *)

FiscalBusy == \E r \in Runs : stage[r] = "ISSUE"

\* What a refresh of FiscalController leaves, and whether something failed: nothing new
\* when it is busy or overtaken, no answer about the configuration, one but no documents.
Refreshed ==
  LET load(runtime, docs) ==
        [runtime |-> runtime, provider |-> merchant.provider, docs |-> docs]
      answers == {merchant.runtime, "UNUSABLE"}
  IN  IF FiscalBusy THEN {[copy |-> fiscal, failed |-> FALSE]}
      ELSE {[copy |-> load(a, documents), failed |-> FALSE] : a \in answers}
             \cup {[copy |-> load(a, fiscal.docs), failed |-> TRUE] : a \in answers}
             \cup {[copy |-> [fiscal EXCEPT !.runtime = "UNVERIFIED"], failed |-> TRUE]}
             \cup {[copy |-> fiscal, failed |-> TRUE]}

Refresh(answer) ==
  /\ fiscal' = answer.copy
  /\ IF answer.failed THEN Fault ELSE UNCHANGED faults

\* The documents are read by a timer, a screen, or once a sale is over.
RefreshDocuments ==
  /\ \E answer \in Refreshed : Refresh(answer)
  /\ UNCHANGED <<recordVars, shownVars, watching, attempted, stage, target, reread, background,
       printing, printed, finished, warned, misled, dropped, elsewhere, commands>>

MayIssue(runtime) == runtime \in {"READY", "MANUAL"}

\* fiscalReceiptPdfActionsSupported: the till runs on Windows.
PrintsOfficial == merchant.provider \in {"ADE", "OPENAPI"} /\ merchant.prints

\* The polls begin with the document at hand.
Follow(r, docs) ==
  IF docs[r[1]] = "ISSUED"
    THEN /\ printing' = IF PrintsOfficial THEN printing \cup {r[1]} ELSE printing
         /\ background' = [background EXCEPT ![r] = 0]
    ELSE /\ background' = [background EXCEPT ![r] = IF docs[r[1]] = "REJECTED" THEN 0 ELSE Polls]
         /\ UNCHANGED printing

\* A sale goes on to its receipt; a recovery ends, following the document it has.
WithDocument(r, docs, rejected) ==
  IF r[2] = "SALE"
    THEN /\ Go(r, "RECEIPT") /\ IF rejected THEN Warn(r[1]) ELSE Calm
         /\ UNCHANGED <<background, printing>>
    ELSE /\ Go(r, "IDLE") /\ Follow(r, docs)
         /\ IF rejected THEN Warn(r[1]) ELSE Calm

WithoutDocument(r) ==
  /\ Warn(r[1]) /\ Go(r, IF r[2] = "SALE" THEN "BARE" ELSE "IDLE")
  /\ UNCHANGED <<background, printing>>

\* _ensureFiscalDocument up to the request: the document, a request, or attention.
EnsureDocument(r) ==
  /\ stage[r] = "FISCAL"
  /\ \E answer \in Refreshed :
       LET f == answer.copy
           missing == f.docs[r[1]] = "NONE"
       IN  /\ Refresh(answer)
           /\ IF \/ ~ MayIssue(f.runtime)
                 \/ missing /\ r[2] = "SALE" /\ f.runtime = "MANUAL"
                 \/ missing /\ FiscalBusy
                THEN WithoutDocument(r)
              ELSE IF missing THEN Go(r, "ISSUE") /\ Calm /\ UNCHANGED <<background, printing>>
              ELSE WithDocument(r, f.docs, f.docs[r[1]] = "REJECTED")
  /\ UNCHANGED <<recordVars, shownVars, watching, attempted, target, reread, printed, finished,
       misled, dropped, elsewhere, commands>>

\* issueOrder: a document, or a request that is lost, executed or not.
IssueDocument(r) ==
  /\ stage[r] = "ISSUE"
  /\ \/ /\ documents' = Issued(r[1])
        /\ fiscal' = [fiscal EXCEPT !.docs[r[1]] = documents'[r[1]]]
        /\ WithDocument(r, fiscal'.docs, documents'[r[1]] = "REJECTED") /\ UNCHANGED faults
     \/ /\ Fault /\ documents' \in {documents, Issued(r[1])}
        /\ WithoutDocument(r) /\ UNCHANGED fiscal
  /\ UNCHANGED <<orderStatus, parties, receiptJobs, merchant, shownVars, watching, attempted,
       target, reread, printed, finished, misled, dropped, elsewhere, commands>>
-----------------------------------------------------------------------------
(* The coordinator: the receipts *)

\* The automatic receipt: one attempt for each checkout, whatever comes of it.
PrintsReceipt(o) == fiscal.provider # "ADE" /\ o \notin attempted

AskedReceipt(o) == [receiptJobs EXCEPT ![o] = @ + 1]

\* The screen shows another checkout when the run it began comes to its receipt.
CheckoutGone(r) == r \in finished \/ r[1] \in warned

\* The run ends: its receipt asked for, its document followed.
EndSale(r) ==
  /\ stage[r] \in {"RECEIPT", "BARE"} /\ Go(r, "IDLE")
  /\ IF stage[r] = "RECEIPT" THEN Follow(r, fiscal.docs) ELSE UNCHANGED <<background, printing>>
  /\ LET rejected == stage[r] = "RECEIPT" /\ fiscal.docs[r[1]] = "REJECTED"
     IN  IF PrintsReceipt(r[1])
           THEN \/ /\ receiptJobs' = AskedReceipt(r[1])
                   /\ attempted' = attempted \cup {r[1]}
                   /\ IF rejected THEN Warn(r[1]) ELSE Calm
                   /\ UNCHANGED faults
                \/ /\ receiptJobs' \in {receiptJobs, AskedReceipt(r[1])}
                   /\ attempted' = attempted \cup {r[1]}
                   /\ Fault /\ Warn(r[1])
                \/ /\ CheckoutGone(r) /\ Fault /\ Warn(r[1])
                   /\ UNCHANGED <<attempted, receiptJobs>>
           ELSE /\ IF rejected THEN Warn(r[1]) ELSE Calm
                /\ UNCHANGED <<attempted, receiptJobs, faults>>
  /\ finished' = finished \cup {r}
  /\ UNCHANGED <<orderStatus, parties, documents, merchant, shownVars, fiscal, watching,
       target, reread, printed, misled, dropped, elsewhere, commands>>

\* One poll of _finishFiscalReceiptInBackground.  What the last one finds is not used,
\* unless the document is still pending.
PollDocument(r) ==
  /\ background[r] > 0
  /\ \E answer \in Refreshed :
       LET docs == answer.copy.docs
       IN  /\ Refresh(answer)
           /\ IF background[r] = 1
                THEN /\ background' = [background EXCEPT ![r] = 0] /\ UNCHANGED printing
                     /\ IF docs[r[1]] = Pending
                          THEN Warn(r[1]) /\ UNCHANGED dropped
                          ELSE dropped' = dropped \cup {r[1]} /\ Calm
              ELSE IF docs[r[1]] \in {"ISSUED", "REJECTED"}
                THEN /\ Follow(r, docs) /\ UNCHANGED dropped
                     /\ IF docs[r[1]] = "REJECTED" THEN Warn(r[1]) ELSE Calm
              ELSE /\ background' = [background EXCEPT ![r] = @ - 1]
                   /\ Calm /\ UNCHANGED <<printing, dropped>>
  /\ UNCHANGED <<recordVars, shownVars, watching, attempted, stage, target, reread, printed, finished,
       misled, elsewhere, commands>>

\* The official receipt is downloaded and printed.
PrintOfficial(o) ==
  /\ o \in printing /\ printing' = printing \ {o}
  /\ \/ printed' = printed \cup {o} /\ Calm /\ UNCHANGED faults
     \/ Fault /\ Warn(o) /\ UNCHANGED printed
  /\ UNCHANGED <<recordVars, shownVars, fiscal, watching, attempted, stage, target, reread,
       background, finished, misled, dropped, elsewhere, commands>>
-----------------------------------------------------------------------------
ClosingNext ==
  \/ \E p \in Parties : OtherTill(p) \/ SelectTable(p)
  \/ \E o \in SaleOrders :
       \/ ReadLate(o) \/ ShowLate(o)
       \/ PayOrder(o) \/ CancelElsewhere(o) \/ IssueElsewhere(o) \/ ConcludeDocument(o)
       \/ ObserveCheckout(o)
       \/ FinishOnScreen(o) \/ CancelOrder(o) \/ RecoverDocument(o) \/ PrintOfficial(o)
  \/ CloseSelection \/ AnswerCommand \/ LoseCommand \/ RefreshScreen \/ RefreshDocuments
  \/ \E kind \in {"UPDATE", "ATTACH", "FINISH"}, o \in SaleOrders \cup {NoSaleOrder} :
       CommandSession(kind, o)
  \/ \E p \in Parties, o \in SaleOrders \cup {NoSaleOrder} : CommandOpening(p, o)
  \/ \E r \in Runs :
       \/ ReloadOrder(r) \/ RefreshFloor(r) \/ FindSession(r) \/ SearchSession(r)
       \/ CloseTable(r) \/ EndCancellation(r) \/ EnsureDocument(r) \/ IssueDocument(r)
       \/ EndSale(r) \/ PollDocument(r)

ClosingSpec == ClosingInit /\ [][ClosingNext]_closingVars
-----------------------------------------------------------------------------
(***************************************************************************)
(* A run that ended without asking for attention did everything: the       *)
(* document exists, the payment receipt was asked for once where there is  *)
(* one, and a till that prints official receipts printed it, is about to,  *)
(* still polls, or found at its last poll a document that is not pending.  *)
(* A table all of whose orders are settled is free, or some order of it is *)
(* still to be seen to, or somebody was warned about it, or its run was    *)
(* misled by a read that failed, or was overtaken, or came late.           *)
(***************************************************************************)
SalePrinted(o) ==
  \/ o \in printed \cup printing \cup dropped
  \/ \E k \in Kinds : background[<<o, k>>] > 0

SaleDone(o) ==
  /\ orderStatus[o] = "PAID" /\ documents[o] # "NONE"
  /\ merchant.provider # "ADE" => receiptJobs[o] = 1
  /\ PrintsOfficial => SalePrinted(o)

Concluded(o) == <<o, "SALE">> \in finished \/ <<o, "CANCELLATION">> \in finished

\* Closing a sale leaves nothing undone that nobody was told about.
SalesAreClosed ==
  /\ \A o \in SaleOrders :
       /\ receiptJobs[o] <= 1
       /\ <<o, "SALE">> \in finished /\ o \notin warned => SaleDone(o)
  /\ \A p \in Occupied(parties) :
       parties[p].orders # {} /\ (\A o \in parties[p].orders : OrderSettled(o, orderStatus))
         => \E o \in parties[p].orders : o \in warned \cup misled \/ ~ Concluded(o)
=============================================================================
