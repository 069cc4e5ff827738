----------------------------- MODULE OrderTills -----------------------------
(***************************************************************************)
(* Orders composed at the tills of one place.  OrderController works on    *)
(* the copy of the order its last answer carried and sends one change at a *)
(* time with the version of that copy; OrdersService commits a change and  *)
(* then reads the order it answers with, header first and lines after, in  *)
(* no transaction.  A till may give up a request the API still executes.   *)
(***************************************************************************)
EXTENDS Integers, FiniteSets

CONSTANTS
  OrderDevices,            \* tills bound to the place
  MaxOrders, MaxIds,       \* bounds: orders, identifiers the tills generate,
  MaxReads, MaxGivenUp     \* orders they ask for, requests they give up

ASSUME OrderTillsAssumption == {MaxOrders, MaxIds, MaxReads, MaxGivenUp} \subseteq Nat

OrderRows == 1..MaxOrders

VARIABLES
  sheet,      \* orders and order_items: OrderRows -> [status, version, draft, lines]
  calls,      \* requests not answered yet, and those nobody waits for any more
  counter,    \* OrderDevices -> what OrderController holds: [draft, active]
  generated,  \* identifiers the tills have generated
  reads,      \* orders they have asked for
  givenUp     \* requests they have given up

tillVars == <<sheet, calls, counter, generated, reads, givenUp>>

NoSheet == [status |-> "NONE", version |-> 0, draft |-> 0, lines |-> {}]
NoOrderCopy == [order |-> 0, status |-> "NONE", version |-> 0, lines |-> {}]

\* An order an earlier till left, with one line.
EarlierOrder == [status |-> "OPEN", version |-> 2, draft |-> -1,
                 lines |-> {[item |-> -1, quantity |-> 1]}]

OrderTillsInit ==
  /\ \E first \in {NoSheet, EarlierOrder} :
       sheet = [o \in OrderRows |-> IF o = 1 THEN first ELSE NoSheet]
  /\ calls = {}
  /\ counter = [d \in OrderDevices |-> [draft |-> 0, active |-> NoOrderCopy]]
  /\ generated = 0 /\ reads = 0 /\ givenUp = 0

Written == {o \in OrderRows : sheet[o].status # "NONE"}
Fresh == generated + 1   \* UuidV4.generate

Draft(d) == counter[d].draft
Active(d) == counter[d].active

\* A request: what it asks for, and how far the API is with it.  "seen" are the
\* lines of the copy whose version it carries.
Reads == {"SELECT", "BEFORE_RESUME", "RELOAD", "REFRESH"}
Call(d, kind) ==
  [device |-> d, kind |-> kind, order |-> 0, expected |-> 0, draft |-> 0, item |-> 0,
   seen |-> {}, stage |-> "SENT", awaited |-> TRUE, copy |-> NoOrderCopy]

\* _busy: every tap awaits its request; the refresh in the background is not a tap.
BusyWith(d) == {c \in calls : c.device = d /\ c.awaited /\ c.kind # "REFRESH"}
Idle(d) == BusyWith(d) = {}

\* OrdersApi: the request of a tap leaves with a mutationId of its own.
ChangeOf(d, kind, copy, item) ==
  [Call(d, kind) EXCEPT !.order = copy.order, !.expected = copy.version,
                        !.seen = copy.lines, !.item = item]

\* findOrder: a request reads the header of the order it answers with ...
HeaderRead(c, o) ==
  [c EXCEPT !.order = o, !.stage = "HEADER", !.copy.order = o,
            !.copy.status = sheet[o].status, !.copy.version = sheet[o].version]
ReadOf(d, kind, o) == HeaderRead(Call(d, kind), o)

-----------------------------------------------------------------------------
(***************************************************************************)
(* Mistakes this code could contain and does not: each, in the place of    *)
(* the definition it is a variant of, makes a property fail.               *)
(***************************************************************************)
\* A new quantity is written without moving the version.
VersionKeptByUpdate(c) ==
  IF c.kind = "UPDATE" THEN sheet[c.order].version ELSE sheet[c.order].version + 1
-----------------------------------------------------------------------------
(* OrderController: what the cashier does, when no tap is under way *)

Send(c) == calls' = calls \cup {c}
Holding(d, draft, active) ==
  counter' = [counter EXCEPT ![d] = [draft |-> draft, active |-> active]]

\* startDraft: nothing is sent before the first product.
StartOrderDraft(d) ==
  /\ Idle(d) /\ generated < MaxIds
  /\ generated' = Fresh
  /\ Holding(d, Fresh, NoOrderCopy)
  /\ UNCHANGED <<sheet, calls, reads, givenUp>>

\* discardCurrentView.
DiscardView(d) ==
  /\ Idle(d)
  /\ Holding(d, 0, NoOrderCopy)
  /\ UNCHANGED <<sheet, calls, generated, reads, givenUp>>

\* addCatalogItem: the line goes to the order shown, and without one the draft
\* becomes an order first, under the identifier the draft was given.
AddCatalogItem(d) ==
  /\ Idle(d) /\ generated < MaxIds
  /\ Draft(d) # 0 \/ Active(d).status = "OPEN"
  /\ generated' = Fresh
  /\ IF Active(d) = NoOrderCopy
       THEN Send([Call(d, "CREATE") EXCEPT !.draft = Draft(d), !.item = Fresh])
       ELSE Send(ChangeOf(d, "ADD", Active(d), Fresh))
  /\ UNCHANGED <<sheet, counter, reads, givenUp>>

\* addManualItem: a free amount makes its own draft, kept if the request fails.
AddFreeAmount(d) ==
  /\ Idle(d) /\ generated + 1 < MaxIds
  /\ Draft(d) = 0 /\ Active(d) = NoOrderCopy
  /\ generated' = Fresh + 1
  /\ Holding(d, Fresh, NoOrderCopy)
  /\ Send([Call(d, "CREATE") EXCEPT !.draft = Fresh, !.item = Fresh + 1])
  /\ UNCHANGED <<sheet, reads, givenUp>>

\* A change of the order shown, under a fresh mutationId.
TapOnActive(d, kind, item) ==
  /\ Idle(d) /\ generated < MaxIds
  /\ generated' = Fresh
  /\ Send(ChangeOf(d, kind, Active(d), item))
  /\ UNCHANGED <<sheet, counter, reads, givenUp>>

UpdateLine(d) ==
  /\ Active(d).status = "OPEN"
  /\ \E line \in Active(d).lines : TapOnActive(d, "UPDATE", line.item)

DeleteLine(d) ==
  /\ Active(d).status = "OPEN"
  /\ \E line \in Active(d).lines : TapOnActive(d, "DELETE", line.item)

HoldActiveOrder(d) ==
  /\ Active(d).status = "OPEN" /\ Active(d).lines # {}
  /\ TapOnActive(d, "HOLD", 0)

CancelActiveOrder(d) ==
  /\ Active(d).status \in {"OPEN", "HELD"}
  /\ TapOnActive(d, "CANCEL", 0)

\* selectOrder, of the list.
SelectOrder(d, o) ==
  /\ Idle(d) /\ o \in Written
  /\ Send(ReadOf(d, "SELECT", o))
  /\ reads < MaxReads /\ reads' = reads + 1
  /\ UNCHANGED <<sheet, counter, generated, givenUp>>

\* resumeOrder: reads the order, and resumes it at the version read.
ResumeOrder(d, o) ==
  /\ Idle(d) /\ o \in Written
  /\ Send(ReadOf(d, "BEFORE_RESUME", o))
  /\ reads < MaxReads /\ reads' = reads + 1
  /\ UNCHANGED <<sheet, counter, generated, givenUp>>

\* refreshOperationalState, on a timer: begins when no tap is under way, and does
\* not look again when its answer comes.
RefreshActive(d) ==
  /\ Idle(d) /\ Active(d) # NoOrderCopy
  /\ ~ \E c \in calls : c.device = d /\ c.kind = "REFRESH"
  /\ Send(ReadOf(d, "REFRESH", Active(d).order))
  /\ reads < MaxReads /\ reads' = reads + 1
  /\ UNCHANGED <<sheet, counter, generated, givenUp>>

\* refreshOrders and setStatusFilter: an order the filter leaves out is not shown,
\* a tap under way or not.
FilterOut(d) ==
  /\ Active(d) # NoOrderCopy
  /\ Holding(d, Draft(d), NoOrderCopy)
  /\ UNCHANGED <<sheet, calls, generated, reads, givenUp>>

-----------------------------------------------------------------------------
(* OrdersService, under the row lock of the order *)

\* What is left of a request when the API has done this of it: nothing, when the
\* till no longer waits.
Become(c, next) == calls' = (calls \ {c}) \cup (IF c.awaited THEN {next} ELSE {})

\* create, first half: findByClientOrderId, outside the transaction.
LookForDraft(c) ==
  /\ c.kind = "CREATE" /\ c.stage = "SENT"
  /\ LET found == {o \in Written : sheet[o].draft = c.draft}
         next == IF found = {} THEN [c EXCEPT !.stage = "INSERT"]
                 ELSE [c EXCEPT !.stage = "MADE", !.order = CHOOSE o \in found : TRUE]
     IN calls' = (calls \ {c}) \cup (IF found = {} \/ c.awaited THEN {next} ELSE {})
  /\ UNCHANGED <<sheet, counter, generated, reads, givenUp>>

\* The row of a draft: the one the unique index finds, or else the next.
RowFor(draft) ==
  CHOOSE o \in OrderRows :
    IF \E w \in Written : sheet[w].draft = draft
      THEN sheet[o].draft = draft
      ELSE o = Cardinality(Written) + 1

\* create, second half: INSERT, or the row that was quicker.
InsertOrder(c) ==
  /\ c.kind = "CREATE" /\ c.stage = "INSERT"
  /\ Cardinality(Written) < Cardinality(OrderRows)
  /\ LET o == RowFor(c.draft) IN
     /\ sheet' = [sheet EXCEPT ![o] =
          IF @.status # "NONE" THEN @
          ELSE [status |-> "OPEN", version |-> 1, draft |-> c.draft, lines |-> {}]]
     /\ Become(c, [c EXCEPT !.stage = "MADE", !.order = o])
  /\ UNCHANGED <<counter, generated, reads, givenUp>>

IsChange(c) == c.kind \notin Reads \cup {"CREATE"} /\ c.stage = "SENT"

HasLine(c) == \E line \in sheet[c.order].lines : line.item = c.item
Permitted(c) ==
  LET status == sheet[c.order].status IN
  CASE c.kind = "ADD" -> status = "OPEN"
    [] c.kind \in {"UPDATE", "DELETE"} -> status = "OPEN" /\ HasLine(c)
    [] c.kind = "HOLD" -> status = "OPEN" /\ sheet[c.order].lines # {}
    [] c.kind = "RESUME" -> status = "HELD"
    [] c.kind = "CANCEL" -> status \in {"OPEN", "HELD"}

LinesAfter(c) ==
  LET others == {line \in sheet[c.order].lines : line.item # c.item} IN
  CASE c.kind = "ADD" -> others \cup {[item |-> c.item, quantity |-> 1]}
    [] c.kind = "UPDATE" -> others \cup {[item |-> c.item, quantity |-> 2]}
    [] c.kind = "DELETE" -> others
    [] OTHER -> sheet[c.order].lines

StatusAfterChange(c) ==
  CASE c.kind = "HOLD" -> "HELD" [] c.kind = "CANCEL" -> "CANCELLED" [] OTHER -> "OPEN"

NextVersion(c) == sheet[c.order].version + 1

\* beginMutation, then the change, its recalculation and recordMutation: one
\* transaction, unless another device was there first.
MakeChange(c) ==
  /\ IsChange(c)
  /\ c.expected = sheet[c.order].version /\ Permitted(c)
  /\ sheet' = [sheet EXCEPT ![c.order].version = NextVersion(c),
                            ![c.order].lines = LinesAfter(c),
                            ![c.order].status = StatusAfterChange(c)]
  /\ Become(c, [c EXCEPT !.stage = "MADE"])
  /\ UNCHANGED <<counter, generated, reads, givenUp>>

\* ORDER_VERSION_CONFLICT; any other refusal leaves the till a message only.
RefuseChange(c) ==
  /\ IsChange(c)
  /\ IF c.expected # sheet[c.order].version
       THEN Become(c, [c EXCEPT !.stage = "CONFLICT"])
       ELSE ~ Permitted(c) /\ calls' = calls \ {c}
  /\ UNCHANGED <<sheet, counter, generated, reads, givenUp>>

\* get, with which create and every change end, in no transaction.
ReadHeader(c) ==
  /\ c.stage = "MADE"
  /\ Become(c, HeaderRead(c, c.order))
  /\ UNCHANGED <<sheet, counter, generated, reads, givenUp>>

\* ... and another query the lines, which may be of a later version.  (What changes
\* between that query and the arrival of the answer moves the version too.)
CopyOf(c) == [c.copy EXCEPT !.lines = sheet[c.order].lines]

-----------------------------------------------------------------------------
(* OrderController: what an answer brings *)

Finished(c) == calls' = calls \ {c}
FollowedBy(c, next) == calls' = (calls \ {c}) \cup {next}

\* The draft has become an order: its first line follows in the same tap.
OrderCreated(c) ==
  /\ c.kind = "CREATE"
  /\ FollowedBy(c, ChangeOf(c.device, "ADD", CopyOf(c), c.item))
  /\ Holding(c.device, 0, CopyOf(c))
  /\ UNCHANGED generated

\* Only an order on hold is resumed.
OrderToResume(c) ==
  /\ c.kind = "BEFORE_RESUME"
  /\ IF c.copy.status = "HELD"
       THEN /\ generated < MaxIds /\ generated' = Fresh
            /\ FollowedBy(c, ChangeOf(c.device, "RESUME", CopyOf(c), 0))
       ELSE Finished(c) /\ UNCHANGED generated
  /\ UNCHANGED counter

\* The answer of any other request is shown, whatever was shown before; a draft ends
\* with the orders a cashier opens, resumes or cancels.
CopyShown(c) ==
  /\ c.kind \notin {"CREATE", "BEFORE_RESUME"}
  /\ Finished(c)
  /\ LET draft == IF c.kind \in {"SELECT", "RESUME", "CANCEL"} THEN 0 ELSE Draft(c.device) IN
     \/ Holding(c.device, draft, CopyOf(c))
     \/ c.kind = "REFRESH" /\ Holding(c.device, draft, NoOrderCopy)   \* filtered out
  /\ UNCHANGED generated

AnswerArrives(c) ==
  /\ c.stage = "HEADER"
  /\ OrderCreated(c) \/ OrderToResume(c) \/ CopyShown(c)
  /\ UNCHANGED <<sheet, reads, givenUp>>

\* _handleMutationError: after a conflict the order shown is read again.
ErrorArrives(c) ==
  /\ c.stage = "CONFLICT"
  /\ IF Active(c.device) # NoOrderCopy
       THEN FollowedBy(c, ReadOf(c.device, "RELOAD", Active(c.device).order))
       ELSE Finished(c)
  /\ UNCHANGED <<sheet, counter, generated, reads, givenUp>>

\* No answer within the time of the client, the request executed or not: the tap
\* ends, and what has not reached the database yet may do so later.
GiveUp(c) ==
  /\ c.awaited /\ givenUp < MaxGivenUp
  /\ givenUp' = givenUp + 1
  /\ calls' = (calls \ {c}) \cup
       (IF c.stage \in {"SENT", "INSERT"} THEN {[c EXCEPT !.awaited = FALSE]} ELSE {})
  /\ UNCHANGED <<sheet, counter, generated, reads>>

OrderTillsNext ==
  \/ \E d \in OrderDevices :
       \/ StartOrderDraft(d) \/ DiscardView(d)
       \/ AddCatalogItem(d) \/ AddFreeAmount(d) \/ UpdateLine(d) \/ DeleteLine(d)
       \/ HoldActiveOrder(d) \/ CancelActiveOrder(d)
       \/ \E o \in OrderRows : SelectOrder(d, o) \/ ResumeOrder(d, o)
       \/ RefreshActive(d) \/ FilterOut(d)
  \/ \E c \in calls :
       \/ LookForDraft(c) \/ InsertOrder(c) \/ MakeChange(c) \/ RefuseChange(c)
       \/ ReadHeader(c)
       \/ AnswerArrives(c) \/ ErrorArrives(c) \/ GiveUp(c)

OrderTillsSpec == OrderTillsInit /\ [][OrderTillsNext]_tillVars

-----------------------------------------------------------------------------
\* A draft becomes one order, however often its first product is tapped while the
\* answers are lost (create: the client's identifier is looked for and is unique).
DraftsBecomeOneOrder ==
  \A o, p \in Written : o # p => sheet[o].draft # sheet[p].draft

\* A change is made to the lines its cashier had on the screen and to no others,
\* though the copy was read in two queries, other tills were at work and requests
\* given up arrive late (beginMutation's version, get's order of reading).
ChangesAreOfWhatWasSeen ==
  \A c \in {x \in calls : IsChange(x)} :
    c \notin calls' /\ sheet'[c.order] # sheet[c.order] => sheet[c.order].lines = c.seen

CashiersChangeWhatTheySee ==
  [](DraftsBecomeOneOrder) /\ [][ChangesAreOfWhatWasSeen]_tillVars
=============================================================================
