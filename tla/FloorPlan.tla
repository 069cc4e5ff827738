----------------------------- MODULE FloorPlan -----------------------------
(***************************************************************************)
(* The floor plan of one location: its versions, the last of which is the  *)
(* draft, and the pages that edit it in browsers.  A page keeps its own    *)
(* copy with undo and redo, saves it or publishes the draft, and says only *)
(* the revision of the draft it was loaded from; its requests are worked   *)
(* on by the API also when it has stopped waiting for them.                *)
(*                                                                         *)
(* A document is the set of its elements; a table is an element, the       *)
(* others are walls, shapes and texts, some of them out of bounds.         *)
(***************************************************************************)
EXTENDS Integers, Sequences, FiniteSets

CONSTANTS
  PlanTables,    \* dining_tables of the location
  Shapes,        \* the other elements there may be
  Misdrawn,      \* those of them outside the canvas, or of no possible size
  PlanEditors,   \* pages open in browsers
  HistoryDepth,  \* steps that can be undone: 50
  MaxPlanLoads, MaxPlanRequests, MaxPlanEdits, MaxTableChanges   \* bounds

ASSUME FloorPlanAssumption ==
  /\ Misdrawn \subseteq Shapes /\ PlanTables \cap Shapes = {}
  /\ HistoryDepth \in Nat \ {0}
  /\ {MaxPlanLoads, MaxPlanRequests, MaxPlanEdits, MaxTableChanges} \subseteq Nat

Elements == PlanTables \cup Shapes
Document == SUBSET Elements

VARIABLES
  planVersions,  \* floor_plan_versions by version_number: [status, revision, document]
  activeTables,  \* dining_tables that are ACTIVE
  pages,         \* each editor's page
  planRequests,  \* PUTs of the pages, in the order they were sent
  planLoads, planEdits, tableChanges

planVars ==
  <<planVersions, activeTables, pages, planRequests, planLoads, planEdits, tableChanges>>

NoPage == [open |-> FALSE]

PlanInit ==
  /\ planVersions = << >> /\ activeTables = PlanTables
  /\ pages = [e \in PlanEditors |-> NoPage]
  /\ planRequests = << >> /\ planLoads = 0 /\ planEdits = 0 /\ tableChanges = 0

-----------------------------------------------------------------------------
(* The tables of the API *)

Current == Len(planVersions)
PlanDraft == planVersions[Current]

NewDraft(document) == [status |-> "DRAFT", revision |-> 1, document |-> document]

\* The next revision of the draft.
Revised(document) ==
  [planVersions EXCEPT ![Current] =
     [PlanDraft EXCEPT !.document = document, !.revision = PlanDraft.revision + 1]]

\* The draft becomes the published version and the next draft starts as its copy.
Published ==
  Append([planVersions EXCEPT ![Current].status = "PUBLISHED"], NewDraft(PlanDraft.document))

\* validateElement
ValidElement(x) == x \notin Misdrawn

ValidDocument(document) == \A x \in document : ValidElement(x)

TablesOf(document) == document \cap PlanTables

TablesAreActive(document) == TablesOf(document) \subseteq activeTables

-----------------------------------------------------------------------------
(* A page *)

\* What a page shows of versions: the last is the draft, and its own copy is that.
PageOf(versions) ==
  LET n == Len(versions) IN
  [open |-> TRUE, version |-> n, revision |-> versions[n].revision,
   base |-> versions[n].document, document |-> versions[n].document,
   past |-> << >>, future |-> << >>, dirty |-> FALSE, waitsFor |-> 0]

\* slice(-49) before a step is added, slice(0, 50) after
Remember(past, document) ==
  Append(IF Len(past) < HistoryDepth THEN past ELSE Tail(past), document)
RememberAhead(future, document) ==
  SubSeq(<<document>> \o future, 1,
         IF Len(future) < HistoryDepth THEN Len(future) + 1 ELSE HistoryDepth)

\* A page is opened, or loaded again, whatever it was waiting for.
OpenPage(e) ==
  /\ planLoads < MaxPlanLoads /\ planLoads' = planLoads + 1
  /\ planVersions' = IF planVersions = << >> THEN <<NewDraft({})>> ELSE planVersions
  /\ pages' = [pages EXCEPT ![e] = PageOf(planVersions')]
  /\ UNCHANGED <<activeTables, planRequests, planEdits, tableChanges>>

\* Everything drawn takes its place in the history; the canvas stays open to
\* the mouse while a request is under way.
Commit(e, document) ==
  LET page == pages[e] IN
  pages' = [pages EXCEPT ![e] =
    [page EXCEPT !.past = Remember(@, page.document), !.future = << >>,
                 !.document = document, !.dirty = TRUE]]

CountEdit ==
  /\ planEdits < MaxPlanEdits /\ planEdits' = planEdits + 1
  /\ UNCHANGED <<planVersions, activeTables, planRequests, planLoads, tableChanges>>

\* The list of tables is as old as the page: it may offer one that is not active.
AddElement(e, x) ==
  /\ pages[e].open /\ x \notin pages[e].document
  /\ Commit(e, pages[e].document \cup {x})
  /\ CountEdit

\* A shape moved, resized or rotated, with the mouse or in the fields, is another.
ReplaceElement(e, x, y) ==
  /\ pages[e].open /\ x \in pages[e].document /\ y \notin pages[e].document
  /\ Commit(e, (pages[e].document \ {x}) \cup {y})
  /\ CountEdit

RemoveSelected(e, x) ==
  /\ pages[e].open /\ x \in pages[e].document
  /\ Commit(e, pages[e].document \ {x})
  /\ CountEdit

Undo(e) ==
  LET page == pages[e] IN
  /\ page.open /\ page.waitsFor = 0 /\ page.past # << >>
  /\ pages' = [pages EXCEPT ![e] =
       [page EXCEPT !.past = SubSeq(@, 1, Len(@) - 1),
                    !.future = RememberAhead(@, page.document),
                    !.document = page.past[Len(page.past)], !.dirty = TRUE]]
  /\ CountEdit

\* As often as something was undone
Redo(e) ==
  LET page == pages[e] IN
  /\ page.open /\ page.waitsFor = 0 /\ page.future # << >>
  /\ pages' = [pages EXCEPT ![e] =
       [page EXCEPT !.past = Remember(@, page.document), !.future = Tail(@),
                    !.document = Head(page.future), !.dirty = TRUE]]
  /\ UNCHANGED <<planVersions, activeTables, planRequests, planLoads, planEdits, tableChanges>>

-----------------------------------------------------------------------------
(***************************************************************************)
(* A mistake this code could contain and does not: in the place of the     *)
(* definition it is a variant of, it makes PlansAreAsShown fail.           *)
(***************************************************************************)
\* Whoever saves last wins, as long as nothing was published since.
SaveMatchesVersion(n) == planRequests[n].seen = Current
-----------------------------------------------------------------------------
(* Saving and publishing *)

RequestPhases == {"SENT", "CHECKED", "DONE", "REFUSED"}

\* shown: the version, and what the page knew of its draft, when it was sent.
Persist(e, kind, document, shown) ==
  /\ Len(planRequests) < MaxPlanRequests
  /\ planRequests' = Append(planRequests,
       [kind |-> kind, phase |-> "SENT", revision |-> pages[e].revision,
        document |-> document, shown |-> shown, seen |-> 0,
        version |-> pages[e].version])
  /\ pages' = [pages EXCEPT ![e].waitsFor = Len(planRequests')]
  /\ UNCHANGED <<planVersions, activeTables, planLoads, planEdits, tableChanges>>

MaySave(page) == page.open /\ page.waitsFor = 0 /\ page.dirty
MayPublish(page) == page.open /\ page.waitsFor = 0 /\ ~ page.dirty

SendSave(e) ==
  /\ MaySave(pages[e])
  /\ Persist(e, "SAVE", pages[e].document, pages[e].base)

SendPublish(e) ==
  /\ MayPublish(pages[e])
  /\ Persist(e, "PUBLISH", {}, pages[e].document)

Advance(n, phase) == planRequests' = [planRequests EXCEPT ![n].phase = phase]

\* validateFloorPlanDocument and assertTableReferences, before the transaction
CheckSave(n) ==
  LET document == planRequests[n].document IN
  /\ planRequests[n].kind = "SAVE" /\ planRequests[n].phase = "SENT"
  /\ planRequests' = [planRequests EXCEPT ![n] =
       [@ EXCEPT !.seen = Current,
          !.phase = IF ValidDocument(document) /\ TablesAreActive(document)
                      THEN "CHECKED" ELSE "REFUSED"]]
  /\ UNCHANGED <<planVersions, activeTables, pages, planLoads, planEdits, tableChanges>>

\* A revision is taken by one save.
SaveMatches(n) == PlanDraft.revision = planRequests[n].revision

SaveDraft(n) ==
  /\ planRequests[n].kind = "SAVE" /\ planRequests[n].phase = "CHECKED"
  /\ SaveMatches(n)
  /\ planVersions' = Revised(planRequests[n].document)
  /\ Advance(n, "DONE")
  /\ UNCHANGED <<activeTables, pages, planLoads, planEdits, tableChanges>>

\* No draft has the revision; nor has the row an UPDATE waited for when it was
\* published meanwhile.
ConflictOnSave(n) ==
  /\ planRequests[n].kind = "SAVE" /\ planRequests[n].phase = "CHECKED"
  /\ ~ SaveMatches(n) \/ planRequests[n].seen # Current
  /\ Advance(n, "REFUSED")
  /\ UNCHANGED <<planVersions, activeTables, pages, planLoads, planEdits, tableChanges>>

MayBePublished(n) ==
  /\ PlanDraft.revision = planRequests[n].revision
  /\ ValidDocument(PlanDraft.document) /\ TablesAreActive(PlanDraft.document)

\* One transaction that locks the plan and the draft.
Publish(n) ==
  /\ planRequests[n].kind = "PUBLISH" /\ planRequests[n].phase = "SENT"
  /\ IF MayBePublished(n)
       THEN planVersions' = Published /\ Advance(n, "DONE")
       ELSE UNCHANGED planVersions /\ Advance(n, "REFUSED")
  /\ UNCHANGED <<activeTables, pages, planLoads, planEdits, tableChanges>>

\* The answer of a request that was done is the plan as it is read after it, and
\* takes the place of what is on the page, edits made meanwhile included.
Answered(e) ==
  LET n == pages[e].waitsFor IN
  /\ pages[e].open /\ n # 0 /\ planRequests[n].phase = "DONE"
  /\ pages' = [pages EXCEPT ![e] = PageOf(planVersions)]
  /\ UNCHANGED <<planVersions, activeTables, planRequests, planLoads, planEdits, tableChanges>>

\* The request was refused, or no answer came: it may still be worked on.
Failed(e) ==
  /\ pages[e].open /\ pages[e].waitsFor # 0
  /\ pages' = [pages EXCEPT ![e].waitsFor = 0]
  /\ UNCHANGED <<planVersions, activeTables, planRequests, planLoads, planEdits, tableChanges>>

\* HospitalityService.updateTable, of a table nobody sits at
ToggleTable(t) ==
  /\ tableChanges < MaxTableChanges /\ tableChanges' = tableChanges + 1
  /\ activeTables' = IF t \in activeTables THEN activeTables \ {t} ELSE activeTables \cup {t}
  /\ UNCHANGED <<planVersions, pages, planRequests, planLoads, planEdits>>

PlanNext ==
  \/ \E e \in PlanEditors :
       \/ OpenPage(e) \/ Undo(e) \/ Redo(e)
       \/ \E x \in Elements : AddElement(e, x) \/ RemoveSelected(e, x)
       \/ \E x, y \in Shapes : ReplaceElement(e, x, y)
       \/ SendSave(e) \/ SendPublish(e) \/ Answered(e) \/ Failed(e)
  \/ \E n \in DOMAIN planRequests :
       CheckSave(n) \/ SaveDraft(n) \/ ConflictOnSave(n) \/ Publish(n)
  \/ \E t \in PlanTables : ToggleTable(t)

FloorPlanSpec == PlanInit /\ [][PlanNext]_planVars

-----------------------------------------------------------------------------
(***************************************************************************)
(* What a request replaces or publishes is what its page showed: a save    *)
(* comes from the draft it replaces, and a publication publishes the       *)
(* document that was on the page, also when answers were lost and requests *)
(* repeated or worked on late.  Only a page of an earlier version is not   *)
(* protected: the revision it says starts again at every publication       *)
(* (saveDraftScoped, publishScoped, persist).  And a published version     *)
(* never changes.                                                          *)
(***************************************************************************)
PlansAreAsShown ==
  [][/\ \A v \in DOMAIN planVersions :
          planVersions[v].status = "PUBLISHED" => planVersions'[v] = planVersions[v]
     /\ \A n \in DOMAIN planRequests :
          planRequests[n].phase # "DONE" /\ planRequests'[n].phase = "DONE" =>
            \/ planRequests[n].version < Current
            \/ planRequests[n].shown = PlanDraft.document]_planVars
=============================================================================
