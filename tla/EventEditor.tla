---------------------------- MODULE EventEditor ----------------------------
(***************************************************************************)
(* One event from its draft to its archive: organisers edit it in forms of *)
(* the Control Center, each save of which is three requests to the API, in *)
(* transactions of their own; others publish, cancel or archive it or      *)
(* change the venue's tables meanwhile; and the public page says whether   *)
(* it can be booked.  Merged tables are EventInventory's.                  *)
(***************************************************************************)
EXTENDS Integers, FiniteSets, FiniteSetsExt

CONSTANTS
  EventTables,  \* tables of the venue
  Organisers,   \* forms open in browsers
  Forms,        \* what a form may say: [window, capacity, party, tables]
  TableSeats,   \* what a table may seat
  LastDay,      \* bound of the clock
  MaxSaves, MaxVenueChanges   \* bounds: saves of forms, changes of tables

Day == 0..LastDay
Window == [opens : Day, closes : Day, starts : Day, ends : Day]
ASSUME EditorAssumption ==
  /\ Forms \subseteq [window : Window, capacity : Nat \ {0}, party : Nat \ {0},
                      tables : SUBSET EventTables]
  /\ TableSeats \subseteq Nat \ {0}
  /\ {LastDay, MaxSaves, MaxVenueChanges} \subseteq Nat

EditorStatus == {"NONE", "DRAFT", "PUBLISHED", "CANCELLED", "ARCHIVED"}
SavePhases == {"IDLE", "EVENT", "TABLES", "RULES"}

VARIABLES
  event,     \* the row of events and its booking rules
  offer,     \* event_table_inventory: table -> capacity_snapshot
  venue,     \* dining_tables: [seats, active]
  editors,   \* each organiser's save: which request is next, and the form
  today, saves, venueChanges

editorVars == <<event, offer, venue, editors, today, saves, venueChanges>>

NoEvent == [status |-> "NONE"]
Nothing == [t \in {} |-> 0]
NotSaving == [phase |-> "IDLE"]

EditorInit ==
  /\ event = NoEvent /\ offer = Nothing
  /\ venue \in [EventTables -> [seats : TableSeats, active : {TRUE}]]
  /\ editors = [o \in Organisers |-> NotSaving]
  /\ today = 0 /\ saves = 0 /\ venueChanges = 0

-----------------------------------------------------------------------------
(* What the API asks of an event: event-policy *)

\* validateEventSchedule
ValidSchedule(w) == w.starts < w.ends /\ w.opens < w.closes /\ w.closes <= w.starts

Snapshot(S) == [t \in S |-> venue[t].seats]
SeatsOf(tables) == SumFunction(tables)

\* assertRulesFitCapacity
RulesFit(party, capacity, tables) ==
  /\ party <= capacity
  /\ DOMAIN tables # {} => \E t \in DOMAIN tables : party <= tables[t]

\* assertInventoryFitsEvent
TablesSuffice(capacity, tables) ==
  DOMAIN tables # {} =>
    SeatsOf(tables) >= capacity /\ \A t \in DOMAIN tables : venue[t].active

-----------------------------------------------------------------------------
(***************************************************************************)
(* Mistakes this code could contain and does not: each, in the place of    *)
(* the definition it is a variant of, makes a property fail.               *)
(***************************************************************************)
\* New tables are compared with the capacity only, not with the booking rules.
TablesSufficeAlone(capacity, party, S) == TablesSuffice(capacity, Snapshot(S))

\* Events on sale are edited as their table groups are.
EditableUntilCancelled == event.status \in {"DRAFT", "PUBLISHED"}
-----------------------------------------------------------------------------
(* Requests of the Control Center *)

Editable == event.status = "DRAFT"   \* assertEventEditable, under the row's lock

\* loadTables, metricsFromTables
Selectable(capacity, party, S) ==
  TablesSuffice(capacity, Snapshot(S)) /\ RulesFit(party, capacity, Snapshot(S))

CreateEvent(f) ==
  /\ event = NoEvent
  /\ ValidSchedule(f.window) /\ Selectable(f.capacity, f.party, f.tables)
  /\ event' = [status |-> "DRAFT", window |-> f.window, capacity |-> f.capacity,
               party |-> f.party]
  /\ offer' = Snapshot(f.tables)
  /\ UNCHANGED <<venue, editors, today, saves, venueChanges>>

\* The form may show an event that was published or archived since.
SaveForm(o, f) ==
  /\ event # NoEvent /\ editors[o] = NotSaving
  /\ saves < MaxSaves /\ saves' = saves + 1
  /\ editors' = [editors EXCEPT ![o] = [phase |-> "EVENT", form |-> f]]
  /\ UNCHANGED <<event, offer, venue, today, venueChanges>>

Proceed(o, phase) == editors' = [editors EXCEPT ![o].phase = phase]
EndSave(o) == editors' = [editors EXCEPT ![o] = NotSaving]

\* inventoryMetrics, loadBookingRules
UpdateFits(f) ==
  /\ Editable /\ ValidSchedule(f.window)
  /\ TablesSuffice(f.capacity, offer) /\ RulesFit(event.party, f.capacity, offer)

\* PATCH /events/:id
UpdateEvent(o) ==
  LET f == editors[o].form IN
  /\ editors[o].phase = "EVENT"
  /\ IF UpdateFits(f)
       THEN /\ event' = [event EXCEPT !.window = f.window, !.capacity = f.capacity]
            /\ Proceed(o, "TABLES")
       ELSE EndSave(o) /\ UNCHANGED event
  /\ UNCHANGED <<offer, venue, today, saves, venueChanges>>

\* PUT /events/:id/tables
ReplaceEventTables(o) ==
  LET f == editors[o].form IN
  /\ editors[o].phase = "TABLES"
  /\ IF Editable /\ Selectable(event.capacity, event.party, f.tables)
       THEN offer' = Snapshot(f.tables) /\ Proceed(o, "RULES")
       ELSE EndSave(o) /\ UNCHANGED offer
  /\ UNCHANGED <<event, venue, today, saves, venueChanges>>

\* PUT /events/:id/booking-rules
UpdateBookingRules(o) ==
  LET f == editors[o].form IN
  /\ editors[o].phase = "RULES"
  /\ event' = IF Editable /\ RulesFit(f.party, event.capacity, offer)
                THEN [event EXCEPT !.party = f.party] ELSE event
  /\ EndSave(o)
  /\ UNCHANGED <<offer, venue, today, saves, venueChanges>>

\* The web server or the session ends between two requests of a save.
Interrupt(o) ==
  /\ editors[o] # NotSaving
  /\ EndSave(o)
  /\ UNCHANGED <<event, offer, venue, today, saves, venueChanges>>

\* Publication counts the offered tables, active or not.
Publishable ==
  /\ Editable
  /\ event.window.starts > today /\ event.window.closes > today
  /\ DOMAIN offer # {} /\ SeatsOf(offer) >= event.capacity
  /\ RulesFit(event.party, event.capacity, offer)

EditorPublishes ==
  /\ event # NoEvent /\ Publishable
  /\ event' = [event EXCEPT !.status = "PUBLISHED"]
  /\ UNCHANGED <<offer, venue, editors, today, saves, venueChanges>>

EditorCancels ==
  /\ event.status = "PUBLISHED"
  /\ event' = [event EXCEPT !.status = "CANCELLED"]
  /\ UNCHANGED <<offer, venue, editors, today, saves, venueChanges>>

EditorArchives ==
  /\ event.status \in {"DRAFT", "CANCELLED"}
  /\ event' = [event EXCEPT !.status = "ARCHIVED"]
  /\ UNCHANGED <<offer, venue, editors, today, saves, venueChanges>>

\* updateTable, which asks nothing of events.
ChangeTable(t, seats, active) ==
  /\ venueChanges < MaxVenueChanges /\ venueChanges' = venueChanges + 1
  /\ venue' = [venue EXCEPT ![t] = [seats |-> seats, active |-> active]]
  /\ UNCHANGED <<event, offer, editors, today, saves>>

DayPasses ==
  /\ today < LastDay /\ today' = today + 1
  /\ UNCHANGED <<event, offer, venue, editors, saves, venueChanges>>

EditorNext ==
  \/ \E f \in Forms : CreateEvent(f)
  \/ \E o \in Organisers :
       \/ \E f \in Forms : SaveForm(o, f)
       \/ UpdateEvent(o) \/ ReplaceEventTables(o) \/ UpdateBookingRules(o) \/ Interrupt(o)
  \/ EditorPublishes \/ EditorCancels \/ EditorArchives
  \/ \E t \in EventTables, seats \in TableSeats, active \in BOOLEAN : ChangeTable(t, seats, active)
  \/ DayPasses

EditorSpec == EditorInit /\ [][EditorNext]_editorVars

-----------------------------------------------------------------------------
(* What customers are told, and what the reservation engine accepts *)

\* derivePublicBookingState, asked of events on sale
ShownState(full) ==
  CASE event.window.ends <= today -> "ENDED"
    [] event.window.ends > today /\ full -> "SOLD_OUT"
    [] event.window.ends > today /\ ~ full /\ today < event.window.opens -> "NOT_OPEN"
    [] event.window.ends > today /\ ~ full /\ today >= event.window.closes -> "CLOSED"
    [] OTHER -> "OPEN"

\* The public list and page of events, while not every table is taken
PageSaysOpen == event.status = "PUBLISHED" /\ ShownState(FALSE) = "OPEN"

\* assertEventAcceptsHolds
AcceptsHolds ==
  /\ event.status = "PUBLISHED"
  /\ today >= event.window.opens /\ today < event.window.closes
  /\ today < event.window.starts

(***************************************************************************)
(* Whatever pieces of whatever saves were applied, the event could be      *)
(* sold as it stands: its dates are in order, its tables hold its          *)
(* capacity and its largest party; what is on sale has tables; and the     *)
(* page calls it open exactly while the engine takes holds (create,        *)
(* update, replaceTables, updateBookingRules, publish, public events).     *)
(***************************************************************************)
OfferHoldsTogether ==
  event # NoEvent =>
    /\ ValidSchedule(event.window)
    /\ RulesFit(event.party, event.capacity, offer)
    /\ DOMAIN offer # {} => SeatsOf(offer) >= event.capacity
    /\ event.status = "PUBLISHED" => DOMAIN offer # {}
    /\ PageSaysOpen <=> AcceptsHolds

(***************************************************************************)
(* What went on sale stays as it was published, also when the rest of a    *)
(* save begun before arrives after; nothing returns to a draft, and what   *)
(* goes on sale can still be booked (assertEventEditable, publish).        *)
(***************************************************************************)
SoldAsPublished ==
  [][/\ event.status \notin {"NONE", "DRAFT"} =>
          /\ [event' EXCEPT !.status = event.status] = event /\ offer' = offer
          /\ event'.status \notin {"NONE", "DRAFT"}
     /\ event'.status = "PUBLISHED" /\ event.status # "PUBLISHED" =>
          today < event'.window.closes]_editorVars
=============================================================================
