---------------------------- MODULE ServiceProofs ----------------------------
(***************************************************************************)
(* What an evening of service rests on, for any number of tables, forms,   *)
(* products, lists, tills and requests: an offer stays saleable, a till    *)
(* shows what an order charges, cashiers change what they see, what is     *)
(* charged adds up, and floor plans are published as they were shown.      *)
(***************************************************************************)
EXTENDS EventEditor, Catalogue, OrderTills, OrderCalculator, FloorPlan, SequenceTheorems,
        SumTheorems

-----------------------------------------------------------------------------
(***************************************************************************)
(* An event and its forms.                                                 *)
(*                                                                         *)
(* Each of the three requests of a save checks the row as it stands with   *)
(* what it brings, so that the pieces of several saves, in any order, add  *)
(* up to an event that can be sold.                                        *)
(***************************************************************************)
EventRow == [status : EditorStatus \ {"NONE"}, window : Window, capacity : Nat \ {0},
             party : Nat \ {0}]
SaveRow == [phase : SavePhases \ {"IDLE"}, form : Forms]

\* The event could be sold as it stands.
Saleable ==
  /\ ValidSchedule(event.window)
  /\ RulesFit(event.party, event.capacity, offer)
  /\ DOMAIN offer # {} => SeatsOf(offer) >= event.capacity
  /\ event.status = "PUBLISHED" => DOMAIN offer # {}

EditorInv ==
  /\ event \in {NoEvent} \cup EventRow
  /\ editors \in [Organisers -> {NotSaving} \cup SaveRow]
  /\ today \in Nat
  /\ event # NoEvent => Saleable

\* The page and the engine look at the same dates.
LEMMA PageAndEngineAgree ==
  ASSUME event \in EventRow, today \in Nat, ValidSchedule(event.window)
  PROVE  PageSaysOpen <=> AcceptsHolds
<1>1. event.window \in [opens : Int, closes : Int, starts : Int, ends : Int]
  BY EditorAssumption DEF EventRow, Window, Day
<1>2. PICK w : w = event.window
  OBVIOUS
<1>3. /\ w.opens \in Int /\ w.closes \in Int /\ w.starts \in Int /\ w.ends \in Int
      /\ w.starts < w.ends /\ w.opens < w.closes /\ w.closes <= w.starts
  BY <1>1, <1>2 DEF ValidSchedule
<1>4. ShownState(FALSE) = "OPEN" <=> w.opens <= today /\ today < w.closes
  BY <1>2, <1>3 DEF ShownState
<1>5. PageSaysOpen <=> event.status = "PUBLISHED" /\ w.opens <= today /\ today < w.closes
  BY <1>4 DEF PageSaysOpen
<1>6. AcceptsHolds <=>
        /\ event.status = "PUBLISHED" /\ today >= w.opens /\ today < w.closes
        /\ today < w.starts
  BY <1>2 DEF AcceptsHolds
<1>7. /\ w.opens <= today <=> today >= w.opens
      /\ today < w.closes => today < w.starts
  BY <1>3
<1> QED
  BY <1>5, <1>6, <1>7, Zenon

\* An event is either none or a row.
LEMMA NoneOrRow ==
  ASSUME EditorInv
  PROVE  event = NoEvent <=> event.status = "NONE"
BY DEF EditorInv, EventRow, NoEvent

\* Requests that create or change an event.
LEMMA CreateKeepsIt ==
  ASSUME EditorInv, NEW f \in Forms, CreateEvent(f)
  PROVE  EditorInv'
<1>0. f.window \in Window /\ f.capacity \in Nat \ {0} /\ f.party \in Nat \ {0}
  BY EditorAssumption
<1>1. /\ event' = [status |-> "DRAFT", window |-> f.window, capacity |-> f.capacity,
                   party |-> f.party]
      /\ offer' = Snapshot(f.tables) /\ editors' = editors /\ today' = today
      /\ ValidSchedule(f.window) /\ RulesFit(f.party, f.capacity, Snapshot(f.tables))
      /\ TablesSuffice(f.capacity, Snapshot(f.tables))
  BY DEF CreateEvent, Selectable
<1>2. /\ event' \in EventRow /\ event'.status = "DRAFT" /\ event'.window = f.window
      /\ event'.capacity = f.capacity /\ event'.party = f.party
  BY <1>0, <1>1 DEF EventRow, EditorStatus
<1>3. DOMAIN offer' # {} => SeatsOf(offer') >= event'.capacity
  BY <1>1, <1>2 DEF TablesSuffice
<1>4. ValidSchedule(event'.window) /\ RulesFit(event'.party, event'.capacity, offer')
  BY <1>1, <1>2
<1>5. Saleable'
  BY <1>2, <1>3, <1>4 DEF Saleable, ValidSchedule, RulesFit, SeatsOf
<1> QED
  BY <1>1, <1>2, <1>5 DEF EditorInv

LEMMA SaveKeepsIt ==
  ASSUME EditorInv, NEW o \in Organisers,
         \/ \E f \in Forms : SaveForm(o, f)
         \/ UpdateEvent(o) \/ ReplaceEventTables(o) \/ UpdateBookingRules(o) \/ Interrupt(o)
  PROVE  EditorInv'
<1>f. editors[o] # NotSaving =>
        /\ editors[o] \in SaveRow /\ editors[o].form.window \in Window
        /\ editors[o].form.capacity \in Nat \ {0} /\ editors[o].form.party \in Nat \ {0}
  BY EditorAssumption DEF EditorInv, SaveRow
<1>n. NotSaving.phase = "IDLE"
  BY DEF NotSaving
<1>1. ASSUME NEW f \in Forms, SaveForm(o, f) PROVE EditorInv'
  <2>1. [phase |-> "EVENT", form |-> f] \in SaveRow
    BY DEF SaveRow, SavePhases
  <2>2. editors' \in [Organisers -> {NotSaving} \cup SaveRow]
    BY <1>1, <2>1 DEF SaveForm, EditorInv
  <2>3. UNCHANGED <<event, offer, today>>
    BY <1>1 DEF SaveForm
  <2> QED
    BY <2>2, <2>3 DEF EditorInv, Saleable
<1>2. ASSUME editors[o] # NotSaving,
             EndSave(o) \/ \E phase \in SavePhases \ {"IDLE"} : Proceed(o, phase)
      PROVE  editors' \in [Organisers -> {NotSaving} \cup SaveRow]
  <2>1. CASE EndSave(o)
    BY <2>1 DEF EndSave, EditorInv
  <2>2. ASSUME NEW phase \in SavePhases \ {"IDLE"}, Proceed(o, phase)
        PROVE  editors' \in [Organisers -> {NotSaving} \cup SaveRow]
    <3>1. [editors[o] EXCEPT !.phase = phase] \in SaveRow
      BY <1>f, <1>2 DEF SaveRow
    <3>2. editors' = [editors EXCEPT ![o] = [editors[o] EXCEPT !.phase = phase]]
      BY <2>2 DEF Proceed
    <3> QED
      BY <3>1, <3>2 DEF EditorInv
  <2> QED
    BY <1>2, <2>1, <2>2
<1>3. CASE Interrupt(o)
  <2>1. UNCHANGED <<event, offer, today>> /\ editors[o] # NotSaving /\ EndSave(o)
    BY <1>3 DEF Interrupt
  <2> QED
    BY <1>2, <2>1 DEF EditorInv, Saleable
<1>4. CASE UpdateEvent(o)
  <2>0. editors[o] # NotSaving /\ offer' = offer /\ today' = today
    BY <1>4, <1>n DEF UpdateEvent
  <2>1. editors' \in [Organisers -> {NotSaving} \cup SaveRow]
    BY <1>2, <1>4, <2>0 DEF UpdateEvent, SavePhases
  <2>2. PICK f : f = editors[o].form
    OBVIOUS
  <2>3. CASE event' = event
    BY <2>0, <2>1, <2>3 DEF EditorInv, Saleable
  <2>4. CASE event' # event
    <3>1. UpdateFits(f) /\ event' = [event EXCEPT !.window = f.window, !.capacity = f.capacity]
      BY <1>4, <2>2, <2>4 DEF UpdateEvent
    <3>2. event.status = "DRAFT" /\ event \in EventRow
      BY <3>1 DEF UpdateFits, Editable, EditorInv, NoEvent
    <3>3. /\ event' \in EventRow /\ event'.status = "DRAFT" /\ event'.window = f.window
          /\ event'.capacity = f.capacity /\ event'.party = event.party
      BY <1>f, <2>0, <2>2, <3>1, <3>2 DEF EventRow
    <3>4. DOMAIN offer' # {} => SeatsOf(offer') >= event'.capacity
      BY <2>0, <3>1, <3>3 DEF UpdateFits, TablesSuffice
    <3>5. ValidSchedule(event'.window) /\ RulesFit(event'.party, event'.capacity, offer')
      BY <2>0, <3>1, <3>3 DEF UpdateFits
    <3>6. Saleable'
      BY <3>3, <3>4, <3>5 DEF Saleable, ValidSchedule, RulesFit, SeatsOf
    <3> QED
      BY <2>0, <2>1, <3>3, <3>6 DEF EditorInv
  <2> QED
    BY <2>3, <2>4
<1>5. CASE ReplaceEventTables(o)
  <2>0. editors[o] # NotSaving /\ event' = event /\ today' = today
    BY <1>5, <1>n DEF ReplaceEventTables
  <2>1. editors' \in [Organisers -> {NotSaving} \cup SaveRow]
    BY <1>2, <1>5, <2>0 DEF ReplaceEventTables, SavePhases
  <2>2. PICK f : f = editors[o].form
    OBVIOUS
  <2>3. CASE offer' = offer
    BY <2>0, <2>1, <2>3 DEF EditorInv, Saleable
  <2>4. CASE offer' # offer
    <3>1. /\ Editable /\ Selectable(event.capacity, event.party, f.tables)
          /\ offer' = Snapshot(f.tables)
      BY <1>5, <2>2, <2>4 DEF ReplaceEventTables
    <3>2. event.status = "DRAFT" /\ event # NoEvent
      BY <3>1 DEF Editable, NoEvent
    <3>3. DOMAIN offer' # {} => SeatsOf(offer') >= event'.capacity
      BY <2>0, <3>1 DEF Selectable, TablesSuffice
    <3>4. ValidSchedule(event'.window) /\ RulesFit(event'.party, event'.capacity, offer')
      BY <2>0, <3>1, <3>2 DEF Selectable, EditorInv, Saleable
    <3>5. Saleable'
      BY <2>0, <3>2, <3>3, <3>4 DEF Saleable, ValidSchedule, RulesFit, SeatsOf
    <3> QED
      BY <2>0, <2>1, <3>5 DEF EditorInv
  <2> QED
    BY <2>3, <2>4
<1>6. CASE UpdateBookingRules(o)
  <2>0. editors[o] # NotSaving /\ offer' = offer /\ today' = today
    BY <1>6, <1>n DEF UpdateBookingRules
  <2>1. editors' \in [Organisers -> {NotSaving} \cup SaveRow]
    BY <1>2, <1>6, <2>0 DEF UpdateBookingRules
  <2>2. PICK f : f = editors[o].form
    OBVIOUS
  <2>3. CASE event' = event
    BY <2>0, <2>1, <2>3 DEF EditorInv, Saleable
  <2>4. CASE event' # event
    <3>1. /\ Editable /\ RulesFit(f.party, event.capacity, offer)
          /\ event' = [event EXCEPT !.party = f.party]
      BY <1>6, <2>2, <2>4 DEF UpdateBookingRules
    <3>2. event.status = "DRAFT" /\ event \in EventRow /\ event # NoEvent
      BY <3>1 DEF Editable, EditorInv, NoEvent
    <3>3. /\ event' \in EventRow /\ event'.status = "DRAFT" /\ event'.window = event.window
          /\ event'.capacity = event.capacity /\ event'.party = f.party
      BY <1>f, <2>0, <2>2, <3>1, <3>2 DEF EventRow
    <3>4. DOMAIN offer' # {} => SeatsOf(offer') >= event'.capacity
      BY <2>0, <3>2, <3>3 DEF EditorInv, Saleable
    <3>5. ValidSchedule(event'.window) /\ RulesFit(event'.party, event'.capacity, offer')
      BY <2>0, <3>1, <3>2, <3>3 DEF EditorInv, Saleable
    <3>6. Saleable'
      BY <3>3, <3>4, <3>5 DEF Saleable, ValidSchedule, RulesFit, SeatsOf
    <3> QED
      BY <2>0, <2>1, <3>3, <3>6 DEF EditorInv
  <2> QED
    BY <2>3, <2>4
<1> QED
  BY <1>1, <1>3, <1>4, <1>5, <1>6

\* The other steps: publication, cancellation, archive, the venue, the clock.
LEMMA OthersKeepIt ==
  ASSUME EditorInv,
         \/ EditorPublishes \/ EditorCancels \/ EditorArchives \/ DayPasses
         \/ \E t \in EventTables, seats \in TableSeats, active \in BOOLEAN :
              ChangeTable(t, seats, active)
  PROVE  EditorInv'
<1>1. ASSUME NEW status \in {"PUBLISHED", "CANCELLED", "ARCHIVED"},
             event.status # "NONE", event' = [event EXCEPT !.status = status],
             status = "PUBLISHED" => DOMAIN offer # {}, UNCHANGED <<offer, editors, today>>
      PROVE  EditorInv'
  <2>1. event \in EventRow /\ event # NoEvent
    BY <1>1 DEF EditorInv, NoEvent
  <2>2. /\ event' \in EventRow /\ event'.status = status /\ event'.window = event.window
        /\ event'.capacity = event.capacity /\ event'.party = event.party
    BY <1>1, <2>1 DEF EventRow, EditorStatus
  <2>3. Saleable'
    BY <1>1, <2>1, <2>2 DEF EditorInv, Saleable, ValidSchedule, RulesFit, SeatsOf
  <2> QED
    BY <1>1, <2>2, <2>3 DEF EditorInv
<1>2. CASE EditorPublishes
  BY <1>1, <1>2, NoneOrRow DEF EditorPublishes, Publishable
<1>3. CASE EditorCancels
  BY <1>1, <1>3 DEF EditorCancels
<1>4. CASE EditorArchives
  BY <1>1, <1>4 DEF EditorArchives
<1>5. CASE DayPasses \/ \E t \in EventTables, seats \in TableSeats, active \in BOOLEAN :
             ChangeTable(t, seats, active)
  <2>1. UNCHANGED <<event, offer, editors>> /\ today' \in Nat
    BY <1>5 DEF DayPasses, ChangeTable, EditorInv
  <2> QED
    BY <2>1 DEF EditorInv, Saleable
<1> QED
  BY <1>2, <1>3, <1>4, <1>5

LEMMA EditorStays == EditorInv /\ [EditorNext]_editorVars => EditorInv'
<1> SUFFICES ASSUME EditorInv, [EditorNext]_editorVars PROVE EditorInv'
  OBVIOUS
<1>1. CASE EditorNext
  BY <1>1, CreateKeepsIt, SaveKeepsIt, OthersKeepIt DEF EditorNext
<1>2. CASE UNCHANGED editorVars
  BY <1>2 DEF editorVars, EditorInv, Saleable
<1> QED
  BY <1>1, <1>2

\* Whatever pieces of whatever saves were applied, the event could be sold as it
\* stands, and its page calls it open exactly while the engine takes holds
\* (EventsService, EventInventoryPublishingService, event-policy, public events).
THEOREM OfferAlwaysHoldsTogether == EditorSpec => []OfferHoldsTogether
<1>1. EditorInit => EditorInv
  BY DEF EditorInit, EditorInv
<1>2. EditorInv /\ [EditorNext]_editorVars => EditorInv'
  BY EditorStays
<1>3. EditorInv => OfferHoldsTogether
  <2> SUFFICES ASSUME EditorInv, event # NoEvent PROVE OfferHoldsTogether
    BY DEF OfferHoldsTogether
  <2>1. event \in EventRow /\ today \in Nat /\ Saleable
    BY DEF EditorInv
  <2>2. PageSaysOpen <=> AcceptsHolds
    BY <2>1, PageAndEngineAgree DEF Saleable
  <2> QED
    BY <2>1, <2>2 DEF OfferHoldsTogether, Saleable
<1> QED
  BY <1>1, <1>2, <1>3, PTL DEF EditorSpec

\* What went on sale stays as it was published, also when the rest of a save begun
\* before arrives after (assertEventEditable, publish).
THEOREM OfferStaysAsPublished == EditorSpec => SoldAsPublished
<1> DEFINE Kept ==
      event.status \notin {"NONE", "DRAFT"} =>
        /\ [event' EXCEPT !.status = event.status] = event /\ offer' = offer
        /\ event'.status \notin {"NONE", "DRAFT"}
    OnSale ==
      event'.status = "PUBLISHED" /\ event.status # "PUBLISHED" => today < event'.window.closes
<1>1. EditorInit => EditorInv
  BY DEF EditorInit, EditorInv
<1>2. EditorInv /\ [EditorNext]_editorVars => EditorInv'
  BY EditorStays
<1>3. ASSUME EditorInv, [EditorNext]_editorVars PROVE Kept /\ OnSale
  <2>0. event.status # "NONE" => event \in EventRow
    BY <1>3 DEF EditorInv, NoEvent
  <2>1. \/ UNCHANGED <<event, offer>>
        \/ event.status \in {"NONE", "DRAFT"} /\ event'.status = "DRAFT"
        \/ event.status \in {"NONE", "DRAFT"} /\ EditorPublishes
        \/ \E status \in {"CANCELLED", "ARCHIVED"} :
             event' = [event EXCEPT !.status = status] /\ offer' = offer /\ event.status # "NONE"
    <3>1. CASE UNCHANGED editorVars
      BY <3>1 DEF editorVars
    <3>2. ASSUME NEW f \in Forms, CreateEvent(f)
          PROVE  event.status \in {"NONE", "DRAFT"} /\ event'.status = "DRAFT"
      BY <3>2 DEF CreateEvent, NoEvent
    <3>3. ASSUME NEW o \in Organisers, UpdateEvent(o)
          PROVE  \/ UNCHANGED <<event, offer>>
                 \/ event.status \in {"NONE", "DRAFT"} /\ event'.status = "DRAFT"
      BY <2>0, <3>3 DEF UpdateEvent, UpdateFits, Editable, EventRow
    <3>4. ASSUME NEW o \in Organisers, ReplaceEventTables(o)
          PROVE  \/ UNCHANGED <<event, offer>>
                 \/ event.status \in {"NONE", "DRAFT"} /\ event'.status = "DRAFT"
      BY <3>4 DEF ReplaceEventTables, Editable
    <3>5. ASSUME NEW o \in Organisers, UpdateBookingRules(o)
          PROVE  \/ UNCHANGED <<event, offer>>
                 \/ event.status \in {"NONE", "DRAFT"} /\ event'.status = "DRAFT"
      BY <2>0, <3>5 DEF UpdateBookingRules, Editable, EventRow
    <3>6. CASE \/ DayPasses
               \/ \E o \in Organisers : Interrupt(o) \/ \E f \in Forms : SaveForm(o, f)
               \/ \E t \in EventTables, seats \in TableSeats, active \in BOOLEAN :
                    ChangeTable(t, seats, active)
      BY <3>6 DEF DayPasses, Interrupt, SaveForm, ChangeTable
    <3>7. CASE EditorPublishes
      BY <3>7 DEF EditorPublishes, Publishable, Editable
    <3>8. CASE EditorCancels \/ EditorArchives
      BY <3>8 DEF EditorCancels, EditorArchives
    <3> QED
      BY <1>3, <3>1, <3>2, <3>3, <3>4, <3>5, <3>6, <3>7, <3>8 DEF EditorNext
  <2>2. CASE UNCHANGED <<event, offer>>
    BY <2>0, <2>2 DEF EventRow
  <2>3. CASE event.status \in {"NONE", "DRAFT"} /\ event'.status = "DRAFT"
    BY <2>3
  <2>4. CASE event.status \in {"NONE", "DRAFT"} /\ EditorPublishes
    <3>1. event \in EventRow /\ event' = [event EXCEPT !.status = "PUBLISHED"]
          /\ event.window.closes > today
      BY <1>3, <2>4, NoneOrRow DEF EditorPublishes, Publishable, EditorInv
    <3>2. event.window.closes \in Int /\ today \in Int
      BY <1>3, <3>1, EditorAssumption DEF EventRow, Window, Day, EditorInv
    <3>3. event'.window = event.window
      BY <3>1 DEF EventRow
    <3> QED
      BY <2>4, <3>1, <3>2, <3>3
  <2>5. ASSUME NEW status \in {"CANCELLED", "ARCHIVED"},
               event' = [event EXCEPT !.status = status], offer' = offer, event.status # "NONE"
        PROVE  Kept /\ OnSale
    <3>1. event'.status = status /\ event \in EventRow
      BY <2>0, <2>5 DEF EventRow
    <3>2. [event' EXCEPT !.status = event.status] = event
      BY <2>5, <3>1 DEF EventRow
    <3> QED
      BY <2>5, <3>1, <3>2
  <2> QED
    BY <2>1, <2>2, <2>3, <2>4, <2>5
<1>4. EditorInv /\ [EditorNext]_editorVars => Kept /\ OnSale
  BY <1>3
<1> QED
  BY <1>1, <1>2, <1>4, PTL DEF EditorSpec, SoldAsPublished

-----------------------------------------------------------------------------
(***************************************************************************)
(* The catalogue and the tills.                                            *)
(*                                                                         *)
(* The list a price comes from is found twice in this code: the order      *)
(* sorts the lists that have a price and takes the first, the catalogue a  *)
(* till loads ranks all lists and takes the lowest rank.  Both orders are  *)
(* lexicographic and end with the list's own number, so that they agree.   *)
(***************************************************************************)
LEMMA HigherMeans ==
  ASSUME NEW a \in Int, NEW b \in Int, NEW c \in Int, NEW d \in Int, NEW e \in Int, NEW f \in Int
  PROVE  Higher(<<a, b, c>>, <<d, e, f>>) <=> a > d \/ (a = d /\ (b > e \/ (b = e /\ c > f)))
<1> DEFINE x == <<a, b, c>>
           y == <<d, e, f>>
<1>1. /\ x[1] = a /\ x[2] = b /\ x[3] = c
      /\ y[1] = d /\ y[2] = e /\ y[3] = f
  OBVIOUS
<1> HIDE DEF x, y
<1>2. 1..3 = {1, 2, 3} /\ 1..(1 - 1) = {} /\ 1..(2 - 1) = {1} /\ 1..(3 - 1) = {1, 2}
  OBVIOUS
<1>3. Higher(x, y) <=> \E n \in {1, 2, 3} : x[n] > y[n] /\ \A m \in 1..(n - 1) : x[m] = y[m]
  BY <1>2 DEF Higher
<1>4. Higher(x, y) <=> \/ x[1] > y[1]
                       \/ x[2] > y[2] /\ x[1] = y[1]
                       \/ x[3] > y[3] /\ x[1] = y[1] /\ x[2] = y[2]
  BY <1>2, <1>3
<1>5. Higher(x, y) <=> a > d \/ (a = d /\ (b > e \/ (b = e /\ c > f)))
  BY <1>1, <1>4
<1> QED
  BY <1>5 DEF x, y

\* Where a place's list stands: the row it is sorted by.
Standing(place, l) ==
  <<catalogue["assignments"][<<place, l>>].priority, catalogue["lists"][l].priority, -l>>
Above(place, l, k) == Higher(Standing(place, l), Standing(place, k))

RowsTyped ==
  /\ {"lists", "assignments", "prices"} \subseteq DOMAIN catalogue
  /\ catalogue["lists"] \in [Lists -> {Absent} \cup ListRow]
  /\ catalogue["assignments"] \in [Places \X Lists -> {Absent} \cup ListAssignment]
  /\ catalogue["prices"] \in [Lists \X Products \X Keys -> {Absent} \cup PriceRow]

\* The lists a place is sold from.
InForce(place) ==
  {l \in Lists : /\ IsActive("assignments", <<place, l>>) /\ IsActive("lists", l)
                 /\ Applies(catalogue["lists"][l].window)}

LEMMA StandingTypes ==
  ASSUME RowsTyped, NEW place \in Places, NEW l \in InForce(place)
  PROVE  /\ catalogue["assignments"][<<place, l>>].priority \in Int
         /\ catalogue["lists"][l].priority \in Int /\ l \in Int /\ -l \in Int
<1>1. l \in Lists /\ catalogue["lists"][l] \in {Absent} \cup ListRow
      /\ catalogue["assignments"][<<place, l>>] \in {Absent} \cup ListAssignment
  BY DEF RowsTyped, InForce
<1>2. catalogue["lists"][l] # Absent /\ catalogue["assignments"][<<place, l>>] # Absent
  BY DEF InForce, IsActive, Absent
<1>3. l \in Nat
  BY <1>1, CatalogueAssumption
<1> QED
  BY <1>1, <1>2, <1>3 DEF ListRow, ListAssignment

\* Lists in force are strictly ordered, one by one.
LEMMA StandingOrder ==
  ASSUME RowsTyped, NEW place \in Places, NEW k \in InForce(place), NEW l \in InForce(place),
         NEW m \in InForce(place)
  PROVE  /\ ~ Above(place, l, l)
         /\ k # l => Above(place, k, l) \/ Above(place, l, k)
         /\ Above(place, k, l) /\ Above(place, l, m) => Above(place, k, m)
<1> DEFINE a(x) == catalogue["assignments"][<<place, x>>].priority
           b(x) == catalogue["lists"][x].priority
<1>1. \A x \in InForce(place) : a(x) \in Int /\ b(x) \in Int /\ x \in Int /\ -x \in Int
  BY StandingTypes
<1>2. \A x, y \in InForce(place) :
        Above(place, x, y) <=> a(x) > a(y) \/ (a(x) = a(y) /\ (b(x) > b(y) \/ (b(x) = b(y) /\ -x > -y)))
  <2> SUFFICES ASSUME NEW x \in InForce(place), NEW y \in InForce(place)
               PROVE  Above(place, x, y) <=>
                        a(x) > a(y) \/ (a(x) = a(y) /\ (b(x) > b(y) \/ (b(x) = b(y) /\ -x > -y)))
    OBVIOUS
  <2>1. Above(place, x, y) <=> Higher(<<a(x), b(x), -x>>, <<a(y), b(y), -y>>)
    BY DEF Above, Standing
  <2>2. a(x) \in Int /\ b(x) \in Int /\ -x \in Int /\ a(y) \in Int /\ b(y) \in Int /\ -y \in Int
    BY <1>1
  <2> HIDE DEF a, b
  <2>3. Higher(<<a(x), b(x), -x>>, <<a(y), b(y), -y>>) <=>
          a(x) > a(y) \/ (a(x) = a(y) /\ (b(x) > b(y) \/ (b(x) = b(y) /\ -x > -y)))
    BY <2>2, HigherMeans
  <2> QED
    BY <2>1, <2>3
<1> HIDE DEF a, b
<1>3. ~ Above(place, l, l)
  BY <1>1, <1>2
<1>4. k # l => Above(place, k, l) \/ Above(place, l, k)
  BY <1>1, <1>2
<1>5. Above(place, k, l) /\ Above(place, l, m) => Above(place, k, m)
  BY <1>1, <1>2
<1> QED
  BY <1>3, <1>4, <1>5

\* A list's rank is the number of those above it: lower above.
LEMMA RankFollowsStanding ==
  ASSUME RowsTyped, NEW place \in Places, NEW k \in InForce(place), NEW l \in InForce(place),
         Above(place, k, l)
  PROVE  /\ Ranking(place)[k] \in Nat /\ Ranking(place)[l] \in Nat
         /\ Ranking(place)[k] < Ranking(place)[l]
<1> DEFINE over(x) == {y \in InForce(place) : Above(place, y, x)}
<1>1. IsFiniteSet(InForce(place))
  <2>1. InForce(place) \subseteq Lists
    BY DEF InForce
  <2> QED
    BY <2>1, CatalogueAssumption, FS_Subset
<1>2. \A x \in InForce(place) : IsFiniteSet(over(x)) /\ Cardinality(over(x)) \in Nat
  <2> SUFFICES ASSUME NEW x \in InForce(place)
               PROVE  IsFiniteSet(over(x)) /\ Cardinality(over(x)) \in Nat
    OBVIOUS
  <2>1. over(x) \subseteq InForce(place)
    OBVIOUS
  <2> HIDE DEF over
  <2> QED
    BY <1>1, <2>1, FS_Subset, FS_CardinalityType
<1>3. \A x \in InForce(place) : Ranking(place)[x] = Cardinality(over(x))
  BY DEF Ranking, InForce, Above, Standing
<1>4. over(k) \subseteq over(l) /\ k \in over(l) /\ k \notin over(k)
  BY StandingOrder
<1> HIDE DEF over
<1>5. Cardinality(over(k)) <= Cardinality(over(l))
      /\ (Cardinality(over(k)) = Cardinality(over(l)) => over(k) = over(l))
  BY <1>2, <1>4, FS_Subset
<1> QED
  BY <1>2, <1>3, <1>4, <1>5

\* Among lists in force there is a first one, above all others and of the lowest
\* rank.
LEMMA FirstList ==
  ASSUME RowsTyped, NEW place \in Places, NEW S \in SUBSET InForce(place), S # {}
  PROVE  \E l \in S : \A k \in S \ {l} : Above(place, l, k)
<1> DEFINE over(x) == {y \in InForce(place) : Above(place, y, x)}
           overs == {over(x) : x \in S}
<1>1. IsFiniteSet(InForce(place))
  <2>1. InForce(place) \subseteq Lists
    BY DEF InForce
  <2> QED
    BY <2>1, CatalogueAssumption, FS_Subset
<1>2. overs \in SUBSET (SUBSET InForce(place)) /\ overs # {}
  OBVIOUS
<1>3. PICK s \in overs : \A t \in overs : t \subseteq s => t = s
  <2> HIDE DEF overs
  <2> QED
    BY <1>1, <1>2, SmallestSubset
<1>4. PICK l \in S : s = over(l)
  BY <1>3
<1>5. ASSUME NEW k \in S \ {l} PROVE Above(place, l, k)
  <2>1. k \in InForce(place) /\ l \in InForce(place) /\ k # l /\ over(k) \in overs
    BY <1>5
  <2>2. CASE Above(place, k, l)
    <3>1. over(k) \subseteq over(l) /\ k \in over(l) /\ k \notin over(k)
      BY <2>1, <2>2, StandingOrder
    <3> QED
      BY <1>3, <1>4, <2>1, <3>1
  <2> QED
    BY <2>1, <2>2, StandingOrder
<1> QED
  BY <1>5

\* The first list is of the lowest rank, and it alone.
LEMMA FirstIsLowest ==
  ASSUME RowsTyped, NEW place \in Places, NEW S \in SUBSET InForce(place), NEW l \in S,
         \A k \in S \ {l} : Above(place, l, k)
  PROVE  \A k \in S : /\ Ranking(place)[l] <= Ranking(place)[k]
                      /\ (\A m \in S : Ranking(place)[k] <= Ranking(place)[m]) => k = l
<1>1. \A k \in S \ {l} : /\ Ranking(place)[l] \in Nat /\ Ranking(place)[k] \in Nat
                         /\ Ranking(place)[l] < Ranking(place)[k]
  BY RankFollowsStanding
<1>2. Ranking(place)[l] \in Int
  <2> DEFINE over == {k \in InForce(place) : Above(place, k, l)}
  <2>1. Ranking(place)[l] = Cardinality(over)
    BY DEF Ranking, InForce, Above, Standing
  <2>2. IsFiniteSet(over)
    <3>1. over \subseteq Lists
      BY DEF InForce
    <3> HIDE DEF over
    <3> QED
      BY <3>1, CatalogueAssumption, FS_Subset
  <2> HIDE DEF over
  <2> QED
    BY <2>1, <2>2, FS_CardinalityType
<1> QED
  BY <1>1, <1>2

\* So the first price found along the sorted lists is the one of the lowest rank.
LEMMA SamePrice ==
  ASSUME RowsTyped, NEW place \in Places, NEW p \in Products, NEW key \in Keys
  PROVE  /\ EffectivePrice(Ranking(place), p, key) = FindPrice(place, p, key).amount
         /\ FindPrice(place, p, key) # NoPrice =>
              \E l \in Charging(place, p, key) :
                FindPrice(place, p, key) = [amount |-> catalogue["prices"][<<l, p, key>>].amount,
                                            currency |-> catalogue["lists"][l].currency]
<1> DEFINE S == {l \in InForce(place) :
                   /\ IsActive("prices", <<l, p, key>>)
                   /\ Applies(catalogue["prices"][<<l, p, key>>].window)}
           First1(l) == \A k \in S \ {l} : Higher(ChargingRank(place, l), ChargingRank(place, k))
           Lowest(l) == \A k \in S : Ranking(place)[l] <= Ranking(place)[k]
<1>1. DOMAIN Ranking(place) = InForce(place)
  BY DEF Ranking, InForce
<1>2. Charging(place, p, key) = S
  BY DEF Charging, InForce
<1>3. S \subseteq InForce(place)
  OBVIOUS
<1>4. EffectivePrice(Ranking(place), p, key) =
        IF S = {} THEN NoPrice.amount
        ELSE catalogue["prices"][<<CHOOSE l \in S : Lowest(l), p, key>>].amount
  BY <1>1 DEF EffectivePrice
<1>5. FindPrice(place, p, key) =
        IF S = {} THEN NoPrice
        ELSE [amount |-> catalogue["prices"][<<CHOOSE l \in S : First1(l), p, key>>].amount,
              currency |-> catalogue["lists"][CHOOSE l \in S : First1(l)].currency]
  BY <1>2 DEF FindPrice
<1>6. \A l, k \in S : Higher(ChargingRank(place, l), ChargingRank(place, k)) <=> Above(place, l, k)
  BY DEF ChargingRank, Above, Standing
<1> HIDE DEF S
<1>7. ASSUME S # {} PROVE /\ (CHOOSE l \in S : Lowest(l)) = (CHOOSE l \in S : First1(l))
                          /\ (CHOOSE l \in S : First1(l)) \in S
  <2>1. PICK l \in S : \A k \in S \ {l} : Above(place, l, k)
    BY <1>3, <1>7, FirstList
  <2>2. First1(l)
    BY <1>6, <2>1
  <2>3. ASSUME NEW k \in S, First1(k) PROVE k = l
    <3>1. k # l => Above(place, k, l) /\ Above(place, l, k)
      BY <1>6, <2>1, <2>3
    <3> QED
      BY <1>3, <2>1, <3>1, StandingOrder
  <2>5. Lowest(l) /\ \A k \in S : Lowest(k) => k = l
    BY <1>3, <2>1, FirstIsLowest
  <2> HIDE DEF First1, Lowest
  <2>7. (CHOOSE k \in S : Lowest(k)) = l
    BY <2>1, <2>5
  <2>8. (CHOOSE k \in S : First1(k)) = l
    BY <2>1, <2>2, <2>3
  <2> QED
    BY <2>1, <2>7, <2>8
<1> HIDE DEF First1, Lowest
<1>8. EffectivePrice(Ranking(place), p, key) = FindPrice(place, p, key).amount
  <2>1. CASE S = {}
    BY <1>4, <1>5, <2>1
  <2>2. CASE S # {}
    <3> DEFINE lowest == CHOOSE l \in S : Lowest(l)
               first == CHOOSE l \in S : First1(l)
    <3>1. EffectivePrice(Ranking(place), p, key) =
            catalogue["prices"][<<lowest, p, key>>].amount
      BY <1>4, <2>2
    <3>2. FindPrice(place, p, key).amount = catalogue["prices"][<<first, p, key>>].amount
      BY <1>5, <2>2
    <3>3. lowest = first
      BY <1>7, <2>2
    <3> HIDE DEF lowest, first
    <3> QED
      BY <3>1, <3>2, <3>3
  <2> QED
    BY <2>1, <2>2
<1>9. ASSUME FindPrice(place, p, key) # NoPrice
      PROVE  \E l \in Charging(place, p, key) :
               FindPrice(place, p, key) = [amount |-> catalogue["prices"][<<l, p, key>>].amount,
                                           currency |-> catalogue["lists"][l].currency]
  <2>1. S # {}
    BY <1>5, <1>9
  <2> QED
    BY <1>2, <1>5, <1>7, <2>1
<1> QED
  BY <1>8, <1>9

\* A price that is found is of a list in force, and not what stands for none.
LEMMA FoundPrice ==
  ASSUME RowsTyped, NEW place \in Places, NEW p \in Products, NEW key \in Keys,
         FindPrice(place, p, key) # NoPrice
  PROVE  /\ FindPrice(place, p, key).amount # NoPrice.amount
         /\ \E l \in InForce(place) :
              FindPrice(place, p, key) = [amount |-> FindPrice(place, p, key).amount,
                                          currency |-> catalogue["lists"][l].currency]
<1>1. PICK l \in Charging(place, p, key) :
        FindPrice(place, p, key) = [amount |-> catalogue["prices"][<<l, p, key>>].amount,
                                    currency |-> catalogue["lists"][l].currency]
  BY SamePrice
<1>2. l \in InForce(place) /\ l \in Lists /\ catalogue["prices"][<<l, p, key>>] # Absent
  BY DEF Charging, InForce, IsActive, Absent
<1>3. catalogue["prices"][<<l, p, key>>] \in PriceRow
  <2>1. catalogue["prices"][<<l, p, key>>] \in {Absent} \cup PriceRow
    BY <1>2 DEF RowsTyped
  <2> QED
    BY <1>2, <2>1
<1>4. FindPrice(place, p, key).amount \in Nat
  BY <1>1, <1>3 DEF PriceRow
<1>5. NoPrice.amount \notin Nat
  BY DEF NoPrice
<1> QED
  BY <1>1, <1>2, <1>4, <1>5

\* Where the lists in force are in one currency, that of the first is that of any.
LEMMA SameCurrency ==
  ASSUME RowsTyped, NEW place \in Places, OneCurrency(place), NEW l \in InForce(place)
  PROVE  AnswerCurrency(Ranking(place)) = catalogue["lists"][l].currency
<1>1. DOMAIN Ranking(place) = InForce(place)
  BY DEF Ranking, InForce
<1>2. PICK f \in InForce(place) : \A k \in InForce(place) \ {f} : Above(place, f, k)
  BY FirstList
<1>3. \A k \in InForce(place) : Ranking(place)[f] <= Ranking(place)[k]
  BY <1>2, FirstIsLowest
<1>4. PICK g \in InForce(place) : AnswerCurrency(Ranking(place)) = catalogue["lists"][g].currency
  BY <1>1, <1>3 DEF AnswerCurrency
<1> QED
  BY <1>1, <1>4 DEF OneCurrency

\* A till that shows what it would be told now shows the amount an order would charge,
\* and in its currency if the place's lists are in one.
LEMMA AnswerIsCharged ==
  ASSUME RowsTyped, NEW place \in Places, till.snapshot = AnswerNow(place),
         NEW p \in Products, NEW key \in Keys, ~ Odd(p)
  PROVE  /\ ShownPrice(p, key).amount = ChargedPrice(place, p, key).amount
         /\ OneCurrency(place) => ShownPrice(p, key) = ChargedPrice(place, p, key)
<1> DEFINE offered == {x \in Products : Listed(place, x)}
           price == [id \in offered \X Keys |-> EffectivePrice(Ranking(place), id[1], id[2])]
           currency == AnswerCurrency(Ranking(place))
           found(k) == FindPrice(place, p, k)
<1>1. /\ till.snapshot.offered = offered /\ till.snapshot.price = price
      /\ till.snapshot.variants = {x \in offered : IsActive("variants", x)}
      /\ till.snapshot.currency = currency
  BY DEF AnswerNow
<1>2. p \in offered => \A k \in Keys : price[<<p, k>>] = found(k).amount
  <2> SUFFICES ASSUME p \in offered, NEW k \in Keys PROVE price[<<p, k>>] = found(k).amount
    OBVIOUS
  <2>1. <<p, k>> \in offered \X Keys /\ <<p, k>>[1] = p /\ <<p, k>>[2] = k
    OBVIOUS
  <2> HIDE DEF offered
  <2>2. price[<<p, k>>] = EffectivePrice(Ranking(place), p, k)
    BY <2>1
  <2> QED
    BY <2>2, SamePrice
<1> HIDE DEF price
<1>3. p \in offered <=> Listed(place, p)
  OBVIOUS
<1>4. Orderable(place, p) <=> Listed(place, p)
  <2>1. IsActive("products", p) => ~ catalogue["products"][p].odd
    BY DEF IsActive, Odd, Absent
  <2> QED
    BY <2>1 DEF Orderable, Listed
<1>5. p \in till.snapshot.variants <=> p \in offered /\ IsActive("variants", p)
  BY <1>1
<1> HIDE DEF offered
<1>6. CASE ~ Listed(place, p) \/ (key = "VARIANT" /\ ~ IsActive("variants", p))
  <2>1. ShownPrice(p, key) = NoPrice
    BY <1>1, <1>3, <1>5, <1>6 DEF ShownPrice
  <2>2. ChargedPrice(place, p, key) = NoPrice
    BY <1>4, <1>6 DEF ChargedPrice
  <2> QED
    BY <2>1, <2>2
<1>7. CASE Listed(place, p) /\ ~ (key = "VARIANT" /\ ~ IsActive("variants", p))
  <2> DEFINE k == IF found(key) # NoPrice THEN key ELSE "BASE"
             amount == IF price[<<p, key>>] # NoPrice.amount THEN price[<<p, key>>]
                       ELSE price[<<p, "BASE">>]
  <2>1. ShownPrice(p, key) = IF amount = NoPrice.amount THEN NoPrice
                             ELSE [amount |-> amount, currency |-> currency]
    BY <1>1, <1>3, <1>5, <1>7 DEF ShownPrice
  <2>2. ChargedPrice(place, p, key) = found(k)
    BY <1>4, <1>7 DEF ChargedPrice
  <2>3. k \in Keys /\ key \in Keys /\ "BASE" \in Keys
    BY DEF Keys
  <2>4. price[<<p, key>>] = found(key).amount /\ price[<<p, "BASE">>] = found("BASE").amount
    BY <1>2, <1>3, <1>7, <2>3
  <2>5. found(key) # NoPrice => found(key).amount # NoPrice.amount
    BY <2>3, FoundPrice
  <2>6. amount = found(k).amount
    BY <2>4, <2>5
  <2>7. found(k) # NoPrice =>
          /\ found(k).amount # NoPrice.amount
          /\ \E l \in InForce(place) :
               found(k) = [amount |-> found(k).amount, currency |-> catalogue["lists"][l].currency]
    <3> HIDE DEF k
    <3> QED
      BY <2>3, FoundPrice
  <2> HIDE DEF k, amount, found, currency
  <2>8. CASE found(k) = NoPrice
    BY <2>1, <2>2, <2>6, <2>8
  <2>9. CASE found(k) # NoPrice
    <3>1. ShownPrice(p, key) = [amount |-> found(k).amount, currency |-> currency]
      BY <2>1, <2>6, <2>7, <2>9
    <3>2. ASSUME OneCurrency(place)
          PROVE  found(k) = [amount |-> found(k).amount, currency |-> currency]
      BY <2>7, <2>9, <3>2, SameCurrency DEF currency
    <3> QED
      BY <2>2, <3>1, <3>2
  <2> QED
    BY <2>8, <2>9
<1> QED
  BY <1>6, <1>7

-----------------------------------------------------------------------------
\* The screen is a record, whatever its copies are of.
Screen(t) ==
  /\ t \in [place : Places \cup {"NONE"}, status : {"IDLE", "LOADING", "READY", "FAILURE"},
            offline : BOOLEAN, snapshot : {t.snapshot}, asked : Nat, kept : {t.kept}]
  /\ t.kept = [place \in Places |-> t.kept[place]]

\* A request asks for one place and brings that place's answer; the latest one asks
\* for the place of the till, which may hold it for the present catalogue as long as
\* nothing changed.
RequestFits(r) ==
  /\ r \in [number : Nat, place : Places, stage : {"ASKED", "ANSWERED", "RESTORING"},
            answer : {r.answer}]
  /\ r.number <= till.asked
  /\ r.stage = "ANSWERED" => r.answer.place = r.place
  /\ Latest(r) => r.place = till.place
  /\ settled /\ Latest(r) /\ r.stage = "ANSWERED" => r.answer = AnswerNow(r.place)

ScreenFits ==
  /\ Screen(till)
  /\ till.snapshot # NoSnapshot => till.snapshot.place = till.place
  /\ \A place \in Places : till.kept[place] # NoSnapshot => till.kept[place].place = place
  /\ till.status = "READY" => till.place \in Places
  /\ settled /\ till.status = "READY" /\ ~ till.offline => till.snapshot = AnswerNow(till.place)

CatalogueInv == RowsTyped /\ ScreenFits /\ \A r \in loads : RequestFits(r)

\* Managers keep the rows of lists well-formed; what they change, and the clock,
\* unsettles the till.
PutRow(table, id, row) == Put([catalogue EXCEPT ![table][id] = row])
Unsettles == RowsTyped' /\ settled' = FALSE /\ UNCHANGED <<till, loads>>

LEMMA OneRowPut ==
  ASSUME RowsTyped, NEW table, NEW id, NEW row, PutRow(table, id, row),
         \/ table = "lists" /\ row \in ListRow
         \/ table = "assignments" /\ row \in ListAssignment
         \/ table = "prices" /\ row \in PriceRow
         \/ table \notin {"lists", "assignments", "prices"}
  PROVE  Unsettles
<1>0. catalogue' = [catalogue EXCEPT ![table][id] = row] /\ settled' = FALSE
      /\ UNCHANGED <<till, loads>>
  BY DEF PutRow, Put
<1>1. DOMAIN catalogue' = DOMAIN catalogue
  BY <1>0
<1>2. \A t \in DOMAIN catalogue :
        catalogue'[t] = IF t = table THEN [catalogue[t] EXCEPT ![id] = row] ELSE catalogue[t]
  BY <1>0
<1>3. catalogue'["lists"] \in [Lists -> {Absent} \cup ListRow]
  BY <1>2 DEF RowsTyped
<1>4. catalogue'["assignments"] \in [Places \X Lists -> {Absent} \cup ListAssignment]
  BY <1>2, ZenonT(60) DEF RowsTyped
<1>5. catalogue'["prices"] \in [Lists \X Products \X Keys -> {Absent} \cup PriceRow]
  BY <1>2, ZenonT(60) DEF RowsTyped
<1> QED
  BY <1>0, <1>1, <1>3, <1>4, <1>5 DEF RowsTyped, Unsettles

LEMMA ArchiveUnsettles ==
  ASSUME RowsTyped, NEW table \in {"categories", "vatRates", "prices"}, NEW id, Archive(table, id)
  PROVE  Unsettles
<1>1. catalogue[table][id] # Absent /\ Put([catalogue EXCEPT ![table][id].status = "INACTIVE"])
  BY DEF Archive
<1>2. catalogue' = [catalogue EXCEPT ![table] = [catalogue[table] EXCEPT ![id].status = "INACTIVE"]]
      /\ settled' = FALSE /\ UNCHANGED <<till, loads>>
  BY <1>1 DEF Put
<1>3. /\ DOMAIN catalogue' = DOMAIN catalogue
      /\ \A t \in DOMAIN catalogue :
           catalogue'[t] = IF t = table THEN [catalogue[t] EXCEPT ![id].status = "INACTIVE"]
                           ELSE catalogue[t]
  BY <1>2
<1>4. table # "lists" /\ table # "assignments"
  OBVIOUS
<1>5. catalogue'["prices"] \in [Lists \X Products \X Keys -> {Absent} \cup PriceRow]
  <2>1. CASE table = "prices"
    <3> DEFINE rows == catalogue["prices"]
    <3>1. rows \in [Lists \X Products \X Keys -> {Absent} \cup PriceRow] /\ rows[id] # Absent
      BY <1>1, <2>1 DEF RowsTyped
    <3>2. catalogue'["prices"] = [rows EXCEPT ![id].status = "INACTIVE"]
      BY <1>3, <2>1 DEF RowsTyped
    <3> HIDE DEF rows
    <3>3. ASSUME id \in Lists \X Products \X Keys
          PROVE  [rows[id] EXCEPT !.status = "INACTIVE"] \in PriceRow
      <4>1. rows[id] \in PriceRow
        BY <3>1, <3>3
      <4> QED
        BY <4>1 DEF PriceRow, Status
    <3> QED
      BY <3>1, <3>2, <3>3
  <2>2. CASE table # "prices"
    BY <1>3, <2>2 DEF RowsTyped
  <2> QED
    BY <2>1, <2>2
<1> QED
  BY <1>2, <1>3, <1>4, <1>5 DEF RowsTyped, Unsettles

LEMMA ManageKeeps ==
  ASSUME RowsTyped, Manage
  PROVE  Unsettles
<1>3. RowsOf("lists") \subseteq ListRow /\ RowsOf("assignments") \subseteq ListAssignment
  BY CatalogueAssumption DEF RowsOf, ListRow, ListAssignment
<1>0. RowsOf("prices") \subseteq PriceRow
  BY CatalogueAssumption DEF RowsOf, PriceRow
<1>4. ASSUME NEW row, NEW c, CreateCategory(c, row) \/ UpdateCategory(c, row)
      PROVE  Unsettles
  <2>1. PutRow("categories", c, row)
    BY <1>4 DEF PutRow, CreateCategory, UpdateCategory, Create, Update
  <2>2. "categories" \notin {"lists", "assignments", "prices"}
    OBVIOUS
  <2> QED
    BY <2>1, <2>2, OneRowPut
<1>5. ASSUME NEW row, NEW v, CreateVatRate(v, row) \/ UpdateVatRate(v, row)
      PROVE  Unsettles
  <2>1. PutRow("vatRates", v, row)
    BY <1>5 DEF PutRow, CreateVatRate, UpdateVatRate, Create, Update
  <2>2. "vatRates" \notin {"lists", "assignments", "prices"}
    OBVIOUS
  <2> QED
    BY <2>1, <2>2, OneRowPut
<1>6. ASSUME NEW row, NEW p, CreateProduct(p, row) \/ UpdateProduct(p, row)
      PROVE  Unsettles
  <2>1. PutRow("products", p, row)
    BY <1>6 DEF PutRow, CreateProduct, UpdateProduct, Create, Update
  <2>2. "products" \notin {"lists", "assignments", "prices"}
    OBVIOUS
  <2> QED
    BY <2>1, <2>2, OneRowPut
<1>7. ASSUME NEW row, NEW p, CreateVariant(p, row) \/ UpdateVariant(p, row)
      PROVE  Unsettles
  <2>1. PutRow("variants", p, row)
    BY <1>7 DEF PutRow, CreateVariant, UpdateVariant, Create, Update
  <2>2. "variants" \notin {"lists", "assignments", "prices"}
    OBVIOUS
  <2> QED
    BY <2>1, <2>2, OneRowPut
<1>8. ASSUME NEW row, NEW place, NEW p, UpsertLocation(place, p, row)
      PROVE  Unsettles
  <2>1. PutRow("offers", <<place, p>>, row)
    BY <1>8 DEF PutRow, UpsertLocation
  <2>2. "offers" \notin {"lists", "assignments", "prices"}
    OBVIOUS
  <2> QED
    BY <2>1, <2>2, OneRowPut
<1>9. ASSUME NEW l, NEW row \in RowsOf("lists"), CreatePriceList(l, row) \/ UpdatePriceList(l, row)
      PROVE  Unsettles
  <2>1. PutRow("lists", l, row)
    BY <1>9 DEF PutRow, CreatePriceList, UpdatePriceList, Create, Update
  <2>2. row \in ListRow
    BY <1>3
  <2> QED
    BY <2>1, <2>2, OneRowPut
<1>10. ASSUME NEW place, NEW l, NEW row \in RowsOf("assignments"), AssignPriceList(place, l, row)
      PROVE  Unsettles
  <2>1. PutRow("assignments", <<place, l>>, row)
    BY <1>10 DEF PutRow, AssignPriceList
  <2>2. row \in ListAssignment
    BY <1>3
  <2> QED
    BY <2>1, <2>2, OneRowPut
<1>11. ASSUME NEW l, NEW p, NEW key, NEW row \in RowsOf("prices"), UpsertProductPrice(l, p, key, row)
      PROVE  Unsettles
  <2>1. PutRow("prices", <<l, p, key>>, row)
    BY <1>11 DEF PutRow, UpsertProductPrice
  <2>2. row \in PriceRow
    BY <1>0
  <2> QED
    BY <2>1, <2>2, OneRowPut
<1>12. ASSUME NEW c, ArchiveCategory(c) \/ ArchiveVatRate(c) \/ ArchiveProductPrice(c)
       PROVE  Unsettles
  BY <1>12, ArchiveUnsettles DEF ArchiveCategory, ArchiveVatRate, ArchiveProductPrice
<1>13. ASSUME NEW p \in Products, ArchiveProduct(p)
       PROVE  Unsettles
  <2>1. /\ DOMAIN catalogue' = DOMAIN catalogue
        /\ \A t \in DOMAIN catalogue \ {"products", "offers"} : catalogue'[t] = catalogue[t]
        /\ settled' = FALSE /\ UNCHANGED <<till, loads>>
    BY <1>13 DEF ArchiveProduct, Put
  <2> QED
    BY <2>1 DEF RowsTyped, Unsettles
<1> QED
  BY <1>4, <1>5, <1>6, <1>7, <1>8, <1>9, <1>10, <1>11, <1>12, <1>13 DEF Manage

\* Nothing but the catalogue or the clock has changed: the till is unsettled.
LEMMA Unsettled ==
  ASSUME CatalogueInv, RowsTyped', settled' = FALSE, UNCHANGED <<till, loads>>
  PROVE  CatalogueInv'
<1>1. ScreenFits'
  BY DEF CatalogueInv, ScreenFits, Screen
<1>2. \A r \in loads' : RequestFits(r)'
  BY DEF CatalogueInv, RequestFits, Latest
<1> QED
  BY <1>1, <1>2 DEF CatalogueInv

\* The steps of the till and its requests leave what a place would be told alone.
LEMMA SameAnswers ==
  ASSUME UNCHANGED <<catalogue, day>>
  PROVE  \A place : AnswerNow(place)' = AnswerNow(place)
<1> SUFFICES ASSUME NEW place PROVE AnswerNow(place)' = AnswerNow(place)
  OBVIOUS
<1>1. \A table, id : IsActive(table, id)' = IsActive(table, id)
  BY DEF IsActive
<1> QED
  BY DEF AnswerNow, AnswerCurrency, Ranking, Listed, EffectivePrice, IsActive, Applies

\* A request that fits, seen from a till that asks for the same and no less.
LEMMA StillFits ==
  ASSUME NEW r \in loads, RequestFits(r), UNCHANGED <<catalogue, day, settled>>,
         till'.asked = till.asked, till'.place = till.place
  PROVE  RequestFits(r)'
BY SameAnswers DEF RequestFits, Latest

\* A till that asks anew, or is cleared, waits for none of its earlier requests.
LEMMA NoLongerLatest ==
  ASSUME NEW r \in loads, RequestFits(r), till.asked \in Nat, till'.asked = till.asked + 1
  PROVE  RequestFits(r)'
<1>1. r.number \in Nat /\ r.number <= till.asked
  BY DEF RequestFits
<1>2. r.number # till'.asked /\ r.number <= till'.asked
  BY <1>1
<1> QED
  BY <1>2 DEF RequestFits, Latest

LEMMA LoadKeeps ==
  ASSUME CatalogueInv, NEW place \in Places, Load(place)
  PROVE  CatalogueInv'
<1>0. Screen(till) /\ till.asked \in Nat
  BY DEF CatalogueInv, ScreenFits, Screen
<1> DEFINE shown == IF till.place = place THEN till.snapshot ELSE NoSnapshot
           first == [till EXCEPT !.asked = till.asked + 1, !.place = place]
           second == [till EXCEPT !.asked = till.asked + 1, !.place = place, !.status = "LOADING"]
           screen == [till EXCEPT !.asked = till.asked + 1, !.place = place, !.status = "LOADING",
                                  !.snapshot = shown]
           n == [number |-> till.asked + 1, place |-> place, stage |-> "ASKED",
                 answer |-> NoSnapshot]
<1>1. till' = screen
  BY DEF Load
<1>2. first \in [place : Places \cup {"NONE"}, status : {"IDLE", "LOADING", "READY", "FAILURE"},
                 offline : BOOLEAN, snapshot : {till.snapshot}, asked : Nat, kept : {till.kept}]
      /\ first.asked = till.asked + 1 /\ first.place = place
  <2>1. till.asked + 1 \in Nat
    BY <1>0
  <2>2. PICK number : number = till.asked + 1
    OBVIOUS
  <2>3. first = [till EXCEPT !.asked = number, !.place = place]
    BY <2>2
  <2>4. first.asked = number /\ first.place = place
    BY <1>0, <2>3 DEF Screen
  <2> HIDE DEF first
  <2>5. first \in [place : Places \cup {"NONE"}, status : {"IDLE", "LOADING", "READY", "FAILURE"},
                   offline : BOOLEAN, snapshot : {till.snapshot}, asked : Nat, kept : {till.kept}]
    BY <1>0, <2>1, <2>2, <2>3 DEF Screen
  <2> QED
    BY <2>2, <2>4, <2>5
<1>3. second = [first EXCEPT !.status = "LOADING"]
  OBVIOUS
<1> HIDE DEF first, second
<1>4. second \in [place : Places \cup {"NONE"}, status : {"IDLE", "LOADING", "READY", "FAILURE"},
                  offline : BOOLEAN, snapshot : {till.snapshot}, asked : Nat, kept : {till.kept}]
      /\ second.asked = till.asked + 1 /\ second.place = place /\ second.status = "LOADING"
  BY <1>2, <1>3
<1>5. screen = [second EXCEPT !.snapshot = shown]
  BY DEF second
<1> HIDE DEF screen, shown
<1>6. screen \in [place : Places \cup {"NONE"}, status : {"IDLE", "LOADING", "READY", "FAILURE"},
                  offline : BOOLEAN, snapshot : {shown}, asked : Nat, kept : {till.kept}]
      /\ screen.asked = till.asked + 1 /\ screen.place = place /\ screen.status = "LOADING"
      /\ screen.snapshot = shown /\ screen.kept = till.kept
  BY <1>4, <1>5
<1>7. Screen(screen)
  BY <1>0, <1>6 DEF Screen
<1>8. shown # NoSnapshot => shown.place = place
  BY DEF CatalogueInv, ScreenFits, shown
<1>9. ScreenFits'
  <2>1. Screen(till)'
    BY <1>1, <1>7 DEF Screen
  <2>2. till'.kept = till.kept /\ till'.status = "LOADING" /\ till'.snapshot = shown
        /\ till'.place = place
    BY <1>1, <1>6
  <2> QED
    BY <1>8, <2>1, <2>2 DEF CatalogueInv, ScreenFits
<1>10. ASSUME NEW r \in loads PROVE RequestFits(r)'
  <2>1. till'.asked = till.asked + 1 /\ RequestFits(r)
    BY <1>1, <1>6 DEF CatalogueInv
  <2> QED
    BY <1>0, <2>1, NoLongerLatest
<1>11. PICK m : m = n
  OBVIOUS
<1>12. RequestFits(m)' /\ loads' = loads \cup {m} /\ catalogue' = catalogue
  <2>1. /\ m \in [number : Nat, place : Places, stage : {"ASKED", "ANSWERED", "RESTORING"},
                  answer : {m.answer}]
        /\ m.number = till.asked + 1 /\ m.stage = "ASKED" /\ m.place = place
    BY <1>0, <1>11
  <2>2. till'.asked = till.asked + 1 /\ till'.place = place
    BY <1>1, <1>6
  <2>3. RequestFits(m)'
    BY <1>0, <2>1, <2>2 DEF RequestFits, Latest
  <2>4. loads' = loads \cup {m} /\ catalogue' = catalogue
    BY <1>11 DEF Load
  <2> QED
    BY <2>3, <2>4
<1> HIDE DEF n
<1>13. ASSUME NEW r \in loads' PROVE RequestFits(r)'
  BY <1>10, <1>12
<1>14. RowsTyped'
  BY <1>12 DEF CatalogueInv, RowsTyped
<1> QED
  BY <1>9, <1>13, <1>14 DEF CatalogueInv

\* Steps of requests that leave the screen alone.
LEMMA RequestKeeps ==
  ASSUME CatalogueInv, NEW r \in loads, NEW n, UNCHANGED <<catalogue, day, settled, till>>,
         loads' = (loads \ {r}) \cup {n} \/ loads' = loads \ {r},
         loads' = (loads \ {r}) \cup {n} => RequestFits(n)
  PROVE  CatalogueInv'
<1>1. \A q \in loads' : RequestFits(q)
  BY DEF CatalogueInv
<1>2. \A q \in loads' : RequestFits(q)'
  BY <1>1, SameAnswers DEF RequestFits, Latest
<1>3. ScreenFits'
  BY SameAnswers DEF CatalogueInv, ScreenFits, Screen
<1> QED
  BY <1>2, <1>3 DEF CatalogueInv, RowsTyped

LEMMA QueryKeeps ==
  ASSUME CatalogueInv, NEW r \in loads, Query(r)
  PROVE  CatalogueInv'
<1>1. PICK answer : answer = AnswerNow(r.place)
  OBVIOUS
<1>2. PICK n : n = [r EXCEPT !.stage = "ANSWERED", !.answer = answer]
  OBVIOUS
<1>3. answer.place = r.place
  BY <1>1 DEF AnswerNow
<1>4. RequestFits(r)
  BY DEF CatalogueInv
<1>5. /\ n \in [number : Nat, place : Places, stage : {"ASKED", "ANSWERED", "RESTORING"},
                answer : {answer}]
      /\ n.number = r.number /\ n.place = r.place /\ n.stage = "ANSWERED" /\ n.answer = answer
  BY <1>2, <1>4 DEF RequestFits
<1>6. RequestFits(n)
  BY <1>1, <1>3, <1>4, <1>5 DEF RequestFits, Latest
<1>7. loads' = (loads \ {r}) \cup {n} /\ UNCHANGED <<catalogue, day, settled, till>>
  BY <1>1, <1>2 DEF Query, Replace
<1> QED
  BY <1>6, <1>7, RequestKeeps

\* What is shown after an answer, a failure or a copy of the device.
LEMMA ScreenKeeps ==
  ASSUME CatalogueInv, NEW r \in loads, loads' = loads \ {r},
         UNCHANGED <<catalogue, day, settled>>,
         till'.asked = till.asked, till'.place = till.place, ScreenFits'
  PROVE  CatalogueInv'
<1>1. ASSUME NEW q \in loads' PROVE RequestFits(q)'
  <2>1. q \in loads /\ RequestFits(q)
    BY DEF CatalogueInv
  <2> QED
    BY <2>1, StillFits
<1> QED
  BY <1>1 DEF CatalogueInv, RowsTyped

LEMMA FailureShown ==
  ASSUME CatalogueInv, NEW r \in loads, loads' = loads \ {r},
         UNCHANGED <<catalogue, day, settled>>, till' = [till EXCEPT !.status = "FAILURE"]
  PROVE  CatalogueInv'
<1>0. Screen(till)
  BY DEF CatalogueInv, ScreenFits
<1>1. /\ till' \in [place : Places \cup {"NONE"}, status : {"IDLE", "LOADING", "READY", "FAILURE"},
                    offline : BOOLEAN, snapshot : {till.snapshot}, asked : Nat, kept : {till.kept}]
      /\ till'.status = "FAILURE" /\ till'.place = till.place /\ till'.asked = till.asked
      /\ till'.snapshot = till.snapshot /\ till'.kept = till.kept
  BY <1>0 DEF Screen
<1>2. Screen(till)'
  BY <1>0, <1>1 DEF Screen
<1>3. ScreenFits'
  BY <1>1, <1>2 DEF CatalogueInv, ScreenFits
<1> QED
  BY <1>1, <1>3, ScreenKeeps

LEMMA ArriveKeeps ==
  ASSUME CatalogueInv, NEW r \in loads, NEW saved \in BOOLEAN, Arrive(r, saved)
  PROVE  CatalogueInv'
<1>0. Screen(till) /\ RequestFits(r) /\ r.stage = "ANSWERED" /\ loads' = loads \ {r}
      /\ UNCHANGED <<catalogue, day, settled>> /\ r.place \in Places
  BY DEF CatalogueInv, ScreenFits, Arrive, RequestFits
<1>1. CASE ~ Latest(r)
  <2>1. till' = till
    BY <1>1 DEF Arrive
  <2> QED
    BY <1>0, <2>1, RequestKeeps
<1>2. CASE Latest(r)
  <2> DEFINE copies == [till.kept EXCEPT ![r.place] = IF saved THEN r.answer ELSE @]
             first == [till EXCEPT !.snapshot = r.answer, !.offline = FALSE]
             second == [till EXCEPT !.snapshot = r.answer, !.offline = FALSE, !.status = "READY"]
             screen == [till EXCEPT !.snapshot = r.answer, !.offline = FALSE, !.status = "READY",
                                    !.kept = copies]
  <2>1. till' = screen
    BY <1>2 DEF Arrive
  <2>2. first \in [place : Places \cup {"NONE"}, status : {"IDLE", "LOADING", "READY", "FAILURE"},
                   offline : BOOLEAN, snapshot : {r.answer}, asked : Nat, kept : {till.kept}]
        /\ first.place = till.place /\ first.asked = till.asked /\ first.offline = FALSE
    BY <1>0 DEF Screen
  <2>3. second = [first EXCEPT !.status = "READY"]
    OBVIOUS
  <2> HIDE DEF first, second
  <2>4. second \in [place : Places \cup {"NONE"}, status : {"IDLE", "LOADING", "READY", "FAILURE"},
                    offline : BOOLEAN, snapshot : {r.answer}, asked : Nat, kept : {till.kept}]
        /\ second.place = till.place /\ second.asked = till.asked /\ second.offline = FALSE
        /\ second.status = "READY"
    BY <2>2, <2>3
  <2>5. screen = [second EXCEPT !.kept = copies]
    BY DEF second
  <2>6. /\ copies = [place \in Places |-> copies[place]]
        /\ \A place \in Places : copies[place] # NoSnapshot => copies[place].place = place
    <3>1. till.kept = [place \in Places |-> till.kept[place]]
      BY <1>0 DEF Screen
    <3>2. copies \in [Places -> {copies[place] : place \in Places}]
      BY <3>1
    <3>3. \A place \in Places :
            copies[place] = IF place = r.place /\ saved THEN r.answer ELSE till.kept[place]
      BY <3>1
    <3>4. r.answer.place = r.place
      BY <1>0 DEF RequestFits
    <3> HIDE DEF copies
    <3>5. \A place \in Places : copies[place] # NoSnapshot => copies[place].place = place
      BY <3>3, <3>4 DEF CatalogueInv, ScreenFits
    <3> QED
      BY <3>2, <3>5
  <2> HIDE DEF screen, copies
  <2>7. /\ screen \in [place : Places \cup {"NONE"},
                       status : {"IDLE", "LOADING", "READY", "FAILURE"},
                       offline : BOOLEAN, snapshot : {r.answer}, asked : Nat, kept : {copies}]
        /\ screen.place = till.place /\ screen.asked = till.asked /\ screen.offline = FALSE
        /\ screen.status = "READY" /\ screen.snapshot = r.answer /\ screen.kept = copies
    BY <2>4, <2>5
  <2>8. Screen(screen)
    BY <2>6, <2>7 DEF Screen
  <2>9. Screen(till)'
    BY <2>1, <2>8 DEF Screen
  <2>10. r.answer.place = till.place /\ till.place \in Places
         /\ (settled => r.answer = AnswerNow(till.place))
    BY <1>0, <1>2 DEF RequestFits
  <2>11. ScreenFits'
    BY <1>0, <2>1, <2>6, <2>7, <2>9, <2>10, SameAnswers DEF ScreenFits
  <2> QED
    BY <1>0, <2>1, <2>7, <2>11, ScreenKeeps
<1> QED
  BY <1>1, <1>2

LEMMA FailKeeps ==
  ASSUME CatalogueInv, NEW r \in loads, NEW outage \in BOOLEAN, Fail(r, outage)
  PROVE  CatalogueInv'
<1>0. UNCHANGED <<catalogue, day, settled>>
  BY DEF Fail
<1>1. CASE Latest(r) /\ outage
  <2>1. PICK n : n = [r EXCEPT !.stage = "RESTORING"]
    OBVIOUS
  <2>2. RequestFits(r)
    BY DEF CatalogueInv
  <2>3. /\ n \in [number : Nat, place : Places, stage : {"ASKED", "ANSWERED", "RESTORING"},
                  answer : {r.answer}]
        /\ n.number = r.number /\ n.place = r.place /\ n.stage = "RESTORING"
        /\ n.answer = r.answer
    BY <2>1, <2>2 DEF RequestFits
  <2>4. RequestFits(n)
    BY <2>2, <2>3 DEF RequestFits, Latest
  <2>5. loads' = (loads \ {r}) \cup {n} /\ till' = till
    BY <1>1, <2>1 DEF Fail, Replace
  <2> QED
    BY <1>0, <2>4, <2>5, RequestKeeps
<1>2. CASE ~ (Latest(r) /\ outage)
  <2>1. loads' = loads \ {r} /\ till' = IF Latest(r) THEN [till EXCEPT !.status = "FAILURE"] ELSE till
    BY <1>2 DEF Fail
  <2>2. CASE Latest(r)
    BY <1>0, <2>1, <2>2, FailureShown
  <2>3. CASE ~ Latest(r)
    BY <1>0, <2>1, <2>3, RequestKeeps
  <2> QED
    BY <2>2, <2>3
<1> QED
  BY <1>1, <1>2

LEMMA RestoreKeeps ==
  ASSUME CatalogueInv, NEW r \in loads, RestoreCopy(r)
  PROVE  CatalogueInv'
<1>0. UNCHANGED <<catalogue, day, settled>> /\ loads' = loads \ {r} /\ Screen(till)
      /\ RequestFits(r) /\ r.place \in Places
  BY DEF RestoreCopy, CatalogueInv, ScreenFits, RequestFits
<1>1. CASE ~ (Latest(r) /\ till.kept[r.place] # NoSnapshot)
  <2>1. till' = [till EXCEPT !.status = "FAILURE"]
    BY <1>1 DEF RestoreCopy
  <2> QED
    BY <1>0, <2>1, FailureShown
<1>2. CASE Latest(r) /\ till.kept[r.place] # NoSnapshot
  <2> DEFINE copy == till.kept[r.place]
             first == [till EXCEPT !.snapshot = copy, !.offline = TRUE]
             screen == [till EXCEPT !.snapshot = copy, !.offline = TRUE, !.status = "READY"]
  <2>1. till' = screen
    BY <1>2 DEF RestoreCopy
  <2>2. copy.place = r.place /\ r.place = till.place
    BY <1>0, <1>2 DEF CatalogueInv, ScreenFits, RequestFits
  <2> HIDE DEF copy
  <2>3. first \in [place : Places \cup {"NONE"}, status : {"IDLE", "LOADING", "READY", "FAILURE"},
                   offline : BOOLEAN, snapshot : {copy}, asked : Nat, kept : {till.kept}]
        /\ first.place = till.place /\ first.asked = till.asked /\ first.offline = TRUE
    BY <1>0 DEF Screen
  <2>4. screen = [first EXCEPT !.status = "READY"]
    OBVIOUS
  <2> HIDE DEF first, screen
  <2>5. /\ screen \in [place : Places \cup {"NONE"},
                       status : {"IDLE", "LOADING", "READY", "FAILURE"},
                       offline : BOOLEAN, snapshot : {copy}, asked : Nat, kept : {till.kept}]
        /\ screen.place = till.place /\ screen.asked = till.asked /\ screen.offline = TRUE
        /\ screen.status = "READY" /\ screen.snapshot = copy /\ screen.kept = till.kept
    BY <2>3, <2>4
  <2>6. Screen(till)'
    BY <1>0, <2>1, <2>5 DEF Screen
  <2>7. ScreenFits'
    BY <1>0, <2>1, <2>2, <2>5, <2>6 DEF CatalogueInv, ScreenFits
  <2> QED
    BY <1>0, <2>1, <2>5, <2>7, ScreenKeeps
<1> QED
  BY <1>1, <1>2

LEMMA ClearKeeps ==
  ASSUME CatalogueInv, ClearTill
  PROVE  CatalogueInv'
<1>0. UNCHANGED <<catalogue, day, settled, loads>> /\ Screen(till) /\ till.asked \in Nat
  BY DEF ClearTill, CatalogueInv, ScreenFits, Screen
<1> DEFINE first == [till EXCEPT !.asked = till.asked + 1, !.status = "IDLE"]
           second == [till EXCEPT !.asked = till.asked + 1, !.status = "IDLE",
                                  !.snapshot = NoSnapshot]
           third == [till EXCEPT !.asked = till.asked + 1, !.status = "IDLE",
                                 !.snapshot = NoSnapshot, !.place = "NONE"]
           screen == [till EXCEPT !.asked = till.asked + 1, !.status = "IDLE",
                                  !.snapshot = NoSnapshot, !.place = "NONE", !.offline = FALSE]
<1>1. till' = screen
  BY DEF ClearTill
<1>2. first \in [place : Places \cup {"NONE"}, status : {"IDLE", "LOADING", "READY", "FAILURE"},
                 offline : BOOLEAN, snapshot : {till.snapshot}, asked : Nat, kept : {till.kept}]
      /\ first.asked = till.asked + 1 /\ first.status = "IDLE"
  <2>1. till.asked + 1 \in Nat
    BY <1>0
  <2>2. PICK number : number = till.asked + 1
    OBVIOUS
  <2>3. first = [till EXCEPT !.asked = number, !.status = "IDLE"]
    BY <2>2
  <2>4. first.asked = number /\ first.status = "IDLE"
    BY <1>0, <2>3 DEF Screen
  <2> HIDE DEF first
  <2>5. first \in [place : Places \cup {"NONE"}, status : {"IDLE", "LOADING", "READY", "FAILURE"},
                   offline : BOOLEAN, snapshot : {till.snapshot}, asked : Nat, kept : {till.kept}]
    BY <1>0, <2>1, <2>2, <2>3 DEF Screen
  <2> QED
    BY <2>2, <2>4, <2>5
<1>3. second = [first EXCEPT !.snapshot = NoSnapshot]
  OBVIOUS
<1> HIDE DEF first, second
<1>4. second \in [place : Places \cup {"NONE"}, status : {"IDLE", "LOADING", "READY", "FAILURE"},
                  offline : BOOLEAN, snapshot : {NoSnapshot}, asked : Nat, kept : {till.kept}]
      /\ second.asked = till.asked + 1 /\ second.status = "IDLE"
  BY <1>2, <1>3
<1>5. third = [second EXCEPT !.place = "NONE"]
  BY DEF second
<1> HIDE DEF third
<1>6. third \in [place : Places \cup {"NONE"}, status : {"IDLE", "LOADING", "READY", "FAILURE"},
                 offline : BOOLEAN, snapshot : {NoSnapshot}, asked : Nat, kept : {till.kept}]
      /\ third.asked = till.asked + 1 /\ third.status = "IDLE"
  BY <1>4, <1>5
<1>7. screen = [third EXCEPT !.offline = FALSE]
  BY DEF third
<1> HIDE DEF screen
<1>8. screen \in [place : Places \cup {"NONE"}, status : {"IDLE", "LOADING", "READY", "FAILURE"},
                  offline : BOOLEAN, snapshot : {NoSnapshot}, asked : Nat, kept : {till.kept}]
      /\ screen.asked = till.asked + 1 /\ screen.status = "IDLE"
      /\ screen.snapshot = NoSnapshot /\ screen.kept = till.kept
  BY <1>6, <1>7
<1>9. Screen(till)'
  BY <1>0, <1>1, <1>8 DEF Screen
<1>10. ScreenFits'
  BY <1>1, <1>8, <1>9 DEF CatalogueInv, ScreenFits
<1>11. ASSUME NEW r \in loads PROVE RequestFits(r)'
  BY <1>0, <1>1, <1>8, NoLongerLatest DEF CatalogueInv
<1> QED
  BY <1>0, <1>10, <1>11 DEF CatalogueInv, RowsTyped

LEMMA CatalogueStarts == CatalogueInit => CatalogueInv
<1> SUFFICES ASSUME CatalogueInit PROVE CatalogueInv
  OBVIOUS
<1>1. RowsTyped
  BY CatalogueAssumption DEF CatalogueInit, RowsTyped
<1>2. /\ till = [place |-> "NONE", status |-> "IDLE", offline |-> FALSE, snapshot |-> NoSnapshot,
                 asked |-> 0, kept |-> [place \in Places |-> NoSnapshot]]
      /\ loads = {} /\ settled = FALSE
  BY DEF CatalogueInit
<1>3. ScreenFits
  BY <1>2 DEF ScreenFits, Screen
<1> QED
  BY <1>1, <1>2, <1>3 DEF CatalogueInv

LEMMA CatalogueStays == CatalogueInv /\ [CatalogueNext]_catalogueVars => CatalogueInv'
<1> SUFFICES ASSUME CatalogueInv, [CatalogueNext]_catalogueVars PROVE CatalogueInv'
  OBVIOUS
<1>1. CASE Manage
  BY <1>1, ManageKeeps, Unsettled DEF Unsettles, CatalogueInv
<1>2. CASE TimePasses
  BY <1>2, Unsettled DEF TimePasses, CatalogueInv, RowsTyped
<1>3. CASE \E place \in Places : Load(place)
  BY <1>3, LoadKeeps
<1>4. CASE \E r \in loads : Query(r) \/ RestoreCopy(r)
  BY <1>4, QueryKeeps, RestoreKeeps
<1>5. CASE \E r \in loads, saved \in BOOLEAN : Arrive(r, saved)
  BY <1>5, ArriveKeeps
<1>6. CASE \E r \in loads, outage \in BOOLEAN : Fail(r, outage)
  BY <1>6, FailKeeps
<1>7. CASE ClearTill
  BY <1>7, ClearKeeps
<1>8. CASE UNCHANGED catalogueVars
  <2>1. UNCHANGED <<catalogue, day, till, loads, settled>>
    BY <1>8 DEF catalogueVars
  <2>2. ScreenFits' /\ RowsTyped'
    BY <2>1, SameAnswers DEF CatalogueInv, ScreenFits, Screen, RowsTyped
  <2>3. \A r \in loads : RequestFits(r)'
    BY <2>1, StillFits DEF CatalogueInv
  <2> QED
    BY <2>1, <2>2, <2>3 DEF CatalogueInv
<1> QED
  BY <1>1, <1>2, <1>3, <1>4, <1>5, <1>6, <1>7, <1>8 DEF CatalogueNext

\* A till that shows the catalogue as it loaded it, and nothing changed since, has a
\* price for what an order accepts and of the amount the order charges, 0 included, in
\* the order's currency if the place's lists are in one; and it never shows another
\* place's catalogue (CatalogQueryService, OrderPricingService, CatalogController).
THEOREM ShownPricesAreCharged == CatalogueSpec => []ShownIsCharged
<1>1. CatalogueInit => CatalogueInv
  BY CatalogueStarts
<1>2. CatalogueInv /\ [CatalogueNext]_catalogueVars => CatalogueInv'
  BY CatalogueStays
<1>3. CatalogueInv => ShownIsCharged
  <2> SUFFICES ASSUME CatalogueInv PROVE ShownIsCharged
    OBVIOUS
  <2>1. till.snapshot # NoSnapshot => till.snapshot.place = till.place
    BY DEF CatalogueInv, ScreenFits
  <2>2. ASSUME settled, till.status = "READY", ~ till.offline,
               NEW p \in Products, NEW key \in Keys, ~ Odd(p)
        PROVE  LET shown == ShownPrice(p, key)
                   charged == ChargedPrice(till.place, p, key) IN
               shown.amount = charged.amount /\ (OneCurrency(till.place) => shown = charged)
    <3>1. till.snapshot = AnswerNow(till.place) /\ till.place \in Places /\ RowsTyped
      BY <2>2 DEF CatalogueInv, ScreenFits
    <3> QED
      BY <2>2, <3>1, AnswerIsCharged
  <2> QED
    BY <2>1, <2>2 DEF ShownIsCharged
<1> QED
  BY <1>1, <1>2, <1>3, PTL DEF CatalogueSpec

-----------------------------------------------------------------------------
(***************************************************************************)
(* Orders composed at the tills.                                           *)
(*                                                                         *)
(* What the lines of a copy are worth depends on its version only: a       *)
(* header is read before the lines, a version never returns, and so a copy *)
(* whose version the order still has shows the lines the order still has,  *)
(* whatever happened between the two queries.  Requests under way carry    *)
(* such copies as well.                                                    *)
(***************************************************************************)
Line == [item : Int, quantity : Nat]
SheetRow == [status : {"NONE", "OPEN", "HELD", "CANCELLED"}, version : Nat, draft : Int,
             lines : SUBSET Line]
OrderCopy == [order : OrderRows \cup {0}, status : {"NONE", "OPEN", "HELD", "CANCELLED"},
              version : Nat, lines : SUBSET Line]
Kinds == Reads \cup {"CREATE", "ADD", "UPDATE", "DELETE", "HOLD", "RESUME", "CANCEL"}
Stages == {"SENT", "INSERT", "MADE", "HEADER", "CONFLICT"}
CallRow == [device : OrderDevices, kind : Kinds, order : OrderRows \cup {0}, expected : Nat,
            draft : Nat, item : Int, seen : SUBSET Line, stage : Stages, awaited : BOOLEAN,
            copy : OrderCopy]
CounterRow == [draft : Nat, active : OrderCopy]

\* A copy of an order, made of these rows or of earlier ones.
CopyFits(rows, order, version, lines) ==
  /\ order \in OrderRows
  /\ version <= rows[order].version
  /\ version = rows[order].version => lines = rows[order].lines

CallFits(rows, c) ==
  /\ c.kind = "CREATE" => c.draft # 0
  /\ IsChange(c) => CopyFits(rows, c.order, c.expected, c.seen)
  /\ c.stage \in {"MADE", "HEADER"} => c.order \in OrderRows
  /\ c.stage = "HEADER" =>
       /\ c.copy.order = c.order /\ c.copy.version <= rows[c.order].version

TillsTyped ==
  /\ sheet \in [OrderRows -> SheetRow]
  /\ calls \subseteq CallRow
  /\ counter \in [OrderDevices -> CounterRow]
  /\ generated \in Nat

TillsInv ==
  /\ TillsTyped
  /\ \A o \in OrderRows : sheet[o].status = "NONE" => sheet[o] = NoSheet
  /\ \A c \in calls : CallFits(sheet, c)
  /\ \A d \in OrderDevices :
       Active(d) # NoOrderCopy =>
         CopyFits(sheet, Active(d).order, Active(d).version, Active(d).lines)
  /\ DraftsBecomeOneOrder

\* An order that changes gets a version it did not have.
VersionsMove ==
  \A o \in OrderRows :
    /\ sheet[o].version <= sheet'[o].version
    /\ sheet'[o] # sheet[o] => sheet[o].version < sheet'[o].version

\* Then what fitted still does.
LEMMA CopiesStillFit ==
  ASSUME TillsTyped, sheet' \in [OrderRows -> SheetRow], VersionsMove,
         NEW order, NEW version \in Nat, NEW lines, CopyFits(sheet, order, version, lines)
  PROVE  CopyFits(sheet', order, version, lines)
<1>1. sheet[order].version \in Nat /\ sheet'[order].version \in Nat /\ order \in OrderRows
  BY DEF TillsTyped, SheetRow, CopyFits
<1> QED
  BY <1>1 DEF CopyFits, VersionsMove

LEMMA CallsStillFit ==
  ASSUME TillsTyped, sheet' \in [OrderRows -> SheetRow], VersionsMove,
         NEW c \in CallRow, CallFits(sheet, c)
  PROVE  CallFits(sheet', c)
<1>1. c.expected \in Nat /\ c.copy.version \in Nat
  BY DEF CallRow, OrderCopy
<1>2. IsChange(c) => CopyFits(sheet', c.order, c.expected, c.seen)
  BY <1>1, CopiesStillFit DEF CallFits
<1>3. c.stage = "HEADER" => c.copy.version <= sheet'[c.order].version
  <2> SUFFICES ASSUME c.stage = "HEADER" PROVE c.copy.version <= sheet'[c.order].version
    OBVIOUS
  <2>1. c.order \in OrderRows /\ c.copy.version <= sheet[c.order].version
    BY DEF CallFits
  <2>2. sheet[c.order].version \in Nat /\ sheet'[c.order].version \in Nat
    BY <2>1 DEF TillsTyped, SheetRow
  <2> QED
    BY <1>1, <2>1, <2>2 DEF VersionsMove
<1> QED
  BY <1>2, <1>3 DEF CallFits

\* Most steps leave the orders alone, and send or answer one request.
LEMMA OneMoreCall ==
  ASSUME TillsInv, sheet' = sheet, generated' \in Nat,
         NEW n \in CallRow, CallFits(sheet, n), calls' \subseteq calls \cup {n},
         counter' = counter
  PROVE  TillsInv'
BY DEF TillsInv, TillsTyped, DraftsBecomeOneOrder, Written, Active

LEMMA NoMoreCalls ==
  ASSUME TillsInv, sheet' = sheet, generated' \in Nat, calls' \subseteq calls, counter' = counter
  PROVE  TillsInv'
BY DEF TillsInv, TillsTyped, DraftsBecomeOneOrder, Written, Active

\* A till that holds something else.
LEMMA HoldsAnother ==
  ASSUME TillsInv, sheet' = sheet, generated' \in Nat, calls' \subseteq CallRow,
         \A c \in calls' : CallFits(sheet, c),
         NEW d \in OrderDevices, NEW draft \in Nat, NEW copy \in OrderCopy,
         Holding(d, draft, copy),
         copy # NoOrderCopy => CopyFits(sheet, copy.order, copy.version, copy.lines)
  PROVE  TillsInv'
<1> DEFINE row == [draft |-> draft, active |-> copy]
<1>1. row \in CounterRow /\ row.active = copy
  BY DEF CounterRow
<1>2. counter' = [counter EXCEPT ![d] = row]
  BY DEF Holding
<1> HIDE DEF row
<1>3. counter' \in [OrderDevices -> CounterRow]
  BY <1>1, <1>2 DEF TillsInv, TillsTyped
<1>4. \A e \in OrderDevices : counter'[e].active = IF e = d THEN copy ELSE counter[e].active
  BY <1>1, <1>2 DEF TillsInv, TillsTyped
<1> QED
  BY <1>3, <1>4 DEF TillsInv, TillsTyped, DraftsBecomeOneOrder, Written, Active

\* The requests tills send are of their type.
LEMMA CallTypes ==
  ASSUME NEW d \in OrderDevices, NEW kind \in Kinds
  PROVE  /\ Call(d, kind) \in CallRow
         /\ Call(d, kind).kind = kind /\ Call(d, kind).stage = "SENT"
BY DEF Call, CallRow, Stages, NoOrderCopy, OrderCopy

LEMMA ChangeTypes ==
  ASSUME NEW d \in OrderDevices, NEW kind \in Kinds, NEW copy \in OrderCopy, NEW item \in Int
  PROVE  /\ ChangeOf(d, kind, copy, item) \in CallRow
         /\ ChangeOf(d, kind, copy, item).kind = kind
         /\ ChangeOf(d, kind, copy, item).stage = "SENT"
         /\ ChangeOf(d, kind, copy, item).order = copy.order
         /\ ChangeOf(d, kind, copy, item).expected = copy.version
         /\ ChangeOf(d, kind, copy, item).seen = copy.lines
BY CallTypes DEF ChangeOf, Call, CallRow, Stages, NoOrderCopy, OrderCopy

\* A change of a copy that fits fits.
LEMMA ChangeFits ==
  ASSUME NEW d \in OrderDevices, NEW kind \in Kinds \ (Reads \cup {"CREATE"}),
         NEW copy \in OrderCopy, NEW item \in Int,
         CopyFits(sheet, copy.order, copy.version, copy.lines)
  PROVE  /\ ChangeOf(d, kind, copy, item) \in CallRow
         /\ CallFits(sheet, ChangeOf(d, kind, copy, item))
<1> DEFINE n == ChangeOf(d, kind, copy, item)
<1>1. /\ n \in CallRow /\ n.kind = kind /\ n.stage = "SENT" /\ n.order = copy.order
      /\ n.expected = copy.version /\ n.seen = copy.lines
  BY ChangeTypes
<1> HIDE DEF n
<1>2. CallFits(sheet, n)
  BY <1>1 DEF CallFits, IsChange
<1> QED
  BY <1>1, <1>2 DEF n

\* The first half of an answer fits.
LEMMA HeaderFits ==
  ASSUME TillsTyped, NEW c \in CallRow, NEW o \in OrderRows, c.kind = "CREATE" => c.draft # 0
  PROVE  HeaderRead(c, o) \in CallRow /\ CallFits(sheet, HeaderRead(c, o))
<1> DEFINE first == [c.copy EXCEPT !.order = o, !.status = sheet[o].status]
           copy == [c.copy EXCEPT !.order = o, !.status = sheet[o].status,
                                  !.version = sheet[o].version]
           n == [c EXCEPT !.order = o, !.stage = "HEADER", !.copy = copy]
<1>0. sheet[o] \in SheetRow /\ c.copy \in OrderCopy
  BY DEF TillsTyped, CallRow
<1>2. HeaderRead(c, o) = n
  BY DEF HeaderRead, CallRow
<1>1. copy \in OrderCopy /\ copy.order = o /\ copy.version = sheet[o].version
  <2>1. first \in OrderCopy /\ first.order = o
    BY <1>0 DEF OrderCopy, SheetRow
  <2>2. copy = [first EXCEPT !.version = sheet[o].version]
    OBVIOUS
  <2> HIDE DEF first, copy
  <2> QED
    BY <1>0, <2>1, <2>2 DEF OrderCopy, SheetRow
<1>3. copy.order = o /\ copy.version = sheet[o].version /\ sheet[o].version \in Nat
  BY <1>0, <1>1 DEF SheetRow
<1> HIDE DEF copy
<1>4. /\ n \in CallRow /\ n.kind = c.kind /\ n.draft = c.draft /\ n.order = o
      /\ n.stage = "HEADER" /\ n.copy = copy
  BY <1>1 DEF CallRow, Stages
<1> HIDE DEF n
<1>5. CallFits(sheet, n)
  BY <1>3, <1>4 DEF CallFits, IsChange
<1> QED
  BY <1>2, <1>4, <1>5

\* A draft is sent to become an order under its own identifier.
DraftCall(d, draft, item) == [Call(d, "CREATE") EXCEPT !.draft = draft, !.item = item]

LEMMA CreateFits ==
  ASSUME NEW d \in OrderDevices, NEW draft \in Nat \ {0}, NEW item \in Int
  PROVE  DraftCall(d, draft, item) \in CallRow /\ CallFits(sheet, DraftCall(d, draft, item))
<1> DEFINE n == DraftCall(d, draft, item)
<1>1. Call(d, "CREATE") \in CallRow /\ Call(d, "CREATE").kind = "CREATE"
      /\ Call(d, "CREATE").stage = "SENT"
  BY CallTypes DEF Kinds
<1>2. n \in CallRow /\ n.kind = "CREATE" /\ n.draft = draft /\ n.stage = "SENT"
  BY <1>1 DEF CallRow, DraftCall
<1> HIDE DEF n
<1>3. CallFits(sheet, n)
  BY <1>2 DEF CallFits, IsChange
<1> QED
  BY <1>2, <1>3 DEF n

\* A request that goes on: nothing the till is told of before its header is read.
LEMMA StageFits ==
  ASSUME NEW rows, NEW c \in CallRow, NEW stage \in {"INSERT", "MADE", "CONFLICT"},
         CallFits(rows, c), stage = "MADE" => c.order \in OrderRows
  PROVE  [c EXCEPT !.stage = stage] \in CallRow /\ CallFits(rows, [c EXCEPT !.stage = stage])
<1> DEFINE n == [c EXCEPT !.stage = stage]
<1>1. /\ n \in CallRow /\ n.kind = c.kind /\ n.order = c.order /\ n.stage = stage
      /\ n.draft = c.draft
  BY DEF CallRow, Stages
<1> HIDE DEF n
<1>2. CallFits(rows, n)
  BY <1>1 DEF CallFits, IsChange
<1> QED
  BY <1>1, <1>2 DEF n

LEMMA MadeFits ==
  ASSUME NEW rows, NEW c \in CallRow, NEW o \in OrderRows, c.kind = "CREATE", c.draft # 0
  PROVE  /\ [c EXCEPT !.stage = "MADE", !.order = o] \in CallRow
         /\ CallFits(rows, [c EXCEPT !.stage = "MADE", !.order = o])
<1> DEFINE n == [c EXCEPT !.stage = "MADE", !.order = o]
<1>1. n \in CallRow /\ n.kind = "CREATE" /\ n.order = o /\ n.stage = "MADE" /\ n.draft = c.draft
  BY DEF CallRow, Stages
<1> HIDE DEF n
<1>2. CallFits(rows, n)
  BY <1>1 DEF CallFits, IsChange
<1> QED
  BY <1>1, <1>2 DEF n

\* What the cashier does keeps all that.
LEMMA CashierKeeps ==
  ASSUME TillsInv, NEW d \in OrderDevices,
         \/ StartOrderDraft(d) \/ DiscardView(d)
         \/ AddCatalogItem(d) \/ AddFreeAmount(d) \/ UpdateLine(d) \/ DeleteLine(d)
         \/ HoldActiveOrder(d) \/ CancelActiveOrder(d)
         \/ \E o \in OrderRows : SelectOrder(d, o) \/ ResumeOrder(d, o)
         \/ RefreshActive(d) \/ FilterOut(d)
  PROVE  TillsInv'
<1>0. /\ counter[d] \in CounterRow /\ Draft(d) \in Nat /\ Active(d) \in OrderCopy
      /\ Fresh \in Nat \ {0} /\ NoOrderCopy \in OrderCopy
  BY DEF TillsInv, TillsTyped, CounterRow, Draft, Active, Fresh, NoOrderCopy, OrderCopy
<1>t. calls \subseteq CallRow /\ (\A c \in calls : CallFits(sheet, c))
  BY DEF TillsInv, TillsTyped
<1>a. Active(d) # NoOrderCopy =>
        CopyFits(sheet, Active(d).order, Active(d).version, Active(d).lines)
  BY DEF TillsInv
<1>s. Active(d).status # "NONE" => Active(d) # NoOrderCopy
  BY DEF NoOrderCopy
<1>1. CASE StartOrderDraft(d)
  BY <1>1, <1>0, <1>t, HoldsAnother DEF StartOrderDraft
<1>2. CASE DiscardView(d)
  BY <1>2, <1>0, <1>t, HoldsAnother DEF DiscardView, TillsInv, TillsTyped
<1>3. CASE FilterOut(d)
  BY <1>3, <1>0, <1>t, HoldsAnother DEF FilterOut, TillsInv, TillsTyped
<1>4. CASE AddCatalogItem(d)
  <2>1. CASE Active(d) = NoOrderCopy
    <3>1. Draft(d) \in Nat \ {0}
      BY <1>4, <1>0, <2>1 DEF AddCatalogItem, NoOrderCopy
    <3>2. PICK n : n = DraftCall(d, Draft(d), Fresh)
      OBVIOUS
    <3>0. Fresh \in Int
      BY <1>0
    <3>3. n \in CallRow /\ CallFits(sheet, n)
      BY <3>0, <3>1, <3>2, CreateFits
    <3>4. calls' = calls \cup {n} /\ sheet' = sheet /\ counter' = counter /\ generated' \in Nat
      BY <1>0, <1>4, <2>1, <3>2 DEF AddCatalogItem, Send, DraftCall
    <3> QED
      BY <3>3, <3>4, OneMoreCall
  <2>2. CASE Active(d) # NoOrderCopy
    <3>2. PICK n : n = ChangeOf(d, "ADD", Active(d), Fresh)
      OBVIOUS
    <3>3. n \in CallRow /\ CallFits(sheet, n)
      BY <1>0, <1>a, <2>2, <3>2, ChangeFits DEF Kinds, Reads
    <3>4. calls' = calls \cup {n} /\ sheet' = sheet /\ counter' = counter /\ generated' \in Nat
      BY <1>0, <1>4, <2>2, <3>2 DEF AddCatalogItem, Send
    <3> QED
      BY <3>3, <3>4, OneMoreCall
  <2> QED
    BY <2>1, <2>2
<1>5. CASE AddFreeAmount(d)
  <2>1. PICK n : n = DraftCall(d, Fresh, Fresh + 1)
    OBVIOUS
  <2>0. Fresh + 1 \in Int
    BY <1>0
  <2>2. n \in CallRow /\ CallFits(sheet, n)
    BY <1>0, <2>0, <2>1, CreateFits
  <2>3. /\ calls' = calls \cup {n} /\ sheet' = sheet /\ generated' \in Nat
        /\ Holding(d, Fresh, NoOrderCopy)
    BY <1>0, <1>5, <2>1 DEF AddFreeAmount, Send, DraftCall
  <2> QED
    BY <1>0, <1>t, <2>2, <2>3, HoldsAnother
<1>6. ASSUME NEW kind \in Kinds \ (Reads \cup {"CREATE"}), NEW item \in Int,
             Active(d).status # "NONE", TapOnActive(d, kind, item)
      PROVE  TillsInv'
  <2>1. PICK n : n = ChangeOf(d, kind, Active(d), item)
    OBVIOUS
  <2>2. n \in CallRow /\ CallFits(sheet, n)
    BY <1>0, <1>a, <1>s, <1>6, <2>1, ChangeFits
  <2>3. calls' = calls \cup {n} /\ sheet' = sheet /\ counter' = counter /\ generated' \in Nat
    BY <1>0, <1>6, <2>1 DEF TapOnActive, Send
  <2> QED
    BY <2>2, <2>3, OneMoreCall
<1>7. CASE UpdateLine(d) \/ DeleteLine(d) \/ HoldActiveOrder(d) \/ CancelActiveOrder(d)
  <2>1. \A line \in Active(d).lines : line.item \in Int
    BY <1>0 DEF OrderCopy, Line
  <2>2. {"UPDATE", "DELETE", "HOLD", "CANCEL"} \subseteq Kinds \ (Reads \cup {"CREATE"})
    BY DEF Kinds, Reads
  <2>3. CASE UpdateLine(d)
    BY <1>6, <2>1, <2>2, <2>3 DEF UpdateLine
  <2>4. CASE DeleteLine(d)
    BY <1>6, <2>1, <2>2, <2>4 DEF DeleteLine
  <2>5. CASE HoldActiveOrder(d)
    BY <1>6, <2>2, <2>5 DEF HoldActiveOrder
  <2>6. CASE CancelActiveOrder(d)
    BY <1>6, <2>2, <2>6 DEF CancelActiveOrder
  <2> QED
    BY <1>7, <2>3, <2>4, <2>5, <2>6
<1>8. ASSUME NEW kind \in Reads, NEW o \in OrderRows, sheet' = sheet, counter' = counter,
             generated' = generated, Send(ReadOf(d, kind, o))
      PROVE  TillsInv'
  <2>1. PICK n : n = ReadOf(d, kind, o)
    OBVIOUS
  <2>2. Call(d, kind) \in CallRow /\ Call(d, kind).kind = kind /\ kind # "CREATE"
    BY CallTypes DEF Kinds, Reads
  <2>3. n \in CallRow /\ CallFits(sheet, n)
    BY <2>1, <2>2, HeaderFits DEF ReadOf, TillsInv
  <2> QED
    BY <1>8, <2>1, <2>3, OneMoreCall DEF Send, TillsInv, TillsTyped
<1>9. ASSUME NEW o \in OrderRows, SelectOrder(d, o) \/ ResumeOrder(d, o) PROVE TillsInv'
  BY <1>8, <1>9 DEF SelectOrder, ResumeOrder, Reads
<1>10. CASE RefreshActive(d)
  BY <1>8, <1>a, <1>10 DEF RefreshActive, Reads, CopyFits
<1> QED
  BY <1>1, <1>2, <1>3, <1>4, <1>5, <1>7, <1>9, <1>10

\* The row of a draft is a row, and the draft's own when there is one.
LEMMA RowOfDraft ==
  ASSUME TillsInv, Cardinality(Written) < Cardinality(OrderRows), NEW draft
  PROVE  /\ RowFor(draft) \in OrderRows
         /\ (\E w \in Written : sheet[w].draft = draft) => sheet[RowFor(draft)].draft = draft
<1>0. MaxOrders \in Nat
  BY OrderTillsAssumption
<1>a. /\ IsFiniteSet(1..MaxOrders)
      /\ Cardinality(1..MaxOrders) = IF 1 > MaxOrders THEN 0 ELSE MaxOrders - 1 + 1
  BY <1>0, FS_Interval
<1>1. Cardinality(OrderRows) = MaxOrders /\ IsFiniteSet(OrderRows)
  BY <1>0, <1>a DEF OrderRows
<1>2. Written \subseteq OrderRows
  BY DEF Written
<1>3. IsFiniteSet(Written) /\ Cardinality(Written) \in Nat
  BY <1>1, <1>2, FS_Subset, FS_CardinalityType
<1>4. Cardinality(Written) + 1 \in OrderRows
  BY <1>0, <1>1, <1>3 DEF OrderRows
<1>5. \E o \in OrderRows :
        IF \E w \in Written : sheet[w].draft = draft
          THEN sheet[o].draft = draft
          ELSE o = Cardinality(Written) + 1
  BY <1>2, <1>4
<1>6. /\ RowFor(draft) \in OrderRows
      /\ IF \E w \in Written : sheet[w].draft = draft
           THEN sheet[RowFor(draft)].draft = draft
           ELSE RowFor(draft) = Cardinality(Written) + 1
  BY <1>5 DEF RowFor
<1> QED
  BY <1>6

\* What is left of a request has to fit, and nothing else.
LEMMA ApiReads ==
  ASSUME TillsInv, NEW c \in calls, NEW n \in CallRow, CallFits(sheet, n),
         calls' = (calls \ {c}) \cup {n} \/ calls' = calls \ {c} \/ Become(c, n),
         UNCHANGED <<sheet, counter, generated>>
  PROVE  TillsInv'
<1>1. calls' \subseteq calls \cup {n}
  BY DEF Become
<1>2. generated' \in Nat
  BY DEF TillsInv, TillsTyped
<1> QED
  BY <1>1, <1>2, OneMoreCall

\* After a change of the orders that moves versions, a request that fits still does.
LEMMA SheetMoves ==
  ASSUME TillsInv, NEW c \in calls, NEW n \in CallRow, CallFits(sheet', n), Become(c, n),
         UNCHANGED <<counter, generated>>, sheet' \in [OrderRows -> SheetRow], VersionsMove,
         \A o \in OrderRows : sheet'[o].status = "NONE" => sheet'[o] = NoSheet,
         DraftsBecomeOneOrder'
  PROVE  TillsInv'
<1>1. \A x \in calls' : x \in CallRow /\ CallFits(sheet', x)
  <2> SUFFICES ASSUME NEW x \in calls' PROVE x \in CallRow /\ CallFits(sheet', x)
    OBVIOUS
  <2>1. x = n \/ x \in calls
    BY DEF Become
  <2>2. CASE x \in calls
    BY <2>2, CallsStillFit DEF TillsInv, TillsTyped
  <2> QED
    BY <2>1, <2>2
<1>2. ASSUME NEW d \in OrderDevices, Active(d)' # NoOrderCopy
      PROVE  CopyFits(sheet', Active(d)'.order, Active(d)'.version, Active(d)'.lines)
  <2>1. Active(d)' = Active(d) /\ Active(d) \in OrderCopy
    BY DEF Active, TillsInv, TillsTyped, CounterRow
  <2>2. Active(d).version \in Nat
    BY <2>1 DEF OrderCopy
  <2>3. CopyFits(sheet, Active(d).order, Active(d).version, Active(d).lines)
    BY <1>2, <2>1 DEF TillsInv
  <2>4. CopyFits(sheet', Active(d).order, Active(d).version, Active(d).lines)
    BY <2>2, <2>3, CopiesStillFit DEF TillsInv
  <2> QED
    BY <2>1, <2>4
<1>3. TillsTyped'
  BY <1>1 DEF TillsInv, TillsTyped
<1>4. \A d \in OrderDevices : Active(d)' # NoOrderCopy =>
        CopyFits(sheet, Active(d).order, Active(d).version, Active(d).lines)'
  BY <1>2 DEF CopyFits
<1>5. \A x \in calls' : CallFits(sheet, x)'
  BY <1>1 DEF CallFits, CopyFits, IsChange
<1> QED
  BY <1>3, <1>4, <1>5 DEF TillsInv

\* A draft is looked for, or inserted.
LEMMA DraftKeeps ==
  ASSUME TillsInv, NEW c \in calls, LookForDraft(c) \/ InsertOrder(c)
  PROVE  TillsInv'
<1>0. c \in CallRow /\ CallFits(sheet, c) /\ c.draft \in Nat /\ c.kind = "CREATE" /\ c.draft # 0
  BY DEF TillsInv, TillsTyped, LookForDraft, InsertOrder, CallFits, CallRow
<1>1. CASE LookForDraft(c)
  <2> DEFINE found == {o \in Written : sheet[o].draft = c.draft}
  <2>1. CASE found = {}
    <3>1. PICK n : n = [c EXCEPT !.stage = "INSERT"]
      OBVIOUS
    <3>2. n \in CallRow /\ CallFits(sheet, n)
      BY <1>0, <3>1, StageFits
    <3>3. calls' = (calls \ {c}) \cup {n} /\ UNCHANGED <<sheet, counter, generated>>
      BY <1>1, <2>1, <3>1 DEF LookForDraft
    <3> QED
      BY <3>2, <3>3, ApiReads
  <2>2. CASE found # {}
    <3>1. PICK o : o = CHOOSE x \in found : TRUE
      OBVIOUS
    <3>2. o \in OrderRows
      BY <2>2, <3>1 DEF Written
    <3>3. PICK n : n = [c EXCEPT !.stage = "MADE", !.order = o]
      OBVIOUS
    <3>4. n \in CallRow /\ CallFits(sheet, n)
      BY <1>0, <3>2, <3>3, MadeFits
    <3>5. /\ calls' = (calls \ {c}) \cup {n} \/ calls' = calls \ {c}
          /\ UNCHANGED <<sheet, counter, generated>>
      BY <1>1, <2>2, <3>1, <3>3 DEF LookForDraft
    <3> QED
      BY <3>4, <3>5, ApiReads
  <2> QED
    BY <2>1, <2>2
<1>2. CASE InsertOrder(c)
  <2>1. PICK o : o = RowFor(c.draft)
    OBVIOUS
  <2>2. o \in OrderRows /\ ((\E w \in Written : sheet[w].draft = c.draft) => sheet[o].draft = c.draft)
    BY <1>2, <2>1, RowOfDraft DEF InsertOrder
  <2>3. PICK n : n = [c EXCEPT !.stage = "MADE", !.order = o]
    OBVIOUS
  <2>4. n \in CallRow /\ CallFits(sheet', n)
    BY <1>0, <2>2, <2>3, MadeFits
  <2>5. Become(c, n) /\ UNCHANGED <<counter, generated>>
    BY <1>2, <2>1, <2>3 DEF InsertOrder
  <2> DEFINE new == [status |-> "OPEN", version |-> 1, draft |-> c.draft, lines |-> {}]
  <2>6. sheet' = [sheet EXCEPT ![o] = IF sheet[o].status # "NONE" THEN sheet[o] ELSE new]
    BY <1>2, <2>1 DEF InsertOrder
  <2>7. new \in SheetRow /\ new.status = "OPEN" /\ new.version = 1 /\ new.draft = c.draft
    BY <1>0 DEF SheetRow
  <2> HIDE DEF new
  <2>8. sheet \in [OrderRows -> SheetRow] /\ sheet' \in [OrderRows -> SheetRow]
    BY <2>2, <2>6, <2>7 DEF TillsInv, TillsTyped
  <2>9. CASE sheet[o].status # "NONE"
    <3>1. sheet' = sheet
      BY <2>6, <2>8, <2>9
    <3>2. CallFits(sheet, n)
      BY <1>0, <2>2, <2>3, MadeFits
    <3> QED
      BY <2>4, <2>5, <3>1, <3>2, ApiReads
  <2>10. CASE sheet[o].status = "NONE"
    <3>1. sheet[o] = NoSheet /\ sheet[o].version = 0 /\ sheet[o].draft = 0
      BY <2>2, <2>10 DEF TillsInv, NoSheet
    <3>2. \A p \in OrderRows : sheet'[p] = IF p = o THEN new ELSE sheet[p]
      BY <2>6, <2>8, <2>10
    <3>3. VersionsMove
      BY <2>2, <2>7, <2>8, <3>1, <3>2 DEF VersionsMove, SheetRow
    <3>4. \A p \in OrderRows : sheet'[p].status = "NONE" => sheet'[p] = NoSheet
      BY <2>7, <3>2 DEF TillsInv
    <3>5. \A w \in Written : sheet[w].draft # c.draft
      BY <1>0, <2>2, <3>1
    <3>6. Written' = Written \cup {o}
      BY <2>2, <2>7, <3>2 DEF Written
    <3>7. Written \subseteq OrderRows /\ o \notin Written
      BY <2>10 DEF Written
    <3>8. DraftsBecomeOneOrder'
      BY <2>2, <2>7, <3>2, <3>5, <3>6, <3>7 DEF TillsInv, DraftsBecomeOneOrder
    <3> QED
      BY <2>4, <2>5, <2>8, <3>3, <3>4, <3>8, SheetMoves
  <2> QED
    BY <2>9, <2>10
<1> QED
  BY <1>1, <1>2

\* A change a till was allowed to make: the order gets another version, and its
\* rows are rows.
LEMMA ChangeKeeps ==
  ASSUME TillsInv, NEW c \in calls, MakeChange(c)
  PROVE  TillsInv'
<1>0. /\ c \in CallRow /\ CallFits(sheet, c) /\ IsChange(c)
      /\ c.order \in OrderRows /\ c.item \in Int
      /\ c.kind \in {"ADD", "UPDATE", "DELETE", "HOLD", "RESUME", "CANCEL"}
  BY DEF TillsInv, TillsTyped, MakeChange, CallFits, CopyFits, CallRow, IsChange, Kinds
<1>1. PICK o : o = c.order
  OBVIOUS
<1>2. o \in OrderRows /\ sheet[o] \in SheetRow /\ sheet \in [OrderRows -> SheetRow]
  BY <1>0, <1>1 DEF TillsInv, TillsTyped
<1>3. sheet[o].status \in {"OPEN", "HELD"}
  BY <1>0, <1>1 DEF MakeChange, Permitted
<1>4. PICK lines : lines = LinesAfter(c)
  OBVIOUS
<1>5. lines \in SUBSET Line
  <2>1. {line \in sheet[c.order].lines : line.item # c.item} \subseteq Line
    BY <1>1, <1>2 DEF SheetRow
  <2>2. [item |-> c.item, quantity |-> 1] \in Line /\ [item |-> c.item, quantity |-> 2] \in Line
    BY <1>0 DEF Line
  <2>3. sheet[c.order].lines \subseteq Line
    BY <1>1, <1>2 DEF SheetRow
  <2> QED
    BY <1>0, <1>4, <2>1, <2>2, <2>3 DEF LinesAfter
<1>6. PICK status : status = StatusAfterChange(c)
  OBVIOUS
<1>7. status \in {"OPEN", "HELD", "CANCELLED"}
  BY <1>0, <1>6 DEF StatusAfterChange
<1>8. PICK version : version = sheet[o].version + 1
  OBVIOUS
<1>9. version \in Nat /\ sheet[o].version < version /\ sheet[o].version \in Nat
  BY <1>2, <1>8 DEF SheetRow
<1> DEFINE first == [sheet[o] EXCEPT !.version = version, !.lines = lines]
           row == [first EXCEPT !.status = status]
<1>10. first \in SheetRow /\ first.version = version /\ first.draft = sheet[o].draft
  BY <1>2, <1>5, <1>9 DEF SheetRow
<1>11. sheet' = [sheet EXCEPT ![o] = row]
  <2>1. sheet' = [sheet EXCEPT ![o].version = version, ![o].lines = lines, ![o].status = status]
    BY <1>1, <1>4, <1>6, <1>8 DEF MakeChange, NextVersion
  <2> QED
    BY <1>2, <2>1
<1> HIDE DEF first
<1>12. /\ row \in SheetRow /\ row.version = version /\ row.draft = sheet[o].draft
       /\ row.status = status
  BY <1>7, <1>10 DEF SheetRow
<1> HIDE DEF row
<1>13. sheet' \in [OrderRows -> SheetRow]
  BY <1>2, <1>11, <1>12
<1>14. \A p \in OrderRows : sheet'[p] = IF p = o THEN row ELSE sheet[p]
  BY <1>2, <1>11
<1>15. \A p \in OrderRows : sheet[p].version \in Nat
  BY DEF TillsInv, TillsTyped, SheetRow
<1>16. VersionsMove
  BY <1>9, <1>12, <1>14, <1>15 DEF VersionsMove
<1>17. \A p \in OrderRows : sheet'[p].status = "NONE" => sheet'[p] = NoSheet
  BY <1>7, <1>12, <1>14 DEF TillsInv
<1>18. Written' = Written /\ (\A p \in Written : sheet'[p].draft = sheet[p].draft)
  BY <1>2, <1>3, <1>7, <1>12, <1>14 DEF Written
<1>19. DraftsBecomeOneOrder'
  BY <1>18 DEF TillsInv, DraftsBecomeOneOrder
<1>20. PICK n : n = [c EXCEPT !.stage = "MADE"]
  OBVIOUS
<1>21. Become(c, n) /\ UNCHANGED <<counter, generated>>
  BY <1>20 DEF MakeChange
<1>22. CallFits(sheet', c)
  BY <1>0, <1>13, <1>16, CallsStillFit DEF TillsInv
<1>23. n \in CallRow /\ CallFits(sheet', n)
  BY <1>0, <1>20, <1>22, StageFits
<1> QED
  BY <1>13, <1>16, <1>17, <1>19, <1>21, <1>23, SheetMoves

\* The other steps of the API only read.
LEMMA ApiKeeps ==
  ASSUME TillsInv, NEW c \in calls, RefuseChange(c) \/ ReadHeader(c) \/ GiveUp(c)
  PROVE  TillsInv'
<1>0. /\ c \in CallRow /\ CallFits(sheet, c)
      /\ (c.kind = "CREATE" => c.draft # 0)
  BY DEF TillsInv, TillsTyped, CallFits
<1>1. CASE RefuseChange(c)
  <2>1. PICK n : n = [c EXCEPT !.stage = "CONFLICT"]
    OBVIOUS
  <2>2. n \in CallRow /\ CallFits(sheet, n)
    BY <1>0, <2>1, StageFits
  <2>3. Become(c, n) \/ calls' = calls \ {c}
    BY <1>1, <2>1 DEF RefuseChange
  <2>4. UNCHANGED <<sheet, counter, generated>>
    BY <1>1 DEF RefuseChange
  <2> QED
    BY <2>2, <2>3, <2>4, ApiReads
<1>2. CASE ReadHeader(c)
  <2>1. PICK n : n = HeaderRead(c, c.order)
    OBVIOUS
  <2>2. c.order \in OrderRows
    BY <1>0, <1>2 DEF ReadHeader, CallFits
  <2>3. n \in CallRow /\ CallFits(sheet, n)
    BY <1>0, <2>1, <2>2, HeaderFits DEF TillsInv
  <2>4. Become(c, n) /\ UNCHANGED <<sheet, counter, generated>>
    BY <1>2, <2>1 DEF ReadHeader
  <2> QED
    BY <2>3, <2>4, ApiReads
<1>3. CASE GiveUp(c)
  <2>1. PICK n : n = [c EXCEPT !.awaited = FALSE]
    OBVIOUS
  <2>2. n \in CallRow /\ CallFits(sheet, n)
    <3>1. /\ n \in CallRow /\ n.kind = c.kind /\ n.order = c.order /\ n.stage = c.stage
          /\ n.draft = c.draft /\ n.expected = c.expected /\ n.seen = c.seen /\ n.copy = c.copy
      BY <1>0, <2>1 DEF CallRow
    <3> QED
      BY <1>0, <3>1 DEF CallFits, IsChange
  <2>3. calls' = (calls \ {c}) \cup {n} \/ calls' = calls \ {c}
    BY <1>3, <2>1 DEF GiveUp
  <2>4. UNCHANGED <<sheet, counter, generated>>
    BY <1>3 DEF GiveUp
  <2> QED
    BY <2>2, <2>3, <2>4, ApiReads
<1> QED
  BY <1>1, <1>2, <1>3

\* The lines are read after the header: the copy that arrives fits.
LEMMA AnswerFits ==
  ASSUME TillsInv, NEW c \in calls, c.stage = "HEADER"
  PROVE  /\ CopyOf(c) \in OrderCopy
         /\ CopyFits(sheet, CopyOf(c).order, CopyOf(c).version, CopyOf(c).lines)
         /\ c \in CallRow /\ c.device \in OrderDevices /\ c.kind \in Kinds /\ c.item \in Int
<1>1. /\ c \in CallRow /\ c.copy \in OrderCopy
      /\ c.order \in OrderRows /\ c.copy.order = c.order
      /\ c.copy.version <= sheet[c.order].version
  BY DEF TillsInv, TillsTyped, CallRow, CallFits
<1>2. sheet[c.order].lines \in SUBSET Line
  BY <1>1 DEF TillsInv, TillsTyped, SheetRow
<1>3. PICK n : n = CopyOf(c)
  OBVIOUS
<1>4. /\ n \in OrderCopy /\ n.order = c.order /\ n.version = c.copy.version
      /\ n.lines = sheet[c.order].lines
  BY <1>1, <1>2, <1>3 DEF CopyOf, OrderCopy
<1>5. CopyFits(sheet, n.order, n.version, n.lines)
  BY <1>1, <1>4 DEF CopyFits
<1> QED
  BY <1>1, <1>3, <1>4, <1>5 DEF CallRow

\* What an answer brings keeps all that.
LEMMA AnswerKeeps ==
  ASSUME TillsInv, NEW c \in calls, AnswerArrives(c) \/ ErrorArrives(c)
  PROVE  TillsInv'
<1>t. calls \subseteq CallRow /\ (\A x \in calls : CallFits(sheet, x)) /\ generated \in Nat
  BY DEF TillsInv, TillsTyped
<1>d. c.device \in OrderDevices
  BY <1>t DEF CallRow
<1>0. /\ Draft(c.device) \in Nat /\ Active(c.device) \in OrderCopy /\ NoOrderCopy \in OrderCopy
  BY <1>d DEF TillsInv, TillsTyped, CounterRow, Draft, Active, NoOrderCopy, OrderCopy
<1>1. CASE AnswerArrives(c)
  <2>0. c.stage = "HEADER" /\ sheet' = sheet
    BY <1>1 DEF AnswerArrives
  <2>1. PICK copy : copy = CopyOf(c)
    OBVIOUS
  <2>2. /\ copy \in OrderCopy /\ CopyFits(sheet, copy.order, copy.version, copy.lines)
        /\ c \in CallRow /\ c.device \in OrderDevices /\ c.item \in Int
    BY <2>0, <2>1, AnswerFits
  <2>3. CASE OrderCreated(c)
    <3>1. PICK n : n = ChangeOf(c.device, "ADD", copy, c.item)
      OBVIOUS
    <3>2. n \in CallRow /\ CallFits(sheet, n)
      BY <2>2, <3>1, ChangeFits DEF Kinds, Reads
    <3>3. calls' = (calls \ {c}) \cup {n} /\ Holding(c.device, 0, copy) /\ generated' = generated
      BY <2>1, <2>3, <3>1 DEF OrderCreated, FollowedBy
    <3>4. calls' \subseteq CallRow /\ \A x \in calls' : CallFits(sheet, x)
      BY <1>t, <3>2, <3>3
    <3> QED
      BY <1>t, <2>0, <2>2, <3>3, <3>4, HoldsAnother
  <2>4. CASE OrderToResume(c)
    <3>1. PICK n : n = ChangeOf(c.device, "RESUME", copy, 0)
      OBVIOUS
    <3>2. n \in CallRow /\ CallFits(sheet, n)
      BY <2>2, <3>1, ChangeFits DEF Kinds, Reads
    <3>3. calls' \subseteq calls \cup {n} /\ generated' \in Nat /\ counter' = counter
      BY <1>t, <2>1, <2>4, <3>1 DEF OrderToResume, FollowedBy, Finished, Fresh
    <3> QED
      BY <2>0, <3>2, <3>3, OneMoreCall
  <2>5. CASE CopyShown(c)
    <3>1. PICK draft \in Nat :
            Holding(c.device, draft, copy) \/ Holding(c.device, draft, NoOrderCopy)
      BY <1>0, <2>1, <2>5 DEF CopyShown
    <3>2. calls' \subseteq CallRow /\ (\A x \in calls' : CallFits(sheet, x)) /\ generated' \in Nat
      BY <1>t, <2>5 DEF CopyShown, Finished
    <3> QED
      BY <1>0, <2>0, <2>2, <3>1, <3>2, HoldsAnother
  <2> QED
    BY <1>1, <2>3, <2>4, <2>5 DEF AnswerArrives
<1>2. CASE ErrorArrives(c)
  <2>1. CASE Active(c.device) = NoOrderCopy
    <3> QED
      BY <1>2, <1>t, <2>1, NoMoreCalls DEF ErrorArrives, Finished
  <2>2. CASE Active(c.device) # NoOrderCopy
    <3>1. PICK o : o = Active(c.device).order
      OBVIOUS
    <3>2. o \in OrderRows
      BY <1>d, <2>2, <3>1 DEF TillsInv, CopyFits
    <3>3. PICK n : n = ReadOf(c.device, "RELOAD", o)
      OBVIOUS
    <3>4. /\ Call(c.device, "RELOAD") \in CallRow /\ Call(c.device, "RELOAD").kind = "RELOAD"
      BY <1>d, CallTypes DEF Kinds, Reads
    <3>5. n \in CallRow /\ CallFits(sheet, n)
      BY <3>2, <3>3, <3>4, HeaderFits DEF ReadOf, TillsInv
    <3>6. calls' \subseteq calls \cup {n} /\ UNCHANGED <<sheet, counter, generated>>
      BY <1>2, <2>2, <3>1, <3>3 DEF ErrorArrives, FollowedBy
    <3> QED
      BY <1>t, <3>5, <3>6, OneMoreCall
  <2> QED
    BY <2>1, <2>2
<1> QED
  BY <1>1, <1>2

\* The invariant, and what no step does.
LEMMA TillsStart == OrderTillsInit => TillsInv
<1> SUFFICES ASSUME OrderTillsInit PROVE TillsInv
  OBVIOUS
<1>1. PICK first \in {NoSheet, EarlierOrder} :
        sheet = [o \in OrderRows |-> IF o = 1 THEN first ELSE NoSheet]
  BY DEF OrderTillsInit
<1>2. NoSheet \in SheetRow /\ EarlierOrder \in SheetRow /\ EarlierOrder.status = "OPEN"
  BY DEF NoSheet, EarlierOrder, SheetRow, Line
<1>3. first \in SheetRow /\ (first.status = "NONE" => first = NoSheet)
  BY <1>1, <1>2
<1>4. sheet \in [OrderRows -> SheetRow]
  BY <1>1, <1>2, <1>3
<1>5. \A o \in OrderRows : sheet[o].status = "NONE" => sheet[o] = NoSheet
  BY <1>1, <1>3
<1>6. \A o \in Written : o = 1
  BY <1>1 DEF Written, NoSheet
<1>7. DraftsBecomeOneOrder
  BY <1>6 DEF DraftsBecomeOneOrder
<1>8. counter \in [OrderDevices -> CounterRow] /\ \A d \in OrderDevices : Active(d) = NoOrderCopy
  BY DEF OrderTillsInit, CounterRow, NoOrderCopy, OrderCopy, Active
<1>9. calls = {} /\ generated = 0
  BY DEF OrderTillsInit
<1> QED
  BY <1>4, <1>5, <1>7, <1>8, <1>9 DEF TillsInv, TillsTyped

LEMMA TillsStay == TillsInv /\ [OrderTillsNext]_tillVars => TillsInv'
<1> SUFFICES ASSUME TillsInv, [OrderTillsNext]_tillVars PROVE TillsInv'
  OBVIOUS
<1>1. CASE OrderTillsNext
  BY <1>1, CashierKeeps, DraftKeeps, ChangeKeeps, ApiKeeps, AnswerKeeps DEF OrderTillsNext
<1>2. CASE UNCHANGED tillVars
  BY <1>2, NoMoreCalls DEF tillVars, TillsInv, TillsTyped
<1> QED
  BY <1>1, <1>2

\* Only a draft that becomes a row and a change a cashier was allowed change orders.
LEMMA WhoWritesOrders ==
  ASSUME OrderTillsNext, sheet' # sheet
  PROVE  \E c \in calls : InsertOrder(c) \/ MakeChange(c)
<1>1. CASE \E d \in OrderDevices :
       \/ StartOrderDraft(d) \/ DiscardView(d)
       \/ AddCatalogItem(d) \/ AddFreeAmount(d) \/ UpdateLine(d) \/ DeleteLine(d)
       \/ HoldActiveOrder(d) \/ CancelActiveOrder(d)
       \/ \E o \in OrderRows : SelectOrder(d, o) \/ ResumeOrder(d, o)
       \/ RefreshActive(d) \/ FilterOut(d)
  BY <1>1 DEF StartOrderDraft, DiscardView, AddCatalogItem, AddFreeAmount, UpdateLine, DeleteLine,
    HoldActiveOrder, CancelActiveOrder, SelectOrder, ResumeOrder, RefreshActive, FilterOut,
    TapOnActive
<1>2. ASSUME NEW c \in calls,
             \/ LookForDraft(c) \/ RefuseChange(c) \/ ReadHeader(c)
             \/ AnswerArrives(c) \/ ErrorArrives(c) \/ GiveUp(c)
      PROVE  FALSE
  BY <1>2 DEF LookForDraft, RefuseChange, ReadHeader, AnswerArrives, ErrorArrives, GiveUp
<1> QED
  BY <1>1, <1>2 DEF OrderTillsNext

LEMMA ChangesFit == TillsInv /\ [OrderTillsNext]_tillVars => ChangesAreOfWhatWasSeen
<1> SUFFICES ASSUME TillsInv, [OrderTillsNext]_tillVars,
                    NEW c \in calls, IsChange(c), c \notin calls',
                    sheet'[c.order] # sheet[c.order]
             PROVE  sheet[c.order].lines = c.seen
  BY DEF ChangesAreOfWhatWasSeen
<1>1. OrderTillsNext /\ sheet' # sheet
  BY DEF tillVars
<1>2. PICK x \in calls : InsertOrder(x) \/ MakeChange(x)
  BY <1>1, WhoWritesOrders
<1>3. calls \ {x} \subseteq calls'
  BY <1>2 DEF InsertOrder, MakeChange, Become
<1>4. x = c
  BY <1>3
<1>5. c.expected = sheet[c.order].version
  BY <1>2, <1>4 DEF InsertOrder, MakeChange, IsChange
<1> QED
  BY <1>5 DEF TillsInv, CallFits, CopyFits

\* A draft becomes one order however often it is sent, and a change is made to the
\* lines its cashier had on the screen and to no others (OrdersService.create,
\* beginMutation and get; OrderController).
THEOREM CashiersActOnWhatTheySee ==
  OrderTillsSpec => CashiersChangeWhatTheySee
<1>1. OrderTillsInit => TillsInv
  BY TillsStart
<1>2. TillsInv /\ [OrderTillsNext]_tillVars => TillsInv'
  BY TillsStay
<1>3. TillsInv /\ [OrderTillsNext]_tillVars => ChangesAreOfWhatWasSeen
  BY ChangesFit
<1>4. TillsInv => DraftsBecomeOneOrder
  BY DEF TillsInv
<1> QED
  BY <1>1, <1>2, <1>3, <1>4, PTL DEF OrderTillsSpec, CashiersChangeWhatTheySee

-----------------------------------------------------------------------------
(***************************************************************************)
(* The totals of an order.  The shares rounded down leave fewer cents than *)
(* there are lines with a remainder; each of the lines whose remainder     *)
(* ranks high enough takes one, and the ranks count them exactly.          *)
(***************************************************************************)
Quotients(gross, subtotal, discount) ==
  [l \in DOMAIN gross |-> (gross[l] * discount) \div subtotal]
Remainders(gross, subtotal, discount) ==
  [l \in DOMAIN gross |-> (gross[l] * discount) % subtotal]
CentsLeft(gross, subtotal, discount) ==
  discount - SumFunctionOnSet(Quotients(gross, subtotal, discount), DOMAIN gross)
ByRemainder(r, L) ==
  {p \in L \X L : r[p[1]] > r[p[2]] \/ (r[p[1]] = r[p[2]] /\ p[1] < p[2])}

\* Amounts to share: what the lines cost, and a discount within it.
Shareable(gross, subtotal, discount) ==
  /\ IsFiniteSet(DOMAIN gross) /\ DOMAIN gross \subseteq Nat /\ \A l \in DOMAIN gross : gross[l] \in Nat
  /\ subtotal \in Nat /\ subtotal = SumFunctionOnSet(gross, DOMAIN gross)
  /\ discount \in Nat /\ 0 < discount /\ discount <= subtotal

LEMMA DivisionWithRemainder ==
  ASSUME NEW n \in Nat, NEW d \in Nat \ {0}
  PROVE  n = d * (n \div d) + (n % d) /\ n \div d \in Nat /\ n % d \in Nat /\ n % d < d
  OBVIOUS

LEMMA QuotientsTyped ==
  ASSUME NEW gross, NEW subtotal, NEW discount, Shareable(gross, subtotal, discount),
         NEW l \in DOMAIN gross
  PROVE  LET q == Quotients(gross, subtotal, discount)
             r == Remainders(gross, subtotal, discount)
         IN /\ q[l] \in Nat /\ r[l] \in Nat /\ r[l] < subtotal
            /\ gross[l] * discount \in Nat
            /\ gross[l] * discount = subtotal * q[l] + r[l]
<1> DEFINE n == gross[l] * discount
<1>1. n \in Nat /\ subtotal \in Nat \ {0}
  BY DEF Shareable
<1>2. /\ Quotients(gross, subtotal, discount)[l] = n \div subtotal
      /\ Remainders(gross, subtotal, discount)[l] = n % subtotal
  BY DEF Quotients, Remainders
<1> HIDE DEF n
<1>3. n = subtotal * (n \div subtotal) + (n % subtotal) /\ n \div subtotal \in Nat
      /\ n % subtotal \in Nat /\ n % subtotal < subtotal
  BY <1>1, DivisionWithRemainder
<1> QED
  BY <1>1, <1>2, <1>3 DEF n

LEMMA RemaindersLineUp ==
  ASSUME NEW L \in SUBSET Nat, NEW r, \A l \in L : r[l] \in Nat
  PROVE  LinesUp(ByRemainder(r, L), L)
<1>1. \A k, l \in L : <<k, l>> \in ByRemainder(r, L) <=> (r[k] > r[l] \/ (r[k] = r[l] /\ k < l))
  BY DEF ByRemainder
<1> QED
  BY <1>1 DEF LinesUp

\* The cents left over are no more than the lines with a remainder.
LEMMA CentsLeftFit ==
  ASSUME NEW gross, NEW subtotal, NEW discount, Shareable(gross, subtotal, discount)
  PROVE  LET left == CentsLeft(gross, subtotal, discount)
             r == Remainders(gross, subtotal, discount)
         IN /\ left \in Nat
            /\ left <= Cardinality({l \in DOMAIN gross : r[l] > 0})
            /\ left <= Cardinality(DOMAIN gross)
<1> DEFINE L == DOMAIN gross
           q == Quotients(gross, subtotal, discount)
           r == Remainders(gross, subtotal, discount)
           left == CentsLeft(gross, subtotal, discount)
           shares == [l \in L |-> discount * gross[l]]
           parts == [l \in L |-> subtotal * q[l]]
           P == {l \in L : r[l] > 0}
           counts == [l \in L |-> IF l \in P THEN 1 ELSE 0]
           atMost == [l \in L |-> subtotal * counts[l]]
<1>1. /\ IsFiniteSet(L) /\ subtotal \in Nat \ {0} /\ discount \in Nat
      /\ subtotal = SumFunctionOnSet(gross, L)
      /\ \A l \in L : gross[l] \in Nat
  BY DEF Shareable
<1>2. \A l \in L : /\ q[l] \in Nat /\ r[l] \in Nat /\ r[l] < subtotal
                   /\ gross[l] * discount = subtotal * q[l] + r[l]
  BY QuotientsTyped
<1> HIDE DEF q, r
<1>3. SumFunctionOnSet(shares, L) = discount * subtotal
  <2>1. \A l \in L : gross[l] \in Int /\ shares[l] = discount * gross[l]
    BY <1>1
  <2> HIDE DEF shares, L
  <2> QED
    BY <1>1, <2>1, SumTimes
<1>4. SumFunctionOnSet(parts, L) = subtotal * SumFunctionOnSet(q, L)
  <2>1. \A l \in L : q[l] \in Int /\ parts[l] = subtotal * q[l]
    BY <1>2
  <2> HIDE DEF parts, L
  <2> QED
    BY <1>1, <2>1, SumTimes
<1>5. SumFunctionOnSet(shares, L) = SumFunctionOnSet(parts, L) + SumFunctionOnSet(r, L)
  <2>1. \A l \in L : parts[l] \in Int /\ r[l] \in Int /\ shares[l] = parts[l] + r[l]
    <3> SUFFICES ASSUME NEW l \in L PROVE parts[l] \in Int /\ r[l] \in Int /\ shares[l] = parts[l] + r[l]
      OBVIOUS
    <3>1. shares[l] = gross[l] * discount /\ parts[l] = subtotal * q[l]
      BY <1>1
    <3>2. subtotal * q[l] \in Int
      BY <1>1, <1>2
    <3> QED
      BY <1>2, <3>1, <3>2
  <2> HIDE DEF parts, shares, L
  <2> QED
    BY <1>1, <2>1, SumPlus
<1>6. /\ SumFunctionOnSet(q, L) \in Nat /\ SumFunctionOnSet(r, L) \in Nat
      /\ left = discount - SumFunctionOnSet(q, L)
  <2>1. left = discount - SumFunctionOnSet(q, L)
    BY DEF CentsLeft, q
  <2> HIDE DEF L, left
  <2> QED
    BY <1>1, <1>2, <2>1, SumIsNat
<1>7. SumFunctionOnSet(counts, L) = Cardinality(P) /\ P \in SUBSET L
  <2>1. P \in SUBSET L /\ \A l \in L : counts[l] = IF l \in P THEN 1 ELSE 0
    OBVIOUS
  <2> HIDE DEF counts, P, L
  <2> QED
    BY <1>1, <2>1, SumCounts
<1>8. SumFunctionOnSet(atMost, L) = subtotal * Cardinality(P)
  <2>1. \A l \in L : counts[l] \in Int /\ atMost[l] = subtotal * counts[l]
    OBVIOUS
  <2> HIDE DEF atMost, counts, P, L
  <2> QED
    BY <1>1, <1>7, <2>1, SumTimes
<1>9. SumFunctionOnSet(r, L) <= SumFunctionOnSet(atMost, L)
  <2>1. \A l \in L : r[l] \in Int /\ atMost[l] \in Int /\ r[l] <= atMost[l]
    <3> SUFFICES ASSUME NEW l \in L PROVE r[l] \in Int /\ atMost[l] \in Int /\ r[l] <= atMost[l]
      OBVIOUS
    <3>1. atMost[l] = IF r[l] > 0 THEN subtotal ELSE 0
      BY <1>1
    <3> QED
      BY <1>1, <1>2, <3>1
  <2> HIDE DEF atMost, L
  <2> QED
    BY <1>1, <2>1, SumMonotone
<1>10. Cardinality(P) \in Nat /\ Cardinality(P) <= Cardinality(L) /\ Cardinality(L) \in Nat
  <2> HIDE DEF P, L
  <2> QED
    BY <1>1, <1>7, FS_Subset, FS_CardinalityType
<1> HIDE DEF L, left, shares, parts, P, counts, atMost
<1>11. SumFunctionOnSet(r, L) = subtotal * left
  <2> DEFINE Q == SumFunctionOnSet(q, L)
             X == SumFunctionOnSet(r, L)
  <2>1. discount * subtotal = subtotal * Q + X /\ left = discount - Q /\ Q \in Nat /\ X \in Nat
    BY <1>3, <1>4, <1>5, <1>6
  <2> HIDE DEF Q, X
  <2>2. subtotal * (discount - Q) = discount * subtotal - subtotal * Q
    BY <1>1, <2>1
  <2>3. subtotal * Q \in Int /\ discount * subtotal \in Int
    BY <1>1, <2>1
  <2>4. X = subtotal * left
    BY <2>1, <2>2, <2>3
  <2> QED
    BY <2>4 DEF X
<1>12. left \in Int
  BY <1>1, <1>6
<1>13. left >= 0
  <2>1. ASSUME left < 0 PROVE subtotal * left < 0
    BY <1>1, <1>12, <2>1
  <2> QED
    BY <1>6, <1>11, <1>12, <2>1
<1>14. left <= Cardinality(P)
  <2>1. ASSUME left > Cardinality(P) PROVE subtotal * left > subtotal * Cardinality(P)
    BY <1>1, <1>10, <1>12, <2>1
  <2> QED
    BY <1>1, <1>8, <1>9, <1>10, <1>11, <1>12, <2>1
<1> QED
  BY <1>10, <1>12, <1>13, <1>14 DEF L, P, left, r

LEMMA CentsGoToRemainders ==
  ASSUME NEW gross, NEW subtotal, NEW discount, Shareable(gross, subtotal, discount)
  PROVE  LET L == DOMAIN gross
             q == Quotients(gross, subtotal, discount)
             r == Remainders(gross, subtotal, discount)
             left == CentsLeft(gross, subtotal, discount)
             chosen == AmongFirst(left, L, ByRemainder(r, L))
         IN /\ AllocateDiscount(gross, subtotal, discount)
                 = [l \in L |-> q[l] + IF l \in chosen THEN 1 ELSE 0]
            /\ Cardinality(chosen) = left
            /\ \A l \in chosen : r[l] > 0
            /\ \A k, l \in L : (r[k] > r[l] /\ l \in chosen) => k \in chosen
<1> DEFINE L == DOMAIN gross
           q == Quotients(gross, subtotal, discount)
           r == Remainders(gross, subtotal, discount)
           left == CentsLeft(gross, subtotal, discount)
           R == ByRemainder(r, L)
           chosen == AmongFirst(left, L, R)
           P == {l \in L : r[l] > 0}
<1>1. IsFiniteSet(L) /\ L \in SUBSET Nat /\ \A l \in L : r[l] \in Nat
  BY QuotientsTyped DEF Shareable
<1>2. left \in 0..Cardinality(L) /\ left <= Cardinality(P) /\ Cardinality(L) \in Nat
  BY <1>1, CentsLeftFit, FS_CardinalityType
<1>3. \A l \in L : {k \in L : \/ (gross[k] * discount) % subtotal > (gross[l] * discount) % subtotal
                              \/ /\ (gross[k] * discount) % subtotal = (gross[l] * discount) % subtotal
                                 /\ k < l} = Before(l, L, R)
  BY DEF Before, ByRemainder, Remainders
<1>4. AllocateDiscount(gross, subtotal, discount) = [l \in L |-> q[l] + IF l \in chosen THEN 1 ELSE 0]
  <2>1. left = discount - SumFunction([l \in L |-> (gross[l] * discount) \div subtotal])
    BY DEF CentsLeft, Quotients, SumFunction
  <2>2. \A l \in L : q[l] = (gross[l] * discount) \div subtotal
    BY DEF Quotients
  <2>3. \A l \in L : l \in chosen <=> Cardinality(Before(l, L, R)) < left
    BY DEF AmongFirst
  <2> HIDE DEF q, left, R, chosen
  <2> QED
    BY <1>3, <2>1, <2>2, <2>3 DEF AllocateDiscount
<1> HIDE DEF r, left
<1>5. LinesUp(R, L)
  BY <1>1, RemaindersLineUp
<1>6. Cardinality(chosen) = left
  <2> HIDE DEF R, L, chosen
  <2> QED
    BY <1>1, <1>2, <1>5, RanksCount DEF chosen
<1>7. ASSUME NEW l \in chosen PROVE r[l] > 0
  <2>1. l \in L /\ r[l] \in Nat /\ Cardinality(Before(l, L, R)) < left
    BY <1>1 DEF AmongFirst
  <2>2. ASSUME r[l] = 0 PROVE FALSE
    <3>1. P \subseteq Before(l, L, R) /\ Before(l, L, R) \in SUBSET L
      BY <2>1, <2>2 DEF Before, ByRemainder
    <3>2. IsFiniteSet(Before(l, L, R)) /\ P \in SUBSET Before(l, L, R)
      BY <1>1, <3>1, FS_Subset
    <3>3. /\ Cardinality(P) <= Cardinality(Before(l, L, R)) /\ Cardinality(P) \in Nat
          /\ Cardinality(Before(l, L, R)) \in Nat
      <4>1. IsFiniteSet(P)
        BY <3>2, FS_Subset
      <4> HIDE DEF P, L, R
      <4> QED
        BY <3>2, <4>1, FS_Subset, FS_CardinalityType
    <3> QED
      BY <1>2, <2>1, <3>3
  <2> QED
    BY <2>1, <2>2
<1>8. ASSUME NEW k \in L, NEW l \in L, r[k] > r[l], l \in chosen PROVE k \in chosen
  <2>1. Before(k, L, R) \subseteq Before(l, L, R) /\ Before(l, L, R) \in SUBSET L
    <3>1. <<k, l>> \in R
      BY <1>8 DEF ByRemainder
    <3> HIDE DEF R
    <3> QED
      BY <1>5, <3>1 DEF Before, LinesUp
  <2>2. IsFiniteSet(Before(l, L, R)) /\ Before(k, L, R) \in SUBSET Before(l, L, R)
    BY <1>1, <2>1, FS_Subset
  <2>3. /\ Cardinality(Before(k, L, R)) <= Cardinality(Before(l, L, R))
        /\ Cardinality(Before(k, L, R)) \in Nat /\ Cardinality(Before(l, L, R)) \in Nat
    <3>1. IsFiniteSet(Before(k, L, R))
      BY <2>2, FS_Subset
    <3> HIDE DEF L, R
    <3> QED
      BY <2>2, <3>1, FS_Subset, FS_CardinalityType
  <2> QED
    BY <1>2, <1>8, <2>3 DEF AmongFirst
<1> QED
  BY <1>4, <1>6, <1>7, <1>8 DEF r, left

\* The discount is distributed to the last cent, and fairly.
LEMMA AllocationIsFair ==
  ASSUME NEW gross, NEW subtotal, NEW discount, Shareable(gross, subtotal, discount)
  PROVE  LET a == AllocateDiscount(gross, subtotal, discount)
         IN /\ DOMAIN a = DOMAIN gross
            /\ SumFunction(a) = discount
            /\ \A l \in DOMAIN gross :
                 /\ a[l] \in Nat /\ a[l] <= gross[l]
                 /\ -subtotal < a[l] * subtotal - gross[l] * discount
                 /\ a[l] * subtotal - gross[l] * discount < subtotal
            /\ \A k, l \in DOMAIN gross : gross[k] > gross[l] => a[k] >= a[l]
<1> DEFINE L == DOMAIN gross
           q == Quotients(gross, subtotal, discount)
           r == Remainders(gross, subtotal, discount)
           left == CentsLeft(gross, subtotal, discount)
           chosen == AmongFirst(left, L, ByRemainder(r, L))
           one == [l \in L |-> IF l \in chosen THEN 1 ELSE 0]
           a == [l \in L |-> q[l] + one[l]]
<1>1. /\ IsFiniteSet(L) /\ subtotal \in Nat \ {0} /\ discount \in Nat \ {0} /\ discount <= subtotal
      /\ \A l \in L : gross[l] \in Nat
  BY DEF Shareable
<1>2. \A l \in L : /\ q[l] \in Nat /\ r[l] \in Nat /\ r[l] < subtotal
                   /\ gross[l] * discount \in Nat
                   /\ gross[l] * discount = subtotal * q[l] + r[l]
  BY QuotientsTyped
<1>3. /\ Cardinality(chosen) = left /\ chosen \in SUBSET L
      /\ \A l \in chosen : r[l] > 0
      /\ \A k, l \in L : (r[k] > r[l] /\ l \in chosen) => k \in chosen
  BY CentsGoToRemainders DEF AmongFirst
<1>4. AllocateDiscount(gross, subtotal, discount) = a
  <2>1. AllocateDiscount(gross, subtotal, discount) = [l \in L |-> q[l] + IF l \in chosen THEN 1 ELSE 0]
    BY CentsGoToRemainders
  <2> HIDE DEF q, chosen
  <2> QED
    BY <2>1
<1>5. left = discount - SumFunctionOnSet(q, L)
  BY DEF CentsLeft
<1> HIDE DEF q, r, left, chosen
<1>6. \A l \in L : one[l] \in {0, 1} /\ (one[l] = 1 <=> l \in chosen) /\ a[l] = q[l] + one[l]
  OBVIOUS
<1>7. SumFunctionOnSet(one, L) = left
  <2>1. \A l \in L : one[l] = IF l \in chosen THEN 1 ELSE 0
    OBVIOUS
  <2> HIDE DEF one, L
  <2> QED
    BY <1>1, <1>3, <2>1, SumCounts
<1>8. SumFunctionOnSet(a, L) = SumFunctionOnSet(q, L) + SumFunctionOnSet(one, L) /\ SumFunctionOnSet(q, L) \in Int
  <2>1. \A l \in L : q[l] \in Int /\ one[l] \in Int /\ a[l] = q[l] + one[l]
    BY <1>2, <1>6
  <2> HIDE DEF one, a, L
  <2> QED
    BY <1>1, <2>1, SumPlus, SumIsInt
<1>9. SumFunction(a) = discount
  <2>1. SumFunction(a) = SumFunctionOnSet(a, L)
    BY DEF SumFunction
  <2> HIDE DEF a, one, L
  <2> QED
    BY <1>1, <1>5, <1>7, <1>8, <2>1
<1> HIDE DEF a, one
<1>10. ASSUME NEW l \in L
       PROVE  /\ a[l] \in Nat /\ a[l] <= gross[l]
              /\ -subtotal < a[l] * subtotal - gross[l] * discount
              /\ a[l] * subtotal - gross[l] * discount < subtotal
  <2> DEFINE n == gross[l] * discount
             Q == q[l]
             M == r[l]
             G == gross[l]
             A == a[l]
  <2>1. /\ n = subtotal * Q + M /\ Q \in Nat /\ M \in Nat /\ M < subtotal /\ n \in Nat /\ G \in Nat
        /\ (A = Q \/ (A = Q + 1 /\ M > 0)) /\ A \in Nat /\ n = G * discount
    BY <1>1, <1>2, <1>3, <1>6
  <2> HIDE DEF n, Q, M, G, A
  <2>2. A * subtotal = subtotal * Q \/ (A * subtotal = subtotal * Q + subtotal /\ M > 0)
    BY <1>1, <2>1
  <2>3. subtotal * Q \in Nat /\ A * subtotal \in Nat
    BY <1>1, <2>1
  <2>4. -subtotal < A * subtotal - n /\ A * subtotal - n < subtotal
    BY <1>1, <2>1, <2>2, <2>3
  <2>5. n <= G * subtotal
    BY <1>1, <2>1
  <2>6. A <= G
    <3>1. CASE A = Q
      <4>1. ASSUME Q > G PROVE FALSE
        <5>1. subtotal * Q > subtotal * G
          BY <1>1, <2>1, <4>1
        <5> QED
          BY <1>1, <2>1, <2>3, <2>5, <5>1
      <4> QED
        BY <2>1, <3>1, <4>1
    <3>2. CASE A = Q + 1 /\ M > 0
      <4>1. ASSUME Q >= G PROVE FALSE
        <5>1. subtotal * Q >= subtotal * G
          BY <1>1, <2>1, <4>1
        <5> QED
          BY <1>1, <2>1, <2>3, <2>5, <3>2, <5>1
      <4> QED
        BY <2>1, <3>2, <4>1
    <3> QED
      BY <2>1, <3>1, <3>2
  <2> QED
    BY <2>1, <2>4, <2>6 DEF n, G, A
<1>11. ASSUME NEW k \in L, NEW l \in L, gross[k] > gross[l] PROVE a[k] >= a[l]
  <2>1. gross[k] * discount >= gross[l] * discount + discount
    BY <1>1, <1>11
  <2> DEFINE n == gross[l] * discount
             m == gross[k] * discount
  <2>2. /\ n = subtotal * q[l] + r[l] /\ m = subtotal * q[k] + r[k] /\ n \in Nat /\ m \in Nat
        /\ q[l] \in Nat /\ q[k] \in Nat /\ r[l] \in Nat /\ r[k] \in Nat
        /\ r[l] < subtotal /\ r[k] < subtotal
    BY <1>2
  <2> HIDE DEF n, m
  <2>3. m > n
    BY <1>1, <2>1, <2>2 DEF n, m
  <2>4. q[k] >= q[l]
    <3>1. ASSUME q[k] + 1 <= q[l] PROVE FALSE
      <4>1. subtotal * (q[k] + 1) <= subtotal * q[l]
        BY <1>1, <2>2, <3>1
      <4>2. subtotal * (q[k] + 1) = subtotal * q[k] + subtotal
        BY <1>1, <2>2
      <4>3. subtotal * q[k] \in Nat /\ subtotal * q[l] \in Nat
        BY <1>1, <2>2
      <4> QED
        BY <1>1, <2>2, <2>3, <4>1, <4>2, <4>3
    <3> QED
      BY <2>2, <3>1
  <2>5. CASE q[k] = q[l]
    <3>1. r[k] > r[l]
      <4>1. subtotal * q[k] = subtotal * q[l] /\ subtotal * q[k] \in Nat
        BY <1>1, <2>2, <2>5
      <4> QED
        BY <2>2, <2>3, <4>1
    <3>2. one[l] = 1 => one[k] = 1
      BY <1>3, <1>6, <3>1
    <3> QED
      BY <1>6, <2>2, <2>5, <3>2
  <2>6. CASE q[k] > q[l]
    BY <1>6, <2>2, <2>6
  <2> QED
    BY <2>2, <2>4, <2>5, <2>6
<1>12. DOMAIN a = L
  BY DEF a
<1> QED
  BY <1>4, <1>9, <1>10, <1>11, <1>12

-----------------------------------------------------------------------------
(* The taxes, and the totals as a whole *)

LEMMA PowersOfTen == \A s \in 0..6 : 10^s \in Nat \ {0}
<1> SUFFICES ASSUME NEW s \in 0..6 PROVE 10^s \in Nat \ {0}
  OBVIOUS
<1>1. s = 0 \/ s = 1 \/ s = 2 \/ s = 3 \/ s = 4 \/ s = 5 \/ s = 6
  OBVIOUS
<1>2. CASE s = 0
  <2>1. 10^s = 1
    BY <1>2, 10^0 = 1
  <2> QED
    BY <2>1
<1>3. CASE s = 1
  <2>1. 10^s = 10
    BY <1>3, 10^1 = 10
  <2> QED
    BY <2>1
<1>4. CASE s = 2
  <2>1. 10^s = 100
    BY <1>4, 10^2 = 100
  <2> QED
    BY <2>1
<1>5. CASE s = 3
  <2>1. 10^s = 1000
    BY <1>5, 10^3 = 1000
  <2> QED
    BY <2>1
<1>6. CASE s = 4
  <2>1. 10^s = 10000
    BY <1>6, 10^4 = 10000
  <2> QED
    BY <2>1
<1>7. CASE s = 5
  <2>1. 10^s = 100000
    BY <1>7, 10^5 = 100000
  <2> QED
    BY <2>1
<1>8. CASE s = 6
  <2>1. 10^s = 1000000
    BY <1>8, 10^6 = 1000000
  <2> QED
    BY <2>1
<1> QED
  BY <1>1, <1>2, <1>3, <1>4, <1>5, <1>6, <1>7, <1>8

LEMMA RatiosAreNearest ==
  ASSUME NEW n \in Nat, NEW d \in Nat \ {0}
  PROVE  /\ RoundedRatio(n, d) \in Nat
         /\ -d <= 2 * (RoundedRatio(n, d) * d - n) /\ 2 * (RoundedRatio(n, d) * d - n) <= d
<1> DEFINE m == n + d \div 2
<1>1. d \div 2 \in Nat /\ 2 * (d \div 2) <= d /\ d - 1 <= 2 * (d \div 2)
  OBVIOUS
<1>2. m \in Nat
  BY <1>1
<1>3. RoundedRatio(n, d) = m \div d
  BY DEF RoundedRatio
<1> DEFINE t == m \div d
<1>4. m = d * t + (m % d) /\ t \in Nat /\ m % d \in Nat /\ m % d < d
  BY <1>2, DivisionWithRemainder
<1>5. d * t = t * d /\ d * t \in Nat
  BY <1>4
<1> HIDE DEF t
<1>6. t * d = n + d \div 2 - (m % d)
  <2>1. n + d \div 2 = t * d + (m % d) /\ t * d \in Nat
    BY <1>4, <1>5
  <2> HIDE DEF m
  <2> QED
    BY <1>1, <1>4, <2>1
<1> HIDE DEF m
<1>7. -d <= 2 * (t * d - n) /\ 2 * (t * d - n) <= d
  BY <1>1, <1>4, <1>5, <1>6
<1> QED
  BY <1>3, <1>4, <1>7 DEF t

LEMMA TaxesAreNearest ==
  ASSUME NEW gross \in Nat, NEW rate \in Nat
  PROVE  /\ TaxInGross(gross, rate) \in Nat
         /\ -(10000 + rate) <= 2 * (TaxInGross(gross, rate) * (10000 + rate) - gross * rate)
         /\ 2 * (TaxInGross(gross, rate) * (10000 + rate) - gross * rate) <= 10000 + rate
<1>1. gross * rate \in Nat /\ 10000 + rate \in Nat \ {0}
  OBVIOUS
<1>2. CASE rate = 0 \/ gross = 0
  <2>1. TaxInGross(gross, rate) = 0 /\ gross * rate = 0
    BY <1>2 DEF TaxInGross
  <2> QED
    BY <1>1, <2>1
<1>3. CASE ~ (rate = 0 \/ gross = 0)
  BY <1>1, <1>3, RatiosAreNearest DEF TaxInGross
<1> QED
  BY <1>2, <1>3

\* The parts of OrderTotals.
LineGross ==
  [l \in DOMAIN items |-> GrossFromQuantity(items[l].price, items[l].quantity, items[l].scale)]
LinesSubtotal == SumFunction(LineGross)
WholeDiscount ==
  SumFunction([a \in adjustments |-> AdjustmentAmount(LinesSubtotal, a)])
LineDiscounts ==
  IF WholeDiscount = 0 THEN [l \in DOMAIN LineGross |-> 0]
  ELSE AllocateDiscount(LineGross, LinesSubtotal, WholeDiscount)
LineFinal == [l \in DOMAIN LineGross |-> LineGross[l] - LineDiscounts[l]]
LineTax == [l \in DOMAIN LineGross |-> TaxInGross(LineFinal[l], items[l].rate)]
RatesUsed == {items[l].rate : l \in DOMAIN items}

LEMMA TotalsParts ==
  OrderTotals = IF (\E l \in DOMAIN LineGross : LineGross[l] = 0) \/ WholeDiscount > LinesSubtotal
                THEN Refused
                ELSE [state |-> "CALCULATED", gross |-> LineGross, subtotal |-> LinesSubtotal,
                      discount |-> WholeDiscount, allocated |-> LineDiscounts, final |-> LineFinal,
                      tax |-> LineTax,
                      summary |-> [r \in RatesUsed |-> SummaryTax(r, LineGross, LineFinal)]]
  BY DEF OrderTotals, LineGross, LinesSubtotal, WholeDiscount, LineDiscounts, LineFinal, LineTax, RatesUsed

\* What an order may hold.
OrderFits ==
  /\ IsFiniteSet(DOMAIN items) /\ DOMAIN items \subseteq LineIds
  /\ \A l \in DOMAIN items : items[l] \in Item
  /\ adjustments \subseteq Adjustment /\ IsFiniteSet(adjustments)

TotalsInv == OrderFits /\ (result = Uncalculated \/ result = OrderTotals)

LEMMA ItemsTyped ==
  ASSUME OrderFits, NEW l \in DOMAIN items
  PROVE  /\ items[l].price \in Nat /\ items[l].quantity \in Nat /\ items[l].scale \in 0..6
         /\ items[l].rate \in Nat
<1>1. /\ items[l].price \in UnitPrices /\ items[l].quantity \in Quantities
      /\ items[l].scale \in Scales /\ items[l].rate \in Rates
  <2>1. items[l] \in Item
    BY DEF OrderFits
  <2> QED
    BY <2>1 DEF Item
<1>2. /\ UnitPrices \subseteq Nat \ {0} /\ Quantities \subseteq Nat \ {0}
      /\ Scales \subseteq 0..6 /\ Rates \subseteq Nat
  BY CalculatorAssumption, SMTT(30)
<1> QED
  BY <1>1, <1>2

LEMMA AmountsTyped ==
  ASSUME OrderFits
  PROVE  /\ DOMAIN LineGross = DOMAIN items /\ \A l \in DOMAIN items : LineGross[l] \in Nat
         /\ LinesSubtotal \in Nat /\ LinesSubtotal = SumFunctionOnSet(LineGross, DOMAIN LineGross)
         /\ \A l \in DOMAIN items : LineGross[l] <= LinesSubtotal
         /\ WholeDiscount \in Nat
<1>1. DOMAIN LineGross = DOMAIN items
  BY DEF LineGross
<1>2. ASSUME NEW l \in DOMAIN items PROVE LineGross[l] \in Nat
  <2>1. /\ items[l].price \in Nat /\ items[l].quantity \in Nat /\ items[l].scale \in 0..6
    BY ItemsTyped
  <2> DEFINE price == items[l].price
             quantity == items[l].quantity
  <2>2. price * quantity \in Nat /\ 10^items[l].scale \in Nat \ {0}
    <3>1. price \in Nat /\ quantity \in Nat
      BY <2>1
    <3>2. price * quantity \in Nat
      <4> HIDE DEF price, quantity
      <4> QED
        BY <3>1
    <3> QED
      BY <2>1, <3>2, PowersOfTen
  <2>3. RoundedRatio(items[l].price * items[l].quantity, 10^items[l].scale) \in Nat
    BY <2>2, RatiosAreNearest
  <2> QED
    BY <2>3 DEF LineGross, GrossFromQuantity
<1>3. LinesSubtotal = SumFunctionOnSet(LineGross, DOMAIN LineGross)
  BY DEF LinesSubtotal, SumFunction
<1>4. IsFiniteSet(DOMAIN LineGross) /\ \A l \in DOMAIN LineGross : LineGross[l] \in Nat
  BY <1>1, <1>2 DEF OrderFits
<1>5. LinesSubtotal \in Nat /\ \A l \in DOMAIN LineGross : LineGross[l] <= LinesSubtotal
  BY <1>3, <1>4, SumIsNat, SumOfOne
<1>6. WholeDiscount \in Nat
  <2> DEFINE amounts == [a \in adjustments |-> AdjustmentAmount(LinesSubtotal, a)]
  <2>1. ASSUME NEW a \in adjustments PROVE amounts[a] \in Nat
    <3>1. a.value \in Nat
      BY CalculatorAssumption DEF OrderFits, Adjustment
    <3>2. LinesSubtotal * a.value \in Nat
      BY <1>5, <3>1
    <3>3. RoundedRatio(LinesSubtotal * a.value, 10000) \in Nat
      <4> DEFINE n == LinesSubtotal * a.value
      <4>1. n \in Nat /\ 10000 \in Nat \ {0}
        BY <3>2
      <4> HIDE DEF n
      <4>2. RoundedRatio(n, 10000) \in Nat
        BY <4>1, RatiosAreNearest
      <4> QED
        BY <4>2 DEF n
    <3> QED
      BY <3>1, <3>3 DEF AdjustmentAmount
  <2>2. WholeDiscount = SumFunctionOnSet(amounts, adjustments)
    BY DEF WholeDiscount, SumFunction
  <2> HIDE DEF amounts
  <2> QED
    BY <2>1, <2>2, SumIsNat DEF OrderFits
<1> QED
  BY <1>1, <1>2, <1>3, <1>5, <1>6

LEMMA DiscountsAreShared ==
  ASSUME OrderFits, \A l \in DOMAIN LineGross : LineGross[l] # 0, WholeDiscount <= LinesSubtotal
  PROVE  /\ SumFunction(LineDiscounts) = WholeDiscount
         /\ \A l \in DOMAIN items :
              /\ LineFinal[l] \in 0..LineGross[l]
              /\ -LinesSubtotal < LineDiscounts[l] * LinesSubtotal - LineGross[l] * WholeDiscount
              /\ LineDiscounts[l] * LinesSubtotal - LineGross[l] * WholeDiscount < LinesSubtotal
         /\ \A k, l \in DOMAIN items :
              LineGross[k] > LineGross[l] => LineDiscounts[k] >= LineDiscounts[l]
<1>0. /\ DOMAIN LineGross = DOMAIN items /\ \A l \in DOMAIN items : LineGross[l] \in Nat
      /\ LinesSubtotal \in Nat /\ LinesSubtotal = SumFunctionOnSet(LineGross, DOMAIN LineGross)
      /\ \A l \in DOMAIN items : LineGross[l] <= LinesSubtotal
      /\ WholeDiscount \in Nat
  BY AmountsTyped
<1>f. \A l \in DOMAIN items : LineFinal[l] = LineGross[l] - LineDiscounts[l]
  BY <1>0 DEF LineFinal
<1>1. CASE WholeDiscount = 0
  <2>1. LineDiscounts = [l \in DOMAIN items |-> 0]
    BY <1>0, <1>1 DEF LineDiscounts
  <2>2. SumFunction(LineDiscounts) = SumFunctionOnSet(LineDiscounts, DOMAIN items)
    BY <2>1 DEF SumFunction
  <2>3. SumFunctionOnSet(LineDiscounts, DOMAIN items) = 0
    BY <2>1, SumOfZeros DEF OrderFits
  <2>4. ASSUME NEW l \in DOMAIN items
        PROVE  /\ LineFinal[l] \in 0..LineGross[l]
               /\ -LinesSubtotal < LineDiscounts[l] * LinesSubtotal - LineGross[l] * WholeDiscount
               /\ LineDiscounts[l] * LinesSubtotal - LineGross[l] * WholeDiscount < LinesSubtotal
    <3>1. LineDiscounts[l] = 0 /\ LineGross[l] # 0 /\ LineGross[l] \in Nat /\ LineGross[l] <= LinesSubtotal
      BY <1>0, <2>1
    <3>2. LineDiscounts[l] * LinesSubtotal = 0 /\ LineGross[l] * WholeDiscount = 0
      BY <1>0, <1>1, <3>1
    <3>3. LineFinal[l] = LineGross[l]
      BY <1>f, <3>1
    <3>4. LineFinal[l] \in 0..LineGross[l] /\ 0 < LinesSubtotal
      BY <1>0, <3>1, <3>3
    <3>5. LineDiscounts[l] * LinesSubtotal - LineGross[l] * WholeDiscount = 0
      BY <3>2
    <3> QED
      BY <1>0, <3>4, <3>5
  <2>5. \A k, l \in DOMAIN items : LineDiscounts[k] >= LineDiscounts[l]
    BY <2>1
  <2> QED
    BY <1>1, <2>2, <2>3, <2>4, <2>5
<1>2. CASE WholeDiscount # 0
  <2>1. LineDiscounts = AllocateDiscount(LineGross, LinesSubtotal, WholeDiscount)
    BY <1>2 DEF LineDiscounts
  <2>2. Shareable(LineGross, LinesSubtotal, WholeDiscount)
    <3>1. LineIds \subseteq Nat
      BY CalculatorAssumption, SMTT(30)
    <3>2. DOMAIN LineGross \subseteq Nat /\ IsFiniteSet(DOMAIN LineGross)
      BY <1>0, <3>1 DEF OrderFits
    <3> QED
      BY <1>0, <1>2, <3>2 DEF Shareable
  <2>3. /\ SumFunction(LineDiscounts) = WholeDiscount
        /\ \A l \in DOMAIN LineGross :
             /\ LineDiscounts[l] \in Nat /\ LineDiscounts[l] <= LineGross[l]
             /\ -LinesSubtotal < LineDiscounts[l] * LinesSubtotal - LineGross[l] * WholeDiscount
             /\ LineDiscounts[l] * LinesSubtotal - LineGross[l] * WholeDiscount < LinesSubtotal
        /\ \A k, l \in DOMAIN LineGross :
             LineGross[k] > LineGross[l] => LineDiscounts[k] >= LineDiscounts[l]
    BY <2>1, <2>2, AllocationIsFair
  <2>4. ASSUME NEW l \in DOMAIN items PROVE LineFinal[l] \in 0..LineGross[l]
    <3>1. LineDiscounts[l] \in Nat /\ LineDiscounts[l] <= LineGross[l] /\ LineGross[l] \in Nat
      BY <1>0, <2>3
    <3> QED
      BY <1>f, <3>1
  <2> QED
    BY <1>0, <2>3, <2>4
<1> QED
  BY <1>1, <1>2

\* The summaries by rate carry the tax of the lines.
LEMMA SummariesAddUp ==
  ASSUME OrderFits, \A l \in DOMAIN items : LineFinal[l] \in Nat
  PROVE  SumFunction([r \in RatesUsed |-> SummaryTax(r, LineGross, LineFinal)]) = SumFunction(LineTax)
<1> DEFINE h == [r \in RatesUsed |-> SummaryTax(r, LineGross, LineFinal)]
           key == [l \in DOMAIN items |-> items[l].rate]
<1>1. DOMAIN LineGross = DOMAIN items /\ DOMAIN LineTax = DOMAIN items /\ IsFiniteSet(DOMAIN items)
  BY AmountsTyped DEF LineTax, OrderFits
<1>2. \A l \in DOMAIN items : /\ LineTax[l] = TaxInGross(LineFinal[l], items[l].rate)
                              /\ LineTax[l] \in Int
  <2> SUFFICES ASSUME NEW l \in DOMAIN items
               PROVE LineTax[l] = TaxInGross(LineFinal[l], items[l].rate) /\ LineTax[l] \in Int
    OBVIOUS
  <2>1. LineTax[l] = TaxInGross(LineFinal[l], items[l].rate)
    BY <1>1 DEF LineTax
  <2>2. items[l].rate \in Nat
    BY ItemsTyped
  <2> DEFINE final == LineFinal[l]
             rate == items[l].rate
  <2>3. TaxInGross(final, rate) \in Nat
    <3>1. final \in Nat /\ rate \in Nat
      BY <2>2
    <3> HIDE DEF final, rate
    <3> QED
      BY <3>1, TaxesAreNearest
  <2> QED
    BY <2>1, <2>3
<1>3. ASSUME NEW q \in RatesUsed
      PROVE  h[q] = SumFunctionOnSet(LineTax, {l \in DOMAIN items : key[l] = q})
  <2> DEFINE taxed == {l \in DOMAIN items : key[l] = q}
             taxes == [l \in taxed |-> TaxInGross(LineFinal[l], q)]
  <2>1. h[q] = SumFunctionOnSet(taxes, taxed)
    <3>1. {l \in DOMAIN LineGross : items[l].rate = q} = taxed
      BY <1>1
    <3>2. h[q] = SummaryTax(q, LineGross, LineFinal)
      OBVIOUS
    <3> HIDE DEF h
    <3> QED
      BY <3>1, <3>2 DEF SummaryTax, SumFunction
  <2>2. IsFiniteSet(taxed)
    BY <1>1, FS_Subset
  <2>3. \A l \in taxed : taxes[l] = LineTax[l]
    BY <1>2
  <2> HIDE DEF h, taxes
  <2>4. SumFunctionOnSet(taxes, taxed) = SumFunctionOnSet(LineTax, taxed)
    <3> HIDE DEF taxed
    <3> QED
      BY <2>2, <2>3, SumAgree
  <2> QED
    BY <2>1, <2>4
<1>4. RatesUsed = {key[l] : l \in DOMAIN items} /\ DOMAIN key = DOMAIN items
  BY DEF RatesUsed
<1>5. SumFunction(h) = SumFunctionOnSet(h, RatesUsed) /\ SumFunction(LineTax) = SumFunctionOnSet(LineTax, DOMAIN items)
  BY <1>1 DEF SumFunction
<1>6. SumFunctionOnSet(h, RatesUsed) = SumFunctionOnSet(LineTax, DOMAIN items)
  <2> DEFINE S == DOMAIN items
  <2>1. IsFiniteSet(S) /\ \A l \in S : LineTax[l] \in Int
    BY <1>1, <1>2
  <2>3. SumsByKey(h, LineTax, key, S, RatesUsed)
    BY <1>3, <1>4 DEF SumsByKey
  <2> HIDE DEF h, key, S
  <2>2. SumFunctionOnSet(h, RatesUsed) = SumFunctionOnSet(LineTax, S)
    BY <2>1, <2>3, SumByKey
  <2> QED
    BY <2>2 DEF S
<1> QED
  BY <1>5, <1>6 DEF h

LEMMA InvAddsUp == TotalsInv => TotalsAddUp
<1> SUFFICES ASSUME TotalsInv, Calculated PROVE TotalsAddUp
  BY DEF TotalsAddUp, DiscountIsSharedFairly, TaxesReconcile
<1>1. /\ OrderFits /\ \A l \in DOMAIN LineGross : LineGross[l] # 0
      /\ ~ (WholeDiscount > LinesSubtotal)
      /\ result.gross = LineGross /\ result.subtotal = LinesSubtotal /\ result.discount = WholeDiscount
      /\ result.allocated = LineDiscounts /\ result.final = LineFinal /\ result.tax = LineTax
      /\ result.summary = [r \in RatesUsed |-> SummaryTax(r, LineGross, LineFinal)]
  <2>1. result = OrderTotals /\ result # Refused
    BY DEF TotalsInv, Calculated, Uncalculated, Refused
  <2> QED
    BY <2>1, TotalsParts DEF TotalsInv
<1>2. WholeDiscount <= LinesSubtotal /\ DOMAIN LineGross = DOMAIN items
  BY <1>1, AmountsTyped
<1>3. DiscountIsSharedFairly
  BY <1>1, <1>2, DiscountsAreShared DEF DiscountIsSharedFairly
<1>4. \A l \in DOMAIN items : LineFinal[l] \in Nat
  <2>1. \A l \in DOMAIN items : LineFinal[l] \in 0..LineGross[l]
    BY <1>1, <1>2, DiscountsAreShared
  <2> QED
    BY <2>1
<1>5. ASSUME NEW l \in DOMAIN items
      PROVE  LET rate == items[l].rate
                 error == 2 * (LineTax[l] * (10000 + rate) - LineFinal[l] * rate)
             IN -(10000 + rate) <= error /\ error <= 10000 + rate
  <2>1. items[l].rate \in Nat
    BY <1>1, ItemsTyped
  <2>2. LineTax[l] = TaxInGross(LineFinal[l], items[l].rate)
    BY <1>2 DEF LineTax
  <2>3. LineFinal[l] \in Nat
    BY <1>4
  <2> DEFINE final == LineFinal[l]
             rate == items[l].rate
  <2>4. /\ -(10000 + rate) <= 2 * (TaxInGross(final, rate) * (10000 + rate) - final * rate)
        /\ 2 * (TaxInGross(final, rate) * (10000 + rate) - final * rate) <= 10000 + rate
    <3>1. final \in Nat /\ rate \in Nat
      BY <2>1, <2>3
    <3> HIDE DEF final, rate
    <3> QED
      BY <3>1, TaxesAreNearest
  <2> QED
    BY <2>2, <2>4
<1>6. SumFunction(result.summary) = SumFunction(result.tax)
  BY <1>1, <1>4, SummariesAddUp
<1>7. TaxesReconcile
  BY <1>1, <1>5, <1>6 DEF TaxesReconcile
<1> QED
  BY <1>3, <1>7 DEF TotalsAddUp

(***************************************************************************)
(* The totals of any order: whatever its lines, prices, quantities, rates  *)
(* and discounts, the discount is shared to the last cent, each line bears *)
(* its exact share up to less than a cent and no more than it costs, a     *)
(* dearer one no less than a cheaper one, and the summaries by rate carry  *)
(* the tax of the lines (calculateOrderTotals).                            *)
(***************************************************************************)
THEOREM TotalsAlwaysAddUp == TotalsSpec => []TotalsAddUp
<1>1. TotalsInit => TotalsInv
  <2> SUFFICES ASSUME TotalsInit PROVE TotalsInv
    OBVIOUS
  <2>1. PICK ls \in SUBSET LineIds : IsFiniteSet(ls) /\ items \in [ls -> Item]
    BY DEF TotalsInit
  <2> QED
    BY <2>1 DEF TotalsInit, TotalsInv, OrderFits
<1>2. TotalsInv /\ [Calculate]_totalsVars => TotalsInv'
  <2>1. ASSUME UNCHANGED <<items, adjustments>> PROVE OrderTotals' = OrderTotals
    BY <2>1 DEF OrderTotals, SummaryTax
  <2> QED
    BY <2>1 DEF TotalsInv, OrderFits, Calculate, totalsVars, Uncalculated
<1>3. TotalsInv => TotalsAddUp
  BY InvAddsUp
<1> QED
  BY <1>1, <1>2, <1>3, PTL DEF TotalsSpec

-----------------------------------------------------------------------------
(***************************************************************************)
(* The floor plan.                                                         *)
(*                                                                         *)
(* Within one version the revisions count the documents of the draft, so   *)
(* that a page or a request that knows the current revision of the current *)
(* version knows the draft.                                                *)
(***************************************************************************)
VersionRow == [status : {"DRAFT", "PUBLISHED"}, revision : Nat, document : Document]
PageRow == [open : {TRUE}, version : Nat, revision : Nat, base : Document,
            document : Document, past : Seq(Document), future : Seq(Document),
            dirty : BOOLEAN, waitsFor : Nat]
RequestRow == [kind : {"SAVE", "PUBLISH"}, phase : RequestPhases, revision : Nat,
               document : Document, shown : Document, seen : Nat, version : Nat]

PlanTyped ==
  /\ planVersions \in Seq(VersionRow)
  /\ pages \in [PlanEditors -> {NoPage} \cup PageRow]
  /\ planRequests \in Seq(RequestRow)

\* Who says this revision of this version has seen this document.
Knows(version, revision, document, versions) ==
  LET draft == versions[Len(versions)] IN
  /\ version \in 1..Len(versions)
  /\ version = Len(versions) =>
       /\ revision <= draft.revision
       /\ revision = draft.revision => document = draft.document

PlanInv ==
  /\ PlanTyped
  /\ \A v \in 1..Current : planVersions[v].status = "DRAFT" <=> v = Current
  /\ \A e \in PlanEditors : pages[e].open =>
       /\ Knows(pages[e].version, pages[e].revision, pages[e].base, planVersions)
       /\ pages[e].dirty \/ pages[e].document = pages[e].base
  /\ \A n \in 1..Len(planRequests) :
       Knows(planRequests[n].version, planRequests[n].revision, planRequests[n].shown,
             planVersions)

LEMMA PlanInitially == PlanInit => PlanInv
BY DEF PlanInit, PlanInv, PlanTyped, NoPage, Current

LEMMA OpenedPage ==
  ASSUME PlanInv, NEW e \in PlanEditors, pages[e].open
  PROVE  pages[e] \in PageRow /\ Current # 0 /\ planVersions # << >>
<1>1. pages[e] \in PageRow
  BY DEF PlanInv, PlanTyped, NoPage
<1>2. pages[e].version \in 1..Current
  BY DEF PlanInv, Knows, Current
<1>3. Current \in Nat
  BY DEF Current, PlanInv, PlanTyped
<1> QED
  BY <1>1, <1>2, <1>3 DEF Current

\* What a page remembers are documents.
LEMMA HistoryIsOfDocuments ==
  ASSUME NEW past \in Seq(Document), NEW document \in Document
  PROVE  Remember(past, document) \in Seq(Document) /\ RememberAhead(past, document) \in Seq(Document)
<1>1. Len(past) \in Nat /\ HistoryDepth \in Nat \ {0}
  BY FloorPlanAssumption
<1>2. Remember(past, document) \in Seq(Document)
  <2>1. CASE Len(past) < HistoryDepth
    BY <2>1 DEF Remember
  <2>2. CASE ~ Len(past) < HistoryDepth
    <3>1. past # << >>
      BY <1>1, <2>2
    <3>2. Tail(past) \in Seq(Document)
      BY <3>1, HeadTailProperties
    <3> QED
      BY <2>2, <3>2 DEF Remember
  <2> QED
    BY <2>1, <2>2
<1>3. RememberAhead(past, document) \in Seq(Document)
  <2> DEFINE all == <<document>> \o past
             last == IF Len(past) < HistoryDepth THEN Len(past) + 1 ELSE HistoryDepth
  <2>1. <<document>> \in Seq(Document) /\ Len(<<document>>) = 1
    OBVIOUS
  <2>2. all \in Seq(Document) /\ Len(all) = Len(past) + 1
    BY <2>1, ConcatProperties
  <2> HIDE DEF all
  <2>3. last \in Nat /\ last <= Len(all)
    BY <1>1, <2>2
  <2> HIDE DEF last
  <2>4. \A i \in 1..last : all[i] \in Document
    BY <2>2, <2>3, ElementOfSeq
  <2>5. SubSeq(all, 1, last) \in Seq(Document)
    BY <2>3, <2>4, SubSeqProperties
  <2> QED
    BY <2>5 DEF RememberAhead, all, last
<1> QED
  BY <1>2, <1>3

\* A page shows the versions it was read from.
LEMMA PageShowsThem ==
  ASSUME NEW versions \in Seq(VersionRow), versions # << >>
  PROVE  /\ PageOf(versions) \in PageRow /\ PageOf(versions).open
         /\ PageOf(versions).version = Len(versions)
         /\ PageOf(versions).revision = versions[Len(versions)].revision
         /\ PageOf(versions).base = versions[Len(versions)].document
         /\ PageOf(versions).document = PageOf(versions).base
<1>1. Len(versions) \in Nat \ {0} /\ versions[Len(versions)] \in VersionRow
  BY EmptySeq, ElementOfSeq
<1> QED
  BY <1>1 DEF PageOf, PageRow, VersionRow

\* Edits leave what the page was loaded from.
LEMMA EditsKeepIt ==
  ASSUME PlanInv, NEW e \in PlanEditors, pages[e].open,
         NEW past \in Seq(Document), NEW future \in Seq(Document), NEW document \in Document,
         pages' = [pages EXCEPT ![e] =
                     [pages[e] EXCEPT !.past = past, !.future = future,
                                      !.document = document, !.dirty = TRUE]],
         UNCHANGED <<planVersions, planRequests>>
  PROVE  PlanInv'
<1>1. pages[e] \in PageRow
  BY OpenedPage
<1>2. PICK page : page = [pages[e] EXCEPT !.past = past, !.future = future,
                                          !.document = document, !.dirty = TRUE]
  OBVIOUS
<1>3. /\ page \in PageRow /\ page.version = pages[e].version /\ page.base = pages[e].base
      /\ page.revision = pages[e].revision /\ page.dirty
  BY <1>1, <1>2 DEF PageRow
<1>4. pages' = [pages EXCEPT ![e] = page]
  BY <1>2
<1> HIDE DEF PageRow
<1>5. pages' \in [PlanEditors -> {NoPage} \cup PageRow]
  BY <1>3, <1>4 DEF PlanInv, PlanTyped
<1>6. \A f \in PlanEditors : pages'[f].open =>
        /\ Knows(pages'[f].version, pages'[f].revision, pages'[f].base, planVersions)
        /\ pages'[f].dirty \/ pages'[f].document = pages'[f].base
  BY <1>3, <1>4 DEF PlanInv, PlanTyped
<1> QED
  BY <1>5, <1>6 DEF PlanInv, PlanTyped, Current

LEMMA DrawingKeepsIt ==
  ASSUME PlanInv, NEW e \in PlanEditors,
         \/ Undo(e) \/ Redo(e)
         \/ \E x \in Elements : AddElement(e, x) \/ RemoveSelected(e, x)
         \/ \E x, y \in Shapes : ReplaceElement(e, x, y)
  PROVE  PlanInv'
<1>0. pages[e].open /\ UNCHANGED <<planVersions, planRequests>>
  BY DEF Undo, Redo, AddElement, RemoveSelected, ReplaceElement, CountEdit
<1>1. pages[e] \in PageRow
  BY <1>0, OpenedPage
<1>2. /\ pages[e].document \in Document /\ pages[e].past \in Seq(Document)
      /\ pages[e].future \in Seq(Document)
  BY <1>1 DEF PageRow
<1>3. ASSUME NEW document \in Document, Commit(e, document) PROVE PlanInv'
  <2>1. Remember(pages[e].past, pages[e].document) \in Seq(Document) /\ << >> \in Seq(Document)
    <3>1. << >> \in Seq(Document)
      OBVIOUS
    <3> QED
      BY <1>2, <3>1, HistoryIsOfDocuments
  <2>2. pages' = [pages EXCEPT ![e] =
          [pages[e] EXCEPT !.past = Remember(pages[e].past, pages[e].document),
                           !.future = << >>, !.document = document, !.dirty = TRUE]]
    BY <1>1, <1>3 DEF Commit, PageRow
  <2> QED
    BY <1>0, <2>1, <2>2, EditsKeepIt
<1>4. ASSUME NEW x \in Elements, AddElement(e, x) \/ RemoveSelected(e, x) PROVE PlanInv'
  <2>1. pages[e].document \cup {x} \in Document /\ pages[e].document \ {x} \in Document
    BY <1>2 DEF Document
  <2> QED
    BY <1>3, <1>4, <2>1 DEF AddElement, RemoveSelected
<1>5. ASSUME NEW x \in Shapes, NEW y \in Shapes, ReplaceElement(e, x, y) PROVE PlanInv'
  <2>1. (pages[e].document \ {x}) \cup {y} \in Document
    BY <1>2 DEF Document, Elements
  <2> QED
    BY <1>3, <1>5, <2>1 DEF ReplaceElement
<1>6. CASE Undo(e)
  <2>0. pages[e].past # << >>
    BY <1>6 DEF Undo
  <2>1. Len(pages[e].past) \in Nat \ {0}
    BY <1>2, <2>0
  <2>2. pages[e].past[Len(pages[e].past)] \in Document
    BY <1>2, <2>1, ElementOfSeq
  <2>3. SubSeq(pages[e].past, 1, Len(pages[e].past) - 1) \in Seq(Document)
    <3>1. \A i \in 1..(Len(pages[e].past) - 1) : pages[e].past[i] \in Document
      BY <1>2, <2>1, ElementOfSeq
    <3> QED
      BY <2>1, <3>1, SubSeqProperties
  <2>4. RememberAhead(pages[e].future, pages[e].document) \in Seq(Document)
    BY <1>2, HistoryIsOfDocuments
  <2>5. pages' = [pages EXCEPT ![e] =
          [pages[e] EXCEPT !.past = SubSeq(pages[e].past, 1, Len(pages[e].past) - 1),
                           !.future = RememberAhead(pages[e].future, pages[e].document),
                           !.document = pages[e].past[Len(pages[e].past)], !.dirty = TRUE]]
    BY <1>1, <1>6 DEF Undo, PageRow
  <2> QED
    BY <1>0, <2>2, <2>3, <2>4, <2>5, EditsKeepIt
<1>7. CASE Redo(e)
  <2>0. pages[e].future # << >>
    BY <1>7 DEF Redo
  <2>1. Head(pages[e].future) \in Document /\ Tail(pages[e].future) \in Seq(Document)
    BY <1>2, <2>0, HeadTailProperties
  <2>2. Remember(pages[e].past, pages[e].document) \in Seq(Document)
    BY <1>2, HistoryIsOfDocuments
  <2>3. pages' = [pages EXCEPT ![e] =
          [pages[e] EXCEPT !.past = Remember(pages[e].past, pages[e].document),
                           !.future = Tail(pages[e].future),
                           !.document = Head(pages[e].future), !.dirty = TRUE]]
    BY <1>1, <1>7 DEF Redo, PageRow
  <2> QED
    BY <1>0, <2>1, <2>2, <2>3, EditsKeepIt
<1> QED
  BY <1>4, <1>5, <1>6, <1>7

\* A page that was read again knows what it shows.
LEMMA ReadingKeepsIt ==
  ASSUME PlanInv, NEW e \in PlanEditors, NEW versions \in Seq(VersionRow), versions # << >>,
         planVersions = << >> \/ versions = planVersions,
         \A v \in 1..Len(versions) : versions[v].status = "DRAFT" <=> v = Len(versions),
         planVersions' = versions, pages' = [pages EXCEPT ![e] = PageOf(versions)],
         UNCHANGED planRequests
  PROVE  PlanInv'
<1>1. PICK page : page = PageOf(versions)
  OBVIOUS
<1>2. /\ page \in PageRow /\ page.version = Len(versions)
      /\ page.revision = versions[Len(versions)].revision
      /\ page.base = versions[Len(versions)].document /\ page.document = page.base
  BY <1>1, PageShowsThem
<1> HIDE DEF PageRow
<1>3. Len(versions) \in Nat \ {0} /\ versions[Len(versions)] \in VersionRow
  BY EmptySeq, ElementOfSeq
<1>4. versions[Len(versions)].revision \in Nat
  BY <1>3 DEF VersionRow
<1>5. pages' \in [PlanEditors -> {NoPage} \cup PageRow]
  BY <1>1, <1>2 DEF PlanInv, PlanTyped
<1>6. Knows(page.version, page.revision, page.base, versions)
  BY <1>2, <1>3, <1>4 DEF Knows
<1>7. \A version, revision, document :
        Knows(version, revision, document, planVersions) =>
        Knows(version, revision, document, versions)
  <2>1. CASE planVersions = << >>
    BY <2>1 DEF Knows
  <2>2. CASE versions = planVersions
    BY <2>2
  <2> QED
    BY <2>1, <2>2
<1>8. ASSUME NEW f \in PlanEditors, pages'[f].open
      PROVE  /\ Knows(pages'[f].version, pages'[f].revision, pages'[f].base, versions)
             /\ pages'[f].dirty \/ pages'[f].document = pages'[f].base
  <2>1. CASE f = e
    BY <1>1, <1>2, <1>6, <2>1 DEF PlanInv, PlanTyped
  <2>2. CASE f # e
    <3>1. pages'[f] = pages[f]
      BY <2>2 DEF PlanInv, PlanTyped
    <3> QED
      BY <1>7, <1>8, <3>1 DEF PlanInv
  <2> QED
    BY <2>1, <2>2
<1>9. \A n \in 1..Len(planRequests) :
        Knows(planRequests[n].version, planRequests[n].revision, planRequests[n].shown, versions)
  BY <1>7 DEF PlanInv
<1> QED
  BY <1>5, <1>8, <1>9 DEF PlanInv, PlanTyped, Current

LEMMA LoadingKeepsIt ==
  ASSUME PlanInv, NEW e \in PlanEditors, OpenPage(e) \/ Answered(e)
  PROVE  PlanInv'
<1>1. CASE OpenPage(e)
  <2> DEFINE versions == IF planVersions = << >> THEN <<NewDraft({})>> ELSE planVersions
  <2>1. <<NewDraft({})>> \in Seq(VersionRow) /\ Len(<<NewDraft({})>>) = 1
        /\ <<NewDraft({})>>[1].status = "DRAFT" /\ <<NewDraft({})>> # << >>
    BY DEF NewDraft, VersionRow, Document
  <2>2. versions \in Seq(VersionRow) /\ versions # << >>
    BY <2>1 DEF PlanInv, PlanTyped
  <2>3. \A v \in 1..Len(versions) : versions[v].status = "DRAFT" <=> v = Len(versions)
    BY <2>1 DEF PlanInv, Current
  <2>4. planVersions = << >> \/ versions = planVersions
    OBVIOUS
  <2>5. planVersions' = versions /\ pages' = [pages EXCEPT ![e] = PageOf(versions)]
        /\ UNCHANGED planRequests
    BY <1>1 DEF OpenPage
  <2> HIDE DEF versions
  <2> QED
    BY <2>2, <2>3, <2>4, <2>5, ReadingKeepsIt
<1>2. CASE Answered(e)
  <2>1. pages[e].open
    BY <1>2 DEF Answered
  <2>2. planVersions # << >>
    BY <2>1, OpenedPage
  <2> QED
    BY <1>2, <2>2, ReadingKeepsIt DEF Answered, PlanInv, PlanTyped, Current
<1> QED
  BY <1>1, <1>2

\* Pages and requests that do not change what they know.
LEMMA WaitingKeepsIt ==
  ASSUME PlanInv, NEW e \in PlanEditors, pages[e].open, NEW waits \in Nat,
         pages' = [pages EXCEPT ![e].waitsFor = waits]
  PROVE  /\ pages' \in [PlanEditors -> {NoPage} \cup PageRow]
         /\ \A f \in PlanEditors : pages'[f].open =>
              /\ pages[f].open
              /\ pages'[f].version = pages[f].version /\ pages'[f].base = pages[f].base
              /\ pages'[f].revision = pages[f].revision /\ pages'[f].dirty = pages[f].dirty
              /\ pages'[f].document = pages[f].document
<1>1. pages[e] \in PageRow
  BY OpenedPage
<1>2. PICK page : page = [pages[e] EXCEPT !.waitsFor = waits]
  OBVIOUS
<1>3. /\ page \in PageRow /\ page.version = pages[e].version /\ page.base = pages[e].base
      /\ page.revision = pages[e].revision /\ page.dirty = pages[e].dirty
      /\ page.document = pages[e].document
  BY <1>1, <1>2 DEF PageRow
<1>4. pages' = [pages EXCEPT ![e] = page]
  BY <1>2
<1> HIDE DEF PageRow
<1> QED
  BY <1>3, <1>4 DEF PlanInv, PlanTyped

LEMMA SendingKeepsIt ==
  ASSUME PlanInv, NEW e \in PlanEditors, SendSave(e) \/ SendPublish(e) \/ Failed(e)
  PROVE  PlanInv'
<1>0. pages[e].open /\ UNCHANGED planVersions
  BY DEF SendSave, SendPublish, Failed, MaySave, MayPublish, Persist
<1>1. pages[e] \in PageRow
  BY <1>0, OpenedPage
<1>3. CASE Failed(e)
  <2>1. UNCHANGED planRequests /\ pages' = [pages EXCEPT ![e].waitsFor = 0]
    BY <1>3 DEF Failed
  <2> QED
    BY <1>0, <2>1, WaitingKeepsIt, ZenonT(60) DEF PlanInv, PlanTyped, Current
<1>4. ASSUME NEW kind \in {"SAVE", "PUBLISH"}, NEW document \in Document,
             NEW shown \in Document, Persist(e, kind, document, shown),
             shown = pages[e].base
      PROVE  PlanInv'
  <2> DEFINE row == [kind |-> kind, phase |-> "SENT", revision |-> pages[e].revision,
                     document |-> document, shown |-> shown, seen |-> 0,
                     version |-> pages[e].version]
  <2>1. row \in RequestRow
    BY <1>1 DEF RequestRow, PageRow, RequestPhases
  <2>2. Knows(row.version, row.revision, row.shown, planVersions)
    BY <1>0, <1>4 DEF PlanInv
  <2>3. planRequests' = Append(planRequests, row)
        /\ pages' = [pages EXCEPT ![e].waitsFor = Len(planRequests')]
    BY <1>4 DEF Persist
  <2> HIDE DEF row
  <2>4. /\ planRequests' \in Seq(RequestRow) /\ Len(planRequests') = Len(planRequests) + 1
        /\ \A n \in 1..Len(planRequests') :
             \/ planRequests'[n] = row
             \/ n \in 1..Len(planRequests) /\ planRequests'[n] = planRequests[n]
    BY <2>1, <2>3 DEF PlanInv, PlanTyped
  <2>5. Len(planRequests') \in Nat
    BY <2>4
  <2>6. \A n \in 1..Len(planRequests') :
          Knows(planRequests'[n].version, planRequests'[n].revision, planRequests'[n].shown,
                planVersions)
    BY <2>2, <2>4 DEF PlanInv
  <2> QED
    <3>1. /\ pages' \in [PlanEditors -> {NoPage} \cup PageRow]
          /\ \A f \in PlanEditors : pages'[f].open =>
               /\ pages[f].open
               /\ pages'[f].version = pages[f].version /\ pages'[f].base = pages[f].base
               /\ pages'[f].revision = pages[f].revision /\ pages'[f].dirty = pages[f].dirty
               /\ pages'[f].document = pages[f].document
      BY <1>0, <2>3, <2>5, WaitingKeepsIt
    <3>2. \A f \in PlanEditors : pages'[f].open =>
            /\ Knows(pages'[f].version, pages'[f].revision, pages'[f].base, planVersions)
            /\ pages'[f].dirty \/ pages'[f].document = pages'[f].base
      BY <3>1 DEF PlanInv
    <3> QED
      BY <1>0, <2>4, <2>6, <3>1, <3>2 DEF PlanInv, PlanTyped, Current
<1>5. CASE SendSave(e)
  BY <1>1, <1>4, <1>5 DEF SendSave, PageRow
<1>6. CASE SendPublish(e)
  <2>1. pages[e].document = pages[e].base
    BY <1>6 DEF SendPublish, MayPublish, PlanInv
  <2> QED
    BY <1>1, <1>4, <1>6, <2>1 DEF SendPublish, PageRow, Document
<1> QED
  BY <1>3, <1>5, <1>6

\* A request goes on, and perhaps its effect with it.
LEMMA RequestsMove ==
  ASSUME PlanInv, NEW n \in 1..Len(planRequests), NEW phase \in RequestPhases, NEW seen \in Nat,
         planRequests' = [planRequests EXCEPT ![n] =
                            [planRequests[n] EXCEPT !.phase = phase, !.seen = seen]]
  PROVE  /\ planRequests' \in Seq(RequestRow) /\ Len(planRequests') = Len(planRequests)
         /\ \A m \in 1..Len(planRequests) :
              /\ planRequests'[m].version = planRequests[m].version
              /\ planRequests'[m].revision = planRequests[m].revision
              /\ planRequests'[m].shown = planRequests[m].shown
              /\ planRequests'[m].phase = IF m = n THEN phase ELSE planRequests[m].phase
<1>1. planRequests \in Seq(RequestRow) /\ planRequests[n] \in RequestRow
  BY ElementOfSeq DEF PlanInv, PlanTyped
<1>2. PICK row : row = [planRequests[n] EXCEPT !.phase = phase, !.seen = seen]
  OBVIOUS
<1>3. /\ row \in RequestRow /\ row.version = planRequests[n].version /\ row.phase = phase
      /\ row.revision = planRequests[n].revision /\ row.shown = planRequests[n].shown
  BY <1>1, <1>2 DEF RequestRow
<1>4. planRequests' = [planRequests EXCEPT ![n] = row]
  BY <1>2
<1> HIDE DEF RequestRow
<1> QED
  BY <1>1, <1>3, <1>4, ExceptSeq

LEMMA APIKeepsIt ==
  ASSUME PlanInv, NEW n \in DOMAIN planRequests,
         CheckSave(n) \/ SaveDraft(n) \/ ConflictOnSave(n) \/ Publish(n)
  PROVE  /\ PlanInv'
         /\ \A v \in DOMAIN planVersions :
              planVersions[v].status = "PUBLISHED" => planVersions'[v] = planVersions[v]
         /\ \A m \in DOMAIN planRequests :
              planRequests[m].phase # "DONE" /\ planRequests'[m].phase = "DONE" =>
                \/ planRequests[m].version < Current
                \/ planRequests[m].shown = PlanDraft.document
<1> USE DEF RequestPhases
<1>0. n \in 1..Len(planRequests) /\ UNCHANGED pages /\ pages \in [PlanEditors -> {NoPage} \cup PageRow]
  BY DEF PlanInv, PlanTyped, CheckSave, SaveDraft, ConflictOnSave, Publish
<1>1. planRequests[n] \in RequestRow /\ planRequests \in Seq(RequestRow)
  BY <1>0, ElementOfSeq DEF PlanInv, PlanTyped
<1>2. planVersions # << >> /\ Current \in Nat \ {0} /\ PlanDraft \in VersionRow
      /\ planVersions \in Seq(VersionRow) /\ DOMAIN planVersions = 1..Current
  <2>1. planRequests[n].version \in 1..Current /\ planVersions \in Seq(VersionRow)
    BY <1>0 DEF PlanInv, PlanTyped, Knows, Current
  <2>2. Len(planVersions) \in Nat
    BY <2>1
  <2> QED
    BY <2>1, <2>2, ElementOfSeq DEF Current, PlanDraft
<1>3. ASSUME NEW phase \in RequestPhases, NEW seen \in Nat,
             planRequests' = [planRequests EXCEPT ![n] =
                                [planRequests[n] EXCEPT !.phase = phase, !.seen = seen]]
      PROVE  /\ planRequests' \in Seq(RequestRow) /\ Len(planRequests') = Len(planRequests)
             /\ \A m \in 1..Len(planRequests) :
                  /\ planRequests'[m].version = planRequests[m].version
                  /\ planRequests'[m].revision = planRequests[m].revision
                  /\ planRequests'[m].shown = planRequests[m].shown
                  /\ planRequests'[m].phase = IF m = n THEN phase ELSE planRequests[m].phase
  BY <1>0, <1>3, RequestsMove
<1>4. ASSUME NEW phase \in RequestPhases, Advance(n, phase)
      PROVE  /\ planRequests' \in Seq(RequestRow) /\ Len(planRequests') = Len(planRequests)
             /\ \A m \in 1..Len(planRequests) :
                  /\ planRequests'[m].version = planRequests[m].version
                  /\ planRequests'[m].revision = planRequests[m].revision
                  /\ planRequests'[m].shown = planRequests[m].shown
                  /\ planRequests'[m].phase = IF m = n THEN phase ELSE planRequests[m].phase
  <2>1. planRequests' = [planRequests EXCEPT ![n] =
          [planRequests[n] EXCEPT !.phase = phase, !.seen = planRequests[n].seen]]
    BY <1>1, <1>4 DEF Advance, RequestRow
  <2>2. planRequests[n].seen \in Nat
    BY <1>1 DEF RequestRow
  <2> QED
    BY <1>3, <2>1, <2>2
\* Nothing was done: nobody's knowledge changes.
<1>5. ASSUME UNCHANGED planVersions, NEW phase \in RequestPhases \ {"DONE"},
             planRequests' \in Seq(RequestRow), Len(planRequests') = Len(planRequests),
             \A m \in 1..Len(planRequests) :
               /\ planRequests'[m].version = planRequests[m].version
               /\ planRequests'[m].revision = planRequests[m].revision
               /\ planRequests'[m].shown = planRequests[m].shown
               /\ planRequests'[m].phase = IF m = n THEN phase ELSE planRequests[m].phase
      PROVE  /\ PlanInv' /\ planVersions' = planVersions
             /\ \A m \in 1..Len(planRequests) :
                  ~ (planRequests[m].phase # "DONE" /\ planRequests'[m].phase = "DONE")
  BY <1>0, <1>5 DEF PlanInv, PlanTyped, Current
<1>6. DOMAIN planRequests = 1..Len(planRequests)
  BY <1>1
\* Something was done: what was known of the draft is not known of the next.
<1>7. ASSUME NEW versions \in Seq(VersionRow), planVersions' = versions,
             \/ /\ Len(versions) = Current
                /\ versions[Current].revision > PlanDraft.revision
                /\ versions[Current].status = "DRAFT"
             \/ /\ Len(versions) = Current + 1
                /\ versions[Current].status = "PUBLISHED"
                /\ versions[Current + 1].status = "DRAFT",
             \A v \in 1..(Current - 1) : versions[v] = planVersions[v],
             planRequests[n].revision = PlanDraft.revision,
             Advance(n, "DONE")
      PROVE  /\ PlanInv'
             /\ \A v \in DOMAIN planVersions :
                  planVersions[v].status = "PUBLISHED" => planVersions'[v] = planVersions[v]
             /\ \A m \in DOMAIN planRequests :
                  planRequests[m].phase # "DONE" /\ planRequests'[m].phase = "DONE" =>
                    \/ planRequests[m].version < Current
                    \/ planRequests[m].shown = PlanDraft.document
  <2>1. ASSUME NEW version, NEW revision \in Nat, NEW document,
               Knows(version, revision, document, planVersions)
        PROVE  Knows(version, revision, document, versions)
    <3>1. /\ version \in 1..Current
          /\ version = Current => revision <= PlanDraft.revision
      BY <2>1 DEF Knows, Current, PlanDraft
    <3>2. PlanDraft.revision \in Nat
      BY <1>2 DEF VersionRow
    <3>3. CASE Len(versions) = Current + 1
      BY <1>2, <3>1, <3>3 DEF Knows
    <3>4. CASE Len(versions) = Current /\ versions[Current].revision > PlanDraft.revision
      <4>1. versions[Current] \in VersionRow
        BY <1>2, <3>4, ElementOfSeq
      <4>2. versions[Current].revision \in Nat
        BY <4>1 DEF VersionRow
      <4>3. version = Current => revision < versions[Current].revision
        BY <3>1, <3>2, <3>4, <4>2
      <4> QED
        BY <1>2, <3>1, <3>4, <4>2, <4>3 DEF Knows
    <3> QED
      BY <1>7, <3>3, <3>4
  <2>2. ASSUME NEW e \in PlanEditors, pages[e].open
        PROVE  Knows(pages[e].version, pages[e].revision, pages[e].base, versions)
    <3>1. pages[e].revision \in Nat
      BY <2>2, OpenedPage DEF PageRow
    <3> QED
      BY <2>1, <2>2, <3>1 DEF PlanInv
  <2>3. /\ planRequests' \in Seq(RequestRow) /\ Len(planRequests') = Len(planRequests)
        /\ \A m \in 1..Len(planRequests) :
             /\ planRequests'[m].version = planRequests[m].version
             /\ planRequests'[m].revision = planRequests[m].revision
             /\ planRequests'[m].shown = planRequests[m].shown
             /\ planRequests'[m].phase = IF m = n THEN "DONE" ELSE planRequests[m].phase
    BY <1>4, <1>7
  <2>4. ASSUME NEW m \in 1..Len(planRequests')
        PROVE  Knows(planRequests'[m].version, planRequests'[m].revision,
                     planRequests'[m].shown, versions)
    <3>1. m \in 1..Len(planRequests) /\ planRequests[m] \in RequestRow
      BY <1>1, <2>3, ElementOfSeq
    <3>2. planRequests[m].revision \in Nat
      BY <3>1 DEF RequestRow
    <3> QED
      BY <2>1, <2>3, <3>1, <3>2 DEF PlanInv
  <2>5. \A v \in 1..Len(versions) : versions[v].status = "DRAFT" <=> v = Len(versions)
    BY <1>2, <1>7 DEF PlanInv
  <2>6. PlanInv'
    BY <1>0, <1>7, <2>2, <2>3, <2>4, <2>5 DEF PlanInv, PlanTyped, Current
  <2>7. \A v \in DOMAIN planVersions :
          planVersions[v].status = "PUBLISHED" => planVersions'[v] = planVersions[v]
    BY <1>2, <1>7 DEF PlanInv
  <2>8. planRequests[n].version < Current \/ planRequests[n].shown = PlanDraft.document
    <3>1. Knows(planRequests[n].version, planRequests[n].revision, planRequests[n].shown,
                planVersions)
      BY <1>0 DEF PlanInv
    <3> QED
      BY <1>2, <1>7, <3>1 DEF Knows, Current, PlanDraft
  <2> QED
    BY <1>6, <2>3, <2>6, <2>7, <2>8
<1>8. CASE CheckSave(n)
  <2>1. Current \in Nat /\ UNCHANGED planVersions
    BY <1>2, <1>8 DEF CheckSave
  <2>2. PICK phase \in {"CHECKED", "REFUSED"} :
          planRequests' = [planRequests EXCEPT ![n] =
            [planRequests[n] EXCEPT !.phase = phase, !.seen = Current]]
    BY <1>1, <1>8 DEF CheckSave, RequestRow
  <2>3. /\ planRequests' \in Seq(RequestRow) /\ Len(planRequests') = Len(planRequests)
        /\ \A m \in 1..Len(planRequests) :
             /\ planRequests'[m].version = planRequests[m].version
             /\ planRequests'[m].revision = planRequests[m].revision
             /\ planRequests'[m].shown = planRequests[m].shown
             /\ planRequests'[m].phase = IF m = n THEN phase ELSE planRequests[m].phase
    BY <1>3, <2>1, <2>2, ZenonT(60)
  <2>4. phase \in RequestPhases \ {"DONE"}
    OBVIOUS
  <2> HIDE DEF RequestPhases
  <2> QED
    BY <1>5, <1>6, <2>1, <2>3, <2>4
<1>9. CASE ConflictOnSave(n)
  BY <1>4, <1>5, <1>6, <1>9 DEF ConflictOnSave
<1>10. CASE SaveDraft(n)
  <2>0. PICK draft : draft = PlanDraft
    OBVIOUS
  <2>1. planRequests[n].document \in Document /\ draft \in VersionRow
    BY <1>1, <1>2, <2>0 DEF RequestRow
  <2> DEFINE row == [draft EXCEPT !.document = planRequests[n].document,
                                  !.revision = draft.revision + 1]
  <2>2. row \in VersionRow /\ row.revision = PlanDraft.revision + 1
        /\ row.status = PlanDraft.status
    <3>1. draft.revision \in Nat
      BY <2>1 DEF VersionRow
    <3>2. PICK next \in Nat : next = draft.revision + 1
      BY <3>1
    <3>3. row = [draft EXCEPT !.document = planRequests[n].document, !.revision = next]
      BY <3>2
    <3>4. row \in VersionRow /\ row.revision = next /\ row.status = draft.status
      BY <2>1, <3>3 DEF VersionRow
    <3> QED
      BY <2>0, <3>2, <3>4
  <2>3. planVersions' = [planVersions EXCEPT ![Current] = row]
    BY <1>10, <2>0 DEF SaveDraft, Revised
  <2>4. PlanDraft.status = "DRAFT" /\ PlanDraft.revision \in Nat
    BY <1>2 DEF PlanInv, PlanDraft, VersionRow
  <2> HIDE DEF row
  <2>5. /\ planVersions' \in Seq(VersionRow) /\ Len(planVersions') = Current
        /\ planVersions'[Current] = row
        /\ \A v \in 1..(Current - 1) : planVersions'[v] = planVersions[v]
    <3>1. Current \in 1..Len(planVersions) /\ Current = Len(planVersions)
      BY <1>2 DEF Current
    <3> HIDE DEF VersionRow
    <3>2. /\ planVersions' \in Seq(VersionRow) /\ Len(planVersions') = Len(planVersions)
          /\ \A v \in 1..Len(planVersions) :
               planVersions'[v] = IF v = Current THEN row ELSE planVersions[v]
      BY <1>2, <2>2, <2>3, <3>1, ExceptSeq
    <3>3. \A v \in 1..(Current - 1) : v \in 1..Len(planVersions) /\ v # Current
      <4>1. PICK k \in Nat : k = Current /\ k = Len(planVersions)
        BY <1>2 DEF Current
      <4>2. \A v \in 1..(k - 1) : v \in 1..k /\ v # k
        OBVIOUS
      <4> QED
        BY <4>1, <4>2
    <3>4. planVersions'[Current] = row
      BY <3>1, <3>2
    <3> QED
      BY <3>1, <3>2, <3>3, <3>4
  <2>6. planVersions'[Current].revision > PlanDraft.revision
    BY <2>2, <2>4, <2>5
  <2> QED
    BY <1>7, <1>10, <2>2, <2>4, <2>5, <2>6 DEF SaveDraft, SaveMatches
<1>11. CASE Publish(n)
  <2>1. CASE ~ MayBePublished(n)
    BY <1>4, <1>5, <1>6, <1>11, <2>1 DEF Publish
  <2>2. CASE MayBePublished(n)
    <3> DEFINE row == [PlanDraft EXCEPT !.status = "PUBLISHED"]
               next == NewDraft(PlanDraft.document)
               before == [planVersions EXCEPT ![Current] = row]
    <3>1. row \in VersionRow /\ row.status = "PUBLISHED"
          /\ next \in VersionRow /\ next.status = "DRAFT"
      BY <1>2 DEF VersionRow, NewDraft
    <3>2. [planVersions EXCEPT ![Current].status = "PUBLISHED"] = before
      BY DEF PlanDraft
    <3>3. planVersions' = Append(before, next)
      BY <1>11, <2>2, <3>2 DEF Publish, Published
    <3> HIDE DEF row, next
    <3>4. /\ before \in Seq(VersionRow) /\ Len(before) = Current /\ before[Current] = row
          /\ \A v \in 1..(Current - 1) : before[v] = planVersions[v]
      BY <1>2, <3>1, ExceptSeq DEF Current
    <3> HIDE DEF before
    <3>5. /\ planVersions' \in Seq(VersionRow) /\ Len(planVersions') = Current + 1
          /\ planVersions'[Current + 1] = next
          /\ \A v \in 1..Current : planVersions'[v] = before[v]
      BY <1>2, <3>1, <3>3, <3>4
    <3>6. planVersions'[Current] = row /\ \A v \in 1..(Current - 1) : planVersions'[v] = planVersions[v]
      BY <1>2, <3>4, <3>5
    <3> QED
      BY <1>7, <1>11, <2>2, <3>1, <3>5, <3>6 DEF Publish, MayBePublished
  <2> QED
    BY <2>1, <2>2
<1> QED
  BY <1>8, <1>9, <1>10, <1>11

\* What a request replaces or publishes is what its page showed, unless the page is of
\* an earlier version, and a published version never changes (saveDraftScoped,
\* publishScoped, persist of the floor plan's editor).
THEOREM PlansStayAsShown == FloorPlanSpec => PlansAreAsShown
<1> DEFINE Kept ==
      /\ \A v \in DOMAIN planVersions :
           planVersions[v].status = "PUBLISHED" => planVersions'[v] = planVersions[v]
      /\ \A n \in DOMAIN planRequests :
           planRequests[n].phase # "DONE" /\ planRequests'[n].phase = "DONE" =>
             \/ planRequests[n].version < Current
             \/ planRequests[n].shown = PlanDraft.document
<1>1. PlanInit => PlanInv
  BY PlanInitially
<1>2. ASSUME PlanInv, [PlanNext]_planVars PROVE PlanInv' /\ Kept
  <2>1. ASSUME NEW n \in DOMAIN planRequests,
               CheckSave(n) \/ SaveDraft(n) \/ ConflictOnSave(n) \/ Publish(n)
        PROVE  PlanInv' /\ Kept
    BY <1>2, <2>1, APIKeepsIt
  <2>2. ASSUME NEW e \in PlanEditors, OpenPage(e) \/ Answered(e) PROVE PlanInv' /\ Kept
    <3>1. PlanInv' /\ UNCHANGED planRequests
      BY <1>2, <2>2, LoadingKeepsIt DEF OpenPage, Answered
    <3>2. \A v \in DOMAIN planVersions : planVersions'[v] = planVersions[v]
      BY <2>2 DEF OpenPage, Answered
    <3> QED
      BY <3>1, <3>2
  <2>3. ASSUME NEW e \in PlanEditors, SendSave(e) \/ SendPublish(e) \/ Failed(e)
        PROVE  PlanInv' /\ Kept
    <3>1. PlanInv' /\ UNCHANGED planVersions
      BY <1>2, <2>3, SendingKeepsIt DEF SendSave, SendPublish, Persist, Failed
    <3>2. \A n \in DOMAIN planRequests : planRequests'[n] = planRequests[n]
      <4>1. CASE Failed(e)
        BY <4>1 DEF Failed
      <4>2. ASSUME NEW kind, NEW document, NEW shown, Persist(e, kind, document, shown)
            PROVE  \A n \in DOMAIN planRequests : planRequests'[n] = planRequests[n]
        <5>1. PICK row : planRequests' = Append(planRequests, row)
          BY <4>2 DEF Persist
        <5>2. planRequests \in Seq(RequestRow)
          BY <1>2 DEF PlanInv, PlanTyped
        <5> QED
          BY <5>1, <5>2
      <4> QED
        BY <2>3, <4>1, <4>2 DEF SendSave, SendPublish
    <3> QED
      BY <3>1, <3>2
  <2>4. ASSUME NEW e \in PlanEditors,
               \/ Undo(e) \/ Redo(e)
               \/ \E x \in Elements : AddElement(e, x) \/ RemoveSelected(e, x)
               \/ \E x, y \in Shapes : ReplaceElement(e, x, y)
        PROVE  PlanInv' /\ Kept
    <3>1. UNCHANGED <<planVersions, planRequests>>
      BY <2>4 DEF Undo, Redo, AddElement, RemoveSelected, ReplaceElement, CountEdit
    <3> QED
      BY <1>2, <2>4, <3>1, DrawingKeepsIt
  <2>5. CASE UNCHANGED <<planVersions, pages, planRequests>>
    BY <1>2, <2>5 DEF PlanInv, PlanTyped, Current
  <2>6. ASSUME NEW t \in PlanTables, ToggleTable(t) PROVE UNCHANGED <<planVersions, pages, planRequests>>
    BY <2>6 DEF ToggleTable
  <2> QED
    BY <1>2, <2>1, <2>2, <2>3, <2>4, <2>5, <2>6 DEF PlanNext, planVars
<1>3. PlanInv /\ [PlanNext]_planVars => PlanInv' /\ Kept
  BY <1>2
<1> QED
  BY <1>1, <1>3, PTL DEF FloorPlanSpec, PlansAreAsShown
=============================================================================
