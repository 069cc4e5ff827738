----------------------------- MODULE MCService -----------------------------
(***************************************************************************)
(* An evening of service, for TLC: one run of parts that share no step.    *)
(* An event from draft to archive, a booking with two payment attempts,    *)
(* the catalogue with a till that shows it, orders composed at two tills,  *)
(* the floor plan edited on two pages.                                     *)
(***************************************************************************)
EXTENDS ReservationSystem, EventEditor, Catalogue, OrderTills, FloorPlan, TLC

CONSTANTS t1, e1, e2, product1, category, vat, here, there, pt1, wall, offside

MCSeats == [t \in Tables |-> 2]

\* What forms of an event may say: the second for a larger place, the third without
\* tables, the last more than its table has seats for.
Dates(opens, closes, starts, ends) ==
  [opens |-> opens, closes |-> closes, starts |-> starts, ends |-> ends]
Form(window, capacity, party, S) ==
  [window |-> window, capacity |-> capacity, party |-> party, tables |-> S]
MCForms ==
  {Form(Dates(0, 1, 2, 3), 2, 2, {e1}), Form(Dates(0, 2, 2, 3), 4, 2, {e1, e2}),
   Form(Dates(1, 3, 2, 3), 1, 1, {}), Form(Dates(1, 2, 2, 3), 3, 3, {e2})}

-----------------------------------------------------------------------------
(* Catalogues to begin with *)

Always == [from |-> -1, to |-> 2]
Today == [from |-> -1, to |-> 0]
MCWindows == {Always, Today}

On == [status |-> "ACTIVE"]

\* Two lists, both for the first place; the variant's price is in the second only.
\* own and local: the second list's priorities; currency: of it; window: of the first.
FullCatalogue(own, local, currency, window, listed) ==
  [categories |-> [c \in CategoryIds |-> On],
   vatRates |-> [v \in VatRates |-> On],
   products |-> [p \in Products |->
     [status |-> "ACTIVE", category |-> category, vat |-> vat, odd |-> FALSE]],
   variants |-> [p \in Products |-> On],
   lists |-> [l \in Lists |->
     [status |-> "ACTIVE", priority |-> IF l = 2 THEN own ELSE 0,
      currency |-> IF l = 2 THEN currency ELSE "EUR",
      window |-> IF l = 1 THEN window ELSE Always]],
   assignments |-> [id \in Places \X Lists |->
     IF id = <<there, 1>> THEN Absent
     ELSE [status |-> "ACTIVE", priority |-> IF id = <<here, 2>> THEN local ELSE 0]],
   prices |-> [id \in Lists \X Products \X Keys |->
     IF id[1] = 1 /\ id[3] = "VARIANT" THEN Absent
     ELSE [status |-> "ACTIVE", amount |-> id[1], window |-> Always]],
   offers |-> [id \in Places \X Products |-> listed]]

Without(S, full) ==
  [table \in DOMAIN full |->
     IF table \in S THEN [id \in DOMAIN full[table] |-> Absent] ELSE full[table]]

Empty(table) == \A id \in DOMAIN table : table[id] = Absent

MCStarts ==
  LET full == FullCatalogue(1, -1, "EUR", Always, Absent) IN
  {full, FullCatalogue(0, 0, "CHF", Today, On), Without({"products", "variants", "prices"}, full),
   Without({"variants", "prices"}, full), Without(DOMAIN full, full)}

-----------------------------------------------------------------------------
VARIABLE part

mcVars == <<part, vars, editorVars, catalogueVars, tillVars, planVars>>

MCInit ==
  /\ part \in {"booking", "events", "catalogue", "orders", "plans"}
  /\ Init
  /\ EditorInit
  /\ part # "events" => venue = [t \in EventTables |-> [seats |-> 2, active |-> TRUE]]
  /\ CatalogueInit
  /\ part # "catalogue" => \A table \in DOMAIN catalogue : Empty(catalogue[table])
  /\ OrderTillsInit
  /\ part # "orders" => Written = {}
  /\ PlanInit

MCNext ==
  /\ \/ /\ part = "booking" /\ Next /\ eventStatus' # "ARCHIVED"
        /\ UNCHANGED <<editorVars, catalogueVars, tillVars, planVars>>
     \/ part = "events" /\ EditorNext /\ UNCHANGED <<vars, catalogueVars, tillVars, planVars>>
     \/ part = "catalogue" /\ CatalogueNext /\ UNCHANGED <<vars, editorVars, tillVars, planVars>>
     \/ part = "orders" /\ OrderTillsNext /\ UNCHANGED <<vars, editorVars, catalogueVars, planVars>>
     \/ /\ part = "plans" /\ PlanNext /\ Len(planRequests') + tableChanges' <= MaxPlanRequests
        /\ UNCHANGED <<vars, editorVars, catalogueVars, tillVars>>
  /\ UNCHANGED part

MCSpec == MCInit /\ [][MCNext]_mcVars

Symmetry == Permutations(PayKeys) \cup Permutations(OrderDevices) \cup Permutations(PlanEditors)
=============================================================================
