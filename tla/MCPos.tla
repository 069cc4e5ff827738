------------------------------- MODULE MCPos -------------------------------
(***************************************************************************)
(* The point of sale for TLC: one run of four parts that share no step.    *)
(* The kitchen and the tables leave the cash desk's refunds and splits     *)
(* aside, the desk has no tables, and the calculator stands alone; each    *)
(* part bounds what the others would multiply.                             *)
(***************************************************************************)
EXTENDS PosSystem, OrderCalculator, TLC

CONSTANTS o1, l1, l2, food, drinks

OneOrder == [l \in Lines |-> o1]
Prices == [l \in Lines |-> IF l = l1 THEN 1 ELSE 2]
DearPrices == [l \in Lines |-> 3]
TwoCategories == [l \in Lines |-> IF l = l1 THEN food ELSE drinks]

VARIABLE part

mcVars == <<part, vars, totalsVars>>

Parts == {"kitchen", "tables", "desk", "totals"}
NoTotals == items = <<>> /\ adjustments = {} /\ result = Uncalculated

MCInit ==
  /\ part \in Parts
  /\ Init
  /\ IF part = "totals" THEN TotalsInit ELSE NoTotals

Versions(n) == \A o \in Orders : order'[o].version <= n
NoDiscounts == \A o \in Orders : order'[o].discounts = {}
OnlyOneLine == \A l \in Lines : quantity'[l] <= IF l = l1 THEN 0 ELSE 1
AtMost(n, table) == Cardinality({x \in DOMAIN table : table[x].status # "NONE"}) <= n

KitchenPart ==
  /\ part = "kitchen"
  /\ OrdersNext \/ KitchenNext
  /\ Versions(4) /\ NoDiscounts
  /\ quantity'[l2] <= 1 /\ \A o \in Orders : order'[o].mode = "COUNTER"

TablesPart ==
  /\ part = "tables"
  /\ OrdersNext \/ DisplayNext \/ TablesNext \/ CheckoutNext
  /\ Versions(4) /\ NoDiscounts /\ OnlyOneLine
  /\ AtMost(1, checkout') /\ AtMost(1, payment')
  /\ \A p \in Payments : payment'[p].method = "CASH" /\ payment'[p].refunded = 0
  /\ Cardinality(checked') <= 2

DeskPart ==
  /\ part = "desk"
  /\ OrdersNext \/ DisplayNext \/ CheckoutNext
  /\ Versions(6) /\ OnlyOneLine

MCNext ==
  /\ \/ (KitchenPart \/ TablesPart \/ DeskPart) /\ UNCHANGED totalsVars
     \/ part = "totals" /\ Calculate /\ UNCHANGED vars
  /\ UNCHANGED part

MCSpec == MCInit /\ [][MCNext]_mcVars

\* Tickets and bills share their model values: one permutation serves both.
Symmetry == Permutations(Tickets) \cup Permutations(Payments)
=============================================================================
