-------------------------- MODULE OrderCalculator --------------------------
(***************************************************************************)
(* The totals of an order, in cents: gross amounts from quantities, the    *)
(* discounts and their distribution over the lines by largest remainder,   *)
(* the tax contained in each line, and the summaries by tax rate.          *)
(***************************************************************************)
EXTENDS Integers, FiniteSets, FiniteSetsExt

CONSTANTS
  LineIds,       \* lines of an order: numbers, in the order of their identifiers
  UnitPrices, Quantities, Scales, Rates,   \* what a line may have: Rates in basis points
  FixedValues, PercentValues               \* what a discount may have

ASSUME CalculatorAssumption ==
  /\ LineIds \subseteq Nat
  /\ UnitPrices \cup Quantities \cup FixedValues \cup PercentValues \subseteq Nat \ {0}
  /\ Scales \subseteq 0..6 /\ Rates \subseteq 0..10000

VARIABLES items, adjustments, result

totalsVars == <<items, adjustments, result>>

\* What calculateOrderTotals throws, or what a caller has yet to call.
Refused == [state |-> "REFUSED"]
Uncalculated == [state |-> "UNCALCULATED"]

-----------------------------------------------------------------------------
(***************************************************************************)
(* Mistakes this code could contain and does not: each, in the place of    *)
(* the definition it is a variant of, makes a property fail.               *)
(***************************************************************************)
\* Every line but the first keeps the rounded-down share, the first the rest.
AllocateRestToFirst(gross, subtotal, discount) ==
  LET base == [l \in DOMAIN gross |-> (gross[l] * discount) \div subtotal]
      rest == discount - SumFunction(base)
  IN [l \in DOMAIN gross |-> base[l] + IF l = Min(DOMAIN gross) THEN rest ELSE 0]

-----------------------------------------------------------------------------
\* roundPositiveRatio: halves are rounded up.
RoundedRatio(numerator, denominator) == (numerator + denominator \div 2) \div denominator

\* calculateGrossFromQuantity: a scale of 3 means thousandths.
GrossFromQuantity(price, quantity, scale) == RoundedRatio(price * quantity, 10^scale)

\* calculateVatFromGross: the tax contained in a gross amount.
TaxInGross(gross, rate) ==
  IF rate = 0 \/ gross = 0 THEN 0 ELSE RoundedRatio(gross * rate, 10000 + rate)

\* adjustmentAmount
AdjustmentAmount(subtotal, a) ==
  IF a.type = "FIXED" THEN a.value ELSE RoundedRatio(subtotal * a.value, 10000)

\* allocateDiscount: each line its share rounded down; the cents left over go
\* to the largest remainders, ties to the smaller identifier.
AllocateDiscount(gross, subtotal, discount) ==
  LET share(l) == gross[l] * discount
      rest == discount - SumFunction([l \in DOMAIN gross |-> share(l) \div subtotal])
      precedes(k, l) == \/ share(k) % subtotal > share(l) % subtotal
                        \/ share(k) % subtotal = share(l) % subtotal /\ k < l
  IN [l \in DOMAIN gross |->
       share(l) \div subtotal
         + IF Cardinality({k \in DOMAIN gross : precedes(k, l)}) < rest THEN 1 ELSE 0]

\* The summary of a rate adds up the taxes of its lines.
SummaryTax(rate, gross, final) ==
  LET taxed == {l \in DOMAIN gross : items[l].rate = rate}
  IN SumFunction([l \in taxed |-> TaxInGross(final[l], rate)])

\* calculateOrderTotals
OrderTotals ==
  LET gross == [l \in DOMAIN items |->
                  GrossFromQuantity(items[l].price, items[l].quantity, items[l].scale)]
      subtotal == SumFunction(gross)
      discount == SumFunction([a \in adjustments |-> AdjustmentAmount(subtotal, a)])
      allocated == IF discount = 0 THEN [l \in DOMAIN gross |-> 0]
                                   ELSE AllocateDiscount(gross, subtotal, discount)
      final == [l \in DOMAIN gross |-> gross[l] - allocated[l]]
      rates == {items[l].rate : l \in DOMAIN items}
  IN IF (\E l \in DOMAIN gross : gross[l] = 0) \/ discount > subtotal
       THEN Refused
       ELSE [state |-> "CALCULATED", gross |-> gross, subtotal |-> subtotal,
             discount |-> discount, allocated |-> allocated, final |-> final,
             tax |-> [l \in DOMAIN gross |-> TaxInGross(final[l], items[l].rate)],
             summary |-> [r \in rates |-> SummaryTax(r, gross, final)]]

Item == [price : UnitPrices, quantity : Quantities, scale : Scales, rate : Rates]
Adjustment == [type : {"FIXED"}, value : FixedValues]
                \cup [type : {"PERCENTAGE"}, value : PercentValues]

TotalsInit ==
  /\ \E ls \in SUBSET LineIds : IsFiniteSet(ls) /\ items \in [ls -> Item]
  /\ adjustments \in {as \in SUBSET Adjustment : IsFiniteSet(as) /\ Cardinality(as) <= 2}
  /\ (adjustments # {} => items # <<>>)
  /\ result = Uncalculated

Calculate ==
  /\ result = Uncalculated
  /\ result' = OrderTotals
  /\ UNCHANGED <<items, adjustments>>

TotalsSpec == TotalsInit /\ [][Calculate]_totalsVars

-----------------------------------------------------------------------------
Calculated == result.state = "CALCULATED"

(***************************************************************************)
(* The discount is distributed to the last cent; every line bears its      *)
(* exact share up to less than a cent, never more than it costs; and a     *)
(* dearer line never bears less of it than a cheaper one                   *)
(* (allocateDiscount; the check of the repository is one worked example).  *)
(***************************************************************************)
DiscountIsSharedFairly ==
  Calculated =>
    /\ SumFunction(result.allocated) = result.discount
    /\ \A l \in DOMAIN items :
         LET exact == result.gross[l] * result.discount
             error == result.allocated[l] * result.subtotal - exact
         IN /\ -result.subtotal < error /\ error < result.subtotal
            /\ result.final[l] \in 0..result.gross[l]
    /\ \A k, l \in DOMAIN items :
         result.gross[k] > result.gross[l] => result.allocated[k] >= result.allocated[l]

(***************************************************************************)
(* The tax of a line is contained in its price, to the nearest cent, and   *)
(* the summaries by rate carry exactly the tax of the lines: what the      *)
(* fiscal document declares is what the customer was charged               *)
(* (calculateVatFromGross, calculateOrderTotals).                          *)
(***************************************************************************)
TaxesReconcile ==
  Calculated =>
    /\ \A l \in DOMAIN items :
         LET rate == items[l].rate
             error == 2 * (result.tax[l] * (10000 + rate) - result.final[l] * rate)
         IN -(10000 + rate) <= error /\ error <= 10000 + rate
    /\ SumFunction(result.summary) = SumFunction(result.tax)

(***************************************************************************)
(* What a customer is charged adds up, discount and tax.                   *)
(***************************************************************************)
TotalsAddUp == DiscountIsSharedFairly /\ TaxesReconcile
=============================================================================
