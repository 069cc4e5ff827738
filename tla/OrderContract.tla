--------------------------- MODULE OrderContract ---------------------------
(***************************************************************************)
(* What the cash desk promises about the money of an order, whatever       *)
(* happens to its lines, its tickets and its table: an amount is asked for *)
(* while the order stands still, is taken back only while nothing of it    *)
(* was received, and the order counts as paid from the moment the whole    *)
(* amount is in the books and for good.                                    *)
(***************************************************************************)
EXTENDS Integers

CONSTANT Orders

VARIABLES
  phase,     \* open, due, paid or void
  charge,    \* the amount asked for
  balance    \* the part of it in the books

Init ==
  /\ phase = [o \in Orders |-> "open"]
  /\ charge = [o \in Orders |-> 0]
  /\ balance = [o \in Orders |-> 0]

Moves(o, from, to) == phase[o] = from /\ phase' = [phase EXCEPT ![o] = to]

\* An amount is asked for.
Ask(o) ==
  /\ Moves(o, "open", "due")
  /\ charge'[o] > 0
  /\ charge' = [charge EXCEPT ![o] = charge'[o]]
  /\ UNCHANGED balance

\* A part of it comes in.
Receive(o) ==
  /\ phase[o] = "due" /\ balance'[o] > balance[o] /\ balance'[o] < charge[o]
  /\ balance' = [balance EXCEPT ![o] = balance'[o]]
  /\ UNCHANGED <<phase, charge>>

\* The last part comes in.
Settle(o) ==
  /\ Moves(o, "due", "paid")
  /\ balance' = [balance EXCEPT ![o] = charge[o]]
  /\ UNCHANGED charge

\* Money goes back to the customer.
Return(o) ==
  /\ phase[o] \in {"due", "paid"} /\ balance'[o] < balance[o] /\ balance'[o] >= 0
  /\ balance' = [balance EXCEPT ![o] = balance'[o]]
  /\ UNCHANGED <<phase, charge>>

\* The amount is no longer asked for.
Release(o) ==
  /\ Moves(o, "due", "open")
  /\ balance[o] = 0
  /\ charge' = [charge EXCEPT ![o] = 0]
  /\ UNCHANGED balance

\* The order is given up before an amount is asked for.
Void(o) ==
  /\ Moves(o, "open", "void")
  /\ UNCHANGED <<charge, balance>>

Next ==
  \E o \in Orders : Ask(o) \/ Receive(o) \/ Settle(o) \/ Return(o) \/ Release(o) \/ Void(o)

vars == <<phase, charge, balance>>

Spec == Init /\ [][Next]_vars
=============================================================================
