-------------------------- MODULE TableAllocation --------------------------
(***************************************************************************)
(* What the booking of an event promises about its tables, whatever the    *)
(* holds, payments, expiry jobs and operators do: a table has one booking  *)
(* at a time, a booking is given its tables once, keeps all of them until  *)
(* it gives all of them back, and never gets any of them again.            *)
(***************************************************************************)
CONSTANTS Tables, Bookings

VARIABLES
  held,   \* the tables of each booking
  over    \* the bookings that have given their tables back

vars == <<held, over>>

TypeOK == held \in [Bookings -> SUBSET Tables] /\ over \subseteq Bookings

Init == held = [b \in Bookings |-> {}] /\ over = {}

Holding == {b \in Bookings : held[b] # {}}

Without(R) == [b \in Bookings |-> IF b \in R THEN {} ELSE held[b]]

\* Several bookings may end in one step: the expiry jobs work in batches.
GiveBack(R) ==
  /\ R \subseteq Holding
  /\ held' = Without(R)
  /\ over' = over \cup R

\* A new booking may take what expired bookings give back in the same step.
Take(b, S, R) ==
  /\ R \subseteq Holding
  /\ b \in Bookings \ (Holding \cup over)
  /\ S # {}
  /\ \A c \in Bookings \ R : held[c] \cap S = {}
  /\ held' = [Without(R) EXCEPT ![b] = S]
  /\ over' = over \cup R

Next ==
  \E R \in SUBSET Bookings :
    GiveBack(R) \/ \E b \in Bookings, S \in SUBSET Tables : Take(b, S, R)

Spec == Init /\ [][Next]_vars
=============================================================================
