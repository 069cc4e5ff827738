--------------------------- MODULE MCReservations ---------------------------
(***************************************************************************)
(* Small instances of ReservationSystem.  t1 and t2 are tables for two; t3 *)
(* is a table for four.                                                    *)
(***************************************************************************)
EXTENDS ReservationSystem, TLC

CONSTANTS t1, t2, t3

MCSeats == [t \in Tables |-> IF t = t3 THEN 4 ELSE 2]

\* Holds, attempts and mutations differ only in their names; so do t1 and t2.
MCSymmetry ==
  Permutations(Holds) \cup Permutations(Tables \ {t3})
    \cup Permutations(PayKeys) \cup Permutations(Mutations)
=============================================================================
