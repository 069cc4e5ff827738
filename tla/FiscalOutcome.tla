--------------------------- MODULE FiscalOutcome ---------------------------
(***************************************************************************)
(* What fiscalisation promises of a document whose provider cannot be      *)
(* asked again: it is transmitted at most once, a refusal means that it    *)
(* was not transmitted, and doubt is never resolved by trying again.       *)
(***************************************************************************)
CONSTANT Documents

VARIABLES
  outcome,   \* what the system believes of each document
  transmitted   \* the documents the tax authority has received

Init == /\ outcome = [d \in Documents |-> "OPEN"]
        /\ transmitted = {}

Becomes(d, o) == outcome' = [outcome EXCEPT ![d] = o]

\* The document reaches the authority, once and never after a refusal.
Transmit(d) ==
  /\ outcome[d] \in {"OPEN", "DOUBT"} /\ d \notin transmitted
  /\ transmitted' = transmitted \cup {d}
  /\ UNCHANGED outcome

Confirm(d) ==
  /\ outcome[d] \in {"OPEN", "DOUBT"} /\ d \in transmitted
  /\ Becomes(d, "DONE")
  /\ UNCHANGED transmitted

Doubt(d) ==
  /\ outcome[d] = "OPEN"
  /\ Becomes(d, "DOUBT")
  /\ UNCHANGED transmitted

Refuse(d) ==
  /\ outcome[d] \in {"OPEN", "DOUBT"} /\ d \notin transmitted
  /\ Becomes(d, "REFUSED")
  /\ UNCHANGED transmitted

\* A refused document may be submitted again; one in doubt may not.
Reopen(d) ==
  /\ outcome[d] = "REFUSED"
  /\ Becomes(d, "OPEN")
  /\ UNCHANGED transmitted

Next == \E d \in Documents :
          Transmit(d) \/ Confirm(d) \/ Doubt(d) \/ Refuse(d) \/ Reopen(d)

Spec == Init /\ [][Next]_<<outcome, transmitted>>
=============================================================================
