------------------------------ MODULE MCTables ------------------------------
(***************************************************************************)
(* Tables, for TLC: one run of three parts that share no step.  They are   *)
(* offered and booked; a till frees them after payments and cancellations; *)
(* and it sees to the documents and receipts of one sale.                  *)
(***************************************************************************)
EXTENDS MCReservations, SaleClosing

VARIABLE part

mcVars == <<part, vars, closingVars>>

\* Orders differ only in their names, and so do tables: the receipts are those of the
\* first order, and the second table is used by another till only.
FirstOrder == CHOOSE o \in SaleOrders : TRUE
SecondTable == CHOOSE p \in Parties : TRUE

\* The floor part has a provider that is always there; the receipts have no tables.
MCInit ==
  /\ part \in {"bookings", "floor", "receipts"}
  /\ Init /\ ClosingInit
  /\ part = "receipts" \/
     merchant = [runtime |-> "READY", provider |-> "ADE", prints |-> FALSE]
  /\ parties[SecondTable] = NotOpened
  /\ part = "floor" \/ parties = [p \in Parties |-> NotOpened]

PastTable(r) == stage[r] \in {"FISCAL", "ISSUE", "RECEIPT", "BARE", "ORDERS"}

\* While a floor read after an order was attached is awaited, another till seats a party
\* and gives it an order.
SeatsParty ==
  /\ \E o \in SaleOrders : late[o].known
  /\ \A p \in Parties \ {SecondTable} : parties'[p] = parties[p]
  /\ parties'[SecondTable].version = 1 + Cardinality(parties'[SecondTable].orders)
  /\ orderStatus' = orderStatus

\* Checkouts are shown before anything else, a run that is past its table ends at once,
\* and nothing goes wrong with its document.
FloorPart ==
  /\ (\E o \in SaleOrders : observed[o] = "NONE") => observed' # observed
  /\ \A r \in Runs : PastTable(r) => \E q \in Runs : PastTable(q) /\ stage'[q] # stage[q]
  /\ fiscal'.runtime \in {"NONE", "READY"} /\ (fiscal' # fiscal => stage' # stage)
  /\ faults' = faults
       \/ <<fiscal', documents', receiptJobs'>> = <<fiscal, documents, receiptJobs>>
  /\ \A o \in SaleOrders :
       stage'[<<o, "RECOVERY">>] = "IDLE" /\ documents'[o] \in {"NONE", "PENDING"}
  /\ \A r \in Runs : background'[r] >= background[r]
  /\ faults' <= 1 /\ commands' <= 1
  /\ SecondTable \notin {selection'.table, command'.party}
  /\ \/ elsewhere' + commands' <= 1 /\ parties'[SecondTable] = NotOpened
     \/ elsewhere' > 0 /\ commands = 1 /\ faults' = 0 /\ (elsewhere' # elsewhere => SeatsParty)

ReceiptsPart ==
  /\ <<parties', shownVars'>> = <<parties, shownVars>>
  /\ commands' <= 1 /\ (faults' = 2 => commands' = 0)
  /\ \A q \in SaleOrders \ {FirstOrder} :
       orderStatus'[q] = "OPEN" /\ observed'[q] = "NONE"

MCNext ==
  /\ \/ part = "bookings" /\ Next /\ UNCHANGED closingVars
     \/ part = "floor" /\ ClosingNext /\ FloorPart /\ UNCHANGED vars
     \/ part = "receipts" /\ ClosingNext /\ ReceiptsPart /\ UNCHANGED vars
  /\ UNCHANGED part

MCSpec == MCInit /\ [][MCNext]_mcVars
=============================================================================
