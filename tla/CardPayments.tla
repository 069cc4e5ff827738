---------------------------- MODULE CardPayments ----------------------------
(***************************************************************************)
(* A bill paid at the tills of one place: every till works on the copy of  *)
(* the checkout its last answer carried, sends one request at a time, and  *)
(* has card payments carried out by a terminal behind a bridge, whose      *)
(* answers may be lost.  What the API does of each request is PosCheckout; *)
(* here is what the tills make of it.                                      *)
(***************************************************************************)
EXTENDS Integers, FiniteSets, FiniteSetsExt, Sequences

CONSTANTS
  Tills,         \* devices with the app
  Total,         \* what the order costs
  MaxPayments, MaxMishaps, MaxHandDecisions   \* bounds

ASSUME CardAssumption == {Total, MaxPayments, MaxMishaps, MaxHandDecisions} \subseteq Nat

VARIABLES
  bill,       \* checkout_sessions: the checkout's status and its payments, oldest first
  terminal,   \* the terminal: how far it is with each payment
  screen,     \* each till: the copy of the bill it shows, or NoCopy
  due,        \* each till: what the answer it waits for will bring, or NOTHING
  bridged,    \* each till: the payment its request to the bridge is about, or 0
  strays,     \* requests still under way whose sender gave up
  mishaps,    \* answers lost and deaths of an app so far
  byHand      \* payments a person decided on, whatever the terminal says

cardVars == <<bill, terminal, screen, due, bridged, strays, mishaps, byHand>>

PaymentIds == 1..MaxPayments
NoCopy == [status |-> "NONE", payments |-> <<>>]

CardInit ==
  /\ bill = NoCopy
  /\ terminal = [p \in PaymentIds |-> "IDLE"]
  /\ screen = [d \in Tills |-> NoCopy]
  /\ due = [d \in Tills |-> "NOTHING"]
  /\ bridged = [d \in Tills |-> 0]
  /\ strays = {} /\ mishaps = 0 /\ byHand = {}

-----------------------------------------------------------------------------
(* What a copy of the bill says *)

WithStatus(b, S) == {p \in DOMAIN b.payments : b.payments[p].status \in S}
Sum(b, S) == SumFunction([p \in WithStatus(b, S) |-> b.payments[p].amount])
AvailableOn(b) == Total - Sum(b, {"PENDING", "CAPTURED"})
PendingCards(b) == {p \in WithStatus(b, {"PENDING"}) : b.payments[p].provider = "EXTERNAL"}

NotBusy(d) == due[d] = "NOTHING"   \* not _busy
CanMutate(d) == screen[d].status = "OPEN" /\ NotBusy(d)

-----------------------------------------------------------------------------
(***************************************************************************)
(* Mistakes this code could contain and does not: each, in the place of    *)
(* the definition it is a variant of, makes a property fail.               *)
(***************************************************************************)
\* Without an answer of the terminal the payment is taken for declined.
DeclinedUnlessApproved(p, heard) ==
  IF heard /\ terminal[p] = "APPROVED" THEN "APPROVED" ELSE "DECLINED"

\* Once nothing is left to ask for, the bill is taken for settled.
VerifiableWhileShort(d, p) == p \in PendingCards(screen[d]) /\ AvailableOn(screen[d]) > 0
-----------------------------------------------------------------------------
(* What the API does of a request; PosCheckout has it in detail *)

PaidIfCovered(b) == IF Sum(b, {"CAPTURED"}) = Total THEN [b EXCEPT !.status = "COMPLETED"] ELSE b

Created(r) ==
  Append(bill.payments,
    [provider |-> r.provider, amount |-> r.amount,
     status |-> IF r.provider = "CASH" THEN "CAPTURED" ELSE "PENDING"])

AllCancelled ==
  [p \in DOMAIN bill.payments |->
     IF p \in WithStatus(bill, {"PENDING"})
       THEN [bill.payments[p] EXCEPT !.status = "CANCELLED"] ELSE bill.payments[p]]

\* The bill after a request, if the API accepts it.
Result(r) ==
  CASE r.op = "OPEN" -> [bill EXCEPT !.status = "OPEN"]
    [] r.op = "CREATE" -> PaidIfCovered([bill EXCEPT !.payments = Created(r)])
    [] r.op = "CANCEL_BILL" -> [status |-> "CANCELLED", payments |-> AllCancelled]
    [] OTHER -> PaidIfCovered([bill EXCEPT !.payments[r.payment].status = r.op])

\* Refusals that tell the till its copy is stale: CHECKOUT_NOT_OPEN, PAYMENT_NOT_PENDING
Outdated(r) ==
  \/ r.op # "OPEN" /\ bill.status # "OPEN"
  \/ r.op \in {"CAPTURED", "FAILED", "CANCELLED"} /\ bill.payments[r.payment].status # "PENDING"

Granted(r) ==
  /\ ~ Outdated(r)
  /\ r.op = "OPEN" => bill.status = "NONE"
  /\ r.op = "CREATE" => r.amount <= AvailableOn(bill) /\ Len(bill.payments) < MaxPayments
  /\ r.op = "CANCEL_BILL" => Sum(bill, {"CAPTURED"}) = 0

Carry(r) == bill' = IF Granted(r) THEN Result(r) ELSE bill

\* A refusal because of a stale copy makes the till read the bill again.
Answers(r) ==
  IF Granted(r) THEN IF r.op = "CREATE" /\ r.provider = "EXTERNAL" THEN "START" ELSE "COPY"
  ELSE IF Outdated(r) \/ (r.op = "OPEN" /\ bill.status = "OPEN") THEN "COPY" ELSE "NOTHING"

\* Till d sends a request: it is carried out and the answer is due, or the till
\* hears nothing in time and the request may still arrive, or never.
Send(d, r) ==
  /\ \/ Carry(r) /\ due' = [due EXCEPT ![d] = Answers(r)] /\ UNCHANGED <<strays, mishaps>>
     \/ /\ mishaps < MaxMishaps /\ mishaps' = mishaps + 1
        /\ strays' = strays \cup {r}
        /\ UNCHANGED <<bill, due>>
  /\ UNCHANGED <<terminal, screen>>

-----------------------------------------------------------------------------
(* Requests of a till *)

\* openForOrder: finds the order's open checkout or opens one.
OpenForOrder(d) ==
  /\ NotBusy(d) /\ screen[d].status # "OPEN" /\ bill.status \in {"NONE", "OPEN"}
  /\ Send(d, [op |-> "OPEN"])
  /\ UNCHANGED <<bridged, byHand>>

RefreshCopy(d) ==
  /\ NotBusy(d) /\ screen[d] # NoCopy
  /\ screen' = [screen EXCEPT ![d] = bill]
  /\ UNCHANGED <<bill, terminal, due, bridged, strays, mishaps, byHand>>

Create(provider, amount) == [op |-> "CREATE", provider |-> provider, amount |-> amount]

AddCashPayment(d, amount) ==
  /\ CanMutate(d) /\ amount <= AvailableOn(screen[d])
  /\ Send(d, Create("CASH", amount))
  /\ UNCHANGED <<bridged, byHand>>

\* preflight tells whether the bridge is there: if not, a person operates the terminal.
StartCardPayment(d, provider) ==
  /\ CanMutate(d) /\ PendingCards(screen[d]) = {}
  /\ AvailableOn(screen[d]) > 0
  /\ Send(d, Create(provider, AvailableOn(screen[d])))
  /\ UNCHANGED <<bridged, byHand>>

Verifiable(d, p) == p \in PendingCards(screen[d])

\* verifyExternalTerminalPayment
VerifyPayment(d, p) ==
  /\ Verifiable(d, p) /\ NotBusy(d) /\ bridged[d] = 0
  /\ bridged' = [bridged EXCEPT ![d] = p]
  /\ UNCHANGED <<bill, terminal, screen, due, strays, mishaps, byHand>>

\* The buttons of a pending payment: the cashier says what the terminal did.
DecideByHand(d, op, p) ==
  /\ CanMutate(d) /\ p \in WithStatus(screen[d], {"PENDING"})
  /\ Cardinality(byHand) < MaxHandDecisions
  /\ byHand' = byHand \cup {p}
  /\ Send(d, [op |-> op, payment |-> p])
  /\ UNCHANGED bridged

CancelBill(d) ==
  /\ CanMutate(d) /\ Sum(screen[d], {"CAPTURED"}) = 0
  /\ Cardinality(byHand) < MaxHandDecisions
  /\ byHand' = PaymentIds
  /\ Send(d, [op |-> "CANCEL_BILL"])
  /\ UNCHANGED bridged

StrayArrives(r) ==
  /\ r \in strays
  /\ Carry(r) /\ strays' = strays \ {r}
  /\ UNCHANGED <<terminal, screen, due, bridged, mishaps, byHand>>

-----------------------------------------------------------------------------
(* What a till makes of the answers *)

\* startPayment on the bridge, of the newest pending card payment of the copy
StartAtTerminal(d, p) ==
  /\ bridged' = [bridged EXCEPT ![d] = p]
  /\ terminal' = [terminal EXCEPT ![p] = IF @ = "IDLE" THEN "ASKED" ELSE @]

\* paymentResponse reads the copy after the transaction.
ReceiveCopy(d) ==
  /\ ~ NotBusy(d)
  /\ screen' = [screen EXCEPT ![d] = bill] /\ due' = [due EXCEPT ![d] = "NOTHING"]
  /\ IF due[d] = "START" /\ bridged[d] = 0 /\ PendingCards(bill) # {}
       THEN StartAtTerminal(d, Max(PendingCards(bill)))
       ELSE UNCHANGED <<terminal, bridged>>
  /\ UNCHANGED <<bill, strays, mishaps, byHand>>

AnswerIsLost(d) ==
  /\ ~ NotBusy(d) /\ mishaps < MaxMishaps /\ mishaps' = mishaps + 1
  /\ due' = [due EXCEPT ![d] = "NOTHING"]
  /\ UNCHANGED <<bill, terminal, screen, bridged, strays, byHand>>

TillDies(d) ==
  /\ mishaps < MaxMishaps /\ mishaps' = mishaps + 1
  /\ due' = [due EXCEPT ![d] = "NOTHING"]
  /\ screen' = [screen EXCEPT ![d] = NoCopy]
  /\ bridged' = [bridged EXCEPT ![d] = 0]
  /\ UNCHANGED <<bill, terminal, strays, byHand>>

-----------------------------------------------------------------------------
(* The terminal and its bridge *)

CustomerPays(p, outcome) ==
  /\ terminal[p] = "ASKED"
  /\ terminal' = [terminal EXCEPT ![p] = outcome]
  /\ UNCHANGED <<bill, screen, due, bridged, strays, mishaps, byHand>>

\* TerminalBridgeResult.fromJson; no answer, and one that cannot be read, is UNKNOWN.
Decision(p, heard) == IF heard THEN terminal[p] ELSE "UNKNOWN"

\* _applyTerminalBridgeResult: nothing is sent while the till is busy.
ApplyBridgeResult(d, heard) ==
  LET p == bridged[d]
      decision == Decision(p, heard) IN
  /\ p # 0 /\ bridged' = [bridged EXCEPT ![d] = 0]
  /\ ~ heard => mishaps < MaxMishaps
  /\ IF CanMutate(d) /\ decision \in {"APPROVED", "DECLINED"}
       THEN Send(d, [op |-> IF decision = "APPROVED" THEN "CAPTURED" ELSE "FAILED",
                        payment |-> p])
       ELSE /\ mishaps' = IF heard THEN mishaps ELSE mishaps + 1
            /\ UNCHANGED <<bill, terminal, screen, due, strays>>
  /\ UNCHANGED byHand

CardNext ==
  \/ \E d \in Tills :
       \/ OpenForOrder(d) \/ RefreshCopy(d) \/ CancelBill(d)
       \/ \E amount \in 1..Total : AddCashPayment(d, amount)
       \/ \E provider \in {"EXTERNAL", "MANUAL"} : StartCardPayment(d, provider)
       \/ \E p \in PaymentIds :
            VerifyPayment(d, p) \/ \E op \in {"CAPTURED", "CANCELLED"} : DecideByHand(d, op, p)
       \/ ReceiveCopy(d) \/ AnswerIsLost(d) \/ TillDies(d)
       \/ \E heard \in BOOLEAN : ApplyBridgeResult(d, heard)
  \/ \E r \in strays : StrayArrives(r)
  \/ \E p \in PaymentIds, outcome \in {"APPROVED", "DECLINED"} : CustomerPays(p, outcome)

\* Answers arrive, and somebody opens the bill, reads it again and verifies what it
\* shows as pending as long as it does.
ReceiveAnswer == \E d \in Tills : ReceiveCopy(d)
HearBridge == \E d \in Tills : ApplyBridgeResult(d, TRUE)
LookAgain == \E d \in Tills : OpenForOrder(d) \/ RefreshCopy(d)
VerifyPending == \E d \in Tills, p \in PaymentIds : VerifyPayment(d, p)

CardFairness ==
  /\ WF_cardVars(ReceiveAnswer) /\ WF_cardVars(HearBridge)
  /\ SF_cardVars(LookAgain) /\ SF_cardVars(VerifyPending)
CardSpec == CardInit /\ [][CardNext]_cardVars /\ CardFairness

-----------------------------------------------------------------------------
(***************************************************************************)
(* Whatever is lost between till, terminal and API, and whichever till     *)
(* asks: unless a person decided otherwise, a charged card belongs to a    *)
(* payment that is or can still be captured, what is captured was charged, *)
(* what failed was declined; nobody is charged more than the bill, and a   *)
(* completed bill is paid in full (startCardPayment,                       *)
(* _applyTerminalBridgeResult, capturePayment).                            *)
(***************************************************************************)
ChargesMatchPayments ==
  LET cards == {p \in DOMAIN bill.payments : bill.payments[p].provider = "EXTERNAL"} \ byHand
      status(p) == bill.payments[p].status IN
  /\ \A p \in cards :
       /\ terminal[p] = "APPROVED" => status(p) \in {"PENDING", "CAPTURED"}
       /\ status(p) = "CAPTURED" => terminal[p] = "APPROVED"
       /\ status(p) = "FAILED" => terminal[p] = "DECLINED"
  /\ Sum(bill, {"PENDING", "CAPTURED"}) <= Total
  /\ bill.status = "COMPLETED" => Sum(bill, {"CAPTURED"}) = Total

(***************************************************************************)
(* A card that was charged is recorded, also when the till that started it *)
(* died or lost the terminal's answer: some till verifies it.              *)
(***************************************************************************)
ChargesAreRecorded ==
  \A p \in PaymentIds :
    terminal[p] = "APPROVED" ~> p \notin WithStatus(bill, {"PENDING"})
=============================================================================
