------------------------------ MODULE PosState ------------------------------
(***************************************************************************)
(* What the point of sale keeps in the database: orders with their lines   *)
(* and discounts, kitchen routing and tickets, table sessions, checkouts   *)
(* and payments.  Every operation is one transaction under the row lock of *)
(* the order, the session, the checkout or the ticket it changes; requests *)
(* carry the version their device last saw and are refused when the row    *)
(* has moved on.  Identifiers of the model are the clients' idempotency    *)
(* keys: a request repeated because its answer was lost finds its row and  *)
(* changes nothing.                                                        *)
(***************************************************************************)
EXTENDS Integers, FiniteSets, FiniteSetsExt

CONSTANTS
  Orders, Lines, Discounts,   \* Discounts: amounts of fixed adjustments
  Stations, Tickets, Tables, Sessions, Checkouts, Payments,
  OrderOf,      \* Lines -> Orders
  Price,        \* Lines -> Nat \ {0}: the frozen unit price
  Category,     \* Lines -> categories of the catalogue
  MaxQuantity, MaxVersion   \* bounds: quantity of a line, version of an order

Categories == {Category[l] : l \in Lines}
LinesOf(o) == {l \in Lines : OrderOf[l] = o}

ASSUME PosAssumption ==
  /\ OrderOf \in [Lines -> Orders]
  /\ Price \in [Lines -> Nat \ {0}]
  /\ DOMAIN Category = Lines
  /\ Discounts \subseteq Nat \ {0}
  /\ {MaxQuantity, MaxVersion} \subseteq Nat \ {0}

\* A database holds finitely many rows.
ASSUME FiniteTables ==
  \A rows \in {Lines, Discounts, Tickets, Checkouts, Payments} : IsFiniteSet(rows)

Nowhere == "NOWHERE"   \* no route, no session, no table
ASSUME NowhereAssumption == Nowhere \notin Stations \cup Tables \cup Sessions

OrderStatus == {"NONE", "OPEN", "HELD", "AWAITING_PAYMENT", "PAID", "CANCELLED"}
ServiceModes == {"COUNTER", "TABLE"}
TicketStatus == {"NONE", "QUEUED", "IN_PROGRESS", "READY", "SERVED", "CANCELLED"}
SessionStatus == {"NONE", "OPEN", "CLOSED", "CANCELLED"}
CheckoutStatus == {"NONE", "OPEN", "COMPLETED", "CANCELLED"}
PaymentStatus == {"NONE", "PENDING", "CAPTURED", "FAILED", "CANCELLED",
                  "PARTIALLY_REFUNDED", "REFUNDED"}

VARIABLES
  order,      \* Orders -> [status, version, mode, total, discounts]
  quantity,   \* Lines -> quantity of the row, 0 without one
  shown,      \* Orders -> [version, total] on the cashier's display
  route,      \* Categories -> station, or Nowhere
  active,     \* stations and tables with status ACTIVE
  ticket,     \* Tickets -> [status, order, station, items]
  session,    \* Sessions -> [status, table]
  attached,   \* Orders -> session, or Nowhere
  checked,    \* table requests past their first check, before their write
  checkout,   \* Checkouts -> [status, order, total]
  payment     \* Payments -> [status, checkout, method, amount, refunded]

orderVars == <<order, quantity, shown>>
kitchenVars == <<route, ticket>>
tableVars == <<session, attached, checked>>
moneyVars == <<checkout, payment>>
vars == <<orderVars, kitchenVars, active, tableVars, moneyVars>>

NoOrder == [status |-> "NONE", version |-> 0, mode |-> "COUNTER", total |-> 0,
            discounts |-> {}]
NoTicket == [status |-> "NONE", order |-> Nowhere, station |-> Nowhere,
             items |-> [l \in Lines |-> 0]]
NoSession == [status |-> "NONE", table |-> Nowhere]
NoCheckout == [status |-> "NONE", order |-> Nowhere, total |-> 0]
NoPayment == [status |-> "NONE", checkout |-> Nowhere, method |-> "CASH",
              amount |-> 0, refunded |-> 0]

Init ==
  /\ order = [o \in Orders |-> NoOrder]
  /\ quantity = [l \in Lines |-> 0]
  /\ shown = [o \in Orders |-> [version |-> 0, total |-> 0]]
  /\ route = [c \in Categories |-> Nowhere]
  /\ active = Stations \cup Tables
  /\ ticket = [t \in Tickets |-> NoTicket]
  /\ session = [s \in Sessions |-> NoSession]
  /\ attached = [o \in Orders |-> Nowhere]
  /\ checked = {}
  /\ checkout = [c \in Checkouts |-> NoCheckout]
  /\ payment = [p \in Payments |-> NoPayment]

TypeOK ==
  /\ order \in [Orders -> [status : OrderStatus, version : Nat, mode : ServiceModes,
                           total : Nat, discounts : SUBSET Discounts]]
  /\ quantity \in [Lines -> 0..MaxQuantity]
  /\ shown \in [Orders -> [version : Nat, total : Nat]]
  /\ route \in [Categories -> Stations \cup {Nowhere}]
  /\ active \subseteq Stations \cup Tables
  /\ ticket \in [Tickets -> [status : TicketStatus, order : Orders \cup {Nowhere},
                             station : Stations \cup {Nowhere},
                             items : [Lines -> 0..MaxQuantity]]]
  /\ session \in [Sessions -> [status : SessionStatus, table : Tables \cup {Nowhere}]]
  /\ attached \in [Orders -> Sessions \cup {Nowhere}]
  /\ checked \subseteq [request : {"OPEN", "MOVE", "DEACTIVATE"},
                        session : Sessions \cup {Nowhere}, table : Tables]
  /\ checkout \in [Checkouts -> [status : CheckoutStatus, order : Orders \cup {Nowhere},
                                 total : Nat]]
  /\ payment \in [Payments -> [status : PaymentStatus,
                               checkout : Checkouts \cup {Nowhere},
                               method : {"CASH", "CARD", "OTHER"},
                               amount : Nat, refunded : Nat]]

-----------------------------------------------------------------------------
(* Reading the database *)

\* What the lines of an order cost in the quantities q, and the discounts on them.
SubtotalOf(o, q) == SumFunction([l \in LinesOf(o) |-> Price[l] * q[l]])
Subtotal(o) == SubtotalOf(o, quantity)
DiscountOf(discounts) == SumFunction([d \in discounts |-> d])

\* sentKitchenQuantity: the quantities of a line in the tickets that count.
SentToKitchen == {t \in Tickets : ticket[t].status \notin {"NONE", "CANCELLED"}}
Sent(l) == SumFunction([t \in SentToKitchen |-> ticket[t].items[l]])

PaymentsOf(c) == {p \in Payments : payment[p].checkout = c}
Amount(ps) == SumFunction([p \in ps |-> payment[p].amount])

\* summarizeCheckout counts captured and pending payments and no others.
Captured(c) == Amount({p \in PaymentsOf(c) : payment[p].status = "CAPTURED"})
Pending(c) == Amount({p \in PaymentsOf(c) : payment[p].status = "PENDING"})

\* Money the merchant was given and has not given back.
Kept(c) ==
  LET kept == {p \in PaymentsOf(c) : payment[p].status \in {"CAPTURED", "PARTIALLY_REFUNDED"}}
  IN SumFunction([p \in kept |-> payment[p].amount - payment[p].refunded])

\* The version in a request is the current one and the order can be bumped.
AtVersion(o) == order[o].version < MaxVersion
Bumped(o) == [order EXCEPT ![o].version = @ + 1]
=============================================================================
