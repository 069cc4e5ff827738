# Verification of the Fluxa platform

Fluxa is a platform for venues: customers book tables for events and pay for
them, staff seat them and take orders on a POS, payments and refunds are
collected, receipts are printed and fiscal documents are transmitted. This
directory holds TLA+ models of its core logic, the TLC configurations that check
them on small instances, and proofs (TLAPS) of what they promise for instances
of any size. Paths below are relative to the root of the repository's sources.

1. [Inventory](#1-inventory-of-the-system) – 2. [Modules](#2-modules) –
3. [What the runs check](#3-what-the-runs-check) –
4. [What is proved](#4-what-is-proved) – 5. [Not modelled](#5-not-modelled) –
6. [Plan](#6-plan)

## 1. Inventory of the system

`apps/api` is a NestJS service that talks to PostgreSQL with SQL transactions;
`apps/background-worker` and `apps/fiscal-worker` consume BullMQ queues;
`apps/ade-fiscal-worker` drives the tax agency's portal; `apps/pos` (Flutter)
works offline and synchronises; `apps/web` is a Next.js front end. `libs` hold
configuration, the Drizzle schema and the queue module; `drizzle` holds the
migrations, whose constraints and triggers are part of the logic. Components
interact through rows that several services lock and change, through queues, and
through HTTP calls to Stripe, the fiscal provider and the portal; there are no
in-process callbacks between them.

| Component | State it keeps | Operations | What is hard | What makes it correct |
|---|---|---|---|---|
| Event inventory (`events/*`) | `events.status`, `event_table_inventory`, `event_table_groups` and members | replaceTables, merge, split, publish, cancel, archive | merges and splits race with bookings; groups left over from a draft; history that refers to deleted groups | booked units stay on offer; units partition the tables; published seats cover the capacity |
| Event editor (`events/*`, `apps/web` form) | the event's row, its tables, its rules | a form saved in three requests | pieces of two saves mix; a step of a save fails | whatever was applied can be sold as it stands; what is published stays |
| Hold engine (`reservations/event-inventory-reservation-engine`, `reservation-engine`) | `reservation_holds`, assignments and their physical-table keys | createHold, getHold, cancelHold, sweep of lapsed holds | lapse against conversion; idempotency keys; two ways (unit, physical table) to clash | no table promised twice; capacity respected; keys follow assignments |
| Conversion (`reservation-conversion`) | `reservations` (version 1), owner of the assignment | convert | the sweep or a job takes the hold between reading and converting | exactly one owner of a table at any time |
| Reservation payments (`reservation-stripe`) | `reservation_payments`, Stripe's sessions and events, outbox | createCheckout (prepare, Stripe call, attach), four webhooks | crashes between the steps, several attempts, late, repeated and reordered events | collected money is recorded and serves the booking or is owed back |
| Expiry worker (`apps/background-worker`) | the same rows | expire holds, expire unpaid reservations | batches that skip locked rows; payments that arrive meanwhile | unpaid tables come back; nothing paid expires |
| Reservation operations (`control-center/reservation-operations`) | `reservations.version`, mutationIds in `audit_events`, `table_sessions` | check-in, seat, complete, no-show | stale screens, requests sent again, tables taken by walk-ins | one winner per version; one party per table |
| Table sessions (`hospitality/*`) | `table_sessions`, orders attached to them | open, move, attach, close, cancel, deactivate | checks and writes in separate statements | one bill per table; closed bills are settled |
| Kitchen (`hospitality/kitchen*`) | routes, tickets and their items | dispatch, the tickets' transitions | lines change while they are sent, tickets are cancelled and sent again | the kitchen gets no more than was ordered |
| Orders and pricing (`orders/*`) | orders, lines, adjustments, totals, `version` | create, add, change, hold, resume, cancel; the calculator | optimistic versions; cents that a division leaves over | totals follow lines; discounts and taxes add up |
| POS checkout, refunds (`payments/*`) | checkouts, transactions, refunds | open, pay in parts, capture, fail, cancel, refund | split bills, refunds at any time, cancelling while a card is pending | captured minus refunded equals what the order says |
| Card terminal (`apps/pos` checkout) | a till's copy of the bill, the terminal's answer | start, capture, verify, decide by hand | lost answers, tills that die, two tills on one bill | a charged card is captured once, and is captured in the end |
| Tills (`apps/pos` orders) | draft id, active order, requests under way | compose, change, resume, refresh | lost answers and second taps; reads in two queries | one draft, one order; cashiers change what they see |
| Catalogue (`catalog/*`, `apps/pos` catalogue) | categories, VAT, products, variants, lists, prices, places; a till's copy | CRUD, the POS query, load, restore | two pieces of code choose the price; loads overlap | the amount shown is the amount charged |
| Offline sales (`payments/offline-sales`, `apps/pos`) | local operation queue, replayed sales | draft, enqueue, sync, replay | the device dies while syncing; answers are lost | every sale recorded once at most, and tried until it is concluded |
| Printing (`printing/*`) | print jobs with leases and attempts | enqueue, claim, complete, fail, decide | leases that expire during printing, late reports | jobs match their history; concluded stays concluded |
| Fiscal documents (`fiscal/*`, `apps/fiscal-worker`) | document status, attempts, queue jobs | issue, void, retry, enqueue, claim, record, recover | crash between commit and enqueue, unknown outcomes, stalled workers | one execution at a time; AdE documents transmitted at most once |
| ADE worker: submission (`apps/ade-fiscal-worker`) | the submission that holds the lock, remembered operations | submit by HTTP or pages, refresh, reconcile | POSTs that land late, restarts | never sent twice; answers are true |
| ADE worker: pages (`ade-document-*browser`, `ade-auth-*`, `ade-page-session-pool`) | saved sessions by fiscal id, the sign-in under way, a pool of pages, the runs that drive them | sign in, fill, confirm, dry run, close the least recently used page | sessions renewed and pages closed while a submit drives them, a second try after a sign-in | what is issued is what was asked for, once, as its seller, in a current session |
| Authentication (`auth/*`, `apps/pos`, `apps/web`) | sessions, hashed refresh tokens | sign in, refresh, switch, sign out, revoke | two refreshes of one token, lost answers | each token exchanged once; revoked stays revoked |
| Organisation members (`organizations/*`) | memberships | add, change, suspend | the owners are counted before the write | an active owner remains |
| Floor plans (`floor-plan/*`, `apps/web` editor) | versions of a plan, its draft's revision; a page's copy and history | load, draw, undo, redo, save, publish | several pages, answers lost, requests worked on late | what is replaced or published is what the page showed |
| Closing of sales (`apps/pos` coordinator) | runs of a till; tables, documents and receipts it sees to | completePaidSale, reconcileCancelledOrder, recoverFiscalDocument | several sales at once, the cashier, other tills, reads that fail | nothing is left undone that nobody was told about |
| Tenants (`platform/*`, `organizations/*`, `locations/*`, `merchants/*`, administrators' pages in `apps/web`) | plan, merchants, locations with their lifecycle and window | provision, onboard, subscribe, create, update, stop, archive | a stop looks for running activities, an activity looks at the location, each writes later; a check-in looks at neither | a stopped location runs nothing but parties with a reservation, an archived one stays archived |
| Set-up of a location (`hospitality/*` layout, `platform/*` fiscal) | areas and tables, an editor's copy, fiscal profile, the provider's configurations | create, replace a layout, save and verify a profile, copy another location's | the editor shows one location with another's area; the provider is asked between reads and write | tables are where their area is; real receipts only where the provider can issue them |
| Devices, permissions, price lists of new locations | single rows | CRUD | unique constraints only | not modelled, but for a device's assignment in `auth` |

`PROJECT.json` lists each component with its status, and every hazard at the line
where it bites, with the properties that cover it.

## 2. Modules

    BookingState             rows, constants, deadlines, releasing a table, the clock
      EventInventory         organiser: tables, groups, publication
      HoldEngine             holds, conversion, both expiry jobs
      ReservationPayments    checkouts, Stripe, webhooks
      ReservationOperations  Control Center operations, table sessions
        ReservationSystem    composition, fairness, properties, refinement mapping
          MCReservations     booking runs
            MCTables         with SaleClosing
          ReservationProofs, BookingProofs
    TableAllocation          abstract: bookings and tables

    EventEditor              the form of an event, saved in three requests
    Catalogue                products and prices, the POS query, a till's copy
    OrderTills               orders composed at several tills
    OrderCalculator          totals of an order
    FloorPlan                versions of a plan, the pages that edit them
      MCService (with ReservationSystem), ServiceProofs

    PosState                 rows of orders, kitchen, tables and cash desk
      PosOrders, Kitchen, TableSessions, PosCheckout
        PosSystem            composition, properties, refinement mapping
          MCPos (with OrderCalculator), PosProofs
    OrderContract            abstract: what an order asks, receives and returns

    FiscalDocuments          API, queue, worker, recovery
    FiscalOutcome            abstract: what an AdE document's outcome may become
    AdeSubmission            the ADE worker's submission
    AdeBrowser               its pages: sessions, sign-ins, the pool, runs
      MCFiscal, FiscalProofs

    OfflineQueue, PrintJobs, CardPayments
      MCDevices, DeviceProofs

    SaleClosing              what a till does once a sale is paid
      MCTables, DeviceProofs

    AuthSessions, OrganizationMembers
    Tenancy                  plan, merchants, locations, administrators' pages
      LocationSetup          areas, tables and fiscal profiles of locations
      MCIdentity, IdentityProofs

    SumTheorems              sums over finite sets, for all proofs

A service method that is one PostgreSQL transaction with the rows it decides on
locked (`FOR UPDATE`) is one action; a refusal rolls everything back and is no
step. Where the code reads and writes in separate statements, or in separate
requests, there is one action for each. Identifiers, names, texts, snapshots and
audit rows are left out. Most modules hold a few mistakes the code
could contain and does not, each a variant of one definition; with it in place of
the original, the property named next to it in `PROJECT.json` ("mutants") is
violated under the configuration of its run, which shows that the property
depends on that code.

### Event booking

**State.** One event is modelled. A hold is named by its idempotency key
(`createHold` is unique per event and key), and since `hold_id` is unique in
`reservations` and in `reservation_table_assignments`, the reservation and the
assignment that come from a hold carry its name. `"NONE"` is the status of a row
that does not exist. A unit of the inventory is the set of its physical tables,
so a group and its members clash by intersecting. `tableKeys[h]` is the set of
rows of `reservation_table_assignment_tables` whose `active_event_table_key` is
set. The outbox appears where a property needs it (`refundRequired`).

**Atomicity.** `createCheckout` is not one transaction, and is modelled as its
three steps with the API dying or Stripe failing in between (`PrepareCheckout`,
`CreateStripeSession`, `AttachCheckoutSession`, `LoseCheckout`). What happens
between a screen and a request is two steps too (`SubmitOperation`,
`ApplyOperation`).

| Module | Actions | Code |
|---|---|---|
| EventInventory | `ReplaceTables`, `CancelEvent`, `ArchiveEvent` | `events.service.ts` |
| | `MergeTables`, `SplitGroup` | `event-table-groups.service.ts`, migrations 0014 and 0015 |
| | `PublishEvent` | `event-inventory-publishing.service.ts` |
| HoldEngine | `CreateHold`, `RepeatCreateHold` | `event-inventory-reservation-engine.service.ts` |
| | `GetHold`, `CancelHold` | `reservation-engine.service.ts` |
| | `Convert` | `reservation-conversion.service.ts` |
| | `ExpireHoldsJob`, `ExpirePaymentsJob` | `reservation-hold-expiry.service.ts`, `reservation-payment-expiry.service.ts` |
| ReservationPayments | the checkout steps, `HandleCheckoutPaid`, `HandleCheckoutExpired`, `HandlePaymentIntentFailed` | `reservation-stripe.service.ts`, `reservation-payment-policy.ts` |
| | `CustomerPays`, `CardDeclined`, `StripeSessionExpires` | Stripe and the customer (external) |
| ReservationOperations | `SubmitOperation`, `ApplyOperation` | `reservation-operations.service.ts` |
| | `OpenTableSession`, `FinishWalkIn`, `FinishReservationSession`, `MoveReservationSession` | `hospitality.service.ts` |

A few points where the model follows the code rather than the obvious design:

- `createHold` expires all lapsed holds of the event first and then chooses the
  smallest unit that fits; ties are left open. Repeating it with the same key
  still sweeps.
- The release of an assignment and of its table keys is one step, because a
  trigger (0014, replaced in 0015) does the second.
- `replaceTables` deletes group units with the others but leaves the groups, so
  a draft can have groups without a unit. They block merges and can be split.
- A payment is "late" when the reservation is no longer `PENDING_PAYMENT` or
  its deadline has passed. A webhook that finds the payment `PAID` does nothing.
- `markPaymentAttemptFailed` remembers only the last event that was applied.
- Check-in needs an assignment of one table (`dining_table_id`); a reservation
  of a group can only be marked no-show.
- Nothing in the code expires the table of a reservation of a cancelled event.

### The event editor

The web form saves an event in three requests (`UpdateEvent`,
`ReplaceEventTables`, `UpdateBookingRules`), any of which may be the last
(`Interrupt`); several organisers save at once, and the venue's tables change
under them. The request that publishes is `EventInventoryPublishingService`
(`EventsService.publish` is not routed); it counts the enabled rows of the
inventory only, so that a table deactivated after it was selected is still sold.
Raising capacity and tables in one save is refused, because the first request is
checked against the tables of before; a failed step leaves a mix. The model has
no merged groups (the editor's metrics join `dining_tables`, so groups are not
counted), and no cut-offs: `bookingCutoffMinutes` and `cancellationCutoffMinutes`
are stored and never enforced, and no code sets `SOLD_OUT` or `COMPLETED`.

### Catalogue and tills

`Catalogue` holds eight tables as functions from identifiers to rows, the query
of the POS (three queries, modelled as one step), the query `OrderPricingService`
makes, and one till with the loads it has under way. Prices are compared as the
two pieces of code compare them: one by sorting lists in SQL, one by the rank a
list has in the answer. Facts the model keeps: a product of an archived category
is merely hidden; archiving a product disables its rows of `location_products`
and activating it again does not enable them; upserting an archived price
activates it; a product sold by the piece with a `quantityScale` above zero is
shown and refused by orders (`Odd`; the console always sends zero); a failed
older load that reads the cache can put the screen in `FAILURE`. A price of 0 is a
price. A price has the currency of its list; the answer to a till has one currency
for everything, that of the place's first list (`AnswerCurrency`,
`catalog-query.service.ts:279`), while an order takes each price in its own. Nothing
keeps a place from having lists in two currencies, so `ShownIsCharged` says that the
amounts are equal always, and the currencies where the place's lists are in one.
It is about one line: an order of lines in two currencies is refused
(`orders.service.ts:499`), and is not modelled.

`OrderTills` follows a draft, the request that creates its order, and the changes
made to it from two tills: requests given up may still be executed, `get` reads
the header and the lines in separate queries (`HeaderRead`, `CopyShown`), and
`refreshOperationalState` is applied whatever is busy or shown. Change of
location is not modelled; the rows a manual sale upserts are inactive products.

`OrderCalculator` is pure: `AllocateDiscount` (largest remainder),
`TaxInGross`, `SummaryTax`, `OrderTotals`, in integers as `BigInt` computes them.

### Floor plans

`FloorPlan` is one location's plan. A document is a set of elements; a table is
an element. A page has its copy with `past` and `future` (`Remember`,
`RememberAhead`), and its requests are worked on by the API also when the page
has given them up (`Failed`). A save is two steps, the validation and the
transaction (`CheckSave`, `SaveDraft`), a publication one, which locks plan and
draft. A page names only the revision of the draft it was loaded from; a
publication starts a new draft at revision 1, so a page loaded before it is not
always refused, and `PlansAreAsShown` says nothing of such a page. What the
property says of every other one is that a save replaces the draft it came from
and a publication publishes what was on the page. A drag is one edit; reading the
plan and answering are one step; the tables a page offers may be of any age.

### Point of sale

| Module | Actions | Code |
|---|---|---|
| PosOrders | `CreateOrder`, `AddItem`, `AddManualItem`, `UpdateItem`, `DeleteItem`, `AddAdjustment`, `DeleteAdjustment`, `Hold`, `Resume`, `Cancel`, `Show` | `orders.service.ts`, the display of `apps/pos` |
| Kitchen | `RouteCategory`, `UnrouteCategory`, `UpdateStation`, `Dispatch`, `TransitionTicket` | `kitchen.service.ts`, `hospitality-policy.ts` |
| TableSessions | `CheckOpen`/`OpenSession`, `CheckMove`/`MoveSession`, `UpdateSession`, `AttachOrder`, `FinishSession`, `CheckDeactivate`/`DeactivateTable`, `ActivateTable` | `hospitality.service.ts` |
| PosCheckout | `OpenCheckout`, `RefreshCheckout`, `CreatePayment`, `CapturePayment`, `FailPayment`, `CancelPayment`, `CancelCheckout`, `RefundPayment` | `payments.service.ts`, `refunds.service.ts` |

Opening and moving a session, and deactivating a table, check before they lock;
each is two actions (`checked` holds the requests in between). A price is frozen
on its line when it is added, so prices are constants here.

`CardPayments` is the same bill as the tills see it: a till has a copy, asks the
API, starts the terminal and hears from it, or does not. `startCardPayment`
starts the newest pending card payment of the copy, which can be another till's.
A cashier can cancel a pending payment which the terminal then approves: such
decisions are recorded in `byHand` and excluded from the property. The bridge is
assumed to start a payment id once. A payment whose creation was not answered is
never started and stays `PENDING` until cancelled by hand.

### Offline sales and printing

`OfflineQueue`: the device's draft and outbox, `syncDue` with its list taken at
the start, and the API's replay transaction. `findExistingOrder` (`offline-sales.service.ts:612-635`)
combines `GROUP BY` with `FOR UPDATE OF`, which PostgreSQL always refuses: as the code
stands every replay fails and no offline sale is ever recorded. The constant
`QueryAccepted` says whether the query is accepted, so that what the rest of the code
does can be examined too. Every property holds for both values: the safety properties
are proved for both, and the run *devices* checks them, and the liveness property, with
the query accepted (its part "sales") and refused (its part "refused").
`SalesAreTriedUntilConcluded` promises no more than the code keeps either way, that the
device goes on sending a completed sale until it is concluded or left `SYNCING` by a
death of the app.

`PrintJobs`: a document becomes a job, an agent leases it for an attempt, prints
and reports; leases lapse, reports come late or get lost, agents die, a manager
retries or cancels by the version he was shown, and the printer is assigned to
another device.

### Closing of sales

`SaleClosing` is `pos_workflow_coordinator.dart` with what it calls: a run for
each order and kind (`completePaidSale`, `reconcileCancelledOrder`,
`recoverFiscalDocument`), which goes through stages at each `await`; the floor
screen it shares `TableController` with; the fiscal controller's copy; the polls
in the background; other tills and the provider. A read and its answer are one
step, except where something else can come in between that matters (the stages
`FLOOR`, `SESSION`, `SEARCH`, `CLOSE`: each lets others act before it). Each table session is
a table of its own, and a till stays in its location. Facts the model keeps: a
refresh does nothing while the controller is busy, so that the order is looked for
in whatever is selected; a read that is overtaken leaves what was shown before
(`misled`); what the last poll finds is not used; two sales closed at once can
make one ask for attention although the other has freed the table; the receipt is
attempted once, whatever comes of it; official receipts are printed on Windows only
(`merchant.prints`), and a till on Android or in a browser neither prints one nor says
so; the floor is read without waiting for it after a new session was opened with an
order, and that read may be answered at any later time and put an older floor back
(`ReadLate`, `ShowLate`), which counts as misleading the searches whose table it hides
(`Hides`); a document may also end `UNKNOWN` or wait with `AUTH_REQUIRED`, neither of
which is pending, and polls that find no pending document at the last one, whatever they
find, end in silence (`dropped`). There is one line for attention, and the
next message replaces it (a run that starts writes "working" over it), so that
`warned` means that attention was asked for, not that somebody read it.

### Fiscal documents

`FiscalDocuments` follows a sale and its void through the API, BullMQ (job ids
fixed per document, attempts, stalls, lost locks), a worker that may crash between
any two steps, the provider and the recovery timer. Providers are what they may
answer: `AdeAnswers`, `OpenApiAnswers` (polled), `AcubeAnswers`, `MockAnswers`;
an answer says too whether the transmission took place, and that of AdE may take
place later (`Land`). `AdeSubmission` opens the ADE worker: one lock, an HTTP
path and a path through the pages, one refresh of the session and one fallback
before the POST and none after, reconciliation by the last document of the
register, and a bounded memory of what was attempted. The worker recognises its document
by the total. Operations may have equal totals: a late document is then taken for the
next operation's, which answers that it was issued and is never posted. So what
`SubmittedAtMostOnce` says of an answer is that a document of that total is in the
register, not whose it is.

`AdeBrowser` opens the other half of that worker, the pages. A run is the submit
of one seller, or the dry run; its step is the last thing its code has done, and
every `await` on the page is an action of its own that goes on or fails
(`PageStep`, `RunFails`). A session is a version of a seller's file and the name it
works as; a run reads the file's fingerprint when its try begins, takes a page of
that fingerprint from the pool or opens one, and after a failure that asks for a
session signs in and tries once more. Sign-ins exclude one another and go through
the pages that choose whom to work as. The pool closes its least recently used page
whatever run drives it (`Evicted`), Chromium and pages may close at any time, and
the dry runs' page is that of a service of its own. What is filled in is abstracted
to whether what the page shows was read back as it was asked (`right`) and how many
items there are; `clicked` records what each click on "Procedi" would issue.

### Identity

`AuthSessions` follows one user's sessions on browsers (whose tabs refresh at
once) and POS devices (one refresh at a time, tokens on disk): sign-in
supersedes, a refresh exchanges a token, one that was exchanged is taken for a
theft and ends the device's sessions, a switch of organisation and a sign-out are
several steps of several statements, managers revoke assignments and memberships
in between. A sign-out is a guard that looks at the session and an `UPDATE` that does not
(`AdmitSignOut`, `Logout`; `auth.service.ts:286`): a session revoked between the two is
revoked again. When and why a session ended is not modelled, so nothing is said of the
time and the reason, which that second `UPDATE` replaces. `OrganizationMembers` reads a membership, counts the owners and
writes, in three steps, as the code does.

`Tenancy`: an administrator's request is `Get`, `AssertCanStop` and a write, each a
step, from a page whose list may be old; parties are seated and events published by
an `Admit` that finds the location active and a `StartActivity` that writes. Nothing
locks what was looked at, so that two requests on one location can seat guests in a
stopped one, or restart one that was archived meanwhile (`setActive` reads the
lifecycle before its transaction). The history `contested` records the locations
where this happened, and `ArchivedForGood` and `StoppedIsEmpty` speak of the others.
The check-in of a reservation opens a table session too, and looks at neither the plan
nor the location (`Reserve`, `CheckIn`; `reservation-operations.service.ts:112`, `288`):
once the event is over or cancelled the location can be stopped, and a guest whose
reservation is left is then checked in there, with no overlap of requests. So
`StoppedIsEmpty` excepts the parties checked in (`arrived`), and says that nothing else
runs there.

`LocationSetup`: the layout editor keeps showing the location it loaded when the
loading of the next one fails, and sends its areas and tables with the location
selected (`LayoutNotLoaded`, `Replace`). Saving a fiscal profile checks the VAT
number, looks the configuration up at the provider, creates or changes it, verifies
it and writes (`CheckVatNumber`, `LookUp`, `Push`, `Verify`, `SaveProfile`), while
others save theirs. A new location may copy another one's layout and profile; the
copied profile is switched off.

## 3. What the runs check

| Run | Parts | Invariants | Action, temporal properties, refinements |
|---|---|---|---|
| inventory (`MCTables`) | booking of a free event with merges and splits; tables freed after sales; a sale's document and receipts | `TypeOK`, `TablesAreBookedOnce`, `UnitsAreHonoured`, `SalesAreClosed` | `AllocationSpec` |
| resale (`MCReservationsResale`) | a table sold again during a payment | `LiveBookingsHoldTables` | `BookingsAreSettled` |
| operations (`MCReservationsOperations`) | operators, walk-ins, moves | `GuestsAreSeated`, `OneWinnerPerVersion` | |
| service (`MCService`) | booking with two attempts; event editor; catalogue; tills; floor plan | `PaymentsMatchBookings`, `OfferHoldsTogether`, `ShownIsCharged` | `SoldAsPublished`, `CashiersChangeWhatTheySee`, `PlansAreAsShown` |
| pos (`MCPos`) | kitchen; tables; desk; totals | `KitchenGetsNoMoreThanOrdered`, `TablesAreSound`, `CheckoutsAreSound`, `TotalsAddUp` | `ChargedAsShown`, `KeepsTheContract` |
| fiscal (`MCFiscal`) | a document with each provider; the ADE worker's submission; its pages, with two sellers, and with a dry run | `OneExecution`, `VoidsFollowIssuedSales`, `PagesAreSound` | `SubmittedAtMostOnce`, `AdeOutcome`, `DocumentsAreConcluded`, `LockIsReleased` |
| devices (`MCDevices`) | offline sales, recorded and refused; printing; cards | `SalesAreRecordedOnce`, `JobsMatchTheirHistory`, `ChargesMatchPayments` | `QueuedSalesKeepTheirContents`, `ConcludedStaysConcluded`, `SalesAreTriedUntilConcluded`, `JobsAreConcluded`, `ChargesAreRecorded` |
| identity (`MCIdentity`) | browser; POS; members; lifecycle of a location; layout; fiscal profiles | `TokensAreExchangedOnce`, `TenantsAreSound` | `RevokedStaysRevoked`, `OwnerRemains` |

All of these hold. `TablesAreBookedOnce` is `NoSharedTable` and
`KeysFollowAssignments`, `UnitsAreHonoured` is `CapacityRespected` and
`BookedUnitsStayOffered`. A run of several parts is a sum: the variable `part` is chosen
at the start, and a behaviour consists of steps of one part while the variables
of the others stay as they begin. The parts share no step, so that each is
checked as if it were alone. Run one with
`tlc -workers 2 -config MCPos.cfg MCPos`; the longest take three to four minutes.

Four runs check what the repository says of the code and the code does not do:

- **A second payment in time takes the table away** (second_attempt). A customer
  opens two checkouts for one reservation (two idempotency keys) and pays both
  before the deadline. The first confirms the reservation. The second finds it
  no longer `PENDING_PAYMENT`, is treated as late
  (`reservation-payment-policy.ts:95`), moves the reservation to
  `REFUND_PENDING`, releases its table and asks for a refund of the second
  payment only. `docs/phase-2/stripe-reservation-payments.md` provides for this
  only when the payment comes after the deadline or the release. The same
  happens to guests who have checked in or are seated. `PaymentsMatchBookings`
  states what does hold: one of the two payments is asked back, and the
  customer is left with one payment and no table.
- **A group that was ever booked cannot be split** (group_history). The split
  deletes the group; `ON DELETE SET NULL` clears `table_group_id` in released
  assignments; `reservation_table_assignments_unit_ck` (0014), never dropped,
  wants exactly one of the two unit columns and refuses. The transaction fails,
  although `event-table-group-history.spec.ts` promises that released history
  survives a split.
- **A sale whose app died while it was sent stays `SYNCING`** (offline_crash).
  `syncDue` marks an operation before it sends it; nothing selects or resets a
  syncing operation when the app starts, although the cashier was told that the
  sale will be synchronised by itself. The run takes `QueryAccepted` to be true, so
  that the death of the app is what strands the sale. `SalesAreTriedUntilConcluded`
  states what does hold.
- **A checkout is cancelled with money in it** (pos_cancelled). `cancelCheckout`
  counts payments in status `CAPTURED`; one that was refunded in part is
  `PARTIALLY_REFUNDED`, so the rest of it is not seen.

What else the models show of the code, without a run of its own because no
document says otherwise: an open checkout of which a payment was
refunded in part asks for the whole of that payment again; a table can be deactivated
while a party sits down at it, the check and the write being two statements; a
line that was sent to the kitchen cannot be deleted even after its ticket was
cancelled; with A-Cube a retried call may transmit twice; a first enqueueing that
is lost leaves its document `QUEUED` for good; the ADE worker recognises its
document by the total, so that one with the same total is taken for it, and an
operation can be answered `ISSUED` without having been posted; a place with lists in two
currencies shows every price in the first one's; a till on Android or in a browser prints
no official receipt and does not say so, and its polls, like all others, end in silence
over a document that is not pending; a floor that comes late hides a table from the
search for a paid order; a guest can be checked in at a stopped location; a sign-out
replaces the reason of a revocation that came just before it; two print
agents can print one job, a lease being shorter than a printer may take; a
session can be created after the revocation that should have caught it looked;
two updates at once can remove two owners; two requests to create and to change
the default VAT rate can leave two defaults; a location can be stopped while a party
sits down, and one that was archived started again by a request that read it before.

**Bounds.** Every configuration says in its first lines what it bounds.

- Booking: `Tables`, `Holds`, `PayKeys` and `Mutations` are the instance's sets;
  `MaxTime` stops the clock; `WalkInTables` are the tables the POS opens for
  walk-ins. Three tables give a group, its members, and a table outside it;
  three holds give one that holds, one that lapses or has been converted, and
  one that asks. Capacity 6 is below the 8 seats, so that capacity refuses
  before tables run out. A hold lasts one tick, so that with the clock at 0..3
  it can lapse and its table be booked again while the event accepts bookings.
  Resale needs one table and two holds; in *service* one hold is enough, since
  payments of different reservations meet only through tables, and the event is not
  archived, which changes nothing but its status and is in *inventory*. Versions need no
  bound: each reservation changes a bounded number of times. In resale every
  hold's deadline lies within the clock (`BookingClosesAt + HoldTicks <=
  MaxTime + 1`), or the stopped clock would be an artefact.
- Event editor: two tables, two organisers, four contents of a form (the second
  for a larger place, the third without tables, the fourth beyond its seats),
  two saves, one change of the venue, three days: every interleaving of two
  saves with publication.
- Catalogue: a product with a variant, two lists in one currency or two, prices of 0 among
  others, two places, five catalogues to
  begin with (full, scheduled and listed, without products, without prices,
  empty), one edit and two loads: an edit before, between and after the loads.
- Tills: two tills, two orders, three generated identifiers, two reads, one
  request given up.
- Floor plan: two pages, one table, a shape and a misdrawn one, two edits, two
  loads, three requests, or two and one table toggled, a history of one step (50 in
  the code), so that it overflows: two pages that load, edit, save and publish in any
  order, an answer lost and a request repeated.
- Closing of sales: two orders, two table sessions, two polls (15 in the code). In
  the part of the tables, which takes the document for granted, one fault, and one
  act of another till or command of the cashier; or, without faults, a command and two
  acts of another till, which seats a party at the second table and gives it an order
  while a floor read before that is awaited. In the part of the receipts, which has one
  order and no table, two faults, or one of them and a command.
- Point of sale: one order of two lines, two stations, tickets, tables, sessions
  and checkouts, three payments. Versions end at 4 (kitchen, tables) or 6 (desk):
  enough for a line to be added, sent, changed, cancelled and sent again, and for
  a checkout to be opened, cancelled and opened again. Totals: every order of up
  to three lines and two discounts over two prices, quantities, scales and rates,
  chosen so that remainders are equal, unequal and none.
- Fiscal: one order for each provider, two workers, one attempt and one retry,
  each fault once, of which at most two in one behaviour with AdE. ADE worker:
  two operations with equal totals, three requests, one loss, one document with another
  total issued elsewhere (four together at most), and a memory of one operation, so that it overflows. Pages:
  two sellers with a document each, or one and a dry run; a pool of one page, so
  that each submit closes the other's; sessions saved and mishaps (a page closed, a
  run or a sign-in failed) three together, which is a first session, its end and
  the next. The runs take and open their pages in any order but fill them in one
  after the other (`OneFills`), and a sign-in does its steps in a row but for the
  last, which saves the session (`SignInAtOnce`): between these steps nothing is
  shared. The proofs have neither bound.
- Devices: two sales with two contents, a death and a failure, with a replay that is
  recorded and with one that the database refuses every time; one job, two
  agents, two attempts, four leases, one decision, one reassignment, two losses
  (reports of an older lease meet every state of a newer one); two tills, a bill
  of two, two payments, one mishap, one decision by hand.
- Identity: a browser with two requests at once, a POS with tokens on disk, two
  organisations, two sessions, four tokens, one each of switch, sign-out,
  decision and loss, of which two in one behaviour (with expiries; on the POS one
  besides these); two members and two updates of them. Lifecycle: one location, one
  activity, one reservation or party checked in, two administrators, every order of two
  requests (of one administrator where somebody is checked in). Layout: two locations,
  areas and tables, one editor, so that it can show one location and send another; an
  event and what is reserved for it where there is one location with one area.
  Profiles: two VAT numbers and one configuration at the provider; the second
  administrator saves one profile while the first is between any two of his steps.

Symmetry permutes identifiers that the specification does not tell apart, in runs
without liveness only. Deadlock is not checked: customers, cashiers and managers
may stop, and used-up bounds end a behaviour.

**Fairness.**

- Booking (`FairSpec`): the clock advances; each expiry job that has something
  due eventually runs (`reservation-hold-scheduler.service.ts` repeats both every
  30 seconds); Stripe delivers the event of a completed session until it is
  accepted.
- Offline sales: the timer of `syncDue` comes round and works through its list;
  a request that reached the API is executed, be it recorded or refused; a completed sale is taken from the
  screen.
- Printing: leases lapse and backoffs end, the agent polls, the printer succeeds
  or fails, the API executes reports.
- Cards: answers arrive (weak); somebody opens or reads the bill again and
  verifies what it shows pending, again and again (strong, because other requests
  interrupt: the till is busy).
- Fiscal: workers go on with what they took, and the queue hands out, finds
  stalled jobs and recovers stale documents (`Enqueue`, `Stalled`, `Recover` of
  AdE documents; the first enqueueing is not assumed, a crash may swallow it).
  The ADE worker's waits all have timeouts (`WF(Work)`).

Nothing is assumed of customers, organisers, operators, of failure events, of an
API that dies, or of a request that is lost.

## 4. What is proved

Every safety property of every passing run is a theorem, for every value of the
constants that satisfies the module's assumption: sets of tables, holds, orders,
lines, tickets, checkouts, payments, sales, tills, devices, members, sellers,
locations of any size, and any numbers of attempts, polls, losses, requests, sessions,
pages and versions. The theorems are about
each component's own specification (`Spec`, `PrintSpec`, `CardSpec`,
`EditorSpec`, …), of which a part of a run is a restriction.

| Module | Theorem | Statement |
|---|---|---|
| ReservationProofs | `TypeCorrect` | `Spec => []TypeOK` |
| | `TablesNeverShared` | `Spec => []NoSharedTable` |
| | `KeysAlwaysFollow` | `Spec => []KeysFollowAssignments` |
| | `TablesBookedOnce` | `Spec => []TablesAreBookedOnce` |
| | `EntitledBookingsKeepTables` | `Spec => []LiveBookingsHoldTables` |
| | `BookingImplementsAllocation` | `Spec => AllocationSpec` |
| BookingProofs | `BookedUnitsNeverChange` | `Spec => []BookedUnitsStayOffered` |
| | `CapacityIsRespected` | `Spec => []CapacityRespected` |
| | `UnitsStayHonoured` | `Spec => []UnitsAreHonoured` |
| | `StaleRequestsLose` | `Spec => []OneWinnerPerVersion` |
| | `VersionsCountChanges` | `Spec => EveryChangeBumpsVersion` (the versions that `OneWinnerPerVersion` rests on) |
| | `MoneyMatchesBookings` | `Spec => []PaymentsMatchBookings` |
| | `GuestsStaySeated` | `Spec => []GuestsAreSeated` |
| PosProofs | `PosInvariant` | `Spec => []PosInv` |
| | `KitchenGetsWhatWasOrdered` | `Spec => []KitchenGetsNoMoreThanOrdered` |
| | `TablesStaySound`, `CheckoutsStaySound` | `Spec => []TablesAreSound`, `Spec => []CheckoutsAreSound` |
| | `CustomersAreChargedAsShown` | `Spec => ChargedAsShown` |
| | `DeskImplementsContract` | `Spec => KeepsTheContract` |
| ServiceProofs | `OfferAlwaysHoldsTogether`, `OfferStaysAsPublished` | `EditorSpec => []OfferHoldsTogether`, `EditorSpec => SoldAsPublished` |
| | `ShownPricesAreCharged` | `CatalogueSpec => []ShownIsCharged` |
| | `CashiersActOnWhatTheySee` | `OrderTillsSpec => CashiersChangeWhatTheySee` |
| | `TotalsAlwaysAddUp` | `TotalsSpec => []TotalsAddUp` |
| | `PlansStayAsShown` | `FloorPlanSpec => PlansAreAsShown` |
| FiscalProofs | `FiscalTypeCorrect` | `Spec => []TypeOK` |
| | `OneExecutionAtATime`, `VoidsAreOfIssuedSales` | `Spec => []OneExecution`, `Spec => []VoidsFollowIssuedSales` |
| | `AdeDocumentsKeepTheirPromise` | `Spec => AdeOutcome` |
| | `NothingIsSentTwice` | `SubmissionSpec =>` no operation is posted twice, whatever the totals |
| | `DocumentsAreSubmittedAtMostOnce` | `SubmissionSpec => SubmittedAtMostOnce` |
| | `PagesStaySound` | `BrowserSpec => []PagesAreSound` |
| DeviceProofs | `SalesRecordedOnce`, `QueuedSalesUnchanged` | `Spec => []SalesAreRecordedOnce`, `Spec => QueuedSalesKeepTheirContents` |
| | `QueueMatchesHistory`, `JobsStayConcluded` | `PrintSpec => []JobsMatchTheirHistory`, `PrintSpec => ConcludedStaysConcluded` |
| | `ChargesAlwaysMatch` | `CardSpec => []ChargesMatchPayments` |
| | `SalesStayClosed` | `ClosingSpec => []SalesAreClosed` |
| IdentityProofs | `TokensAreChained`, `RevocationIsFinal` | `Spec => []TokensAreExchangedOnce`, `Spec => RevokedStaysRevoked` |
| | `OwnersRemain` | `MembersSpec => OwnerRemains` |
| | `TenantsStaySound` | `SetupSpec => []TenantsAreSound` |

**Assumptions.** Besides types, they say that finite things are finite (tables,
lines, tickets, payments, price lists: whatever the code adds up or takes a
largest of), that seats, prices, sizes and times are natural numbers, and that
the names which stand for "none" name nothing else. They are the named `ASSUME`s
of the modules, and TLC evaluates them in every run. No theorem has a hypothesis of
its own.

### Sums

`SumFunction` of the community modules is a fold over a set in the order `CHOOSE`
takes its elements, a recursive function on its subsets, and the provers cannot
instantiate induction theorems. `SumTheorems` proves its facts in first-order
steps instead: among the subsets for which a fact fails there would be a smallest
one (`SmallestSubset`, from the well-foundedness of strict inclusion on finite
sets), it is not empty, and the fact holds of it without one element.
`SumUnfolds` shows that the fold is what its recursion says, `SumRemove` that any
element may be taken first; the others (change of one element, restriction,
disjoint unions, counting, sums grouped by a key) follow. `RanksCount` says that
the ranks of a finite linear order are the first natural numbers, which is what a
"largest remainder" rule rests on.

### Tables, units, seats (ReservationProofs, BookingProofs)

`NoSharedTable` alone is not inductive. `createHold` looks at table keys, not at
assignments, so the keys must follow the assignments; the sweep releases
assignments owned by a hold, so a lapsed hold must own its assignment
(`LiveBookingsHoldTables`); a new hold must not overwrite anything, so what has
no hold has no assignment and no reservation; and a webhook writes a reservation
without checking that one exists, so whatever exists of a payment must belong to
one. Together they are `AllocationInv`. The steps fall into few kinds, each a
lemma: `EndHolds`, `EndReservations`, `KeepBookings`, a new hold and a
conversion.

*Refinement.* `TableAllocation` says that a booking takes free tables once, keeps
all of them, gives all of them back and never regains one. The mapping takes
`held` to the units of ACTIVE assignments and `over` to the RELEASED ones. A
release gives back, a new hold takes (and the holds its sweep expires give back
in the same step), anything else stutters.

*Units.* A merge or split inspects the keys of physical tables; by
`KeysFollowAssignments` those are the booked ones. `replaceTables` inspects
nothing, and is right because a draft has no holds.

*Capacity* needs the structure of the offer (`UnitsInv`): a unit is a table or a
group, groups share no table, no table is on offer twice; and that what
`createHold` adds up counts every booking that is alive, once.

*Versions.* `OneWinnerPerVersion` needs that requests name reservations that
exist (they never stop existing, so no later conversion hands out version 1
again) and that a missing reservation is at version 0.

*Money.* `MoneyInv` adds that what is owed back was paid and that a free event
takes no money. A step either collects nothing (`AttemptsCollectNothing`), or
moves a reservation whose paid attempts stay, or is a completed checkout in one of
its three outcomes.

*Guests.* `GuestsAreSeated` is inductive given `AllocationInv`: who sits down
finds the table without a party, who moves too, and only a session's end
completes a reservation.

### Point of sale (PosProofs)

`PosInv` has three parts: the types; that totals follow lines, what is new is
empty and a display with the current version has the current total (`OrdersInv`);
and the money (`MoneyInv`): every payment is of a checkout, refunds stay below
payments, an open checkout asks for the total of an order that stands still and
has not taken it yet, a completed one took it, an order has one charging checkout
at most, and one exactly while it awaits payment or is paid. That the order stands
still is what makes "captured plus pending never exceeds the total" inductive.
The kitchen's bound rests on `DispatchSendsTheRest`: what is sent of a line after
a dispatch is exactly its quantity. In the refinement of `OrderContract` every
step of the desk is one of a few (`DeskSteps`: opens, takes, completes, gives
back, releases) and each of those maps to an action of the contract
(`ContractSteps`).

### Events, catalogue, tills, totals (ServiceProofs)

*Events.* Each of the three requests of a save checks the row as it stands with
what it brings; `EditorInv` is that the event could be sold as it stands
(`Saleable`), which whatever pieces of whatever saves keep. What is published is
no longer editable.

*Catalogue.* An order takes the first of the charging lists in one order, a till
the list of the lowest rank: `StandingOrder` proves that the comparison is a
linear order on lists, `FirstList` that a lowest rank is a first place,
`SamePrice` that both therefore charge the same. The till's side is a protocol
invariant: a request that is the latest, or an answer from it, is what the
catalogue says unless it changed meanwhile (`RequestFits`, `ScreenFits`). Where all
lists of a place are in one currency, that of the first one is that of any.

*Tills.* `CopyFits`: a copy that carries the order's current version has the
order's current lines, whichever lines it read when its version is older. It
stays true because an order that changes gets a version it did not have
(`VersionsMove`), and a change is made only at the version its cashier's copy
had.

*Totals.* A discount is shared by quotients and the cents left over: these are
fewer than the lines with a remainder (`CentsLeftFit`), go to ranks which count
the lines (`RanksCount`), so each line gets one at most, only if it has a
remainder, and so never bears more than it costs. Taxes are nearest integers
(`TaxesAreNearest`) and the summaries by rate are the lines' sums grouped by
rate (`SumByKey`).

*Floor plans.* A page, and a request, of the current version that names the
draft's revision has its document (`PlanInv`); a revision is taken by one save,
since the next has another. A request that was done stays done.

### Fiscal documents (FiscalProofs)

Every step of the system is one of eleven kinds of step on a document and its
worker, or concerns none (`StepKinds`). `OneExecution` needs that a document which is executed is
`PROCESSING`, or was put in doubt by the recovery (`ExecutedIsOpen`). For AdE,
`AdeInv` relates a document's status to what was sent: sent or in flight, never
both, and in neither case in a status from which it would be tried again.
`OutcomeSteps` maps each kind to a step of `FiscalOutcome`.

The ADE worker (`SubmissionInv`): the caller of a run was told `PENDING` or
`UNKNOWN`, the operation at hand is not among those remembered, an operation not
yet posted has no posts and no prudent caller's has more than one
(`OnePost`), and posts account for what is on its way and in the register.

Its pages (`BrowserInv`): every file and every page in the pool works as its owner
(`SessionsAreTheirOwn`); the fingerprint a run goes by lies between the session its try
began with and the saved one, and a page it took still has it (`DriveIsSound`), which is
why a page opened with an older session is never driven although the pool keeps it; a
submit's document is its own seller's, has not been clicked for before it is `CLICKED`,
and was never said to be in doubt (`SubmitIsSound`), which is why a second try issues
nothing twice. The many steps of a page are of three kinds, `RunGoesOn`, `RunIsOver` and
`FailedRun`, and what happens to the pool is one, `PoolShrinks`, but for taking a page.

### Devices (DeviceProofs)

*Offline sales*: `QueueInv` ties the operation at hand to its request, so that an
answer is about the operation that is syncing, and every request to a queued
sale's contents. *Printing*: a row invariant for each job (the token of a claimed
job is its last attempt, attempts are counted) and one for each agent (what an
agent reports, it was given; what it reports completed is on paper). *Cards*: the
bill is sound on its own (`BillSound`), every request that may still arrive is
harmless whenever it arrives (`RequestSound`: it is about a payment the terminal
decided that way, or about one decided by hand), and copies are prefixes of the
bill, so that the number of a payment is the same on a till and in the API.

*Closing of sales* (`SaleInv`): a table all of whose orders are settled is safe
because some order of it has not come past the table yet, or was warned about, or
its run was misled (`TablesAreWatched`).  That a run never passes a table silently
(`TableStep`) needs four facts about interleavings: an order is of one party and
joins one only while it is open, so the orders of a run's table are where its read
found them (`OrdersAreOfOneParty`, `PartiesStay`); one run at a time searches or
closes, because both keep the floor busy, so nobody overwrites the target
(`OneRunCloses`); the floor that a search goes by still has the table, although
commands and other tills changed sessions since it was read, unless it was replaced by
one that came late (`FloorHasTheTable`);
and runs are of settled orders (`RunsAreOfSettled`), so that an order that makes a
table occupied again is one whose run is still to come. Each step is cut into what
it does to the records (`PartyStep`, `SettlingStep`, `DocumentStep`), to the screen
(`FloorStep`), to reports (`Grows`, `ReceiptStep`, `PrintStep`) and to runs
(`StageStep`, `TableStep`); the invariant is preserved by these, whatever the
action. For the documents and receipts the rest is that nothing is shown that does
not exist (`DocumentsExist`), even by a read that failed or came late.

### Identity (IdentityProofs)

Few statements write a session: one creates it, one gives it the next token, the
others end it. `AuthBase` says that every token is of a session whose row was
given it, in order (`Chains`), and `ChainGrows` that a rotation, which is
conditional on the row it read, appends to the chain. That no POS is suspected
rests on its single refresh (`OneRefresh`): whatever refreshes holds the row's
token or one of a session that ended, until the device has the answer
(`Calm`, `GrantsFit`, `RefreshesFit`, `ClientFits`). For members (`RosterInv`):
as long as updates do not overlap, what an update read is what is there.

That what has ended stays so needs no condition in `Logout`'s `UPDATE`, which only ends.

*Tenants* (`TenancyInv`): a request under way that no other one on its location overlaps
still sees what it checked, because whatever could have undone it would have overlapped (`RequestsAreSound`, `HasForItself`), and what was admitted is at a
location that was active (`AdmittedAreOpen`), while a party that is checked in was never
admitted and changes nothing of what runs; both hold of locations that are not
`contested`. *Layout and profiles* (`SetupInv`): an area stays at its location, and
whoever writes a table looks its area up at the location of the table, whatever the
editor showed; a profile that was verified and not yet written is of a configuration
that is ready (`VerifiedIsReady`), and nothing takes credentials or receipts back that
a verified profile needs (`CredentialsAreOfConfigurations`).

### Only model-checked

The six liveness properties: `BookingsAreSettled`, `DocumentsAreConcluded`,
`LockIsReleased`, `SalesAreTriedUntilConcluded`, `JobsAreConcluded`,
`ChargesAreRecorded`. Fairness and `ENABLED` are outside the prover. So is the
absence of what the violated properties state: those are false of the code.

The proofs of a module are checked with `tlapm <module>.tla`; each takes from a
few seconds to a few minutes.

## 5. Not modelled

- PostgreSQL's locks as such, hence lock-order deadlocks (conversion and
  `createHold` take hold and event in opposite orders), which the database
  resolves by refusing a transaction; isolation below what row locks give.
- Clock skew between the API's deadlines and the database's comparisons.
- Fees, ledger and the execution of refunds of reservations (the API only asks
  for them); the providers of POS refunds, which have no effect today.
- Several events at once: tables are keyed per event, so events share none of
  this state, while table sessions of the same evening do.
- What a cancelled event's holds and reservations become: the code leaves them,
  and no document says otherwise.
- In the ADE worker: the sign-in with CIE, the read-only visit, the download of
  artifacts, metrics; what the portal's pages show is a choice.
- In the POS app: the kitchen's screen, what controllers show while they wait, all
  layout. In the web app: everything but the event editor, the floor-plan editor's
  documents, the catalogue console, the session cookies, and the pages of the
  platform's administrators, the layout editor and the fiscal form.
- What a new location copies besides layout and profile (products, price lists), the
  permissions of managers (every member may act), the rows of devices, the fields of
  merchants and organisations.
- Configuration, libraries, scripts, deployment.

## 6. Plan

1. The controllers of tables and kitchen in the POS app as their own module, with
   one session moved between tables, which `SaleClosing` leaves out.
2. `HoldTransactions`: the services as sequences of row locks, for deadlocks and
   to justify the atomicity of section 2; two clocks with a bounded skew.
