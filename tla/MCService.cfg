\* Two payment attempts for one booking, with expiry and operators in between; two
\* forms of an event under way; a change of a catalogue of two price lists for two
\* places, and two loads of a till;
\* three identifiers and two reads of two tills that compose orders, one request given up;
\* two pages of a floor plan of one table and two shapes, with two edits and three requests,
\* or two of these and a table toggled. The booking's event is not archived (MCTables does).
CONSTANTS
  t1 = t1
  Tables = {t1}
  Seats <- MCSeats
  Holds = {h1}
  MinPartySize = 2
  MaxPartySize = 2
  EventCapacity = 2
  BookingAmount = 1000
  HoldTicks = 1
  BookingOpensAt = 0
  BookingClosesAt = 2
  StartsAt = 2
  MaxTime = 2
  PayKeys = {k1, k2}
  Mutations = {m1}
  WalkInTables = {}
  e1 = e1
  e2 = e2
  EventTables = {e1, e2}
  Organisers = {o3, o4}
  Forms <- MCForms
  TableSeats = {2, 3}
  LastDay = 3
  MaxSaves = 2
  MaxVenueChanges = 1
  product1 = product1
  category = category
  vat = vat
  here = here
  there = there
  Products = {product1}
  CategoryIds = {category}
  VatRates = {vat}
  Lists = {1, 2}
  Places = {here, there}
  ListPrices = {0}
  Currencies = {"EUR", "CHF"}
  Priorities = {2}
  Starts <- MCStarts
  Windows <- MCWindows
  MaxDay = 1
  MaxEdits = 1
  MaxLoads = 2
  OrderDevices = {till1, till2}
  MaxOrders = 2
  MaxIds = 3
  MaxReads = 2
  MaxGivenUp = 1
  pt1 = pt1
  wall = wall
  offside = offside
  PlanTables = {pt1}
  Shapes = {wall, offside}
  Misdrawn = {offside}
  PlanEditors = {page1, page2}
  HistoryDepth = 1
  MaxPlanLoads = 2
  MaxPlanRequests = 3
  MaxPlanEdits = 2
  MaxTableChanges = 1
SPECIFICATION MCSpec
SYMMETRY Symmetry
INVARIANTS
  PaymentsMatchBookings
  OfferHoldsTogether
  ShownIsCharged
PROPERTIES
  SoldAsPublished
  CashiersChangeWhatTheySee
  PlansAreAsShown
\* The system really stops when the bounds are used up.
CHECK_DEADLOCK FALSE
