\* Merging and splitting while three customers book a free event; two orders of a table
\* or the counter, two tables and two polls. MCTables bounds the faults, the cashier's
\* commands and those of another till in each part.
CONSTANTS
  t1 = t1
  t2 = t2
  t3 = t3
  Tables = {t1, t2, t3}
  Seats <- MCSeats
  Holds = {h1, h2, h3}
  MinPartySize = 2
  MaxPartySize = 4
  EventCapacity = 6
  BookingAmount = 0
  HoldTicks = 1
  BookingOpensAt = 0
  BookingClosesAt = 2
  StartsAt = 3
  MaxTime = 3
  PayKeys = {}
  Mutations = {}
  WalkInTables = {}
  SaleOrders = {o1, o2}
  Parties = {p1, p2}
  Polls = 2
  MaxFaults = 2
  MaxElsewhere = 2
  MaxCommands = 2
SPECIFICATION MCSpec
SYMMETRY MCSymmetry
INVARIANTS
  TypeOK
  TablesAreBookedOnce
  UnitsAreHonoured
  SalesAreClosed
PROPERTY AllocationSpec
CHECK_DEADLOCK FALSE
