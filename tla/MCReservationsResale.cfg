\* A table that is sold again while a payment for it is still under way, and
\* what happens in the end, whoever stops answering.
CONSTANTS
  t1 = t1
  t2 = t2
  t3 = t3
  Tables = {t1}
  Seats <- MCSeats
  Holds = {h1, h2}
  MinPartySize = 2
  MaxPartySize = 2
  EventCapacity = 2
  BookingAmount = 1000
  HoldTicks = 1
  BookingOpensAt = 0
  BookingClosesAt = 2
  StartsAt = 2
  MaxTime = 3
  PayKeys = {k1}
  Mutations = {}
  WalkInTables = {}
SPECIFICATION FairSpec
INVARIANTS
  LiveBookingsHoldTables
PROPERTIES
  BookingsAreSettled
CHECK_DEADLOCK FALSE
