\* Two tabs pay for one booking in time.
CONSTANTS
  t1 = t1
  t2 = t2
  t3 = t3
  Tables = {t1}
  Seats <- MCSeats
  Holds = {h1}
  MinPartySize = 2
  MaxPartySize = 2
  EventCapacity = 2
  BookingAmount = 1000
  HoldTicks = 2
  BookingOpensAt = 0
  BookingClosesAt = 2
  StartsAt = 2
  MaxTime = 2
  PayKeys = {k1, k2}
  Mutations = {}
  WalkInTables = {}
SPECIFICATION FairSpec
PROPERTY OnlyLatePaymentsAreRefunded
CHECK_DEADLOCK FALSE
