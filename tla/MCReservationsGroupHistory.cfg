\* A group whose booking is over.
CONSTANTS
  t1 = t1
  t2 = t2
  t3 = t3
  Tables = {t1, t2}
  Seats <- MCSeats
  Holds = {h1}
  MinPartySize = 2
  MaxPartySize = 2
  EventCapacity = 4
  BookingAmount = 0
  HoldTicks = 1
  BookingOpensAt = 0
  BookingClosesAt = 1
  StartsAt = 1
  MaxTime = 1
  PayKeys = {}
  Mutations = {}
  WalkInTables = {}
SPECIFICATION Spec
INVARIANT ReleasedGroupsCanBeSplit
CHECK_DEADLOCK FALSE
