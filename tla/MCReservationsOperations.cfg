\* Operators, walk-ins and moved guests on a free event.
CONSTANTS
  t1 = t1
  t2 = t2
  t3 = t3
  Tables = {t1, t2}
  Seats <- MCSeats
  Holds = {h1, h2}
  MinPartySize = 2
  MaxPartySize = 2
  EventCapacity = 4
  BookingAmount = 0
  HoldTicks = 1
  BookingOpensAt = 0
  BookingClosesAt = 1
  StartsAt = 1
  MaxTime = 1
  PayKeys = {}
  Mutations = {m1, m2, m3}
  WalkInTables = {t1, t2}
SPECIFICATION Spec
SYMMETRY MCSymmetry
INVARIANTS
  GuestsAreSeated
  OneWinnerPerVersion
CHECK_DEADLOCK FALSE
