\* Two sales, a death of the app, a lost answer or refusal; one document,
\* two devices, a decision of a manager, a reassignment, two losses.
CONSTANTS
  Parts = {"sales", "refused", "printing", "cards"}
  Sales = {s1, s2}
  Contents = {one, two}
  QueryAccepted = TRUE
  MaxCrashes = 1
  MaxFailures = 1
  Devices = {d1, d2}
  Jobs = {j1}
  MaxAttempts = 2
  MaxTokens = 4
  MaxDecisions = 1
  MaxAssignments = 1
  MaxLosses = 2
  Tills = {d1, d2}
  Total = 2
  MaxPayments = 2
  MaxMishaps = 1
  MaxHandDecisions = 1
SPECIFICATION MCSpec
INVARIANTS
  SalesAreRecordedOnce
  JobsMatchTheirHistory
  ChargesMatchPayments
PROPERTIES
  QueuedSalesKeepTheirContents
  ConcludedStaysConcluded
  SalesAreTriedUntilConcluded
  JobsAreConcluded
  ChargesAreRecorded
\* The system really stops: every sale synchronised, every document concluded.
CHECK_DEADLOCK FALSE
