\* Violated: a sale whose synchronisation the app did not live to see the end of
\* stays SYNCING.
CONSTANTS
  Parts = {"sales"}
  Sales = {s1}
  Contents = {one}
  QueryAccepted = TRUE
  MaxCrashes = 1
  MaxFailures = 1
  Devices = {d1}
  Jobs = {j1}
  MaxAttempts = 1
  MaxTokens = 1
  MaxDecisions = 0
  MaxAssignments = 0
  MaxLosses = 0
  Tills = {d1}
  Total = 0
  MaxPayments = 1
  MaxMishaps = 0
  MaxHandDecisions = 0
SPECIFICATION MCSpec
PROPERTIES
  SalesAreSynced
\* The system really stops: every sale synchronised, every document concluded.
CHECK_DEADLOCK FALSE
