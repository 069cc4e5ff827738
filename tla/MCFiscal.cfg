\* One order of each provider, two workers, every fault once; two documents of one
\* total at the ADE worker, asked for three times, with one loss; two sellers with
\* a document each, a pool of one page, and sign-ins and mishaps up to three.
CONSTANTS
  ade = ade
  openapi = openapi
  acube = acube
  mock = mock
  a = a
  b = b
  shop = shop
  other = other
  bill = bill
  invoice = invoice
  Orders = {ade, openapi, acube, mock}
  Workers = {w1, w2}
  Provider <- MCProvider
  MaxAttempts = 1
  PollAttempts = 2
  JobAttempts = 2
  MaxRetries = 1
  MaxApiCrashes = 1
  MaxWorkerCrashes = 1
  MaxLostLocks = 1
  MaxSaveFailures = 1
  Operations = {a, b}
  Total <- EqualTotals
  Fast = TRUE
  MaxRemembered = 1
  ForeignTotals = {2}
  MaxForeign = 1
  MaxAsks = 3
  MaxLosses = 1
  FiscalIds = {shop, other}
  Default = shop
  SessionDir = TRUE
  PoolMax = 1
  Dcos = {bill, invoice}
  Seller <- MCSeller
  Rows <- OneRow
  Electronic = {invoice}
  MaxSessions = 2
SPECIFICATION MCSpec
INVARIANTS
  OneExecution
  VoidsFollowIssuedSales
  PagesAreSound
PROPERTIES
  SubmittedAtMostOnce
  AdeOutcome
  DocumentsAreConcluded
  LockIsReleased
\* The system really stops: nobody need ask for another document.
CHECK_DEADLOCK FALSE
