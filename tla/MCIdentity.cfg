\* A browser and a POS, two organizations, two requests at once, two sign-ins
\* and four tokens; two members and two updates at once; two
\* locations, areas, tables and VAT numbers, two administrators of the platform.
CONSTANTS
  web = web
  pos = pos
  Devices = {web, pos}
  Browsers = {web}
  Orgs = {o1, o2}
  Calls = {c1, c2}
  MaxSessions = 2
  MaxTokens = 4
  MaxExpiries = 2
  MaxSwitches = 1
  MaxSignOuts = 1
  MaxDecisions = 1
  MaxLosses = 1
  Users = {u1, u2}
  Requests = {r1, r2}
  Locations = {l1, l2}
  Merchants = {m1, m2}
  Tables = {t1, t2}
  Events = {e1}
  Administrators = {a1, a2}
  Dates = {1, 2}
  Areas = {s1, s2}
SPECIFICATION MCSpec
SYMMETRY Symmetries
INVARIANTS
  TokensAreExchangedOnce
  TenantsAreSound
PROPERTIES
  RevokedStaysRevoked
  OwnerRemains
\* The user really stops when the bounds are used up.
CHECK_DEADLOCK FALSE
