\* Violated: a refund hides a captured payment from cancelCheckout.
CONSTANTS
  o1 = o1
  l1 = l1
  l2 = l2
  food = food
  drinks = drinks
  Orders = {o1}
  Lines = {l2}
  Discounts = {}
  Stations = {}
  Tickets = {}
  Tables = {}
  Sessions = {}
  Checkouts = {c1, c2}
  Payments = {p1, p2}
  OrderOf <- OneOrder
  Price <- DearPrices
  Category <- TwoCategories
  MaxQuantity = 1
  MaxVersion = 6
  LineIds = {1}
  UnitPrices = {5}
  Quantities = {1}
  Scales = {0}
  Rates = {0}
  FixedValues = {1}
  PercentValues = {1000}
SPECIFICATION MCSpec
INVARIANTS
  CancelledCheckoutsKeepNoMoney
\* The bounds on versions and identifiers end every behaviour.
CHECK_DEADLOCK FALSE
