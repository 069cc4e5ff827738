\* Two stations, two tickets, two tables, two bills, two checkouts, three
\* payments; orders to total of up to three lines and two discounts.
CONSTANTS
  o1 = o1
  l1 = l1
  l2 = l2
  food = food
  drinks = drinks
  Orders = {o1}
  Lines = {l1, l2}
  Discounts = {1}
  Stations = {s1, s2}
  Tickets = {x1, x2}
  Tables = {m1, m2}
  Sessions = {x1, x2}
  Checkouts = {c1, c2}
  Payments = {p1, p2, p3}
  OrderOf <- OneOrder
  Price <- Prices
  Category <- TwoCategories
  MaxQuantity = 2
  MaxVersion = 6
  LineIds = {1, 2, 3}
  UnitPrices = {5, 20}
  Quantities = {1, 350}
  Scales = {0, 3}
  Rates = {0, 2200}
  FixedValues = {1, 4}
  PercentValues = {1000, 5000}
SPECIFICATION MCSpec
SYMMETRY Symmetry
INVARIANTS
  KitchenGetsNoMoreThanOrdered
  TablesAreSound
  CheckoutsAreSound
  TotalsAddUp
PROPERTIES
  ChargedAsShown
  KeepsTheContract
\* The bounds on versions and identifiers end every behaviour.
CHECK_DEADLOCK FALSE
