----------------------------- MODULE Catalogue -----------------------------
(***************************************************************************)
(* What a merchant sells, where and for how much: the catalogue managers   *)
(* edit, the two places that work out a price from it - the list a till    *)
(* loads and shows, and the order a line is added to -, and the till's     *)
(* loads, which overlap, fail, and fall back on a copy kept on the device. *)
(***************************************************************************)
EXTENDS Integers, FiniteSets, FiniteSetsExt

CONSTANTS
  Products, CategoryIds, VatRates,
  Lists,       \* price lists, numbered as their ids are ordered
  Places,      \* locations
  ListPrices, Currencies, Priorities,
  Starts,      \* what the catalogue may hold to begin with
  Windows,     \* [from, to]: when a list or a price applies; a bound left open is beyond the clock
  MaxDay, MaxEdits, MaxLoads   \* bounds

Keys == {"BASE", "VARIANT"}   \* buildPriceKey: the product itself, or its variant
Absent == [status |-> "ABSENT"]
Status == {"ACTIVE", "INACTIVE"}

ListRow == [status : Status, priority : Int, currency : STRING, window : [from : Int, to : Int]]
ListAssignment == [status : Status, priority : Int]
PriceRow == [status : Status, amount : Nat, window : [from : Int, to : Int]]
ASSUME CatalogueAssumption ==
  /\ Lists \subseteq Nat /\ IsFiniteSet(Lists)
  /\ ListPrices \subseteq Nat /\ Currencies \subseteq STRING /\ Priorities \subseteq Int
  /\ Windows \subseteq [from : Int, to : Int]
  /\ {MaxDay, MaxEdits, MaxLoads} \subseteq Nat
  /\ \A start \in Starts :
       /\ {"lists", "assignments", "prices"} \subseteq DOMAIN start
       /\ start["lists"] \in [Lists -> {Absent} \cup ListRow]
       /\ start["assignments"] \in [Places \X Lists -> {Absent} \cup ListAssignment]
       /\ start["prices"] \in [Lists \X Products \X Keys -> {Absent} \cup PriceRow]

VARIABLES
  catalogue, \* its tables: table -> id -> row, or Absent
  day, edits,
  till,      \* the till's screen, and the copy it keeps of each place
  loads,     \* its requests under way
  settled    \* nothing changed since the till last asked

catalogueVars == <<catalogue, day, edits, till, loads, settled>>

\* The rows a request may write, keyed by id, or by the ids they join: a variant by its
\* product, an offer (location_products) by place and product, an assignment by place and
\* list, a price by list, product and key.  odd: by the piece, but counted in decimals.
RowsOf(table) ==
  CASE table \in {"categories", "vatRates", "variants"} -> [status : Status]
    [] table = "products" ->
         [status : Status, category : CategoryIds, vat : VatRates, odd : BOOLEAN]
    [] table = "lists" ->
         [status : Status, priority : Priorities, currency : Currencies, window : Windows]
    [] table = "assignments" -> [status : Status, priority : Priorities]
    [] table = "prices" -> [status : Status, amount : ListPrices, window : Windows]
    [] table = "offers" -> [status : Status]   \* location_products: enabled or not

IsActive(table, id) == catalogue[table][id].status = "ACTIVE"
Applies(window) == window.from <= day /\ day <= window.to
Higher(x, y) == \E n \in 1..3 : x[n] > y[n] /\ \A m \in 1..(n - 1) : x[m] = y[m]

NoSnapshot == [place |-> "NONE"]
NoPrice == [amount |-> -1, currency |-> "NONE"]   \* a price of 0 is one

CatalogueInit ==
  /\ catalogue \in Starts /\ day = 0 /\ edits = 0
  /\ till = [place |-> "NONE", status |-> "IDLE", offline |-> FALSE, snapshot |-> NoSnapshot,
             asked |-> 0, kept |-> [place \in Places |-> NoSnapshot]]
  /\ loads = {} /\ settled = FALSE

-----------------------------------------------------------------------------
(* Managers *)

\* Category and VAT rate of a product that is or stays for sale
References(row) ==
  row.status = "ACTIVE" => IsActive("categories", row.category) /\ IsActive("vatRates", row.vat)

ValidRange(row) == row.window.from < row.window.to   \* validateDateRange

\* A request reads the row before it writes it: what it writes back stale, it
\* could as well have been asked to write.
Put(new) ==
  /\ edits < MaxEdits /\ edits' = edits + 1
  /\ catalogue' = new /\ settled' = FALSE
  /\ UNCHANGED <<day, till, loads>>

Create(table, id, row) ==
  /\ catalogue[table][id] = Absent /\ row.status = "ACTIVE"
  /\ Put([catalogue EXCEPT ![table][id] = row])
Update(table, id, row) == catalogue[table][id] # Absent /\ Put([catalogue EXCEPT ![table][id] = row])
Archive(table, id) ==
  catalogue[table][id] # Absent /\ Put([catalogue EXCEPT ![table][id].status = "INACTIVE"])

CreateCategory(c, row) == Create("categories", c, row)
UpdateCategory(c, row) == Update("categories", c, row)
ArchiveCategory(c) == Archive("categories", c)

CreateVatRate(v, row) == Create("vatRates", v, row)
UpdateVatRate(v, row) == Update("vatRates", v, row)
ArchiveVatRate(v) == Archive("vatRates", v)

CreateProduct(p, row) == References(row) /\ Create("products", p, row)
UpdateProduct(p, row) == References(row) /\ Update("products", p, row)

\* The product is taken out of every location that lists it.
ArchiveProduct(p) ==
  /\ catalogue["products"][p] # Absent
  /\ Put([catalogue EXCEPT
             !["products"][p].status = "INACTIVE",
             !["offers"] = [id \in Places \X Products |->
                IF id[2] = p /\ @[id] # Absent THEN [status |-> "INACTIVE"] ELSE @[id]]])

CreateVariant(p, row) == catalogue["products"][p] # Absent /\ Create("variants", p, row)
UpdateVariant(p, row) == Update("variants", p, row)

\* A product is offered at every location that does not say otherwise.
UpsertLocation(place, p, row) ==
  catalogue["products"][p] # Absent /\ Put([catalogue EXCEPT !["offers"][<<place, p>>] = row])

CreatePriceList(l, row) == ValidRange(row) /\ Create("lists", l, row)
UpdatePriceList(l, row) == ValidRange(row) /\ Update("lists", l, row)
AssignPriceList(place, l, row) ==
  catalogue["lists"][l] # Absent /\ Put([catalogue EXCEPT !["assignments"][<<place, l>>] = row])

\* A price that was archived is active again.
UpsertProductPrice(l, p, key, row) ==
  /\ catalogue["lists"][l] # Absent /\ catalogue["products"][p] # Absent
  /\ key = "VARIANT" => catalogue["variants"][p] # Absent
  /\ row.status = "ACTIVE" /\ ValidRange(row)
  /\ Put([catalogue EXCEPT !["prices"][<<l, p, key>>] = row])
ArchiveProductPrice(id) == Archive("prices", id)

-----------------------------------------------------------------------------
(* The price of an order's line: OrderPricingService *)

Orderable(place, p) ==
  LET product == catalogue["products"][p] IN
  /\ IsActive("products", p) /\ ~ product.odd
  /\ IsActive("categories", product.category) /\ IsActive("vatRates", product.vat)
  /\ catalogue["offers"][<<place, p>>] = Absent \/ IsActive("offers", <<place, p>>)

\* ORDER BY lpl.priority DESC, pl.priority DESC, pl.id ASC
Charging(place, p, key) ==
  {l \in Lists : /\ IsActive("assignments", <<place, l>>) /\ IsActive("lists", l)
                 /\ IsActive("prices", <<l, p, key>>)
                 /\ Applies(catalogue["lists"][l].window)
                 /\ Applies(catalogue["prices"][<<l, p, key>>].window)}
ChargingRank(place, l) ==
  <<catalogue["assignments"][<<place, l>>].priority, catalogue["lists"][l].priority, -l>>

\* The price of the first list that has one, in that list's currency.
FindPrice(place, p, key) ==
  LET lists == Charging(place, p, key) IN
  IF lists = {} THEN NoPrice
  ELSE LET first == CHOOSE l \in lists : \A k \in lists \ {l} :
                      Higher(ChargingRank(place, l), ChargingRank(place, k)) IN
       [amount |-> catalogue["prices"][<<first, p, key>>].amount,
        currency |-> catalogue["lists"][first].currency]

\* resolve: the price of a line, or none if it is refused.
ChargedPrice(place, p, key) ==
  IF ~ Orderable(place, p) \/ (key = "VARIANT" /\ ~ IsActive("variants", p)) THEN NoPrice
  ELSE IF FindPrice(place, p, key) # NoPrice THEN FindPrice(place, p, key)
  ELSE FindPrice(place, p, "BASE")

-----------------------------------------------------------------------------
(***************************************************************************)
(* Mistakes this code could contain and does not: each, in the place of    *)
(* the definition it is a variant of, makes a property fail.               *)
(***************************************************************************)
\* A late answer is shown whatever was asked since.
LatestOrForPlace(r) == r.place = till.place
-----------------------------------------------------------------------------
(* What the catalogue tells a till: CatalogQueryService *)

Listed(place, p) ==
  LET product == catalogue["products"][p] IN
  /\ IsActive("products", p)
  /\ IsActive("categories", product.category) /\ IsActive("vatRates", product.vat)
  /\ catalogue["offers"][<<place, p>>] = Absent \/ IsActive("offers", <<place, p>>)

\* The lists of a place with their rank, the best first.
Ranking(place) ==
  LET lists == {l \in Lists : /\ IsActive("assignments", <<place, l>>) /\ IsActive("lists", l)
                              /\ Applies(catalogue["lists"][l].window)}
      sorted(l) == <<catalogue["assignments"][<<place, l>>].priority,
                     catalogue["lists"][l].priority, -l>> IN
  [l \in lists |-> Cardinality({k \in lists : Higher(sorted(k), sorted(l))})]

\* pickEffectivePrice: an amount, whose list's currency is not looked at.
EffectivePrice(rank, p, key) ==
  LET lists == {l \in DOMAIN rank : /\ IsActive("prices", <<l, p, key>>)
                                    /\ Applies(catalogue["prices"][<<l, p, key>>].window)} IN
  IF lists = {} THEN NoPrice.amount
  ELSE LET best == CHOOSE l \in lists : \A k \in lists : rank[l] <= rank[k] IN
       catalogue["prices"][<<best, p, key>>].amount

\* assignments[0]?.currency ?? 'EUR': that of the first list, whichever list has a price.
AnswerCurrency(rank) ==
  IF DOMAIN rank = {} THEN "EUR"
  ELSE catalogue["lists"][CHOOSE l \in DOMAIN rank :
                            \A k \in DOMAIN rank : rank[l] <= rank[k]].currency

\* What a place is told: what it offers, every price of it, one currency for them all.
AnswerNow(place) ==
  LET rank == Ranking(place)
      offered == {p \in Products : Listed(place, p)} IN
  [place |-> place, offered |-> offered, currency |-> AnswerCurrency(rank),
   variants |-> {p \in offered : IsActive("variants", p)},
   price |-> [id \in offered \X Keys |-> EffectivePrice(rank, id[1], id[2])]]

Replace(r, new) == loads' = (loads \ {r}) \cup {new}

\* The three queries are one step: what changes between them changes after the till asked.
Query(r) ==
  /\ r.stage = "ASKED"
  /\ Replace(r, [r EXCEPT !.stage = "ANSWERED", !.answer = AnswerNow(r.place)])
  /\ UNCHANGED <<catalogue, day, edits, till, settled>>

-----------------------------------------------------------------------------
(* The till: CatalogController *)

Latest(r) == r.number = till.asked   \* requestVersion

Load(place) ==
  /\ till.asked < MaxLoads
  /\ till' = [till EXCEPT !.asked = @ + 1, !.place = place, !.status = "LOADING",
                !.snapshot = IF till.place = place THEN @ ELSE NoSnapshot]
  /\ loads' = loads \cup {[number |-> till.asked + 1, place |-> place, stage |-> "ASKED",
                           answer |-> NoSnapshot]}
  /\ settled' = TRUE
  /\ UNCHANGED <<catalogue, day, edits>>

\* The copy on the device is written if it can be.
Arrive(r, saved) ==
  /\ r.stage = "ANSWERED" /\ loads' = loads \ {r}
  /\ till' = IF ~ Latest(r) THEN till
             ELSE [till EXCEPT !.snapshot = r.answer, !.offline = FALSE, !.status = "READY",
                     !.kept[r.place] = IF saved THEN r.answer ELSE @]
  /\ UNCHANGED <<catalogue, day, edits, settled>>

\* Only what may be an outage leads to the copy.
Fail(r, outage) ==
  /\ r.stage # "RESTORING"
  /\ IF Latest(r) /\ outage
       THEN Replace(r, [r EXCEPT !.stage = "RESTORING"]) /\ UNCHANGED till
       ELSE /\ loads' = loads \ {r}
            /\ till' = IF Latest(r) THEN [till EXCEPT !.status = "FAILURE"] ELSE till
  /\ UNCHANGED <<catalogue, day, edits, settled>>

\* A failure is shown also when the till has asked again meanwhile.
RestoreCopy(r) ==
  /\ r.stage = "RESTORING" /\ loads' = loads \ {r}
  /\ till' = IF Latest(r) /\ till.kept[r.place] # NoSnapshot
               THEN [till EXCEPT !.snapshot = till.kept[r.place], !.offline = TRUE,
                       !.status = "READY"]
               ELSE [till EXCEPT !.status = "FAILURE"]
  /\ UNCHANGED <<catalogue, day, edits, settled>>

ClearTill ==
  /\ till.asked < MaxLoads /\ till.place # "NONE"
  /\ till' = [till EXCEPT !.asked = @ + 1, !.status = "IDLE", !.snapshot = NoSnapshot,
                !.place = "NONE", !.offline = FALSE]
  /\ UNCHANGED <<catalogue, day, edits, loads, settled>>

TimePasses ==
  /\ day < MaxDay /\ day' = day + 1 /\ settled' = FALSE
  /\ UNCHANGED <<catalogue, edits, till, loads>>

Manage ==
  \/ \E row \in RowsOf("categories"), c \in CategoryIds : CreateCategory(c, row) \/ UpdateCategory(c, row)
  \/ \E row \in RowsOf("vatRates"), v \in VatRates : CreateVatRate(v, row) \/ UpdateVatRate(v, row)
  \/ \E c \in CategoryIds : ArchiveCategory(c)
  \/ \E v \in VatRates : ArchiveVatRate(v)
  \/ \E p \in Products :
       \/ \E row \in RowsOf("products") : CreateProduct(p, row) \/ UpdateProduct(p, row)
       \/ \E row \in RowsOf("variants") : CreateVariant(p, row) \/ UpdateVariant(p, row)
       \/ ArchiveProduct(p)
       \/ \E place \in Places, row \in RowsOf("offers") : UpsertLocation(place, p, row)
  \/ \E l \in Lists :
       \/ \E row \in RowsOf("lists") : CreatePriceList(l, row) \/ UpdatePriceList(l, row)
       \/ \E place \in Places, row \in RowsOf("assignments") : AssignPriceList(place, l, row)
       \/ \E p \in Products, key \in Keys :
            \/ \E row \in RowsOf("prices") : UpsertProductPrice(l, p, key, row)
            \/ ArchiveProductPrice(<<l, p, key>>)

CatalogueNext ==
  \/ Manage
  \/ \E place \in Places : Load(place)
  \/ \E r \in loads :
       \/ Query(r) \/ RestoreCopy(r)
       \/ \E saved \in BOOLEAN : Arrive(r, saved)
       \/ \E outage \in BOOLEAN : Fail(r, outage)
  \/ ClearTill \/ TimePasses

CatalogueSpec == CatalogueInit /\ [][CatalogueNext]_catalogueVars

-----------------------------------------------------------------------------
\* What a cashier may add to an order for: effectivePrice of addCatalogItem, in the
\* currency the till shows every price in.
ShownPrice(p, key) ==
  LET s == till.snapshot
      amount == IF s.price[<<p, key>>] # NoPrice.amount THEN s.price[<<p, key>>]
                ELSE s.price[<<p, "BASE">>] IN
  IF p \notin s.offered \/ (key = "VARIANT" /\ p \notin s.variants)
     \/ amount = NoPrice.amount THEN NoPrice
  ELSE [amount |-> amount, currency |-> s.currency]

\* A product by the piece that is counted in decimals
Odd(p) == catalogue["products"][p] # Absent /\ catalogue["products"][p].odd

\* The lists a place sells from now are in one currency.
OneCurrency(place) ==
  \A l, k \in DOMAIN Ranking(place) :
    catalogue["lists"][l].currency = catalogue["lists"][k].currency

(***************************************************************************)
(* A till that shows the catalogue as it loaded it, and nothing changed    *)
(* since it last asked, has a price exactly for what OrderPricingService   *)
(* finds one for, of the same amount - 0 included -, whichever answers     *)
(* came late and whichever lists compete; the currency is the same too as  *)
(* long as the place's lists are in one, which nothing in the code         *)
(* enforces.  Only a product by the piece that is counted in decimals is   *)
(* shown and refused.  A till never shows another place's catalogue        *)
(* (CatalogQueryService, OrderPricingService, CatalogController).          *)
(***************************************************************************)
ShownIsCharged ==
  /\ till.snapshot # NoSnapshot => till.snapshot.place = till.place
  /\ settled /\ till.status = "READY" /\ ~ till.offline =>
       \A p \in Products, key \in Keys :
         LET shown == ShownPrice(p, key)
             charged == ChargedPrice(till.place, p, key) IN
         \/ Odd(p)
         \/ shown.amount = charged.amount /\ (OneCurrency(till.place) => shown = charged)
=============================================================================
