--------------------------- MODULE DayAggregates ---------------------------
(***************************************************************************)
(* The data layer of the analytics service: the documents of the four      *)
(* agg_*_day collections, the MongoDB updates the repositories issue       *)
(* (app/analytics/repository), and the order in which each event handler   *)
(* of app/analytics/service issues them.                                   *)
(*                                                                         *)
(* Everything here is an operator: which step executes an update, and what *)
(* can go wrong between two of them, is the business of EventPipeline.     *)
(*                                                                         *)
(* Abstractions.  A calendar day is a natural number.  An aggregate row    *)
(* has the fields of all four collections, those its collection does not   *)
(* have stay 0; updated_at is left out (no code reads it).  Amounts are    *)
(* unbounded integers: the code uses int64, and MongoDB widens an int32    *)
(* counter by itself when it overflows.                                    *)
(***************************************************************************)
EXTENDS Integers, Sequences

CONSTANTS
  Restaurants,     \* restaurant ids
  Branches,        \* branch ids
  Products,        \* product ids that may occur in an item, also invalid ones
  Currencies,      \* ISO currency codes
  DefaultCurrency, \* "EGP"
  NoCurrency       \* the empty string, or a field an update does not $set

ASSUME CurrencyAssumption == /\ DefaultCurrency \in Currencies
                             /\ NoCurrency \notin Currencies
ASSUME ProductAssumption == Products \subseteq Int

NoDate == -1  \* a timestamp that is "" or not RFC 3339

Item == [product: Products, quantity: Int]

(* The fields of the four input types of app/analytics/types.go that a     *)
(* handler uses.  amount is TotalAmount, Amount or DeliveryDurationMs; at  *)
(* is the UTC day of PlacedAt, DeliveredAt, PaidAt or CancelledAt.         *)
Input == [restaurant: Restaurants, branch: Branches, amount: Int,
          currency: Currencies \cup {NoCurrency},
          at: Nat \cup {NoDate}, items: Seq(Item)]

-----------------------------------------------------------------------------
(* Documents and rows *)

RestaurantDoc(r, day) == [coll |-> "agg_restaurant_day", id |-> r, date |-> day]
BranchDoc(b, day)     == [coll |-> "agg_branch_day", id |-> b, date |-> day]
PlatformDoc(c, day)   == [coll |-> "agg_platform_day", id |-> c, date |-> day]
ProductDoc(p, r, day) == [coll |-> "agg_product_day", id |-> <<p, r>>, date |-> day]

(* A document is named by its unique index (uq_restaurant_date,            *)
(* uq_branch_date, uq_platform_date_currency, uq_product_restaurant_date). *)
Docs == [coll: {"agg_restaurant_day"}, id: Restaurants, date: Nat]
          \cup [coll: {"agg_branch_day"}, id: Branches, date: Nat]
          \cup [coll: {"agg_platform_day"}, id: Currencies, date: Nat]
          \cup [coll: {"agg_product_day"}, id: Products \X Restaurants, date: Nat]

Counters == [orders_count: Int, revenue_sum: Int, delivery_ms_sum: Int,
             delivery_ms_count: Int, quantity_sold: Int]

Row == [n: Counters, currency: Currencies \cup {NoCurrency}]

-----------------------------------------------------------------------------
(* Updates *)

(* One UpdateOne call: the documents its filter admits, whether it upserts *)
(* (then the filter names one document), its $inc and its $set of currency.*)
Update == [filter: SUBSET Docs, upsert: BOOLEAN, inc: Counters,
           currency: Currencies \cup {NoCurrency}]

Upsert(doc, inc, cur) ==
  [filter |-> {doc}, upsert |-> TRUE, inc |-> inc, currency |-> cur]

Modify(filter, inc) ==
  [filter |-> filter, upsert |-> FALSE, inc |-> inc, currency |-> NoCurrency]

(* {"date": date} selects a row of any currency. *)
PlatformDocs(day) == {PlatformDoc(c, day) : c \in Currencies}

Inc(orders, revenue, ms, deliveries, quantity) ==
  [orders_count |-> orders, revenue_sum |-> revenue, delivery_ms_sum |-> ms,
   delivery_ms_count |-> deliveries, quantity_sold |-> quantity]

Order(revenue) == Inc(1, revenue, 0, 0, 0)
Delivery(ms)   == Inc(0, 0, ms, 1, 0)
Revenue(amt)   == Inc(0, amt, 0, 0, 0)
Cancellation   == Inc(-1, 0, 0, 0, 0)
Sale(qty)      == Inc(1, 0, 0, 0, qty)

RestaurantDayUpsert(r, day, cur, amt) == Upsert(RestaurantDoc(r, day), Order(amt), cur)

(* Mutant of BranchDayUpsert: the revenue is counted, the order is not.    *)
BranchNotCounted(b, day, cur, amt)    == Upsert(BranchDoc(b, day), Revenue(amt), cur)

BranchDayUpsert(b, day, cur, amt)     == Upsert(BranchDoc(b, day), Order(amt), cur)

(* Mutant of PlatformDayUpsert: without SetUpsert(true).                   *)
PlatformNotUpserted(day, cur, amt)    == Modify({PlatformDoc(cur, day)}, Order(amt))

PlatformDayUpsert(day, cur, amt)      == Upsert(PlatformDoc(cur, day), Order(amt), cur)
ProductDayUpsert(p, r, day, qty)      == Upsert(ProductDoc(p, r, day), Sale(qty), NoCurrency)

RestaurantDayIncrDelivery(r, day, ms) == Modify({RestaurantDoc(r, day)}, Delivery(ms))
BranchDayIncrDelivery(b, day, ms)     == Modify({BranchDoc(b, day)}, Delivery(ms))
RestaurantDayIncrRevenue(r, day, amt) == Modify({RestaurantDoc(r, day)}, Revenue(amt))
BranchDayIncrRevenue(b, day, amt)     == Modify({BranchDoc(b, day)}, Revenue(amt))
PlatformDayIncrRevenue(day, amt)      == Modify(PlatformDocs(day), Revenue(amt))
RestaurantDayDecrOrder(r, day)        == Modify({RestaurantDoc(r, day)}, Cancellation)
BranchDayDecrOrder(b, day)            == Modify({BranchDoc(b, day)}, Cancellation)
PlatformDayDecrOrder(day)             == Modify(PlatformDocs(day), Cancellation)

-----------------------------------------------------------------------------
(* What MongoDB does with an update *)

AddCounters(m, n) ==
  Inc(m.orders_count + n.orders_count, m.revenue_sum + n.revenue_sum,
      m.delivery_ms_sum + n.delivery_ms_sum,
      m.delivery_ms_count + n.delivery_ms_count,
      m.quantity_sold + n.quantity_sold)

IncRow(row, u) ==
  [n |-> AddCounters(row.n, u.inc),
   currency |-> IF u.currency = NoCurrency THEN row.currency ELSE u.currency]

(* The documents that exist, each with its row. *)
IsRows(rows) == /\ rows = [d \in DOMAIN rows |-> rows[d]]
                /\ DOMAIN rows \subseteq Docs
                /\ \A d \in DOMAIN rows : rows[d] \in Row

Put(rows, doc, row) ==
  [d \in DOMAIN rows \cup {doc} |-> IF d = doc THEN row ELSE rows[d]]

Matches(rows, u) == DOMAIN rows \cap u.filter

(* UpdateOne changes one matching document (the server picks which), or,   *)
(* when there is none, inserts it if the update upserts and otherwise does *)
(* nothing and reports no error.  The result is the set of collections the *)
(* call can leave behind.                                                  *)
UpdateOne(rows, u) ==
  IF Matches(rows, u) # {}
    THEN {Put(rows, d, IncRow(rows[d], u)) : d \in Matches(rows, u)}
    ELSE IF u.upsert
      THEN {Put(rows, d, [n |-> u.inc, currency |-> u.currency]) : d \in u.filter}
      ELSE {rows}

-----------------------------------------------------------------------------
(* The handlers: the updates an event causes, in the order they are issued *)

(* Mutant of parseEventDate: no fallback to today. *)
DateAsGiven(at, today) == at

(* parseEventDate: the event's own UTC day, today for a timestamp that is  *)
(* absent or does not parse.                                               *)
parseEventDate(at, today) == IF at = NoDate THEN today ELSE at

(* An iteration of the items loop that only continues: it makes no call.   *)
NoCall == Modify({}, Inc(0, 0, 0, 0, 0))

ItemUpdate(item, r, day) ==
  IF item.product <= 0 \/ item.quantity <= 0
    THEN NoCall
    ELSE ProductDayUpsert(item.product, r, day, item.quantity)

(* Mutant of HandleOrderPlaced: the platform is counted before the branch. *)
PlatformBeforeBranch(in, today) ==
  LET day == parseEventDate(in.at, today)
      cur == IF in.currency = NoCurrency THEN DefaultCurrency ELSE in.currency
  IN  << RestaurantDayUpsert(in.restaurant, day, cur, in.amount),
         PlatformDayUpsert(day, cur, in.amount),
         BranchDayUpsert(in.branch, day, cur, in.amount) >>
      \o [k \in 1..Len(in.items) |-> ItemUpdate(in.items[k], in.restaurant, day)]

HandleOrderPlaced(in, today) ==
  LET day == parseEventDate(in.at, today)
      cur == IF in.currency = NoCurrency THEN DefaultCurrency ELSE in.currency
  IN  << RestaurantDayUpsert(in.restaurant, day, cur, in.amount),
         BranchDayUpsert(in.branch, day, cur, in.amount),
         PlatformDayUpsert(day, cur, in.amount) >>
      \o [k \in 1..Len(in.items) |-> ItemUpdate(in.items[k], in.restaurant, day)]

HandleOrderDelivered(in, today) ==
  LET day == parseEventDate(in.at, today)
  IN  << RestaurantDayIncrDelivery(in.restaurant, day, in.amount),
         BranchDayIncrDelivery(in.branch, day, in.amount) >>

(* Mutant of HandlePaymentSucceeded: the branch is credited first. *)
BranchPaidFirst(in, today) ==
  LET day == parseEventDate(in.at, today)
  IN  << BranchDayIncrRevenue(in.branch, day, in.amount),
         RestaurantDayIncrRevenue(in.restaurant, day, in.amount),
         PlatformDayIncrRevenue(day, in.amount) >>

HandlePaymentSucceeded(in, today) ==
  LET day == parseEventDate(in.at, today)
  IN  << RestaurantDayIncrRevenue(in.restaurant, day, in.amount),
         BranchDayIncrRevenue(in.branch, day, in.amount),
         PlatformDayIncrRevenue(day, in.amount) >>

HandleOrderCancelled(in, today) ==
  LET day == parseEventDate(in.at, today)
  IN  << RestaurantDayDecrOrder(in.restaurant, day),
         BranchDayDecrOrder(in.branch, day),
         PlatformDayDecrOrder(day) >>

(* The four registrations of eventhandlers.Register. *)
HandlerFor ==
  {"order.placed", "order.delivered", "payment.succeeded", "order.cancelled"}

Handle(key, in, today) ==
  CASE key = "order.placed"      -> HandleOrderPlaced(in, today)
    [] key = "order.delivered"   -> HandleOrderDelivered(in, today)
    [] key = "payment.succeeded" -> HandlePaymentSucceeded(in, today)
    [] key = "order.cancelled"   -> HandleOrderCancelled(in, today)
=============================================================================
