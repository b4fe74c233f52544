--------------------------- MODULE PipelineTotals ---------------------------
(***************************************************************************)
(* Properties of the pipeline that add up rows: how the four collections   *)
(* agree with one another and with the events that were published.         *)
(***************************************************************************)
EXTENDS EventPipeline, FiniteSetsExt

Days == {d.date : d \in DOMAIN rows}

(* The values of a field, and their sum over a set of documents that exist. *)
Column(rws, field) == [d \in DOMAIN rws |-> rws[d].n[field]]

Total(field, S) == SumFunctionOnSet(Column(rows, field), S)

RowsOf(coll) == {d \in DOMAIN rows : d.coll = coll}

OnDay(coll, day, field) == Total(field, {d \in RowsOf(coll) : d.date = day})

(* The events published so far that the consumer hands to a handler. *)
Events == {body[c] : c \in {c \in Copies : Published(c) /\ Handled(body[c])}}
Placed == {m \in Events : m.key = "order.placed"}
Paid   == {m \in Events : m.key = "payment.succeeded"}
Cancelled == {m \in Events : m.key = "order.cancelled"}

Amount(S) == SumFunction([m \in S |-> m.payload.amount])

(* Everything published has been dealt with, and nothing ever failed. *)
QuietAndFaultless ==
  /\ quota = Quota
  /\ \A c \in Copies : place[c] \in {"outbox", "acked", "dead"}

-----------------------------------------------------------------------------
(* The order of HandleOrderPlaced's three upserts                          *)
(* (analytics_service.go:55-63): whatever fails in between, on however     *)
(* many instances, the orders and the revenue of a day never show in the   *)
(* platform rows before they show in the branch rows, nor in those before  *)
(* the restaurant rows.  For workloads of placed orders with amounts that  *)
(* are not negative.                                                       *)
Cascade ==
  \A day \in Days, field \in {"orders_count", "revenue_sum"} :
    /\ OnDay("agg_restaurant_day", day, field) >= OnDay("agg_branch_day", day, field)
    /\ OnDay("agg_branch_day", day, field) >= OnDay("agg_platform_day", day, field)

(* "Dedup must prevent double-counting" (tests/integration/dedup_test.go): *)
(* no row collection counts more orders, or more revenue, than the events  *)
(* published carry, under duplicates, redelivery, failures and restarts.   *)
(* For workloads of placed orders with amounts that are not negative, and  *)
(* no marker expiring.                                                     *)
NeverOvercounts ==
  \A coll \in {"agg_restaurant_day", "agg_branch_day", "agg_platform_day"} :
    /\ Total("orders_count", RowsOf(coll)) <= Cardinality(Placed)
    /\ Total("revenue_sum", RowsOf(coll)) <= Amount(Placed)

BranchesOf(r) ==
  {m.payload.branch : m \in {m \in Events : m.payload.restaurant = r}}

(* With one instance the branch rows of a restaurant never get ahead of    *)
(* its own row: every handler of analytics_service.go:47-103 updates the   *)
(* restaurant first, and an update that finds no restaurant row finds no   *)
(* branch row either.  orders_count is left out: a cancellation takes from *)
(* the restaurant first.  For branches of one restaurant each and amounts  *)
(* that are not negative.                                                  *)
BranchesWithinRestaurant ==
  \A r \in Restaurants, day \in Days,
     field \in {"revenue_sum", "delivery_ms_sum", "delivery_ms_count"} :
    Total(field, DOMAIN rows \cap {BranchDoc(b, day) : b \in BranchesOf(r)})
      <= Total(field, DOMAIN rows \cap {RestaurantDoc(r, day)})

(* A cancellation takes back one order at most in each collection, under   *)
(* duplicates, redelivery and failures: a row begins with one order        *)
(* (restaurant_day_repo.go:28-44), and orders_count, which may fall below  *)
(* zero on a day without orders left (restaurant_day_repo.go:70-78), falls *)
(* no further than by the events published.  For no marker expiring.       *)
CancelledOnce ==
  \A coll \in {"agg_restaurant_day", "agg_branch_day", "agg_platform_day"} :
    Total("orders_count", RowsOf(coll))
      >= Cardinality(RowsOf(coll)) - Cardinality(Cancelled)

(* The day an order counts on: its own, or, without one, the day it was    *)
(* first handled.                                                          *)
DayOf(m) ==
  IF m.payload.at = NoDate THEN claims[m.id][1] \div DayLength ELSE m.payload.at

CurrencyOf(m) ==
  IF m.payload.currency = NoCurrency THEN DefaultCurrency ELSE m.payload.currency

(* The three rows an order counts in, and the row of one of its items. *)
OrderRows(m) ==
  {RestaurantDoc(m.payload.restaurant, DayOf(m)), BranchDoc(m.payload.branch, DayOf(m)),
   PlatformDoc(CurrencyOf(m), DayOf(m))}

SaleRow(m, k) == ProductDoc(m.payload.items[k].product, m.payload.restaurant, DayOf(m))

(* The items of an order that have a product and a quantity. *)
Sales(m) == {k \in DOMAIN m.payload.items : /\ m.payload.items[k].product > 0
                                            /\ m.payload.items[k].quantity > 0}

(* Those that belong in d, and how many were bought in them. *)
SalesIn(m, d) == {k \in Sales(m) : SaleRow(m, k) = d}
Bought(m, d) == SumFunction([k \in SalesIn(m, d) |-> m.payload.items[k].quantity])

OrdersIn(d) == {m \in Placed : d \in OrderRows(m)}

(* What a row stands for: the orders it counts and their amounts, or, for  *)
(* a product, the items that named it and the quantities.                  *)
Expected(d) ==
  IF d.coll = "agg_product_day"
    THEN Inc(SumFunction([m \in Placed |-> Cardinality(SalesIn(m, d))]), 0, 0, 0,
             SumFunction([m \in Placed |-> Bought(m, d)]))
    ELSE Inc(Cardinality(OrdersIn(d)), Amount(OrdersIn(d)), 0, 0, 0)

(* Without faults, and with everything handled, the rows are the events    *)
(* (analytics_service.go:36-73): there is a row for every restaurant,      *)
(* branch, currency (EGP for none) and product of a restaurant, on every   *)
(* day, that a placed order names, and no other row; and each counts       *)
(* exactly the orders, the revenue and the sales of that day, each order   *)
(* once, an item with no product or no quantity left out.  An order counts *)
(* on its own day, and without a date on the day it was first handled, in  *)
(* all its rows.  A product counts the items that name it as orders, two   *)
(* for an order that names it twice.  For workloads of placed orders.      *)
ExactWhenQuiet ==
  QuietAndFaultless =>
    /\ DOMAIN rows = UNION {OrderRows(m) \cup {SaleRow(m, k) : k \in Sales(m)} : m \in Placed}
    /\ \A d \in DOMAIN rows : rows[d].n = Expected(d)

-----------------------------------------------------------------------------
(* What the docs say and the code does not do *)

(* "Query returns sum across all restaurants"                              *)
(* (docs/implementation-plan.md:77): the platform's revenue of a day is    *)
(* that of all restaurants.  A payment finds any platform row of the day   *)
(* (platform_day_repo.go:46-54) even when its restaurant has no row.       *)
PlatformIsSum ==
  QuietAndFaultless =>
    \A day \in Days : OnDay("agg_platform_day", day, "revenue_sum")
                        = OnDay("agg_restaurant_day", day, "revenue_sum")

(* "This ensures per-day rows merge correctly even if events replay out of *)
(* order" (docs/system-design.md:74): the revenue of the restaurants is    *)
(* that of the placed orders and the payments, in whatever order they are  *)
(* handled.  A payment that comes first is dropped: IncrRevenue does not   *)
(* upsert (restaurant_day_repo.go:60-68).                                  *)
OrderDoesNotMatter ==
  QuietAndFaultless =>
    Total("revenue_sum", RowsOf("agg_restaurant_day")) = Amount(Placed) + Amount(Paid)
=============================================================================
