------------------------------ MODULE DaysQuery ------------------------------
(***************************************************************************)
(* The four GET .../days routes, read while the consumer writes: a client  *)
(* asks one query after the other; the controller validates it, the        *)
(* service has the repository find the rows of a range of days, and the    *)
(* rows become the answer.  Who may ask is the business of PermissionCache.*)
(*                                                                         *)
(* Find takes no snapshot.  MongoDB reads one document at a time, in an    *)
(* order of its own, and documents inserted meanwhile it may find or miss; *)
(* the sort of an answer by day and product says no more than the set.     *)
(***************************************************************************)
EXTENDS PipelineTotals

CONSTANTS
  Queries,  \* the queries a client may send, see QueryShape
  BadId,    \* an id that is not a positive integer
  NoQuery   \* the client is not waiting for an answer

Routes == {"restaurants", "branches", "products", "platform"}

Missing == -1  \* a date that is not given
BadDate == -2  \* one that is not YYYY-MM-DD

Dates == Nat \cup {Missing, BadDate}

(* id is branchId on the route of a branch, whose restaurantId is checked  *)
(* to be a number and then not used, and restaurantId on the other two.    *)
QueryShape == [route: Routes, id: Restaurants \cup Branches \cup {BadId},
               from: Dates, to: Dates]

ASSUME QueriesAssumption == /\ Queries \subseteq QueryShape
                            /\ NoQuery \notin Queries
                            /\ BadId \notin Restaurants \cup Branches

VARIABLES
  asked,   \* the query being answered, or NoQuery
  found,   \* the documents it has read, with their rows
  due,     \* the documents that were there when it began to read
  acked,   \* history: AckedFaultless when it was asked
  answer   \* the client's last answer

reader == <<asked, found, due, acked, answer>>
qvars  == <<vars, reader>>

NoRows == [d \in {} |-> 0]

Codes == {"none", "OK", "VALIDATION_ERROR", "ANALYTICS_INVALID_DATE_RANGE",
          "INTERNAL_ERROR"}

-----------------------------------------------------------------------------
(* What a query asks for *)

(* ParseGet...DaysRequest looks at the ids, at from and at to; *)
Unparsable(q) == \/ q.route # "platform" /\ q.id = BadId
                 \/ {q.from, q.to} \cap {Missing, BadDate} # {}

(* the service compares the dates that parse. *)
Verdict(q) ==
  CASE Unparsable(q) -> "VALIDATION_ERROR"
    [] ~Unparsable(q) /\ q.from > q.to -> "ANALYTICS_INVALID_DATE_RANGE"
    [] OTHER -> "OK"

Collection(route) ==
  CASE route = "restaurants" -> "agg_restaurant_day"
    [] route = "branches"    -> "agg_branch_day"
    [] route = "products"    -> "agg_product_day"
    [] route = "platform"    -> "agg_platform_day"

(* The filter of the Find of each repository. *)
Selects(q, d) ==
  /\ d.coll = Collection(q.route)
  /\ d.date \in q.from..q.to
  /\ CASE q.route = "platform" -> TRUE
       [] q.route = "products" -> d.id[2] = q.id
       [] OTHER                -> d.id = q.id

(* Go's integer division cuts towards zero. *)
Quotient(a, b) == IF a >= 0 THEN a \div b ELSE -((-a) \div b)

(* A row of an answer.  AvgOrderMinor is 0 when no order is left, which a  *)
(* cancellation on a later day can bring about, and less.                  *)
Shown(row) ==
  [orders  |-> row.n.orders_count, revenue |-> row.n.revenue_sum,
   sold    |-> row.n.quantity_sold, currency |-> row.currency,
   average |-> IF row.n.orders_count > 0
                 THEN Quotient(row.n.revenue_sum, row.n.orders_count) ELSE 0]

Response(q, code, shown) == [query |-> q, code |-> code, rows |-> shown]

(* The type of every variable of the reader; an answer shows no document   *)
(* its query does not select, and none at all unless its code is OK.       *)
QueryTypeOK ==
  /\ asked \in Queries \cup {NoQuery}
  /\ due \subseteq DOMAIN rows
  /\ acked \subseteq Messages
  /\ \A d \in DOMAIN found : asked # NoQuery /\ Selects(asked, d)
  /\ answer.query \in Queries \cup {NoQuery} /\ answer.code \in Codes
  /\ \A d \in DOMAIN answer.rows : answer.code = "OK" /\ Selects(answer.query, d)

QueryInit ==
  /\ Init
  /\ asked = NoQuery
  /\ found = NoRows
  /\ due = {}
  /\ acked = {}
  /\ answer = Response(NoQuery, "none", NoRows)

-----------------------------------------------------------------------------
(* The placed orders every published copy of which is acked, as long as    *)
(* nothing has failed.                                                     *)
AckedFaultless ==
  {m \in Placed : quota = Quota /\ \A c \in CopiesOf(m.id) : place[c] = "acked"}

(* Mutant of Respond: the next answer begins with the rows of this one.    *)
RowsKept(q, code, shown) ==
  /\ answer' = Response(q, code, shown)
  /\ asked' = NoQuery
  /\ due' = {}
  /\ acked' = {}
  /\ UNCHANGED <<found, vars>>

(* Wrap or SendSuccess: the client has its answer. *)
Respond(q, code, shown) ==
  /\ answer' = Response(q, code, shown)
  /\ asked' = NoQuery
  /\ found' = NoRows
  /\ due' = {}
  /\ acked' = {}
  /\ UNCHANGED vars

(* The client asks, and the controller or the service rejects the query,   *)
(* or the repository begins to read.                                       *)
Ask(q) ==
  /\ asked = NoQuery
  /\ \/ /\ Verdict(q) # "OK"
        /\ Respond(q, Verdict(q), NoRows)
     \/ /\ Verdict(q) = "OK"
        /\ asked' = q
        /\ due' = {d \in DOMAIN rows : Selects(q, d)}
        /\ acked' = AckedFaultless
        /\ UNCHANGED <<vars, found, answer>>

(* MongoDB reads one more document of the range. *)
Read(d) ==
  /\ asked # NoQuery
  /\ d \in DOMAIN rows \ DOMAIN found
  /\ Selects(asked, d)
  /\ found' = Put(found, d, rows[d])
  /\ UNCHANGED <<vars, asked, due, acked, answer>>

Result == [d \in DOMAIN found |-> Shown(found[d])]

(* Mutant of Finish: the cursor is left before it is exhausted. *)
FirstBatchOnly ==
  /\ asked # NoQuery
  /\ Respond(asked, "OK", Result)

(* cursor.All has them all; those inserted meanwhile may be missing. *)
Finish ==
  /\ asked # NoQuery
  /\ due \subseteq DOMAIN found
  /\ Respond(asked, "OK", Result)

(* Find or the cursor returns an error. *)
FindFails ==
  /\ asked # NoQuery
  /\ Respond(asked, "INTERNAL_ERROR", NoRows)

-----------------------------------------------------------------------------
QueryNext ==
  \/ Next /\ UNCHANGED reader
  \/ \E q \in Queries : Ask(q)
  \/ \E d \in DOMAIN rows : Read(d)
  \/ Finish
  \/ FindFails

QuerySpec == QueryInit /\ [][QueryNext]_qvars

-----------------------------------------------------------------------------
(* The revenue of a day an answer shows: a restaurant's or a branch's own, *)
(* the platform's summed over currencies.                                  *)
RevenueOn(a, day) ==
  SumFunction([d \in {d \in DOMAIN a.rows : d.date = day} |-> a.rows[d].revenue])

(* The routes whose collections the handlers update no sooner than route's. *)
NotAhead(route) ==
  CASE route = "restaurants" -> {"restaurants", "branches", "platform"}
    [] route = "branches"    -> {"branches", "platform"}
    [] route = "platform"    -> {"platform"}
    [] route = "products"    -> {}

(* Reading against the flow takes nothing back: with one instance, what    *)
(* the platform or a branch has told a client of a day's revenue, its      *)
(* restaurant's answer, asked for next, contains; nor does the same query  *)
(* asked again show less (analytics_service.go:47-103,                     *)
(* restaurant_day_repo.go:80-101).  For one restaurant with one branch and *)
(* amounts that are not negative.                                          *)
ReadAgainstTheFlow ==
  [][ /\ answer.code = "OK" /\ answer'.code = "OK"
      /\ answer.query.route \in NotAhead(answer'.query.route)
      => \A d \in DOMAIN answer.rows :
           d.date \in answer'.query.from..answer'.query.to
             => RevenueOn(answer, d.date) <= RevenueOn(answer', d.date) ]_answer

(* m falls into the range and to the restaurant or branch of q. *)
Concerns(m, q) ==
  /\ m.payload.at \in q.from..q.to
  /\ CASE q.route = "restaurants" -> m.payload.restaurant = q.id
       [] q.route = "branches"    -> m.payload.branch = q.id
       [] q.route = "platform"    -> TRUE
       [] q.route = "products"    -> FALSE

(* Reading one's acks: while nothing fails, an answer contains every order *)
(* of its days whose copies were all acked when the query was asked,       *)
(* although Find takes no snapshot and the consumer goes on                *)
(* (consumer.go:51-73, restaurant_day_repo.go:80-101).  For orders that    *)
(* carry their day.                                                        *)
AckedIsVisible ==
  [][ asked # NoQuery /\ asked' = NoQuery /\ answer'.code = "OK"
      => SumFunction([d \in DOMAIN answer'.rows |-> answer'.rows[d].revenue])
           >= Amount({m \in acked : Concerns(m, asked)}) ]_qvars
=============================================================================
