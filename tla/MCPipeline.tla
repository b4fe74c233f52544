----------------------------- MODULE MCPipeline -----------------------------
(***************************************************************************)
(* Workloads for EventPipeline: what the order service may publish, and    *)
(* how many faults may happen.                                             *)
(***************************************************************************)
EXTENDS PipelineTotals, TLC

CONSTANTS r1, r2, b1, b2, b3, e1, e2, e3, e4, e5, egp, usd

Sent(key, id, payload) ==
  [key |-> key, wellFormed |-> TRUE, id |-> id, payload |-> payload]

Body(r, b, amount, cur, at, items) ==
  [restaurant |-> r, branch |-> b, amount |-> amount, currency |-> cur,
   at |-> at, items |-> items]

Sold(p, q) == [product |-> p, quantity |-> q]

(* Two orders of one restaurant and two branches; one has no currency, no  *)
(* date and an item that does not count.                                   *)
TwoOrders ==
  { Sent("order.placed", e1, Body(r1, b1, 5, egp, 0, <<>>)),
    Sent("order.placed", e2, Body(r1, b2, 3, NoCurrency, NoDate, <<Sold(0, 1)>>)) }

(* One order, one event of a type no handler is registered for, one whose  *)
(* payload does not decode, an envelope that does not decode and one       *)
(* without an event_id.                                                    *)
OddEvents ==
  { Sent("order.placed", e1, Body(r1, b1, 5, egp, 0, <<>>)),
    Sent("order.refunded", e2, Malformed),
    Sent("payment.succeeded", e3, Malformed),
    Sent("order.placed", NoEventId, Body(r1, b1, 5, egp, 0, <<>>)),
    [key |-> "order.placed", wellFormed |-> FALSE, id |-> NoEventId,
     payload |-> Malformed] }

OneOrder == { Sent("order.placed", e1, Body(r1, b1, 5, egp, 0, <<>>)) }

(* Orders of two days, one of them paid and delivered, and one cancelled,  *)
(* maybe before it is counted.                                             *)
TwoLives ==
  { Sent("order.placed", e1, Body(r1, b1, 5, egp, 0, <<Sold(1, 2)>>)),
    Sent("payment.succeeded", e2, Body(r1, b1, 4, egp, 0, <<>>)),
    Sent("order.delivered", e3, Body(r1, b1, 7, NoCurrency, 0, <<>>)),
    Sent("order.placed", e4, Body(r1, b1, 3, egp, 1, <<>>)),
    Sent("order.cancelled", e5, Body(r1, b1, 0, NoCurrency, 1, <<>>)) }

(* Orders of two restaurants, two currencies, two days, several items, one *)
(* product named twice; one order without a date, for whichever day it is  *)
(* handled on, and with items that do not count.                           *)
Baskets ==
  { Sent("order.placed", e1,
         Body(r1, b1, 5, egp, 1, <<Sold(1, 2), Sold(1, 1)>>)),
    Sent("order.placed", e2,
         Body(r1, b2, 3, NoCurrency, NoDate, <<Sold(0, 4), Sold(1, 0), Sold(1, 3)>>)),
    Sent("order.placed", e3,
         Body(r2, b3, 2, usd, 0, <<Sold(2, 1), Sold(1, 1)>>)) }

(* An order of one restaurant and a payment of another. *)
ForeignPayment ==
  { Sent("order.placed", e1, Body(r1, b1, 5, egp, 0, <<>>)),
    Sent("payment.succeeded", e2, Body(r2, b2, 4, egp, 0, <<>>)) }

(* An order and its payment. *)
OwnPayment ==
  { Sent("order.placed", e1, Body(r1, b1, 5, egp, 0, <<>>)),
    Sent("payment.succeeded", e2, Body(r1, b1, 4, egp, 0, <<>>)) }

Faults(stop, mongo, drop) ==
  [k \in FaultKinds |-> CASE k = "stop" -> stop
                          [] k = "mongo" -> mongo
                          [] k = "drop" -> drop]

NoFault   == Faults(0, 0, 0)
OneEach   == Faults(1, 1, 1)
OneStop   == Faults(1, 0, 0)
OneMongo  == Faults(0, 1, 0)
StopMongo == Faults(1, 1, 0)

Interchangeable == Permutations(Copies) \cup Permutations(Instances)
=============================================================================
