------------------------------ MODULE MCQueries ------------------------------
(***************************************************************************)
(* Queries for DaysQuery, asked while MCPipeline's workloads are handled.  *)
(***************************************************************************)
EXTENDS DaysQuery, MCPipeline

CONSTANT badId

DaysOf(route, id, from, to) ==
  [route |-> route, id |-> id, from |-> from, to |-> to]

(* Every route, over both days of TwoLives or the first one, an id and a   *)
(* date that do not parse, and days in the wrong order.                    *)
EveryRoute ==
  { DaysOf("restaurants", r1, 0, 1), DaysOf("branches", b1, 0, 0),
    DaysOf("products", r1, 0, 0), DaysOf("platform", r1, 0, 1),
    DaysOf("branches", BadId, Missing, 1), DaysOf("restaurants", r1, 2, 1) }
=============================================================================
