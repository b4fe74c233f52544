-------------------------- MODULE AtMostOnceLedger --------------------------
(***************************************************************************)
(* What the analytics service promises of its aggregates while the dedup   *)
(* markers last: of the updates an event stands for, each is made at most  *)
(* once, in order, and once the handling of an event is over, complete or  *)
(* not, nothing is added for it again.                                     *)
(*                                                                         *)
(* No queue, no process, no marker and no fault appears here: EventPipeline*)
(* says how the promise is kept.                                           *)
(***************************************************************************)
EXTENDS Naturals

CONSTANTS
  Events,  \* events the order service may publish
  Size     \* how many updates each of them stands for, a natural number

VARIABLES
  status,  \* of each event: "new", "open" while it is handled, or "closed"
  applied  \* of each event: how many of its updates have been made

ledger == <<status, applied>>

LedgerInit ==
  /\ status = [e \in Events |-> "new"]
  /\ applied = [e \in Events |-> 0]

(* An event is handled for the first time, or is given up at once. *)
Claim(e) ==
  /\ status[e] = "new"
  /\ \E s \in {"open", "closed"} : status' = [status EXCEPT ![e] = s]
  /\ UNCHANGED applied

(* One more of its updates is made; the event may be over with it. *)
Apply(e) ==
  /\ status[e] = "open"
  /\ applied[e] < Size[e]
  /\ applied' = [applied EXCEPT ![e] = @ + 1]
  /\ \/ status' = [status EXCEPT ![e] = "closed"]
     \/ applied'[e] < Size[e] /\ UNCHANGED status

(* Its handling ends before the last update. *)
Abandon(e) ==
  /\ status[e] = "open"
  /\ status' = [status EXCEPT ![e] = "closed"]
  /\ UNCHANGED applied

LedgerNext == \E e \in Events : Claim(e) \/ Apply(e) \/ Abandon(e)

LedgerSpec == LedgerInit /\ [][LedgerNext]_ledger
=============================================================================
