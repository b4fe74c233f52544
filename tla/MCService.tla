------------------------------ MODULE MCService ------------------------------
(***************************************************************************)
(* Requests for ServiceLifecycle.                                          *)
(***************************************************************************)
EXTENDS ServiceLifecycle, MCPermissions

PartialToken == [NoToken EXCEPT !.token = "partial"]

(* A role held in the restaurant only, an administrator, and requests      *)
(* without a token and with one that lacks a claim.                        *)
Visits == { Asks(k2, i1, manager, owner), Asks(k3, i1, system_admin, owner),
            NoToken, PartialToken }
==============================================================================
