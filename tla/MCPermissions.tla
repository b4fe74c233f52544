---------------------------- MODULE MCPermissions ----------------------------
(***************************************************************************)
(* Requests for PermissionCache.                                           *)
(***************************************************************************)
EXTENDS PermissionCache, TLC

CONSTANTS i1, i2, k1, k2, k3, manager, owner, system_admin, none

Asks(k, i, role, restaurantRole) ==
  [client |-> k, at |-> i, token |-> "valid", role |-> role,
   restaurantRole |-> restaurantRole]

NoToken == [client |-> k1, at |-> i1, token |-> "none", role |-> manager,
            restaurantRole |-> none]

(* Two requests of a role at one instance. *)
Pair == { Asks(k1, i1, manager, none), Asks(k2, i1, manager, none) }

(* For Pair, whose requests differ in their client only. *)
Interchangeable == Permutations(Clients) \cup Permutations(Events)
=============================================================================
