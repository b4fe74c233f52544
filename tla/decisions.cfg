SPECIFICATION Spec
CONSTANTS
  i1 = i1
  i2 = i2
  k1 = k1
  k2 = k2
  k3 = k3
  manager = manager
  owner = owner
  system_admin = system_admin
  none = none
  Instances = {i1}
  Roles = {manager}
  Admin = system_admin
  NoRole = none
  Clients = {k1, k2, k3}
  Requests <- Pair
  Events = {n1, n2}
  TTL = 2
  Timeout = 1
  Horizon = 3
CHECK_DEADLOCK FALSE
SYMMETRY Interchangeable
INVARIANTS
  TypeOK
  OnlyCrossedStale
PROPERTIES
  BoundedStaleness
