SPECIFICATION ServiceSpec
CONSTANTS
  i1 = i1
  i2 = i2
  k1 = k1
  k2 = k2
  k3 = k3
  manager = manager
  owner = owner
  system_admin = system_admin
  none = none
  Instances = {i1}
  Roles = {manager, owner}
  Admin = system_admin
  NoRole = none
  Clients = {k1, k2, k3}
  Requests <- Visits
  Events = {}
  TTL = 1
  Timeout = 1
  Horizon = 0
INVARIANTS
  ServiceTypeOK
  ReadyToConsume
  DrainAnswers
PROPERTIES
  Stops
  Answered
