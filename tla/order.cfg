SPECIFICATION Spec
CONSTANTS
  r1 = r1
  r2 = r2
  b1 = b1
  b2 = b2
  b3 = b3
  e1 = e1
  e2 = e2
  e3 = e3
  e4 = e4
  e5 = e5
  egp = egp
  usd = usd
  Instances = {i1}
  Copies = {c1, c2}
  Restaurants = {r1}
  Branches = {b1}
  Products = {0}
  Currencies = {egp}
  DefaultCurrency = egp
  NoCurrency = none
  EventIds = {e1, e2}
  NoEventId = noId
  Malformed = malformed
  Messages <- OwnPayment
  NoMessage = noMessage
  NoCopy = noCopy
  Prefetch = 1
  DayLength = 1
  DedupTTL = 2
  Horizon = 0
  Quota <- NoFault
CHECK_DEADLOCK FALSE
INVARIANTS
  OrderDoesNotMatter
