SPECIFICATION Spec
CONSTANTS
  r1 = r1
  r2 = r2
  b1 = b1
  b2 = b2
  b3 = b3
  e1 = e1
  e2 = e2
  e3 = e3
  e4 = e4
  e5 = e5
  egp = egp
  usd = usd
  Instances = {i1, i2}
  Copies = {c1, c2, c3, c4}
  Restaurants = {r1, r2}
  Branches = {b1, b2, b3}
  Products = {0, 1, 2}
  Currencies = {egp, usd}
  DefaultCurrency = egp
  NoCurrency = none
  EventIds = {e1, e2, e3}
  NoEventId = noId
  Malformed = malformed
  Messages <- Baskets
  NoMessage = noMessage
  NoCopy = noCopy
  Prefetch = 1
  DayLength = 1
  DedupTTL = 3
  Horizon = 2
  Quota <- NoFault
CHECK_DEADLOCK FALSE
SYMMETRY Interchangeable
INVARIANTS
  ExactWhenQuiet
