CONSTANTS
  x = x
  y = y
  p = p
  q = q
  NoLimit = NoLimit
  NoRow = NoRow
  NoFire = NoFire
  NoOwner = NoOwner
  Ids = {x}
  Instances = {p}
  Periods = {1, 2}
  Dates = {2, 3}
  Limits = {NoLimit, 1, 2}
  Lifetimes = {NoLimit, 1}
  MaxTime = 4
  MaxEditions = 3
  Window = 2
  ReuseIds = FALSE
  PastDates = FALSE
  Faults = {"refused", "storeFault"}
  MaxFaults = 1
SPECIFICATION Spec
INVARIANT FiredHasRun
PROPERTIES OneShotOnce ExpiryEarned
CHECK_DEADLOCK FALSE
