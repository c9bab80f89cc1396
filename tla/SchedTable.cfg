CONSTANTS
  x = x
  y = y
  p = p
  q = q
  NoLimit = NoLimit
  NoRow = NoRow
  NoFire = NoFire
  NoOwner = NoOwner
  Ids = {x}
  Instances = {p, q}
  Periods = {1}
  Dates = {1, 2}
  Limits = {NoLimit, 1}
  Lifetimes = {NoLimit}
  MaxTime = 3
  MaxEditions = 2
  Window = 2
  ReuseIds = TRUE
  PastDates = TRUE
  Faults = {"refused", "rpcError", "timeout", "stop", "crash", "settleFault"}
  MaxFaults = 2
SPECIFICATION FairSpec
PROPERTIES SingleFlight SlotOnce OneShotFires
INVARIANT TurnsCapped
CHECK_DEADLOCK FALSE
