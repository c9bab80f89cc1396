CONSTANTS
  a = a
  b = b
  Nobody = Nobody
  Closer = Closer
  Calls = {a, b}
  MaxOpens = 4
  Faults = {"die", "refuse", "raise", "stop"}
  MaxFaults = 3
SPECIFICATION FairSpec
INVARIANTS NoOrphan HealthyStays
PROPERTIES CloseFrees
CHECK_DEADLOCK FALSE
