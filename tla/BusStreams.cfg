CONSTANTS
  x = x
  Nothing = Nothing
  Consoles = {x}
  RingSize = 2
  MaxQueue = 3
  MaxWire = 1
  MaxSeq = 5
  MaxPosted = 1
  BusFaults = {"drop", "restart"}
  MaxBusFaults = 2
SPECIFICATION BusFairSpec
PROPERTIES FeedSafe InOrder EventsArrive
CHECK_DEADLOCK FALSE
