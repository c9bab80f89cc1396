CONSTANTS
  a = a
  b = b
  k = k
  NoKey = NoKey
  Chat = Chat
  Nobody = Nobody
  Callers = {a, b}
  Keys = {k}
  Posts <- MCPosts
  MaxItems = 2
  MaxFires = 1
  Faults = {"locked", "refused", "crash"}
  MaxFaults = 1
SPECIFICATION FairSpec
INVARIANTS NothingLost PendingIsTold
PROPERTIES NowSettles
CHECK_DEADLOCK FALSE
