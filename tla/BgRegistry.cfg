CONSTANTS
  a1 = a1
  a2 = a2
  t = t
  w = w
  fan = fan
  s1 = s1
  s2 = s2
  NoBatch = NoBatch
  NoSession = NoSession
  Jobs = {t, w}
  FanoutJobs = {}
  OtherJobs = {w}
  Batches = {}
  Sessions = {s1, s2}
  WorkJobs = {w}
  IncognitoJobs = {w}
  PanelJobs = {t, w}
  MayHang = {}
  MaxConcurrency = 1
  AutoResume = TRUE
  WakeEnabled = TRUE
  Faults = {"delivery", "rpcError", "storeFault", "timeout", "nudge", "nudgeTimeout", "stall", "cancelRpc", "restart"}
  MaxFaults = 2
  BatchOf <- MCBatchOf
  OriginOf <- MCOriginOf
  BatchOrigin <- MCBatchOrigin
SPECIFICATION Spec
INVARIANTS WorkAnnouncedOnce NeverBoth
PROPERTIES DeliverySafe
