CONSTANTS
  a1 = a1
  a2 = a2
  t = t
  w = w
  fan = fan
  s1 = s1
  s2 = s2
  NoBatch = NoBatch
  NoSession = NoSession
  Jobs = {a1, a2}
  FanoutJobs = {a1, a2}
  OtherJobs = {}
  Batches = {fan}
  Sessions = {s1}
  WorkJobs = {}
  IncognitoJobs = {}
  PanelJobs = {a1}
  MayHang = {a1}
  MaxConcurrency = 2
  AutoResume = TRUE
  WakeEnabled = TRUE
  Faults = {"delivery", "timeout", "cancelRpc"}
  MaxFaults = 2
  BatchOf <- MCBatchOf
  OriginOf <- MCOriginOf
  BatchOrigin <- MCBatchOrigin
SPECIFICATION FairSpec
INVARIANTS HeldIsCovered PushedOnce
PROPERTIES RunningSettles
