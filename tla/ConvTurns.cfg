CONSTANTS
  m1 = m1
  m2 = m2
  NoAsk = NoAsk
  Msgs = {m1, m2}
  MaxTurns = 3
  MaxFires = 1
  MaxAsks = 2
  MaxCalls = 2
  AutoAnswers = 1
  Faults = {"post", "stop", "stall", "error", "overflow", "clear", "crash"}
  MaxFaults = 1
SPECIFICATION FairSpec
INVARIANTS Kept
PROPERTIES OwnAnswer HeldIsHeard TurnsEnd
CHECK_DEADLOCK FALSE
