CONSTANTS
  m1 = m1
  m2 = m2
  NoAsk = NoAsk
  Msgs = {m1, m2}
  MaxTurns = 3
  MaxFires = 0
  MaxAsks = 2
  MaxCalls = 2
  AutoAnswers = 1
  Faults = {}
  MaxFaults = 0
SPECIFICATION Spec
INVARIANTS HeardOnce
CHECK_DEADLOCK FALSE
