SPECIFICATION FairSpec
CONSTANTS
  s1 = s1  p1 = p1  x = x  y = y  z = z
  Drives <- OneOfEach
  Streams = {s1}
  Budgets = {2}
  Limits = {2}
  Signs = {x}
  NoSign = z
  HardCap = 2
  Adds = {2}
  Kicks = {TRUE, FALSE}
  NoGoal = NoGoal
  NoRearm = NoRearm
  Idle = Idle
  Free = Free
  MaxArmings = 2
  MaxJobs = 1
  MaxEvents = 1
  MaxLost = 1
  Faults = {"cut", "crash"}
INVARIANTS BudgetKept 
PROPERTIES GiveUpStops EveryDriveEnds
CHECK_DEADLOCK FALSE
