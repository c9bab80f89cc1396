CONSTANTS
  x = x
  NoRecipe = NoRecipe
  NoRun = NoRun
  Idle = Idle
  Runs = {x}
  Steps = {1, 2, 3}
  Shapes = {"chain", "join", "side", "short", "twin"}
  Recipes <- MCRecipes
  Streaming = {TRUE, FALSE}
  MayHang = {2}
  MaxSaves = 1
  MaxAsks = 1
  Faults = {"cancel", "crash"}
  MaxFaults = 1
SPECIFICATION FairSpec
INVARIANTS PausedIsComplete
PROPERTIES RunsOnce GateHolds PassEnds ApprovedRuns
CHECK_DEADLOCK FALSE
