SPECIFICATION FairSpec
CONSTANTS
  Junk <- MCJunk
  Surroundings <- MCSurroundings
  Longest = 2
  Files <- MCFiles
  Signals = {"kill", "other"}
  MaxSignals = 2
INVARIANTS TypeOK PlantsInProgram NothingRunsUntraced BranchesReal
PROPERTY StopNoticed
CHECK_DEADLOCK FALSE
