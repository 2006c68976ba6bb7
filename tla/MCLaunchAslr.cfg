SPECIFICATION Spec
CONSTANTS
  Junk <- MCJunk
  Surroundings <- MCSurroundings
  Longest = 2
  Files <- MCFiles
  Signals = {}
  MaxSignals = 0
INVARIANT AslrDisabled
CHECK_DEADLOCK FALSE
