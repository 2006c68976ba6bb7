SPECIFICATION Spec
CONSTANTS
  Shapes <- MCShapes
  Nesting <- MCNesting
  MaxDies = 7
INVARIANTS TypeOK OwnMembers ParametersInPlace FaultsContained
CHECK_DEADLOCK FALSE
