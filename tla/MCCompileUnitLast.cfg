SPECIFICATION Spec
CONSTANTS
  Shapes <- MCShapes
  Nesting <- MCNesting
  MaxDies = 5
INVARIANT AllParameters
CHECK_DEADLOCK FALSE
