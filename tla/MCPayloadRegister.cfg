SPECIFICATION Spec
CONSTANTS
  Units <- MCSizedUnits
  Parameters <- MCKnownParameters
  ArgumentRegisters = 6
  MaxParams = 2
INVARIANT RightRegister
CHECK_DEADLOCK FALSE
