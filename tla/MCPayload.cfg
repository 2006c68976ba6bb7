SPECIFICATION FairSpec
CONSTANTS
  Units <- MCUnits
  Parameters <- MCParameters
  ArgumentRegisters = 2
  MaxParams = 3
INVARIANTS LinksFollowed OnlyStructuresThrow SecondLookupAgrees
PROPERTY Finishes
CHECK_DEADLOCK FALSE
