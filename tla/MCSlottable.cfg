SPECIFICATION Spec
CONSTANTS
  MaxSlot = 4
  MaxRows = 5
  Inputs <- MCInputs
INVARIANTS
  TypeOK
  ReturnsFirstFree
  SpinsOnlyOnDuplicate
PROPERTIES
  DistinctReturns
