CONSTANTS
  Handlers = {g1, g2}
  Characters = {1, 2}
  Asked = {1}
  Slots <- SlotsMC
  MaxRow = 2
SYMMETRY Alike
SPECIFICATION Spec
INVARIANTS TypeOK ShowsWhereItIs ReadsOthersOnlyIf DifferOnlyIf
PROPERTIES LeavesOnlyIf
CHECK_DEADLOCK FALSE
