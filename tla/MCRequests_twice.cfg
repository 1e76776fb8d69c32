CONSTANTS
  Handlers = {g1, g2}
  Characters = {1, 2}
  Asked = {1}
  Slots <- OneTop
  MaxRow = 1
SYMMETRY Alike
SPECIFICATION Spec
PROPERTIES TakesOnlyItsOwn
CHECK_DEADLOCK FALSE
