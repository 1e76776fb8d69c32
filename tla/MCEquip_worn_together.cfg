SPECIFICATION Spec
VIEW RowsView
CONSTANTS
  top = top
  bottom = bottom
  overall = overall
  hat = hat
  toy = toy
  Items = {top, bottom, overall}
  Overalls = {overall}
  Cash = {}
  Unlisted = {}
  SlotOf <- MCSlotOf
  CommandSlots <- MCCommandSlots
  MoveSlots <- AllSlots
  MaxQuantity = 1
  MaxId = 3
INVARIANTS
  OverallExcludesBottom
