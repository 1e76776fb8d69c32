SPECIFICATION Spec
VIEW RowsView
CONSTANTS
  potion = potion
  scroll = scroll
  Items = {potion, scroll}
  CommandSlots <- SlotsWithZero
  Quantities <- Asked
  Drops <- Dropped
  SlotMax = 3
  Word = 16
  MaxId = 2
PROPERTIES
  OnlyNamedRows
