SPECIFICATION Spec
VIEW RowsView
CONSTANTS
  potion = potion
  scroll = scroll
  Items = {potion, scroll}
  CommandSlots <- NamedSlots
  Quantities <- Asked
  Drops <- Dropped
  SlotMax = 3
  Word = 16
  MaxId = 3
INVARIANTS
  TypeOK
  SlotsUnique
PROPERTIES
  CreateGivesWhatWasAsked
  DropTakesWhatWasAsked
  OnlyNamedRows
  EventsTellTheChange
