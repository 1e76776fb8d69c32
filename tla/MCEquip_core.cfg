SPECIFICATION Spec
VIEW RowsView
CONSTANTS
  top = top
  bottom = bottom
  overall = overall
  hat = hat
  toy = toy
  Items = {top, bottom, overall, hat, toy}
  Overalls = {overall}
  Cash = {hat}
  Unlisted = {toy}
  SlotOf <- MCSlotOf
  CommandSlots <- MCCommandSlots
  MoveSlots <- AllSlots
  MaxQuantity = 2
  MaxId = 3
INVARIANTS
  TypeOK
  SlotsUnique
PROPERTIES
  StraysOnlyByMove
  MeetsOnlyByMove
  EquipPutsOn
  EventsTellTheChange
