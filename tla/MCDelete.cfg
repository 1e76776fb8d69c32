SPECIFICATION SpecD
VIEW FutureView
CHECK_DEADLOCK FALSE
CONSTANTS
  top = top
  h1 = h1
  h2 = h2
  deleter = deleter
  Nobody = Nobody
  Handlers = {h1, h2}
  Others = {deleter}
  Items = {top}
  Overalls = {}
  Cash = {}
  Unlisted = {}
  SlotOf <- MCSlotOf
  CommandSlots <- MCCommandSlots
  MoveSlots = {}
  MaxQuantity = 1
  MaxId = 1
INVARIANTS
  DTypeOK
  ExclusionUntilUnregistered
  HangsOnlyIf
PROPERTIES
  DeletedStaysDeleted
