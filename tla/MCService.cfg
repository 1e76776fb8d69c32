SPECIFICATION Spec
VIEW FutureView
CONSTANTS
  overall = overall
  bottom = bottom
  h1 = h1
  h2 = h2
  Nobody = Nobody
  Handlers = {h1, h2}
  Others = {}
  Items = {overall, bottom}
  Overalls = {overall}
  Cash = {}
  Unlisted = {}
  SlotOf <- MCSlotOf
  CommandSlots <- MCCommandSlots
  MoveSlots <- BagSlots
  MaxQuantity = 2
  MaxId = 2
INVARIANTS
  TypeOK
  MutualExclusion
  ScreenShowsTable
PROPERTIES
  Implements
  CommandsFinish
