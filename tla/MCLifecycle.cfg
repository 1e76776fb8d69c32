CONSTANTS
  Handlers = {h1, h2}
  Names = {"Ann", "ann", "!"}
  WellFormed = {"Ann", "ann"}
  Lower <- MCLower
  Levels <- MCLevels
  Maps = {"town", "field"}
  MaxId = 2
  None = None
SPECIFICATION Spec
INVARIANTS TypeOK TwinsMissedEachOther FiveInventories TopicKnowsTheMap
PROPERTY MapChangesChain
