CONSTANTS
  Handlers = {h1, h2}
  Characters = {"ann", "bob"}
  Positions = {"origin", "field"}
  Origin = "origin"
  Stances <- MCStances
  Requests <- MCRequests
  None = None
SPECIFICATION Spec
INVARIANTS TypeOK OneLockExcludes DiesOnlyIf
PROPERTIES PortalKeepsStance TasksFinish
