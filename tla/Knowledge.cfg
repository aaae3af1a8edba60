SPECIFICATION FairSpec
CONSTANTS
  a1 = a1
  a2 = a2
  None = None
  Agents <- TwoAgents
  Items = 2
  Fragments = 2
  MaxCrashes = 2
INVARIANTS RowsFormPrefix GapsAreOwn
PROPERTY AgentsStart
CHECK_DEADLOCK FALSE
