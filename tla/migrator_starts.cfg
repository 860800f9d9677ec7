SPECIFICATION FairSpec
CONSTANTS
  r1 = r1
  r2 = r2
  None = None
  Replica = {r1, r2}
  Table <- MCTable
  Plan <- MCPlan
  MaxStops = 2
INVARIANTS
  MigratorsApart
  RecordedIsComplete
  NothingAfterRecord
PROPERTIES
  StartsComeUp
CHECK_DEADLOCK FALSE
