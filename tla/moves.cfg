SPECIFICATION Spec
CONSTANTS
  One = 1
  p1 = p1
  p2 = p2
  Procs = {p1, p2}
  Null = Null
  Nodes <- MCNodes
  Requests <- MCRequests
  PresetAt <- MCPresetAt
  HomeAt <- MCHomeAt
INVARIANTS TypeOK ReportedPositionKept
PROPERTY MovesAsAsked
CHECK_DEADLOCK FALSE
