SPECIFICATION Spec
CONSTANTS
  Keys = {"brightness", "backlight"}
  Scale = 4
  Procs = {p1, p2}
  MaxPolls = 2
  MaxFifo = 1
  Null = Null
  SourceLists <- MCSourceLists
  FieldSets <- MCFieldSets
  Fallback <- MCFallback
  SetRequests <- MCSetRequests
  MoveRequests <- MCMoveRequests
INVARIANTS
  TypeOK
  FilterFollows
  ReportedValueKept
PROPERTY EveryRequestAnswered
