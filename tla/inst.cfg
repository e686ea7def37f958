CONSTANTS
  Pids = {p1, p2, p3, p4}
  NoPid = NoPid
SPECIFICATION Spec
INVARIANTS TypeOK OnlyOneRuns MemoryLeftByCrash
SYMMETRY MCSymmetry
CHECK_DEADLOCK FALSE
