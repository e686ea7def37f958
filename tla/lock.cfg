CONSTANTS
  Cgis = {c1, c2}
  Objects = {o1, o2, o3, o4}
  None = None
  MayFail = TRUE
SPECIFICATION FairSpec
INVARIANTS TypeOK OneHolder TakenHasHolder ExclusionUntilClosed
PROPERTIES TakenIsReleased
CHECK_DEADLOCK FALSE
