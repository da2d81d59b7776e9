SPECIFICATION FairSpec
CONSTANTS
  Parts = 1
  MaxRuns = 2
  MaxEvents = 2
CHECK_DEADLOCK FALSE
INVARIANTS EndsAreSafe
PROPERTIES EndStands RunEnds
