SPECIFICATION Spec
CONSTANTS
  l1 = l1
  l2 = l2
  Launchers = {l1, l2}
  MaxJobs = 2
  MaxSaves = 2
  MaxEvents = 2
CHECK_DEADLOCK FALSE
INVARIANTS ExportIsSafe
PROPERTIES ImplementsTriad
SYMMETRY Symmetric
CONSTRAINT Undisturbed
