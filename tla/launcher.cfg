SPECIFICATION FairSpec
CONSTANTS
  l1 = l1
  l2 = l2
  r1 = r1
  r2 = r2
  s1 = s1
  s2 = s2
  Nobody = Nobody
  Launchers = {l1, l2}
  Roots = {r1, r2}
  Sessions = {s1, s2}
  MaxEvents = 1
CHECK_DEADLOCK FALSE
INVARIANTS ServersAreSafe
PROPERTIES OrphansEnd StartEnds
