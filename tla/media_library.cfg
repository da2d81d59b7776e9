SPECIFICATION FairSpec
CONSTANTS
  k1 = k1
  k2 = k2
  g1 = g1
  g2 = g2
  c1 = c1
  c2 = c2
  Nobody = Nobody
  NoGroup = NoGroup
  Default = g1
  Groups = {g1, g2}
  Clients = {c1}
  Works = {k1, k2}
  MaxVersions = 2
  MaxEvents = 3
CHECK_DEADLOCK FALSE
INVARIANTS LibraryIsSafe SyncMissesNothing MediaKept
PROPERTIES TranscodesEnd
