SPECIFICATION Spec
CONSTANTS
  root = root
  guest = guest
  old = old
  new = new
  other = other
  t1 = t1
  t2 = t2
  Nobody = Nobody
  Users = {root, guest}
  Passwords = {old, new, other}
  DefaultAdmin = root
  DefaultPassword = old
  Threads = {t1, t2}
  Created <- InOrder
  KeptBackups = 2
  LateEvents = 3
  MaxLive = 2
  MaxSessions = 3
  MaxEvents = 6
SYMMETRY Symmetric
CHECK_DEADLOCK FALSE
INVARIANTS SessionsAreSafe OldIsKept OneAdmin
PROPERTIES LoginEvictsOldest ImplementsSession
