SPECIFICATION FairSpec
CONSTANTS
  a = a
  b = b
  k1 = k1
  c1 = c1
  c2 = c2
  Cleaner = Cleaner
  Nobody = Nobody
  Tasks = {a, b}
  Keys = {k1}
  KeyOf <- OneKey
  UserKeys = {k1}
  Zipped = {a}
  Clients = {c1}
  MaxEvents = 3
CHECK_DEADLOCK FALSE
INVARIANTS ExportsAreSafe
PROPERTIES NothingLingers
