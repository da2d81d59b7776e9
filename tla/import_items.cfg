SPECIFICATION Spec
CONSTANTS
  j1 = j1
  j2 = j2
  u1 = u1
  k1 = k1
  NoJob = NoJob
  Manual = Manual
  Nobody = Nobody
  Jobs <- OneJob
  UidOf <- Alone
  Uids = {u1}
  OtherKeys = {k1}
  MaxVideos = 4
  InitVideos = 3
  PageSize = 2
  Attempts = 1
  MaxPasses = 2
  WorkerWindow = 1
  MaxPending = 1
  MaxHistory = 2
  MaxChanges = 2
  MaxFaults = 1
  MaxManual = 1
  MaxReruns = 1
INVARIANTS DiscoveryMissesNothing ItemsAreSafe EndIsEarned
PROPERTIES OneLateTask
CHECK_DEADLOCK FALSE
