SPECIFICATION FairSpec
CONSTANTS
  j1 = j1
  j2 = j2
  u1 = u1
  k1 = k1
  NoJob = NoJob
  Manual = Manual
  Nobody = Nobody
  Jobs <- TwoJobs
  UidOf <- SameUid
  Uids = {u1}
  OtherKeys = {}
  MaxVideos = 2
  InitVideos = 2
  PageSize = 2
  Attempts = 2
  MaxPasses = 2
  WorkerWindow = 1
  MaxPending = 1
  MaxHistory = 1
  MaxChanges = 0
  MaxFaults = 1
  MaxManual = 1
  MaxReruns = 1
INVARIANTS JobsAreSafe
PROPERTIES ImplementsLife StoppingEnds JobsEnd
CHECK_DEADLOCK FALSE
