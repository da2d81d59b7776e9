SPECIFICATION FairSpec
CONSTANTS
  t1 = t1
  t2 = t2
  t3 = t3
  k1 = k1
  k2 = k2
  o1 = o1
  w1 = w1
  w2 = w2
  c1 = c1
  c2 = c2
  NoTask = NoTask
  Tasks <- TwoTasks
  KeyOf <- OwnKeys
  OwnerOf <- OneUser2
  Keys = {k1, k2}
  Owners = {o1}
  Workers = {w1}
  Clients = {c1}
  MaxPending = 2
  MaxHistory = 2
  Slots = 1
  MaxBatch = 2
  MaxRetries = 1
  MaxRestarts = 1
  LossyTasks = {}
  OwnerLimit = 2
PROPERTIES ImplementsLifecycle StopCommits QueuedMovesOn RequestsEnd
