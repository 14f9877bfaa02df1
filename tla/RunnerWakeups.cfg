SPECIFICATION FairSpec
CONSTANTS
  Scan = {1, 2}
  Agency = {a1}
  Host = {h1, h2}
  None = None
  MaxQueued = 2
  MaxQueuedPerAgency = 2
  SnapshotLimit = 3
  MaxConcurrent = 2
  MaxConcurrentPerAgency = 2
  Request = {r1, r2}
  Waiter = {w1}
  Main = main
  Free = free
  Faults = {"scan", "write", "finish"}
INVARIANTS WorkConserving RunningIsOwned
PROPERTIES IdleMeansIdle EventuallyEnds
