SPECIFICATION Spec
CONSTANTS
  Scan = {1, 2, 3}
  Agency = {a1, a2}
  Host = {h1, h2}
  None = None
  MaxQueued = 2
  MaxQueuedPerAgency = 2
  SnapshotLimit = 3
  MaxConcurrent = 2
  MaxConcurrentPerAgency = 1
  Request = {r1}
  Waiter = {}
  Main = main
  Free = free
  Faults = {"thread"}
SYMMETRY Interchangeable
INVARIANT WorkConserving
