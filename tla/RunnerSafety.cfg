SPECIFICATION Spec
CONSTANTS
  Scan = {1, 2, 3}
  Agency = {a1, a2, a3}
  Host = {h1, h2, h3}
  None = None
  MaxQueued = 2
  MaxQueuedPerAgency = 1
  SnapshotLimit = 3
  MaxConcurrent = 2
  MaxConcurrentPerAgency = 1
  Request = {r1}
  Waiter = {}
  Main = main
  Free = free
  Faults = {"finish", "fail", "thread", "pump", "start"}
SYMMETRY Interchangeable
INVARIANTS TypeOK LimitsHold WorkersClaimed PumpDiscipline
PROPERTIES ImplementsJob
