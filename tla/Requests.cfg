SPECIFICATION Spec
CONSTANTS
  a1 = a1
  a2 = a2
  c1 = c1
  c2 = c2
  Scan = {1, 2}
  Agency = {a1, a2}
  Host = {h1, h2}
  None = None
  MaxQueued = 1
  MaxQueuedPerAgency = 1
  SnapshotLimit = 3
  Client = {c1, c2}
  ClientAgency <- OneClientEach
  Key = {k1}
  Request = {r1, r2}
  Ttl = 2
  BusyTimeout = 1
  MaxTime = 3
SYMMETRY Interchangeable
INVARIANTS OneScanPerKey AnswerIsOwn KeysLeadToScans
PROPERTIES NoScanForDeletedClient
\* With every client deleted no request gets past its first read, and the
\* clock and the ids are bounded: the model really may stop.
CHECK_DEADLOCK FALSE
