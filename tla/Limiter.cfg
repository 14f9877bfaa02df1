SPECIFICATION FairSpec
CONSTANTS
  Host = {h1, h2}
  None = None
  Interval = 2
  MaxRequests = 3
  MaxDuration = 7
  BackoffSeconds = 1
  MaxBackoffSeconds = 3
  RetryAfter = {None, 0, 5}
  MaxTime = 7
  MaxSlowdowns = 2
  Main = Main
  Worker = {w1, w2}
  Paths = 2
  Resends = 1
INVARIANTS BudgetKept PaceKept ReportIsFinal
PROPERTIES StopIsFinal BackoffKept ScanEnds
\* The scan is over once its report is made and the clock has run out.
CHECK_DEADLOCK FALSE
