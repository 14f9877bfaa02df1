\* One tab and one other program, two threads, two scans, one report kept, two
\* starts.
SPECIFICATION Spec
CONSTANTS
  here = here
  there = there
  None = None
  CredentialKeys = {"password", "token"}
  AllowedKeys = {"Authorized"}
  SensitiveNames = {"Authorized", "access_token", "token", "password"}
  Tab = {t1}
  Thread = {i1, i2}
  Target = {here, there}
  Calls <- MCCalls
  Callers = {i2}
  MaxStored = 1
  MaxScans = 2
  MaxStarts = 2
INVARIANTS OneScanAtATime DownloadTruthful LinkIsOfShown SessionHolds CredentialAnswered
CHECK_DEADLOCK FALSE
