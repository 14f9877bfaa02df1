\* Every server over three versions and four suites; every answer of it to every
\* probe.
SPECIFICATION Spec
CONSTANTS
  rc4 = rc4
  export = export
  anon = anon
  aes = aes
  Protocols <- MCProtocols
  Weak = {"SSLv3", "TLSv1"}
  TLS13 = "TLSv1.3"
  Groups <- MCGroups
  Suite = {rc4, export, anon, aes}
  Markers <- MCMarkers
  Offered <- MCOffered
  ProbedGroups <- MCProbedGroups
  MaxConnections = 7
  Negotiable = {"TLSv1", "TLSv1.3"}
  Strict = {"TLSv1.3"}
  None = None
INVARIANTS NothingPassedOver FindingsTrue BudgetSuffices
CHECK_DEADLOCK FALSE
