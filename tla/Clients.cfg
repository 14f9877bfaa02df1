\* Two agencies, three clients, pages of two, two requests beside the walk.
SPECIFICATION ClientsSpec
CONSTANTS
  Agency = {a1, a2}
  Ref = {x}
  Request = {r1, r2}
  None = None
  PageSize = 2
  MaxClients = 3
SYMMETRY Threads
INVARIANTS PagesComplete
PROPERTIES AuditTellsAll
CHECK_DEADLOCK FALSE
