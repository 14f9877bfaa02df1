\* A key that expires and one that may only read, of one agency, three
\* moments of the clock and two requests at a time.
SPECIFICATION KeysSpec
CONSTANTS
  a1 = a1
  k1 = k1
  k2 = k2
  Agency = {a1}
  Key = {k1, k2}
  Owner <- MCOwner
  Granted <- MCGranted
  Lifetime <- MCLifetime
  Needed = {"clients:write"}
  Request = {r1, r2}
  None = None
  Resolution = 1
  MaxTime = 2
SYMMETRY Threads
INVARIANTS NoKeyAfterItsEnd
PROPERTIES KeyRowChanges
CHECK_DEADLOCK FALSE
