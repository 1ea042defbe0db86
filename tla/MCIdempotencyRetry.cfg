\* Two requests with one body, no fault; a client may go away.
SPECIFICATION Spec
CONSTANTS
  Requests = {r1, r2}
  Bodies = {b1}
  Invalid = {}
  None = None
  MaxFaults = 0
  MaxDisconnects = 1
  SlowHandlers = FALSE
INVARIANT
  AtMostOneLead
CHECK_DEADLOCK FALSE
