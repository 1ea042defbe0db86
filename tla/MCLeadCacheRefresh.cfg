\* No fault: the race of a read with a score job.
SPECIFICATION Spec
CONSTANTS
  Requests = {1, 2, 3}
  None = None
  MaxFaults = 0
INVARIANT
  RefreshSeesLatestScore
CHECK_DEADLOCK FALSE
