\* Safety and liveness: a writer, a reader of what it writes and any third
\* operation, one fault.
SPECIFICATION SortedSpec
CONSTANTS
  Requests = {1, 2, 3}
  None = None
  MaxFaults = 1
INVARIANTS
  TypeOK
  FreshUnlessRaced
  RefreshSeesScore
PROPERTY
  EventuallyFresh
CHECK_DEADLOCK FALSE
