\* The embed job of the lead and a score job of its page; one fault of the
\* queue, no SIGTERM, and a page that stays connected.
SPECIFICATION LiveSpec
CHECK_DEADLOCK FALSE
CONSTANTS
  EmbedJobs = {e1}
  ScoreJobs = {s1}
  PageJobs = {s1}
  Workers = {w1, w2}
  None = None
  MaxFaults = 1
  MaxStops = 0
  MaxMishaps = 0
SYMMETRY WorkerSymmetry
INVARIANTS
  NobodyWaitsInVain
PROPERTIES
  ImplementsPage
