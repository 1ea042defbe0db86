\* One fault, no SIGTERM.
SPECIFICATION Spec
CONSTANTS
  EmbedJobs = {}
  ScoreJobs = {s1}
  Workers = {w1, w2}
  None = None
  MaxFaults = 1
  MaxStops = 0
PROPERTY
  EveryQueuedJobStarts
