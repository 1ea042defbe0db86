\* No fault at all, one worker receives a SIGTERM, the other stays up.
SPECIFICATION Spec
CONSTANTS
  EmbedJobs = {e1}
  ScoreJobs = {}
  Workers = {w1, w2}
  None = None
  MaxFaults = 0
  MaxStops = 1
PROPERTY
  EveryStartedJobFinishes
