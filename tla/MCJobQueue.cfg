\* Safety and liveness: two jobs, two workers, two faults and one SIGTERM.
SPECIFICATION Spec
CONSTANTS
  EmbedJobs = {e1}
  ScoreJobs = {s1}
  Workers = {w1, w2}
  None = None
  MaxFaults = 2
  MaxStops = 1
INVARIANTS
  TypeOK
  ExclusiveOwner
  AtMostOneScore
  OutcomeMatchesScore
  EventsFollowRow
  LostOnlyIfInterrupted
PROPERTIES
  FinalIsFinal
  ImplementsLifecycle
  EveryJobProgresses
