SPECIFICATION Spec
CHECK_DEADLOCK FALSE
CONSTANTS
  EmbedJobs = {e1}
  OtherJobs = {s2}
  PageJobs = {s1}
  MaxFaults = 1
  None = None
INVARIANTS
  TypeOK
  FreedByAnotherJob
  ShownIsNewest
PROPERTIES
  ButtonReleased
