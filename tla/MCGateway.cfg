SPECIFICATION Spec
CHECK_DEADLOCK FALSE
SYMMETRY MCSymmetry
CONSTANTS
  Requests = {r1, r2, r3}
  Routes = {"score", "job", "metrics"}
  RateLimitPerMinute = 2
  ScoreLimitPerMinute = 1
  MaxMinute = 2
  MaxLag = 1
  MaxFaults = 1
  None = None
INVARIANTS
  TypeOK
  AtMostLimitPerWindow
  BurstBounded
  RefusalsEarned
  LeakOnlyIfInterrupted
  MetricsAccount
