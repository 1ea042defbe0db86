\* Three requests with two valid bodies and an invalid one, two faults, one disconnect.
SPECIFICATION Spec
CONSTANTS
  Requests = {r1, r2, r3}
  Bodies = {b1, b2, bad}
  Invalid = {bad}
  None = None
  MaxFaults = 2
  MaxDisconnects = 1
  SlowHandlers = TRUE
SYMMETRY RequestSymmetry
INVARIANTS
  TypeOK
  Protected
  ResponseMatchesHash
  ReplaySound
  AnswersAreTrue
  OneBodyPerKey
PROPERTIES
  ForeignLockSafe
  ImplementsKeyedCreation
CHECK_DEADLOCK FALSE
