\* Invocations that finish within the TTL, but may leave their lock behind.
CONSTANTS
  Invocations = {p1, p2, p3}
  MaxRunsPerDay = 2
  FailureBackoff = 3
  LockTtl = 2
  ScheduledTime = 1
  DayLength = 4
  MaxClock = 5
  Alone = FALSE
  Timely = TRUE
  MayAbandon = TRUE
  NoFile = NoFile
  Torn = Torn
SYMMETRY MCSymmetry
SPECIFICATION Spec
INVARIANTS
  OneAtATime
CHECK_DEADLOCK FALSE
