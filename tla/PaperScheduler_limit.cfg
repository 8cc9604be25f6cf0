\* Two invocations that overlap, against the limit the runbook promises.
CONSTANTS
  Invocations = {p1, p2}
  MaxRunsPerDay = 1
  FailureBackoff = 3
  LockTtl = 2
  ScheduledTime = 1
  DayLength = 4
  MaxClock = 3
  Alone = FALSE
  Timely = TRUE
  MayAbandon = FALSE
  NoFile = NoFile
  Torn = Torn
SYMMETRY MCSymmetry
SPECIFICATION Spec
INVARIANTS
  WithinDailyLimit
CHECK_DEADLOCK FALSE
