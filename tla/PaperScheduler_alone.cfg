\* Invocations one after another, that may die, fail and outlive the lock.
CONSTANTS
  Invocations = {p1, p2, p3}
  MaxRunsPerDay = 1
  FailureBackoff = 3
  LockTtl = 2
  ScheduledTime = 1
  DayLength = 4
  MaxClock = 7
  Alone = TRUE
  Timely = FALSE
  MayAbandon = TRUE
  NoFile = NoFile
  Torn = Torn
SYMMETRY MCSymmetry
SPECIFICATION Spec
INVARIANTS
  WithinDailyLimit
  StateReadable
PROPERTIES
  BackoffHeld
CHECK_DEADLOCK FALSE
