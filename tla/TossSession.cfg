\* Three requests of one session, refused, failed and expired in any order.
CONSTANTS
  Requests = {r1, r2, r3}
  Lifetimes = {2}
  SafetyMargin = 1
  MaxGeneration = 2
  MaxClock = 1
  None = None
SPECIFICATION Spec
INVARIANTS
  SingleFlight
  SettledIssueForgotten
  RetryIsNewer
  CacheIsConservative
PROPERTIES
  IssueJustified
  EveryRequestEnds
CHECK_DEADLOCK FALSE
